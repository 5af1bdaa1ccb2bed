CONSTANTS
    Keys = {k1, k2}
    None = None
    ChanCap = 1
    MaxSaves = 2
    MaxOther = 1
SPECIFICATION FairSpec
INVARIANTS
    PopperSound
    SavesKept
PROPERTIES
    SavesForwarded
