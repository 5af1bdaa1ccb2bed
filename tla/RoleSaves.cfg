CONSTANTS
    Uids = {u1}
    ServerIds = {s1, s2, s3}
    None = None
    Unread = Unread
    MaxSaves = 2
SPECIFICATION Spec
SYMMETRY Symmetry
PROPERTY
    NoSaveOverwritten
