--------------------------- MODULE MCAdminSession ---------------------------
(* AdminSession for TLC: two accounts that are administrators, one that may *)
(* be registered, and four kinds of traffic.                                *)
EXTENDS AdminSession, TLC

CONSTANTS a1, a2, a3, p1, p2, pl, m1, m2

MCEarlyRows == a1 :> [password |-> p1, mail |-> m1]
            @@ a2 :> [password |-> p1, mail |-> None]
            @@ a3 :> None

MCEarlyAdmins == <<[account |-> a1, level |-> 2], [account |-> a2, level |-> 2]>>

SignUp(a, p, m) == [kind |-> "SignUp", account |-> a, password |-> p, mail |-> m]
Modify(a, p, m) == [kind |-> "Modify", account |-> a, password |-> p, mail |-> m]
RsRegister(a, p) == [kind |-> "RsRegister", account |-> a, password |-> p]
RsModify(a, p) == [kind |-> "RsModify", account |-> a, password |-> p]
Verify(a, p) == [kind |-> "Verify", account |-> a, password |-> p]
Add(c, a, l) == [kind |-> "AddAdmin", cookie |-> c, account |-> a, level |-> l]
Del(c, a) == [kind |-> "DelAdmin", cookie |-> c, account |-> a]

\* One workload for each choice of the four messages.
Traffic(time, fail, S1, S2, S3, S4) ==
    {[until |-> time, mayFail |-> fail, msg |-> m] :
        m \in {f \in [1..4 -> S1 \union S2 \union S3 \union S4] :
                 f[1] \in S1 /\ f[2] \in S2 /\ f[3] \in S3 /\ f[4] \in S4}}

\* Several register a name while passwords change.
Registrations ==
    Traffic(0, {2, 3}, {SignUp(a3, p1, m1)},
            {SignUp(a3, p2, m2), SignUp(a3, pl, m2), RsRegister(a3, p2)},
            {Modify(a3, p2, m1), Modify(a3, p2, m2), RsModify(a3, p2),
             RsModify(a1, p2)},
            {RsRegister(a3, p1), SignUp(a2, p2, m2)})

\* Administrators are made while their passwords change.
Additions ==
    Traffic(0, {3}, {Verify(a1, p1), Verify(a1, p2)}, {Modify(a1, p2, m1)},
            {Add(1, a3, 1)}, {SignUp(a3, p1, m1)})
    \union
    Traffic(0, {2, 4}, {Verify(a1, p1)}, {Add(1, a1, 1), Add(1, a2, 1)},
            {Add(1, a2, 2)}, {Del(1, a2)})

\* Two administrators remove each other.
Removals ==
    Traffic(2, {1}, {Verify(a1, p1)}, {Verify(a2, p1)}, {Del(1, a2)},
            {Del(2, a1), Add(2, a1, 1)})

\* Sessions grow old and are removed.
Verifications ==
    Traffic(2, {}, {Verify(a1, p1)}, {Verify(a1, p1)}, {Verify(a1, p1)},
            {RsModify(a1, p2)})

MCWorkloads == Registrations \union Additions \union Removals \union Verifications
=============================================================================
