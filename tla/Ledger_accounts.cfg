SPECIFICATION Spec
CONSTANTS
    u1 = u1
    u2 = u2
    k1 = k1
    k2 = k2
    Session = {s1, s2}
    User = {u1, u2}
    Key = {k1, k2}
    NoKey = NoKey
    Nobody = Nobody
    NoWork = NoWork
    Members <- OneMember
    Request <- Postings
    MaxAccount = 5
    MaxSends = 2
    MaxFaults = 0
INVARIANTS
    AccountIsReturned
CHECK_DEADLOCK FALSE
