SPECIFICATION Spec
CONSTANTS
    k1 = k1
    k2 = k2
    t1 = t1
    Ticker = Ticker
    NoTimer = NoTimer
    Client <- MCClient
    Task <- MCTask
    Retriable <- MCRetriable
    LastStage = 2
    MaxAttempt = 2
    MaxSends = 3
    MaxChallenges = 2
    MaxFaults = 1
SYMMETRY MCSymmetry
INVARIANTS TypeOK FinishedOnce MergedOnce EmptyIsTimed
CHECK_DEADLOCK FALSE
