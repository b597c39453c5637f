SPECIFICATION Spec
CONSTANTS
    s1 = s1
    s2 = s2
    None = None
    Session <- MCSession
    Duration <- MCDuration
    Reminders <- MCReminders
    Notice = 4
    LastWords = 1
    CancelShown = 2
    Settle = 1
    Grace = 2
    DrainTick = 1
    BatchSize = 1
    BatchInterval = 1
    Horizon = 8
    MaxTimers = 4
PROPERTIES
    ShutsDownOnSchedule
CHECK_DEADLOCK FALSE
