SPECIFICATION Spec
CONSTANTS
    Tasks = {t1}
    Runners = {r1, r2}
    NoTask = NoTask
    Retries = 2
    MaxRetries <- MCMaxRetries
    Modes = {"auto"}
    LockReliable = TRUE
    BrokerMayFail = FALSE
    DbMayFail = FALSE
    PollersCrash = FALSE
    MaxFaults = 0
    MaxRedrives = 0
    MaxQueue = 2
    MaxAttempt = 3
SYMMETRY RunnerSymmetry
CONSTRAINT SmallInstance
CHECK_DEADLOCK FALSE
PROPERTY CancelledStays
