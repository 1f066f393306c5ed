SPECIFICATION FairSpec
CONSTANTS
    Tasks = {t1}
    Runners = {r1, r2}
    NoTask = NoTask
    Retries = 2
    MaxRetries <- MCMaxRetries
    Modes = {"auto"}
    LockReliable = TRUE
    BrokerMayFail = TRUE
    DbMayFail = FALSE
    PollersCrash = FALSE
    MaxFaults = 1
    MaxRedrives = 0
    MaxQueue = 2
    MaxAttempt = 3
CHECK_DEADLOCK FALSE
PROPERTY Settles
