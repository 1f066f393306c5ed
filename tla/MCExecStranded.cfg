SPECIFICATION FairSpec
CONSTANTS
    Tasks = {t1}
    Runners = {r1, r2}
    NoTask = NoTask
    Retries = 1
    MaxRetries <- MCMaxRetries
    Modes = {"auto"}
    LockReliable = TRUE
    BrokerMayFail = FALSE
    DbMayFail = FALSE
    PollersCrash = TRUE
    MaxFaults = 1
    MaxRedrives = 0
    MaxQueue = 2
    MaxAttempt = 3
CHECK_DEADLOCK FALSE
PROPERTY Settles
