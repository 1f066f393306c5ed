SPECIFICATION Spec
CONSTANTS
    Tasks = {t1}
    Runners = {r1, r2}
    NoTask = NoTask
    Retries = 2
    MaxRetries <- MCMaxRetries
    Modes = {"auto", "manual"}
    LockReliable = TRUE
    BrokerMayFail = TRUE
    DbMayFail = TRUE
    PollersCrash = TRUE
    MaxFaults = 1
    MaxRedrives = 1
    MaxQueue = 2
    MaxAttempt = 3
SYMMETRY RunnerSymmetry
CONSTRAINT SmallInstance
CHECK_DEADLOCK FALSE
INVARIANTS TypeOK MutualExclusion CompletionsBounded
PROPERTY LifeContract
