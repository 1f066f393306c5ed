SPECIFICATION FairSpec
CONSTANTS
    MaxRetries = 2
    MaxRedrives = 1
    MaxFaults = 2
    MaxGeneral = 2
    Webhook = TRUE
    Handlers = {h1}
CHECK_DEADLOCK FALSE
INVARIANTS TypeOK ShownWasTrue RepeatsNeedCrash Accounted
PROPERTIES StreamForward EndHeard FollowersEnd QueueDrains
