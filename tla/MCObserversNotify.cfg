SPECIFICATION FairSpec
CONSTANTS
    MaxRetries = 2
    MaxRedrives = 0
    MaxFaults = 0
    MaxGeneral = 1
    Webhook = TRUE
    Handlers = {h1}
CHECK_DEADLOCK FALSE
PROPERTIES OutcomeNotified
