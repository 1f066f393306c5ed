CONSTANTS
    t1 = t1
    t2 = t2
    Tasks = {t1, t2}
    Title <- MCTitle
    Order <- MCOrder
    Loads <- MCLoads
    Limit = 2
    Runs = {r1}
    None = None
    Forms = {"inline", "modal"}
    Demos = 1
    MaxPolls = 2
    MaxAttempts = 2
    RateLimit = 2
    RedisUp = TRUE
    Filters = {"report"}
    Attempts = 2
    Handlers = {1, 2}
    MaxInFlight = 2
    MaxClicks = 1
    Troubles = {"refuse", "lose", "resend", "expire", "limiter"}
    MaxFaults = 1
    MaxEvents = 2
SPECIFICATION FairSpec
INVARIANTS TypeOK ShowsWhatWas OneTaskPerClick ToldTruth
PROPERTIES FinishedStays Converges ProcessingEnds
