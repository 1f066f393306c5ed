SPECIFICATION FairSpec
CONSTANTS
    cron = cron
    every = every
    once = once
    Schedules = {cron, every}
    Loops = {l1, l2}
    Electing = {l1, l2}
    Interval <- MCInterval
    Cron = {cron}
    CronNext <- MCCronNext
    Never = Never
    NoSchedule = NoSchedule
    LockReliable = TRUE
    MaxTime = 3
    MaxFaults = 1
CHECK_DEADLOCK FALSE
INVARIANT TypeOK
PROPERTIES OncePerOccurrence LeaderContract DueFires
