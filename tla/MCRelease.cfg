SPECIFICATION FairSpec
CONSTANTS
    a = a
    b = b
    c = c
    Tasks = {a, b, c}
    Resolvers = {w1, w2}
    Schedulers = {s1}
    NoTask = NoTask
    DependsOn <- Workflow
    Delayed = {b}
CHECK_DEADLOCK FALSE
INVARIANTS TypeOK NoLostWakeup
PROPERTIES LifeContract PrereqsFirst CountdownFirst EventuallyReleased
