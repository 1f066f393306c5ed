SPECIFICATION FairSpec
CONSTANTS
    s1 = s1
    s2 = s2
    b = b
    k1 = k1
    k2 = k2
    sigA = sigA
    sigB = sigB
    Calls = {s1, s2, b}
    Proxied = {s1}
    Attempts = 2
    Items <- Requests
    Batches = {b}
    Keys = {k1, k2}
    Sigs = {sigA, sigB}
    NoKey = NoKey
    NoRow = NoRow
    MaxFaults = 1
    MaxMoves = 2
    MaxCalls = 2
    AutoMode = TRUE
CHECK_DEADLOCK FALSE
INVARIANTS TypeOK OneRowPerKey NamedIsCommitted SameAnswer KeyHonoured
PROPERTIES TwinsOverlap Answered
