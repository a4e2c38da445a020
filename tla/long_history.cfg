SPECIFICATION FairSpec
CONSTANTS
    r1 = r1
    r2 = r2
    w1 = w1
    w2 = w2
    p1 = p1
    p2 = p2
    Requests = {r1}
    Works = {w1}
    Providers = {p1, p2}
    None = None
    Policy <- LibraryFirst
    RetryLimit = 3
    MaxCrashes = 2
    MaxFaults = 2
INVARIANTS
    SubmittedOnce
    HistoryConsistent
PROPERTIES
    NoFallbackAfterMutation
    NothingHangs
CHECK_DEADLOCK FALSE
