SPECIFICATION FairSpec
CONSTANTS
    r1 = r1
    r2 = r2
    w1 = w1
    w2 = w2
    p1 = p1
    p2 = p2
    Requests = {r1, r2}
    Works = {w1}
    Providers = {p1}
    None = None
    Policy <- LibraryOnly
    RetryLimit = 2
    MaxCrashes = 1
    MaxFaults = 0
PROPERTIES
    NothingHangs
CHECK_DEADLOCK FALSE
