SPECIFICATION Spec
CONSTANTS
    r1 = r1
    r2 = r2
    w1 = w1
    w2 = w2
    p1 = p1
    p2 = p2
    Requests = {r1}
    Works = {w1}
    Providers = {p1}
    None = None
    Policy <- LibraryOnly
    RetryLimit = 1
    MaxCrashes = 0
    MaxFaults = 0
SYMMETRY Symmetric
INVARIANTS
    SuccessKeepsIdentifiers
CHECK_DEADLOCK FALSE
