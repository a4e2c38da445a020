SPECIFICATION MCSpec
CONSTANTS
    r1 = r1
    r2 = r2
    k1 = k1
    k2 = k2
    h1 = h1
    h2 = h2
    t1 = t1
    x1 = x1
    x2 = x2
    None = None
    Runs = {1, 2}
    NoRun = 0
    Passwords = {1, 2, 3, 4, 5}
    OriginalLimit = 2
    GuardMinimum = 8
    MaxFaults = 2
INVARIANTS
    RotationsSound
PROPERTIES
    RecoveriesEnd
    RunsTellTheTruth
    RotationsEnd
CHECK_DEADLOCK FALSE
