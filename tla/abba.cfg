SPECIFICATION MCSpec
CONSTANTS
    r1 = r1
    r2 = r2
    r3 = r3
    k1 = k1
    k2 = k2
    h1 = h1
    h2 = h2
    NoHash = NoHash
    NoCorrelation = NoCorrelation
    NoCandidate = NoCandidate
    Correlations = {r1, r2, r3}
    Candidates = {k1, k2}
    Hashes = {h1, h2}
    MaxChurn = 2
    MaxRestarts = 2
SYMMETRY Symmetric
INVARIANTS
    JournalSound
    AddedOnce
    LedgersAgree
    LedgersRepaired
PROPERTIES
    KeepsTheContract
    RepairIsFinal
CHECK_DEADLOCK FALSE
