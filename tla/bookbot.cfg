SPECIFICATION Spec
CONSTANTS
    t1 = t1
    t2 = t2
    a1 = a1
    Torrents = {t1, t2}
    Arr = {a1}
    Titles = {x1, x2}
    NoTitle = NoTitle
    Nobody = Nobody
    Foreign = Foreign
    MaxRetries = 2
    Scenes <- TwoScenes
SYMMETRY Symmetric
INVARIANTS
    CopiesSound
PROPERTIES
    NothingDestroyed
CHECK_DEADLOCK FALSE
