SPECIFICATION Spec
CONSTANTS
    m1 = m1
    m2 = m2
    m3 = m3
    film = film
    book = book
    other = other
    novel = novel
    c1 = c1
    c2 = c2
    h1 = h1
    w1 = w1
    w2 = w2
    None = None
    NoTarget = NoTarget
    Messages = {m1, m2, m3}
    Targets = {film, book, other, novel}
    Kind <- Kinds
    Candidates = {c1, c2}
    HashOf <- OneTorrent
    Workers = {w1, w2}
    Worlds <- OldAndNew
    MaxRows = 2
    MaxRestarts = 0
    MaxRedrives = 1
SYMMETRY Symmetric
INVARIANTS
    OwnedTargetsNotAsked
CHECK_DEADLOCK FALSE
