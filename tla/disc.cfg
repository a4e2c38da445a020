SPECIFICATION FairSpec
CONSTANTS
    d1 = d1
    d2 = d2
    Discs = {d1, d2}
    Nobody = Nobody
    Kinds <- AllKinds
    Scenes <- TwoScenes
INVARIANTS
    MediaSound
    OnePost
PROPERTIES
    TerminalStays
    DeliveriesEnd
CHECK_DEADLOCK FALSE
