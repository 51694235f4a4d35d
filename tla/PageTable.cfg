SPECIFICATION Spec
CONSTANTS
    Clients = {c1, c2}
    Pages = {0, 1, 8, 16}
    Pack = 2
    NumFrames = 2
    MaxPinned = 2
    None = None
SYMMETRY ClientSymmetry
INVARIANTS
    PointersMapped
    RefsOnLine
    LinesConserved
    HintsStay
PROPERTY
    WalksGetShorter
CHECK_DEADLOCK FALSE
