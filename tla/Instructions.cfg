CONSTANTS
    f1 = f1
    f2 = f2
    x1 = x1
    None = None
    NumPages = 4
    NumPartitions = 1
    Quota = 2
    NumSlots = 2
    MaxUserPins = 1
    Frames = {f1, f2}
    Values = {x1}
SPECIFICATION ISpec
SYMMETRY Symmetry
INVARIANTS
    PointerSafe
    StoresKept
    PinsCounted
    TrapTransparent
    OperandsSafe
