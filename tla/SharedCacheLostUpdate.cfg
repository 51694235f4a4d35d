CONSTANTS
    c1 = c1
    c2 = c2
    v1 = v1
    v2 = v2
    v3 = v3
    p1 = p1
    p2 = p2
    x1 = x1
    None = None
    Clients = {c1, c2}
    VPages = {v1, v2, v3}
    PPages = {p1, p2}
    Values = {x1}
    MaxComms = 3
    MaxHeld = 1
    MaxRetry = 1
    MaxDrift = 0
SPECIFICATION Spec
PROPERTY ImplementsAddressSpace
