CONSTANTS
    t1 = t1
    t2 = t2
    t3 = t3
    Clients = {t1, t2, t3}
    RefCounts = 4
    MaxDrift = 1
SPECIFICATION Spec
SYMMETRY Symmetry
INVARIANTS
    RefCountExact
    ReportsBalanced
    LockExcludesPins
    DirtyKept
    DecAssertion
