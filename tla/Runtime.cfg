SPECIFICATION RSpec
CONSTANTS
    t1 = t1
    t2 = t2
    Threads = {t1, t2}
    MaxOrder = 1
    LargeThreshold = 1
    total_size = 3
    Files = {f1}
    Values = {x, y}
    FileOrder = 0
    MallocThreshold = 1
    TraceThreshold = 2
    TotalThreshold = 3
    None = None
INVARIANTS
    BlocksDisjoint
    MappingsLoaded
    LazyKeepsStores
    BudgetKept
PROPERTY MmapReturns
\* the application may stop calling the hooks
CHECK_DEADLOCK FALSE
