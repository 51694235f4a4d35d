SPECIFICATION Spec
CONSTANTS
    PageSize = 2
    NumPages = 3
    LocalSize = 3
    Bytes = {0, 1}
    ChunkSize = 2
    WordSize = 64
    Files <- MCFiles
    None = None
INVARIANTS
    CallsCorrect
    PointersPinned
\* a behaviour is one call
CHECK_DEADLOCK FALSE
