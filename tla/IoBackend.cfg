SPECIFICATION Spec
CONSTANTS
    num_partitions = 2
    num_vpages = 3
    Reqs = {r1, r2}
    Values = {z, x}
    Zero = z
    Backends = {"DummyIO", "MemCopy", "AIO", "IOURing", "SPDK"}
    Depth = 1
    None = None
INVARIANT FinishPointersValid
PROPERTIES
    ImplementsBlockDevice
    RequestsEnd
\* a server whose AIO backend threw has stopped
CHECK_DEADLOCK FALSE
