\* A request of SIZE_MAX bytes (size_t is 5 bits wide here, so 31) next to
\* ordinary ones: RoundedBytes wraps it to 0.
CONSTANTS
    Threads = {t1, t2}
    MinAllocationSize = 2
    NumBins = 4
    GlobalMemSize = 12
    SystemReserve = 4
    LimitAllocBytes = 8
    MaxInternalFragmentation = 2
    SizeBits = 5
    Requests = {1, 31}
    MaxChunks = 4
    DeviceFree = {8}
    MaxHeld = 1
SPECIFICATION Spec
INVARIANT InUseCoversRequest
