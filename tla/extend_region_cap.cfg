\* LimitAlloc() (4 bytes here; 4GB by default off XeHPC) below a request
\* (6 bytes after rounding) that the pool limit (16 bytes) still allows.
CONSTANTS
    Threads = {t1}
    MinAllocationSize = 2
    NumBins = 4
    GlobalMemSize = 20
    SystemReserve = 4
    LimitAllocBytes = 4
    MaxInternalFragmentation = 2
    SizeBits = 8
    Requests = {5}
    MaxChunks = 4
    DeviceFree = {16}
    MaxHeld = 1
SPECIFICATION Spec
PROPERTY GrowthServesRequest
