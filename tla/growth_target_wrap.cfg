\* curr_region_allocation_bytes_ starts at the 8-byte pool limit and
\* doubles on every successful Extend; with size_t 5 bits wide it wraps to
\* 0 after two, and regions capped at 2 bytes allow a third Extend.  The
\* thread then spins with lock_ held, so nothing else can run: the system
\* stops, and deadlock is not what this run is about.
CONSTANTS
    Threads = {t1}
    MinAllocationSize = 2
    NumBins = 4
    GlobalMemSize = 12
    SystemReserve = 4
    LimitAllocBytes = 2
    MaxInternalFragmentation = 2
    SizeBits = 5
    Requests = {1}
    MaxChunks = 5
    DeviceFree = {8}
    MaxHeld = 4
SPECIFICATION FairSpec
PROPERTY AllocateTerminates
CHECK_DEADLOCK FALSE
