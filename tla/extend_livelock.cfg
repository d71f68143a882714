\* One client asks for one byte of an empty 8-byte pool while the device
\* has only 4 bytes free: enough for the rounded request (2), less than
\* the 8 (4 granules) Extend asks for.  0.9 of 4 granules rounds up to 4
\* again, so the back-off never shrinks the request nor gives up.  Each
\* step of the calling thread is weakly fair.
CONSTANTS
    Threads = {t1}
    MinAllocationSize = 2
    NumBins = 4
    GlobalMemSize = 12
    SystemReserve = 4
    LimitAllocBytes = 8
    MaxInternalFragmentation = 2
    SizeBits = 8
    Requests = {1}
    MaxChunks = 4
    DeviceFree = {4}
    MaxHeld = 1
SPECIFICATION FairSpec
PROPERTY AllocateTerminates
