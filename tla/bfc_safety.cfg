\* Heap structure and region growth under two clients: a 16-byte pool in
\* 2-byte granules, regions capped at 10 bytes by LimitAlloc so that the
\* pool grows in a region of 10 and one of what the limit leaves (6), four
\* bins, and a device that has either nothing or everything free and
\* changes its answer at any time (a refused Extend spins until it does).
CONSTANTS
    Threads = {t1, t2}
    MinAllocationSize = 2
    NumBins = 4
    GlobalMemSize = 20
    SystemReserve = 4
    LimitAllocBytes = 10
    MaxInternalFragmentation = 2
    SizeBits = 8
    Requests = {1, 5, 8}
    MaxChunks = 6
    DeviceFree = {0, 16}
    MaxHeld = 2
SPECIFICATION Spec
SYMMETRY ThreadSymmetry
VIEW View
INVARIANT TypeOK
INVARIANT HeapTiling
INVARIANT BinsMirrorFreeChunks
INVARIANT RegionMapResolves
INVARIANT FullyCoalesced
INVARIANT AllocationsExclusive
INVARIANT InUseCoversRequest
INVARIANT NoCheckFailure
PROPERTY BestFit
PROPERTY AllocatorRefined
INVARIANT ReservedWithinLimit
PROPERTY GrowthServesRequest
