---------------------------- MODULE BFCAllocator ----------------------------
(***************************************************************************)
(* The best-fit-with-coalescing device allocator of                        *)
(* src/xla/stream_executor/sycl/bfc_allocator.cc (class BFCAllocator).     *)
(*                                                                         *)
(* Sizes and addresses are in bytes, at a reduced scale: MinAllocationSize *)
(* stands for kMinAllocationSize (256) and size_t arithmetic is taken      *)
(* modulo 2^SizeBits.  The allocator metadata (the chunk table chunks_,    *)
(* its free list, the bins and the region manager's handle map) is held    *)
(* in VARIABLES; the C++ helpers that mutate it (SplitChunk, Merge, ...)   *)
(* are operators from a metadata record to a metadata record, so that a    *)
(* public call is one action that composes exactly the helpers it calls.   *)
(*                                                                         *)
(* Every public call runs under the single mutex lock_, so only whole      *)
(* calls interleave.  The one exception is Extend: each ITEX_GPUMalloc     *)
(* call in its back-off loop is a step of its own, taken with the lock     *)
(* held, because the device's answer is outside the allocator's control:  *)
(* it depends on device_free, the largest reservation the device would    *)
(* grant now.  Only the environment (the other users of the device, and    *)
(* the runtime) sets it, at any time (DeviceChurn); a DeviceFree of one    *)
(* value is a device that always answers alike.                            *)
(* A failed CHECK aborts the process: the model records it in `aborted`.   *)
(***************************************************************************)
EXTENDS Integers, Sequences, FiniteSets, FiniteSetsExt, SequencesExt

CONSTANTS
    Threads,                  \* client threads calling AllocateRaw/DeallocateRaw
    MinAllocationSize,        \* kMinAllocationSize
    NumBins,                  \* kNumBins
    GlobalMemSize,            \* device global_mem_size
    SystemReserve,            \* the 800MB left to the runtime (ctor, l.69)
    LimitAllocBytes,          \* LimitAlloc(): cap on one region (env/XeHPC)
    MaxInternalFragmentation, \* kMaxInternalFragmentation (128MB)
    SizeBits,                 \* width of size_t
    Requests,                 \* num_bytes values clients pass to AllocateRaw
    MaxChunks,                \* bound on chunks_.size()
    DeviceFree,               \* what other device users may leave free
    MaxHeld                   \* bound on the pointers one client holds at once

ASSUME /\ MinAllocationSize \in Nat \ {0}
       /\ NumBins \in Nat \ {0}
       /\ Requests \subseteq Nat \ {0}
       /\ MaxChunks \in Nat \ {0}
       /\ DeviceFree \subseteq Nat

SizeMax == 2^SizeBits
Invalid == -1                 \* kInvalidChunkHandle and kInvalidBinNum
Handle == 0..(MaxChunks - 1)
Slot == 0..MaxChunks          \* Handle plus the slot a too-large resize would add
Bin == 0..(NumBins - 1)

\* memory_limit_ = global_mem_size - 800MB, in size_t (BFCAllocator ctor).
MemoryLimit == (GlobalMemSize - SystemReserve) % SizeMax

\* Device addresses the regions can occupy; 0 is nullptr.
AddrMax == 2 * MemoryLimit + 2 * MinAllocationSize
Addr == {k * MinAllocationSize : k \in 0..(AddrMax \div MinAllocationSize)}

\* The default (value-initialised) Chunk a resize of chunks_ produces.
NoChunk == [ptr |-> 0, size |-> 0, requested_size |-> 0, allocation_id |-> -1,
            prev |-> Invalid, next |-> Invalid, bin_num |-> Invalid]

InUse(c) == c.allocation_id # -1

-----------------------------------------------------------------------------
(* Size arithmetic                                                          *)

\* Mutation of RoundedBytes: rounds down instead of up.
RoundedBytesDown(bytes) ==
    MinAllocationSize * ((bytes % SizeMax) \div MinAllocationSize)

\* RoundedBytes: round up to kMinAllocationSize, with size_t wrap-around.
RoundedBytes(bytes) ==
    MinAllocationSize * (((bytes + MinAllocationSize - 1) % SizeMax) \div MinAllocationSize)

RECURSIVE Log2Floor(_)
Log2Floor(v) == IF v < 2 THEN 0 ELSE 1 + Log2Floor(v \div 2)

\* BinNumForSize (bfc_allocator.h): bin b holds sizes in
\* [MinAllocationSize * 2^b, MinAllocationSize * 2^(b+1)), the last bin
\* is open-ended; sizes below MinAllocationSize fall in bin 0.
BinNumForSize(bytes) ==
    Min({NumBins - 1,
         Log2Floor(Max({bytes, MinAllocationSize}) \div MinAllocationSize)})

\* Mutation of Precedes: a comparator on ptr alone.
PrecedesByPtr(cs, h1, h2) == cs[h1].ptr =< cs[h2].ptr

\* The ChunkComparator order of a bin's free_chunks set: (size, ptr).
Precedes(cs, h1, h2) ==
    \/ cs[h1].size < cs[h2].size
    \/ cs[h1].size = cs[h2].size /\ cs[h1].ptr =< cs[h2].ptr

\* One iteration of Extend's back-off loop: bytes * kBackpedalFactor (0.9f,
\* truncated to size_t), then RoundedBytes, at the real granule of 256
\* bytes.  The product of k granules is floor(230.4 * k) = floor(1152k / 5)
\* bytes (the float error of 0.9f changes no result after the rounding up),
\* rounded up to whole granules: ceil(0.9k) granules for every k, so for
\* k =< 9 the loop asks for the same size again.  The model's
\* MinAllocationSize is that granule, so the value returned is in its units.
Backpedal(bytes) ==
    LET k == bytes \div MinAllocationSize
    IN  MinAllocationSize * ((((1152 * k) \div 5) + 255) \div 256)

\* The doubling loop of Extend: `while (rounded_bytes > curr) curr *= 2`.
\* Returns -1 when the loop never ends (curr has wrapped to 0).
RECURSIVE GrowTarget(_, _)
GrowTarget(curr, rounded) ==
    IF rounded =< curr THEN curr
    ELSE IF curr = 0 THEN -1
    ELSE GrowTarget((curr * 2) % SizeMax, rounded)

-----------------------------------------------------------------------------
VARIABLES
    chunks,             \* chunks_: Chunk records indexed by handle
    nchunks,            \* chunks_.size()
    free_chunks_list,   \* free_chunks_list_: head of the dead-handle list
    bins,               \* bins_[b].free_chunks as a set of handles
    handles,            \* region_manager_ handle map: address -> handle
    regions,            \* region_manager_.regions(): <<[ptr, size]>>
    curr_region_allocation_bytes,
    total_region_allocated_bytes,
    pc,                 \* per thread: "idle", "malloc" (in Extend's loop),
                        \* "register" (ITEX_GPUMalloc returned), "spin"
    req,                \* per thread: locals of the AllocateRaw call in Extend
    owned,              \* per thread: the pointers it was handed and holds
    aborted,            \* a CHECK failed: the process is gone
    device_free         \* the largest reservation ITEX_GPUMalloc would grant now

heapVars == <<chunks, nchunks, free_chunks_list, bins, handles>>
vars == <<chunks, nchunks, free_chunks_list, bins, handles, regions,
          curr_region_allocation_bytes, total_region_allocated_bytes,
          pc, req, owned, aborted, device_free>>

NoReq == [rounded |-> 0, num_bytes |-> 0, bin_num |-> 0, bytes |-> 0,
          increased |-> FALSE]

-----------------------------------------------------------------------------
(* The chunk graph.  The free list is threaded through the next field of    *)
(* dead chunks (DeallocateChunk); a handle below nchunks is live iff it is  *)
(* not on that list.                                                        *)

RECURSIVE ChainFrom(_, _, _)
ChainFrom(cs, h, n) ==
    IF h = Invalid \/ n = 0 THEN <<>> ELSE <<h>> \o ChainFrom(cs, cs[h].next, n - 1)

FreeListSeq == ChainFrom(chunks, free_chunks_list, MaxChunks + 1)
LiveHandles == (0..(nchunks - 1)) \ ToSet(FreeListSeq)
FreeLive == {h \in LiveHandles : ~InUse(chunks[h])}

-----------------------------------------------------------------------------
(* Metadata transformers: one per helper of bfc_allocator.cc.  A record m   *)
(* carries chunks, nchunks, free, bins, handles and ok (no CHECK failed).   *)

Meta == [chunks |-> chunks, nchunks |-> nchunks, free |-> free_chunks_list,
         bins |-> bins, handles |-> handles, ok |-> TRUE]

\* AllocateChunk: pop the free list, or grow chunks_ by one.
AllocateChunk(m) ==
    IF m.free # Invalid
    THEN [h |-> m.free, m |-> [m EXCEPT !.free = m.chunks[m.free].next]]
    ELSE [h |-> m.nchunks, m |-> [m EXCEPT !.nchunks = m.nchunks + 1]]

\* DeallocateChunk: push h on the free list.
DeallocateChunk(m, h) ==
    [m EXCEPT !.chunks[h].allocation_id = -1, !.chunks[h].bin_num = Invalid,
              !.chunks[h].next = m.free, !.free = h]

\* Mutation of DeleteChunk: the region map entry is not erased.
DeleteChunkKeepsHandle(m, h) == DeallocateChunk(m, h)

\* DeleteChunk: erase h's address from the region map, then free the record.
DeleteChunk(m, h) ==
    DeallocateChunk([m EXCEPT !.handles[m.chunks[h].ptr] = Invalid], h)

\* InsertFreeChunkIntoBin: CHECK free and binless, then file under its size.
InsertFreeChunkIntoBin(m, h) ==
    LET c == m.chunks[h]
        b == BinNumForSize(c.size)
    IN [m EXCEPT !.ok = @ /\ ~InUse(c) /\ c.bin_num = Invalid,
                 !.chunks[h].bin_num = b,
                 !.bins[b] = @ \cup {h}]

\* Mutation of RemoveFreeChunkIterFromBin: the erase is forgotten.
RemoveFreeChunkIterFromBinNoErase(m, b, h) ==
    LET c == m.chunks[h]
    IN [m EXCEPT !.ok = @ /\ ~InUse(c) /\ c.bin_num # Invalid,
                 !.chunks[h].bin_num = Invalid]

\* RemoveFreeChunkIterFromBin: erase the iterator's handle from bin b.
RemoveFreeChunkIterFromBin(m, b, h) ==
    LET c == m.chunks[h]
    IN [m EXCEPT !.ok = @ /\ ~InUse(c) /\ c.bin_num # Invalid,
                 !.bins[b] = @ \ {h},
                 !.chunks[h].bin_num = Invalid]

\* RemoveFreeChunkFromBin: CHECK free, binned, and found in its bin.
RemoveFreeChunkFromBin(m, h) ==
    LET c == m.chunks[h]
    IN IF ~InUse(c) /\ c.bin_num # Invalid /\ h \in m.bins[c.bin_num]
       THEN [m EXCEPT !.bins[c.bin_num] = @ \ {h}, !.chunks[h].bin_num = Invalid]
       ELSE [m EXCEPT !.ok = FALSE]

\* Mutation of SplitChunk: the neighbour's prev is not re-linked.
SplitChunkNoBackLink(m, h, num_bytes) ==
    LET a   == AllocateChunk(m)
        hn  == a.h
        c   == a.m.chunks[h]
        new == [a.m.chunks[hn] EXCEPT !.ptr = c.ptr + num_bytes,
                                      !.size = c.size - num_bytes,
                                      !.allocation_id = -1,
                                      !.prev = h, !.next = c.next]
    IN InsertFreeChunkIntoBin(
           [a.m EXCEPT !.chunks = [a.m.chunks EXCEPT ![hn] = new, ![h].size = num_bytes,
                                                     ![h].next = hn],
                       !.handles[new.ptr] = hn], hn)

\* Mutation of SplitChunk: the two sizes subtracted the wrong way round.
SplitChunkSizesSwapped(m, h, num_bytes) ==
    LET a   == AllocateChunk(m)
        hn  == a.h
        c   == a.m.chunks[h]
        nb  == c.next
        new == [a.m.chunks[hn] EXCEPT !.ptr = c.ptr + num_bytes,
                                      !.size = num_bytes - c.size,
                                      !.allocation_id = -1,
                                      !.prev = h, !.next = nb]
        cs1 == [a.m.chunks EXCEPT ![hn] = new, ![h].size = num_bytes, ![h].next = hn]
        cs2 == IF nb # Invalid THEN [cs1 EXCEPT ![nb].prev = hn] ELSE cs1
    IN InsertFreeChunkIntoBin([a.m EXCEPT !.chunks = cs2, !.handles[new.ptr] = hn], hn)

\* SplitChunk(h, num_bytes): h keeps the first num_bytes, a new free chunk
\* takes the rest and is spliced in after h and filed in its bin.
SplitChunk(m, h, num_bytes) ==
    LET a   == AllocateChunk(m)
        hn  == a.h
        c   == a.m.chunks[h]
        nb  == c.next
        new == [a.m.chunks[hn] EXCEPT !.ptr = c.ptr + num_bytes,
                                      !.size = c.size - num_bytes,
                                      !.allocation_id = -1,
                                      !.prev = h, !.next = nb]
        cs1 == [a.m.chunks EXCEPT ![hn] = new, ![h].size = num_bytes, ![h].next = hn]
        cs2 == IF nb # Invalid THEN [cs1 EXCEPT ![nb].prev = hn] ELSE cs1
    IN InsertFreeChunkIntoBin(
           [a.m EXCEPT !.ok = @ /\ ~InUse(c) /\ c.bin_num = Invalid,
                       !.chunks = cs2,
                       !.handles[new.ptr] = hn], hn)

\* Merge(h1, h2): h2 (h1's next) is absorbed into h1 and deleted.
Merge(m, h1, h2) ==
    LET c1  == m.chunks[h1]
        c2  == m.chunks[h2]
        h3  == c2.next
        cs1 == [m.chunks EXCEPT ![h1].next = h3]
        cs2 == IF h3 # Invalid THEN [cs1 EXCEPT ![h3].prev = h1] ELSE cs1
        cs3 == [cs2 EXCEPT ![h1].size = (c1.size + c2.size) % SizeMax]
    IN DeleteChunk([m EXCEPT !.ok = @ /\ ~InUse(c1) /\ ~InUse(c2) /\ c2.prev = h1,
                             !.chunks = cs3], h2)

\* Mutation of TryToCoalesce: only the next neighbour is merged.
TryToCoalesceNextOnly(m, h) ==
    LET n == m.chunks[h].next
    IN IF n # Invalid /\ ~InUse(m.chunks[n])
       THEN [m |-> Merge(RemoveFreeChunkFromBin(m, n), h, n), h |-> h]
       ELSE [m |-> m, h |-> h]

\* Mutation of TryToCoalesce: the free prev is merged without leaving its bin.
TryToCoalescePrevStaysBinned(m, h) ==
    LET n  == m.chunks[h].next
        m1 == IF n # Invalid /\ ~InUse(m.chunks[n])
              THEN Merge(RemoveFreeChunkFromBin(m, n), h, n) ELSE m
        p  == m1.chunks[h].prev
    IN IF p # Invalid /\ ~InUse(m1.chunks[p])
       THEN [m |-> Merge(m1, p, h), h |-> p]
       ELSE [m |-> m1, h |-> h]

\* TryToCoalesce: merge a free next into h, then h into a free prev; returns
\* the surviving handle.
TryToCoalesce(m, h) ==
    LET n  == m.chunks[h].next
        m1 == IF n # Invalid /\ ~InUse(m.chunks[n])
              THEN Merge(RemoveFreeChunkFromBin(m, n), h, n) ELSE m
        p  == m1.chunks[h].prev
    IN IF p # Invalid /\ ~InUse(m1.chunks[p])
       THEN [m |-> Merge(RemoveFreeChunkFromBin(m1, p), p, h), h |-> p]
       ELSE [m |-> m1, h |-> h]

\* FindChunkPtr: scan bins from bin_num up; in a bin take the first chunk in
\* (size, ptr) order that fits; split it when it is at least twice the
\* request or wastes kMaxInternalFragmentation; mark it in use.  ptr 0 is
\* nullptr.
FindChunkPtr(m, bin_num, rounded, num_bytes) ==
    LET Fit(b) == {h \in m.bins[b] : m.chunks[h].size >= rounded}
        found  == {b \in bin_num..(NumBins - 1) : Fit(b) # {}}
    IN IF found = {} THEN [m |-> m, ptr |-> 0]
       ELSE
         LET b  == Min(found)
             h  == CHOOSE x \in Fit(b) : \A y \in Fit(b) : Precedes(m.chunks, x, y)
             m1 == RemoveFreeChunkIterFromBin(m, b, h)
             sz == m1.chunks[h].size
             m2 == IF \/ sz >= (rounded * 2) % SizeMax
                      \/ (sz - rounded) % SizeMax >= MaxInternalFragmentation
                   THEN SplitChunk(m1, h, rounded) ELSE m1
         IN [m |-> [m2 EXCEPT !.chunks[h].requested_size = num_bytes,
                              !.chunks[h].allocation_id = 0],
             ptr |-> m2.chunks[h].ptr]

\* The tail of a successful Extend: one free chunk spanning the new region,
\* registered in the region map and filed in its bin.
AddRegionChunk(m, base, bytes) ==
    LET a == AllocateChunk(m)
        c == [a.m.chunks[a.h] EXCEPT !.ptr = base, !.size = bytes,
                                     !.allocation_id = -1,
                                     !.prev = Invalid, !.next = Invalid]
    IN InsertFreeChunkIntoBin([a.m EXCEPT !.chunks[a.h] = c,
                                          !.handles[base] = a.h], a.h)

-----------------------------------------------------------------------------
(* Region growth (Extend)                                                   *)

\* available_bytes: what memory_limit_ still allows, rounded down.
ExtendAvailable(total) ==
    (((MemoryLimit - total) % SizeMax) \div MinAllocationSize) * MinAllocationSize

\* Mutation of ExtendFailsFast: the early return is left out.
ExtendFailsFastNever(rounded, available) == FALSE

\* Extend returns false at once when what the limit leaves, rounded down,
\* is less than rounded_bytes.
ExtendFailsFast(rounded, available) == rounded > available

\* Mutation of ExtendRequestBytes: available_bytes left out of the min.
ExtendRequestBytesNoAvailable(curr, available) == Min({curr, LimitAllocBytes})

\* The first request size: min(curr, available_bytes, LimitAlloc()).
ExtendRequestBytes(curr, available) == Min({curr, available, LimitAllocBytes})

\* The back-off loop gives up once the shrunk request is below rounded_bytes.
BackoffGivesUp(bytes, rounded) == bytes < rounded

\* ITEX_GPUMalloc places a region at an address of its own choosing; the
\* model places each one past the previous with a gap of one granule.
NewRegionBase ==
    IF regions = <<>> THEN MinAllocationSize
    ELSE Last(regions).ptr + Last(regions).size + MinAllocationSize

-----------------------------------------------------------------------------
(* Actions                                                                  *)

LockFree == \A t \in Threads : pc[t] = "idle"

\* The model's bound on chunks_.size(): a step whose record would need more
\* than MaxChunks chunk slots is not explored.
WithinChunkBound(m) == m.nchunks =< MaxChunks

\* Commit a metadata record (the C++ mutates in place), or abort the
\* process if one of the CHECKs the helpers evaluated failed.
Apply(m) ==
    IF m.ok
    THEN /\ WithinChunkBound(m)
         /\ chunks' = m.chunks /\ nchunks' = m.nchunks
         /\ free_chunks_list' = m.free /\ bins' = m.bins /\ handles' = m.handles
         /\ UNCHANGED aborted
    ELSE /\ aborted' = TRUE
         /\ UNCHANGED heapVars

Give(t, ptr) ==
    owned' = IF ptr # 0 THEN [owned EXCEPT ![t] = @ \cup {ptr}] ELSE owned

\* AllocateRaw(num_bytes) up to the first ITEX_GPUMalloc: round, search the
\* bins; when nothing fits enter Extend, which fails at once if the limit
\* leaves too little, else doubles curr_region_allocation_bytes_ until it
\* covers the request (forever, if it has wrapped to 0).
AllocateRaw(t, num_bytes) ==
    /\ ~aborted
    /\ LockFree
    /\ Cardinality(owned[t]) < MaxHeld
    /\ LET rounded   == RoundedBytes(num_bytes)
           bin_num   == BinNumForSize(rounded)
           f         == FindChunkPtr(Meta, bin_num, rounded, num_bytes)
           available == ExtendAvailable(total_region_allocated_bytes)
           target    == GrowTarget(curr_region_allocation_bytes, rounded)
       IN \/ /\ f.ptr # 0
             /\ Apply(f.m)
             /\ Give(t, f.ptr)
             /\ UNCHANGED <<regions, curr_region_allocation_bytes,
                            total_region_allocated_bytes, pc, req, device_free>>
          \/ /\ f.ptr = 0
             /\ IF ExtendFailsFast(rounded, available)
                THEN UNCHANGED vars
                ELSE /\ pc' = [pc EXCEPT ![t] = IF target = -1 THEN "spin" ELSE "malloc"]
                     /\ curr_region_allocation_bytes' = IF target = -1 THEN 0 ELSE target
                     /\ req' = IF target = -1 THEN req
                              ELSE [req EXCEPT ![t] =
                                  [rounded |-> rounded, num_bytes |-> num_bytes,
                                   bin_num |-> bin_num,
                                   bytes |-> ExtendRequestBytes(target, available),
                                   increased |-> target # curr_region_allocation_bytes]]
                     /\ UNCHANGED <<heapVars, regions, total_region_allocated_bytes,
                                    owned, aborted, device_free>>

\* One ITEX_GPUMalloc(device_, bytes) of Extend's loop.  The device grants
\* the region if it has the bytes free.  On nullptr shrink by
\* kBackpedalFactor and retry, or give up, so that Extend and AllocateRaw
\* return failure.
GPUMalloc(t) ==
    /\ pc[t] = "malloc"
    /\ LET bytes == req[t].bytes
           less  == Backpedal(bytes)
       IN \/ /\ bytes =< device_free
             /\ pc' = [pc EXCEPT ![t] = "register"]
             /\ UNCHANGED req
          \/ /\ bytes > device_free
             /\ IF BackoffGivesUp(less, req[t].rounded)
                THEN /\ pc' = [pc EXCEPT ![t] = "idle"]
                     /\ req' = [req EXCEPT ![t] = NoReq]
                ELSE /\ req' = [req EXCEPT ![t].bytes = less]
                     /\ UNCHANGED pc
    /\ UNCHANGED <<heapVars, regions, curr_region_allocation_bytes,
                   total_region_allocated_bytes, owned, aborted, device_free>>

\* The rest of a successful Extend: double the target unless this call
\* already did, record the region, add one free chunk for it; then the
\* second FindChunkPtr of AllocateRaw; the call returns and the lock is
\* released.
RegisterRegion(t) ==
    /\ pc[t] = "register"
    /\ LET r    == req[t]
           base == NewRegionBase
           f    == FindChunkPtr(AddRegionChunk(Meta, base, r.bytes),
                                r.bin_num, r.rounded, r.num_bytes)
       IN /\ Apply(f.m)
          /\ Give(t, f.ptr)
          /\ regions' = Append(regions, [ptr |-> base, size |-> r.bytes])
          /\ curr_region_allocation_bytes' =
                IF r.increased THEN curr_region_allocation_bytes
                ELSE (curr_region_allocation_bytes * 2) % SizeMax
          /\ total_region_allocated_bytes' =
                (total_region_allocated_bytes + r.bytes) % SizeMax
          /\ pc' = [pc EXCEPT ![t] = "idle"]
          /\ req' = [req EXCEPT ![t] = NoReq]
    /\ UNCHANGED device_free

\* Other users of the device allocate or free device memory, at any time.
DeviceChurn ==
    /\ \E n \in DeviceFree \ {device_free} : device_free' = n
    /\ UNCHANGED <<heapVars, regions, curr_region_allocation_bytes,
                   total_region_allocated_bytes, pc, req, owned, aborted>>

\* Mutation of DeallocateRaw: the chunk is not marked free.
DeallocateRawKeepsInUse(t, ptr) ==
    /\ ~aborted
    /\ LockFree
    /\ ptr \in owned[t]
    /\ LET h == handles[ptr]
       IN IF h = Invalid
          THEN aborted' = TRUE /\ UNCHANGED heapVars
          ELSE LET r == TryToCoalesce(Meta, h)
               IN Apply(InsertFreeChunkIntoBin(r.m, r.h))
    /\ owned' = [owned EXCEPT ![t] = @ \ {ptr}]
    /\ UNCHANGED <<regions, curr_region_allocation_bytes,
                   total_region_allocated_bytes, pc, req, device_free>>

\* DeallocateRaw(ptr): resolve the handle (CHECK it exists), mark the chunk
\* free, coalesce with free neighbours and file the survivor in its bin.
DeallocateRaw(t, ptr) ==
    /\ ~aborted
    /\ LockFree
    /\ ptr \in owned[t]
    /\ LET h == handles[ptr]
       IN IF h = Invalid
          THEN aborted' = TRUE /\ UNCHANGED heapVars
          ELSE LET r == TryToCoalesce([Meta EXCEPT !.chunks[h].allocation_id = -1], h)
               IN Apply(InsertFreeChunkIntoBin(r.m, r.h))
    /\ owned' = [owned EXCEPT ![t] = @ \ {ptr}]
    /\ UNCHANGED <<regions, curr_region_allocation_bytes,
                   total_region_allocated_bytes, pc, req, device_free>>

-----------------------------------------------------------------------------
Init ==
    /\ chunks = [h \in Slot |-> NoChunk]
    /\ nchunks = 0
    /\ free_chunks_list = Invalid
    /\ bins = [b \in Bin |-> {}]
    /\ handles = [a \in Addr |-> Invalid]
    /\ regions = <<>>
    /\ curr_region_allocation_bytes = RoundedBytes(MemoryLimit)
    /\ total_region_allocated_bytes = 0
    /\ pc = [t \in Threads |-> "idle"]
    /\ req = [t \in Threads |-> NoReq]
    /\ owned = [t \in Threads |-> {}]
    /\ aborted = FALSE
    /\ device_free \in DeviceFree

Next ==
    \/ DeviceChurn
    \/ \E t \in Threads :
        \/ \E n \in Requests : AllocateRaw(t, n)
        \/ GPUMalloc(t)
        \/ RegisterRegion(t)
        \/ \E p \in owned[t] : DeallocateRaw(t, p)

\* A thread inside a call keeps running: it waits for nothing but the
\* device, so each of its steps is weakly fair.  Nothing obliges the other
\* users of the device to free memory (DeviceChurn has no fairness).
Fairness ==
    \A t \in Threads : WF_vars(GPUMalloc(t)) /\ WF_vars(RegisterRegion(t))

Spec == Init /\ [][Next]_vars
FairSpec == Spec /\ Fairness

-----------------------------------------------------------------------------
(* Properties                                                               *)

ChunkRec == [ptr : Addr, size : 0..(SizeMax - 1), requested_size : Nat,
             allocation_id : {-1, 0}, prev : Slot \cup {Invalid},
             next : Slot \cup {Invalid}, bin_num : Bin \cup {Invalid}]

TypeOK ==
    /\ chunks \in [Slot -> ChunkRec]
    /\ nchunks \in 0..MaxChunks
    /\ free_chunks_list \in Handle \cup {Invalid}
    /\ bins \in [Bin -> SUBSET Handle]
    /\ handles \in [Addr -> Handle \cup {Invalid}]
    /\ regions \in Seq([ptr : Addr, size : 1..MemoryLimit])
    /\ curr_region_allocation_bytes \in 0..(SizeMax - 1)
    /\ total_region_allocated_bytes \in 0..(SizeMax - 1)
    /\ pc \in [Threads -> {"idle", "malloc", "register", "spin"}]
    /\ owned \in [Threads -> SUBSET Addr]
    /\ aborted \in BOOLEAN
    /\ device_free \in Nat

\* The chunk list of each region, from the chunk the region map holds for
\* its base address.
RegionChain(r) == ChainFrom(chunks, handles[r.ptr], MaxChunks + 1)

\* Invariants 1, 2 and 5 of the allocator (SplitChunk, Merge, Extend,
\* DeallocateChunk): the free list is a finite list of handles below
\* chunks_.size(); every other handle lies on exactly one region's chunk
\* list; each list starts at the region's base with no prev, links prev
\* back to the previous chunk, places each chunk right after the previous
\* one and ends with no next exactly at the region's end.
HeapTiling ==
    /\ Len(FreeListSeq) =< MaxChunks
    /\ IsInjective(FreeListSeq)
    /\ ToSet(FreeListSeq) \subseteq 0..(nchunks - 1)
    /\ LiveHandles = UNION {ToSet(RegionChain(regions[i])) : i \in DOMAIN regions}
    /\ \A i, j \in DOMAIN regions :
          i # j => ToSet(RegionChain(regions[i])) \cap ToSet(RegionChain(regions[j])) = {}
    /\ \A i \in DOMAIN regions :
          LET r == regions[i]
              s == RegionChain(r)
          IN /\ s # <<>> /\ Len(s) =< MaxChunks
             /\ chunks[s[1]].ptr = r.ptr /\ chunks[s[1]].prev = Invalid
             /\ \A k \in 1..Len(s) : chunks[s[k]].size > 0
             /\ \A k \in 1..(Len(s) - 1) :
                   /\ chunks[s[k + 1]].prev = s[k]
                   /\ chunks[s[k + 1]].ptr = chunks[s[k]].ptr + chunks[s[k]].size
             /\ chunks[Last(s)].ptr + chunks[Last(s)].size = r.ptr + r.size

\* Invariant 3 (InsertFreeChunkIntoBin, RemoveFreeChunk*FromBin): a live
\* chunk is in a bin iff it is free, in exactly the bin its bin_num names,
\* and that is the bin of its current size.
BinsMirrorFreeChunks ==
    /\ \A b \in Bin : \A h \in bins[b] : h \in FreeLive /\ chunks[h].bin_num = b
    /\ \A h \in FreeLive : /\ chunks[h].bin_num = BinNumForSize(chunks[h].size)
                           /\ h \in bins[chunks[h].bin_num]

\* Invariant 4 (set_handle in SplitChunk/Extend, erase in DeleteChunk): the
\* region map resolves exactly the live chunks' base addresses, each to
\* its own chunk.
RegionMapResolves ==
    /\ \A h \in LiveHandles : handles[chunks[h].ptr] = h
    /\ \A a \in Addr : handles[a] # Invalid =>
          handles[a] \in LiveHandles /\ chunks[handles[a]].ptr = a

\* TryToCoalesce on every DeallocateRaw leaves no two neighbouring free
\* chunks.
FullyCoalesced ==
    \A h \in FreeLive : chunks[h].next # Invalid => InUse(chunks[chunks[h].next])

\* The pointers the clients hold (from AllocateRaw, given back through
\* DeallocateRaw) are exactly the in-use chunks, each held by one client.
AllocationsExclusive ==
    /\ \A t \in Threads : \A p \in owned[t] :
          handles[p] \in LiveHandles /\ InUse(chunks[handles[p]])
    /\ \A h \in LiveHandles : InUse(chunks[h]) =>
          \E t \in Threads : /\ chunks[h].ptr \in owned[t]
                             /\ \A u \in Threads \ {t} : chunks[h].ptr \notin owned[u]

\* A pointer AllocateRaw returns spans at least the bytes asked for
\* (requested_size, set by FindChunkPtr).
InUseCoversRequest ==
    \A h \in LiveHandles : InUse(chunks[h]) => chunks[h].size >= chunks[h].requested_size

\* No CHECK of the allocator fails while clients free only what they hold.
NoCheckFailure == ~aborted

\* Extend never reserves more from the device than memory_limit_ allows.
ReservedWithinLimit ==
    FoldLeft(LAMBDA acc, r : acc + r.size, 0, regions) =< MemoryLimit

\* Best fit (spec, testable properties): a call served from the bins hands
\* out a chunk that was, before the call, a free chunk of the smallest size
\* that covers the rounded request.
BestFit ==
    [][\A t \in Threads : \A p \in owned'[t] \ owned[t] :
         pc[t] = "idle" =>
           LET h    == handles'[p]
               need == RoundedBytes(chunks'[h].requested_size)
               fits == {g \in FreeLive : chunks[g].size >= need}
           IN /\ h \in fits
              /\ \A g \in fits : chunks[h].size =< chunks[g].size]_vars

\* AllocateRaw retries FindChunkPtr once after a successful Extend, on the
\* promise that growth leaves a free chunk of at least rounded_bytes: a
\* call that reserved a new region returns a pointer.
GrowthServesRequest ==
    [][\A t \in Threads :
         (pc[t] = "register" /\ pc'[t] = "idle")
            => owned'[t] # owned[t]]_vars

\* Every AllocateRaw call that enters Extend returns (and releases lock_).
AllocateTerminates == \A t \in Threads : pc[t] # "idle" ~> pc[t] = "idle"

=============================================================================
