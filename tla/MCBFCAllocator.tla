--------------------------- MODULE MCBFCAllocator ---------------------------
(* Model-checking instance of BFCAllocator: the client threads are model    *)
(* values and interchangeable, so their permutations are a symmetry.        *)
EXTENDS BFCAllocator, TLC

ThreadSymmetry == Permutations(Threads)

\* A dead chunk record keeps stale fields that no code reads before
\* SplitChunk or Extend overwrites them (only its next, the free-list link,
\* is read), and a free chunk's requested_size is never read again: the
\* view leaves that data out, so states differing only in it are one.
ChunkView(h) ==
    CASE h \notin 0..(nchunks - 1)  -> chunks[h]
      [] h \notin LiveHandles       -> [NoChunk EXCEPT !.next = chunks[h].next]
      [] ~InUse(chunks[h])          -> [chunks[h] EXCEPT !.requested_size = 0]
      [] OTHER                      -> chunks[h]

View == <<[h \in Slot |-> ChunkView(h)], nchunks, free_chunks_list, bins, handles,
          regions, curr_region_allocation_bytes, total_region_allocated_bytes,
          pc, req, owned, aborted, device_free>>

-----------------------------------------------------------------------------
(* Refinement: the bytes of the regions Extend registered are the reserved  *)
(* memory; each pointer a client holds is a block of its chunk's size and   *)
(* requested_size.                                                          *)

ReservedBytes == UNION {(r.ptr)..(r.ptr + r.size - 1) : r \in ToSet(regions)}

HeldBlocks ==
    UNION {{[owner |-> t, ptr |-> p, size |-> chunks[handles[p]].size,
             req |-> chunks[handles[p]].requested_size] : p \in owned[t]} : t \in Threads}

Abstract == INSTANCE Allocator WITH
    Addresses <- 0..AddrMax, Limit <- MemoryLimit,
    reserved <- ReservedBytes, allocs <- HeldBlocks

\* BFCAllocator implements Allocator: every step of AllocateRaw, Extend and
\* DeallocateRaw is a step of the abstract allocator or leaves its state
\* alone, so held blocks are disjoint, cover their request, lie in
\* reserved memory and never move while held, and reservations only grow.
AllocatorRefined == Abstract!Spec

=============================================================================
