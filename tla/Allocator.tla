------------------------------ MODULE Allocator ------------------------------
(***************************************************************************)
(* What a device allocator promises its clients, whatever its data         *)
(* structures: memory it has reserved from the device only grows, within a *)
(* limit; AllocateRaw either returns nothing or a block of reserved memory *)
(* at least as large as the request and disjoint from every block still    *)
(* held; a held block keeps its place and size until its holder frees it; *)
(* DeallocateRaw takes back exactly the block freed.                       *)
(***************************************************************************)
EXTENDS Naturals, FiniteSets

CONSTANTS
    Threads,      \* the clients
    Addresses,    \* the byte addresses memory can be reserved at
    Requests,     \* the byte counts clients ask for
    Limit         \* the most bytes the allocator may reserve

VARIABLES
    reserved,     \* the byte addresses reserved from the device
    allocs        \* the blocks held: [owner, ptr, size, req]

vars == <<reserved, allocs>>

Block == [owner : Threads, ptr : Addresses, size : 1..Limit, req : Requests]

\* The bytes a block spans.
Span(a) == a.ptr..(a.ptr + a.size - 1)

Disjoint(a, b) == Span(a) \cap Span(b) = {}

\* Reserving more of the device: never giving any back, never beyond Limit.
Grow ==
    /\ reserved \subseteq reserved'
    /\ Cardinality(reserved') =< Limit

\* An AllocateRaw that returns a block (possibly after reserving more): the
\* one block the new state holds that the old one did not.
Allocate(t) ==
    /\ Grow
    /\ \E a \in allocs' \ allocs :
          /\ a \in Block
          /\ a.owner = t
          /\ a.size >= a.req
          /\ Span(a) \subseteq reserved'
          /\ \A b \in allocs : Disjoint(a, b)
          /\ allocs' = allocs \cup {a}

\* An AllocateRaw that reserves more memory and returns nothing.
Reserve ==
    /\ Grow
    /\ reserved' # reserved
    /\ UNCHANGED allocs

\* DeallocateRaw of a block the caller holds.
Deallocate(t) ==
    /\ \E a \in allocs : a.owner = t /\ allocs' = allocs \ {a}
    /\ UNCHANGED reserved

Init == reserved = {} /\ allocs = {}

Next == Reserve \/ \E t \in Threads : Allocate(t) \/ Deallocate(t)

Spec == Init /\ [][Next]_vars

=============================================================================
