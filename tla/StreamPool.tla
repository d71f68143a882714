----------------------------- MODULE StreamPool -----------------------------
(***************************************************************************)
(* The stream pool of src/xla/stream_executor/sycl/sycl_gpu_runtime.cc      *)
(* (class StreamPool and the SYCL*Stream entry points over it).            *)
(*                                                                         *)
(* GetStreamsPool keeps a function-local static unordered_map from a       *)
(* device to a vector of shared_ptr<sycl::queue>; the first use for a      *)
(* device inserts a vector holding one new in-order queue, the default     *)
(* stream.  No call takes a lock.  A queue is a number from 1..MaxQueues,  *)
(* each make_shared<sycl::queue> taking the next one.  Each call is one    *)
(* step, with two exceptions.  createStream's push_back and its later      *)
(* back() each call GetStreamsPool and are separate steps.  A              *)
(* GetStreamsPool whose find misses makes the new vector's queue in a step *)
(* of its own (PoolMiss), and inserts it in the step of the call that      *)
(* follows; other threads run in between.  The unlocked map is a data     *)
(* race; the model takes find and insert each as atomic, and leaves out   *)
(* the outcomes of their overlapping inside the hash table.  Callers hold *)
(* the sycl::queue* they were given as records [d, q].                    *)
(*                                                                         *)
(* The memory wrappers, SYCLMemcpy* and SYCLMemset*, enqueue an            *)
(* operation on a queue (the device's default stream or the stream passed  *)
(* in) and wait for it unless they run asynchronously; syncContext waits   *)
(* on every queue of the device.  An operation is [id, t, host]: its       *)
(* number, the calling thread and the host memory it touches ("usm" from   *)
(* SYCLMallocHost, "pageable", or "device" for none).  The device runs     *)
(* each in-order queue from its head.  A waiting thread makes no other     *)
(* call.                                                                   *)
(***************************************************************************)
EXTENDS Naturals, Sequences, FiniteSets, SequencesExt, TLC

CONSTANTS
    Devices,        \* the sycl::device* handles callers pass
    Threads,        \* threads calling the SYCL*Stream functions
    MaxQueues,      \* bound on the sycl::queue objects ever made
    MaxOps          \* bound on the memory operations ever enqueued

VARIABLES
    pools,          \* stream_pool_map: device -> <<queue, ...>>
    next_queue,     \* number of the next sycl::queue to be made
    multi,          \* IsMultipleStreamEnabled()
    pc,             \* per thread: "idle" or "back" (inside createStream)
    dev,            \* per thread: the device of its createStream or its
                    \* GetStreamsPool that missed
    made,           \* per thread: the queue GetStreamsPool made after its
                    \* find missed, not yet inserted (0: none)
    held,           \* per thread: the streams createStream handed it
    destroyed,      \* streams SYCLDestroyStream reported destroyed
    ops,            \* per queue: the operations enqueued and not yet run
                    \* (queue 0: a dangling one, see Back)
    next_op,        \* number of operations enqueued so far
    waiting,        \* per thread: the operations its event.wait() or
                    \* stream->wait() still waits for
    sync_mark       \* per thread: {<<d, n>>} after its last syncContext(d)
                    \* began with n operations enqueued, {} before any

vars == <<pools, next_queue, multi, pc, dev, made, held, destroyed,
          ops, next_op, waiting, sync_mark>>
wrapper_vars == <<ops, next_op, waiting, sync_mark>>

Queue == 1..MaxQueues
StreamRef == [d : Devices, q : Queue]

\* Mutation of GetStreamsPool: stream_pool_map[device] = stream_pool, an
\* assignment that replaces what another thread inserted since the miss.
GetStreamsPoolAssign(p, s, d) ==
    IF s # 0 THEN [x \in DOMAIN p \cup {d} |-> IF x = d THEN <<s>> ELSE p[x]]
    ELSE p

\* GetStreamsPool(device) after its find: on a hit the map as it is; after
\* a miss that made queue s, insert({device, {s}}), which leaves alone an
\* entry another thread inserted since.  The caller then uses map[device].
GetStreamsPool(p, s, d) ==
    IF s # 0 /\ d \notin DOMAIN p THEN p @@ (d :> <<s>>) ELSE p

Fresh(t, d) == GetStreamsPool(pools, made[t], d)

\* vector::back(); on an empty vector it is undefined behaviour, modelled
\* as a dangling queue 0 that no make_shared produced.
Back(s) == IF s = <<>> THEN 0 ELSE Last(s)

\* Slot [0] of a vector: the default stream.  Indexing an empty vector is
\* undefined behaviour, modelled like Back's.
Slot0(s) == IF s = <<>> THEN 0 ELSE Head(s)

DefaultStream(d) == Slot0(pools[d])

\* The queues of a device's vector.
Streams(d) == ToSet(pools[d])

\* A thread outside every call: not inside createStream, not waiting, not
\* inside a GetStreamsPool that missed.
Idle(t) == pc[t] = "idle" /\ waiting[t] = {} /\ made[t] = 0

\* Thread t may make a call that looks up d: its find hits, or it is the
\* call whose find on d missed.
Lookup(t, d) ==
    /\ pc[t] = "idle" /\ waiting[t] = {}
    /\ IF made[t] = 0 THEN d \in DOMAIN pools ELSE d = dev[t]

\* The call still has k queue numbers to spare.
Room(k) == next_queue + k =< MaxQueues + 1

-----------------------------------------------------------------------------
(* Actions                                                                  *)

\* GetStreamsPool's find misses: make_shared<sycl::queue> for the vector
\* it will insert.
PoolMiss(t, d) ==
    /\ Idle(t)
    /\ d \notin DOMAIN pools
    /\ Room(1)
    /\ made' = [made EXCEPT ![t] = next_queue]
    /\ next_queue' = next_queue + 1
    /\ dev' = [dev EXCEPT ![t] = d]
    /\ UNCHANGED <<pools, multi, pc, held, destroyed, wrapper_vars>>

\* Calls that only look the vector up (getDefaultStream for SYCLMalloc,
\* SYCLFree and the copies, getStreams, syncContext): they may insert it.
TouchPool(t, d) ==
    /\ Lookup(t, d)
    /\ pools' = Fresh(t, d)
    /\ made' = [made EXCEPT ![t] = 0]
    /\ UNCHANGED <<next_queue, multi, pc, dev, held, destroyed>>

getDefaultStream(t, d) ==
    /\ TouchPool(t, d)
    /\ UNCHANGED <<ops, next_op, waiting, sync_mark>>

\* SYCLMalloc, SYCLMallocHost, SYCLMallocShared and SYCLFree: look up the
\* default stream and allocate or free USM memory on it, without waiting.
AllocCall(t, d) == getDefaultStream(t, d)

getStreams(t, d) ==
    /\ TouchPool(t, d)
    /\ UNCHANGED <<ops, next_op, waiting, sync_mark>>

\* The operations pending on queues qs.
Pending(qs) == {o.id : o \in UNION {ToSet(ops[q]) : q \in qs}}

\* Mutation of syncContext: only the default stream is waited on.
syncContextDefaultOnly(t, d) ==
    /\ TouchPool(t, d)
    /\ waiting' = [waiting EXCEPT ![t] = Pending({Slot0(Fresh(t, d)[d])})]
    /\ sync_mark' = [sync_mark EXCEPT ![t] = {<<d, next_op>>}]
    /\ UNCHANGED <<ops, next_op>>

\* syncContext: stream->wait() on every queue of the device's vector, one
\* after the other: at least the operations pending when it began.
syncContext(t, d) ==
    /\ TouchPool(t, d)
    /\ waiting' = [waiting EXCEPT ![t] = Pending(ToSet(Fresh(t, d)[d]))]
    /\ sync_mark' = [sync_mark EXCEPT ![t] = {<<d, next_op>>}]
    /\ UNCHANGED <<ops, next_op>>

\* createStream, first half: with multiple streams enabled push_back a new
\* in-order queue on the device's vector.
createStreamPush(t, d) ==
    /\ Lookup(t, d)
    /\ Room(IF multi THEN 1 ELSE 0)
    /\ IF multi
       THEN /\ pools' = [Fresh(t, d) EXCEPT ![d] = Append(@, next_queue)]
            /\ next_queue' = next_queue + 1
       ELSE /\ pools' = Fresh(t, d)
            /\ UNCHANGED next_queue
    /\ pc' = [pc EXCEPT ![t] = "back"]
    /\ dev' = [dev EXCEPT ![t] = d]
    /\ made' = [made EXCEPT ![t] = 0]
    /\ UNCHANGED <<multi, held, destroyed, wrapper_vars>>

\* createStream, second half: *stream_p = GetStreamsPool(device).back().
createStreamBack(t) ==
    /\ pc[t] = "back"
    /\ LET d == dev[t]
       IN held' = [held EXCEPT ![t] = @ \cup {[d |-> d, q |-> Back(pools[d])]}]
    /\ pc' = [pc EXCEPT ![t] = "idle"]
    /\ UNCHANGED <<pools, next_queue, multi, dev, made, destroyed, wrapper_vars>>

\* Mutation of destroyStream: the stream is erased from the map's own
\* vector rather than from a copy.
destroyStreamErases(t, r) ==
    /\ Idle(t)
    /\ r \in held[t]
    /\ pools' = [pools EXCEPT ![r.d] = SelectSeq(@, LAMBDA q : q # r.q)]
    /\ destroyed' = destroyed \cup {r.q}
    /\ held' = [held EXCEPT ![t] = @ \ {r}]
    /\ UNCHANGED <<next_queue, multi, pc, dev, made, wrapper_vars>>

\* destroyStream(device, stream): find the stream in a copy of the
\* device's vector, erase it from the copy, report success.
destroyStream(t, r) ==
    /\ Idle(t)
    /\ r \in held[t]
    /\ destroyed' = IF r.q \in Streams(r.d) THEN destroyed \cup {r.q} ELSE destroyed
    /\ held' = [held EXCEPT ![t] = @ \ {r}]
    /\ UNCHANGED <<pools, next_queue, multi, pc, dev, made, wrapper_vars>>

-----------------------------------------------------------------------------
(* The memory wrappers and the device                                      *)

\* stream->memcpy / memset / fill: queue operation [id, t, host] on q;
\* without async, event.wait() blocks the caller until it has run.
Enqueue(t, q, host, async) ==
    /\ next_op < MaxOps
    /\ ops' = [ops EXCEPT ![q] = Append(@, [id |-> next_op + 1, t |-> t, host |-> host])]
    /\ next_op' = next_op + 1
    /\ waiting' = [waiting EXCEPT ![t] = IF async THEN {} ELSE {next_op + 1}]

\* memcpyHostToDevice, memcpyDeviceToHost, memcpyDeviceToDevice,
\* memsetDeviceD8, memsetDeviceD32.  Their early return for a zero count
\* enqueues nothing: the wrapper is then getDefaultStream, or no step at
\* all, behaviours Next already has, so only a non-zero count is modelled.
MemOp(t, q, host, async) == Enqueue(t, q, host, async)

\* SYCLMemcpyDtoH/HtoD/DtoD, SYCLMemsetD8/D32: the default stream of the
\* device, async = false.  A synchronous copy waits whatever memory it
\* touches, so USM host memory is told apart only on the Async path.
SyncMemOp(t, d, host) ==
    /\ TouchPool(t, d)
    /\ MemOp(t, Slot0(Fresh(t, d)[d]), host, FALSE)
    /\ UNCHANGED sync_mark

\* The async argument of the *Async wrappers: a copy from or to host
\* memory runs asynchronously only if get_pointer_type says USM host
\* memory; DtoD and the memsets always do.
AsyncFlag(kind, host) ==
    IF kind \in {"DtoH", "HtoD"} THEN host = "usm" ELSE TRUE

\* The streams a caller can pass: those it was handed and the default
\* streams.
Known(t) == {r.q : r \in held[t]} \cup {Slot0(pools[d]) : d \in DOMAIN pools}

\* SYCLMemcpyDtoHAsync/HtoDAsync/DtoDAsync, SYCLMemsetD8Async/D32Async on
\* a stream q; kind and host say which and what memory.
AsyncMemOp(t, q, kind, host) ==
    /\ Idle(t)
    /\ MemOp(t, q, host, AsyncFlag(kind, host))
    /\ UNCHANGED <<pools, next_queue, multi, pc, dev, made, held, destroyed, sync_mark>>

\* The device runs the operation at the head of queue q; the event of a
\* thread waiting on it is signalled.
Run(q) ==
    /\ ops[q] # <<>>
    /\ ops' = [ops EXCEPT ![q] = Tail(@)]
    /\ waiting' = [t \in Threads |-> waiting[t] \ {Head(ops[q]).id}]
    /\ UNCHANGED <<pools, next_queue, multi, pc, dev, made, held, destroyed, next_op, sync_mark>>

\* What each kind of wrapper touches on the host.
OpHosts == [DtoH |-> {"usm", "pageable"}, HtoD |-> {"usm", "pageable"},
            DtoD |-> {"device"}, Memset |-> {"device"}]

-----------------------------------------------------------------------------
Init ==
    /\ pools = <<>>
    /\ next_queue = 1
    /\ multi \in BOOLEAN
    /\ pc = [t \in Threads |-> "idle"]
    /\ dev = [t \in Threads |-> CHOOSE d \in Devices : TRUE]
    /\ made = [t \in Threads |-> 0]
    /\ held = [t \in Threads |-> {}]
    /\ destroyed = {}
    /\ ops = [q \in 0..MaxQueues |-> <<>>]
    /\ next_op = 0
    /\ waiting = [t \in Threads |-> {}]
    /\ sync_mark = [t \in Threads |-> {}]

Next ==
    \E t \in Threads :
        \/ \E d \in Devices : \/ PoolMiss(t, d)
                              \/ AllocCall(t, d)
                              \/ getStreams(t, d)
                              \/ syncContext(t, d)
                              \/ createStreamPush(t, d)
        \/ createStreamBack(t)
        \/ \E r \in held[t] : destroyStream(t, r)
        \/ \E d \in Devices, host \in {"pageable", "device"} : SyncMemOp(t, d, host)
        \/ \E q \in Known(t), kind \in DOMAIN OpHosts :
              \E host \in OpHosts[kind] : AsyncMemOp(t, q, kind, host)
    \/ \E q \in Queue : Run(q)

Spec == Init /\ [][Next]_vars

-----------------------------------------------------------------------------
(* Properties                                                               *)

\* A stream a caller holds (a raw sycl::queue*) is still owned by the
\* pool's shared_ptr, so the queue is alive: destroyStream of another
\* holder of the same queue must not free it under this one.
HeldStreamsLive ==
    \A t \in Threads : \A r \in held[t] :
        r.d \in DOMAIN pools /\ r.q \in Streams(r.d)

\* Once a device's vector exists its default stream, slot [0], which
\* SYCLMalloc/SYCLFree and every copy use, exists and never changes.
DefaultStreamStable ==
    [][\A d \in DOMAIN pools :
          d \in DOMAIN pools' /\ pools'[d] # <<>> /\ pools[d] # <<>>
          /\ DefaultStream(d) = pools'[d][1]]_vars

\* With multiple streams enabled each createStream returns a stream of its
\* own: no two threads hold the same queue from createStream.
CreatedStreamsDistinct ==
    multi => \A t, u \in Threads : t # u => held[t] \cap held[u] = {}

\* A stream SYCLDestroyStream reported destroyed is no longer in its
\* device's pool (getStreams no longer lists it, syncContext no longer
\* waits on it).
DestroyRemoves ==
    \A q \in destroyed : \A d \in DOMAIN pools : q \notin Streams(d)

\* When syncContext(d) has returned, no operation enqueued before it began,
\* by any thread on any stream of d, is still pending.
SyncContextDrains ==
    \A t \in Threads : \A m \in sync_mark[t] :
        waiting[t] = {} =>
            \A q \in ToSet(pools[m[1]]) : \A o \in ToSet(ops[q]) : o.id > m[2]

=============================================================================
