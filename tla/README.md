# TLA+ models of intel-extension-for-openxla

This directory holds TLA+ specifications of the stateful parts of the SYCL
backend under `src/`, the TLC configurations that check them, and
`PROJECT.json`. That file lists the components, the runs, the mutants,
the map from each definition to its source lines, the findings and the hazards.

## The system

| Part | Source | What it is |
|---|---|---|
| BFC allocator | `src/xla/stream_executor/sycl/bfc_allocator.cc` | The device memory allocator. Best fit with coalescing over a chunk table, 21 size bins and a region map. It grows by reserving regions with `ITEX_GPUMalloc`. One mutex `lock_` serialises `AllocateRaw` and `DeallocateRaw`. |
| Device pool | `src/xla/stream_executor/sycl/sycl_gpu_runtime.cc` (`DevicePool`) | The list of SYCL devices, built once under `std::call_once`, plus the ordinal queries. |
| Stream pool | same file (`StreamPool`) | A static map from device to a vector of in-order queues (streams). It serves create, destroy, default, list and sync. |
| Copy/malloc wrappers | same file (`SYCLMemcpy*`, `SYCLMemset*`, `SYCLMalloc*`, `SYCLFree`) | Each enqueues one operation on the device's default stream or on a stream passed in, and waits for it unless it runs asynchronously. |
| Host callback | `src/xla/python/py_client_gpu.cc` | A custom call that copies device inputs to the host, calls Python, and copies the results back. |
| Collective permute | `src/xla/service/gpu/ccl_collective_permute_thunk.cc` | Builds the source/target map from the op's pairs. Each participant then sends, receives, and zeroes its output if it has no source. |
| All-reduce / all-to-all | `ccl_all_reduce_thunk.h`, `ccl_all_to_all_thunk.h` | Declarations only. |

These parts interact as follows:
- The allocator is the client of the device layer. In this tree `ITEX_GPUMalloc` is external, and the model treats it as the environment's answer.
- The stream pool is keyed by the device handles the device pool hands out, and creates its queues in the device pool's context.
- The wrappers and the callback use the stream pool's streams.
- The collective thunks run on a stream of each participant's device.

## Modules

### `BFCAllocator.tla`: the allocator

**State.** The state is the allocator's members:
- `chunks` / `nchunks` / `free_chunks_list` are `chunks_` and its free list of dead handles, threaded through `next`.
- `bins` is each bin's `free_chunks` set.
- `handles` / `regions` are the region manager.
- `curr_region_allocation_bytes` and `total_region_allocated_bytes` are the growth counters.

Per client thread, the model adds:
- `pc`: "idle", "malloc" (inside Extend's back-off loop), "register" (`ITEX_GPUMalloc` returned a region) or "spin" (the doubling loop never ends);
- `req`: the locals of the call in progress;
- `owned`: the pointers it holds.

Two more variables:
- `aborted` records a failed `CHECK`.
- `device_free` is the largest reservation the device would grant now. Only the environment sets it (`DeviceChurn`).

**Helpers.** Each C++ helper that changes metadata is an operator from a metadata record to a metadata record: `AllocateChunk`, `DeallocateChunk`, `DeleteChunk`, `InsertFreeChunkIntoBin`, `RemoveFreeChunk[Iter]FromBin`, `SplitChunk`, `Merge`, `TryToCoalesce`, `FindChunkPtr`. An action composes exactly the helpers its handler calls and commits the result once (`Apply`, model glue with no code of its own). A failed `CHECK` sets `aborted` instead. `Apply` also carries the model's bound on `chunks_.size()` (`WithinChunkBound`): a step that would need more than `MaxChunks` chunk slots is not explored.

**Actions.**

| Action | Code |
|---|---|
| `AllocateRaw(t, n)` | Lines 109-149 up to the first `ITEX_GPUMalloc`. It rounds, then runs `FindChunkPtr`. If nothing fits it enters Extend, which either fails at once (`ExtendFailsFast`, lines 310-312), runs the doubling loop, or spins forever once the target has wrapped to 0. |
| `GPUMalloc(t)` | One `ITEX_GPUMalloc` of Extend's loop (lines 327-341). The call gets the region, or it shrinks by 0.9 and retries, or it gives up. |
| `RegisterRegion(t)` | The rest of a successful Extend (lines 343-373) and `AllocateRaw`'s second `FindChunkPtr`. |
| `DeallocateRaw(t, p)` | Lines 151-166. |
| `DeviceChurn` | Other users of the device change what it can grant. |

**Abstraction.**
- Sizes are scaled down: `MinAllocationSize` stands for the 256-byte granule and `SizeBits` is the width of `size_t`.
- `NumBins` bins follow the header's power-of-two rule.
- `BinNumForSize`, the bin order and the region manager are in the header `bfc_allocator.h`, which is not in `src/`. They are modelled from the spec and marked `spec_modelled` in the map.
- The back-off step `Backpedal` is computed at the real granule of 256 bytes: `k` granules become `floor(230.4k)` bytes, rounded up to whole granules, which is `ceil(0.9k)` granules. For `k` of at most nine that is `k` again. The float error of `0.9f` changes no result after the rounding up.

**Properties.**
- `HeapTiling`: each region is tiled exactly by its chunk list, with prev/next consistent, and the free list holds only dead handles.
- `BinsMirrorFreeChunks`: bins hold exactly the free live chunks, each in the bin of its size.
- `RegionMapResolves`: the region map resolves exactly the live chunks' addresses.
- `FullyCoalesced`: no two neighbouring chunks are free.
- `AllocationsExclusive`: held pointers are exactly the in-use chunks, each held by one client.
- `InUseCoversRequest`: a returned chunk covers the bytes asked for.
- `NoCheckFailure`: no `CHECK` fails.
- `ReservedWithinLimit`: reservations stay within `memory_limit_`.
- `BestFit` (action): a served request gets the smallest free chunk that fits.
- `GrowthServesRequest` (action): a successful Extend lets the call return a pointer.
- `AllocateTerminates` (liveness): every call returns. It is checked only by violation runs; see below.

`MCBFCAllocator.tla` adds three things for TLC:
- The thread symmetry.
- A VIEW that drops data no code reads again: the stale fields of dead chunk records and the `requested_size` of free chunks.
- The refinement mapping to `Allocator.tla` and the property `AllocatorRefined` (below).

### `Allocator.tla`: what an allocator promises

`Allocator.tla` is the abstract allocator, with two variables:
- `reserved` is the set of bytes reserved from the device;
- `allocs` is the set of blocks the clients hold, each `[owner, ptr, size, req]`.

Its steps:
- `Reserve` grows `reserved` within `Limit`.
- `Allocate(t)` may also grow it, and adds one block. The block covers its request, lies in reserved memory and is disjoint from every held block.
- `Deallocate(t)` removes one of `t`'s blocks.

`MCBFCAllocator` maps the concrete state onto it with `INSTANCE Allocator WITH`:
- `reserved` becomes the bytes of `regions`.
- `allocs` becomes, for each pointer in `owned[t]`, the size and `requested_size` of its chunk.

`AllocatorRefined` (`Abstract!Spec`, checked in `bfc_safety`) thus says several things that the per-state invariants do not:
- A held block never moves, grows or shrinks while held. Only one block appears or disappears per step.
- A free returns exactly the caller's block.
- Reservations are never given back.

### `StreamPool.tla`: the stream pool

**State.**
- `pools` is `stream_pool_map`: each device maps to its vector of queues, numbered in creation order.
- `next_queue` counts the `make_shared<sycl::queue>` calls so far.
- `multi` is `IsMultipleStreamEnabled()`.

Per thread, the model keeps:
- `pc`, which is "back" between createStream's push and its `back()`;
- `dev`, the device of that createStream, or of its `GetStreamsPool` whose find missed;
- `made`, the queue such a `GetStreamsPool` made and has not inserted yet (0 if none);
- `held`, the streams it was handed.

`destroyed` records the streams that `SYCLDestroyStream` reported as destroyed.

For the memory wrappers the model adds:
- `ops`: per queue, the operations enqueued and not yet run, each `[id, t, host]` (its number, the caller, and the host memory it touches: USM host, pageable, or none);
- `next_op`: the number of operations enqueued so far;
- `waiting`: per thread, the operations its `event.wait()` or `stream->wait()` still waits for;
- `sync_mark`: per thread, the device and operation count of its last `syncContext`. This is a history variable for `SyncContextDrains`.

**Actions.** No call takes a lock, so each call is a step of some thread. A thread that is waiting makes no call:
- `PoolMiss(t, d)` is a `GetStreamsPool` whose find misses (lines 271-277). It makes the new vector's queue. The call that made it then continues on `d`: its step inserts the vector unless another thread has inserted one since (`Lookup`, `GetStreamsPool`), and does the rest of the call.
- `AllocCall` (`SYCLMalloc*`, `SYCLFree`, through `getDefaultStream`) and `getStreams` only look up the pool (`TouchPool`).
- `syncContext` also waits for every operation pending on the device's queues.
- `createStreamPush` and `createStreamBack` are the two `GetStreamsPool` calls of `createStream` (lines 223-234).
- `destroyStream` is lines 243-254. It erases from a copy of the vector.
- `SyncMemOp` is `SYCLMemcpyDtoH/HtoD/DtoD` and `SYCLMemsetD8/D32`: an operation on the default stream, with a wait.
- `AsyncMemOp` is the `*Async` wrappers on a stream the caller holds or a default stream. `AsyncFlag` is their `async` argument: a copy with host memory is asynchronous only if `get_pointer_type` says USM host memory, and DtoD and the memsets always are.
- `Run(q)`, of the device, runs the head of queue `q` and signals any thread waiting on it.

The helpers' early return for a zero count enqueues nothing. The wrapper is then `getDefaultStream` or nothing, so only non-zero counts are modelled. The USM allocation of `SYCLMalloc*` and `SYCLFree` belongs to the SYCL runtime, and `sycl::free` does not wait.

Two first uses of `GetStreamsPool` therefore interleave: both miss, both make a queue, and the second `insert` leaves the first vector in place. This is a data race on the `unordered_map`. The model takes its find and its insert each as atomic, and leaves out any overlap of the two inside the hash table.

**Properties.**
- `HeldStreamsLive`: every stream a caller holds is still owned by the pool.
- `DefaultStreamStable` (action): a device's default stream never changes once it exists.
- `CreatedStreamsDistinct`: two concurrent createStreams never return the same queue.
- `DestroyRemoves`: a destroyed stream leaves the pool.
- `SyncContextDrains`: once `syncContext(d)` has returned, no operation that any thread queued on any stream of `d` before it began is still pending (mutant `syncContextDefaultOnly`). `syncContext` takes the vector as it is when it begins, in one step, so the data race of its range-for with a concurrent `push_back` (which may reallocate the vector under the iterator) is not modelled.

`DefaultStreamStable`'s mutant is `GetStreamsPoolAssign`, `stream_pool_map[device] = stream_pool` in place of `insert`. When two first uses race, it replaces the vector whose queue the first caller was already handed.

The first two hold only because `destroyStream` erases nothing. An erase from the real vector breaks both when multiple streams are disabled, because every createStream then hands out the default stream (mutant `destroyStreamErases`).

`MCStreamPool.tla` composes the stream pool with the device list. In `stream_pool` the devices are the handles `getDevice` returns for ordinals `0..count-1` of `GetDevicesPool` on a fixed machine. That machine has an OpenCL GPU platform and a Level-Zero platform with a non-GPU device and a GPU without sub-devices, so the list is that one root GPU. The MC module also defines thread symmetry, and device symmetry for the runs with model-value devices.

### `DeviceList.tla` and `DevicePool.tla`: the device pool

**`DeviceList.tla`** holds the pure part.
- `RootDevices` is the lambda's first loop (lines 123-139): the GPUs of each platform whose backend matches `RunOnLevelZero()`.
- `TileDevices` is the tile loop (lines 143-167). A root with `partition_max_sub_devices` 0 is exposed itself; any other is replaced by its sub-devices, appended in order.
- `GetDevicesPool` chooses between the two.
- `getDevice` compares the ordinal after its conversion to `size_t` (`SizeT`), and `getint` is `std::find`.
- The reference `RefDevicesPool` is the set of exposed devices, ordered by platform, device and tile.

A platform is `[l0, devs]` and a device `[gpu, subs]`. An exposed device is `[p, d, s]`, where `s` is its tile, or 0 for a root.

**`DevicePool.tla`** holds the state.
- The variables are the machine and the two environment variables (`platforms`, `l0`, `tile`, fixed in `Init`), the once flag and static vector (`once`, `devices`), and the last answers of the two calls (`count_ans`, `dev_ans`).
- `ctx` is `getDeviceContext`'s static context, `[made, devs]`, and `instance` is the `GetInstance` singleton.
- `SYCLGetDeviceCount`, `SYCLGetDevice(o)`, `hasDevice`, `isValidDevice(o)`, `SYCLGetContext` and `GetInstance` are each one step. `SYCLGetContext` makes the context from `GetDevicesPool()` on first use (`DeviceContext`). The `sycl::context` constructor throws for an empty list or for devices of more than one platform (`ContextThrows`); the static is then left unmade and the exception propagates. The answers of `hasDevice` and `isValidDevice`, and the missing return value of `SYCLGetContext`, are not recorded, because no property reads them. `std::call_once` blocks other callers until the list is built and nothing writes it afterwards, so a single caller shows every state the list can be in.

**Properties.**
- `DeviceListMatchesReference`: once built, the list is the reference list (mutant `TileDevicesPrepend`, the tiles inserted at the front).
- `DeviceOrdinals`: `SYCLGetDevice` succeeds for exactly the ordinals below the count `SYCLGetDeviceCount` reported, including the rejection of negative ones, and `getint` gives the ordinal back (mutant `getDeviceSigned`, a signed comparison).

**Assumptions.**
- `create_sub_devices` returns `partition_max_sub_devices` tiles and never throws. The comment at lines 145-147 promises that the root device is exposed when creating sub-devices fails, but the code has no such fallback: a throwing `create_sub_devices` leaves `call_once` with the exception and the tiles of earlier roots already in the vector. This is listed as a hazard (line 162).
- The assert on an empty list is compiled out, so the list may be empty.

### `CollectivePermute.tla`: the collective permute

**Pure part.**
- `Config(pairs)` is `GetCclCollectivePermuteConfig`: a `FoldLeft` of `AddPair`, the loop body at lines 73-81, starting from an empty map.
- `IsDegenerate` and `GetGroupMode` follow the code.
- Two reference definitions give the pairs' meaning: `RefSource` and `RefTarget`.

**Inputs.** `Init` chooses:
- whether the op has a channel id;
- any pair list the HLO verifier admits: ids of the one group, each at most once as a source and at most once as a target, in every order.

**Dynamic part.** Each participant:
1. looks up its entry (`Entry`, `RunCclCollective`);
2. sends its buffer to its target (`Start`), or returns an error before issuing anything (`StartFails`, lines 145-157: buffer conversion, the buffer-count check, the device id lookups);
3. then either receives its source's buffer (`Receive`) or, with no source, zeroes its destination (`MemZero`, lines 224-230).

`sycl_collective_permute` is outside `src/` and is modelled as that send and receive. Messages form a set, delivered in any order and never lost. A participant whose source failed waits forever: nothing tells it, and the model stops there too.

**Properties.**
- `ConfigMatchesPairs`: each participant's entry is exactly its source and target.
- `DegenerateIsIdentity`: an op judged degenerate is the identity.
- `PermuteResult`: a finished participant holds its source's buffer, or zeros.

### `HostCallback.tla`: the Python host callback

**State.**
- `args`, `results` and `strided` are the callback's argument and result kinds (token or array) and each result's layout. They are chosen in `Init`.
- `pc` and `i` are the position in `XlaPythonGpuCallback` and its loop index.
- `mem` maps locations (device inputs, host input buffers, result arrays, temporaries, device outputs) to abstract contents.
- `stream` is the in-order queue of `stream->memcpy` copies not yet completed.
- `alloc`, `freed` and `capsule` track the host buffers.
- `seen` is what Python's input arrays held when it was called.
- `touched` is the set of freed locations a completed copy read or wrote.

**Actions.** One action per block of the function:

| Action | Code |
|---|---|
| `Parse` | The descriptor parse (lines 38-47). |
| `CopyIn` | One iteration of the copy-in loop (lines 48-60). |
| `Call(ok)` | The wait, the wrapping in capsule-owned arrays, and `callback->Call` (lines 61-81). |
| `CopyOut(planOk)` | One iteration of the copy-out loop, with the direct copy, the transpose path, and the throw when the plan fails (lines 82-112). The throw unwinds with the GIL held and no wait: `result_tuple` is destroyed and the arrays of the results so far are freed (`ResultArrays`). |
| `Finish` | The final wait, the deletion of the temporaries, and the destruction of the result tuple on return (lines 113-118). |

The environment takes two kinds of step:
- `Complete`: the device completes the oldest queued copy, and only then do the bytes move.
- `PyRelease`: Python drops an input array, and its capsule deletes the buffer.

**Properties.**
- `InputsCopiedBeforeCall`: Python sees every input filled.
- `OutputsWrittenOnReturn`: after a normal return every array result is on the device in the expected layout.
- `NoCopyOfCallBuffers`: no copy reads or writes a host buffer the call allocated (input buffers, temporaries) after it was deleted (mutant `FinishFreeFirst`).
- `NoCopyOfFreed`: no copy reads any freed host memory, the result arrays included. It is violated (run `callback_throw`): a plan failure frees an array whose copy from `array.data()` is still queued.

**Not stated as a property.** When the transpose plan fails, the temporaries already allocated also leak (`temp_buffers` holds raw pointers).

**Assumption.** The model takes Python's results to be numpy arrays whose last reference is the result tuple (a callback returning fresh arrays), so they are freed when the tuple is destroyed. A result that is converted (line 91) would be a temporary freed even earlier.

## Runs

| Run | Expect | Shows |
|---|---|---|
| `bfc_safety` | pass | The heap invariants, best fit, the refinement of `Allocator`, `ReservedWithinLimit` and `GrowthServesRequest` under every interleaving of two clients. The setup is a 16-byte pool of 2-byte granules, regions capped at 10 bytes (so a region of 10 and one of 6), requests of 1, 5 and 8 bytes, up to two pointers held per client, and a device with 0 or 16 bytes free that changes at any time (172,542 states, about 110 s). |
| `extend_livelock` | violation | A 1-byte request spins forever in the back-off loop, holding the lock. The device could grant the request itself (4 bytes free), but 0.9 of 8 bytes (four granules) rounds back up to 8, so the loop never asks for less. |
| `growth_target_wrap` | violation | After enough successful Extends the doubling target wraps to 0, and the next growth loops forever. |
| `extend_region_cap` | violation | With `LimitAlloc()` below the request, Extend "succeeds" with a region too small, and `AllocateRaw` returns null. |
| `huge_request` | violation | `RoundedBytes` wraps for a request near `SIZE_MAX`, and the returned chunk is smaller than the request. |
| `stream_pool` | pass | Two threads on the device the device list exposes, with up to four queues, two memory operations and both settings of `multi`, first uses of `GetStreamsPool` racing. Held streams stay alive, the default stream never changes, and `syncContext` drains everything queued before it (186,303 states, about 20 s). |
| `stream_destroy` | violation | `SYCLDestroyStream` succeeds, yet the stream stays in the pool, because the erase works on a copy (line 246). |
| `stream_create_race` | violation | Two threads' createStreams interleave, and both get the queue pushed last. The first queue is never handed out (lines 230-232). |
| `permute` | pass | With 3 replicas and 2 partitions, for every valid pair list in every order and both group modes, with any participant returning an error early, the configuration matches the pairs, and every participant that finishes holds its source's buffer or zeros. |
| `device_pool` | pass | For every machine of up to two platforms with up to two devices each (not a GPU, a GPU, a GPU of two tiles), under both backends and both tile settings, and any order of the device queries, context and singleton calls: the list built is the reference list, and `SYCLGetDevice` serves exactly ordinals `0..count-1` (tried from -1 to 8). |
| `host_callback` | pass | With two arguments and two results of every kind and layout, every descriptor, call and plan outcome, and every interleaving of the device's copies and Python's releases: the waits order the copies, results land in the right layout, and input buffers and temporaries outlive their copies. |
| `callback_throw` | violation | The same call: a result with the expected strides queues a copy from `array.data()`, the next result's transpose plan fails, and the throw frees the array before the copy runs (line 107). |

## Bounds

**Size.** Apart from the back-off, the allocator's behaviour depends on sizes only through ratios to the granule, the split rule and the bin boundaries. A 16-byte pool of eight granules with regions capped at 10 bytes therefore exercises all of these:
- two regions, the second cut down to what the limit leaves;
- splits driven by either rule (the fragmentation threshold is scaled to one granule);
- merges with a previous neighbour, a next neighbour or both;
- handle reuse from the free list (`MaxChunks` = 6 slots).

**Back-off.** `Backpedal` works at the real 256-byte granule, so the back-off shrinks only from ten granules up and gives up only for a request of at least ten granules. At or below nine granules a refused reservation is asked for again, unchanged, until the device frees memory. In `bfc_safety` a refused Extend therefore waits for `DeviceChurn`. Whether the call ever returns is the liveness question, and `extend_livelock` shows that it may not.

**Stream pool.** Two threads on one device interleave every pair of calls on one vector, including two first uses. Four queues let each thread create a stream beyond the default. Two memory operations are enough for one to be pending on a created stream while another is queued or a `syncContext` begins. A second device multiplies the states by more than ten and adds nothing the per-device properties could see.

**Device pool.** Up to two platforms of up to two devices give every kind of selection: platforms of the other backend, non-GPU devices, roots exposed themselves, and tiles of two roots in sequence. Ordinals -1 to 8 reach one past the longest list.

**Collective permute.** Three replicas give every shape of pair list up to relabelling, with the same list shown in every order:
- a cycle;
- a chain, with one participant that has a source and no target, and one with the reverse;
- self-pairs;
- degenerate lists, and lists that are all identities but too short to be degenerate.

**Host callback.** Two arguments and two results give every mix of the loops' branches:
- a token;
- a direct copy;
- a transpose, with a plan that succeeds or fails;
- a copy still queued behind another when a wait or a free comes.

**Overflow.** The runs about overflow use a 5-bit `size_t` so that the doubling and rounding wrap within a few steps. In the real build this takes about 39 doublings.

## Fairness

Only the allocator's liveness property is checked, and only in the violation runs `extend_livelock` and `growth_target_wrap`. Inside a call a thread waits only on the device, so each of its steps is weakly fair: `WF_vars(GPUMalloc(t))` and `WF_vars(RegisterRegion(t))`. The other users of the device get no fairness, because nothing obliges them to free memory. The other modules state safety properties only.

## Not modelled, and the plan

Every component with state is modelled. The abstract allocator and its refinement are checked.

What stays out of scope:
- The collective thunks' headers declare classes only.
- Composing the host callback with the stream pool. The callback's stream comes from the stream executor, outside `src/`. Sharing that queue with other calls only puts operations ahead of the callback's copies, and the callback model already lets the device complete its copies after any delay.
- The overlap of two `GetStreamsPool` calls inside the `unordered_map` (torn buckets), beyond the interleaving of find and insert.
- The answers of `hasDevice` and `isValidDevice`. Nothing in `src/` calls either. `isValidDevice` accepts `ordinal == count`.
- `SYCLGetContext`'s return value. The function has no return statement, so its caller reads an indeterminate value.
- The BFC destructor, which frees every region once, after all clients.
- Three behaviours of the code that are listed as hazards with a note in `PROJECT.json` rather than checked by a run:
  - `memory_limit_` underflowing on a device with less than 800MB;
  - a double free;
  - a Python result converted to a temporary array.
