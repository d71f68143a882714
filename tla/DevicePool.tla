----------------------------- MODULE DevicePool -----------------------------
(***************************************************************************)
(* The device pool of src/xla/stream_executor/sycl/sycl_gpu_runtime.cc     *)
(* (class DevicePool).  GetDevicesPool builds it once, under call_once:    *)
(* the GPU devices of the platforms whose backend is the one asked for     *)
(* (Level-Zero unless SYCL_DEVICE_FILTER names another), and, when         *)
(* SYCL_TILE_AS_DEVICE is on, each root device replaced by its sub-devices *)
(* (tiles) if it has any.  An ordinal is an index into that list.          *)
(*                                                                         *)
(* The process-wide state is the function-local static vector and its      *)
(* once_flag; the machine's platforms and the two environment variables    *)
(* are fixed for the life of the process.  SYCLGetDeviceCount and          *)
(* SYCLGetDevice are each one step: std::call_once blocks every other      *)
(* caller until the list is built, and nothing writes it afterwards, so    *)
(* the interleavings of several threads add no state.  The assert on an    *)
(* empty list is compiled out of optimised builds: the list may be empty.  *)
(*                                                                         *)
(* getDeviceContext keeps a second function-local static, the sycl::context *)
(* over the list, made on first use by a call to GetDevicesPool; every      *)
(* queue of the stream pool is made in it.  GetInstance makes the DevicePool *)
(* singleton under mu_.  hasDevice and isValidDevice call                  *)
(* SYCLGetDeviceCount; their boolean answers are left out, as is the        *)
(* indeterminate return value of SYCLGetContext: no property reads them.   *)
(***************************************************************************)
EXTENDS DeviceList

CONSTANT
    Ordinals        \* the device_ordinal values callers pass

-----------------------------------------------------------------------------
(* The device pool's state and its calls                                    *)

VARIABLES
    platforms,      \* sycl::platform::get_platforms(), and their devices
    l0,             \* RunOnLevelZero(): SYCL_DEVICE_FILTER unset or level_zero
    tile,           \* TileAsDevice(): SYCL_TILE_AS_DEVICE, default true
    once,           \* init_device_flag has been passed
    devices,        \* the static std::vector<sycl::device>
    count_ans,      \* what the last SYCLGetDeviceCount wrote (-1: none yet)
    dev_ans,        \* the last SYCLGetDevice: [o, err, dev] (err = None: none yet)
    ctx,            \* getDeviceContext's static context: [made, devs]
    instance        \* DevicePool::instance_ # nullptr

pool_vars == <<platforms, l0, tile, once, devices, count_ans, dev_ans, ctx, instance>>

None == "none"

\* GetDevicesPool(): the first call runs the lambda, every call returns
\* the static vector.
Pooled == IF once THEN devices ELSE GetDevicesPool(platforms, l0, tile)

CallPool ==
    /\ once' = TRUE
    /\ devices' = Pooled

\* SYCLGetDeviceCount: *count = GetDevicesPool().size().
SYCLGetDeviceCount ==
    /\ CallPool
    /\ count_ans' = Len(Pooled)
    /\ UNCHANGED <<platforms, l0, tile, dev_ans, ctx, instance>>

\* SYCLGetDevice(&device, o): getDevice, *device left alone on failure.
SYCLGetDevice(o) ==
    /\ CallPool
    /\ dev_ans' = [o |-> o] @@ getDevice(Pooled, o)
    /\ UNCHANGED <<platforms, l0, tile, count_ans, ctx, instance>>

\* hasDevice() and isValidDevice(ordinal): SYCLGetDeviceCount into a
\* local count, compared with 0 or with the ordinal.
hasDevice ==
    /\ CallPool
    /\ UNCHANGED <<platforms, l0, tile, count_ans, dev_ans, ctx, instance>>

isValidDevice(o) ==
    /\ CallPool
    /\ UNCHANGED <<platforms, l0, tile, count_ans, dev_ans, ctx, instance>>

\* The sycl::context constructor throws for an empty device list and for
\* devices of more than one platform; the static is then left unmade, and
\* the next call tries again.
ContextThrows ==
    \/ Pooled = <<>>
    \/ Cardinality({Pooled[k].p : k \in DOMAIN Pooled}) > 1

\* getDeviceContext(): static sycl::context context(GetDevicesPool()).
DeviceContext ==
    IF ctx.made \/ ContextThrows THEN ctx ELSE [made |-> TRUE, devs |-> Pooled]

\* SYCLGetContext(&context): *context = &getDeviceContext(), and no
\* return statement; an exception of the constructor propagates.
SYCLGetContext ==
    /\ CallPool
    /\ ctx' = DeviceContext
    /\ UNCHANGED <<platforms, l0, tile, count_ans, dev_ans, instance>>

\* DevicePool::GetInstance(): under mu_, make instance_ if it is null.
GetInstance ==
    /\ instance' = TRUE
    /\ UNCHANGED <<platforms, l0, tile, once, devices, count_ans, dev_ans, ctx>>

PoolInit ==
    /\ platforms \in PlatformLists
    /\ l0 \in BOOLEAN
    /\ tile \in BOOLEAN
    /\ once = FALSE
    /\ devices = <<>>
    /\ count_ans = -1
    /\ dev_ans = [o |-> None, err |-> None, dev |-> NoDevice]
    /\ ctx = [made |-> FALSE, devs |-> <<>>]
    /\ instance = FALSE

PoolNext ==
    \/ SYCLGetDeviceCount
    \/ \E o \in Ordinals : SYCLGetDevice(o) \/ isValidDevice(o)
    \/ hasDevice
    \/ SYCLGetContext
    \/ GetInstance

PoolSpec == PoolInit /\ [][PoolNext]_pool_vars

-----------------------------------------------------------------------------
(* Properties                                                               *)

\* Once call_once has run, the static vector holds exactly the exposed
\* devices in order: platform by platform, device by device, a root's
\* tiles in place of the root.
DeviceListMatchesReference ==
    once => devices = RefDevicesPool(platforms, l0, tile)

\* SYCLGetDevice succeeds for exactly the ordinals 0..count-1, count being
\* what SYCLGetDeviceCount reported (a negative ordinal, converted to
\* size_t, fails), and the device it hands out is the one at that ordinal:
\* std::find gives the ordinal back.
DeviceOrdinals ==
    dev_ans.err # None /\ count_ans # -1 =>
        /\ (dev_ans.err = Success) = (dev_ans.o \in 0..(count_ans - 1))
        /\ dev_ans.err = Success =>
              getint(devices, dev_ans.dev) = [err |-> Success, ord |-> dev_ans.o]

=============================================================================
