----------------------------- MODULE DeviceList -----------------------------
(***************************************************************************)
(* The device list of src/xla/stream_executor/sycl/sycl_gpu_runtime.cc as  *)
(* pure operators: the call_once lambda of DevicePool::GetDevicesPool,     *)
(* getDevice and getint, and a reference definition of the list.           *)
(*                                                                         *)
(* A platform is [l0, devs]: whether its name contains "Level-Zero", and   *)
(* its devices [gpu, subs] (is_gpu(), partition_max_sub_devices).  A       *)
(* device the list exposes is [p, d, s]: platform p, device d, tile s (0   *)
(* for the root device itself).                                            *)
(***************************************************************************)
EXTENDS Integers, Sequences, FiniteSets, SequencesExt

Success == "SYCL_SUCCESS"
InvalidDevice == "SYCL_ERROR_INVALID_DEVICE"
NoDevice == [p |-> 0, d |-> 0, s |-> 0]    \* *device left unwritten

\* The call_once lambda's first loop: the GPU root devices of every
\* platform whose is_level_zero equals RunOnLevelZero(), in order.
RootDevices(platforms, l0) ==
    FoldLeftDomain(
        LAMBDA acc, p :
            IF platforms[p].l0 = l0
            THEN acc \o SelectSeq([d \in DOMAIN platforms[p].devs |-> [p |-> p, d |-> d, s |-> 0]],
                                  LAMBDA x : platforms[p].devs[x.d].gpu)
            ELSE acc,
        <<>>, platforms)

\* partition_max_sub_devices of a root, taken also as the number of tiles
\* create_sub_devices(next_partitionable) returns.
Subs(platforms, r) == platforms[r.p].devs[r.d].subs

\* Mutation of TileDevices: the sub-devices inserted at devices.begin().
TileDevicesPrepend(platforms, roots) ==
    FoldLeft(LAMBDA acc, r :
                IF Subs(platforms, r) = 0 THEN Append(acc, r)
                ELSE [j \in 1..Subs(platforms, r) |-> [r EXCEPT !.s = j]] \o acc,
             <<>>, roots)

\* With SYCL_TILE_AS_DEVICE: a root with no sub-devices is exposed itself,
\* any other is replaced by create_sub_devices(next_partitionable).
TileDevices(platforms, roots) ==
    FoldLeft(LAMBDA acc, r :
                IF Subs(platforms, r) = 0 THEN Append(acc, r)
                ELSE acc \o [j \in 1..Subs(platforms, r) |-> [r EXCEPT !.s = j]],
             <<>>, roots)

\* GetDevicesPool: the device list, for a backend choice and a tile setting.
GetDevicesPool(platforms, l0, tile) ==
    LET roots == RootDevices(platforms, l0)
    IN IF tile THEN TileDevices(platforms, roots) ELSE roots

\* An int ordinal converted to size_t for the comparison with size();
\* SizeT abstracts the width to 8 bits, more than any list here holds.
SizeT(o) == o % 256

\* Mutation of getDevice: the ordinal compared as a signed int, so a
\* negative one passes the check (and indexes before the vector).
getDeviceSigned(devices, o) ==
    IF o >= Len(devices) THEN [err |-> InvalidDevice, dev |-> NoDevice]
    ELSE [err |-> Success, dev |-> IF o + 1 \in DOMAIN devices THEN devices[o + 1] ELSE NoDevice]

\* getDevice(device, ordinal): the ordinal-th device, or INVALID_DEVICE.
getDevice(devices, o) ==
    IF SizeT(o) >= Len(devices) THEN [err |-> InvalidDevice, dev |-> NoDevice]
    ELSE [err |-> Success, dev |-> devices[o + 1]]

\* getint(device, ordinal): the position std::find gives the device.
getint(devices, dev) ==
    LET k == SelectInSeq(devices, LAMBDA x : x = dev)
    IN IF k = 0 THEN [err |-> InvalidDevice, ord |-> -1]
       ELSE [err |-> Success, ord |-> k - 1]

-----------------------------------------------------------------------------
(* Reference definitions                                                    *)

\* The devices the selection exposes, as a set.
RefDeviceSet(platforms, l0, tile) ==
    LET roots == UNION {{[p |-> p, d |-> d, s |-> 0] :
                          d \in {d \in DOMAIN platforms[p].devs : platforms[p].devs[d].gpu}} :
                        p \in {p \in DOMAIN platforms : platforms[p].l0 = l0}}
    IN {r \in roots : ~tile \/ Subs(platforms, r) = 0}
       \cup UNION {{[r EXCEPT !.s = j] : j \in 1..Subs(platforms, r)} :
                     r \in {r \in roots : tile /\ Subs(platforms, r) > 0}}

\* Platform order, then device order, then tile order.
DeviceBefore(x, y) ==
    \/ x.p < y.p
    \/ x.p = y.p /\ x.d < y.d
    \/ x.p = y.p /\ x.d = y.d /\ x.s < y.s

\* The k-th device is the one with k-1 devices before it.
RefDevicesPool(platforms, l0, tile) ==
    LET S == RefDeviceSet(platforms, l0, tile)
    IN [k \in 1..Cardinality(S) |->
          CHOOSE x \in S : Cardinality({y \in S : DeviceBefore(y, x)}) = k - 1]

\* The platform lists checked: up to two platforms of either backend, each
\* with up to two devices that are not GPUs, GPUs without tiles, or GPUs
\* with two tiles.
DeviceKind == {[gpu |-> FALSE, subs |-> 0], [gpu |-> TRUE, subs |-> 0],
               [gpu |-> TRUE, subs |-> 2]}
PlatformLists == SeqOf([l0 : BOOLEAN, devs : SeqOf(DeviceKind, 2)], 2)

=============================================================================
