---------------------------- MODULE MCStreamPool ----------------------------
(* Model-checking instance of StreamPool.  The stream_pool run composes it *)
(* with the device list: the device handles the streams are keyed by are   *)
(* the ones SYCLGetDevice hands out for ordinals 0..count-1 on a machine   *)
(* with an OpenCL GPU platform and a Level-Zero platform holding a         *)
(* non-GPU device and a GPU without sub-devices, under the default         *)
(* settings (Level-Zero backend, tiles as devices): one device, the root   *)
(* GPU the tile loop exposes itself.  Threads are interchangeable, and in  *)
(* the runs with model-value devices so are the devices.                   *)
EXTENDS StreamPool, DeviceList

PoolPlatforms ==
    << [l0 |-> FALSE, devs |-> << [gpu |-> TRUE, subs |-> 0] >>],
       [l0 |-> TRUE,  devs |-> << [gpu |-> FALSE, subs |-> 0],
                                  [gpu |-> TRUE,  subs |-> 0] >>] >>

Pool == GetDevicesPool(PoolPlatforms, TRUE, TRUE)

PoolDevices == {getDevice(Pool, o).dev : o \in 0..(Len(Pool) - 1)}

\* With model-value devices (stream_destroy, stream_create_race) both sets
\* are interchangeable; the pool's device records are not model values.
Symmetry == Permutations(Threads) \cup Permutations(Devices)
ThreadSymmetry == Permutations(Threads)

=============================================================================
