\* Two threads using the streams of the one device the device pool exposes,
\* with multiple streams enabled or not, until four queues have been made,
\* and calling the memory wrappers until two operations have been queued.
CONSTANTS
    Devices <- PoolDevices
    Threads = {t1, t2}
    MaxQueues = 4
    MaxOps = 2
SPECIFICATION Spec
SYMMETRY ThreadSymmetry
INVARIANT HeldStreamsLive
PROPERTY DefaultStreamStable
INVARIANT SyncContextDrains
