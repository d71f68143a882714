\* Two threads create streams on one device with multiple streams enabled:
\* each createStream pushes its own queue and then reads back().
CONSTANTS
    Devices = {d1}
    Threads = {t1, t2}
    MaxQueues = 4
    MaxOps = 0
SPECIFICATION Spec
SYMMETRY Symmetry
INVARIANT CreatedStreamsDistinct
