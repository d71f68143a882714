\* One thread creates a stream and destroys it.
CONSTANTS
    Devices = {d1}
    Threads = {t1}
    MaxQueues = 3
    MaxOps = 0
SPECIFICATION Spec
INVARIANT DestroyRemoves
