\* One custom call with two arguments and two results of every kind and
\* layout, every descriptor, Call and transpose-plan outcome, and every
\* interleaving of the device's copies and Python's releases with the
\* callback's steps.  A call ends (returns or throws), so the system stops.
CONSTANTS
    Arity = 2
    NumResults = 2
SPECIFICATION Spec
INVARIANT InputsCopiedBeforeCall
INVARIANT OutputsWrittenOnReturn
INVARIANT NoCopyOfCallBuffers
CHECK_DEADLOCK FALSE
