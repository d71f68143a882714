\* The same call as host_callback: two arguments, two results of every
\* kind and layout, and transpose plans that may fail.  A first result
\* with the expected strides is copied from array.data(); a second with
\* other strides whose plan fails throws before the final wait.
CONSTANTS
    Arity = 2
    NumResults = 2
SPECIFICATION Spec
INVARIANT NoCopyOfFreed
CHECK_DEADLOCK FALSE
