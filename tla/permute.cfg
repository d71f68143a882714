\* Every valid source-target pair list, in every order, over three replicas
\* (no channel id) or two partitions (channel id), with the participants'
\* steps, their early error returns and the deliveries interleaved in every
\* way.  The collective ends, or waits forever on a failed peer: the system
\* may stop.
CONSTANTS
    ReplicaCount = 3
    PartitionCount = 2
SPECIFICATION Spec
INVARIANT ConfigMatchesPairs
INVARIANT DegenerateIsIdentity
INVARIANT PermuteResult
CHECK_DEADLOCK FALSE
