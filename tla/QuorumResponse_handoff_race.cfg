CONSTANTS
    ReplicaCount = 3
    Handoffs = 1
    Classes <- MCClasses
SPECIFICATION Spec
INVARIANT
    QuorumOfDistinctDevices
CHECK_DEADLOCK FALSE
