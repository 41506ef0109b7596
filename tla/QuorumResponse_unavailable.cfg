CONSTANTS
    ReplicaCount = 3
    Handoffs = 0
    Classes <- MCClasses
SPECIFICATION Spec
INVARIANT
    NoFalseUnavailable
CHECK_DEADLOCK FALSE
