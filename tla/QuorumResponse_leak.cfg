CONSTANTS
    ReplicaCount = 3
    Handoffs = 1
    Classes <- MCClasses
SPECIFICATION Spec
PROPERTY
    WorkersExit
CHECK_DEADLOCK FALSE
