\* Three replicas (q = 2) and one handoff device.
CONSTANTS
    ReplicaCount = 3
    Handoffs = 1
    Classes <- MCClasses
SPECIFICATION Spec
INVARIANTS
    TypeOK
    ResultHasQuorum
    OneResponsePerWorker
PROPERTIES
    DecisionRefined
    DispatchTerminates
\* A dispatch ends: once getResponse has returned and every worker has
\* exited or is blocked on its send, nothing more happens.
CHECK_DEADLOCK FALSE
