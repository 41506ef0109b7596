\* Three replicas (q = 2), one handoff, a two-chunk body: NoTruncatedCommit.
CONSTANTS
    ReplicaCount = 3
    Handoffs = 1
    Chunks = 2
    EarlyClasses <- MCEarlyClasses
    FinalClasses <- MCFinalClasses
    MidBodyClasses <- MCMidBodyClasses
SPECIFICATION Spec
INVARIANT
    NoTruncatedCommit
\* putObject returns, and the workers it leaves behind may stay blocked.
CHECK_DEADLOCK FALSE
