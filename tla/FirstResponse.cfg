\* Two replicas (a budget of four attempts) and partitions with zero to two
\* handoffs: with two, the budget runs out; with fewer, more.Next() comes
\* back nil first (the break).
CONSTANTS
    ReplicaCount = 2
    MaxHandoffs = 2
    Answers <- MCAnswers
    BuildFails = TRUE
SPECIFICATION Spec
INVARIANTS
    TypeOK
    DistinctDevices
PROPERTIES
    ResponsesReleased
\* firstResponse returns and its goroutines end.
CHECK_DEADLOCK FALSE
