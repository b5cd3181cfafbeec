CONSTANTS
    Jobs = {1}
    Workers = {1, 2}
    Kind <- SleepKind
    Need <- SmallNeed
    Target <- AnyTarget
    Lease = 2
    MaxAttempts = 2
    StaleAfter = 1
    MaxLag = 1
    Offers <- SleepOffers
    Capacities <- NoEnvelopes
    Switchable = {1, 2}
    MaxCalls = 2
SPECIFICATION Spec
INVARIANTS
    TypeOK
    AnswerIsLatestAttempt
PROPERTIES
    LiveLeaseIsKept
    ImplementsLifecycle
