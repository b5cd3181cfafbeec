CONSTANTS
    Jobs = {1, 2}
    Workers = {1, 2}
    Kind <- BatchKind
    Need <- MixedNeed
    Target <- AnyTarget
    Lease = 2
    MaxAttempts = 1
    StaleAfter = 0
    MaxLag = 0
    Offers <- BatchOffers
    Capacities <- Envelopes
    Switchable = {1, 2}
    MaxCalls = 0
SPECIFICATION Spec
INVARIANT
    OneJobPerWorker
PROPERTIES
    StartsOnSmallestAdequate
    WaitingJobHasATaker
    OldestFirst
