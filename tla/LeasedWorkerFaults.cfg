CONSTANTS
    Jobs = {1}
    Workers = {1, 2}
    Kind <- SleepKind
    Need <- SmallNeed
    Target <- AnyTarget
    Lease = 3
    MaxAttempts = 2
    StaleAfter = 0
    MaxLag = 0
    Offers <- SleepOffers
    Capacities <- OneEnvelope
    Switchable = {1}
    MaxCalls = 1
    Beat = 1
    Probe = 1
    UploadTries = 2
    ReportTries = 2
    MaxFaults = 1
    Cancels = {1}
    Publishes = {1}
SPECIFICATION SpecWorkers
INVARIANTS
    CompletedIsPublished
    OverrunIsBounded
    NoFaultNoRetry
