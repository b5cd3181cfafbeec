CONSTANTS
    Jobs = {1}
    Workers = {1, 2}
    Kind <- SleepKind
    Need <- SmallNeed
    Target <- AnyTarget
    Lease = 2
    MaxAttempts = 2
    StaleAfter = 0
    MaxLag = 0
    Offers <- SleepOffers
    Capacities <- NoEnvelopes
    Switchable = {1}
    MaxCalls = 2
    Beat = 1
    Probe = 0
    UploadTries = 1
    ReportTries = 1
    MaxFaults = 1
    Cancels = {1}
    Publishes = {1}
SPECIFICATION FairWorkers
PROPERTIES
    
    StaleWorkerStops
