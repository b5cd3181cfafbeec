CONSTANTS
    Jobs = {1}
    Workers = {1, 2}
    Kind <- SleepKind
    Need <- SmallNeed
    Target <- AnyTarget
    Lease = 2
    MaxAttempts = 2
    StaleAfter = 0
    MaxLag = 0
    Offers <- SleepOffers
    Capacities <- NoEnvelopes
    Switchable = {1, 2}
    MaxCalls = 2
    Beat = 1
    Probe = 0
    UploadTries = 2
    ReportTries = 2
    MaxFaults = 1
    Cancels = {}
    Publishes = {1}
SPECIFICATION SpecWorkers
PROPERTIES
    StaleFilesNeverWin
