SPECIFICATION Spec
CONSTANTS
    Handlers = {h1, h2}
    Owners = {ann, bob}
    Keys = {k1, k2}
    Inputs = {i1, i2}
    InputLimit = 2
    OwnerQuota = 3
    TotalQuota = 4
    OwnerRuns = 2
    TotalRuns = 2
    Mixes <- Everybody
    MaxTasks = 2
    MaxRestarts = 1
INVARIANTS
    
    AnsweredGroupsAreReleased
    StagedFilesHaveAnOwner
    RepeatsAgree
    SlotsAreExact
    RetainedBytesAreBounded
SYMMETRY Alike
CHECK_DEADLOCK FALSE
