SPECIFICATION Spec
CONSTANTS
    Jobs = {"b1", "b2", "p1", "p2"}
    Files = {"archive", "in1", "in2", "in3", "script", "large"}
    Batches = {"b1", "b2"}
    Needs <- TwoKinds
    Bytes <- Sizes
    MaxCacheBytes = 4
    MaxUnpublished = 1
    MaxClaims = 3
    MaxCrashes = 2
INVARIANTS
    EvictionIsSafe
    FittingJobsAreNotRefused
    
PROPERTY
    NewestOutputsAreKept
CHECK_DEADLOCK FALSE
