SPECIFICATION FairSpec
CONSTANTS
    Releases = {r1, r2}
    Registrations = {g1, g2}
    Reconcilers = {loop}
    Kinds <- AllKinds
    FailingCommits <- OutsideTry
    LosesCommits = FALSE
    MaxEvents = 2
    MaxWrites = 1
PROPERTIES
    EveryOperationIsDecided
    
CHECK_DEADLOCK FALSE
