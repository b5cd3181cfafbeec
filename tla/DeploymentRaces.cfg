SPECIFICATION Spec
CONSTANTS
    Releases = {r1, r2}
    Registrations = {g1, g2}
    Reconcilers = {loop, request}
    Kinds <- AllKinds
    FailingCommits <- OutsideTry
    LosesCommits = TRUE
    MaxEvents = 2
    MaxWrites = 0
INVARIANTS
    GatewayServesAccepted
    
    HostMatchesAccepted
    
PROPERTIES
    ImplementsInstallation
CHECK_DEADLOCK FALSE
