SPECIFICATION SpecFiles
CONSTANTS
    Names = {"d", "e", "x", "y"}
    Targets <- Paths
    FirstTree <- SmallTree
    MaxRequests = 3
    Jobs = {"s", "t", "a1"}
    RunOf <- RunNames
    Single = {"s", "t"}
    Files = {"out", "log"}
    Bytes <- Sizes
    MaxStore = 3
    MaxJob = 3
    MaxDeeds = 3
    Discoverers = {"loop", "portal"}
    Sources = {"repo", "moved"}
    Window = 1
    MaxTries = 2
    Room = 1
    MaxReleases = 2
    MaxMoves = 1
INVARIANTS
    WorkspaceIsSound
    
    NothingIsForgotten
PROPERTY
    UploadsOverwriteNothing
CHECK_DEADLOCK FALSE
