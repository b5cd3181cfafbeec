SPECIFICATION Spec
CONSTANTS
    r1 = r1
    r2 = r2
    r3 = r3
    Apps <- TwoApps
    Releases <- TwoAppsReleases
    AppOf <- TwoAppsOf
    PREVIEW_SLOTS = 1
    MaxAttempts = 2
    MaxEvents = 2
SYMMETRY SameApp
INVARIANTS
    GuestBooksAreTrue
    RetiredIsGone
CHECK_DEADLOCK FALSE
