SPECIFICATION Spec
CONSTANTS
    Files <- MCFiles
    Requests <- MCRequests
    Calls = {c1, c2}
    MaxEdits = 1
    RacingEdits = FALSE
INVARIANTS
    ReachesItsTenant
    TagIsTrue
    UnclaimedIsSaid
PROPERTIES
    ClientsAreKept
