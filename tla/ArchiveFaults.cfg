SPECIFICATION Spec
CONSTANTS
    SlotLens = {1, 2}
    Days = 2
    Refetch = 2
    Keep = 3
    Retention = 2
    LateRows = {0}
    RunTime = 1
    StartLag = 0
    Gap = 2
    Crashes = 1
    AuthErrors = TRUE
    LocalErrors = TRUE
    MaxClock = 4
INVARIANTS
    CleanRunIsComplete
    FilesAreWhole
    NoMixedLengths
    OnlyErrorsForget
PROPERTIES
    ArchivedRowsStay
