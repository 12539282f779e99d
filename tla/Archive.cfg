SPECIFICATION Spec
CONSTANTS
    SlotLens = {2}
    Days = 5
    Refetch = 3
    Keep = 6
    Retention = 6
    LateRows = {1}
    RunTime = 1
    StartLag = 1
    Gap = 2
    Crashes = 0
    AuthErrors = FALSE
    LocalErrors = FALSE
    MaxClock = 8
INVARIANTS LateRowsAreKept
PROPERTIES SettledIsLeftAlone
