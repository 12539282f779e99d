SPECIFICATION Spec
CONSTANTS
    SlotLens = {2}
    Days = 2
    Refetch = 2
    Keep = 0
    Retention = 2
    LateRows = {}
    RunTime = 1
    StartLag = 0
    Gap = 2
    Crashes = 0
    AuthErrors = FALSE
    LocalErrors = FALSE
    MaxClock = 5
INVARIANT
    NoSlotIsReadPartly
