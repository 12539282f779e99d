SPECIFICATION Spec
CONSTANTS
    Count = 3
    Budget = 12
    Durations = {0, 5}
    Overrun = 1
    TTL = 6
    MaxBriefs = 2
    Pauses = {0, 9}
    Licences = {"licensed", "no_permission"}
    MaxChanges = 1
INVARIANTS EvenShare BudgetIsKept ProbeIsFresh
