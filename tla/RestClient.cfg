CONSTANTS
    NoDeadline = NoDeadline
    Deadlines = {4, 9}
    OpTimeout = 3
    Durations = {0, 3}
    TokenTimes = {0, 5}
    RetryAfters <- MCRetryAfters
    MaxOversleep = 1
    MaxChunks = 1
    MaxWaits = 1
SPECIFICATION FairSpec
INVARIANTS
    TypeOK
    FalseFlagMeansNotDone
    CreatesAtMostOnce
    EveryKindGetsItsRetries
    OverrunIsOneAttempt
    FlagIsExact
PROPERTIES
    KeepsContract
    CallEnds
