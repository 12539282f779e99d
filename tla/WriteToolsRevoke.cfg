CONSTANTS
    NoDeadline = NoDeadline
    Deadlines = {9}
    OpTimeout = 3
    Durations = {0, 3}
    TokenTimes = {0}
    RetryAfters = {0, 4}
    MaxOversleep = 0
    MaxChunks = 1
    MaxWaits = 0
    Tools = {"revoke"}
    LookupTimes = {0, 7}
SPECIFICATION ToolSpec
INVARIANTS
    RevokedFalseMeansNothingDone
