CONSTANTS
    NoDeadline = NoDeadline
    Deadlines = {9}
    OpTimeout = 3
    Durations = {0, 3}
    TokenTimes = {0}
    RetryAfters <- MCRetryAfters
    MaxOversleep = 0
    MaxChunks = 1
    MaxWaits = 0
    Tools = {"revoke","start"}
    LookupTimes = {0, 7}
    Records = {r1, r2}
    RecordLimits = {0, 1, 2}
SPECIFICATION SearchSpec
INVARIANTS
    NullMeansSent
    CountsAreExact
PROPERTIES
    ReportKeepsContract
