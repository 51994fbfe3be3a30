SPECIFICATION Spec
CONSTANTS
    NSteps = 2
    MaxAttempts <- TwoThenOne
    NRuns = 1
    Null = null
    Lease = 1
    RetryDelay = 1
    ForceRefresh = {1}
    ParamsOf <- SameParams
    UsesParams <- FirstOnly
    MaxLosses = 0
    MaxCommits = 4
    Awaiting <- FirstOnly
    MaxCrashes = 1
    CrashInCreate = TRUE
INVARIANTS BackendStarts
