SPECIFICATION FairSpec
CONSTANTS
    NSteps = 2
    MaxAttempts <- TwoThenOne
    NRuns = 1
    Null = null
    Lease = 1
    RetryDelay = 1
    ForceRefresh = {1}
    ParamsOf <- SameParams
    UsesParams <- FirstOnly
    MaxLosses = 1
    MaxCommits = 4
    Awaiting <- FirstOnly
    MaxCrashes = 2
    CrashInCreate = TRUE
INVARIANTS TypeOK ResultTraceable PipelineAgrees NeverStuck
PROPERTIES FinishedIsFinal Settles
