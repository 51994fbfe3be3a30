SPECIFICATION Spec
CONSTANTS
    w1 = w1
    w2 = w2
    w3 = w3
    w4 = w4
    NSteps = 1
    MaxAttempts <- TwoAttempts
    NRuns = 2
    Workers = {w1, w2}
    Null = null
    Lease = 1
    RetryDelay = 1
    MaxWait = 0
    ForceRefresh = {2}
    StepOf <- AllServeFirst
    Crashable = {}
    Replaces <- NoReplacement
    ParamsOf <- SameParams
    UsesParams <- FirstOnly
    MaxLosses = 0
    MaxCommits = 2
INVARIANTS ForceRefreshHonoured
