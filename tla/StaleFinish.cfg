SPECIFICATION Spec
CONSTANTS
    w1 = w1
    w2 = w2
    w3 = w3
    w4 = w4
    NSteps = 1
    MaxAttempts <- TwoAttempts
    NRuns = 1
    Workers = {w1, w2}
    Null = null
    Lease = 1
    RetryDelay = 1
    MaxWait = 0
    ForceRefresh = {}
    StepOf <- AllServeFirst
    Crashable = {w1}
    Replaces <- NoReplacement
    ParamsOf <- SameParams
    UsesParams <- FirstOnly
    MaxLosses = 0
    MaxCommits = 1
PROPERTIES StaleFinishWritesNothing
