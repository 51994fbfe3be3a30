SPECIFICATION Spec
CONSTANTS
    w1 = w1
    w2 = w2
    w3 = w3
    w4 = w4
    NSteps = 2
    MaxAttempts <- TwoThenOne
    NRuns = 2
    Workers = {w1, w2}
    Null = null
    Lease = 1
    RetryDelay = 1
    MaxWait = 0
    ForceRefresh = {}
    StepOf <- OnePerStep
    Crashable = {w1}
    Replaces <- NoReplacement
    ParamsOf <- SameParams
    UsesParams <- FirstOnly
    MaxLosses = 1
    MaxCommits = 4
INVARIANTS ResultTraceable
