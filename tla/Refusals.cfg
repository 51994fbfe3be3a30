SPECIFICATION Spec
CONSTANTS
    w1 = w1
    w2 = w2
    w3 = w3
    w4 = w4
    NSteps = 2
    MaxAttempts <- TwoThenOne
    NRuns = 1
    Workers = {w1, w2, w3}
    Null = null
    Lease = 1
    RetryDelay = 1
    MaxWait = 0
    ForceRefresh = {1}
    StepOf <- TwoForFirst
    Crashable = {}
    Replaces <- NoReplacement
    ParamsOf <- SameParams
    UsesParams <- FirstOnly
    MaxLosses = 0
    MaxCommits = 2
INVARIANTS BlockedForCause ComputedOnce
PROPERTIES ImplementsStore
