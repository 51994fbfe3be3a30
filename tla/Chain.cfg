SPECIFICATION FairSpec
CONSTANTS
    w1 = w1
    w2 = w2
    w3 = w3
    w4 = w4
    NSteps = 3
    MaxAttempts <- TwoThenOne
    NRuns = 1
    Workers = {w1, w2, w3, w4}
    Null = null
    Lease = 1
    RetryDelay = 1
    MaxWait = 1
    ForceRefresh = {}
    StepOf <- WorkerPerStep
    Crashable = {w1}
    Replaces <- FourthForFirst
    ParamsOf <- SameParams
    UsesParams <- FetchAndAnalyze
    MaxLosses = 1
    MaxCommits = 9
INVARIANTS TypeOK ResultTraceable
PROPERTIES ImplementsProgress Settles
