SPECIFICATION Spec
CONSTANTS
    NSteps = 2
    MaxAttempts <- TwoThenOne
    NRuns = 2
    Workers = {w1, w2}
    Keys = {k1}
    Null = null
    Lease = 1
    RetryDelay = 1
    MaxWait = 1
    ForceRefresh = {2}
SYMMETRY Symmetry
INVARIANTS TypeOK PendingIffWaiting LeaseIffRunning AttemptsBounded PipelineAgrees NeverStuck
PROPERTIES FinishedIsFinal LeaseHonoured
