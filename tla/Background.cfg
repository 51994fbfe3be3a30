SPECIFICATION FairSpec
CONSTANTS
    w1 = w1
    api = api
    other = other
    NRuns = 3
    Workers = {w1}
    Null = null
    Owners = {api, other}
    TriggerTask = trigger
    Fleets <- TriggerOrRobots
    HistoryLimit = 1
    Fragile <- LastRun
    MaxFaults = 1
INVARIANTS TypeOK SentOnce LeavesOutOnlyNewer
PROPERTIES OneScheduled NewestAnnounced ScheduleGoesOn
