SPECIFICATION LiveSpec
CONSTANTS
    Workers = {w1, w2}
    w1 = w1
    w2 = w2
    Helper = helper
    Nobody = nobody
    Attempts = 2
    PulseLimit = 1
    Looks = 3
    MaxFaults = 2
    Absent = Absent
    ReemitDelay = 2
    RetryDelay = 3
    Settle = 1
    MaxTime = 7
    MaxResets = 1
    Requests = {1, 2, 3}
    Queries = {1, 2, 3}
    Permits = 2
    MaxEdits = 2
    Keys = {1, 2}
    Clients = {1}
    MaxJobs = 1
    MaxCache = 1
    ViewSegments = 2
    MaxKills = 1
INVARIANTS BusIsExclusive RequestsAreContained
PROPERTIES AutoReplayOnlyUnheard OwedIsGiven BusComesBack FaultsAreShown
CHECK_DEADLOCK FALSE
