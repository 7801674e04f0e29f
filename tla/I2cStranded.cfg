SPECIFICATION FairSpec
CONSTANTS
    Workers = {w1, w2}
    Helper = helper
    Nobody = nobody
    Attempts = 2
    PulseLimit = 1
    Looks = 3
    MaxFaults = 2
PROPERTY FaultsRearm
CHECK_DEADLOCK FALSE
