SPECIFICATION FairSpec
CONSTANTS
    Requests = {r1}
    None = None
    QueueCap = 3
    MaxFaults = 1
    MaxStops = 0
PROPERTIES RequestsAreConcluded Rejoins
