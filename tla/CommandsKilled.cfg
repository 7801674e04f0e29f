SPECIFICATION Spec
CONSTANTS
    Requests = {r1}
    None = None
    QueueCap = 3
    MaxFaults = 0
    MaxStops = 1
INVARIANTS NotSentIsTrue
