SPECIFICATION Spec
CONSTANTS
    Requests = {r1, r2}
    None = None
    QueueCap = 2
    MaxFaults = 1
    MaxStops = 1
SYMMETRY RequestSymmetry
INVARIANTS NeverRetried
PROPERTIES ResultsAreFinal  WrittenAfterMetadata
