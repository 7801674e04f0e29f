SPECIFICATION FairSpec
CONSTANTS
    Nominal = 16000000
    Hard = 20000
    ValidCount = 5
    Required = 3
    RefGain = 4
    Window = 7
    LockCount = 3
    UnlockCount = 2
    AcquireMin = 32000000
    Holdover = 48000000
    Stale = 35200000
    IsrStale = 35200000
    Extras = {6400000, 15990000}
    OddSeconds = {32000000, 16025000}
    Quiet = 40000000
    MaxFaults = 2
    Budget = 4
    MaxPending = 2
INVARIANTS LockIsBacked StatusIsFresh 
PROPERTIES  PulsesAreTrusted
