SPECIFICATION Spec
CONSTANTS
    NeverExpire = 3
    MaxFaults = 1
PROPERTY RetriesSucceed
CHECK_DEADLOCK FALSE
