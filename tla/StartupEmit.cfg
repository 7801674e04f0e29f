SPECIFICATION FairSpec
CONSTANTS
    ReemitDelay = 2
    RetryDelay = 3
    Settle = 1
    MaxTime = 7
    MaxResets = 1
PROPERTIES
    EmitIsAnswered
