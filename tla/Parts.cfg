SPECIFICATION PartsSpec
CONSTANTS
    Values = {c0, c1, c2, bad}
    Config = {c0, c1, c2}
    Default = c0
    Garbage = Garbage
    NoConfig = NoConfig
    SeqMod = 4
    Absent = Absent
    EdgeRing = 4
    PpsRing = 2
    SwingRing = 2
    PpsBudget = 1
    SwingBudget = 1
    MaxEdges = 5
    MaxPps = 2
    MaxResets = 1
    TimerPeriod = 5
    Epochs = 2
    TimerWraps = 4
    Skew = 2
    Filter = 1
    Early = 1
    Offsets = {4}
    TicksPerMs = 4
    MsRange = 4
    Routines = {"capture", "now32", "now64"}
    TimeSteps = {1, 2, 3}
    TimebaseEnd = 21
    MaxRestarts = 1
    MaxCaptures = 2
    MaxSessions = 2
    MaxSegments = 2
    RecordingFaults = 2
    Batch = 2
    NeverExpire = 3
    StorageFaults = 2
    ClockHz = 10
    ClockWrap = 40
    ExtraOffsets = {1, 4, 9}
    MaxSeconds = 7
    MeanWindow = 3
    MeanSilence = 2
    ClockHoldover = 2
    DisplayEnd = 5
    SeriesValues = {1, 2}
    MinuteTicks = 3
    SampleTicks = 2
    KeepTicks = 4
    Corrections = {}
    MaxTicks = 6
    Devices = {"sht4x"}
    SensorStale = 2
    SensorInterval = 2
    Backlog = 1
    JoinEnd = 4
    MaxLosses = 1
    SeqWidth = 12
    MinuteMs = 2
    Joins = {10}
    AccountRows = 4
    AccountEnd = 2
    AccountFaults = 1
    MaxBacklog = 2
    FileNames = {"a", "b"}
    ClockJumps = {1}
    WallEnd = 2
    ExportSegments = 1
    MaxSteps = 2
    ExportFaults = 1
    References = {"n1", "n2"}
    ReportStale = 1
    CollectorEnd = 2
    Invocations = {"i1", "i2"}
    Keys = {"k1", "k2"}
    PublisherSessions = 1
    MaxStarts = 2
    MaxChanges = 1
    Nominal = 32
    TickParts = 4
    Million = 100
    FullWeight = 15
    ResidualWindow = 3
    FastShift = 1
    SlowShift = 2
    BlendLo = 2
    BlendHi = 6
    LockR = 6
    LockMad = 2
    UnlockR = 6
    UnlockMad = 2
    LockCount = 2
    UnlockCount = 2
    AcquireMin = 2
    FwHoldover = 2
    FwMsRange = 40
    FwStart = 36
    Widest = 40
    Samples = {31, 36}
    CallSteps = {1, 2}
    MaxCalls = 5
INVARIANTS
    SlotsAreConsecutive LiveIsStored EmittedRowIsOneTimeline TimestampsAreExact FrontierIsDurable
    ReplayIsExact MissingIsExplained DisplayKeepsOneTimeline QueryIsExact ReadingsAreOfTheirTime
    AccountsAreExact WhatLeavesIsSound 
PROPERTIES SavesAreAtomic OrderIsKept SoleCopyIsKept
CHECK_DEADLOCK FALSE
