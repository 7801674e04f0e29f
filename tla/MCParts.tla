------------------------------- MODULE MCParts ------------------------------
(***************************************************************************)
(* Safety of components that share no state, for TLC, in one run.  A       *)
(* behaviour starts with the part that moves in it, and only that part     *)
(* moves.  The variables serve each part in turn: its instance says which  *)
(* variable of the part each one stands for, and gives the part's bounds.  *)
(* The configuration store moves in its own variables: TLC checks its own  *)
(* properties, every set, reset and repair with a power failure or a bad   *)
(* cell at any write.                                                      *)
(***************************************************************************)
EXTENDS EepromStore, Sequences

CONSTANTS
    Absent,  \* no value, no reading
    \* CapturePipeline
    EdgeRing, PpsRing, SwingRing, PpsBudget, SwingBudget, MaxEdges, MaxPps, MaxResets,
    \* Timebase
    TimerPeriod, Epochs, TimerWraps, Skew, Filter, Early, Offsets, TicksPerMs, MsRange,
    Routines, TimeSteps, TimebaseEnd, MaxRestarts,
    \* Recording
    MaxCaptures, MaxSessions, MaxSegments, RecordingFaults, Batch,
    \* StorageLifecycle
    NeverExpire, StorageFaults,
    \* DisplayClock
    ClockHz, ClockWrap, ExtraOffsets, MaxSeconds,
    \* DisplayEstimates
    MeanWindow, MeanSilence, ClockHoldover, DisplayEnd,
    \* HistoryStore
    SeriesValues, MinuteTicks, SampleTicks, KeepTicks, Corrections, MaxTicks,
    \* EnvironmentJoin
    Devices, SensorStale, SensorInterval, Backlog, JoinEnd, MaxLosses,
    \* CaptureAccounting
    SeqWidth, MinuteMs, Joins, AccountRows, AccountEnd, AccountFaults, MaxBacklog,
    \* Exports
    FileNames, ClockJumps, WallEnd, ExportSegments, MaxSteps, ExportFaults,
    \* HealthCollectors
    References, ReportStale, CollectorEnd,
    \* Publisher
    Invocations, Keys, PublisherSessions, MaxStarts, MaxChanges,
    \* FirmwareParity
    Nominal, TickParts, Million, FullWeight, ResidualWindow, FastShift, SlowShift, BlendLo,
    BlendHi, LockR, LockMad, UnlockR, UnlockMad, LockCount, UnlockCount, AcquireMin,
    FwHoldover, FwMsRange, FwStart, Widest, Samples, CallSteps, MaxCalls

\* What a configuration file, or the command line, gives (AnalysisPlan).
Layer(tier, clock, enabled, disabled) ==
    [clock_profile |-> clock, analysis_profile |-> tier, force |-> Absent, enabled |-> enabled, disabled |-> disabled]

FileLayers ==
    {Layer(Absent, Absent, Absent, Absent), Layer("medium", Absent, {"daily_summary"}, Absent),
     Layer(Absent, "synchronome", {"change_point_detection"}, {"phase_fold"})}
TypedLayers ==
    {Layer(Absent, Absent, Absent, Absent), Layer("core", Absent, Absent, Absent),
     Layer(Absent, "synchronome", {"daily_summary"}, {"daily_summary"})}

\* The columns of two recordings, and what a cycle of the trial can show.
Recorded == {{"full_s", "full_resid_us", "half_A_s", "half_B_s", "temp_C"}, {"t_s", "full_s", "block_A_s"}}
TrialLevels ==
    {[difference |-> 0, flag |-> 0], [difference |-> 2, flag |-> 1], [difference |-> 3, flag |-> 0]}

VARIABLES
    part,  \* the part that moves
    x1, x2, x3, x4, x5, x6, x7, x8, x9, x10, x11, x12, x13, x14, x15, x16, x17, x18, x19, x20,
    x21, x22, x23, x24

pvars == <<part, vars, x1, x2, x3, x4, x5, x6, x7, x8, x9, x10, x11, x12, x13, x14, x15, x16, x17, x18, x19,
      x20, x21, x22, x23, x24>>

\* Both rings fill, and a half-built row can be carried over a reset.
C == INSTANCE CaptureProofs WITH
        side <- x1, irRing <- x2, droppedIr <- x3, ppsSeen <- x4, ppsRing <- x5,
        droppedPps <- x6, swingState <- x7, curr <- x8, swingSeq <- x9, rowRing <- x10,
        droppedRows <- x11, rowDrops <- x12, pc <- x13, budget <- x14, ready <- x15, e <- x16,
        cap <- x17, fs <- x18, csw <- x19, cps <- x20, timeline <- x21, irSeen <- x22,
        lost <- x23, sent <- x24

\* 21 ticks pass the 32-bit range (10) twice and the 64-bit range (20) once.
T == INSTANCE Timebase WITH
        now <- x1, pc <- x2, sampled <- x3, offset <- x4, flag <- x5, ovf <- x6, wraps <- x7,
        latched <- x8, ccmp <- x9, job <- x10, epoch <- x11, cnt <- x12, capt <- x13,
        lastMs <- x14, backsteps <- x15, stamp <- x16, millis <- x17, restarts <- x18,
        Period <- TimerPeriod, Wraps <- TimerWraps, Steps <- TimeSteps, MaxTime <- TimebaseEnd

\* Two sessions of two segments: names out of order, rotation, and two faults anywhere.
R == INSTANCE RecordingProofs WITH
        captured <- x1, journal <- x2, recorder <- x3, faults <- x4, db <- x5, paths <- x6,
        txn <- x7,
        MaxFaults <- RecordingFaults

\* One file of each retention group; two kills, failures or changes of the archive.
L == INSTANCE StorageLifecycle WITH
        local <- x1, pc <- x2, meta <- x3, place <- x4, saved <- x5, archive <- x6,
        archived <- x7, mounted <- x8, consumed <- x9, age <- x10, work <- x11,
        checked <- x12, wfaults <- x13,
        MaxFaults <- StorageFaults

\* An extra may fall just after, within and just before a second.
K == INSTANCE DisplayClock WITH
        second <- x1, sub <- x2, clock <- x3, clean <- x4, genuine <- x5, real <- x6,
        Hz <- ClockHz, Wrap <- ClockWrap, Offsets <- ExtraOffsets

\* A window of three swings, silence and holdover shorter than it.
D == INSTANCE DisplayEstimates WITH
        now <- x1, line <- x2, seq <- x3, file <- x4, clockAt <- x5, est <- x6,
        forecast <- x7, pending <- x8, since <- x9,
        Window <- MeanWindow, Silence <- MeanSilence, Holdover <- ClockHoldover,
        MaxTime <- DisplayEnd

\* Minutes of three ticks, an observation every two; rows expire after four ticks.
H == INSTANCE HistoryStore WITH
        obs <- x1, minutes <- x2, nextId <- x3, mono <- x4, skew <- x5, seg <- x6,
        stored <- x7, paused <- x8, failed <- x9, breaks <- x10,
        None <- Absent, Values <- SeriesValues, Minute <- MinuteTicks, Sample <- SampleTicks,
        Keep <- KeepTicks

\* Two segments whose rows interleave; steps within, at and beyond the tolerance.
Q == INSTANCE EnvironmentalQuery WITH
        windows <- x1, now <- x2, peers <- x3, scored <- x4, read <- x5,
        None <- Absent, SegmentKeys <- {"s1", "s2"}, Readings <- {1}, Window <- 2,
        Tolerance <- 1, Steps <- {0, 1, 3}, MaxRows <- 4

\* A capture may wait for the length of two rows of the history; one row may be lost.
J == INSTANCE EnvironmentJoin WITH
        now <- x1, good <- x2, queue <- x3, file <- x4, snapshot <- x5, history <- x6,
        appended <- x7, attached <- x8, losses <- x9,
        None <- Absent, Stale <- SensorStale, Interval <- SensorInterval, MaxTime <- JoinEnd

\* Four rows across the wrap of the numbers and across a minute; one row lost, doubled or damaged, one failure or one restart.
A == INSTANCE CaptureAccounting WITH
        now <- x1, faults <- x2, queue <- x3, nano <- x4, lost <- x5, pi <- x6, log <- x7,
        rec <- x8, out <- x9, kept <- x10,
        None <- Absent, Width <- SeqWidth, Minute <- MinuteMs, MaxRows <- AccountRows,
        MaxTime <- AccountEnd, MaxFaults <- AccountFaults

\* A segment of two files during which the clock may step away and back.
X == INSTANCE Exports WITH
        files <- x1, faults <- x2, wall <- x3, steps <- x4, segments <- x5, records <- x6,
        catalogue <- x7, request <- x8,
        None <- Absent, Names <- FileNames, Steps <- ClockJumps \cup {-j : j \in ClockJumps},
        MaxTime <- WallEnd, MaxSegments <- ExportSegments, MaxFaults <- ExportFaults

\* Two references; reports may be as old as permitted, and older.
G == INSTANCE HealthCollectors WITH
        now <- x1, pc <- x2, sampled <- x3, collector <- x4, daemon <- x5, got <- x6,
        cached <- x7, stopped <- x8, closed <- x9, updates <- x10,
        None <- Absent, Names <- References, Stale <- ReportStale, MaxTime <- CollectorEnd

\* Two invocations at once, two keys, one change of the configuration.
U == INSTANCE Publisher WITH
        files <- x1, session <- x2, config <- x3, receipt <- x4, last <- x5, holder <- x6,
        invs <- x7, starts <- x8, entries <- x9,
        None <- Absent, MaxSessions <- PublisherSessions

\* Three rows, cut anywhere.
N == INSTANCE SerialIngest WITH
        sent <- x1, unread <- x2, raw <- x3, parsed <- x4, rejected <- x5, disk <- x6,
        since <- x7, pc <- x8, stopping <- x9, manifest <- x10,
        Kinds <- {"structured", "status", "unknown"}, RawFlush <- 1, ParsedFlush <- 2,
        MaxRows <- 3

\* The metadata and two lines, one of which may be damaged; four requests would fit.
W == INSTANCE NanoCapture WITH
        sent <- x1, wire <- x2, raw <- x3, rows <- x4, pending <- x5, discarding <- x6,
        cfg <- x7, configured <- x8, schemas <- x9, counts <- x10, malformed <- x11,
        beforeReady <- x12, lines <- x13, pc <- x14, now <- x15, since <- x16,
        requests <- x17, announced <- x18, asked <- x19,
        Rows <- {"csw"}, Damaged <- {"cfg other", "cfg bad", "long"}, Patience <- 4,
        Again <- 1, MaxLines <- 5, MaxFaults <- 1, MaxTime <- 5

\* Five seconds of 20 ticks and a counter of 100: it wraps within every run of seconds.
O == INSTANCE OfflineTimescale WITH
        pulses <- x1, swings <- x2, nextP <- x3, nextS <- x4, faults <- x5, line <- x6,
        None <- Absent, Wrap <- 100, Hz <- 20, Jitters <- {1}, Half <- 1, MinPoints <- 3,
        Starts <- {120}, MaxPulses <- 5, MaxSwings <- 2, MaxFaults <- 1

\* Five calls: enough to lock, to hold over or to unlock, across the wrap of the milliseconds.
F == INSTANCE FirmwareParity WITH
        now <- x1, calls <- x2, fw <- x3, py <- x4,
        Parts <- TickParts, Full <- FullWeight, Window <- ResidualWindow,
        Holdover <- FwHoldover, MsRange <- FwMsRange, Start <- FwStart, Steps <- CallSteps

\* Three segments of two sessions, and one fault.
B == INSTANCE RecordingCollection WITH
        dirs <- x1, session <- x2, contract <- x3, next <- x4, used <- x5, faults <- x6,
        result <- x7,
        None <- Absent, Sessions <- {"b", "a"}, Contracts <- {"c"}, MaxSegments <- 3,
        MaxRows <- 1, MaxFaults <- 1

\* Two cycles of two swings, one more row; numbers and times pass their wrap; gaps shorter and longer than a wrap of the times.
S == INSTANCE SwingAnalysis WITH
        rows <- x1, next <- x2, faults <- x3, frame <- x4, report <- x5,
        None <- Absent, Wrap <- 64, SeqWrap <- 15, Recent <- 4, Period <- 10, Cycle <- 2,
        Origin <- 1, Stale <- 30, Firsts <- {13}, Losses <- {1, 5}, Spared <- {0, 3},
        MaxRows <- 5, MaxFaults <- 2, Second <- 5, PpsFrom <- {59}, Unlocked <- 70, Far <- 2,
        Fence <- 1, MaxPoints <- 4

\* Five seconds across the wrap of the numbers and of the times (five seconds of 41 ticks, 210).
P == INSTANCE ClockAnalysis WITH
        rows <- x1, next <- x2, faults <- x3, frame <- x4, gated <- x5, report <- x6,
        None <- Absent, Wrap <- 210, SeqWrap <- 16, Recent <- 4, Hz <- 40, Offset <- 1,
        Shift <- 2, MaxShift <- 2, Bin <- 3, MinSupport <- 1, Firsts <- {14},
        Losses <- {1, 5}, MaxRows <- 5, MaxFaults <- 2, Near <- 5, Window <- 3,
        MinWindow <- 2, Radius <- 2, Phases <- 6, CapBins <- 3, PerBin <- 1, WarnGap <- 4,
        FailGap <- 5, WarnRatio <- 2, FailRatio <- 3

\* Layers that disagree; thresholds out of order; a recording with and without each kind of column.
M == INSTANCE AnalysisPlan WITH
        given <- x1, config <- x2, plan <- x3, tables <- x4, results <- x5,
        None <- Absent, Layers <- FileLayers, Typed <- TypedLayers, Days <- {0, 2, 3},
        Thresholds <- {[standard |-> 1, medium_run |-> 3, long_run |-> 2]}, Frames <- Recorded

\* Two runs over one directory, with either profile.
V == INSTANCE AnalysisRun WITH
        run <- x1, profile <- x2, at <- x3, artifacts <- x4, dir <- x5, done <- x6,
        None <- Absent, Profiles <- {"generic", "synchronome"}, Tables <- {"statistics"},
        Plots <- {"overview"}, MaxRuns <- 2

\* Eight cycles with windows of two: two events can be near each other or not.
E == INSTANCE TrialAnalysis WITH
        cycles <- x1, next <- x2, changes <- x3, scores <- x4,
        Window <- 2, Thresholds <- [difference |-> 2, flag |-> 1], Levels <- TrialLevels,
        Separation <- 5, MaxEvents <- 2, Hour <- 4, Enough <- 1, MinTrain <- 2, MinTest <- 1,
        MaxCycles <- 8, MaxChanges <- 2

\* Two runs, of either kind; an input changes once, at any moment.
Y == INSTANCE ReportPublication WITH
        version <- x1, run <- x2, job <- x3, out <- x4, done <- x5,
        None <- Absent, Inputs <- {"pcps", "pcsw"}, Always <- {"report"},
        Optional <- {"table"}, MaxRuns <- 2, MaxGrowth <- 1

-----------------------------------------------------------------------------
\* What a part of so many variables leaves over.
Rest0 == <<x1, x2, x3, x4, x5, x6, x7, x8, x9, x10, x11, x12, x13, x14, x15, x16, x17, x18, x19,
      x20, x21, x22, x23, x24>>
Rest4 == <<x5, x6, x7, x8, x9, x10, x11, x12, x13, x14, x15, x16, x17, x18, x19, x20, x21, x22,
      x23, x24>>
Rest5 == <<x6, x7, x8, x9, x10, x11, x12, x13, x14, x15, x16, x17, x18, x19, x20, x21, x22, x23,
      x24>>
Rest6 == <<x7, x8, x9, x10, x11, x12, x13, x14, x15, x16, x17, x18, x19, x20, x21, x22, x23, x24>>
Rest7 == <<x8, x9, x10, x11, x12, x13, x14, x15, x16, x17, x18, x19, x20, x21, x22, x23, x24>>
Rest8 == <<x9, x10, x11, x12, x13, x14, x15, x16, x17, x18, x19, x20, x21, x22, x23, x24>>
Rest9 == <<x10, x11, x12, x13, x14, x15, x16, x17, x18, x19, x20, x21, x22, x23, x24>>
Rest10 == <<x11, x12, x13, x14, x15, x16, x17, x18, x19, x20, x21, x22, x23, x24>>
Rest13 == <<x14, x15, x16, x17, x18, x19, x20, x21, x22, x23, x24>>
Rest18 == <<x19, x20, x21, x22, x23, x24>>
Rest19 == <<x20, x21, x22, x23, x24>>
Idle19 == x20 = 0 /\ x21 = 0 /\ x22 = 0 /\ x23 = 0 /\ x24 = 0
Idle18 == x19 = 0 /\ Idle19
Idle13 == x14 = 0 /\ x15 = 0 /\ x16 = 0 /\ x17 = 0 /\ x18 = 0 /\ Idle18
Idle10 == x11 = 0 /\ x12 = 0 /\ x13 = 0 /\ Idle13
Idle9 == x10 = 0 /\ Idle10
Idle8 == x9 = 0 /\ Idle9
Idle7 == x8 = 0 /\ Idle8
Idle6 == x7 = 0 /\ Idle7
Idle5 == x6 = 0 /\ Idle6
Idle4 == x5 = 0 /\ Idle5
Idle0 == x1 = 0 /\ x2 = 0 /\ x3 = 0 /\ x4 = 0 /\ Idle4

PartsInit ==
    \/ /\ part = "eeprom" /\ Init /\ Idle0
    \/ /\ part = "capture" /\ C!Init /\ Init
    \/ /\ part = "timebase" /\ T!Init /\ Init /\ Idle18
    \/ /\ part = "recording" /\ R!Init /\ Init /\ Idle7
    \/ /\ part = "storage" /\ L!Init /\ Init /\ Idle13
    \/ /\ part = "clock" /\ K!Init /\ Init /\ Idle6
    \/ /\ part = "estimates" /\ D!Init /\ Init /\ Idle9
    \/ /\ part = "history" /\ H!Init /\ Init /\ Idle10
    \/ /\ part = "averages" /\ Q!Init /\ Init /\ Idle5
    \/ /\ part = "sensors" /\ J!Init /\ Init /\ Idle9
    \/ /\ part = "accounting" /\ A!Init /\ Init /\ Idle10
    \/ /\ part = "exports" /\ X!Init /\ Init /\ Idle8
    \/ /\ part = "health" /\ G!Init /\ Init /\ Idle10
    \/ /\ part = "publisher" /\ U!Init /\ Init /\ Idle9
    \/ /\ part = "ingest" /\ N!Init /\ Init /\ Idle10
    \/ /\ part = "nanocapture" /\ W!Init /\ Init /\ Idle19
    \/ /\ part = "timescale" /\ O!Init /\ Init /\ Idle6
    \/ /\ part = "parity" /\ F!Init /\ Init /\ Idle4
    \/ /\ part = "collection" /\ B!Init /\ Init /\ Idle7
    \/ /\ part = "swings" /\ S!ReportInit /\ Init /\ Idle5
    \/ /\ part = "pps" /\ P!ReportInit /\ Init /\ Idle6
    \/ /\ part = "plan" /\ M!Init /\ Init /\ Idle5
    \/ /\ part = "run" /\ V!Init /\ Init /\ Idle6
    \/ /\ part = "trial" /\ E!Init /\ Init /\ Idle4
    \/ /\ part = "reports" /\ Y!Init /\ Init /\ Idle5

PartsNext ==
    \/ part = "eeprom" /\ Next /\ UNCHANGED <<part, Rest0>>
    \/ part = "capture" /\ C!Next /\ UNCHANGED <<part, vars>>
    \/ part = "timebase" /\ T!Next /\ UNCHANGED <<part, Rest18, vars>>
    \/ part = "recording" /\ R!Next /\ UNCHANGED <<part, Rest7, vars>>
    \/ part = "storage" /\ L!Next /\ UNCHANGED <<part, Rest13, vars>>
    \/ part = "clock" /\ K!Next /\ UNCHANGED <<part, Rest6, vars>>
    \/ part = "estimates" /\ D!Next /\ UNCHANGED <<part, Rest9, vars>>
    \/ part = "history" /\ H!Next /\ UNCHANGED <<part, Rest10, vars>>
    \/ part = "averages" /\ Q!Next /\ UNCHANGED <<part, Rest5, vars>>
    \/ part = "sensors" /\ J!Next /\ UNCHANGED <<part, Rest9, vars>>
    \/ part = "accounting" /\ A!Next /\ UNCHANGED <<part, Rest10, vars>>
    \/ part = "exports" /\ X!Next /\ UNCHANGED <<part, Rest8, vars>>
    \/ part = "health" /\ G!Next /\ UNCHANGED <<part, Rest10, vars>>
    \/ part = "publisher" /\ U!Next /\ UNCHANGED <<part, Rest9, vars>>
    \/ part = "ingest" /\ N!Next /\ UNCHANGED <<part, Rest10, vars>>
    \/ part = "nanocapture" /\ W!Next /\ UNCHANGED <<part, Rest19, vars>>
    \/ part = "timescale" /\ O!Next /\ UNCHANGED <<part, Rest6, vars>>
    \/ part = "parity" /\ F!Next /\ UNCHANGED <<part, Rest4, vars>>
    \/ part = "collection" /\ B!Next /\ UNCHANGED <<part, Rest7, vars>>
    \/ part = "swings" /\ S!ReportNext /\ UNCHANGED <<part, Rest5, vars>>
    \/ part = "pps" /\ P!ReportNext /\ UNCHANGED <<part, Rest6, vars>>
    \/ part = "plan" /\ M!Next /\ UNCHANGED <<part, Rest5, vars>>
    \/ part = "run" /\ V!Next /\ UNCHANGED <<part, Rest6, vars>>
    \/ part = "trial" /\ E!Next /\ UNCHANGED <<part, Rest4, vars>>
    \/ part = "reports" /\ Y!Next /\ UNCHANGED <<part, Rest5, vars>>

PartsSpec == PartsInit /\ [][PartsNext]_pvars

ASSUME PartsAssumption ==
    /\ C!RingAssumption /\ C!BudgetAssumption /\ C!BoundAssumption
    /\ T!CounterAssumption /\ T!TimingAssumption /\ T!BoundAssumption
    /\ R!RecordingAssumption /\ L!StorageAssumption /\ K!ClockAssumption /\ D!EstimatesAssumption
    /\ H!HistoryAssumption /\ Q!EnvironmentAssumption /\ J!JoinAssumption
    /\ A!AccountingAssumption /\ X!ExportAssumption /\ G!CollectorAssumption
    /\ U!PublisherAssumption /\ N!IngestAssumption /\ W!CaptureAssumption
    /\ O!TimescaleAssumption /\ F!ParityAssumption /\ S!ReportAssumption /\ P!ReportAssumption
    /\ M!PlanAssumption /\ V!RunAssumption /\ E!TrialAssumption /\ Y!PublicationAssumption
-----------------------------------------------------------------------------
\* A row the host gets is of one run of the counter, in ascending order, also when
\* `reset defaults` falls into it, and reports the rows missing before it (CapturePipeline).
EmittedRowIsOneTimeline ==
    part = "capture" => C!EmittedRowIsOneTimeline /\ C!DropSwingCoversGap

\* What reaches the host goes forward: neighbouring rows share their boundary edge, CPS
\* numbers ascend, the PPS ring is a lossy FIFO (CapturePipeline), and the milliseconds count
\* the time (Timebase).  A call of the discipliner is a step of its state machine
\* (FirmwareParity).
OrderIsKept ==
    [][/\ part = "capture" =>
             /\ C!SharesBoundary /\ C!NextCpsAscends
             /\ C!PpsFifo!Next \/ C!PpsFifo!fifoVars' = C!PpsFifo!fifoVars
       /\ part = "timebase" => T!MillisAdvance
       /\ part = "parity" => F!ImplementsMachine]_pvars

\* Timestamps are the true time, and backsteps of the milliseconds have a cause (Timebase);
\* the frequency exported with them is an estimate from samples there were (FirmwareParity).
TimestampsAreExact ==
    /\ part = "timebase" => T!TimestampsAreExact /\ T!BackstepsHaveACause
    /\ part = "parity" => F!ExportIsSlow

\* What a manifest publishes is durable and complete (Recording).
FrontierIsDurable == part = "recording" => R!FrontierIsDurable /\ R!InputsAreRecorded

\* The replay reads every published input once and in order, begins anew after every
\* hole, and nothing is taken away before it has read it (Recording).
ReplayIsExact == part = "recording" => R!ReplayIsExact /\ R!GapsAreSeen /\ R!UnreadIsKept

\* A last local copy goes only while the archive holds a good one (StorageLifecycle).
SoleCopyIsKept == [][part = "storage" => L!KeepsSoleCopies]_pvars

\* A file that is missing has a record of its expiry, and no interruption leaves a
\* directory that the next pass refuses (StorageLifecycle).  Rows that are missing are
\* reported: with the rows accepted they are all that was sent (CaptureAccounting).
MissingIsExplained ==
    /\ part = "storage" => L!MissingIsExplained /\ L!PassesGoOn
    /\ part = "accounting" => A!MissingIsExact

\* The display's clock accepts true seconds and recovers, and no mean and no score of the
\* display spans a loss (DisplayClock, DisplayEstimates).
DisplayKeepsOneTimeline ==
    /\ part = "clock" => K!AcceptedIsOneSecond /\ K!ClockRecovers
    /\ part = "estimates" => D!EstimatesAreOneTimeline /\ D!FullWindowIsFresh

\* Rows in the summaries and rows reported missing there add up to what was recorded, and the
\* stand-alone recorders keep the stream and count its lines, and what they write is of the
\* contract the firmware declared (CaptureAccounting, SerialIngest, NanoCapture).
AccountsAreExact ==
    /\ part = "accounting" => A!BinsAddUp
    /\ part = "ingest" => N!RawIsTheStream
    /\ part = "nanocapture" => W!RowsAreContracted /\ W!LinesAreCounted /\ W!AskingIsPaced

\* What leaves the station is authorised and complete: publications and exports (Publisher,
\* Exports).
WhatLeavesIsSound ==
    /\ part = "publisher" => U!PublicationIsAuthorised
    /\ part = "exports" => X!ExportsAreComplete

\* A reduced query shows the extrema of its range (HistoryStore), and a trailing average is of a
\* whole window (EnvironmentalQuery).
QueryIsExact ==
    /\ part = "history" => H!QueryIsExact
    /\ part = "averages" => Q!AveragesAreWhole

\* A capture that waited gets no reading of its future and hardly an older one, diagnostics of
\* the time are never presented when they are no longer so, and no segment of the history
\* bridges a break (EnvironmentJoin, HealthCollectors, HistoryStore).
ReadingsAreOfTheirTime ==
    /\ part = "sensors" => J!WaitingCostsOneInterval
    /\ part = "health" => G!SnapshotsAreCurrent
    /\ part = "history" => H!SegmentsDoNotBridge

\* Nothing in an analysis is made up: time is not that pulses did not measure, the firmware's
\* estimates are replayed exactly, and rows of one report are in order, of one contract and
\* traced to their file (OfflineTimescale, FirmwareParity, RecordingCollection).
AnalysisIsTrue ==
    /\ part = "timescale" => O!TicksAreTrue /\ O!EventsAreTrue /\ O!CalibrationIsTrue /\ O!AssociationIsTrue
    /\ part = "parity" => F!ParityIsExact
    /\ part = "collection" => B!ReportsAreTraced /\ B!SegmentsAreAccounted
    /\ part = "swings" /\ ~S!Reported => S!RowsAreOfOneSwing /\ S!PhasesAreTrue /\ S!CyclesAreConsecutive /\ S!RunsAreUninterrupted
    /\ part = "swings" /\ S!Reported => S!AlignmentIsTrue /\ S!DropsAreLocal /\ S!PatternIsRemoved /\ S!SummariesAreFair
    /\ part = "pps" /\ ~P!Reported => P!IntervalsAreSeconds /\ P!PhaseIsContinuous /\ P!AllanIsGapAware /\ P!NeighboursAreNeighbours
    /\ part = "pps" /\ P!Reported => P!SegmentsAreTrue /\ P!ResidualsAreUnbroken /\ P!ExtraIsRecognised /\ P!ExclusionsAreNoted /\ P!PopulationsNest /\ P!HealthIsTrue
    /\ part = "plan" => M!LayersAreOrdered /\ M!ReasonsAreTrue /\ M!LongerGetsMore /\ M!PlaceholdersAreExplained
    /\ part = "run" => V!FinishedRunIsWhole /\ V!VerifiedIsOneRun /\ V!ArtifactsAreStable
    /\ part = "trial" => E!EventsAreSound /\ E!StepIsLocated /\ E!PredictionsAreLater
    /\ part = "reports" => Y!EarlierReportStays /\ Y!FingerprintsAreOfInputs
=============================================================================
