---------------------------- MODULE PartsProofs -----------------------------
(***************************************************************************)
(* What holds of the parts of MCParts for every value of their bounds.     *)
(* The parts are proved in CaptureProofs and RecordingProofs, which MCParts *)
(* takes with its own names, and in ComponentProofs, of which it is told   *)
(* here that its components are those of MCParts.  Only one part moves in  *)
(* a behaviour, so an invariant of a part is an invariant of all           *)
(* behaviours, on the condition that it is that part that moves.           *)
(***************************************************************************)
EXTENDS MCParts, TLAPS
-----------------------------------------------------------------------------
(***************************************************************************)
(* The components of ComponentProofs, each under its letter there and with *)
(* the variables MCParts gives it; a variable that several of them have is *)
(* named with the first.  MCParts has instances of its own with the same   *)
(* values: the lemmas Same... say that what is defined here is what is     *)
(* defined there.                                                          *)
(***************************************************************************)
I == INSTANCE ComponentProofs WITH
        \* Timebase
        now <- x1, offset <- x4, flag <- x5, ovf <- x6, wraps <- x7, latched <- x8,
        ccmp <- x9, job <- x10, pc <- x2, epoch <- x11, cnt <- x12, capt <- x13,
        lastMs <- x14, backsteps <- x15, sampled <- x3, stamp <- x16, millis <- x17,
        restarts <- x18,
        \* StorageLifecycle
        local <- x1, meta <- x3, place <- x4, saved <- x5, archive <- x6, archived <- x7,
        mounted <- x8, consumed <- x9, age <- x10, work <- x11, checked <- x12, wfaults <- x13,
        \* DisplayClock
        second <- x1, sub <- x2, clock <- x3, clean <- x4, genuine <- x5, real <- x6,
        \* DisplayEstimates
        line <- x2, seq <- x3, clockAt <- x5, est <- x6, forecast <- x7, pending <- x8,
        file <- x4, since <- x9,
        \* HistoryStore
        obs <- x1, minutes <- x2, nextId <- x3, mono <- x4, skew <- x5, seg <- x6,
        stored <- x7, paused <- x8, failed <- x9, breaks <- x10,
        \* EnvironmentJoin
        good <- x2, snapshot <- x5, history <- x6, appended <- x7, queue <- x3,
        attached <- x8, losses <- x9,
        \* CaptureAccounting
        nano <- x4, lost <- x5, pi <- x6, log <- x7, rec <- x8, out <- x9, kept <- x10,
        faults <- x2,
        \* Exports
        wall <- x3, steps <- x4, segments <- x5, records <- x6, files <- x1, catalogue <- x7,
        request <- x8,
        \* HealthCollectors
        collector <- x4, daemon <- x5, got <- x6, cached <- x7, stopped <- x8, closed <- x9,
        updates <- x10,
        \* Publisher
        session <- x2, config <- x3, receipt <- x4, last <- x5, holder <- x6, invs <- x7,
        starts <- x8, entries <- x9,
        \* FirmwareParity
        calls <- x2, fw <- x3, py <- x4,
        \* The clock jumps so far, either way.
        ClockSteps <- ClockJumps \cup {-j : j \in ClockJumps}

LEMMA SameTimebase ==
    /\ T!Init <=> I!T!Init
    /\ T!Next <=> I!T!Next
    /\ T!TimestampsAreExact <=> I!T!TimestampsAreExact
    /\ T!BackstepsHaveACause <=> I!T!BackstepsHaveACause
    /\ T!MillisAdvance <=> I!T!MillisAdvance
    /\ T!CounterAssumption <=> I!T!CounterAssumption
    /\ T!TimingAssumption <=> I!T!TimingAssumption
    /\ T!BoundAssumption <=> I!T!BoundAssumption
<1>1. T!Init <=> I!T!Init
  BY DEF T!Init, T!NoEdge, T!NoStamp, I!T!Init, I!T!NoEdge, I!T!NoStamp
<1>2. T!Next <=> I!T!Next
  BY SMTT(60) DEF
      T!Next, T!Elapse, T!Takes, T!Passes, T!Crossing, T!NoEdge, T!regs, T!outcome, T!Edge,
      T!OverflowIsr, T!Succ, T!Restart, T!ClearCounts, T!Begin, T!NoStamp, T!FirstSample,
      T!Sample, T!Check, T!OverflowPending, T!SecondSample, T!CaptureDone, T!Edge32, T!Now32,
      T!Short, T!Latency, T!Return, T!Now32Done, T!timers, T!Now64Done,
      I!T!Next, I!T!Elapse, I!T!Takes, I!T!Passes, I!T!Crossing, I!T!NoEdge, I!T!regs,
      I!T!outcome, I!T!Edge, I!T!OverflowIsr, I!T!Succ, I!T!Restart, I!T!ClearCounts, I!T!Begin,
      I!T!NoStamp, I!T!FirstSample, I!T!Sample, I!T!Check, I!T!OverflowPending,
      I!T!SecondSample, I!T!CaptureDone, I!T!Edge32, I!T!Now32, I!T!Short, I!T!Latency,
      I!T!Return, I!T!Now32Done, I!T!timers, I!T!Now64Done
<1>3. T!TimestampsAreExact <=> I!T!TimestampsAreExact
  BY DEF T!TimestampsAreExact, T!Short, I!T!TimestampsAreExact, I!T!Short
<1>4. T!BackstepsHaveACause <=> I!T!BackstepsHaveACause
  BY DEF T!BackstepsHaveACause, T!Wide, I!T!BackstepsHaveACause, I!T!Wide
<1>5. T!MillisAdvance <=> I!T!MillisAdvance
  BY DEF T!MillisAdvance, T!Wide, I!T!MillisAdvance, I!T!Wide
<1>6. T!CounterAssumption <=> I!T!CounterAssumption
  BY DEF T!CounterAssumption, I!T!CounterAssumption
<1>7. T!TimingAssumption <=> I!T!TimingAssumption
  BY DEF T!TimingAssumption, I!T!TimingAssumption
<1>8. T!BoundAssumption <=> I!T!BoundAssumption
  BY DEF T!BoundAssumption, I!T!BoundAssumption
<1>. QED  BY <1>1, <1>2, <1>3, <1>4, <1>5, <1>6, <1>7, <1>8

LEMMA SameStorageLifecycle ==
    /\ L!Init <=> I!L!Init
    /\ L!Next <=> I!L!Next
    /\ L!MissingIsExplained <=> I!L!MissingIsExplained
    /\ L!PassesGoOn <=> I!L!PassesGoOn
    /\ L!KeepsSoleCopies <=> I!L!KeepsSoleCopies
<1>1. L!Init <=> I!L!Init
  BY DEF
      L!Init, L!Names, L!Members, L!NewState, L!NoRecord, L!Idle,
      I!L!Init, I!L!Names, I!L!Members, I!L!NewState, I!L!NoRecord, I!L!Idle
<1>2. L!Next <=> I!L!Next
  BY SMTT(60) DEF
      L!Next, L!Worker, L!Begin, L!Idle, L!NewState, L!Names, L!Members, L!NoRecord, L!Expired,
      L!Form, L!Goto, L!Step, L!dirs, L!world, L!Mount, L!AllRecorded, L!CompressDone,
      L!CompressFile, L!CompressRecord, L!CompressUnlink, L!Offload, L!ArchiveIntact,
      L!Acknowledge, L!PruneMark, L!Refuted, L!Charge, L!PruneUnlink, L!RetireMark, L!Retirable,
      L!RetireRename, L!ResumeRetired, L!Finish, L!FinishUnlink, L!Unlinked, L!Rmdir, L!Killed,
      L!Failed, L!Damage, L!pass, L!Remount, L!Consume, L!Older,
      I!L!Next, I!L!Worker, I!L!Begin, I!L!Idle, I!L!NewState, I!L!Names, I!L!Members,
      I!L!NoRecord, I!L!Expired, I!L!Form, I!L!Goto, I!L!Step, I!L!dirs, I!L!world, I!L!Mount,
      I!L!AllRecorded, I!L!CompressDone, I!L!CompressFile, I!L!CompressRecord,
      I!L!CompressUnlink, I!L!Offload, I!L!ArchiveIntact, I!L!Acknowledge, I!L!PruneMark,
      I!L!Refuted, I!L!Charge, I!L!PruneUnlink, I!L!RetireMark, I!L!Retirable, I!L!RetireRename,
      I!L!ResumeRetired, I!L!Finish, I!L!FinishUnlink, I!L!Unlinked, I!L!Rmdir, I!L!Killed,
      I!L!Failed, I!L!Damage, I!L!pass, I!L!Remount, I!L!Consume, I!L!Older
<1>3. L!MissingIsExplained <=> I!L!MissingIsExplained
  BY DEF
      L!MissingIsExplained, L!Names, L!Members, L!Expired,
      I!L!MissingIsExplained, I!L!Names, I!L!Members, I!L!Expired
<1>4. L!PassesGoOn <=> I!L!PassesGoOn
  BY DEF
      L!PassesGoOn, L!Idle, L!Names, L!Members, L!NewState, L!NoRecord, L!Expired, L!Form,
      I!L!PassesGoOn, I!L!Idle, I!L!Names, I!L!Members, I!L!NewState, I!L!NoRecord, I!L!Expired,
      I!L!Form
<1>5. L!KeepsSoleCopies <=> I!L!KeepsSoleCopies
  BY DEF
      L!KeepsSoleCopies, L!Names, L!Members, L!ArchiveIntact, L!Form,
      I!L!KeepsSoleCopies, I!L!Names, I!L!Members, I!L!ArchiveIntact, I!L!Form
<1>. QED  BY <1>1, <1>2, <1>3, <1>4, <1>5

LEMMA SameDisplayClock ==
    /\ K!Init <=> I!K!Init
    /\ K!Next <=> I!K!Next
    /\ K!AcceptedIsOneSecond <=> I!K!AcceptedIsOneSecond
    /\ K!ClockRecovers <=> I!K!ClockRecovers
    /\ K!ClockAssumption <=> I!K!ClockAssumption
<1>1. \A c, n, l : K!Observed(c, n, l) = I!K!Observed(c, n, l)
  BY DEF
      K!Observed, K!Anchor, K!None, K!Reference, K!Tolerance,
      I!K!Observed, I!K!Anchor, I!K!None, I!K!Reference, I!K!Tolerance
<1>2. \A n, l, t : K!Row(n, l, t) <=> I!K!Row(n, l, t)
  BY <1>1 DEF K!Row, I!K!Row
<1>3. \A l : K!Pulse(l) <=> I!K!Pulse(l)
  BY <1>2 DEF K!Pulse, I!K!Pulse
<1>4. \A n, l : K!Extra(n, l) <=> I!K!Extra(n, l)
  BY <1>2, Zenon DEF K!Extra, I!K!Extra
<1>5. K!Restarted <=> I!K!Restarted
  BY <1>1, Zenon DEF K!Restarted, K!Initial, K!None, I!K!Restarted, I!K!Initial, I!K!None
<1>6. K!Init <=> I!K!Init
  BY DEF K!Init, K!Initial, K!None, I!K!Init, I!K!Initial, I!K!None
<1>7. K!Next <=> I!K!Next
  BY <1>3, <1>4, <1>5, SMTT(30) DEF
      K!Next, K!Missing, K!Duplicate, K!ckvars,
      I!K!Next, I!K!Missing, I!K!Duplicate, I!K!ckvars
<1>8. K!AcceptedIsOneSecond <=> I!K!AcceptedIsOneSecond
  BY DEF K!AcceptedIsOneSecond, I!K!AcceptedIsOneSecond
<1>9. K!ClockRecovers <=> I!K!ClockRecovers
  BY DEF K!ClockRecovers, I!K!ClockRecovers
<1>10. K!ClockAssumption <=> I!K!ClockAssumption
  BY DEF K!ClockAssumption, I!K!ClockAssumption
<1>. QED  BY <1>6, <1>7, <1>8, <1>9, <1>10

LEMMA SameDisplayEstimates ==
    /\ D!Init <=> I!D!Init
    /\ D!Next <=> I!D!Next
    /\ D!EstimatesAreOneTimeline <=> I!D!EstimatesAreOneTimeline
    /\ D!FullWindowIsFresh <=> I!D!FullWindowIsFresh
    /\ D!EstimatesAssumption <=> I!D!EstimatesAssumption
<1>1. \A e, t : D!Averaged(e, t) = I!D!Averaged(e, t)
  BY DEF
      D!Averaged, D!Expire, D!Younger, D!Latest,
      I!D!Averaged, I!D!Expire, I!D!Younger, I!D!Latest
<1>2. \A f, s, t : D!Foretold(f, s, t) = I!D!Foretold(f, s, t)
  BY DEF D!Foretold, D!Nobody, D!None, I!D!Foretold, I!D!Nobody, I!D!None
<1>3. \A e, t : D!Restored(e, t) = I!D!Restored(e, t)
  BY DEF D!Restored, D!Younger, I!D!Restored, I!D!Younger
<1>4. \A e, t, b : D!CanRestore(e, t, b) <=> I!D!CanRestore(e, t, b)
  BY DEF
      D!CanRestore, D!Nobody, D!None, D!Holding,
      I!D!CanRestore, I!D!Nobody, I!D!None, I!D!Holding
<1>5. \A k, b : D!Swing(k, b) <=> I!D!Swing(k, b)
  BY <1>1, <1>2, <1>3, <1>4, SMTT(30) DEF
      D!Swing, D!None, D!Resets, D!FreshWindow, D!FreshForecast, D!Nobody, D!Calibrated,
      D!Paused,
      I!D!Swing, I!D!None, I!D!Resets, I!D!FreshWindow, I!D!FreshForecast, I!D!Nobody,
      I!D!Calibrated, I!D!Paused
<1>6. \A b : D!ServiceStarted(b) <=> I!D!ServiceStarted(b)
  BY DEF
      D!ServiceStarted, D!Anew, D!None, D!NoSwingYet, D!FreshWindow, D!FreshForecast, D!Nobody,
      I!D!ServiceStarted, I!D!Anew, I!D!None, I!D!NoSwingYet, I!D!FreshWindow,
      I!D!FreshForecast, I!D!Nobody
<1>7. \A b : D!Checkpoint(b) <=> I!D!Checkpoint(b)
  BY DEF
      D!Checkpoint, D!Nobody, D!None, D!Holding, D!Expire, D!Younger,
      I!D!Checkpoint, I!D!Nobody, I!D!None, I!D!Holding, I!D!Expire, I!D!Younger
<1>8. D!Init <=> I!D!Init
  BY DEF
      D!Init, D!None, D!NoSwingYet, D!FreshWindow, D!FreshForecast, D!Nobody,
      I!D!Init, I!D!None, I!D!NoSwingYet, I!D!FreshWindow, I!D!FreshForecast, I!D!Nobody
<1>9. D!Next <=> I!D!Next
  BY <1>5, <1>6, <1>7, SMTT(30) DEF
      D!Next, D!Quiet, D!PpsAccepted, D!PpsRestarted, D!None, D!Anew, D!NoSwingYet,
      D!FreshWindow, D!FreshForecast, D!Nobody, D!CaptureLoss,
      I!D!Next, I!D!Quiet, I!D!PpsAccepted, I!D!PpsRestarted, I!D!None, I!D!Anew,
      I!D!NoSwingYet, I!D!FreshWindow, I!D!FreshForecast, I!D!Nobody, I!D!CaptureLoss
<1>10. D!EstimatesAreOneTimeline <=> I!D!EstimatesAreOneTimeline
  BY DEF
      D!EstimatesAreOneTimeline, D!Nobody, D!None,
      I!D!EstimatesAreOneTimeline, I!D!Nobody, I!D!None
<1>11. D!FullWindowIsFresh <=> I!D!FullWindowIsFresh
  BY DEF D!FullWindowIsFresh, I!D!FullWindowIsFresh
<1>12. D!EstimatesAssumption <=> I!D!EstimatesAssumption
  BY DEF D!EstimatesAssumption, I!D!EstimatesAssumption
<1>. QED  BY <1>8, <1>9, <1>10, <1>11, <1>12

LEMMA SameHistoryStore ==
    /\ H!Init <=> I!H!Init
    /\ H!Next <=> I!H!Next
    /\ H!SegmentsDoNotBridge <=> I!H!SegmentsDoNotBridge
<1>1. H!Init <=> I!H!Init
  BY DEF H!Init, I!H!Init
<1>2. H!Next <=> I!H!Next
  BY DEF
      H!Next, H!Observe, H!SegmentNow, H!Pruned, H!MinutesKept, H!IdsOf, H!Due, H!Summarized,
      H!Bucket, H!Min,
      I!H!Next, I!H!Observe, I!H!SegmentNow, I!H!Pruned, I!H!MinutesKept, I!H!IdsOf, I!H!Due,
      I!H!Summarized, I!H!Bucket, I!H!Min
<1>3. H!SegmentsDoNotBridge <=> I!H!SegmentsDoNotBridge
  BY DEF H!SegmentsDoNotBridge, I!H!SegmentsDoNotBridge
<1>. QED  BY <1>1, <1>2, <1>3

LEMMA SameEnvironmentJoin ==
    /\ J!Init <=> I!J!Init
    /\ J!Next <=> I!J!Next
    /\ J!WaitingCostsOneInterval <=> I!J!WaitingCostsOneInterval
    /\ J!JoinAssumption <=> I!J!JoinAssumption
<1>1. J!Init <=> I!J!Init
  BY DEF J!Init, J!NoReadings, J!Nothing, I!J!Init, I!J!NoReadings, I!J!Nothing
<1>2. J!Next <=> I!J!Next
  BY DEF
      J!Next, J!Tick, J!Publish, J!Restart, J!NoReadings, J!Arrive, J!Process, J!SnapshotFor,
      J!AsOf, J!Nothing, J!Readings, J!Poll, J!Record,
      I!J!Next, I!J!Tick, I!J!Publish, I!J!Restart, I!J!NoReadings, I!J!Arrive, I!J!Process,
      I!J!SnapshotFor, I!J!AsOf, I!J!Nothing, I!J!Readings, I!J!Poll, I!J!Record
<1>3. J!WaitingCostsOneInterval <=> I!J!WaitingCostsOneInterval
  BY DEF J!WaitingCostsOneInterval, I!J!WaitingCostsOneInterval
<1>4. J!JoinAssumption <=> I!J!JoinAssumption
  BY DEF J!JoinAssumption, I!J!JoinAssumption
<1>. QED  BY <1>1, <1>2, <1>3, <1>4

LEMMA SameCaptureAccounting ==
    /\ A!Init <=> I!A!Init
    /\ A!Next <=> I!A!Next
    /\ A!MissingIsExact <=> I!A!MissingIsExact
    /\ A!AccountingAssumption <=> I!A!AccountingAssumption
<1>1. A!Init <=> I!A!Init
  BY DEF A!Init, A!Silent, A!Anew, I!A!Init, I!A!Silent, I!A!Anew
<1>2. A!Next <=> I!A!Next
  BY SMTT(60) DEF
      A!Next, A!Tick, A!receiver, A!Send, A!Row, A!Restart, A!Metadata, A!Describe, A!Process,
      A!Recover, A!Silent, A!Anew, A!Capture, A!Step, A!Seq0, A!Observed, A!Crosses, A!Bin,
      A!Written, A!Close, A!Flushed, A!Closed, A!Open, A!Fail,
      I!A!Next, I!A!Tick, I!A!receiver, I!A!Send, I!A!Row, I!A!Restart, I!A!Metadata,
      I!A!Describe, I!A!Process, I!A!Recover, I!A!Silent, I!A!Anew, I!A!Capture, I!A!Step,
      I!A!Seq0, I!A!Observed, I!A!Crosses, I!A!Bin, I!A!Written, I!A!Close, I!A!Flushed,
      I!A!Closed, I!A!Open, I!A!Fail
<1>3. A!MissingIsExact <=> I!A!MissingIsExact
  BY DEF
      A!MissingIsExact, A!OneLife, A!Span, A!Step, A!Seq0, A!Last,
      I!A!MissingIsExact, I!A!OneLife, I!A!Span, I!A!Step, I!A!Seq0, I!A!Last
<1>4. A!AccountingAssumption <=> I!A!AccountingAssumption
  BY DEF A!AccountingAssumption, I!A!AccountingAssumption
<1>. QED  BY <1>1, <1>2, <1>3, <1>4

LEMMA SameExports ==
    /\ X!Init <=> I!X!Init
    /\ X!Next <=> I!X!Next
    /\ X!ExportsAreComplete <=> I!X!ExportsAreComplete
    /\ X!ExportAssumption <=> I!X!ExportAssumption
<1>1. X!Init <=> I!X!Init
  BY DEF X!Init, X!NoRequest, I!X!Init, I!X!NoRequest
<1>2. X!Next <=> I!X!Next
  BY SMTT(60) DEF
      X!Next, X!Step, X!archive, X!Open, X!Active, X!Record, X!Close, X!Change, X!Unlocked,
      X!Tamper, X!Catalogue, X!Plan, X!Selected, X!Listed, X!Sound, X!Overlaps, X!Bounds,
      X!NoRequest, X!Stream, X!Max, X!Min,
      I!X!Next, I!X!Step, I!X!archive, I!X!Open, I!X!Active, I!X!Record, I!X!Close, I!X!Change,
      I!X!Unlocked, I!X!Tamper, I!X!Catalogue, I!X!Plan, I!X!Selected, I!X!Listed, I!X!Sound,
      I!X!Overlaps, I!X!Bounds, I!X!NoRequest, I!X!Stream, I!X!Max, I!X!Min
<1>3. X!ExportsAreComplete <=> I!X!ExportsAreComplete
  BY DEF X!ExportsAreComplete, X!Sound, I!X!ExportsAreComplete, I!X!Sound
<1>4. X!ExportAssumption <=> I!X!ExportAssumption
  BY DEF X!ExportAssumption, I!X!ExportAssumption
<1>. QED  BY <1>1, <1>2, <1>3, <1>4

LEMMA SameHealthCollectors ==
    /\ G!Init <=> I!G!Init
    /\ G!Next <=> I!G!Next
    /\ G!SnapshotsAreCurrent <=> I!G!SnapshotsAreCurrent
    /\ G!CollectorAssumption <=> I!G!CollectorAssumption
<1>1. G!Init <=> I!G!Init
  BY DEF G!Init, G!Unknown, I!G!Init, I!G!Unknown
<1>2. G!Next <=> I!G!Next
  BY DEF
      G!Next, G!Tick, G!worker, G!Measured, G!SourceLost, G!Fix, G!Sky, G!Ask, G!Answer, G!View,
      G!Cache, G!Parsed, G!Chrony, G!Synchronized, G!Unknown, G!Gps, G!Current, G!Stop,
      G!Withdraw,
      I!G!Next, I!G!Tick, I!G!worker, I!G!Measured, I!G!SourceLost, I!G!Fix, I!G!Sky, I!G!Ask,
      I!G!Answer, I!G!View, I!G!Cache, I!G!Parsed, I!G!Chrony, I!G!Synchronized, I!G!Unknown,
      I!G!Gps, I!G!Current, I!G!Stop, I!G!Withdraw
<1>3. G!SnapshotsAreCurrent <=> I!G!SnapshotsAreCurrent
  BY DEF
      G!SnapshotsAreCurrent, G!Snapshot, G!Unknown,
      I!G!SnapshotsAreCurrent, I!G!Snapshot, I!G!Unknown
<1>4. G!CollectorAssumption <=> I!G!CollectorAssumption
  BY DEF G!CollectorAssumption, I!G!CollectorAssumption
<1>. QED  BY <1>1, <1>2, <1>3, <1>4

LEMMA SamePublisher ==
    /\ U!Init <=> I!U!Init
    /\ U!Next <=> I!U!Next
    /\ U!PublicationIsAuthorised <=> I!U!PublicationIsAuthorised
    /\ U!PublisherAssumption <=> I!U!PublisherAssumption
<1>1. U!Init <=> I!U!Init
  BY DEF U!Init, U!Idle, I!U!Init, I!U!Idle
<1>2. U!Next <=> I!U!Next
  BY SMTT(60) DEF
      U!Next, U!Report, U!NewSession, U!Configure, U!Start, U!At, U!Set, U!Begun, U!world,
      U!Check, U!Validated, U!Goto, U!Exit, U!Idle, U!Lock, U!Unlink, U!ReadStatus,
      U!ReadResult, U!Build, U!Eligible, U!Unlock, U!Accepted, U!Taken, U!Refused, U!Receipt,
      U!ReadPrior, U!Record, U!Success, U!Note, U!Invalidate, U!Kill,
      I!U!Next, I!U!Report, I!U!NewSession, I!U!Configure, I!U!Start, I!U!At, I!U!Set,
      I!U!Begun, I!U!world, I!U!Check, I!U!Validated, I!U!Goto, I!U!Exit, I!U!Idle, I!U!Lock,
      I!U!Unlink, I!U!ReadStatus, I!U!ReadResult, I!U!Build, I!U!Eligible, I!U!Unlock,
      I!U!Accepted, I!U!Taken, I!U!Refused, I!U!Receipt, I!U!ReadPrior, I!U!Record, I!U!Success,
      I!U!Note, I!U!Invalidate, I!U!Kill
<1>3. U!PublicationIsAuthorised <=> I!U!PublicationIsAuthorised
  BY DEF U!PublicationIsAuthorised, U!At, I!U!PublicationIsAuthorised, I!U!At
<1>4. U!PublisherAssumption <=> I!U!PublisherAssumption
  BY DEF U!PublisherAssumption, I!U!PublisherAssumption
<1>. QED  BY <1>1, <1>2, <1>3, <1>4

\* The estimates of the discipliner are too large to be expanded at once.
LEMMA SameParity ==
    /\ F!Init <=> I!F!Init
    /\ F!Next => I!FwNext
    /\ F!ExportIsSlow <=> I!F!ExportIsSlow
    /\ F!ImplementsMachine <=> I!F!ImplementsMachine
    /\ F!ParityAssumption <=> I!F!ParityAssumption
<1>1. /\ \A n : F!Abs(n) = I!F!Abs(n) /\ F!Counted(n) = I!F!Counted(n) /\ F!Ticks(n) = I!F!Ticks(n)
      /\ \A t, then : F!Since(t, then) = I!F!Since(t, then)
      /\ \A s, n, k : F!Update(s, n, k) = I!F!Update(s, n, k)
      /\ \A e, n : F!Ppm(e, n) = I!F!Ppm(e, n)
      /\ \A f, s, r : F!Blend(f, s, r) = I!F!Blend(f, s, r)
  BY SMTT(60) DEF F!Abs, F!Counted, F!Ticks, F!Since, F!Update, F!Ppm, F!Weight, F!Blend,
      I!F!Abs, I!F!Counted, I!F!Ticks, I!F!Since, I!F!Update, I!F!Ppm, I!F!Weight, I!F!Blend
<1>2. \A v, n : F!Median(v, n) = I!F!Median(v, n)
  BY DEF F!Median, I!F!Median, F!Cardinality, I!F!Cardinality
<1>3. \A r, n : F!Mad(r, n) = I!F!Mad(r, n)
  BY <1>1, <1>2, ZenonT(60) DEF F!Mad, I!F!Mad
<1>4. \A d, n : F!Measured(d, n) = I!F!Measured(d, n)
  <2>. SUFFICES ASSUME NEW d, NEW n PROVE F!Measured(d, n) = I!F!Measured(d, n)
    OBVIOUS
  <2> DEFINE fast == F!Update(d.fast, n, FastShift)
             slow == F!Update(d.slow, n, SlowShift)
             r    == F!Ppm(F!Ticks(fast) - F!Ticks(slow), F!Ticks(slow))
             hat  == F!Blend(F!Ticks(fast), F!Ticks(slow), r)
             legacy == [d.legacy EXCEPT ![d.head] = n - (IF d.state \in {"DISCIPLINED", "HOLDOVER"} THEN F!Ticks(slow) ELSE hat)]
             fill == IF d.fill < ResidualWindow THEN d.fill + 1 ELSE d.fill
  <2>1. /\ I!F!Update(d.fast, n, FastShift) = fast /\ I!F!Update(d.slow, n, SlowShift) = slow
        /\ I!F!Ticks(fast) = F!Ticks(fast) /\ I!F!Ticks(slow) = F!Ticks(slow)
        /\ I!F!Ppm(F!Ticks(fast) - F!Ticks(slow), F!Ticks(slow)) = r
        /\ I!F!Blend(F!Ticks(fast), F!Ticks(slow), r) = hat
    BY <1>1
  <2>2. I!F!Mad(legacy, fill) = F!Mad(legacy, fill)
    BY <1>3
  <2>. QED  BY <2>1, <2>2, ZenonT(60) DEF F!Measured, I!F!Measured
<1>5. /\ \A d, a : F!LockOk(d, a) <=> I!F!LockOk(d, a)
      /\ \A d, a : F!UnlockBad(d, a) <=> I!F!UnlockBad(d, a)
  BY DEF F!LockOk, F!UnlockBad, I!F!LockOk, I!F!UnlockBad
<1>6. \A d : F!Anchored(d) = I!F!Anchored(d)
  BY <1>1, ZenonT(60) DEF F!Anchored, I!F!Anchored
<1>7. \A d, a, t : F!Locked(d, a, t) = I!F!Locked(d, a, t)
  BY <1>1, <1>5, <1>6, ZenonT(60) DEF F!Locked, I!F!Locked
<1>8. \A d, a, t : F!Unlocked(d, a, t) = I!F!Unlocked(d, a, t)
  BY <1>1, <1>5, <1>6, ZenonT(60) DEF F!Unlocked, I!F!Unlocked
<1>9. \A d, v, t : F!Entered(d, v, t) = I!F!Entered(d, v, t)
  BY <1>1, ZenonT(60) DEF F!Entered, I!F!Entered
<1>10. \A d, t : F!Expired(d, t) = I!F!Expired(d, t)
  BY <1>1, ZenonT(60) DEF F!Expired, I!F!Expired
<1>11. \A d, c, v, n, a, t : F!Observe(d, c, v, n, a, t) = I!F!Observe(d, c, v, n, a, t)
  BY <1>4, <1>7, <1>8, <1>9, <1>10, SMTT(60) DEF F!Observe, I!F!Observe
<1>12. \A d, t : F!Shown(d, t) = I!F!Shown(d, t)
  BY <1>1 DEF F!Shown, F!Age, F!Machine!Upto, F!Machine!AgeLimit, I!F!Shown, I!F!Age, I!F!Machine!Upto, I!F!Machine!AgeLimit
<1>13. \A d, c, v, l, u : F!Machine!Discipline(d, c, v, l, u) = I!F!Machine!Discipline(d, c, v, l, u)
  <2>1. \A d, v : F!Machine!Entered(d, v) = I!F!Machine!Entered(d, v)
    BY Zenon DEF F!Machine!Entered, F!Machine!Acquiring, F!Machine!Fresh, F!Machine!FreeRun, F!Machine!Turned,
        I!F!Machine!Entered, I!F!Machine!Acquiring, I!F!Machine!Fresh, I!F!Machine!FreeRun, I!F!Machine!Turned
  <2>2. \A d, l : F!Machine!Streak(d, l) = I!F!Machine!Streak(d, l)
    BY Zenon DEF F!Machine!Streak, F!Machine!Upto, I!F!Machine!Streak, I!F!Machine!Upto
  <2>3. \A d : F!Machine!Locked(d) = I!F!Machine!Locked(d)
    BY Zenon DEF F!Machine!Locked, F!Machine!Turned, I!F!Machine!Locked, I!F!Machine!Turned
  <2>4. \A d, u : F!Machine!Unlocked(d, u) = I!F!Machine!Unlocked(d, u)
    BY ZenonT(60) DEF F!Machine!Unlocked, F!Machine!Acquiring, F!Machine!Fresh, I!F!Machine!Unlocked, I!F!Machine!Acquiring, I!F!Machine!Fresh
  <2>5. \A d : F!Machine!Expired(d) = I!F!Machine!Expired(d)
    BY Zenon DEF F!Machine!Expired, F!Machine!FreeRun, F!Machine!Fresh, I!F!Machine!Expired, I!F!Machine!FreeRun, I!F!Machine!Fresh
  <2>. QED  BY <2>1, <2>2, <2>3, <2>4, <2>5, ZenonT(60) DEF F!Machine!Discipline, I!F!Machine!Discipline
<1>14. F!Init <=> I!F!Init
  BY DEF F!Init, I!F!Init
<1>15. F!Next => I!FwNext
  BY <1>11, ZenonT(60) DEF F!Next, F!Call, I!FwNext, I!FwCall
<1>16. F!ImplementsMachine <=> I!F!ImplementsMachine
  BY <1>12, <1>13, ZenonT(60) DEF F!ImplementsMachine, I!F!ImplementsMachine
<1>. QED  BY <1>1, <1>14, <1>15, <1>16 DEF F!ExportIsSlow, F!ParityAssumption, I!F!ExportIsSlow, I!F!ParityAssumption
-----------------------------------------------------------------------------
(* A part that moves stays the one that moves, in its own steps *)

LEMMA PartStays == [PartsNext]_pvars => part' = part
  BY DEF PartsNext, pvars

LEMMA CaptureMoves == part = "capture" /\ [PartsNext]_pvars => [C!Next]_(C!vars)
  BY DEF PartsNext, pvars, C!vars, C!captureVars, C!asmVars, C!loopVars, C!hostVars, C!histVars

LEMMA CaptureBounds == C!RingAssumption /\ C!BudgetAssumption /\ C!BoundAssumption
  BY PartsAssumption

LEMMA TimebaseMoves == part = "timebase" /\ [PartsNext]_pvars => [I!T!Next]_(I!T!vars)
  BY SameTimebase DEF PartsNext, pvars, I!T!vars, I!T!timers, I!T!regs, I!T!outcome

LEMMA RecordingMoves == part = "recording" /\ [PartsNext]_pvars => [R!Next]_(R!vars)
  BY DEF PartsNext, pvars, R!vars

LEMMA StorageMoves == part = "storage" /\ [PartsNext]_pvars => [I!L!Next]_(I!L!swvars)
  BY SameStorageLifecycle DEF PartsNext, pvars, I!L!swvars, I!L!dirs, I!L!pass, I!L!world

LEMMA ClockMoves == part = "clock" /\ [PartsNext]_pvars => [I!K!Next]_(I!K!ckvars)
  BY SameDisplayClock DEF PartsNext, pvars, I!K!ckvars

LEMMA EstimatesMove == part = "estimates" /\ [PartsNext]_pvars => [I!D!Next]_(I!D!esvars)
  BY SameDisplayEstimates DEF PartsNext, pvars, I!D!esvars

LEMMA HistoryMoves == part = "history" /\ [PartsNext]_pvars => [I!H!Next]_(I!H!histvars)
  BY SameHistoryStore DEF PartsNext, pvars, I!H!histvars

LEMMA SensorsMove == part = "sensors" /\ [PartsNext]_pvars => [I!J!Next]_(I!J!joinvars)
  BY SameEnvironmentJoin DEF PartsNext, pvars, I!J!joinvars

LEMMA AccountingMoves == part = "accounting" /\ [PartsNext]_pvars => [I!A!Next]_(I!A!accvars)
  BY SameCaptureAccounting DEF PartsNext, pvars, I!A!accvars

LEMMA ExportsMove == part = "exports" /\ [PartsNext]_pvars => [I!X!Next]_(I!X!expvars)
  BY SameExports DEF PartsNext, pvars, I!X!expvars

LEMMA HealthMoves == part = "health" /\ [PartsNext]_pvars => [I!G!Next]_(I!G!hcvars)
  BY SameHealthCollectors DEF PartsNext, pvars, I!G!hcvars

LEMMA PublisherMoves == part = "publisher" /\ [PartsNext]_pvars => [I!U!Next]_(I!U!pubvars)
  BY SamePublisher DEF PartsNext, pvars, I!U!pubvars

LEMMA ParityMoves == part = "parity" /\ [PartsNext]_pvars => [I!FwNext]_<<x1, x3>>
  BY SameParity DEF PartsNext, pvars
-----------------------------------------------------------------------------
(* The capture and its timestamps *)

\* A row the host gets is of one run of the counter, in ascending order, and says how many
\* are missing before it, in every behaviour of the capture, whatever the sizes of its rings.
THEOREM CapturedRowsAreSound == PartsSpec => []EmittedRowIsOneTimeline
<1>1. (part = "capture" => C!EmittedRowIsOneTimeline /\ C!DropSwingCoversGap) => EmittedRowIsOneTimeline
  BY DEF EmittedRowIsOneTimeline
<1>2. PartsInit /\ part = "capture" => C!Init
  BY DEF PartsInit
<1>3. part = "capture" /\ [PartsNext]_pvars => (part = "capture")' /\ [C!Next]_(C!vars)
  BY PartStays, CaptureMoves
<1>4. ~(part = "capture") /\ [PartsNext]_pvars => ~(part = "capture")'
  BY PartStays
<1>5. C!Spec => []C!EmittedRowIsOneTimeline
  BY CaptureBounds, C!EmittedRowsAreSound
<1>6. C!Spec => []C!DropSwingCoversGap
  BY CaptureBounds, C!GapsAreCovered
<1>. QED  BY <1>1, <1>2, <1>3, <1>4, <1>5, <1>6, PTL DEF PartsSpec, C!Spec

\* The discipliner's invariant holds while it is the part that moves.
LEMMA ParityAlways == PartsSpec => [](part = "parity" => I!FwInv)
<1>1. I!F!ParityAssumption
  BY PartsAssumption, SameParity
<1>2. PartsInit => (part = "parity" => I!FwInv)
  BY <1>1, SameParity, I!FwStarts DEF PartsInit
<1>3. (part = "parity" => I!FwInv) /\ [PartsNext]_pvars => (part = "parity" => I!FwInv)'
  BY <1>1, PartStays, ParityMoves, I!FwSteps
<1>. QED  BY <1>2, <1>3, PTL DEF PartsSpec

\* Timestamps are the true time to the tick, the milliseconds go back only where they may, and
\* the frequency exported is an estimate from samples there were.
THEOREM TimestampsStayExact == PartsSpec => []TimestampsAreExact
<1>1. /\ part = "timebase" => I!T!TimestampsAreExact /\ I!T!BackstepsHaveACause
      /\ part = "parity" => I!FwInv
      => TimestampsAreExact
  <2>1. I!F!ParityAssumption
    BY PartsAssumption, SameParity
  <2>. QED  BY <2>1, I!ExportsAreSlow, SameTimebase, SameParity DEF TimestampsAreExact
<1>2. PartsInit /\ part = "timebase" => I!T!Init
  BY SameTimebase DEF PartsInit
<1>3. part = "timebase" /\ [PartsNext]_pvars => (part = "timebase")' /\ [I!T!Next]_(I!T!vars)
  BY PartStays, TimebaseMoves
<1>4. ~(part = "timebase") /\ [PartsNext]_pvars => ~(part = "timebase")'
  BY PartStays
<1>5. I!Limits
  BY PartsAssumption, SameTimebase DEF I!Limits
<1>6. I!T!Spec => []I!T!TimestampsAreExact
  BY <1>5, I!ExactTimestamps
<1>7. I!T!Spec => []I!T!BackstepsHaveACause
  BY <1>5, I!MillisNeverGoBack
<1>. QED  BY <1>1, <1>2, <1>3, <1>4, <1>6, <1>7, ParityAlways, PTL DEF PartsSpec, I!T!Spec

\* Neighbouring rows share their boundary edge, the numbers of the seconds ascend and the ring
\* of the seconds is a lossy FIFO: every step of the capture refines that of the queue.
LEMMA CaptureOrdered ==
    PartsSpec => [][part = "capture" =>
                       /\ C!SharesBoundary /\ C!NextCpsAscends
                       /\ C!PpsFifo!Next \/ C!PpsFifo!fifoVars' = C!PpsFifo!fifoVars]_pvars
<1> DEFINE Ordered == /\ C!SharesBoundary /\ C!NextCpsAscends
                      /\ C!PpsFifo!Next \/ C!PpsFifo!fifoVars' = C!PpsFifo!fifoVars
<1>1. PartsInit /\ part = "capture" => C!Init
  BY DEF PartsInit
<1>2. part = "capture" /\ [PartsNext]_pvars => (part = "capture")' /\ [C!Next]_(C!vars)
  BY PartStays, CaptureMoves
<1>3. ~(part = "capture") /\ [PartsNext]_pvars => ~(part = "capture")'
  BY PartStays
<1>4. ASSUME C!TypeOK, [C!Next]_(C!vars), [C!SharesBoundary]_x19, [C!NextCpsAscends]_x20 PROVE Ordered
  <2>1. C!SharesBoundary
    <3>1. CASE x19' = x19
      <4>1. x24 > 0 => x19.row.seq \in Nat
        BY <1>4 DEF C!TypeOK, C!Rows
      <4>. QED  BY <3>1, <4>1 DEF C!SharesBoundary
    <3>. QED  BY <1>4, <3>1
  <2>2. C!NextCpsAscends
    BY <1>4 DEF C!NextCpsAscends
  <2>3. C!PpsFifo!Next \/ C!PpsFifo!fifoVars' = C!PpsFifo!fifoVars
    BY <1>4, CaptureBounds, C!PpsFifoStep
  <2>. QED  BY <2>1, <2>2, <2>3
<1>5. C!Spec => []C!TypeOK
  BY CaptureBounds, C!TypeCorrect
<1>6. C!Spec => C!SharedBoundary
  BY CaptureBounds, C!BoundariesAreShared
<1>7. C!Spec => C!CpsAscends
  BY CaptureBounds, C!PpsRowsAscend
<1> HIDE DEF Ordered
<1>8. PartsSpec => [][part = "capture" => Ordered]_pvars
  BY <1>1, <1>2, <1>3, <1>4, <1>5, <1>6, <1>7, PTL DEF PartsSpec, C!Spec, C!SharedBoundary, C!CpsAscends
<1>. QED  BY <1>8 DEF Ordered

\* The milliseconds advance as the time does.
LEMMA MillisOrdered == PartsSpec => [][part = "timebase" => I!T!MillisAdvance]_pvars
<1>1. PartsInit /\ part = "timebase" => I!T!Init
  BY SameTimebase DEF PartsInit
<1>2. part = "timebase" /\ [PartsNext]_pvars => (part = "timebase")' /\ [I!T!Next]_(I!T!vars)
  BY PartStays, TimebaseMoves
<1>3. ~(part = "timebase") /\ [PartsNext]_pvars => ~(part = "timebase")'
  BY PartStays
<1>4. I!Limits
  BY PartsAssumption, SameTimebase DEF I!Limits
<1>5. I!T!Spec => []I!TimeInv
  <2>1. I!T!Init => I!TimeInv
    BY <1>4, I!InitHolds
  <2>2. I!TimeInv /\ [I!T!Next]_(I!T!vars) => I!TimeInv'
    BY <1>4, I!StepHolds
  <2>. QED  BY <2>1, <2>2, PTL DEF I!T!Spec
<1>6. I!T!Spec => I!T!MillisCountTime
  BY <1>4, I!MillisAdvanceWithTime
<1>7. I!TimeInv /\ [I!T!MillisAdvance]_x17 => I!T!MillisAdvance
  <2>. SUFFICES ASSUME I!TimeInv, x17' = x17 PROVE I!T!MillisAdvance
    OBVIOUS
  <2>1. /\ x17.value \in Nat /\ x17.at \in Nat
        /\ TicksPerMs \in Nat \ {0} /\ MsRange \in Nat \ {0}
    BY <1>4 DEF I!TimeInv, I!T!TypeOK, I!Limits, I!T!BoundAssumption
  <2>2. x17.at \div TicksPerMs \in Int
    BY <2>1
  <2>3. x17.value - x17.value = x17.at \div TicksPerMs - x17.at \div TicksPerMs
    BY <2>1, <2>2
  <2>. QED  BY <2>3 DEF I!T!MillisAdvance
<1>. QED  BY <1>1, <1>2, <1>3, <1>5, <1>6, <1>7, PTL DEF PartsSpec, I!T!Spec, I!T!MillisCountTime

\* A call of the discipliner is a step of its state machine.
LEMMA ParityOrdered == PartsSpec => [][part = "parity" => I!F!ImplementsMachine]_pvars
<1>1. I!F!ParityAssumption
  BY PartsAssumption, SameParity
<1>2. (part = "parity" => I!FwInv) /\ [PartsNext]_pvars => [part = "parity" => I!F!ImplementsMachine]_pvars
  <2>. SUFFICES ASSUME part = "parity", I!FwInv, [PartsNext]_pvars PROVE I!F!ImplementsMachine
    OBVIOUS
  <2>1. [I!F!ImplementsMachine]_<<x1, x3>>
    BY <1>1, ParityMoves, I!FwSteps
  <2>. QED  BY <2>1 DEF I!F!ImplementsMachine
<1>. QED  BY <1>2, ParityAlways, PTL DEF PartsSpec

\* What reaches the host goes forward, and the calls of the discipliner are steps of its machine.
THEOREM OrderStays == PartsSpec => OrderIsKept
<1>1. ASSUME [part = "capture" =>
                 /\ C!SharesBoundary /\ C!NextCpsAscends
                 /\ C!PpsFifo!Next \/ C!PpsFifo!fifoVars' = C!PpsFifo!fifoVars]_pvars,
             [part = "timebase" => I!T!MillisAdvance]_pvars,
             [part = "parity" => I!F!ImplementsMachine]_pvars
      PROVE  [/\ part = "capture" =>
                    /\ C!SharesBoundary /\ C!NextCpsAscends
                    /\ C!PpsFifo!Next \/ C!PpsFifo!fifoVars' = C!PpsFifo!fifoVars
              /\ part = "timebase" => T!MillisAdvance
              /\ part = "parity" => F!ImplementsMachine]_pvars
  BY <1>1, SameTimebase, SameParity
<1>. QED  BY <1>1, CaptureOrdered, MillisOrdered, ParityOrdered, PTL DEF OrderIsKept
-----------------------------------------------------------------------------
(* The recording and the storage of its files *)

\* What a manifest publishes is durable, and an input has its row and its line published.
THEOREM FrontierStaysDurable == PartsSpec => []FrontierIsDurable
<1>1. (part = "recording" => R!JournalInv) => FrontierIsDurable
  BY R!JournalIsDurable, R!JournalHasRows DEF FrontierIsDurable
<1>2. PartsInit => (part = "recording" => R!JournalInv)
  BY R!InitHolds DEF PartsInit
<1>3. (part = "recording" => R!JournalInv) /\ [PartsNext]_pvars => (part = "recording" => R!JournalInv)'
  BY PartStays, RecordingMoves, R!NextSafe
<1>. QED  BY <1>1, <1>2, <1>3, PTL DEF PartsSpec

LEMMA StorageAlways == PartsSpec => [](part = "storage" => I!StorageInv)
<1>1. PartsInit => (part = "storage" => I!StorageInv)
  BY SameStorageLifecycle, I!InitIsInv DEF PartsInit
<1>2. (part = "storage" => I!StorageInv) /\ [PartsNext]_pvars => (part = "storage" => I!StorageInv)'
  BY PartStays, StorageMoves, I!StepKeepsInv
<1>. QED  BY <1>1, <1>2, PTL DEF PartsSpec

\* A last local copy goes only while the archive holds a good one.
THEOREM SoleCopyStays == PartsSpec => SoleCopyIsKept
<1>1. (part = "storage" => I!StorageInv) /\ [PartsNext]_pvars => [part = "storage" => L!KeepsSoleCopies]_pvars
  BY StorageMoves, SameStorageLifecycle, I!LastCopyStays
<1>. QED  BY <1>1, StorageAlways, PTL DEF PartsSpec, SoleCopyIsKept

LEMMA AccountingAlways == PartsSpec => [](part = "accounting" => I!AccountInv)
<1>1. I!A!AccountingAssumption
  BY PartsAssumption, SameCaptureAccounting
<1>2. PartsInit => (part = "accounting" => I!AccountInv)
  BY <1>1, SameCaptureAccounting, I!AccountStarts DEF PartsInit
<1>3. (part = "accounting" => I!AccountInv) /\ [PartsNext]_pvars => (part = "accounting" => I!AccountInv)'
  BY <1>1, PartStays, AccountingMoves, I!AccountSteps
<1>. QED  BY <1>2, <1>3, PTL DEF PartsSpec

\* A file that is missing has a record of its expiry, the next pass goes on, and the rows
\* accepted and the rows reported missing are all that was sent.
THEOREM MissingStaysExplained == PartsSpec => []MissingIsExplained
<1>1. (part = "storage" => I!StorageInv) /\ (part = "accounting" => I!AccountInv) => MissingIsExplained
  BY SameStorageLifecycle, SameCaptureAccounting, I!MissingHasRecord, I!NothingIsRefused, I!CountsAreExact
  DEF MissingIsExplained
<1>. QED  BY <1>1, StorageAlways, AccountingAlways, PTL
-----------------------------------------------------------------------------
(* The display and the readings *)

\* The display's clock accepts true seconds and recovers, and no estimate spans a loss.
THEOREM DisplayStaysOneTimeline == PartsSpec => []DisplayKeepsOneTimeline
<1> DEFINE DisplayInv == (part = "clock" => I!ClockInv) /\ (part = "estimates" => I!EstimatesInv)
<1>1. I!K!ClockAssumption /\ I!D!EstimatesAssumption
  BY PartsAssumption, SameDisplayClock, SameDisplayEstimates
<1>2. DisplayInv => DisplayKeepsOneTimeline
  BY <1>1, SameDisplayClock, SameDisplayEstimates, I!ClockIsSound, I!EstimatesAreSound
  DEF DisplayKeepsOneTimeline
<1>3. PartsInit => DisplayInv
  BY <1>1, SameDisplayClock, SameDisplayEstimates, I!ClockStarts, I!EstimatesStart DEF PartsInit
<1>4. DisplayInv /\ [PartsNext]_pvars => DisplayInv'
  BY <1>1, PartStays, ClockMoves, EstimatesMove, I!ClockStepKeeps, I!EstimatesStep
<1> HIDE DEF DisplayInv
<1>. QED  BY <1>2, <1>3, <1>4, PTL DEF PartsSpec

\* A capture that waited gets no reading of its future and hardly an older one, diagnostics are
\* current when they are presented, and no segment bridges a break.
THEOREM ReadingsStayOfTheirTime == PartsSpec => []ReadingsAreOfTheirTime
<1> DEFINE ReadingsInv == /\ part = "sensors" => I!JoinInv
                          /\ part = "health" => I!CollectorInv
                          /\ part = "history" => I!HistoryInv
<1>1. I!J!JoinAssumption /\ I!G!CollectorAssumption
  BY PartsAssumption, SameEnvironmentJoin, SameHealthCollectors
<1>2. ReadingsInv => ReadingsAreOfTheirTime
  BY <1>1, SameEnvironmentJoin, SameHealthCollectors, SameHistoryStore,
     I!WaitingIsBounded, I!SnapshotsAreSound, I!SegmentsAreOne
  DEF ReadingsAreOfTheirTime
<1>3. PartsInit => ReadingsInv
  BY SameEnvironmentJoin, SameHealthCollectors, SameHistoryStore,
     I!JoinStarts, I!CollectorStarts, I!HistoryStarts
  DEF PartsInit
<1>4. ReadingsInv /\ [PartsNext]_pvars => ReadingsInv'
  BY <1>1, PartStays, SensorsMove, HealthMoves, HistoryMoves, I!JoinSteps, I!CollectorSteps, I!HistorySteps
<1> HIDE DEF ReadingsInv
<1>. QED  BY <1>2, <1>3, <1>4, PTL DEF PartsSpec

\* A publication is authorised by the configuration, and what is exported is complete.
THEOREM WhatLeavesStaysSound == PartsSpec => []WhatLeavesIsSound
<1> DEFINE LeavesInv == (part = "publisher" => I!PublisherInv) /\ (part = "exports" => I!ExportsInv)
<1>1. I!U!PublisherAssumption /\ I!X!ExportAssumption
  BY PartsAssumption, SamePublisher, SameExports
<1>2. WallEnd \in Nat
  BY <1>1 DEF I!X!ExportAssumption
<1>3. LeavesInv => WhatLeavesIsSound
  BY SamePublisher, SameExports, I!PublicationIsSound, I!ExportsAreWhole DEF WhatLeavesIsSound
<1>4. PartsInit => LeavesInv
  BY <1>1, <1>2, SamePublisher, SameExports, I!PublisherStarts, I!ExportsStart DEF PartsInit
<1>5. LeavesInv /\ [PartsNext]_pvars => LeavesInv'
  BY <1>1, PartStays, PublisherMoves, ExportsMove, I!PublisherSteps, I!ExportsStep
<1> HIDE DEF LeavesInv
<1>. QED  BY <1>3, <1>4, <1>5, PTL DEF PartsSpec
=============================================================================
