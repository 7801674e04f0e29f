---------------------------- MODULE ClockAnalysis ---------------------------
(***************************************************************************)
(* The suite's analysis of the clock (suite/clock.py, pps_summary.py): a     *)
(* file of PPS rows is turned into intervals that measure the oscillator,    *)
(* its phase in runs of such intervals, bins of time, the windows of the     *)
(* Allan deviation, and counts of what happened to the rows.                 *)
(*                                                                         *)
(* An edge is stamped by projecting a captured count on the counter; the     *)
(* projection may be off by some ticks, and the file keeps by how much it    *)
(* differs from the usual (the diagnostic).  Temperature models are only     *)
(* followed as far as which hours they take for neighbours.                  *)
(***************************************************************************)
EXTENDS SuiteTimeline

CONSTANTS
    Hz,       \* nominal_hz
    Offset,   \* what the oscillator's second has more than nominal_hz, in ticks
    Shift,    \* a shift of the projection, in ticks
    MaxShift, \* the largest one the diagnostic follows (64)
    Bin,      \* the seconds of a bin
    MinSupport, \* disjoint windows an Allan deviation needs (20)
    Firsts, Losses, \* the first number in the file; how many seconds are lost at once
    MaxRows, MaxFaults \* bounds

ClockAssumption ==
    /\ SuiteAssumption /\ {Hz, Offset, Shift, MaxShift, Bin, MinSupport, MaxRows, MaxFaults} \subseteq Nat
    /\ 20 * Offset <= Hz /\ 4 * Hz < Wrap /\ Bin > 0 /\ MinSupport > 0

VARIABLES
    rows,   \* PCPS: seq, edge, drop, status; coherent: now32 - edge is latency16; large: so is
            \* latency16; proj: cap16 - edge; ok; and the truth: life, second, at
    next,   \* what comes next: seq, drop, status, life, second, at, off (the projection)
    faults, \* bound
    frame,  \* the columns joined to the file, or None
    gated   \* the rows that pass the gates, and how far each projection is shifted, or None

clvars == <<rows, next, faults, frame, gated>>

Locked == 2

Init ==
    /\ rows = <<>> /\ faults = 0 /\ frame = None /\ gated = None
    /\ next \in [seq : Firsts, drop : {0}, status : {Locked}, life : {1}, second : {1}, at : {Wrap - 2 * Hz}, off : {0}]

Fault(n) == frame = None /\ faults + n <= MaxFaults /\ faults' = faults + n
-----------------------------------------------------------------------------
\* A stamp that is not coherent may be wrong by a tick.
Row(at, coherent, large) ==
    [seq |-> next.seq, edge |-> (at + next.off + (IF coherent THEN 0 ELSE 1)) % Wrap, drop |-> next.drop, status |-> next.status,
     coherent |-> coherent, large |-> large, proj |-> -next.off, ok |-> TRUE,
     life |-> next.life, second |-> next.second, at |-> at]

Later(n) == [next EXCEPT !.seq = (@ + n) % SeqWrap, !.second = @ + n, !.at = @ + n * (Hz + Offset)]

\* Large latencies may go on once they have begun.
Pulse(coherent, large) ==
    /\ Len(rows) < MaxRows /\ Fault(IF coherent /\ (large => rows # <<>> /\ Last(rows).large) THEN 0 ELSE 1)
    /\ rows' = Append(rows, Row(next.at, coherent, large)) /\ next' = Later(1) /\ UNCHANGED <<frame, gated>>

\* An extra edge in the middle of a second, the second row being that of the true one.
Extra ==
    /\ Len(rows) < MaxRows /\ Fault(1) /\ rows # <<>> /\ UNCHANGED <<frame, gated>>
    /\ rows' = Append(rows, [Row(next.at - Hz \div 2, TRUE, FALSE) EXCEPT !.second = 0])
    /\ next' = [next EXCEPT !.seq = (@ + 1) % SeqWrap]

\* Rows are lost on the way, or dropped by the firmware, which counts them; or no pulse
\* comes, for less than half the range of the counter.
Lose(n)   == Fault(1) /\ next' = Later(n) /\ UNCHANGED <<rows, frame, gated>>
Drop(n)   == Fault(1) /\ next' = [Later(n) EXCEPT !.drop = @ + n] /\ UNCHANGED <<rows, frame, gated>>
Outage(n) == Fault(1) /\ 2 * (n + 1) * (Hz + Offset) < Wrap /\ next' = [Later(n) EXCEPT !.seq = next.seq] /\ UNCHANGED <<rows, frame, gated>>

Damage(field) ==
    /\ Len(rows) < MaxRows /\ Fault(1) /\ next' = Later(1) /\ UNCHANGED <<frame, gated>>
    /\ rows' = Append(rows, [Row(next.at, TRUE, FALSE) EXCEPT !.ok = FALSE, ![field] = None])

\* The receiver changes its state; the projection is off from now on; the firmware restarts.
Lock(s)  == Fault(1) /\ s # next.status /\ next' = [next EXCEPT !.status = s] /\ UNCHANGED <<rows, frame, gated>>
Move(d)  == Fault(1) /\ d # next.off /\ next' = [next EXCEPT !.off = d] /\ UNCHANGED <<rows, frame, gated>>
Restart  == /\ Fault(1) /\ next.life = 1 /\ UNCHANGED <<rows, frame, gated>>
            /\ next' = [next EXCEPT !.seq = 1, !.drop = 0, !.life = 2, !.second = 1, !.at = 3 * Hz]

-----------------------------------------------------------------------------
\* analyze_clock(): the gates, in the order in which the table of filters counts them.
Coherent(k) == rows[k].ok /\ rows[k].coherent
Delta(k)    == Between(rows, k, Hz) \* delta_cycles
SameDrop(k) == rows[k].drop # None /\ rows[k - 1].drop # None /\ rows[k].drop = rows[k - 1].drop

Gates(k) == <<k > 1, k > 1 /\ rows[k].ok /\ rows[k - 1].ok, frame[k].step = 1 /\ ~frame[k].boundary,
              k > 1 /\ rows[k].status = Locked /\ rows[k - 1].status = Locked, k > 1 /\ Coherent(k) /\ Coherent(k - 1),
              k > 1 /\ SameDrop(k), ~frame[k].boundary /\ 20 * Abs(Delta(k) - Hz) <= Hz>>
Passes(k) == \A g \in 1..7 : Gates(k)[g]

\* How far a projection is from the epoch's most frequent one (of several, the least).
EpochRows(k)   == {j \in 1..Len(rows) : rows[j].ok /\ frame[j].epoch = frame[k].epoch}
Share(k, p)    == Cardinality({j \in EpochRows(k) : rows[j].proj = p})
Projections(k) == {rows[j].proj : j \in EpochRows(k)}
Baseline(k)    == Min({p \in Projections(k) : \A q \in Projections(k) : Share(k, q) <= Share(k, p)})
ShiftOf(k)     == Baseline(k) - rows[k].proj

\* The file is complete: it is put on one axis, and then the rows pass the gates.
Reconstruct == frame = None /\ rows # <<>> /\ frame' = Timeline(rows, Hz) /\ UNCHANGED <<rows, next, faults, gated>>

Analyse ==
    /\ frame # None /\ gated = None /\ UNCHANGED <<rows, next, faults, frame>>
    /\ gated' = [eligible |-> {k \in 1..Len(rows) : Passes(k)},
                 shift    |-> [k \in 1..Len(rows) |-> IF rows[k].ok THEN ShiftOf(k) ELSE None]]

Next ==
    \/ (\E coherent, large \in BOOLEAN : Pulse(coherent, large)) \/ Extra
    \/ (\E n \in Losses : Lose(n) \/ Drop(n) \/ Outage(n)) \/ (\E field \in {"seq", "edge", "drop"} : Damage(field))
    \/ Lock(3) \/ Lock(Locked) \/ (\E d \in {Shift, 0} : Move(d)) \/ Restart \/ Reconstruct \/ Analyse

-----------------------------------------------------------------------------
Eligible(k) == k \in gated.eligible

\* diagnostic_offset_cycles, where it is available.
Diagnosed(k)  == Eligible(k) /\ Abs(gated.shift[k]) <= MaxShift /\ Abs(gated.shift[k - 1]) <= MaxShift
Diagnostic(k) == Delta(k) - Hz - (gated.shift[k] - gated.shift[k - 1])

\* phase_run and phase_raw_s: every row that is not eligible begins a run.
PhaseRun(k) == Cardinality({j \in 1..k : ~Eligible(j)})
PhaseAt(k) ==
    LET phase[j \in 0..k] == IF j = 0 \/ ~Eligible(j) THEN 0 ELSE phase[j - 1] + Delta(j) - Hz IN phase[k]

\* aggregate_clock(): a bin's phase is that of its last eligible row, if the bin is of one run.
BinOf(k)   == <<frame[k].epoch, frame[k].elapsed \div (Bin * Hz)>>
InBin(b)   == {k \in 1..Len(rows) : BinOf(k) = b}
Binned(b)  == {k \in InBin(b) : Eligible(k)}
Drawn(b)   == Binned(b) # {} /\ Cardinality({PhaseRun(k) : k \in InBin(b)}) = 1

\* gap_aware_allan(): windows of 2 * m intervals without an excluded one, and how many of them
\* do not overlap.
Ok(k) == Eligible(k) /\ k > 1 /\ frame[k].epoch = frame[k - 1].epoch
Windows(m) == {s \in 1..Len(rows) - 2 * m + 1 : \A k \in s..s + 2 * m - 1 : Ok(k)}
OkRuns == {r \in (1..Len(rows)) \X (1..Len(rows)) :
              /\ r[1] <= r[2] /\ (\A k \in r[1]..r[2] : Ok(k))
              /\ (r[1] = 1 \/ ~Ok(r[1] - 1)) /\ (r[2] = Len(rows) \/ ~Ok(r[2] + 1))}
Disjoint(m) == MapThenSumSet(LAMBDA r : (r[2] - r[1] + 1) \div (2 * m), OkRuns)
Taus == {m \in {1, 2, 4} : 2 * m <= Len(rows) /\ \A n \in {1, 2, 4} : n <= m => Disjoint(n) >= MinSupport}

\* _design(): the bin before, for a model with a memory.
Lagged(b) == {c \in {BinOf(k) : k \in 1..Len(rows)} : c[1] = b[1] /\ c[2] = b[2] - 1}

\* pps_summary_tables(): changes of lock between neighbours, and runs of large latencies.
Adjacent(k)   == k > 1 /\ rows[k].ok /\ rows[k - 1].ok /\ ~frame[k].boundary /\ frame[k].step = 1
Transition(k) == Adjacent(k) /\ (rows[k].status = Locked) # (rows[k - 1].status = Locked)
LargeRun(j, k) == /\ j <= k /\ (\A i \in j..k : rows[i].ok /\ rows[i].large) /\ \A i \in j + 1..k : Adjacent(i)

Conditions(k) ==
    {c \in {"invalid_record", "timeline_boundary", "sequence_gap", "inconsistent_reconstruction", "exceptional_interval",
            "status_change", "new_pps_drop", "historical_projection_shift", "large_latency"} :
        CASE c = "invalid_record"              -> ~rows[k].ok
          [] c = "timeline_boundary"           -> frame[k].boundary /\ k > 1
          [] c = "sequence_gap"                -> frame[k].step # None /\ frame[k].step > 1
          [] c = "inconsistent_reconstruction" -> rows[k].ok /\ ~Coherent(k)
          [] c = "exceptional_interval"        -> frame[k].step = 1 /\ ~frame[k].boundary /\ 20 * Abs(Delta(k) - Hz) > Hz
          [] c = "status_change"               -> k > 1 /\ rows[k].status # rows[k - 1].status
          [] c = "new_pps_drop"                -> k > 1 /\ rows[k].drop # None /\ rows[k - 1].drop # None /\ rows[k].drop # rows[k - 1].drop
          [] c = "historical_projection_shift" -> rows[k].ok /\ gated.shift[k] # 0
          [] c = "large_latency"               -> rows[k].ok /\ rows[k].large}
-----------------------------------------------------------------------------
\* The true error of the time between two rows, in ticks.
Consecutive(j, k) == \A i \in j + 1..k : rows[i].life = rows[j].life /\ rows[i].second = rows[j].second + i - j
TrueError(j, k)   == rows[k].at - rows[j].at - (k - j) * Hz

\* An interval that measures the oscillator is one true second, the diagnostic is what it would
\* be had the projection not moved, and an interval between locked rows that is left out has an
\* event at one of its ends.
IntervalsAreSeconds == gated # None => \A k \in 2..Len(rows) :
    IF Eligible(k)
    THEN /\ Consecutive(k - 1, k)
         /\ Diagnosed(k) => Diagnostic(k) = TrueError(k - 1, k)
    ELSE rows[k].status = Locked /\ rows[k - 1].status = Locked => Conditions(k) \cup Conditions(k - 1) # {}

\* Phase is accumulated over consecutive seconds only ("never bridges an outage", clock.py:194):
\* between two rows of a run it is the oscillator's true error but for the shift of the
\* projection; and a bin that shows a phase has no second missing in it.
PhaseIsContinuous == gated # None =>
    /\ \A j, k \in 1..Len(rows) : j < k /\ Eligible(j) /\ Eligible(k) /\ PhaseRun(j) = PhaseRun(k) =>
           Consecutive(j, k) /\ PhaseAt(k) - PhaseAt(j) = TrueError(j, k) + rows[j].proj - rows[k].proj
    /\ \A b \in {BinOf(k) : k \in 1..Len(rows)} : Drawn(b) => Consecutive(Min(InBin(b)), Max(InBin(b)))

\* Every window of the Allan deviation is of consecutive seconds, and the support that is
\* claimed is the largest number of windows that do not overlap.
AllanIsGapAware == gated # None => \A m \in Taus :
    /\ \A s \in Windows(m) : Consecutive(s - 1, s + 2 * m - 1)
    /\ Disjoint(m) = Max({Cardinality(w) : w \in {w \in SUBSET Windows(m) : \A s, u \in w : s < u => u - s >= 2 * m}})

\* Neighbouring bins, changes of lock and runs of large latencies are of rows that truly follow
\* each other.
NeighboursAreNeighbours == gated # None =>
    /\ \A b \in {BinOf(k) : k \in 1..Len(rows)} : \A c \in Lagged(b) : \A k \in InBin(b), j \in InBin(c) :
           rows[j].life = rows[k].life =>
               Abs(rows[k].at - rows[j].at + rows[j].proj - rows[k].proj) < 2 * Bin * Hz
    /\ \A k \in 2..Len(rows) : Transition(k) => rows[k - 1].life = rows[k].life /\ rows[k].at - rows[k - 1].at <= Wrap \div 2
    /\ \A j, k \in 1..Len(rows) : LargeRun(j, k) => \A i \in j + 1..k : frame[i].extended = frame[j].extended + i - j
-----------------------------------------------------------------------------
(***************************************************************************)
CONSTANTS
    Near,             \* how near two intervals add to a second (1 % of it)
    Window, MinWindow, \* intervals a reference is the median of (31), and the fewest (10)
    Radius,           \* rows shown around an event (event_window_records)
    Phases, CapBins, PerBin, \* values of cap16 (65536), bins they are counted in (256), rows a bin needs (10)
    WarnGap, FailGap, WarnRatio, FailRatio \* phases in a row without an edge; how much fuller a bin may be

ReportAssumption ==
    /\ ClockAssumption /\ {Near, Window, MinWindow, Radius, Phases, CapBins, PerBin, WarnGap, FailGap, WarnRatio, FailRatio} \subseteq Nat
    /\ 0 < MinWindow /\ MinWindow <= Window
    /\ 0 < CapBins /\ Phases % CapBins = 0 /\ 2 * (Phases \div CapBins) <= WarnGap /\ WarnGap <= FailGap /\ 1 < WarnRatio /\ WarnRatio <= FailRatio

VARIABLE report \* the columns of the two readers, or None

rpvars == <<clvars, report>>
-----------------------------------------------------------------------------
\* reconstruct_timeline().  drop_pps is not a required column.
Valid(k) == rows[k].seq # None /\ rows[k].edge # None
Both(k)  == k > 1 /\ Valid(k) /\ Valid(k - 1)

Doubtful(k) ==
    LET dt == Between(rows, k, Hz)
    IN  \/ Step(rows, k) > 1 /\ 2 * dt >= Wrap /\ 10 * Abs(dt - Step(rows, k) * Hz) > Hz
        \/ Step(rows, k) = 1 /\ 2 * dt > Wrap
Cut(k) == ~Both(k) \/ Step(rows, k) <= 0 \/ Doubtful(k)

Located(k, before) ==
    IF Cut(k) THEN [segment |-> before.segment + 1, interval |-> None, elapsed |-> before.elapsed]
    ELSE [segment |-> before.segment, interval |-> Between(rows, k, Hz), elapsed |-> before.elapsed + Between(rows, k, Hz)]

Axis == FoldLeft(LAMBDA t, k : Append(t, Located(k, IF k = 1 THEN [segment |-> 0, elapsed |-> 0] ELSE t[k - 1])),
                 <<>>, [k \in 1..Len(rows) |-> k])

\* analyze_frame(), on an axis: the projection's shift from the segment's usual one, and the
\* intervals that measure the oscillator (frequency_valid).
InSegment(axis, s) == {k \in 1..Len(rows) : Valid(k) /\ axis[k].segment = s}
Usual(axis, s) ==
    LET Times(p) == Cardinality({k \in InSegment(axis, s) : rows[k].proj = p})
        ps       == {rows[k].proj : k \in InSegment(axis, s)}
    IN  Min({p \in ps : \A q \in ps : Times(q) <= Times(p)})
ShiftIn(axis, k) == IF Valid(k) THEN Usual(axis, axis[k].segment) - rows[k].proj ELSE None

Second(axis, k) == axis[k].interval # None /\ Step(rows, k) = 1 /\ 20 * Abs(axis[k].interval - Hz) <= Hz
Measures(axis, k) ==
    /\ Second(axis, k) /\ SameDrop(k) /\ rows[k].coherent /\ rows[k - 1].coherent
    /\ rows[k].status = Locked /\ rows[k - 1].status = Locked

\* Two short intervals that add to a second suggest an extra capture between them.
Short(axis, k) ==
    k \in 1..Len(rows) /\ axis[k].interval # None /\ Step(rows, k) = 1 /\ axis[k].interval > 0 /\ 20 * axis[k].interval < 19 * Hz
Split(axis, k) ==
    Short(axis, k) /\ Short(axis, k + 1) /\ Abs(axis[k].interval + axis[k + 1].interval - Hz) < Near

Starts(axis, k) == \* of state_run
    k = 1 \/ rows[k].status # rows[k - 1].status \/ axis[k].segment # axis[k - 1].segment \/ Step(rows, k) # 1

\* analyze_pcps(): rows without the two numbers are taken away first, and then the times of
\* what is left are unwrapped.
Kept == SetToSortSeq({k \in 1..Len(rows) : Valid(k)}, <)
Canonical(kept, time, n) == \* is_valid_pps_interval
    /\ n > 1 /\ rows[kept[n]].seq - rows[kept[n - 1]].seq = 1
    /\ rows[kept[n]].status = Locked /\ rows[kept[n]].drop = 0
    /\ Hz <= 2 * (time[n] - time[n - 1]) /\ 2 * (time[n] - time[n - 1]) <= 3 * Hz

Columns(axis, kept, time) ==
    LET all == 1..Len(rows)
    IN  [axis   |-> axis, shift |-> [k \in all |-> ShiftIn(axis, k)],
         valid  |-> {k \in all : Measures(axis, k)}, split |-> {k \in all : Split(axis, k)},
         starts |-> {k \in all : Starts(axis, k)}, kept |-> kept, time |-> time,
         canonical |-> {n \in 1..Len(kept) : Canonical(kept, time, n)}]

Report ==
    /\ gated # None /\ report = None /\ UNCHANGED clvars
    /\ \E axis \in {Axis}, kept \in {Kept} : \E time \in {Unwrap([n \in 1..Len(kept) |-> rows[kept[n]].edge])} : report' = Columns(axis, kept, time)

ReportInit == Init /\ report = None
ReportNext == (Next /\ UNCHANGED report) \/ Report
Spec == ReportInit /\ [][ReportNext]_rpvars
-----------------------------------------------------------------------------
Reported == report # None

SegmentOf(k) == report.axis[k].segment
RawError(k)  == report.axis[k].interval - Hz
Adjusted(k)  == RawError(k) - (report.shift[k] - report.shift[k - 1])
IsAdjusted(k) == k \in report.valid /\ Abs(report.shift[k]) <= MaxShift /\ Abs(report.shift[k - 1]) <= MaxShift

\* add_summary_tables(): the median of the intervals before it, which an exclusion ends (twice
\* it, to stay whole).
Before(k) == {j \in k - Window..k - 1 : j..k \subseteq report.valid}
Residual2(k) ==
    LET s == SetToSortSeq(Before(k), LAMBDA i, j : RawError(i) < RawError(j) \/ (RawError(i) = RawError(j) /\ i < j))
        n == Len(s)
    IN  2 * RawError(k) - RawError(s[(n + 1) \div 2]) - RawError(s[n \div 2 + 1])
HasResidual(k) == k \in report.valid /\ Cardinality(Before(k)) >= MinWindow

SameRun(j, k) == \A i \in j + 1..k : i \notin report.starts \* state_runs
Around(k)     == {j \in 1..Len(rows) : Abs(j - k) <= Radius /\ SegmentOf(j) = SegmentOf(k)} \* event_windows()
Hour(k)       == <<SegmentOf(k), report.axis[k].elapsed \div (Bin * Hz)>>

\* The catalogue of events.
Noted(k) ==
    {e \in {"malformed_record", "segment_boundary", "ambiguous_timeline", "sequence_gap", "duplicate_sequence",
            "sequence_reversal", "duplicate_timestamp", "exceptional_interval", "possible_extra_capture",
            "gps_state_change", "pps_drop_change", "reconstruction_mismatch", "projection_shift", "large_latency"} :
        CASE e = "malformed_record"        -> ~Valid(k)
          [] e = "segment_boundary"        -> k > 1 /\ SegmentOf(k) # SegmentOf(k - 1)
          [] e = "ambiguous_timeline"      -> Both(k) /\ Doubtful(k)
          [] e = "sequence_gap"            -> Both(k) /\ Step(rows, k) > 1
          [] e = "duplicate_sequence"      -> Both(k) /\ Step(rows, k) = 0
          [] e = "sequence_reversal"       -> Both(k) /\ Step(rows, k) < 0
          [] e = "duplicate_timestamp"     -> report.axis[k].interval = 0
          [] e = "exceptional_interval"    -> report.axis[k].interval # None /\ Step(rows, k) = 1 /\ ~Second(report.axis, k)
          [] e = "possible_extra_capture"  -> k \in report.split
          [] e = "gps_state_change"        -> k > 1 /\ rows[k].status # rows[k - 1].status
          [] e = "pps_drop_change"         -> /\ k > 1 /\ SegmentOf(k) = SegmentOf(k - 1)
                                              /\ rows[k].drop # None /\ rows[k - 1].drop # None /\ rows[k].drop # rows[k - 1].drop
          [] e = "reconstruction_mismatch" -> Valid(k) /\ ~rows[k].coherent
          [] e = "projection_shift"        -> Valid(k) /\ report.shift[k] # 0
          [] e = "large_latency"           -> Valid(k) /\ rows[k].large}

\* analyze_pcps_timebase_health(), on the rows of the canonical run: which phases of the timer
\* the captures fell on, and how long none fell on any, over the end of the timer too.
Pcps   == 1..Len(report.kept)
CapAt(k) == (rows[k].edge + rows[k].proj) % Phases
Cap(n) == CapAt(report.kept[n])
Caps   == {Cap(n) : n \in Pcps}
EmptyGap ==
    LET s == SetToSortSeq(Caps, <)
        n == Len(s)
    IN  CASE n = 0 -> Phases
          [] n = 1 -> Phases - 1
          [] OTHER -> Max({s[1] + Phases - s[n] - 1} \cup {s[i + 1] - s[i] - 1 : i \in 1..n - 1})
InCapBin(b) == {n \in Pcps : (Cap(n) * CapBins) \div Phases = b}
Fullest     == Max({Cardinality(InCapBin(b)) : b \in 0..CapBins - 1})

Uneven(gap, ratio) == EmptyGap >= gap \/ Fullest * CapBins >= ratio * Len(report.kept)
CapVerdict ==
    CASE Len(report.kept) < CapBins * PerBin -> "INSUFFICIENT_DATA"
      [] OTHER -> IF Uneven(FailGap, FailRatio) THEN "FAIL" ELSE IF Uneven(WarnGap, WarnRatio) THEN "WARN" ELSE "PASS"

\* Latencies over the threshold, the runs they come in, and those with none beside them.
Outlier(n) == n \in Pcps /\ rows[report.kept[n]].large
OutlierRuns ==
    LET t == FoldLeft(LAMBDA a, n : IF Outlier(n) THEN [a EXCEPT !.current = @ + 1]
                                    ELSE IF a.current > 0 THEN [runs |-> Append(a.runs, a.current), current |-> 0] ELSE a,
                      [runs |-> <<>>, current |-> 0], [n \in Pcps |-> n])
    IN  IF t.current > 0 THEN Append(t.runs, t.current) ELSE t.runs
Isolated(n) == Outlier(n) /\ ~Outlier(n - 1) /\ ~Outlier(n + 1)

\* lock_unlock_transitions.
Switched(n) == n > 1 /\ (rows[report.kept[n]].status = Locked) # (rows[report.kept[n - 1]].status = Locked)

\* The tables of the other two readers: the gap taken with the first phase once more at the
\* end, of every readable row or of every complete one, and changes of lock within a segment.
ClosedGap(caps) ==
    LET s == SetToSortSeq(caps, <)
    IN  Max({(IF i < Len(s) THEN s[i + 1] ELSE s[1] + Phases) - s[i] - 1 : i \in 1..Len(s)})
ReadableCaps == {CapAt(k) : k \in {k \in 1..Len(rows) : Valid(k)}}
CompleteCaps == {CapAt(k) : k \in {k \in 1..Len(rows) : rows[k].ok}}
Changed(k) ==
    /\ Both(k) /\ SegmentOf(k) = SegmentOf(k - 1) /\ Step(rows, k) = 1
    /\ (rows[k].status = Locked) # (rows[k - 1].status = Locked)

\* Where the edge of a row was stamped in truth.
Stamp(k) == rows[k].at - rows[k].proj + (IF rows[k].coherent THEN 0 ELSE 1)

\* No restart between two rows after which the numbers seem to go on: after fewer rows than the
\* firmware sent before it, or within the last of the numbers before they wrap.  A gap of less
\* than half the counter is not compared with what it should be (pps/core.py:130).
Shown(j, k) == \A i \in j + 1..k : rows[i].life # rows[i - 1].life /\ Both(i) => Step(rows, i) <= 0

\* The time that passes in a segment is the true one, so that a run of one state, an hour and
\* the surroundings of an event are of one life of the firmware and of the time they claim,
\* if restarts show themselves.
SegmentsAreTrue == report # None => \A j, k \in 1..Len(rows) : j < k /\ Shown(j, k) =>
    /\ SegmentOf(j) = SegmentOf(k) =>
           rows[j].life = rows[k].life /\ report.axis[k].elapsed - report.axis[j].elapsed = Stamp(k) - Stamp(j)
    /\ SameRun(j, k) => rows[j].status = rows[k].status /\ (rows[k].seq - rows[j].seq - (k - j)) % SeqWrap = 0
    /\ (j \in Around(k) \/ SameRun(j, k)) => rows[j].life = rows[k].life
    /\ Hour(j) = Hour(k) /\ Valid(j) /\ Valid(k) => Stamp(k) - Stamp(j) < Bin * Hz

\* "Exclusions restart the warm-up, so dropped rows or unlocked periods never become adjacent
\* reference samples" (pps/summary.py:24): a reference is of the consecutive seconds before the
\* interval; a steady oscillator leaves no residual, and a projection that moves within the
\* window leaves one only where it moves; the adjusted offset does not see it at all.
ResidualsAreUnbroken == report # None => \A k \in report.valid :
    LET moved == {j \in Before(k) \cup {k} : rows[j].proj # rows[j - 1].proj}
    IN  /\ HasResidual(k) =>
               /\ Consecutive(Min(Before(k)) - 1, k)
               /\ k \notin moved /\ 2 * Cardinality(moved) < Cardinality(Before(k)) => Residual2(k) = 0
        /\ IsAdjusted(k) => Consecutive(k - 1, k) /\ Adjusted(k) = TrueError(k - 1, k)

\* A capture between two pulses of consecutive seconds, with nothing lost or damaged between
\* the three, is taken for an extra one; and whatever is taken for one either is, or has one
\* at each side: in a row of them the true pulses look the same.
ExtraIsRecognised == report # None => \A k \in 2..Len(rows) - 1 :
    /\ rows[k].second = 0 /\ (\A j \in k - 1..k + 1 : Valid(j)) /\ Step(rows, k) = 1 /\ Step(rows, k + 1) = 1
       /\ rows[k - 1].life = rows[k + 1].life /\ rows[k + 1].second = rows[k - 1].second + 1 /\ rows[k - 1].second > 0
       => k \in report.split
    /\ k \in report.split => rows[k].second = 0 \/ (rows[k - 1].second = 0 /\ rows[k + 1].second = 0)

\* No interval between locked rows is left out silently: an event is noted at one of its ends,
\* unless all that is wrong is a drop counter that cannot be read; and no lost row goes unnoted.
ExclusionsAreNoted == report # None => \A k \in 2..Len(rows) :
    /\ k \notin report.valid /\ rows[k].status = Locked /\ rows[k - 1].status = Locked =>
           Noted(k) \cup Noted(k - 1) # {} \/ rows[k].drop = None \/ rows[k - 1].drop = None
    /\ ~Consecutive(k - 1, k) /\ rows[k].second > 0 /\ rows[k - 1].second > 0 =>
           Noted(k) # {} \/ \E j \in 1..Len(rows) : rows[j].life # rows[k].life

\* The two readers differ, in one direction: what the capture report measures the canonical run
\* measures too, unless rows were ever dropped or the numbers wrap; the suite's reader is between
\* them, as it wants every column.  The canonical run takes an interval only between rows of
\* one life that follow each other, and its time is true until a gap of half the counter.
PopulationsNest == report # None =>
    /\ gated.eligible \subseteq report.valid
    /\ \A k \in report.valid : rows[k].drop = 0 /\ ~Wraps(rows, k) =>
           \E n \in report.canonical : report.kept[n] = k /\ report.kept[n - 1] = k - 1
    /\ \A n \in report.canonical : LET k == report.kept[n]
                                       j == report.kept[n - 1]
                                   IN  rows[j].life = rows[k].life /\ report.time[n] - report.time[n - 1] = Stamp(k) - Stamp(j)
    /\ \A n \in 1..Len(report.kept) :
           (\A m \in 2..n : /\ rows[report.kept[m]].life = rows[report.kept[1]].life
                            /\ Stamp(report.kept[m]) - Stamp(report.kept[m - 1]) \in 0..Wrap \div 2) =>
               report.time[n] - report.time[1] = Stamp(report.kept[n]) - Stamp(report.kept[1])

\* The gap that is reported is the longest circular run of phases without a capture, every row
\* is in one bin, and a recording is found fault with only for a bin without rows or one with
\* more than its share; the runs of outliers add up and the isolated ones are the runs of one
\* row; the three readers agree on the gap, but for rows that one of them leaves out, and a
\* change of lock that the stricter one counts the others count too.
HealthIsTrue == report # None =>
    /\ LET gap == EmptyGap
           empty == (0..Phases - 1) \ Caps
       IN  /\ \E s \in 0..Phases - 1 : \A i \in 0..gap - 1 : (s + i) % Phases \in empty
           /\ \A s \in 0..Phases - 1 : (\A i \in 0..gap : (s + i) % Phases \in empty) => Caps = {}
    /\ UNION {InCapBin(b) : b \in 0..CapBins - 1} = Pcps
    /\ CapVerdict \in {"WARN", "FAIL"} => Fullest * CapBins > Len(report.kept) \/ \E b \in 0..CapBins - 1 : InCapBin(b) = {}
    /\ FoldLeft(+, 0, OutlierRuns) = Cardinality({n \in Pcps : Outlier(n)})
    /\ Cardinality({i \in 1..Len(OutlierRuns) : OutlierRuns[i] = 1}) = Cardinality({n \in Pcps : Isolated(n)})
    /\ Caps # {} => ClosedGap(ReadableCaps) = EmptyGap
    /\ CompleteCaps # {} => ClosedGap(CompleteCaps) >= EmptyGap
    /\ \A k \in 2..Len(rows) : /\ Transition(k) => Changed(k)
                              /\ Changed(k) => \E n \in Pcps : report.kept[n] = k /\ Switched(n)
=============================================================================
