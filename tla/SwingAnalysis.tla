---------------------------- MODULE SwingAnalysis ---------------------------
(***************************************************************************)
(* The suite's analysis of the swings (suite/swings.py, time_series.py): a   *)
(* file of swing rows, some of them missing, doubled or damaged, one life of *)
(* the firmware after the other, is turned into phases of the cycle of       *)
(* swings, complete cycles, runs of cycles, and runs of rows that look as    *)
(* if the sensor had lost its clearance.                                     *)
(*                                                                         *)
(* A swing has its number in the pendulum's life.  The firmware numbers      *)
(* rows, not swings: when its ring of edges overflows, whole swings are      *)
(* swallowed by the row that is being built, and drop_ir counts them         *)
(* (SwingAssembler.cpp).  Edges within a swing are abstracted to the         *)
(* swing's two ends and whether its geometry is as expected.                 *)
(***************************************************************************)
EXTENDS SuiteTimeline

CONSTANTS
    Period,   \* nominal_hz * swing_period_s
    Cycle,    \* 15 swings
    Origin,   \* phase_origin
    Stale,    \* stale_seconds, in ticks
    Firsts,   \* the first number in the file
    Losses,   \* how many rows are lost at once
    Spared,   \* the row the pulses do not calibrate, 0 for none
    MaxRows, MaxFaults \* bounds

SwingAssumption ==
    /\ SuiteAssumption /\ {Period, Cycle, Origin, Stale, MaxRows, MaxFaults} \subseteq Nat
    /\ 0 < Period /\ 4 * Period < Wrap /\ Cycle > 1 /\ Firsts \subseteq 0..SeqWrap - 1 /\ Losses \cup Spared \subseteq Nat

VARIABLES
    rows,   \* PCSW: seq, edge (the first), last (the last), drop, env, suspect; ok; and the
            \* truth: life, swing and at of the first edge, swings covered
    next,   \* what comes next: seq, drop, env, life, swing, at
    faults, \* bound
    frame   \* the analysed file: the columns joined to it, and the row not calibrated; or None

swvars == <<rows, next, faults, frame>>

Init ==
    /\ rows = <<>> /\ faults = 0 /\ frame = None
    /\ next \in [seq : Firsts, drop : {0}, env : {0}, life : {1}, swing : {1}, at : {Wrap - 2 * Period}]

Fault(n) == frame = None /\ faults + n <= MaxFaults /\ faults' = faults + n
-----------------------------------------------------------------------------
\* A row of n swings, the last of them some ticks longer than it should be.
Row(n, more, suspect) ==
    [seq |-> next.seq, edge |-> next.at % Wrap, last |-> (next.at + n * Period + more) % Wrap,
     drop |-> next.drop + n - 1, env |-> next.env, suspect |-> suspect, ok |-> TRUE,
     life |-> next.life, swing |-> next.swing, at |-> next.at, covers |-> n]

After(n, more) ==
    [next EXCEPT !.seq = (@ + 1) % SeqWrap, !.drop = @ + n - 1, !.swing = @ + n, !.at = @ + n * Period + more]

\* A row is recorded: of a swing, of one that takes too long or whose geometry is suspect, as
\* it may then remain; or the row that swallows n - 1 swings.
Begun(suspect) == suspect /\ (rows = <<>> \/ ~Last(rows).suspect)
Record(n, more, suspect) ==
    /\ Len(rows) < MaxRows /\ Fault(Cardinality({c \in {<<"n", n > 1>>, <<"more", more > 0>>, <<"suspect", Begun(suspect)>>} : c[2]}))
    /\ rows' = Append(rows, Row(n, more, suspect)) /\ next' = After(n, more) /\ UNCHANGED frame

Lose(n) == \* rows are lost, and with them, possibly, a swing the firmware swallowed
    /\ Fault(1) /\ UNCHANGED <<rows, frame>>
    /\ \E drop \in 0..1 : next' = [next EXCEPT !.seq = (@ + n) % SeqWrap, !.drop = @ + drop,
                                               !.swing = @ + n + drop, !.at = @ + (n + drop) * Period]

Double == Fault(1) /\ rows # <<>> /\ Len(rows) < MaxRows /\ rows' = Append(rows, Last(rows)) /\ UNCHANGED <<next, frame>>

\* A row whose number, or whose other fields, cannot be read.
Damage(field) ==
    /\ Len(rows) < MaxRows /\ Fault(1) /\ next' = After(1, 0) /\ UNCHANGED frame
    /\ rows' = Append(rows, [Row(1, 0, FALSE) EXCEPT !.ok = FALSE, ![field] = None])

\* The sensors report something else from now on, or nothing.
Sense(v) == Fault(1) /\ v # next.env /\ next' = [next EXCEPT !.env = v] /\ UNCHANGED <<rows, frame>>

Restart ==
    /\ Fault(1) /\ next.life = 1 /\ UNCHANGED <<rows, frame>>
    /\ next' = [next EXCEPT !.seq = 1, !.drop = 0, !.life = 2, !.swing = 1, !.at = Period \div 2 + 2]
-----------------------------------------------------------------------------
\* analyze_swings(): the gates a row passes.
Full(k)      == (rows[k].last - rows[k].edge) % Wrap
Plausible(k) == rows[k].edge # None /\ 4 * Full(k) > 3 * Period /\ 4 * Full(k) < 5 * Period
Valid(k)     == rows[k].ok

Mismatch(t, k) == t[k].step = 1 /\ ~t[k].boundary /\ rows[k].edge # rows[k - 1].last
BadChain(t, k) == Mismatch(t, k) \/ (k < Len(rows) /\ Mismatch(t, k + 1))

\* The first row is compared with nothing lost at all; what cannot be read has not changed.
DropChange(k) ==
    /\ rows[k].drop # None
    /\ IF k = 1 THEN rows[k].drop > 0 ELSE rows[k - 1].drop # None /\ rows[k].drop # rows[k - 1].drop

Eligible(t, k) ==
    /\ Valid(k) /\ Plausible(k) /\ ~BadChain(t, k) /\ ~DropChange(k) /\ ~rows[k].suspect
    /\ ~t[k].ambiguous /\ t[k].step # 0

Reasons(t, k) ==
    {r \in {"invalid_record", "implausible_full_period", "ambiguous_or_duplicate_event", "edge_chain_mismatch",
            "reported_drop_change", "sequence_gap", "suspected_optical_clearance_loss", "timeline_boundary"} :
        CASE r = "invalid_record"                   -> ~Valid(k)
          [] r = "implausible_full_period"          -> ~Plausible(k)
          [] r = "ambiguous_or_duplicate_event"     -> t[k].ambiguous \/ t[k].step = 0
          [] r = "edge_chain_mismatch"              -> BadChain(t, k)
          [] r = "reported_drop_change"             -> DropChange(k)
          [] r = "sequence_gap"                     -> t[k].step # None /\ t[k].step > 1
          [] r = "suspected_optical_clearance_loss" -> Valid(k) /\ rows[k].suspect
          [] r = "timeline_boundary"                -> t[k].boundary /\ k > 1}

\* phase_bins(): the place of the swing in its cycle, -1 if its number is unreadable.
\* cycle_series() numbers the cycles in the same way.
Phase(t, k)     == IF t[k].extended = None THEN -1 ELSE (t[k].extended - Origin) % Cycle
CycleOf(t, k)   == (t[k].extended - Origin) \div Cycle

\* cycle_series(): a cycle is available when every one of its swings is there, eligible and
\* calibrated, in neighbouring rows of the file; cycles follow each other in a run.
Group(t, e, c) == {k \in 1..Len(rows) : t[k].extended # None /\ t[k].epoch = e /\ CycleOf(t, k) = c}

Available(t, sound, e, c) ==
    LET g == Group(t, e, c)
    IN  /\ Cardinality(g) = Cycle /\ g \subseteq sound /\ Max(g) - Min(g) = Cycle - 1
        /\ Cardinality({Phase(t, k) : k \in g}) = Cycle
        /\ Max({t[k].extended : k \in g}) - Min({t[k].extended : k \in g}) = Cycle - 1

Cycles(t) == {<<t[k].epoch, CycleOf(t, k)>> : k \in {k \in 1..Len(rows) : t[k].extended # None}}

\* The first of a run: what is before it is not the cycle before, or not available.
Begins(t, sound, b) ==
    \/ ~Available(t, sound, b[1], b[2]) \/ <<b[1], b[2] - 1>> \notin Cycles(t) \/ ~Available(t, sound, b[1], b[2] - 1)

\* cycle_autocorrelation(): two cycles are paired when they are in one run.
Paired(t, sound, a, b) ==
    /\ a[1] = b[1] /\ a[2] < b[2] /\ Available(t, sound, a[1], a[2])
    /\ \A c \in a[2] + 1..b[2] : ~Begins(t, sound, <<a[1], c>>)

\* alternative_periods() of the trial (synchronome_trial/periods.py): from an edge of a swing to
\* the same edge of the next, computed from intervals within the two, when they belong together.
Homologous(t, sound, k) ==
    /\ k < Len(rows) /\ {k, k + 1} \subseteq sound
    /\ t[k].epoch = t[k + 1].epoch /\ t[k + 1].extended - t[k].extended = 1 /\ rows[k].last = rows[k + 1].edge
FromEdge(k, offset, later) == Full(k) + later - offset

\* swing_sensor_runs: rows of suspect geometry in uninterrupted succession.
Breaks(t, k) ==
    k = 1 \/ (Valid(k) /\ rows[k].suspect) # (Valid(k - 1) /\ rows[k - 1].suspect) \/ t[k].epoch # t[k - 1].epoch \/ t[k].step # 1
SensorRun(t, j, k) == /\ j <= k /\ \A i \in j..k : Valid(i) /\ rows[i].suspect
                      /\ \A i \in j + 1..k : ~Breaks(t, i)

\* environmental_validity(): readings that have not changed for too long.
SameReading(t, k) == k > 1 /\ rows[k].env # None /\ rows[k].env = rows[k - 1].env /\ t[k].epoch = t[k - 1].epoch
StaleRuns(t) ==
    {r \in (1..Len(rows)) \X (1..Len(rows)) :
        /\ r[1] < r[2] /\ ~SameReading(t, r[1]) /\ (\A n \in r[1] + 1..r[2] : SameReading(t, n))
        /\ r[2] < Len(rows) => ~SameReading(t, r[2] + 1)
        /\ t[r[2]].elapsed - t[r[1]].elapsed >= Stale /\ 2 * (r[2] - r[1]) * Period >= Stale}

\* The file is analysed when it is complete; the PPS have calibrated all of it or all but a row.
Analyse(gone) ==
    /\ frame = None /\ rows # <<>> /\ UNCHANGED <<rows, next, faults>>
    /\ frame' = [t |-> Timeline(rows, Period), gone |-> gone]

Next ==
    \/ \E n \in 1..3, more \in {0, Period \div 2}, suspect \in BOOLEAN : Record(n, more, suspect)
    \/ (\E n \in Losses : Lose(n)) \/ Double \/ (\E field \in {"seq", "edge", "drop"} : Damage(field))
    \/ (\E v \in {1, None} : Sense(v)) \/ Restart \/ (\E gone \in Spared : Analyse(gone))

-----------------------------------------------------------------------------
Sound == {k \in 1..Len(rows) : Eligible(frame.t, k)} \ {frame.gone} \* calibrated_valid
Epoch(j, k) == frame.t[j].epoch = frame.t[k].epoch

\* A row that is used is of one swing and measures it; no row that is left out is without a
\* reason that is reported.
RowsAreOfOneSwing == frame # None => \A k \in 1..Len(rows) :
    IF k \in Sound THEN rows[k].covers = 1 /\ 4 * Full(k) < 5 * Period
    ELSE Eligible(frame.t, k) \/ Reasons(frame.t, k) # {}

\* The phases of an epoch are the swings' true places in their cycle, over lost rows and over
\* the wrap of the numbers, and no epoch has rows of two lives unless the numbers and the times
\* of the second go on where the first ended.  Only swings that the firmware itself swallowed
\* shift the phases after them, and never without an event (swings.py "reported_drop_change").
PhasesAreTrue == frame # None => \A j, k \in Sound :
    j < k /\ Epoch(j, k) /\ rows[j].life = rows[k].life =>
        \/ (Phase(frame.t, k) - Phase(frame.t, j)) % Cycle = (rows[k].swing - rows[j].swing) % Cycle
        \/ \E i \in j + 1..k - 1 : rows[i].covers > 1
                /\ Reasons(frame.t, i) \cap {"reported_drop_change", "implausible_full_period"} # {}

\* A complete cycle is of consecutive swings of one life, and cycles that are paired are as far
\* apart as they are taken to be: nothing is closed up over what is missing (time_series.py:8).
\* A period between homologous edges is the time from the one to the other.
CyclesAreConsecutive == frame # None =>
    LET sound == Sound
        whole == {c \in Cycles(frame.t) : Available(frame.t, sound, c[1], c[2])}
    IN
    /\ \A c \in whole :
          LET g == Group(frame.t, c[1], c[2])
          IN  \A k \in g : /\ rows[k].life = rows[Min(g)].life
                           /\ rows[k].swing = rows[Min(g)].swing + k - Min(g)
    /\ \A p \in {p \in whole \X whole : Paired(frame.t, sound, p[1], p[2])} :
          LET a == Min(Group(frame.t, p[1][1], p[1][2])) b == Min(Group(frame.t, p[2][1], p[2][2]))
          IN  rows[a].life = rows[b].life /\ rows[b].swing - rows[a].swing = Cycle * (p[2][2] - p[1][2])
    /\ \A k \in {k \in 1..Len(rows) : Homologous(frame.t, sound, k)}, offset, later \in 0..1 :
          /\ rows[k].life = rows[k + 1].life
          /\ FromEdge(k, offset, later) = (rows[k + 1].at + later) - (rows[k].at + offset)

\* A run of suspect rows is of swings one after the other, so that a sustained loss of
\* clearance is one; and a reading that is rejected as stale had truly stayed the same for
\* that long.
RunsAreUninterrupted == frame # None =>
    /\ \A j, k \in 1..Len(rows) : SensorRun(frame.t, j, k) /\ rows[j].life = rows[k].life =>
           \/ rows[k].swing - rows[j].swing = k - j
           \/ \E i \in j..k : DropChange(i)
    /\ \A r \in StaleRuns(frame.t) :
           /\ \A n \in r[1]..r[2] : rows[n].env = rows[r[1]].env
           /\ \/ rows[r[1]].life = rows[r[2]].life /\ rows[r[2]].at - rows[r[1]].at >= Stale
              \/ \E n \in r[1]..r[2] : BadChain(frame.t, n)
-----------------------------------------------------------------------------
(***************************************************************************)
CONSTANTS
    Second, PpsFrom, \* ticks of a second; when the first row of the PPS may be
    Unlocked,        \* when the receiver is no longer locked
    Far, Fence,      \* how many deviations, or quartile ranges, an outlier is away
    MaxPoints        \* of a sample

ReportAssumption == SwingAssumption /\ {Second, Unlocked, Far, Fence, MaxPoints} \subseteq Nat \ {0} /\ PpsFrom \subseteq Nat

VARIABLE report \* the columns of the canonical run, or None

rpvars == <<swvars, report>>

All == 1..Len(rows)

\* A number of sorted numbers at q quarters of the way, four times.
Quartile(s, q) == LET p == q * (Len(s) - 1) IN 4 * s[p \div 4 + 1] + (IF p % 4 = 0 THEN 0 ELSE (p % 4) * (s[p \div 4 + 2] - s[p \div 4 + 1]))
Sorted(S, f(_)) == \* the values of f on S
    LET order == SetToSortSeq(S, LAMBDA i, j : f(i) < f(j) \/ (f(i) = f(j) /\ i < j)) IN [n \in 1..Len(order) |-> f(order[n])]
-----------------------------------------------------------------------------
\* The recording of the PPS: a row every second, from some moment on and again after a restart.
Pulses(l, from) ==
    LET lasts == {rows[k].at : k \in {k \in All : rows[k].life = l}}
    IN  IF lasts = {} \/ from > Max(lasts) THEN <<>>
        ELSE [n \in 1..(Max(lasts) - from) \div Second + 1 |-> from + (n - 1) * Second]
StatusAt(at) == IF at < Unlocked THEN 2 ELSE 3

\* _add_swing_intervals(): the row of the PPS that is the last before the swing, on the axes the
\* two files get each on its own.
Aligned(pulses, times) ==
    LET keys == Unwrap([n \in 1..Len(pulses) |-> pulses[n] % Wrap])
    IN  [k \in All |-> LET before == {n \in 1..Len(pulses) : keys[n] <= times[k]}
                           Latest(n) == \A m \in before : keys[m] < keys[n] \/ (keys[m] = keys[n] /\ m <= n)
                       IN  IF before = {} THEN 0 ELSE StatusAt(pulses[CHOOSE n \in before : Latest(n)])]

\* load_csv() refuses a file with a field that is not a number.
Refused == \E k \in All : ~rows[k].ok

\* add_pps_calibration(): a counter that has changed, the first row's being compared with none.
Dropped(k) == IF k = 1 THEN rows[k].drop > 0 ELSE rows[k].drop # rows[k - 1].drop

\* analysis_mask(): calibrated and not dropped.
Analysis == {k \in All : k # frame.gone /\ ~Dropped(k)}

\* robust_outlier_mask(), of the periods.
Outliers(S) ==
    LET s      == Sorted(S, Full)
        median == Quartile(s, 2)
        Off(k) == Abs(4 * Full(k) - median)
        mad    == Quartile(Sorted(S, Off), 2)
        range  == Quartile(s, 3) - Quartile(s, 1)
    IN  IF Cardinality(S) < 4 THEN {}
        ELSE IF mad > 0 THEN {k \in S : 4 * Off(k) > Far * mad}
        ELSE IF range > 0 THEN {k \in S : 4 * Full(k) < Quartile(s, 1) - Fence * range \/ 4 * Full(k) > Quartile(s, 3) + Fence * range}
        ELSE {}

\* add_phase_index(), build_phase_fold_summary(): the number of the row as it was recorded.
PhaseOf(k) == rows[k].seq % Cycle

InPhase(p)  == {k \in All : PhaseOf(k) = p}
Fold(p, analysis, robust) ==
    [total |-> InPhase(p), dropped |-> {k \in InPhase(p) : Dropped(k)}, analysis |-> InPhase(p) \cap analysis,
     robust |-> InPhase(p) \cap robust, warning |-> InPhase(p) \cap analysis # {} /\ InPhase(p) \cap robust = {}]

\* _time_balanced_indices(): of each stretch of a group's time the row nearest to the middle of
\* those in it; rows of one time are stretched by their order.
Stretch(S, quota, axis, k) ==
    LET first == Min({axis[j] : j \in S}) last == Max({axis[j] : j \in S})
    IN  IF axis[k] = first THEN 0 ELSE ((axis[k] - first) * quota - 1) \div (last - first)
Middle(B, time) ==
    LET At(k)   == time[k]
        Away(k) == Abs(4 * time[k] - Quartile(Sorted(B, At), 2))
    IN  CHOOSE k \in B : \A j \in B \ {k} :
            Away(k) < Away(j) \/ (Away(k) = Away(j) /\ (time[k] < time[j] \/ (time[k] = time[j] /\ k < j)))
Balanced(S, quota, time) ==
    LET axis == IF Cardinality({time[k] : k \in S}) > 1 THEN time ELSE [k \in All |-> Cardinality({j \in S : j < k})]
    IN  IF Cardinality(S) <= quota THEN S
        ELSE {Middle({k \in S : Stretch(S, quota, axis, k) = b}, time) : b \in {Stretch(S, quota, axis, k) : k \in S}}

\* _sample_frame(): a share for each phase, and no more than MaxPoints.
Sample(time) ==
    LET phases == {PhaseOf(k) : k \in All}
        chosen == UNION {Balanced(InPhase(p), Max({1, MaxPoints \div Cardinality(phases)}), time) : p \in phases}
        order  == SetToSortSeq(chosen, LAMBDA j, k : time[j] < time[k] \/ (time[j] = time[k] /\ PhaseOf(j) < PhaseOf(k)))
    IN  IF Len(rows) <= MaxPoints THEN All
        ELSE {order[n] : n \in 1..Min({MaxPoints, Len(order)})}

Columns(pulses, time, outliers) ==
    [refused |-> FALSE, pulses |-> pulses, time |-> time, status |-> Aligned(pulses, time),
     analysis |-> Analysis, robust |-> Analysis \ outliers, sample |-> Sample(time)]

Report(from) ==
    /\ frame # None /\ report = None /\ UNCHANGED swvars
    /\ IF Refused THEN report' = [refused |-> TRUE]
       ELSE \E pulses \in {Pulses(1, from) \o Pulses(2, Second)}, time \in {Unwrap([k \in All |-> rows[k].edge])},
               outliers \in {Outliers(Analysis)} : report' = Columns(pulses, time, outliers)

ReportInit == Init /\ report = None
ReportNext == (Next /\ UNCHANGED report) \/ \E from \in PpsFrom : Report(from)
Spec == ReportInit /\ [][ReportNext]_rpvars
-----------------------------------------------------------------------------
Reported == report # None
Read     == Reported /\ ~report.refused
Folded(p) == Fold(p, report.analysis, report.robust)

OneLife == \A k \in All : rows[k].life = rows[1].life
NoWrap  == \A k \in 2..Len(rows) : rows[k].seq >= rows[k - 1].seq
NoGap   == \A k \in 2..Len(rows) : 2 * (rows[k].at - rows[k - 1].at) <= Wrap

\* The state a swing is given is the receiver's at its first edge, and its time is the true one,
\* as long as no gap is half the counter long, the firmware does not restart, and both files
\* begin on the same side of a wrap of the counter.
AlignmentIsTrue == Read /\ OneLife /\ NoGap =>
    /\ \A k \in All : report.time[k] - report.time[1] = rows[k].at - rows[1].at
    /\ report.pulses # <<>> /\ report.pulses[1] \div Wrap = rows[1].at \div Wrap =>
           \A k \in All : report.status[k] =
               IF report.pulses[1] > rows[k].at THEN 0
               ELSE StatusAt(Max({p \in {report.pulses[n] : n \in 1..Len(report.pulses)} : p <= rows[k].at}))

\* A row that is analysed is of one swing, whatever was ever lost before it, unless it is a
\* second copy; and one that is left out as dropped truly has swings missing in it or right
\* before it.
DropsAreLocal == Read => \A k \in All : LET known == k > 1 /\ rows[k].life = rows[k - 1].life IN
    /\ k \in report.analysis /\ (k = 1 \/ (known /\ rows[k].seq # rows[k - 1].seq)) => rows[k].covers = 1
    /\ k \notin report.analysis /\ k # frame.gone =>
           \/ rows[k].covers > 1
           \/ IF known THEN rows[k].swing # rows[k - 1].swing + rows[k - 1].covers ELSE k > 1 \/ rows[k].swing # 1

\* What depends on the place in the cycle alone is taken out entirely by the template of the
\* phases, over lost and damaged rows, as long as the firmware neither restarted nor swallowed
\* a swing and its numbers did not wrap: then the phases are others.
Template2(p) == LET Place(k) == rows[k].swing % Cycle IN Quartile(Sorted(Folded(p).analysis, Place), 2)
PatternIsRemoved == Read /\ OneLife /\ NoWrap /\ (\A k \in All : rows[k].drop = rows[1].drop) =>
    \A p \in 0..Cycle - 1 : \A k \in Folded(p).analysis : 4 * (rows[k].swing % Cycle) = Template2(p)

\* Outliers are the farthest ones of each side, and never the most of what is analysed; and a
\* sample is of every phase if there is room for one row of each, and never larger than agreed.
SummariesAreFair == Read =>
    LET out == report.analysis \ report.robust IN
    /\ 2 * Cardinality(out) <= Cardinality(report.analysis)
    /\ \A i, j \in report.analysis : i \in report.robust /\ j \in out /\ Full(i) # Full(j) =>
           \E k \in report.robust : (Full(k) < Full(j)) = (Full(i) < Full(j)) /\ Full(k) # Full(j)
    /\ Cardinality(report.sample) <= MaxPoints \/ report.sample = All
    /\ Cardinality({PhaseOf(k) : k \in All}) <= MaxPoints => {PhaseOf(k) : k \in report.sample} = {PhaseOf(k) : k \in All}
=============================================================================
