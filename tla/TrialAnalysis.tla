---------------------------- MODULE TrialAnalysis ----------------------------
(***************************************************************************)
(* The Synchronome trial (synchronome_trial/events.py, environment.py,     *)
(* phase.py) over the table of cycles: events are picked where a metric    *)
(* jumps or its level shifts, compared with windows before and after them, *)
(* and hourly means are split into earlier hours that train a model and    *)
(* later ones that test it.                                                *)
(*                                                                         *)
(* Times are in half cycles.  A cycle has the level of each metric, and    *)
(* whether its sensor readings are usable.                                 *)
(***************************************************************************)
EXTENDS Integers, Sequences, SequencesExt, FiniteSets, FiniteSetsExt

CONSTANTS
    Window,     \* 10 cycles
    Thresholds, \* metric -> threshold
    Levels,     \* what the metrics of a cycle can be
    Separation, \* event_separation_seconds
    MaxEvents,  \* max_events
    Hour,       \* 3600 s, also baseline_seconds
    Enough,     \* 60 cycles of an hour
    MinTrain, MinTest, \* 24 and 8 hours
    MaxCycles, MaxChanges \* bounds

TrialAssumption ==
    /\ {Window, Separation, MaxEvents, Hour, Enough, MinTrain, MinTest, MaxCycles, MaxChanges} \subseteq Nat
    /\ \A m \in DOMAIN Thresholds : Thresholds[m] > 0

VARIABLES
    cycles, \* rows of the table: epoch, cycle, start, available, environment, level
    next,   \* epoch, cycle and start of the cycle that comes next
    changes, \* bound
    scores  \* of the cycles that have one, once the table is complete

tvars == <<cycles, next, changes, scores>>

Init ==
    /\ cycles = <<>> /\ changes = 0 /\ scores = <<>>
    /\ next = [epoch |-> 0, cycle |-> 0, start |-> 0]

Change(n) == Len(cycles) < MaxCycles /\ changes + n <= MaxChanges /\ changes' = changes + n /\ UNCHANGED scores

\* The table keeps cycles that are not available; what was never recorded has no row.
Cycle(level, available, environment) ==
    /\ Change(Cardinality({c \in {<<"level", cycles # <<>> /\ Last(cycles).level # level>>, <<"cycle", ~available>>,
                                 <<"environment", available /\ ~environment>>} : c[2]}))
    /\ cycles' = Append(cycles, [epoch |-> next.epoch, cycle |-> next.cycle, start |-> next.start,
                                 available |-> available, environment |-> available /\ environment, level |-> level])
    /\ next' = [next EXCEPT !.cycle = @ + 1, !.start = @ + 2]

Gap == Change(1) /\ UNCHANGED cycles /\ next' = [next EXCEPT !.cycle = @ + 2, !.start = @ + 4]
Epoch == Change(1) /\ UNCHANGED cycles /\ next' = [next EXCEPT !.epoch = @ + 1, !.cycle = 0]
-----------------------------------------------------------------------------
(* Events *)

Abs(n) == IF n < 0 THEN -n ELSE n
Good == {i \in DOMAIN cycles : cycles[i].available}
Time(i) == cycles[i].start + 1

\* The series_run of a cycle: available cycles, one number after the other.
Joined(i) == i - 1 \in Good /\ i \in Good /\ cycles[i].epoch = cycles[i - 1].epoch /\ cycles[i].cycle = cycles[i - 1].cycle + 1
SameRun(i, j) == \A k \in i + 1..j : Joined(k)
RunOf(i) == {j \in Good : SameRun(j, i) /\ SameRun(i, j)}

\* Twice the median of a metric in a window.
Median2(m, w) ==
    LET sorted == SortSeq([k \in 1..Window |-> cycles[w[k]].level[m]], <)
    IN  sorted[(Window + 1) \div 2] + sorted[Window \div 2 + 1]

Scale == FoldFunction(LAMBDA t, n : t * n, 1, Thresholds)
InUnits(m, twice) == Abs(twice) * (Scale \div Thresholds[m])

Contrast(i, m) == Median2(m, [k \in 1..Window |-> i + k]) - Median2(m, [k \in 1..Window |-> i - k])
Step(i, m)     == cycles[i].level[m] - cycles[i - 1].level[m]
Jump(i)        == Max({InUnits(m, 2 * Step(i, m)) : m \in DOMAIN Thresholds})
Score(i)       == Max({Jump(i)} \cup {InUnits(m, Contrast(i, m)) : m \in DOMAIN Thresholds})

\* Only where the run has a whole window on both sides.
Scored == {i \in Good : {i - Window, i + Window} \subseteq RunOf(i) /\ Cardinality(RunOf(i)) >= 2 * Window + 2}
Unit == 2 * Scale

Peaks(score) ==
    {i \in DOMAIN score : score[i] >= Unit /\ \A j \in (i - Window..i + Window) \cap DOMAIN score : SameRun(i, j) /\ SameRun(j, i) => score[j] <= score[i]}

Better(score, i, j) ==
    \/ score[i] > score[j]
    \/ score[i] = score[j] /\ Jump(i) > Jump(j)
    \/ score[i] = score[j] /\ Jump(i) = Jump(j) /\ i < j

Near(i, j) == cycles[i].epoch = cycles[j].epoch /\ Abs(Time(i) - Time(j)) < Separation

\* select_events(): the best first, none near a better one.
Selected(score) ==
    FoldLeft(LAMBDA s, i : IF Cardinality(s) >= MaxEvents \/ \E j \in s : Near(i, j) THEN s ELSE s \cup {i},
             {}, SetToSortSeq(Peaks(score), LAMBDA i, j : Better(score, i, j)))

Analyse ==
    /\ Len(cycles) = MaxCycles /\ scores = <<>> /\ Scored # {}
    /\ scores' = [i \in Scored |-> Score(i)]
    /\ UNCHANGED <<cycles, next, changes>>

Next == (\E level \in Levels, a, e \in BOOLEAN : Cycle(level, a, e)) \/ Gap \/ Epoch \/ Analyse

Spec == Init /\ [][Next]_tvars
-----------------------------------------------------------------------------
(* Hours *)

HourOf(i) == Time(i) \div Hour
InEpoch(e) == {i \in Good : cycles[i].epoch = e}
CyclesOf(e, h) == {i \in InEpoch(e) : cycles[i].environment /\ HourOf(i) = h}
Hours(e) == {HourOf(i) : i \in {i \in InEpoch(e) : cycles[i].environment}}
Eligible(e) == {h \in Hours(e) : Cardinality(CyclesOf(e, h)) >= Enough}

\* The flags' reference is of the first hour; a temperature rate is between neighbouring hours.
Reference(e) == {i \in InEpoch(e) : Time(i) < Min({Time(j) : j \in InEpoch(e)}) + Hour}
Modelled(e)  == LET good == Eligible(e) IN {h \in good : h - 1 \in good}

\* models(): the first 70 % of the hours train, when they and the rest are enough.
Split(hours)    == (7 * Cardinality(hours)) \div 10
Fitted(hours)   == Split(hours) >= MinTrain /\ Cardinality(hours) - Split(hours) >= MinTest
Training(hours) == {h \in hours : Cardinality({k \in hours : k < h}) < Split(hours)}
-----------------------------------------------------------------------------
\* What is reported as an event is judged by whole windows of consecutive cycles; no two are
\* near each other; and what was passed over is no better than what was taken instead.
EventsAreSound ==
    LET score == scores
        events == Selected(scores)
    IN  /\ Cardinality(events) <= MaxEvents
        /\ \A i \in events : \A k \in i - Window..i + Window :
               /\ k \in Good /\ cycles[k].epoch = cycles[i].epoch
               /\ cycles[k].start - cycles[i].start = 2 * (k - i)
        /\ \A i, j \in events : i # j => ~Near(i, j)
        /\ \A i \in Peaks(score) \ events :
               \/ \E j \in events : Near(i, j) /\ Better(score, j, i)
               \/ Cardinality(events) = MaxEvents /\ \A j \in events : Better(score, j, i)

\* A clean step is reported at the cycle it happens, not somewhere on the plateau of the window
\* contrast around it (the comment in events.py).
StepIsLocated ==
    LET n == Len(cycles) IN
    scores # <<>> => \A s \in Window + 1..n - Window :
        /\ n >= 2 * Window + 2 /\ SameRun(1, n) /\ 1 \in Good
        /\ \A i \in 1..n : cycles[i].level = cycles[IF i < s THEN 1 ELSE n].level
        /\ \E m \in DOMAIN Thresholds : Abs(cycles[1].level[m] - cycles[n].level[m]) >= Thresholds[m]
        => Selected(scores) = {s}

\* A prediction is tested on later hours only: nothing the model or the flags' reference was
\* made from is later than an hour it is tested on (the comment in __main__.py).
PredictionsAreLater ==
    \A e \in 0..next.epoch :
        LET hours == Modelled(e)
            train == Training(hours)
        IN  Fitted(hours) =>
                \A i \in UNION {CyclesOf(e, h) : h \in hours \ train} :
                    \A j \in UNION {CyclesOf(e, h) : h \in train} \cup Reference(e) : Time(j) < Time(i)
=============================================================================
