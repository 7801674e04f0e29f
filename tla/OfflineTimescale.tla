-------------------------- MODULE OfflineTimescale --------------------------
(***************************************************************************)
(* The offline time scale (pps/timescale.py, pps/core.py).  Two files hold   *)
(* the timestamps of one counter of limited width: pulses of the GPS         *)
(* receiver, and swings, each with its first and its last edge.  Rows are    *)
(* missing or malformed, pulses stay away, extra edges come, and the         *)
(* firmware restarts.  The counts are unwrapped again, one file with the     *)
(* help of its sequence numbers only, and the swings are aligned with the    *)
(* pulses by the ranges of the counter they cover.                           *)
(*                                                                         *)
(* Shifts holds every number of wraps by which a swing can fit; the          *)
(* association's tolerance of gaps is wider than the one used here, and      *)
(* decides alike for the gaps that occur.                                    *)
(***************************************************************************)
EXTENDS Integers, Sequences, SequencesExt, FiniteSets, FiniteSetsExt

CONSTANTS
    None,
    Wrap,      \* U32
    Hz,        \* nominal_hz
    Jitters,   \* how far a second and a swing may be off, in ticks
    Half,      \* half the samples of window_seconds
    MinPoints, \* min_points
    Starts,    \* when the swings begin, in ticks
    MaxPulses, MaxSwings, MaxFaults \* bounds

TimescaleAssumption ==
    /\ {Wrap, Hz, Half, MinPoints, MaxPulses, MaxSwings, MaxFaults} \subseteq Nat /\ Starts \subseteq Nat
    /\ 0 < Hz /\ 2 * Hz < Wrap /\ MinPoints \in 3..2 * Half + 1 /\ Jitters \subseteq Int

VARIABLES
    pulses, \* PCPS.CSV: seq, raw; ok, locked; and the truth: life, at
    swings, \* PCSW.CSV: seq, raw of the last edge, span from the first; and the truth: life, at
    nextP, nextS, \* what comes next in each: seq, and the life and time of the last edge
    faults, \* bound
    line    \* the time line made of the two files, or None: ticks and segments

tsvars == <<pulses, swings, nextP, nextS, faults, line>>

Period == 2 * Hz \* of a swing

Init ==
    /\ pulses = <<>> /\ swings = <<>> /\ faults = 0 /\ line = None
    /\ nextP = [seq |-> 1, life |-> 1, at |-> 0]
    /\ nextS \in [seq : {1}, life : {1}, at : Starts]

Fault(n) == line = None /\ faults + n <= MaxFaults /\ faults' = faults + n
Sequel(next, d) == [next EXCEPT !.seq = @ + 1, !.at = @ + d]
-----------------------------------------------------------------------------
PulseRow(seq, at, good, lock) == [seq |-> seq, raw |-> at % Wrap, ok |-> good, locked |-> lock, life |-> nextP.life, at |-> at]

\* A second, well recorded or not.
Pulse(j, good, lock) ==
    /\ Len(pulses) < MaxPulses /\ Fault(IF good /\ lock THEN 0 ELSE 1)
    /\ nextP' = Sequel(nextP, Hz + j) /\ pulses' = Append(pulses, PulseRow(nextP.seq, nextP'.at, good, lock))
    /\ UNCHANGED <<swings, nextS, line>>

\* A second with an extra edge in the middle.
Extra ==
    /\ Len(pulses) + 1 < MaxPulses /\ Fault(1)
    /\ nextP' = [nextP EXCEPT !.seq = @ + 2, !.at = @ + Hz]
    /\ pulses' = pulses \o <<PulseRow(nextP.seq, nextP.at + Hz \div 2, TRUE, TRUE), PulseRow(nextP.seq + 1, nextP'.at, TRUE, TRUE)>>
    /\ UNCHANGED <<swings, nextS, line>>

\* Rows are lost; pulses stay away, for less than half the range of the counter.
LoseRows(n) == Fault(1) /\ nextP' = [nextP EXCEPT !.seq = @ + n, !.at = @ + n * Hz] /\ UNCHANGED <<pulses, swings, nextS, line>>
Outage(n)   == /\ Fault(1) /\ pulses # <<>> /\ nextP.at = Last(pulses).at /\ 2 * (n + 1) * Hz < Wrap
               /\ nextP' = [nextP EXCEPT !.at = @ + n * Hz] /\ UNCHANGED <<pulses, swings, nextS, line>>

Swing(j) ==
    /\ Fault(0) /\ Len(swings) < MaxSwings /\ nextS' = Sequel(nextS, Period + j)
    /\ swings' = Append(swings, [seq |-> nextS.seq, raw |-> nextS'.at % Wrap, span |-> Period + j, ok |-> TRUE,
                                 life |-> nextS.life, at |-> nextS'.at])
    /\ UNCHANGED <<pulses, nextP, line>>

LoseSwings(n) == Fault(1) /\ nextS' = [nextS EXCEPT !.seq = @ + n, !.at = @ + n * Period] /\ UNCHANGED <<pulses, swings, nextP, line>>

\* The firmware restarts, and with it the counter and the sequence numbers of both files.
Restart ==
    /\ Fault(1) /\ nextP.life = 1
    /\ nextP' = [seq |-> 1, life |-> 2, at |-> 0] /\ nextS' = [seq |-> 1, life |-> 2, at |-> Hz]
    /\ UNCHANGED <<pulses, swings, line>>

-----------------------------------------------------------------------------
Abs(n)   == IF n < 0 THEN -n ELSE n
Rint(a)  == (2 * a + Wrap) \div (2 * Wrap) \* rint(a / U32)
Mod(n)   == n % Wrap
Signed(n) == Mod(n + Wrap \div 2) - Wrap \div 2

\* _unwrap() and reconstruct_timeline(): an interval between two rows of a file; the sequence
\* numbers serve to tell how often the counter wrapped in a gap.
Steps(rows, k) == Mod(rows[k].seq - rows[k - 1].seq)
Pair(rows, k)  == k > 1 /\ rows[k].ok /\ rows[k - 1].ok
Gap(rows, k)   == Steps(rows, k) \in 2..(Wrap - 1) \div 2

\* Mutant: a gap in the rows lasts for less than a wrap.
DeltaWithin(rows, k, period) == Mod(rows[k].raw - rows[k - 1].raw)

Delta(rows, k, period) ==
    LET raw == Mod(rows[k].raw - rows[k - 1].raw)
    IN  IF Gap(rows, k) THEN raw + Wrap * Max({0, Rint(Steps(rows, k) * period - raw)}) ELSE raw

Ambiguous(rows, k, period) ==
    /\ Gap(rows, k) /\ 2 * Delta(rows, k, period) >= Wrap
    /\ 10 * Abs(Delta(rows, k, period) - Steps(rows, k) * period) > period

\* Where a new segment begins: nothing is measured across it.
Boundary(rows, k, period) ==
    \/ ~Pair(rows, k) \/ Steps(rows, k) = 0 \/ 2 * Steps(rows, k) >= Wrap \/ Ambiguous(rows, k, period)
    \/ Steps(rows, k) = 1 /\ (Delta(rows, k, period) = 0 \/ 2 * Delta(rows, k, period) >= Wrap)

Unwrapped(rows, period) ==
    LET ticks[k \in 1..Len(rows)] ==
            IF Boundary(rows, k, period) THEN rows[k].raw ELSE ticks[k - 1] + Delta(rows, k, period)
    IN  [ticks   |-> ticks,
         segment |-> [k \in 1..Len(rows) |-> Cardinality({j \in 1..k : Boundary(rows, j, period)})]]

\* The analysis begins when the files are complete.
Unwrap ==
    /\ line = None /\ line' = [pulses |-> Unwrapped(pulses, Hz), swings |-> Unwrapped(swings, Period)]
    /\ UNCHANGED <<pulses, swings, nextP, nextS, faults>>

Next ==
    \/ \E j \in Jitters, good, lock \in BOOLEAN : Pulse(j, good, lock)
    \/ Extra \/ (\E n \in 1..Wrap \div Hz : LoseRows(n) \/ Outage(n))
    \/ (\E j \in Jitters : Swing(j)) \/ (\E n \in 1..Wrap \div Period : LoseSwings(n)) \/ Restart \/ Unwrap

Spec == Init /\ [][Next]_tsvars
-----------------------------------------------------------------------------
\* analyze_frame(): the interval of two rows in succession, and the catalogue of events.
Measured(k) == k \in 2..Len(pulses) /\ ~Boundary(pulses, k, Hz) /\ Steps(pulses, k) = 1
Normal(k)   == Measured(k) /\ 20 * Abs(Delta(pulses, k, Hz) - Hz) <= Hz
Short(k)    == Measured(k) /\ 20 * Delta(pulses, k, Hz) < 19 * Hz
Split(k)    == Short(k) /\ Short(k + 1) /\ 100 * Abs(Delta(pulses, k, Hz) + Delta(pulses, k + 1, Hz) - Hz) < Hz

Events(k) ==
    {e \in {"malformed_record", "segment_boundary", "sequence_gap", "exceptional_interval", "possible_extra_capture", "gps_state_change"} :
        CASE e = "malformed_record"       -> ~pulses[k].ok
          [] e = "segment_boundary"       -> k > 1 /\ Boundary(pulses, k, Hz)
          [] e = "sequence_gap"           -> Pair(pulses, k) /\ pulses[k].seq - pulses[k - 1].seq > 1
          [] e = "exceptional_interval"   -> Measured(k) /\ ~Normal(k)
          [] e = "possible_extra_capture" -> Split(k)
          [] e = "gps_state_change"       -> k > 1 /\ pulses[k].locked # pulses[k - 1].locked}

\* build_timescale(): intervals that calibrate, and the runs of rows that are joined by them.
Eligible(k) == Normal(k) /\ pulses[k].locked /\ pulses[k - 1].locked

Runs == {r \in (1..Len(pulses)) \X (1..Len(pulses)) :
            /\ r[1] < r[2] /\ (\A k \in r[1] + 1..r[2] : Eligible(k))
            /\ ~Eligible(r[1]) /\ (r[2] < Len(pulses) => ~Eligible(r[2] + 1))}

\* _phase_fit(): a row has a frequency if enough rows of its run are near it.
Knots(r) == {k \in r[1]..r[2] : Min({r[2], k + Half}) - Max({r[1], k - Half}) + 1 >= MinPoints}
Support == {Knots(r) : r \in Runs} \ {{}}

\* calibrate_ticks(): the segments of the pulses, the swings of a segment, and for how many of
\* them a segment of the pulses has room when so many wraps are added.
Pulsed(g) == {k \in 1..Len(pulses) : pulses[k].ok /\ line.pulses.segment[k] = g}
Domains == {g \in 1..Len(pulses) : Pulsed(g) # {}}
Swung(l) == {k \in 1..Len(swings) : line.swings.segment[k] = l}
First(k) == line.swings.ticks[k] - swings[k].span

Room(l, g, shift) ==
    {k \in Swung(l) : /\ First(k) + shift * Wrap >= Min({line.pulses.ticks[p] : p \in Pulsed(g)})
                      /\ line.swings.ticks[k] + shift * Wrap <= Max({line.pulses.ticks[p] : p \in Pulsed(g)})}

Shifts == -4..4
Candidates(l) == {c \in Domains \X Shifts : Room(l, c[1], c[2]) # {}}

Best(l) == {c \in Candidates(l) : \A d \in Candidates(l) : Cardinality(Room(l, d[1], d[2])) <= Cardinality(Room(l, c[1], c[2]))}

\* Swings that a run covers, when one candidate has room for more than any other.
Calibrated(k) ==
    LET best == Best(line.swings.segment[k])
    IN  IF Cardinality(best) # 1 THEN {}
        ELSE LET c == CHOOSE c \in best : TRUE
             IN  {s \in Support : /\ s \subseteq Pulsed(c[1]) /\ Cardinality(s) >= 2
                                  /\ First(k) + c[2] * Wrap >= line.pulses.ticks[Min(s)]
                                  /\ line.swings.ticks[k] + c[2] * Wrap <= line.pulses.ticks[Max(s)]}

-----------------------------------------------------------------------------
\* add_swing_association(): if there is one segment of each, the files are taken to begin
\* within half a wrap of each other, and a pulse belongs to the last swing completed before it,
\* unless the next row is missing or the swing is too long ago.
Associable ==
    /\ Len(swings) >= 2 /\ Domains = {1} /\ \A k \in 1..Len(swings) : line.swings.segment[k] = 1
    /\ \A k \in 1..Len(pulses) : pulses[k].ok
Completed(k) == Signed(swings[1].raw - pulses[1].raw) + line.swings.ticks[k] - line.swings.ticks[1]
Elapsed(p)   == line.pulses.ticks[p] - line.pulses.ticks[1]

Associated(p) ==
    {k \in 1..Len(swings) - 1 :
        /\ Completed(k) <= Elapsed(p) /\ Elapsed(p) < Completed(k + 1) /\ Elapsed(p) <= Completed(Len(swings))
        /\ Steps(swings, k + 1) = 1 /\ 2 * (Elapsed(p) - Completed(k)) <= 3 * Period}
-----------------------------------------------------------------------------
Unbroken(rows, j, k) == \A i \in j..k : rows[i].life = rows[j].life
Apart(a, b) == b.at - a.at

\* Time is not made up.  Within a segment the unwrapped counts differ by the true time, over
\* any gap of rows and any wrap; a restart goes unnoticed only if the numbers go on upwards.
TicksAreTrue ==
    line # None => \A f \in {<<pulses, line.pulses>>, <<swings, line.swings>>} :
        \A j, k \in 1..Len(f[1]) :
            j < k /\ f[2].segment[j] = f[2].segment[k] =>
                IF Unbroken(f[1], j, k) THEN f[2].ticks[k] - f[2].ticks[j] = Apart(f[1][j], f[1][k])
                ELSE \A i \in j + 1..k : f[1][i].seq > f[1][i - 1].seq

\* Nothing is concealed: two neighbouring rows without an event stand for one true second, and
\* an edge between two rows is reported as an extra one just if it halves a true second.
EventsAreTrue == line # None => \A k \in 2..Len(pulses) :
    /\ Events(k) = {} /\ pulses[k - 1].ok /\ Unbroken(pulses, k - 1, k) => 20 * Abs(Apart(pulses[k - 1], pulses[k]) - Hz) <= Hz
    /\ k < Len(pulses) /\ Unbroken(pulses, k - 1, k + 1) /\ (\A i \in k - 1..k + 1 : pulses[i].ok) =>
          ("possible_extra_capture" \in Events(k) <=> /\ pulses[k + 1].seq = pulses[k - 1].seq + 2
                                                     /\ Apart(pulses[k - 1], pulses[k + 1]) = Hz)

Inside(l, g) ==
    \A k \in Swung(l) : \E a, b \in Pulsed(g) :
        /\ pulses[a].life = swings[k].life /\ pulses[b].life = swings[k].life
        /\ pulses[a].at <= swings[k].at - swings[k].span /\ swings[k].at <= pulses[b].at

\* A swing is measured by seconds that were there.  If the swings of a segment fell within a
\* segment of the pulses, one that is calibrated lies among the very pulses that calibrate it,
\* whatever wraps and restarts make other places fit; and every interval that calibrates is a
\* second (timescale.py, "indistinguishable ... are rejected instead of guessed").
CalibrationIsTrue == line # None =>
    /\ \A k \in 1..Len(swings) : (\E g \in Domains : Inside(line.swings.segment[k], g)) =>
           \A s \in Calibrated(k) : /\ pulses[Min(s)].life = swings[k].life
                                    /\ pulses[Min(s)].at <= swings[k].at - swings[k].span
                                    /\ swings[k].at <= pulses[Max(s)].at
    /\ \A k \in 2..Len(pulses) : Eligible(k) /\ Unbroken(pulses, k - 1, k) =>
           20 * Abs(Apart(pulses[k - 1], pulses[k]) - Hz) <= Hz

\* A pulse is associated with the swing that was truly the last before it, not with one before
\* a row that is missing, if the files begin within half a wrap of each other (core.py:332).
AssociationIsTrue ==
    line # None /\ Associable /\ Unbroken(swings, 1, Len(swings)) /\ Unbroken(pulses, 1, Len(pulses))
    /\ 2 * Abs(Apart(pulses[1], swings[1])) < Wrap /\ swings[1].life = pulses[1].life =>
        \A p \in 1..Len(pulses) : \A k \in Associated(p) :
            swings[k].at <= pulses[p].at /\ pulses[p].at < swings[k + 1].at /\ swings[k + 1].seq = swings[k].seq + 1
=============================================================================
