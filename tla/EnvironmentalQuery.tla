------------------------ MODULE EnvironmentalQuery ------------------------
(***************************************************************************)
(* Averages for the environmental comparison (environmental.py): one scan   *)
(* of the stored observations in time order, which keeps for every segment   *)
(* the readings of the last WINDOW seconds with running totals, and scores    *)
(* an observation only when that window is whole.  Segments may interleave    *)
(* and share a time; idle windows are released at the scan's pauses.          *)
(***************************************************************************)
EXTENDS Integers, Sequences, SequencesExt, FiniteSets, FiniteSetsExt, Functions

CONSTANTS
    SegmentKeys, \* (session, segment) pairs in the range
    Readings,    \* readings of a sensor (numbers)
    None,        \* no reading, or an observation with a gap reason
    Window,      \* WINDOW: 600 s
    Tolerance,   \* COVERAGE_TOLERANCE: 30 s
    Steps,       \* seconds from one observation to the next
    MaxRows      \* bound: observations in the range

EnvironmentAssumption ==
    /\ Readings \subseteq Nat /\ None \notin Readings /\ Steps \subseteq Nat
    /\ Window \in Nat /\ Tolerance \in 0..Window /\ MaxRows \in Nat

VARIABLES
    windows, \* segment: rows (its deque), total, invalid, sparse, last (time, or None)
    now,     \* time of the row before
    peers,   \* segments with a row at this time (the rest of the eligibility test is left out)
    scored,  \* what _collect scored last: segment, time, total and count
    read     \* history: the rows read, as (seg, time, value)

envvars == <<windows, now, peers, scored, read>>

EmptyWindow == [rows |-> <<>>, total |-> 0, invalid |-> 0, sparse |-> 0, last |-> None]
Number(v) == IF v = None THEN 0 ELSE v
One(cond) == IF cond THEN 1 ELSE 0
SumOver(rows, f(_)) == MapThenFoldSet(+, 0, LAMBDA i : f(rows[i]), LAMBDA s : CHOOSE i \in s : TRUE, DOMAIN rows)

-----------------------------------------------------------------------------
\* _TrailingEnvironment.add(): what is older than the window leaves, the row enters.
Added(w, time, value) ==
    LET left   == SelectSeq(w.rows, LAMBDA r : r.time >= time - Window)
        gone   == SelectSeq(w.rows, LAMBDA r : r.time < time - Window)
        sparse == One(w.last # None /\ time - w.last > Tolerance)
    IN  [rows    |-> Append(left, [time |-> time, value |-> Number(value), bad |-> One(value = None), sparse |-> sparse]),
         total   |-> w.total - SumOver(gone, LAMBDA r : r.value) + Number(value),
         invalid |-> w.invalid - SumOver(gone, LAMBDA r : r.bad) + One(value = None),
         sparse  |-> w.sparse - SumOver(gone, LAMBDA r : r.sparse) + sparse,
         last    |-> time]

\* ready()
Ready(w, time) ==
    /\ w.rows # <<>> /\ time - Head(w.rows).time >= Window - Tolerance
    /\ w.invalid = 0 /\ w.sparse = 0

\* _collect(): the segments with a row at this time that are ready.
Collected ==
    {[seg |-> k, time |-> now, total |-> windows[k].total, count |-> Len(windows[k].rows)] :
        k \in {p \in peers : Ready(windows[p], now)}}

\* One row of the scan; rows of an earlier time are scored first.
Read(k, step, value) ==
    /\ Len(read) < MaxRows
    /\ scored' = IF step > 0 THEN Collected ELSE {}
    /\ now' = now + step
    /\ windows' = [windows EXCEPT ![k] = Added(@, now + step, value)]
    /\ peers' = (IF step > 0 THEN {} ELSE peers) \cup {k}
    /\ read' = Append(read, [seg |-> k, time |-> now + step, value |-> value])

\* A pause of the scan: windows that no later row can belong to are emptied, but remember
\* when their segment was last seen.
Release ==
    /\ windows' = [k \in SegmentKeys |->
            IF windows[k].rows # <<>> /\ windows[k].last < now - Window
            THEN [EmptyWindow EXCEPT !.last = windows[k].last] ELSE windows[k]]
    /\ windows' # windows
    /\ scored' = {} /\ UNCHANGED <<now, peers, read>>

Init ==
    /\ windows = [k \in SegmentKeys |-> EmptyWindow] /\ now = 0
    /\ peers = {} /\ scored = {} /\ read = <<>>

Next ==
    \/ \E k \in SegmentKeys, step \in Steps, value \in Readings \cup {None} : Read(k, step, value)
    \/ Release

Spec == Init /\ [][Next]_envvars

-----------------------------------------------------------------------------
RowsOf(k, from, to) == SelectSeq(read, LAMBDA r : r.seg = k /\ from <= r.time /\ r.time <= to)

\* An average is only ever taken over a whole window: from no later than the tolerance after
\* its start to its end no reading is missing and no two readings are further apart than
\* the tolerance, and it is the average of exactly the readings of that window.
AveragesAreWhole ==
    \A s \in scored :
        LET rows == RowsOf(s.seg, s.time - Window, s.time)
        IN  /\ rows # <<>> /\ Head(rows).time <= s.time - Window + Tolerance
            /\ \A i \in DOMAIN rows :
                   rows[i].value # None /\ (i > 1 => rows[i].time - rows[i - 1].time <= Tolerance)
            /\ s.count = Len(rows) /\ s.total = SumOver(rows, LAMBDA r : r.value)
=============================================================================
