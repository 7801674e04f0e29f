---------------------------- MODULE SuiteTimeline ---------------------------
(***************************************************************************)
(* timeline() of the suite (suite/common.py): the rows of one file, each     *)
(* with a sequence number and the time of an edge, both of limited width,    *)
(* are put on one axis as far as there is evidence for it, and an epoch      *)
(* ends where there is none.                                                 *)
(*                                                                         *)
(* A row is a record with fields seq (None when unreadable), edge, and ok:   *)
(* whether every required field is readable.                                 *)
(***************************************************************************)
EXTENDS Integers, Sequences, SequencesExt, FiniteSets, FiniteSetsExt

CONSTANTS
    None,
    Wrap,   \* U32, of the times
    SeqWrap, \* U32, of the numbers
    Recent  \* how near the wrap a number is taken to be before or after it

SuiteAssumption == /\ {Wrap, SeqWrap, Recent} \subseteq Nat /\ 0 < Wrap /\ 2 * Recent < SeqWrap

Abs(n) == IF n < 0 THEN -n ELSE n
Rint(a) == (2 * a + Wrap) \div (2 * Wrap) \* rint(a / U32)
Known(rows, k) == k > 1 /\ rows[k].seq # None /\ rows[k - 1].seq # None

\* The number has passed its end, or has begun again.
Wraps(rows, k) ==
    Known(rows, k) /\ rows[k].seq < rows[k - 1].seq /\ rows[k - 1].seq > SeqWrap - Recent /\ rows[k].seq < Recent
Resets(rows, k) == Known(rows, k) /\ rows[k].seq < rows[k - 1].seq /\ ~Wraps(rows, k)

Step(rows, k) ==
    IF ~Known(rows, k) THEN None ELSE rows[k].seq - rows[k - 1].seq + (IF Wraps(rows, k) THEN SeqWrap ELSE 0)

Pair(rows, k) == k > 1 /\ rows[k].ok /\ rows[k - 1].ok

\* The time between two readable rows; over missing ones, with as many wraps as they suggest.
Between(rows, k, expected) ==
    LET dt == (rows[k].edge - rows[k - 1].edge) % Wrap
    IN  IF Step(rows, k) > 1 THEN dt + Wrap * Max({0, Rint(Step(rows, k) * expected - dt)}) ELSE dt

Ambiguous(rows, k, expected) ==
    /\ Pair(rows, k)
    /\ LET dt == Between(rows, k, expected)
       IN  \/ Step(rows, k) > 1 /\ 10 * Abs(dt - Step(rows, k) * expected) > expected
           \/ Step(rows, k) = 1 /\ (dt = 0 \/ 2 * dt > Wrap)

Boundary(rows, k, expected) == ~Pair(rows, k) \/ Step(rows, k) <= 0 \/ Ambiguous(rows, k, expected)

\* The columns of a row, next to those of the row before it.  sequence_extended adds the wraps
\* since the last reset to the number.
Column(rows, k, expected, before) ==
    LET cut   == Boundary(rows, k, expected)
        wraps == IF Resets(rows, k) THEN 0 ELSE IF Wraps(rows, k) THEN before.wraps + 1 ELSE before.wraps
    IN  [step      |-> Step(rows, k), boundary |-> cut, ambiguous |-> Ambiguous(rows, k, expected),
         epoch     |-> IF cut THEN before.epoch + 1 ELSE before.epoch,
         elapsed   |-> IF cut THEN before.elapsed ELSE before.elapsed + Between(rows, k, expected),
         wraps     |-> wraps, extended |-> IF rows[k].seq = None THEN None ELSE rows[k].seq + SeqWrap * wraps]

Timeline(rows, expected) ==
    FoldLeft(LAMBDA t, k : Append(t, Column(rows, k, expected, IF k = 1 THEN [epoch |-> 0, elapsed |-> 0, wraps |-> 0] ELSE t[k - 1])),
             <<>>, [k \in 1..Len(rows) |-> k])
-----------------------------------------------------------------------------
\* unwrap_u32() of the canonical run (timeline.py): whatever goes back by more than half the
\* range has wrapped.
Unwrap(edges) ==
    FoldLeft(LAMBDA t, n : Append(t, IF n = 1 THEN edges[1]
                                     ELSE LET d == edges[n] - edges[n - 1] IN t[n - 1] + d + (IF 2 * d < -Wrap THEN Wrap ELSE 0)),
             <<>>, [n \in 1..Len(edges) |-> n])
=============================================================================
