------------------------- MODULE CaptureAccounting -------------------------
(***************************************************************************)
(* How captures are counted on the way from the firmware to the minute      *)
(* summaries (service.py, protocol.py, recording.py, summaries.py).  Rows of *)
(* one stream carry a number of limited width; on the wire they are lost,    *)
(* sent twice or damaged, and the firmware may restart.  The receiver tells  *)
(* losses, duplicates and restarts apart by the numbers alone; the recorder  *)
(* counts what it wrote into bins of a minute, while segments end, fail and  *)
(* begin.                                                                    *)
(***************************************************************************)
EXTENDS Naturals, Sequences, SequencesExt

CONSTANTS
    None,
    Width,  \* UINT32 + 1: numbers are modulo Width, and a step of half of it is backward
    Minute, \* 60000 ms
    Joins,  \* rows the firmware may have sent when the receiver joins
    MaxRows, MaxTime, MaxFaults, MaxBacklog \* bounds

AccountingAssumption ==
    /\ Width \in Nat \ {0} /\ Minute \in Nat \ {0} /\ Joins \subseteq Nat /\ {MaxRows, MaxTime, MaxFaults, MaxBacklog} \subseteq Nat
    /\ None \notin Nat

VARIABLES
    now,
    nano,   \* the firmware: life, rows sent in it, rows it may still send
    lost,   \* rows lost in a row; bound
    queue,  \* Reader.events: rows with their time of receipt, metadata, damaged lines
    pi,     \* Acquisition: ready, prev (previous_seq), missing
    log,    \* history: the rows accepted in this session
    rec,    \* Recorder: on, prev and fragment of its MinuteSummaries, the open bin
    out,    \* the summary rows written since that MinuteSummaries was new: counts
    kept,   \* history: the rows recorded since then
    faults  \* bound

accvars == <<now, nano, lost, queue, pi, log, rec, out, kept, faults>>

Silent == [ready |-> FALSE, prev |-> None, missing |-> 0]
Anew   == [on |-> TRUE, prev |-> None, fragment |-> 0, bin |-> None]

Init ==
    /\ now = 0 /\ nano \in [life : {1}, n : Joins, left : {MaxRows}] /\ lost = 0 /\ queue = <<>> /\ pi = Silent /\ log = <<>>
    /\ rec = Anew /\ out = <<>> /\ kept = <<>> /\ faults = 0

Seq0(row) == row.n % Width
receiver == <<pi, log, rec, out, kept>>
-----------------------------------------------------------------------------
Tick == now < MaxTime /\ now' = now + 1 /\ UNCHANGED <<nano, lost, queue, receiver, faults>>

Row == [what |-> "row", life |-> nano.life, n |-> nano.n + 1, at |-> now]

\* A row is sent; it arrives, is lost, arrives twice, or is damaged; or it is cut short, ended
\* by a newline, and sent again (SerialParser.cpp).
Send(how) ==
    /\ nano.left > 0 /\ Len(queue) + 1 < MaxBacklog
    /\ nano' = [nano EXCEPT !.n = @ + 1, !.left = @ - 1]
    /\ faults' = IF how = "arrives" THEN faults ELSE faults + 1
    /\ faults' <= MaxFaults
    /\ lost' = IF how \in {"lost", "damaged"} THEN lost + 1 ELSE 0
    /\ lost' < Width \div 2 - 1
    /\ queue' = queue \o CASE how = "arrives" -> <<Row>>
                           [] how = "lost"    -> <<>>
                           [] how = "twice"   -> <<Row, Row>>
                           [] how = "damaged" -> <<[Row EXCEPT !.what = "damaged"]>>
                           [] how = "cut"     -> <<[Row EXCEPT !.what = "damaged"], Row>>
    /\ UNCHANGED <<now, receiver>>

\* The contract: sent by a firmware that starts, and when the receiver asks for it.
Metadata == [what |-> "metadata", at |-> now]

Restart ==
    /\ faults < MaxFaults /\ faults' = faults + 1 /\ Len(queue) < MaxBacklog
    /\ nano' = [nano EXCEPT !.life = @ + 1, !.n = 0] /\ lost' = 0 /\ queue' = Append(queue, Metadata)
    /\ UNCHANGED <<now, receiver>>

Describe ==
    /\ ~pi.ready /\ Len(queue) < MaxBacklog /\ queue' = Append(queue, Metadata)
    /\ UNCHANGED <<now, nano, lost, receiver, faults>>

-----------------------------------------------------------------------------
\* sequence_step()
Step(previous, current) ==
    LET step == (current + Width - previous) % Width
    IN  IF previous = None THEN [kind |-> "join", missing |-> 0]
        ELSE CASE step = 0               -> [kind |-> "duplicate", missing |-> 0]
               [] 2 * step >= Width      -> [kind |-> "restart", missing |-> 0]
               [] OTHER                  -> [kind |-> "next", missing |-> step - 1]

\* MinuteSummaries._row(): partial says that captures of the minute may be elsewhere.
Written(bin, partial) ==
    [start |-> bin.start, rows |-> bin.rows, missing |-> bin.missing, partial |-> partial \/ bin.start < rec.fragment]

\* flush(): what is open ends with the segment.
Flushed == IF rec.bin = None THEN out ELSE Append(out, Written(rec.bin, now < rec.bin.start + Minute))
\* Mutant: bins are written and not removed.
ClosedTwice == [rec EXCEPT !.on = FALSE, !.fragment = now]
Closed == [rec EXCEPT !.on = FALSE, !.bin = None, !.fragment = now]

\* observe(): the bin of the capture's minute, after the row of an earlier one.
Bin(row) == (row.at \div Minute) * Minute
Crosses(row) == rec.bin # None /\ rec.bin.start # Bin(row)

Observed(row) ==
    LET bin == IF rec.bin = None \/ Crosses(row) THEN [start |-> Bin(row), rows |-> 0, missing |-> 0] ELSE rec.bin
    IN  /\ out' = IF Crosses(row) THEN Append(out, Written(rec.bin, FALSE)) ELSE out
        /\ rec' = [rec EXCEPT !.prev = Seq0(row),
                              !.bin = [bin EXCEPT !.rows = @ + 1, !.missing = @ + Step(rec.prev, Seq0(row)).missing]]
        /\ kept' = Append(kept, row)

\* recover(): the next session; its recorder starts a MinuteSummaries of its own.
Recover == pi' = Silent /\ log' = <<>> /\ rec' = [Anew EXCEPT !.on = rec.on] /\ out' = <<>> /\ kept' = <<>>

Capture(row) ==
    LET step == Step(pi.prev, Seq0(row))
    IN  CASE step.kind = "duplicate" -> UNCHANGED receiver
          [] step.kind = "restart"   -> Recover
          [] OTHER -> /\ pi' = [pi EXCEPT !.prev = Seq0(row), !.missing = @ + step.missing]
                      /\ log' = Append(log, row)
                      /\ IF rec.on THEN Observed(row) ELSE UNCHANGED <<rec, out, kept>>

\* process(): a damaged line counts as malformed; one whose tag is damaged ends the session.
Process ==
    /\ queue # <<>> /\ queue' = Tail(queue)
    /\ LET e == Head(queue)
       IN  CASE e.what = "metadata"           -> pi' = [pi EXCEPT !.ready = TRUE] /\ UNCHANGED <<log, rec, out, kept>>
             [] e.what = "damaged"            -> UNCHANGED receiver \/ Recover
             [] e.what = "row" /\ pi.ready    -> Capture(e)
             [] OTHER                         -> UNCHANGED receiver
    /\ UNCHANGED <<now, nano, lost, faults>>

-----------------------------------------------------------------------------
\* Recorder.close(): rotation, or logging disabled; then a new segment.
Close ==
    /\ rec.on /\ out' = Flushed /\ rec' \in {Closed, [Closed EXCEPT !.on = TRUE]}
    /\ UNCHANGED <<now, nano, lost, queue, pi, log, kept, faults>>

Open == ~rec.on /\ rec' = [rec EXCEPT !.on = TRUE] /\ UNCHANGED <<now, nano, lost, queue, pi, log, out, kept, faults>>

\* Recorder._fail(): the segment is abandoned, and the summaries begin anew.
Fail ==
    /\ rec.on /\ faults < MaxFaults /\ faults' = faults + 1
    /\ rec' = [Anew EXCEPT !.on = FALSE] /\ out' = <<>> /\ kept' = <<>>
    /\ UNCHANGED <<now, nano, lost, queue, pi, log>>

Next ==
    \/ Tick \/ (\E how \in {"arrives", "lost", "twice", "damaged", "cut"} : Send(how)) \/ Restart \/ Describe
    \/ Process \/ Close \/ Open \/ Fail

Spec == Init /\ [][Next]_accvars
-----------------------------------------------------------------------------
OneLife(rows) == rows # <<>> /\ rows[1].life = Last(rows).life
Span(rows)    == Last(rows).n - rows[1].n + 1

\* While the firmware runs on, the rows accepted and the rows reported missing are all it sent
\* between the first and the last, over any wrap of the numbers; and a restart goes unnoticed
\* only if so many of its rows were lost that the numbers never went back (service.py:157).
MissingIsExact ==
    /\ OneLife(log) => Len(log) + pi.missing = Span(log)
    /\ \A k \in 1..Len(log) - 1 : log[k].life # log[k + 1].life =>
           Step(Seq0(log[k]), Seq0(log[k + 1])).kind = "next"

Bins == IF rec.bin = None THEN out ELSE Append(out, Written(rec.bin, TRUE))
Count(bins, of(_)) == FoldLeft(LAMBDA n, b : n + of(b), 0, bins)

\* Every recorded capture is counted in one row of the summaries, and the rows' missing
\* numbers add up over minutes, segments and pauses (summaries.py:60).
BinsAddUp ==
    /\ Count(Bins, LAMBDA b : b.rows) = Len(kept)
    /\ OneLife(kept) => Len(kept) + Count(Bins, LAMBDA b : b.missing) = Span(kept)
=============================================================================
