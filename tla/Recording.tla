---------------------------- MODULE Recording ----------------------------
(***************************************************************************)
(* The Pi's durable journal and its replay.                                *)
(*                                                                         *)
(* The acquisition service appends every accepted capture to the streams  *)
(* of one segment, raw line first, then its CSV row, then the analysis     *)
(* input (recording.py, service.py).  A manifest publishes how much of     *)
(* each stream is durable.  A second process replays the published analysis*)
(* inputs in one database transaction per step, with its cursor            *)
(* (analysis.py).  Writes, fsyncs and manifests fail, processes are killed *)
(* and the power goes.                                                     *)
(*                                                                         *)
(* A row is the number of its capture at the Nano.  Times are left to      *)
(* chance: a periodic duty may be due in any state.                        *)
(***************************************************************************)
EXTENDS Integers, Sequences, FiniteSets, SequencesExt

CONSTANTS
    MaxCaptures,  \* captures the Nano sends
    MaxSessions,  \* sessions; their names need not follow their creation
    MaxSegments,  \* segment numbers in one session
    MaxFaults,    \* failures, kills and operator switches
    Batch         \* step(max_records)

RecordingAssumption ==
    /\ MaxCaptures \in Nat /\ MaxFaults \in Nat
    /\ MaxSessions \in Nat \ {0} /\ MaxSegments \in Nat \ {0}
    /\ Batch \in Nat \ {0}

VARIABLES
    captured, \* captures the Nano has sent
    journal,  \* the data directory: segments (those with a manifest), last_session.json
    recorder, \* the acquisition process: Recorder, its counters and settings
    faults,   \* faults so far
    db,       \* the replay database: offsets, history rows, saved model state
    paths,    \* Analysis.paths, as of the last scan
    txn       \* the open transaction of a step, or Idle

recVars == <<captured, journal, recorder>>
anaVars == <<db, paths, txn>>
vars == <<captured, journal, recorder, faults, db, paths, txn>>

Streams == {"raw", "csv", "input"}
None == 0     \* no session
Idle == [on |-> FALSE]

Stopped == [up |-> FALSE]
Empty == [f \in Streams |-> <<>>]
Nothing == [f \in Streams |-> 0]

-----------------------------------------------------------------------------
(* Recorder, as operators on st = [j |-> journal, r |-> recorder].          *)

Here(st) == <<st.r.session, st.r.segment>>
Lengths(st) == [f \in Streams |-> Len(st.j.segments[Here(st)].rows[f])]

Active(st) == st.r.open /\ st.r.logging

\* The streams are closed where they stand; nothing is published.
Fail(st) == [st EXCEPT !.r.open = FALSE]

\* Mutant: only the raw stream is flushed.
FsyncedRaw(st) == [st EXCEPT !.j.segments[Here(st)].durable["raw"] = Lengths(st)["raw"]]

Fsynced(st) == [st EXCEPT !.j.segments[Here(st)].durable = Lengths(st)]

Published(st, closed) ==
    [st EXCEPT !.j.segments[Here(st)].committed = st.r.committed,
               !.j.segments[Here(st)].closed = closed]

Committing(st) == [st EXCEPT !.r.committed = Lengths(st)]

\* sync(): every stream, then the frontier in memory, then the manifest.  Its
\* replacement may have happened although making it durable failed.
Synced(st, outcome) ==
    CASE outcome = "ok"        -> Published(Committing(Fsynced(st)), FALSE)
      [] outcome = "fsync"     -> Fail(st)
      [] outcome = "manifest"  -> Fail(Fsynced(st))
      [] outcome = "directory" -> Fail(Published(Committing(Fsynced(st)), FALSE))

Closed(st, outcome) ==
    IF ~st.r.open THEN st
    ELSE CASE outcome = "ok"       -> Fail(Published(Committing(Fsynced(st)), TRUE))
           [] outcome = "fsync"    -> Fail(st)
           [] outcome = "manifest" -> Fail(Fsynced(st))

WithSegment(segments, p, g) == [q \in DOMAIN segments \cup {p} |-> IF q = p THEN g ELSE segments[q]]

\* _open(): "space" fails before a number is taken, "files" before the manifest
\* makes the segment visible, "marker" while last_session.json is written.
Opened(st, outcome) ==
    LET n    == st.r.segment + 1
        numbered == [st EXCEPT !.r.segment = n, !.r.committed = Nothing]
        segment == [rows |-> Empty, durable |-> Nothing, committed |-> Nothing,
                    closed |-> FALSE, gone |-> FALSE, previous |-> st.r.previous]
        visible == [numbered EXCEPT !.j.segments = WithSegment(@, <<st.r.session, n>>, segment)]
    IN  CASE outcome = "ok"     -> [visible EXCEPT !.r.open = TRUE, !.j.last = st.r.session]
          [] outcome = "space"  -> st
          [] outcome = "files"  -> numbered
          [] outcome = "marker" -> visible

Started(st, name, closing, opening) ==
    LET closed == Closed(st, closing)
        fresh  == [closed EXCEPT !.r.session = name, !.r.segment = 0,
                                 !.r.previous = closed.j.last]
    IN  IF st.r.logging THEN Opened(fresh, opening) ELSE fresh

Row(st, f, x) == [st EXCEPT !.j.segments[Here(st)].rows[f] = Append(@, x)]

\* One write(): refused when not active; a limit closes the segment in order, an
\* error abandons it.
Write(st, f, x, outcome) ==
    IF ~Active(st) THEN st
    ELSE CASE outcome = "ok"    -> Row(st, f, x)
           [] outcome = "error" -> Fail(st)
           [] outcome = "limit" -> Closed(st, "ok")

Count(st, counter) == [st EXCEPT !.r[counter] = @ + 1]

-----------------------------------------------------------------------------
(* The acquisition service.                                                 *)

Fresh == [up |-> TRUE, logging |-> TRUE, open |-> FALSE, session |-> None, segment |-> 0,
          previous |-> None, committed |-> Nothing, storage_lost |-> 0, input_lost |-> 0]

Now == [j |-> journal, r |-> recorder]
Becomes(st) == journal' = st.j /\ recorder' = st.r
Charge(n) == faults + n <= MaxFaults /\ faults' = faults + n
Cost(outcome) == IF outcome = "ok" THEN 0 ELSE 1

UsedNames == {p[1] : p \in DOMAIN journal.segments} \cup (IF recorder.up THEN {recorder.session} ELSE {})
UnusedNames == (1..MaxSessions) \ UsedNames

OpenOutcomes == {"ok", "space", "files", "marker"}
CloseOutcomes == {"ok", "fsync", "manifest"}

\* run(): a new process, a new session.
ServiceStart(name, opening) ==
    /\ ~recorder.up
    /\ Becomes(Started([j |-> journal, r |-> Fresh], name, "ok", opening))
    /\ Charge(Cost(opening))
    /\ UNCHANGED captured

\* recover(reason): reconnection, contract change, restart of the Nano, queue overflow.
Recover(name, closing, opening) ==
    /\ recorder.up
    /\ Becomes(Started(Now, name, closing, opening))
    /\ Charge(1)
    /\ UNCHANGED captured

\* process() of a capture line: raw, capture() and its summary rows, then the input
\* with the loss counters as they are by then.  failing names the write that fails.
Received(st, id, failing, outcome) ==
    LET Of(f)  == IF f = failing THEN outcome ELSE "ok"
        raw    == Write(st, "raw", id, Of("raw"))
        row    == Write(raw, "csv", id, Of("csv"))
        stored == IF failing = "summary" /\ Active(row) THEN Fail(row) ELSE row
        kept   == Active(raw) /\ Of("csv") = "ok"
        told   == IF kept \/ ~st.r.logging THEN stored ELSE Count(stored, "storage_lost")
        input  == [id |-> id, session |-> st.r.session,
                   loss |-> <<told.r.storage_lost, told.r.input_lost>>]
        done   == Write(told, "input", input, Of("input"))
    IN  IF Active(told) /\ Of("input") = "ok" THEN done ELSE Count(done, "input_lost")

Receive(failing, outcome) ==
    /\ recorder.up
    /\ captured < MaxCaptures
    /\ captured' = captured + 1
    /\ Becomes(Received(Now, captured', failing, outcome))
    /\ Charge(Cost(outcome))

\* A row the Nano sent and the Pi never saw.
Missed ==
    /\ captured < MaxCaptures
    /\ captured' = captured + 1
    /\ Charge(1)
    /\ UNCHANGED <<journal, recorder>>

\* tick() with the segment open: sync, space limit, rotation.
Sync(outcome) ==
    /\ recorder.up /\ Active(Now)
    /\ Becomes(Synced(Now, outcome))
    /\ Charge(Cost(outcome))
    /\ UNCHANGED captured

SpaceLimit ==
    /\ recorder.up /\ Active(Now)
    /\ Becomes(Closed(Now, "ok"))
    /\ Charge(1)
    /\ UNCHANGED captured

Rotate(closing, opening) ==
    /\ recorder.up /\ Active(Now)
    /\ recorder.segment < MaxSegments
    /\ Lengths(Now) # Nothing
    /\ LET closed == Closed(Now, closing)
       IN  Becomes(IF closing = "ok" THEN Opened(closed, opening) ELSE closed)
    /\ Charge(Cost(closing) + Cost(opening))
    /\ UNCHANGED captured

\* tick() without a segment, five seconds after the last attempt.
Reopen(opening) ==
    /\ recorder.up /\ recorder.logging /\ ~recorder.open
    /\ recorder.segment < MaxSegments
    /\ Becomes(Opened(Now, opening))
    /\ Charge(Cost(opening))
    /\ UNCHANGED captured

\* set_contract(): the manifest again, with the frontier as it is.
SetContract(outcome) ==
    /\ recorder.up /\ Active(Now)
    /\ Becomes(IF outcome = "ok" THEN Published(Now, FALSE) ELSE Fail(Now))
    /\ Charge(Cost(outcome))
    /\ UNCHANGED captured

\* reload_settings(): the switch is seen by the next write, the files by the next tick.
SetLogging ==
    /\ recorder.up
    /\ recorder' = [recorder EXCEPT !.logging = ~@]
    /\ Charge(1)
    /\ UNCHANGED <<captured, journal>>

CloseDisabled(closing) ==
    /\ recorder.up /\ recorder.open /\ ~recorder.logging
    /\ Becomes(Closed(Now, closing))
    /\ Charge(Cost(closing))
    /\ UNCHANGED captured

Stop(closing) ==
    /\ recorder.up
    /\ journal' = Closed(Now, closing).j
    /\ recorder' = Stopped
    /\ Charge(1)
    /\ UNCHANGED captured

Kill ==
    /\ recorder.up
    /\ recorder' = Stopped
    /\ Charge(1)
    /\ UNCHANGED <<captured, journal>>

\* Only what was flushed is sure to be there afterwards.
Survivor(segment) ==
    [segment EXCEPT !.rows = [f \in Streams |-> SubSeq(@[f], 1, segment.durable[f])]]

PowerLoss ==
    /\ recorder' = Stopped
    /\ journal' = [journal EXCEPT !.segments = [p \in DOMAIN @ |-> Survivor(@[p])]]
    /\ txn' = Idle /\ paths' = <<>>
    /\ Charge(1)
    /\ UNCHANGED <<captured, db>>

-----------------------------------------------------------------------------
(* The analysis process.                                                    *)

\* discover(): sessions by their links, where a link leads to a session that is
\* there, and otherwise by name; segments by number.
Chain(segments) ==
    LET Sessions == {p[1] : p \in DOMAIN segments}
        previous == [s \in Sessions |-> (CHOOSE g \in {segments[p] : p \in {q \in DOMAIN segments : q[1] = s}} : TRUE).previous]
        chain[s \in Sessions] == IF previous[s] \in Sessions THEN Append(chain[previous[s]], s) ELSE <<s>>
    IN  chain

Discovered(every) ==
    LET segments == [p \in {q \in DOMAIN every : ~every[q].gone} |-> every[p]]
        Sessions == {p[1] : p \in DOMAIN segments}
        chain    == Chain(segments)
        Visit(order, s) == order \o SelectSeq(chain[s], LAMBDA t : t \notin ToSet(order))
        sessions == FoldLeft(Visit, <<>>, SetToSortSeq(Sessions, <))
        Segments(s) == SetToSortSeq({p \in DOMAIN segments : p[1] = s}, LAMBDA p, q : p[2] < q[2])
    IN  FoldLeft(LAMBDA order, s : order \o Segments(s), <<>>, sessions)

Discover ==
    /\ ~txn.on
    /\ paths' = Discovered(journal.segments)
    /\ UNCHANGED <<db, txn>>

Offset(work, p) == IF p \in DOMAIN work.offsets THEN work.offsets[p] ELSE 0

\* consume(): a new session or a changed loss counter starts the estimates over; a
\* capture that does not follow the last one is a discontinuity of its own.
Consumed(work, p, row) ==
    LET change == row.session # work.session
        reset  == \/ change /\ work.session # None
                  \/ ~change /\ row.loss # work.loss
        next   == row.id = work.seq + 1
        begins == reset \/ ~next
    IN  [offsets |-> (p :> Offset(work, p) + 1) @@ work.offsets,
         session |-> row.session, loss |-> row.loss, seq |-> row.id,
         history |-> Append(work.history, [id |-> row.id, begins |-> begins])]

\* The manifest of a retired segment is no longer there.
Limit(p) == IF journal.segments[p].gone THEN 0 ELSE journal.segments[p].committed["input"]

\* A step that would find nothing changes nothing and is left out.
Begin ==
    /\ ~txn.on
    /\ \E i \in DOMAIN paths : Limit(paths[i]) # Offset(db, paths[i])
    /\ txn' = [on |-> TRUE, at |-> 1, left |-> Batch, work |-> db]
    /\ UNCHANGED <<db, paths>>

\* One turn of step()'s loop: the manifest as it is now, then its records.  A limit
\* behind the cursor ends the step ("moved backwards").
ReadPath ==
    /\ txn.on /\ txn.at <= Len(paths) /\ txn.left > 0
    /\ Limit(paths[txn.at]) >= Offset(txn.work, paths[txn.at])
    /\ LET p     == paths[txn.at]
           from  == Offset(txn.work, p)
           limit == Limit(p)
           n     == IF limit - from < txn.left THEN limit - from ELSE txn.left
           rows  == SubSeq(journal.segments[p].rows["input"], from + 1, from + n)
       IN  txn' = [txn EXCEPT !.at = @ + 1, !.left = @ - n,
                              !.work = FoldLeft(LAMBDA w, row : Consumed(w, p, row), @, rows)]
    /\ UNCHANGED <<db, paths>>

\* Model state, history rows and cursor in one transaction.
Commit ==
    /\ txn.on /\ (txn.at > Len(paths) \/ txn.left = 0)
    /\ db' = txn.work
    /\ txn' = Idle
    /\ UNCHANGED paths

\* Any exception, or the end of the process: back to the state before the step.
Refused ==
    /\ txn.on /\ txn.at <= Len(paths)
    /\ Limit(paths[txn.at]) < Offset(txn.work, paths[txn.at])
    /\ txn' = Idle
    /\ UNCHANGED <<db, paths>>

Abort ==
    /\ txn.on
    /\ txn' = Idle
    /\ Charge(1)
    /\ UNCHANGED <<db, paths>>

-----------------------------------------------------------------------------
(* The storage worker, as far as the replay can tell (StorageLifecycle has  *)
(* its passes): it takes a closed and consumed segment away, and holds the  *)
(* storage lock against a step while it does.                               *)

\* Mutant: a segment with a cursor is taken for one that was read to its end.
AnalysisBegun(p) == p \in DOMAIN db.offsets

AnalysisConsumed(p) == Offset(db, p) >= journal.segments[p].committed["input"]

Retire(p) ==
    /\ ~txn.on
    /\ journal.segments[p].closed /\ ~journal.segments[p].gone
    /\ AnalysisConsumed(p)
    /\ journal' = [journal EXCEPT !.segments[p].gone = TRUE]
    /\ Charge(1)
    /\ UNCHANGED <<captured, recorder>>

-----------------------------------------------------------------------------
Init ==
    /\ captured = 0
    /\ journal = [segments |-> <<>>, last |-> None]
    /\ recorder = Stopped
    /\ faults = 0
    /\ db = [offsets |-> <<>>, session |-> None, loss |-> <<0, 0>>, seq |-> 0, history |-> <<>>]
    /\ paths = <<>>
    /\ txn = Idle

RecorderStep ==
    \/ \E name \in UnusedNames, opening \in OpenOutcomes : ServiceStart(name, opening)
    \/ \E name \in UnusedNames, closing \in CloseOutcomes, opening \in OpenOutcomes :
            Recover(name, closing, opening)
    \/ Receive("nothing", "ok")
    \/ \E f \in Streams, outcome \in {"error", "limit"} : Receive(f, outcome)
    \/ Receive("summary", "error")
    \/ Missed
    \/ \E outcome \in {"ok", "fsync", "manifest", "directory"} : Sync(outcome)
    \/ SpaceLimit
    \/ \E closing \in CloseOutcomes, opening \in OpenOutcomes : Rotate(closing, opening)
    \/ \E opening \in OpenOutcomes : Reopen(opening)
    \/ \E outcome \in {"ok", "manifest"} : SetContract(outcome)
    \/ SetLogging
    \/ \E closing \in CloseOutcomes : CloseDisabled(closing)
    \/ \E closing \in CloseOutcomes : Stop(closing)
    \/ Kill

AnalysisStep == Begin \/ ReadPath \/ Commit \/ Refused

Next ==
    \/ RecorderStep /\ UNCHANGED anaVars
    \/ PowerLoss
    \/ (Discover \/ AnalysisStep) /\ UNCHANGED <<captured, journal, recorder, faults>>
    \/ Abort /\ UNCHANGED recVars
    \/ (\E p \in DOMAIN journal.segments : Retire(p)) /\ UNCHANGED anaVars

\* The analysis loop never stops while its process lives, and a step begins with a
\* scan whenever the last one is five seconds old; faults are finite.
Fairness ==
    /\ WF_vars(AnalysisStep /\ UNCHANGED <<captured, journal, recorder, faults>>)
    /\ SF_vars(Discover /\ UNCHANGED <<captured, journal, recorder, faults>>)

Spec == Init /\ [][Next]_vars /\ Fairness

-----------------------------------------------------------------------------
(* Properties.                                                              *)

Segments == {journal.segments[p] : p \in DOMAIN journal.segments}
Prefix(s, n) == SubSeq(s, 1, n)

\* What a manifest publishes is durable: after a power loss every published row is
\* still there (sync: "only after every coordinated stream is durable").
FrontierIsDurable ==
    \A g \in Segments : \A f \in Streams :
        g.committed[f] <= g.durable[f] /\ g.durable[f] <= Len(g.rows[f])

\* A published analysis input has its CSV row and its raw line published beside it,
\* whichever write of whichever event failed.
InputsAreRecorded ==
    \A g \in Segments : \A i \in 1..g.committed["input"] :
        LET id == g.rows["input"][i].id
        IN  /\ id \in ToSet(Prefix(g.rows["csv"], g.committed["csv"]))
            /\ id \in ToSet(Prefix(g.rows["raw"], g.committed["raw"]))

\* The replay is exact: history holds the captures of the published inputs up to the
\* cursor, each once, in the order the Nano took them - across sessions whose names
\* are out of order, abandoned segments, kills and repeated steps.
ReplayIsExact ==
    /\ \A p \in DOMAIN db.offsets : db.offsets[p] <= journal.segments[p].committed["input"]
    /\ {db.history[i].id : i \in DOMAIN db.history} =
          UNION {{journal.segments[p].rows["input"][i].id : i \in 1..db.offsets[p]} : p \in DOMAIN db.offsets}
    /\ \A i \in 1..(Len(db.history) - 1) : db.history[i].id < db.history[i + 1].id

\* No estimate spans a hole: where history skips captures - missed, refused, or
\* accepted into a segment that was abandoned - the next one begins anew.
GapsAreSeen ==
    \A i \in 1..(Len(db.history) - 1) :
        db.history[i + 1].id # db.history[i].id + 1 => db.history[i + 1].begins

\* A published frontier of a segment never moves back, and a closed segment is final
\* (the storage worker relies on it).
ClosedIsFinal ==
    [][\A p \in DOMAIN journal.segments :
          LET g == journal.segments[p]
              h == journal'.segments[p]
          IN  /\ \A f \in Streams : g.committed[f] <= h.committed[f]
              /\ g.closed => [h EXCEPT !.gone = g.gone] = g]_vars

\* Nothing is taken away that the replay has not read, whoever holds which lock when.
UnreadIsKept ==
    \A p \in DOMAIN journal.segments :
        journal.segments[p].gone => Offset(db, p) = journal.segments[p].committed["input"]

\* The replay catches up with what is published, again and again.
CaughtUp == \A p \in DOMAIN journal.segments : Offset(db, p) = journal.segments[p].committed["input"]
ReplayCatchesUp == []<>CaughtUp
=============================================================================
