------------------------------ MODULE Exports ------------------------------
(***************************************************************************)
(* Exports of closed recordings by date (exports.py).  Segments cover host   *)
(* wall-clock time, which steps back and forth while they are recorded; the  *)
(* manifest keeps the extrema.  A plan is made from the catalogue, which the *)
(* storage worker writes after it has changed the files, and the archive is  *)
(* streamed from the files one after the other.                              *)
(***************************************************************************)
EXTENDS Integers, Sequences, FiniteSets, FiniteSetsExt

CONSTANTS
    Names,    \* the logical files of the kind asked for
    None,
    Steps,    \* how far the wall clock may step
    MaxTime, MaxSegments, MaxSteps, MaxFaults \* bounds

ExportAssumption ==
    /\ Steps \subseteq Int /\ {MaxTime, MaxSegments, MaxSteps, MaxFaults} \subseteq Nat
    /\ None \notin Int /\ None \notin {"rotation", "failed"}

VARIABLES
    wall,      \* the wall clock
    steps,     \* bound
    segments,  \* manifests: opened, closed, least and greatest time of a record, reason
    records,   \* history: <<segment, time>> of every record
    files,     \* <<segment, name>>: "plain", "gz" or "gone"
    catalogue, \* catalogue.json: for the segments it lists, the form each file had
    request,   \* the range asked for, what is planned, what has been sent, how it went
    faults     \* bound

expvars == <<wall, steps, segments, records, files, catalogue, request, faults>>

NoRequest == [state |-> "none", from |-> 0, to |-> 0, members |-> {}, missing |-> {}, sent |-> {}, chosen |-> {}, listed |-> {}]

Init ==
    /\ wall = MaxTime \div 2 /\ steps = 0 /\ segments = <<>> /\ records = {} /\ files = << >>
    /\ catalogue = << >> /\ request = NoRequest /\ faults = 0

Active == segments # <<>> /\ segments[Len(segments)].reason = None
archive == <<files, catalogue, request, faults>>
-----------------------------------------------------------------------------
Step(d) ==
    /\ steps < MaxSteps /\ steps' = steps + 1 /\ wall + d \in 0..MaxTime /\ wall' = wall + d
    /\ UNCHANGED <<segments, records, archive>>

Open ==
    /\ ~Active /\ Len(segments) < MaxSegments
    /\ segments' = Append(segments, [opened |-> wall, closed |-> None, min |-> None, max |-> None, reason |-> None])
    /\ UNCHANGED <<wall, steps, records, archive>>

\* Recorder._record_time()
Record ==
    /\ Active
    /\ LET n == Len(segments)
       IN  /\ segments' = [segments EXCEPT ![n].min = IF @ = None \/ wall < @ THEN wall ELSE @,
                                           ![n].max = IF @ = None \/ wall > @ THEN wall ELSE @]
           /\ records' = records \cup {<<n, wall>>}
    /\ UNCHANGED <<wall, steps, archive>>

Close ==
    /\ Active
    /\ LET n == Len(segments)
       IN  /\ segments' \in {[segments EXCEPT ![n].closed = wall, ![n].reason = why] : why \in {"rotation", "failed"}}
           /\ files' = [f \in (1..n) \X Names |-> IF f[1] = n THEN "plain" ELSE files[f]]
    /\ UNCHANGED <<wall, steps, records, catalogue, request, faults>>

-----------------------------------------------------------------------------
\* The storage worker excludes downloads; it may stop between a change and the catalogue.
Unlocked == request.state # "streaming"

Change(f, to) ==
    /\ Unlocked /\ files[f] # "gone" /\ files[f] # to /\ files' = [files EXCEPT ![f] = to]
    /\ UNCHANGED <<wall, steps, segments, records, catalogue, request, faults>>

Catalogue ==
    /\ Unlocked /\ catalogue' = files
    /\ UNCHANGED <<wall, steps, segments, records, files, request, faults>>

\* Files may also change behind the worker's back.
Tamper(f) ==
    /\ faults < MaxFaults /\ faults' = faults + 1 /\ files' = [files EXCEPT ![f] = "gone"]
    /\ UNCHANGED <<wall, steps, segments, records, catalogue, request>>

-----------------------------------------------------------------------------
Listed == {n \in 1..Len(segments) : \E f \in DOMAIN catalogue : f[1] = n}

\* Segments that were abandoned are not exported.
Sound(n) == segments[n].closed # None /\ segments[n].reason # "failed"

\* select_segments(): the extrema count too, not only the end points of a segment.
Bounds(s) == {s.opened, s.closed, s.min, s.max} \ {None}
Overlaps(s, from, to) == Min(Bounds(s)) < to /\ Max(Bounds(s)) >= from
Selected(from, to) == {n \in Listed : Sound(n) /\ Overlaps(segments[n], from, to)}

\* plan_export(): every file of the kind is there as the catalogue says, or is expired.
Plan(from, to) ==
    /\ request.state = "none" /\ from < to
    /\ LET chosen  == Selected(from, to)
           wanted  == chosen \X Names
           members == {f \in wanted : catalogue[f] # "gone"}
           ok      == members # {} /\ \A f \in members : files[f] = catalogue[f]
       IN  request' = IF ok THEN [state |-> "streaming", from |-> from, to |-> to, chosen |-> chosen, listed |-> Listed,
                                  members |-> members, missing |-> wanted \ members, sent |-> {}]
                      ELSE [NoRequest EXCEPT !.state = "refused"]
    /\ UNCHANGED <<wall, steps, segments, records, files, catalogue, faults>>

\* ExportPlan.chunks(): the next member, or an error when it is not what was planned.
Stream ==
    /\ request.state = "streaming"
    /\ IF request.sent = request.members THEN request' = [request EXCEPT !.state = "done"]
       ELSE \E f \in request.members \ request.sent :
                request' = IF files[f] = catalogue[f] THEN [request EXCEPT !.sent = @ \cup {f}]
                           ELSE [request EXCEPT !.state = "broken"]
    /\ UNCHANGED <<wall, steps, segments, records, files, catalogue, faults>>

Next ==
    \/ (\E d \in Steps : Step(d)) \/ Open \/ Record \/ Close
    \/ (\E f \in DOMAIN files : Change(f, "gz") \/ Change(f, "gone") \/ Tamper(f)) \/ Catalogue
    \/ (\E from, to \in 0..MaxTime : Plan(from, to)) \/ Stream

Spec == Init /\ [][Next]_expvars
-----------------------------------------------------------------------------
\* An export that ends well is complete.  Every record of the range, in a sound segment that
\* the catalogue lists, is in a segment exported, wherever the clock went while it was
\* recorded; and each file of those segments was sent or is named as expired (exports.py:19).
ExportsAreComplete ==
    request.state = "done" =>
        /\ \A r \in records : r[1] \in request.listed /\ Sound(r[1]) /\ request.from <= r[2] /\ r[2] < request.to =>
               r[1] \in request.chosen
        /\ request.chosen \X Names = request.sent \cup request.missing
=============================================================================
