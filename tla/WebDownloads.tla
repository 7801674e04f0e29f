--------------------------- MODULE WebDownloads ---------------------------
(***************************************************************************)
(* Exports and file downloads of the web service (web.py), and the storage  *)
(* worker they keep out.  A download takes one of two permits, then a       *)
(* shared lock on the recordings for as long as its response streams; the   *)
(* storage worker takes the lock exclusively for a pass.  Every way a        *)
(* request can end has to give both back, once.  Queries of the history take  *)
(* one of two permits of their own for as long as their handler runs.        *)
(***************************************************************************)
EXTENDS Naturals, FiniteSets

CONSTANTS
    Requests, \* requests for an export or a download
    Queries,  \* handlers of history, environment and temperature queries
    Permits,  \* BoundedSemaphore(2), of each kind
    MaxEdits  \* bound: times the configuration file is broken or mended

DownloadsAssumption ==
    Permits \in Nat \ {0} /\ MaxEdits \in Nat /\ IsFiniteSet(Requests) /\ IsFiniteSet(Queries)

VARIABLES
    pc,       \* request: idle, refused, permitted, locked, streaming, drained, gone (failed before its try)
    permits,  \* permits left in the semaphore
    asking,   \* queries that hold a permit
    slots,    \* permits left for queries
    readers,  \* requests whose descriptor holds the shared lock
    changed,  \* requests whose recordings were touched after they were planned
    worker,   \* the storage pass: idle, waiting (blocked in flock) or holding
    valid,    \* load_settings() would accept the configuration file
    edits     \* bound

query   == <<asking, slots>>
webvars == <<pc, permits, query, readers, changed, worker, valid, edits>>

TypeOK ==
    /\ pc \in [Requests -> {"idle", "refused", "permitted", "locked", "streaming", "drained", "gone"}]
    /\ permits \in 0..Permits /\ asking \in SUBSET Queries /\ slots \in 0..Permits /\ readers \in SUBSET Requests /\ changed \in SUBSET Requests
    /\ worker \in {"idle", "waiting", "holding"} /\ valid \in BOOLEAN /\ edits \in 0..MaxEdits

Init ==
    /\ pc = [r \in Requests |-> "idle"] /\ permits = Permits /\ asking = {} /\ slots = Permits
    /\ readers = {} /\ changed = {} /\ worker = "idle" /\ valid = TRUE /\ edits = 0

-----------------------------------------------------------------------------
Acquire(r) ==
    /\ pc[r] = "idle" /\ permits > 0
    /\ pc' = [pc EXCEPT ![r] = "permitted"] /\ permits' = permits - 1
    /\ UNCHANGED <<query, readers, changed, worker, valid, edits>>

\* 429: "Two downloads are already running; try again shortly".
Refuse(r) ==
    /\ pc[r] = "idle" /\ permits = 0
    /\ pc' = [pc EXCEPT ![r] = "refused"] /\ UNCHANGED <<query, permits, readers, changed, worker, valid, edits>>

Again(r) ==
    /\ pc[r] = "refused"
    /\ pc' = [pc EXCEPT ![r] = "idle"] /\ UNCHANGED <<query, permits, readers, changed, worker, valid, edits>>

\* settings() reads the file before the try: the request ends with an error 500.
SettingsFail(r) ==
    /\ pc[r] = "permitted" /\ ~valid
    /\ pc' = [pc EXCEPT ![r] = "gone"]
    /\ UNCHANGED <<query, permits, readers, changed, worker, valid, edits>>

Release(r) == permits' = permits + 1 /\ pc' = [pc EXCEPT ![r] = "idle"]

\* lock.__enter__(), not blocking: 503 while a storage pass holds the lock.
Lock(r) ==
    /\ pc[r] = "permitted" /\ valid /\ worker # "holding"
    /\ pc' = [pc EXCEPT ![r] = "locked"] /\ readers' = readers \cup {r}
    /\ UNCHANGED <<query, permits, changed, worker, valid, edits>>

LockBusy(r) ==
    /\ pc[r] = "permitted" /\ valid /\ worker = "holding"
    /\ Release(r) /\ UNCHANGED <<query, readers, changed, worker, valid, edits>>

\* The plan is made and the response handed to the server.
Plan(r) ==
    /\ pc[r] = "locked" /\ pc' = [pc EXCEPT ![r] = "streaming"]
    /\ UNCHANGED <<query, permits, readers, changed, worker, valid, edits>>

\* An invalid range, a missing file, a second settings(): the except clause.
PlanFails(r) ==
    /\ pc[r] = "locked" /\ readers' = readers \ {r} /\ Release(r)
    /\ UNCHANGED <<query, changed, worker, valid, edits>>

\* close(), at the end of chunks() however it ends.
Drain(r) ==
    /\ pc[r] = "streaming"
    /\ pc' = [pc EXCEPT ![r] = "drained"] /\ permits' = permits + 1
    /\ readers' = readers \ {r} /\ changed' = changed \ {r}
    /\ UNCHANGED <<query, worker, valid, edits>>

\* call_on_close: the client may be gone before the first chunk, or close() was called already.
Hangup(r) ==
    /\ pc[r] \in {"streaming", "drained"}
    /\ pc' = [pc EXCEPT ![r] = "idle"]
    /\ permits' = IF pc[r] = "streaming" THEN permits + 1 ELSE permits
    /\ readers' = readers \ {r} /\ changed' = changed \ {r}
    /\ UNCHANGED <<query, worker, valid, edits>>

-----------------------------------------------------------------------------
PassWanted == worker = "idle" /\ worker' = "waiting" /\ UNCHANGED <<query, pc, permits, readers, changed, valid, edits>>

PassBegins ==
    /\ worker = "waiting" /\ readers = {}
    /\ worker' = "holding" /\ UNCHANGED <<query, pc, permits, readers, changed, valid, edits>>

\* Files are compressed, expired and retired.
PassWorks ==
    /\ worker = "holding"
    /\ changed' = {r \in Requests : pc[r] = "streaming"}
    /\ UNCHANGED <<query, pc, permits, readers, worker, valid, edits>>

PassEnds == worker = "holding" /\ worker' = "idle" /\ UNCHANGED <<query, pc, permits, readers, changed, valid, edits>>

Edit ==
    /\ edits < MaxEdits /\ edits' = edits + 1 /\ valid' = ~valid
    /\ UNCHANGED <<query, pc, permits, readers, changed, worker>>

-----------------------------------------------------------------------------
\* history(), environmental_relationships(), temperature_correlation(): 429 without a permit.
Ask(q) ==
    /\ q \notin asking /\ slots > 0
    /\ asking' = asking \cup {q} /\ slots' = slots - 1
    /\ UNCHANGED <<pc, permits, readers, changed, worker, valid, edits>>

\* A result, an error of the query or of settings(): both are within the try, and finally
\* gives the permit back.
Answered(q) ==
    /\ q \in asking
    /\ asking' = asking \ {q} /\ slots' = slots + 1
    /\ UNCHANGED <<pc, permits, readers, changed, worker, valid, edits>>

\* What a request does on its own, and what its client may do.
Handle(r) == SettingsFail(r) \/ Lock(r) \/ LockBusy(r) \/ Plan(r) \/ PlanFails(r)
Finish(r) == Drain(r) \/ Hangup(r)

Next ==
    \/ \E r \in Requests : Acquire(r) \/ Refuse(r) \/ Again(r) \/ Handle(r) \/ Finish(r)
    \/ \E q \in Queries : Ask(q) \/ Answered(q)
    \/ PassWanted \/ PassBegins \/ PassWorks \/ PassEnds \/ Edit

Spec == Init /\ [][Next]_webvars

\* Handlers run to their response, and the server closes a channel that stalls for 30 s.
FairSpec ==
    /\ Spec
    /\ \A r \in Requests : WF_webvars(Handle(r)) /\ WF_webvars(Finish(r))
    /\ WF_webvars(PassEnds)

-----------------------------------------------------------------------------
Open == {r \in Requests : pc[r] \in {"permitted", "locked", "streaming"}}

\* What a download reads is not changed under it: while a plan or a response is open the
\* worker is outside, and whoever is gone left nothing behind but, at most, its permit.  A
\* query leaves nothing.
DownloadsAreStable ==
    /\ worker = "holding" => readers = {}
    /\ changed = {} /\ readers = {r \in Requests : pc[r] \in {"locked", "streaming"}}
    /\ permits + Cardinality(Open) + Cardinality({r \in Requests : pc[r] = "gone"}) = Permits
    /\ slots + Cardinality(asking) = Permits

\* Every request that takes a permit ends, one way or another.
Let(r) == pc[r] \in {"permitted", "locked", "streaming"}
DownloadsEnd == \A r \in Requests : Let(r) ~> ~Let(r)

\* web.py:393 and 466: "Two downloads are already running; try again shortly".
BusyIsTrue ==
    [][\A r \in Requests : pc[r] = "idle" /\ pc'[r] = "refused" => Cardinality(Open) = Permits]_webvars
=============================================================================
