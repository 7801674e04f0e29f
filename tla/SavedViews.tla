---------------------------- MODULE SavedViews ----------------------------
(***************************************************************************)
(* The saved-view worker (views.py) and its phase snapshots (phase.py).     *)
(* Web requests leave job files in a bounded directory; the worker takes     *)
(* the oldest, steps it, publishes a result and then removes the job.  Once  *)
(* a second it also publishes the phase view of the segment being recorded,  *)
(* which a thread of its own computes.  The worker can be killed anywhere.   *)
(***************************************************************************)
EXTENDS Naturals, Sequences, SequencesExt, FiniteSets

CONSTANTS
    Keys,     \* ranges that clients ask for
    Clients,  \* web threads inside request_environment()
    None,
    MaxJobs,  \* MAX_JOBS
    MaxCache, \* MAX_CACHE
    Segments, \* bound: segments recorded
    MaxKills  \* bound: kills of the worker

ViewsAssumption == MaxJobs \in Nat \ {0} /\ MaxCache \in Nat \ {0} /\ Segments \in Nat \ {0} /\ MaxKills \in Nat

VARIABLES
    jobs,    \* the job files, oldest first
    results, \* the result files, oldest first
    old,     \* results generated a minute ago or more
    reading, \* client: the key it asks for and whether it saw a fresh result, or None
    active,  \* the job the worker holds and how far it is: step, or done (result published)
    up,      \* the worker runs
    kills,   \* bound
    segment, \* the segment in status.json
    phase,   \* PhaseSnapshots: key, segment of the result, busy with which segment
    shown    \* phase.json: the segment it names and the one its charts are of

viewvars == <<jobs, results, old, reading, active, up, kills, segment, phase, shown>>

Init ==
    /\ jobs = <<>> /\ results = <<>> /\ old = {} /\ reading = [c \in Clients |-> None]
    /\ active = None /\ up = TRUE /\ kills = 0
    /\ segment = 1 /\ phase = [key |-> 0, of |-> 0, busy |-> 0] /\ shown = [names |-> 0, of |-> 0]

phaseless == <<segment, phase, shown>>
-----------------------------------------------------------------------------
\* request_environment(): the saved result is read before the queue is locked.
ReadCached(c, k) ==
    /\ reading[c] = None
    /\ reading' = [reading EXCEPT ![c] = [key |-> k, fresh |-> k \in ToSet(results) \ old]]
    /\ UNCHANGED <<jobs, results, old, active, up, kills, phaseless>>

Locked(c) ==
    /\ reading[c] # None /\ reading' = [reading EXCEPT ![c] = None]
    /\ LET k == reading[c].key
       IN  jobs' = IF k \notin ToSet(jobs) /\ ~reading[c].fresh /\ Len(jobs) < MaxJobs THEN Append(jobs, k) ELSE jobs
    /\ UNCHANGED <<results, old, active, up, kills, phaseless>>

Age(k) ==
    /\ k \in ToSet(results) \ old /\ old' = old \cup {k}
    /\ UNCHANGED <<jobs, results, reading, active, up, kills, phaseless>>

-----------------------------------------------------------------------------
Pick ==
    /\ up /\ active = None /\ jobs # <<>>
    /\ active' = [job |-> Head(jobs), stage |-> "step"]
    /\ UNCHANGED <<jobs, results, old, reading, up, kills, phaseless>>

\* The last step, or an error of any kind, gives a value; it replaces the result file.
Publish ==
    /\ up /\ active # None /\ active.stage = "step"
    /\ results' = Append(Remove(results, active.job), active.job)
    /\ old' = old \ {active.job} /\ active' = [active EXCEPT !.stage = "done"]
    /\ UNCHANGED <<jobs, reading, up, kills, phaseless>>

Unlink ==
    /\ up /\ active # None /\ active.stage = "done"
    /\ jobs' = RemoveFirst(jobs, active.job) /\ active' = None
    /\ UNCHANGED <<results, old, reading, up, kills, phaseless>>

\* Only the newest results are kept.
Maintain ==
    /\ up /\ Len(results) > MaxCache
    /\ results' = SubSeq(results, Len(results) - MaxCache + 1, Len(results))
    /\ old' = old \cap ToSet(results')
    /\ UNCHANGED <<jobs, reading, active, up, kills, phaseless>>

\* A kill or a reboot of the worker; what it held is in memory only.
Kill ==
    /\ up /\ kills < MaxKills /\ kills' = kills + 1 /\ up' = FALSE /\ active' = None
    /\ phase' = [key |-> 0, of |-> 0, busy |-> 0]
    /\ UNCHANGED <<jobs, results, old, reading, segment, shown>>

\* run_views() starts from the phase view it published last.
Start ==
    /\ ~up /\ up' = TRUE
    /\ phase' = IF shown.of # 0 THEN [key |-> shown.names, of |-> shown.of, busy |-> 0] ELSE phase
    /\ UNCHANGED <<jobs, results, old, reading, active, kills, segment, shown>>

-----------------------------------------------------------------------------
NewSegment ==
    /\ segment < Segments /\ segment' = segment + 1
    /\ UNCHANGED <<jobs, results, old, reading, active, up, kills, phase, shown>>

\* PhaseSnapshots.get() and its publication: a new segment forgets the result; one build
\* runs at a time, when a minute has passed.
PhaseGet(due) ==
    LET kept == IF phase.key = segment THEN phase ELSE [phase EXCEPT !.key = segment, !.of = 0]
        now  == IF kept.busy = 0 /\ (due \/ kept # phase) THEN [kept EXCEPT !.busy = segment] ELSE kept
    IN  /\ up /\ phase' = now /\ shown' = [names |-> segment, of |-> now.of]
        /\ UNCHANGED <<jobs, results, old, reading, active, up, kills, segment>>

\* Mutant: whatever was built is kept.
PhaseBuiltAnyway(ok) ==
    /\ up /\ phase.busy # 0
    /\ phase' = [phase EXCEPT !.busy = 0, !.of = IF ok THEN phase.busy ELSE @]
    /\ UNCHANGED <<jobs, results, old, reading, active, up, kills, segment, shown>>

\* _build() ends: a result is kept only for the segment that is still wanted.
PhaseBuilt(ok) ==
    /\ up /\ phase.busy # 0
    /\ phase' = [phase EXCEPT !.busy = 0, !.of = IF phase.busy = phase.key /\ ok THEN phase.busy ELSE @]
    /\ UNCHANGED <<jobs, results, old, reading, active, up, kills, segment, shown>>

Next ==
    \/ \E c \in Clients : Locked(c) \/ \E k \in Keys : ReadCached(c, k)
    \/ \E k \in Keys : Age(k)
    \/ Pick \/ Publish \/ Unlink \/ Maintain \/ Kill \/ Start
    \/ NewSegment \/ (\E due \in BOOLEAN : PhaseGet(due)) \/ (\E ok \in BOOLEAN : PhaseBuilt(ok))

Spec == Init /\ [][Next]_viewvars

\* The worker's loop makes progress while its service is up, and systemd restarts it.
FairSpec ==
    /\ Spec
    /\ WF_viewvars(Pick) /\ WF_viewvars(Publish) /\ WF_viewvars(Unlink) /\ WF_viewvars(Start)

-----------------------------------------------------------------------------
\* The queue never grows past its bound and never holds a range twice, whatever two
\* requests saw before they locked it; the worker works on a job that is still there.
QueueIsBounded ==
    /\ Len(jobs) <= MaxJobs /\ IsInjective(jobs)
    /\ active # None => active.job \in ToSet(jobs)

\* Why it holds: jobs join behind the one the worker holds, which is the oldest, and a phase
\* result is of the segment it was wanted for.
ViewsInv ==
    /\ jobs \in Seq(Keys) /\ Len(jobs) <= MaxJobs /\ IsInjective(jobs)
    /\ reading \in [Clients -> {None} \cup [key : Keys, fresh : BOOLEAN]]
    /\ active # None => jobs # <<>> /\ active.job = Head(jobs)
    /\ segment \in Nat /\ phase \in [key : Nat, of : Nat, busy : Nat] /\ phase.of \in {0, phase.key}
    /\ shown \in [names : Nat, of : Nat] /\ shown.of \in {0, shown.names}

\* A job leaves only for a result published after it was queued.
JobsLeaveWithResults ==
    [][\A k \in ToSet(jobs) \ ToSet(jobs') : active # None /\ active.job = k /\ active.stage = "done"]_viewvars

\* Every job that is queued is answered, kills and newer jobs notwithstanding.
Queued(k) == k \in ToSet(jobs)
JobsAreAnswered == \A k \in Keys : Queued(k) ~> ~Queued(k)

\* Charts are never shown under the name of another segment.
PhaseIsOfItsSegment == shown.of \in {0, shown.names}
=============================================================================
