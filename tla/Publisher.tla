----------------------------- MODULE Publisher -----------------------------
(***************************************************************************)
(* The hourly publication (thingspeak.py).  An invocation is a process: the *)
(* service's publication and its readiness check, or the operator's         *)
(* validation of a new write key; several may run at once.  A publication   *)
(* posts the last saved result, which it assembles from the files of the    *)
(* recorder and of the analysis, read one after the other (results.py).     *)
(* Errors are dealt with after the lock has been given back.                *)
(***************************************************************************)
EXTENDS Naturals, Sequences, SequencesExt

CONSTANTS
    Invocations, \* slots of concurrent processes
    Keys,        \* write keys; each stands for the fingerprint of the key and its channel
    None,
    MaxSessions, MaxStarts, MaxChanges \* bounds

PublisherAssumption ==
    /\ {MaxSessions, MaxStarts, MaxChanges} \subseteq Nat \ {0}
    /\ None \notin Invocations \cup Keys

VARIABLES
    session,  \* the session being recorded
    files,    \* the sessions that status.json and analysis.json are of, or 0
    config,   \* the publisher's configuration: enabled, key; and the changes made to it
    receipt,  \* validation.json: the key it vouches for, or None
    last,     \* last_success of publication.json: the number of an entry, or 0
    holder,   \* the invocation that holds publish.lock, or None
    invs,     \* invocation: pc, mode, key, and what it has read
    starts,   \* bound
    entries   \* the entries the server has taken: kind, key

pubvars == <<session, files, config, receipt, last, holder, invs, starts, entries>>

Idle == [pc |-> "idle"]

Init ==
    /\ session = 1 /\ files = [status |-> 0, result |-> 0]
    /\ config \in [on : {TRUE}, key : Keys, changes : {0}]
    /\ receipt \in {None} \cup Keys \* a key may have been validated before
    /\ entries = IF receipt = None THEN <<>> ELSE <<[kind |-> "validate", key |-> receipt]>>
    /\ last = 0 /\ holder = None /\ invs = [i \in Invocations |-> Idle] /\ starts = 0

world == <<session, files, config>>
-----------------------------------------------------------------------------
\* The recorder publishes its session, and the analysis the one it has reached.
Report ==
    /\ files' \in {[files EXCEPT !.status = session]} \cup {[files EXCEPT !.result = n] : n \in files.result..session}
    /\ UNCHANGED <<session, config, receipt, last, holder, invs, starts, entries>>

NewSession ==
    /\ session < MaxSessions /\ session' = session + 1
    /\ UNCHANGED <<files, config, receipt, last, holder, invs, starts, entries>>

Configure(k, enabled) ==
    /\ config.changes < MaxChanges /\ config' = [on |-> enabled, key |-> k, changes |-> config.changes + 1]
    /\ UNCHANGED <<session, files, receipt, last, holder, invs, starts, entries>>

-----------------------------------------------------------------------------
At(i, pc) == invs[i].pc = pc
Set(i, v) == invs' = [invs EXCEPT ![i] = v]
Goto(i, pc) == Set(i, [invs[i] EXCEPT !.pc = pc])
Exit(i) == Set(i, Idle)
Unlock(i) == holder' = IF holder = i THEN None ELSE holder
Begun(mode, key) == [pc |-> IF mode \in {"publish", "ready"} THEN "check" ELSE "lock",
                      mode |-> mode, key |-> key, status |-> 0, result |-> 0,
                      entry |-> 0, prior |-> 0, rejected |-> FALSE]

\* The configuration and the key are read once; a key that cannot be read is a failure.
Start(i, mode) ==
    /\ At(i, "idle") /\ starts < MaxStarts /\ starts' = starts + 1
    /\ \/ mode \in {"publish", "ready"} /\ ~config.on /\ UNCHANGED invs
       \/ (mode \in {"publish", "ready"} => config.on) /\ Set(i, Begun(mode, config.key))
       \/ /\ mode # "dry" /\ (mode # "validate" => config.on)
          /\ Set(i, [Begun(mode, config.key) EXCEPT !.pc = "failed"])
    /\ UNCHANGED <<world, receipt, last, holder, entries>>

Validated(i) == receipt = invs[i].key

Check(i) ==
    /\ At(i, "check")
    /\ IF Validated(i) /\ invs[i].mode = "publish" THEN Goto(i, "lock") ELSE Exit(i)
    /\ UNCHANGED <<world, receipt, last, holder, starts, entries>>

Lock(i) ==
    /\ At(i, "lock")
    /\ IF holder = None
       THEN holder' = i /\ Goto(i, IF invs[i].mode = "validate" THEN "unlink" ELSE "status")
       ELSE Exit(i) /\ UNCHANGED holder
    /\ UNCHANGED <<world, receipt, last, starts, entries>>

\* Mutant: the old receipt stays until a new one is written.
UnlinkNothing(i) ==
    /\ At(i, "unlink") /\ Goto(i, "post")
    /\ UNCHANGED <<world, receipt, last, holder, starts, entries>>

\* Failed recommissioning must not retain old authorization.
Unlink(i) ==
    /\ At(i, "unlink") /\ receipt' = None /\ Goto(i, "post")
    /\ UNCHANGED <<world, last, holder, starts, entries>>

-----------------------------------------------------------------------------
ReadStatus(i) ==
    /\ At(i, "status") /\ Set(i, [invs[i] EXCEPT !.pc = "result", !.status = files.status])
    /\ UNCHANGED <<world, receipt, last, holder, starts, entries>>

ReadResult(i) ==
    /\ At(i, "result") /\ Set(i, [invs[i] EXCEPT !.pc = "build", !.result = files.result])
    /\ UNCHANGED <<world, receipt, last, holder, starts, entries>>

\* saved_status() and build_payload(): both files must be there and of one session.  Their
\* ages, and those of the capture, the swing and the PPS, may be too great.
Eligible(s, r) == {FALSE} \cup (IF s # 0 /\ r = s THEN {TRUE} ELSE {})

Build(i) ==
    /\ At(i, "build")
    /\ \E ok \in Eligible(invs[i].status, invs[i].result) :
           IF invs[i].mode = "dry" THEN Exit(i) /\ Unlock(i)
           ELSE Goto(i, IF ok THEN "post" ELSE "prior") /\ UNCHANGED holder
    /\ UNCHANGED <<world, receipt, last, starts, entries>>

Taken(i) == Append(entries, [kind |-> invs[i].mode, key |-> invs[i].key])

\* One POST.  It is accepted; or refused; or it fails, and may have been taken all the same.
\* An error leaves the block that holds the lock.
Accepted(i) ==
    /\ At(i, "post") /\ entries' = Taken(i)
    /\ Set(i, [invs[i] EXCEPT !.entry = Len(entries'), !.pc = IF invs[i].mode = "validate" THEN "receipt" ELSE "prior"])
    /\ UNCHANGED <<world, receipt, last, holder, starts>>

Refused(i) ==
    /\ At(i, "post") /\ Unlock(i)
    /\ \/ Set(i, [invs[i] EXCEPT !.pc = "failed", !.rejected = TRUE]) /\ UNCHANGED entries
       \/ Goto(i, "failed") /\ entries' \in {entries, Taken(i)}
    /\ UNCHANGED <<world, receipt, last, starts>>

Receipt(i) ==
    /\ At(i, "receipt") /\ receipt' = invs[i].key /\ Exit(i) /\ Unlock(i)
    /\ UNCHANGED <<world, last, starts, entries>>

-----------------------------------------------------------------------------
\* publication_status(): the previous last success is read, and written back with the news.
ReadPrior(i) ==
    /\ \/ At(i, "prior") /\ Set(i, [invs[i] EXCEPT !.pc = "record", !.prior = last])
       \/ At(i, "failed") /\ Set(i, [invs[i] EXCEPT !.pc = "note", !.prior = last])
    /\ UNCHANGED <<world, receipt, last, holder, starts, entries>>

Success(i) == IF invs[i].entry > 0 THEN invs[i].entry ELSE invs[i].prior

Record(i) ==
    /\ At(i, "record") /\ last' = Success(i) /\ Exit(i) /\ Unlock(i)
    /\ UNCHANGED <<world, receipt, starts, entries>>

\* A failure is noted, and a refused key loses its receipt, whichever key that is by now.
Note(i) ==
    /\ At(i, "note") /\ last' = Success(i)
    /\ IF invs[i].rejected THEN Goto(i, "invalidate") ELSE Exit(i)
    /\ UNCHANGED <<world, receipt, holder, starts, entries>>

Invalidate(i) ==
    /\ At(i, "invalidate") /\ receipt' = None /\ Exit(i)
    /\ UNCHANGED <<world, last, holder, starts, entries>>

\* Killed, by the service manager's timeout or with the power, or stopped by a failure of a
\* local file: the lock goes with the process.
Kill(i) ==
    /\ ~At(i, "idle") /\ Exit(i) /\ Unlock(i)
    /\ UNCHANGED <<world, receipt, last, starts, entries>>

Next ==
    \/ Report \/ NewSession
    \/ \E k \in Keys, enabled \in BOOLEAN : Configure(k, enabled)
    \/ \E i \in Invocations :
           \/ \E mode \in {"publish", "validate", "ready", "dry"} : Start(i, mode)
           \/ Check(i) \/ Lock(i) \/ Unlink(i) \/ ReadStatus(i) \/ ReadResult(i) \/ Build(i)
           \/ Accepted(i) \/ Refused(i) \/ Receipt(i) \/ ReadPrior(i) \/ Record(i) \/ Note(i) \/ Invalidate(i) \/ Kill(i)

Spec == Init /\ [][Next]_pubvars
-----------------------------------------------------------------------------
\* What is public is authorised and of the running clock.  A measurement goes out only under a
\* key that the server had taken a validation of, one post at a time, from a result and a
\* status of one session; an unfinished or failed validation leaves no receipt; and the last
\* success on record is a measurement that was taken (thingspeak.py, run_thingspeak).
PublicationIsAuthorised ==
    /\ \A n \in DOMAIN entries : entries[n].kind = "publish" =>
           \E m \in 1..n - 1 : entries[m].kind = "validate" /\ entries[m].key = entries[n].key
    /\ \A i, j \in Invocations : At(i, "post") /\ At(j, "post") => i = j
    /\ \A i \in Invocations : At(i, "post") /\ invs[i].mode = "publish" => invs[i].status = invs[i].result
    /\ \A i \in Invocations : At(i, "post") /\ invs[i].mode = "validate" => receipt = None
    /\ last # 0 => last <= Len(entries) /\ entries[last].kind = "publish"
    /\ receipt # None => \E n \in DOMAIN entries : entries[n].kind = "validate" /\ entries[n].key = receipt
=============================================================================
