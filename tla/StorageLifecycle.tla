------------------------- MODULE StorageLifecycle -------------------------
(***************************************************************************)
(* One closed segment in the hands of the Pi's storage worker (storage.py):*)
(* compressed in place, copied to an archive, expired file by file, and    *)
(* finally taken away with its manifest.  Every file operation is a step,  *)
(* and the worker may be killed, or fail, between any two.  Files are      *)
(* moved in two phases, data and record, so the order of the steps decides *)
(* what a restart finds.                                                   *)
(***************************************************************************)
EXTENDS Integers, FiniteSets, Sequences

CONSTANTS
    NeverExpire, \* the first age at which nothing more expires
    MaxFaults    \* failures, kills, damage to the archive, changes of the mount

\* A data file of each retention group, in the order of the groups.
Members == <<"diag", "meas", "summ">>

StorageAssumption ==
    /\ NeverExpire = Len(Members) /\ MaxFaults \in Nat

Names == {Members[i] : i \in 1..Len(Members)}
Metadata == {"manifest.json", "lifecycle.json", ".retirement.json"}

VARIABLES
    local,     \* forms in which each file is in the segment: "plain", "gz"
    meta,      \* metadata files of the segment
    place,     \* "segment", ".expired" after the rename, "gone"
    saved,     \* lifecycle.json
    archive,   \* form of each file in the archive: "none", "plain", "gz", "bad"
    archived,  \* the archive destination is there (renamed into place)
    mounted,   \* archive_dir is available
    consumed,  \* the replay cursor has passed the segment
    age,       \* how many retention groups are past their days
    pc,        \* the next step of the pass
    work,      \* the pass's copy of lifecycle.json
    checked,   \* the archive was verified in this pass (_prune's `verified`)
    wfaults    \* faults so far

dirs == <<local, meta, place, saved, archive, archived>>
pass == <<pc, work, checked>>
world == <<mounted, consumed, age>>
swvars == <<dirs, pass, world, wfaults>>

NoRecord == [recorded |-> FALSE, gz |-> FALSE, expired |-> FALSE]
NewState == [files |-> [f \in Names |-> NoRecord], verified |-> FALSE, immutable |-> FALSE]

Form(state, f) == IF state.files[f].gz THEN "gz" ELSE "plain"
AllRecorded(state) == \A f \in Names : state.files[f].recorded
Expired(state, f) == state.files[f].expired
Ready(f) == f \in Names /\ local[f] # {}

\* _verify_archive(): every member, in the form the lifecycle records.
ArchiveIntact(state) ==
    archived /\ mounted /\ \A f \in Names : archive[f] = Form(state, f)

Charge == wfaults < MaxFaults /\ wfaults' = wfaults + 1
Goto(label) == pc' = label
Step(i, label) == <<label, i>>
Idle == <<"idle", 0>>

-----------------------------------------------------------------------------
(* The pass: maintain_storage() up to the segment.                          *)

\* _load_state() and _check_complete(): what the record says is there must be there.
Begin ==
    /\ pc = Idle /\ place = "segment" /\ consumed
    /\ work' = IF "lifecycle.json" \in meta THEN saved ELSE NewState
    /\ \A f \in Names : \/ Expired(work', f)
                        \/ work'.files[f].recorded /\ Form(work', f) \in local[f]
                        \/ ~work'.files[f].recorded /\ local[f] # {}
    /\ checked' = FALSE
    /\ Goto(Step(1, "mount"))
    /\ UNCHANGED <<dirs, world, wfaults>>

\* A verified archive that cannot be reached is invalidated; then compression and
\* offload if there is work for them.
Mount ==
    /\ pc = Step(1, "mount")
    /\ IF work.verified /\ ~mounted
       THEN /\ work' = [work EXCEPT !.verified = FALSE, !.immutable = TRUE]
            /\ saved' = work' /\ meta' = meta \cup {"lifecycle.json"}
       ELSE UNCHANGED <<work, saved, meta>>
    /\ Goto(IF \/ ~AllRecorded(work)
               \/ ~work'.verified /\ (mounted \/ \E f \in Names : ~Expired(work, f) /\ "plain" \in local[f])
            THEN Step(1, "compress") ELSE Step(1, "prune"))
    /\ UNCHANGED <<local, place, archive, archived, world, checked, wfaults>>

-----------------------------------------------------------------------------
(* _compress(): nothing once an archive was acknowledged; else per file the  *)
(* verified copy, the record, and only then the original.                   *)

CompressDone ==
    /\ pc[1] = "compress"
    /\ work.verified \/ work.immutable \/ pc[2] > Len(Members)
    /\ Goto(Step(1, "offload"))
    /\ UNCHANGED <<dirs, world, work, checked, wfaults>>

\* Compression may be switched off, or deferred for lack of scratch space.
CompressFile(now) ==
    /\ pc[1] = "compress" /\ ~(work.verified \/ work.immutable) /\ pc[2] <= Len(Members)
    /\ LET f    == Members[pc[2]]
           skip == Expired(work, f) \/ (work.files[f].gz /\ "plain" \notin local[f])
           form == IF now \/ "gz" \in local[f] THEN "gz" ELSE "plain"
       IN  IF skip
           THEN /\ Goto(Step(pc[2] + 1, "compress"))
                /\ UNCHANGED <<local, work>>
           ELSE /\ local' = [local EXCEPT ![f] = @ \cup {form}]
                /\ work' = [work EXCEPT !.files[f] = [recorded |-> TRUE, gz |-> form = "gz", expired |-> FALSE]]
                /\ Goto(Step(pc[2], "record"))
    /\ UNCHANGED <<meta, place, saved, archive, archived, world, checked, wfaults>>

CompressRecord ==
    /\ pc[1] = "record"
    /\ saved' = work /\ meta' = meta \cup {"lifecycle.json"}
    /\ Goto(Step(pc[2], "original"))
    /\ UNCHANGED <<local, place, archive, archived, world, work, checked, wfaults>>

CompressUnlink ==
    /\ pc[1] = "original"
    /\ LET f == Members[pc[2]]
       IN  local' = [local EXCEPT ![f] = IF work.files[f].gz THEN @ \ {"plain"} ELSE @]
    /\ Goto(Step(pc[2] + 1, "compress"))
    /\ UNCHANGED <<meta, place, saved, archive, archived, world, work, checked, wfaults>>

-----------------------------------------------------------------------------
(* _offload(): an archive that is there is verified again; one that is not   *)
(* is copied aside, verified and renamed - unless something has expired.    *)

Offload ==
    /\ pc[1] = "offload"
    /\ IF ~mounted
       THEN Goto(Step(1, "prune")) /\ UNCHANGED <<archive, archived, work, saved, meta>>
       ELSE IF archived /\ ~ArchiveIntact(work)
       THEN /\ work' = [work EXCEPT !.verified = FALSE, !.immutable = work.verified \/ work.immutable]
            /\ saved' = work' /\ meta' = meta \cup {"lifecycle.json"}
            /\ Goto(Step(1, "prune"))
            /\ UNCHANGED <<archive, archived>>
       ELSE IF ~archived /\ \E f \in Names : Expired(work, f)
       THEN Goto(Step(1, "prune")) /\ UNCHANGED <<archive, archived, work, saved, meta>>
       ELSE /\ archive' = [f \in Names |-> Form(work, f)]
            /\ archived' = TRUE
            /\ Goto(Step(1, "acknowledge"))
            /\ UNCHANGED <<work, saved, meta>>
    /\ UNCHANGED <<local, place, world, checked, wfaults>>

Acknowledge ==
    /\ pc = Step(1, "acknowledge")
    /\ work' = [work EXCEPT !.verified = TRUE, !.immutable = TRUE]
    /\ saved' = work' /\ meta' = meta \cup {"lifecycle.json"}
    /\ Goto(Step(1, "prune"))
    /\ UNCHANGED <<local, place, archive, archived, world, checked, wfaults>>

-----------------------------------------------------------------------------
(* _prune(): by group; what is due goes only from a verified archive, marked *)
(* expired before it is unlinked.                                            *)

\* Mutant: an archive that was acknowledged once is trusted ever after.
RefutedNever == FALSE

\* The archive is verified again, once in a pass, before anything is expired.
Refuted == ~checked /\ ~ArchiveIntact(work)

\* pressure: diagnostics and measurements go before their age, summaries never.
\* Where saving the mark fails, only the pass's copy has it.
PruneMark(pressure, saves) ==
    /\ pc[1] = "prune"
    /\ IF pc[2] > Len(Members) \/ ~AllRecorded(work)
       THEN Goto(Step(1, "retire")) /\ UNCHANGED <<work, saved, meta, checked>>
       ELSE LET f    == Members[pc[2]]
                due  == Expired(work, f) \/ age >= pc[2] \/ (pressure /\ pc[2] < Len(Members))
                gone == Expired(work, f) /\ Form(work, f) \notin local[f]
            IN  IF ~due \/ gone \/ ~mounted \/ ~work.verified
                THEN Goto(Step(pc[2] + 1, "prune")) /\ UNCHANGED <<work, saved, meta, checked>>
                ELSE IF Refuted
                THEN /\ work' = [work EXCEPT !.verified = FALSE, !.immutable = TRUE]
                     /\ saved' = work' /\ meta' = meta \cup {"lifecycle.json"}
                     /\ Goto(Step(pc[2] + 1, "prune"))
                     /\ UNCHANGED checked
                ELSE /\ work' = [work EXCEPT !.files[f].expired = TRUE]
                     /\ IF saves THEN saved' = work' ELSE UNCHANGED saved
                     /\ checked' = TRUE
                     /\ Goto(IF saves THEN Step(pc[2], "unlink") ELSE Step(pc[2] + 1, "prune"))
                     /\ UNCHANGED meta
    /\ IF saves THEN UNCHANGED wfaults ELSE Charge
    /\ UNCHANGED <<local, place, archive, archived, world>>

PruneUnlink ==
    /\ pc[1] = "unlink"
    /\ LET f == Members[pc[2]]
       IN  local' = [local EXCEPT ![f] = @ \ {Form(work, f)}]
    /\ Goto(Step(pc[2] + 1, "prune"))
    /\ UNCHANGED <<meta, place, saved, archive, archived, world, work, checked, wfaults>>

-----------------------------------------------------------------------------
(* _retire_segments() and _finish_retired().                                *)

Retirable ==
    /\ AllRecorded(work) /\ \A f \in Names : Expired(work, f)
    /\ age = NeverExpire
    /\ \A f \in Names : local[f] = {}
    /\ mounted

\* The archive is checked once more, and the marker written beside the manifest.
RetireMark ==
    /\ pc[1] = "retire"
    /\ IF ~Retirable
       THEN Goto(Idle) /\ UNCHANGED <<work, saved, meta>>
       ELSE IF ArchiveIntact(work)
       THEN /\ meta' = meta \cup {".retirement.json"}
            /\ Goto(Step(1, "rename"))
            /\ UNCHANGED <<work, saved>>
       ELSE /\ work' = [work EXCEPT !.verified = FALSE, !.immutable = TRUE]
            /\ saved' = work'
            /\ Goto(Idle)
            /\ UNCHANGED meta
    /\ UNCHANGED <<local, place, archive, archived, world, checked, wfaults>>

RetireRename ==
    /\ pc = Step(1, "rename")
    /\ place' = ".expired"
    /\ Goto(Step(1, "finish"))
    /\ UNCHANGED <<local, meta, saved, archive, archived, world, work, checked, wfaults>>

\* An interrupted retirement is taken up by a later pass.
ResumeRetired ==
    /\ pc = Idle /\ place = ".expired"
    /\ Goto(Step(1, "finish"))
    /\ UNCHANGED <<dirs, world, work, checked, wfaults>>

\* Without the marker only an empty directory may go; with it the archive must verify.
Finish ==
    /\ pc = Step(1, "finish")
    /\ IF meta = {} THEN Goto(Step(1, "rmdir"))
       ELSE IF ".retirement.json" \in meta /\ ArchiveIntact(saved) THEN Goto(Step(1, "metadata"))
       ELSE Goto(Idle)
    /\ UNCHANGED <<dirs, world, work, checked, wfaults>>

\* Mutant: the marker goes first.
UnlinkedMarkerFirst ==
    IF ".retirement.json" \in meta THEN meta \ {".retirement.json"}
    ELSE IF "manifest.json" \in meta THEN meta \ {"manifest.json"} ELSE {}

\* Manifest, then lifecycle, then the marker, each unlinked where it is still there.
Unlinked ==
    IF "manifest.json" \in meta THEN meta \ {"manifest.json"}
    ELSE IF "lifecycle.json" \in meta THEN meta \ {"lifecycle.json"} ELSE {}

FinishUnlink ==
    /\ pc = Step(1, "metadata")
    /\ meta' = Unlinked
    /\ Goto(IF meta' = {} THEN Step(1, "rmdir") ELSE pc)
    /\ UNCHANGED <<local, place, saved, archive, archived, world, work, checked, wfaults>>

Rmdir ==
    /\ pc = Step(1, "rmdir")
    /\ place' = "gone"
    /\ Goto(Idle)
    /\ UNCHANGED <<local, meta, saved, archive, archived, world, work, checked, wfaults>>

-----------------------------------------------------------------------------
(* Failure, and the world around.                                            *)

\* The process is killed; the next pass starts from what is on disk.
Killed ==
    /\ pc # Idle /\ Charge
    /\ Goto(Idle)
    /\ UNCHANGED <<dirs, world, work, checked>>

\* An OSError: work on the segment ends, the pass goes on with its copy of the state.
Failed ==
    /\ Charge
    /\ \/ pc[1] \in {"compress", "record", "original", "offload", "acknowledge"} /\ Goto(Step(1, "prune"))
       \/ pc[1] = "unlink" /\ Goto(Step(pc[2] + 1, "prune"))
       \/ pc[1] \in {"rename", "finish", "metadata", "rmdir"} /\ Goto(Idle)
    /\ UNCHANGED <<dirs, world, work, checked>>

\* Between passes: the archive is damaged, or comes and goes.
Damage ==
    /\ pc = Idle /\ archived /\ Charge
    /\ \E f \in Names : archive' = [archive EXCEPT ![f] = "bad"]
    /\ UNCHANGED <<local, meta, place, saved, archived, world, pass>>

Remount ==
    /\ pc = Idle
    /\ mounted' = ~mounted
    /\ mounted => wfaults < MaxFaults
    /\ wfaults' = IF mounted THEN wfaults + 1 ELSE wfaults
    /\ UNCHANGED <<dirs, pass, consumed, age>>

Consume ==
    /\ ~consumed /\ consumed' = TRUE
    /\ UNCHANGED <<dirs, pass, mounted, age, wfaults>>

Older ==
    /\ pc = Idle /\ age < NeverExpire /\ age' = age + 1
    /\ UNCHANGED <<dirs, pass, mounted, consumed, wfaults>>

Init ==
    /\ local = [f \in Names |-> {"plain"}]
    /\ meta = {"manifest.json"} /\ place = "segment" /\ saved = NewState
    /\ archive = [f \in Names |-> "none"] /\ archived = FALSE
    /\ mounted \in BOOLEAN /\ consumed = FALSE /\ age = 0
    /\ pc = Idle /\ work = NewState /\ checked = FALSE /\ wfaults = 0

Worker ==
    \/ Begin \/ Mount
    \/ CompressDone \/ (\E now \in BOOLEAN : CompressFile(now)) \/ CompressRecord \/ CompressUnlink
    \/ Offload \/ Acknowledge
    \/ (\E pressure \in BOOLEAN : PruneMark(pressure, TRUE)) \/ PruneUnlink
    \/ RetireMark \/ RetireRename \/ ResumeRetired \/ Finish \/ FinishUnlink \/ Rmdir

Next == Worker \/ (\E pressure \in BOOLEAN : PruneMark(pressure, FALSE)) \/ Killed \/ Failed \/ Damage \/ Remount \/ Consume \/ Older

\* Passes follow one another; time passes; the replay consumes; a mount returns
\* between passes again and again.
Fairness ==
    /\ WF_swvars(Worker) /\ WF_swvars(Older) /\ WF_swvars(Consume)
    /\ SF_swvars(Remount /\ ~mounted)

Spec == Init /\ [][Next]_swvars /\ Fairness

-----------------------------------------------------------------------------
(* Properties.                                                              *)

\* A file's last local copy goes only while the archive holds a good one, and never
\* before the replay has read the segment ("Retention never removes a sole copy").
KeepsSoleCopies ==
    \A f \in Names : local[f] # {} /\ local'[f] = {} => consumed /\ ArchiveIntact(saved)
SoleCopyIsKept == [][KeepsSoleCopies]_swvars

\* "A crash can leave an extra copy, never an unexplained missing one": a file that
\* is not there has a durable record of its expiry, whatever was interrupted.
MissingIsExplained ==
    \A f \in Names : local[f] = {} =>
        \/ place = "gone"
        \/ Expired(saved, f)
        \/ ".retirement.json" \in meta

\* No kill or failure leaves the directory in a state the next pass refuses: a
\* closed segment loads, and a retired one is recoverable by its marker or empty.
PassesGoOn ==
    pc = Idle =>
        /\ place = "segment" =>
              \A f \in Names :
                  LET state == IF "lifecycle.json" \in meta THEN saved ELSE NewState
                  IN  \/ Expired(state, f)
                      \/ state.files[f].recorded /\ Form(state, f) \in local[f]
                      \/ ~state.files[f].recorded /\ local[f] # {}
        /\ place = ".expired" => meta = {} \/ ".retirement.json" \in meta

\* Once everything is past its days, the segment is taken away - unless its archive
\* was damaged, when what is left stays, or is stranded: renamed into place but never
\* acknowledged, in a form that later compression has left behind (RetriesSucceed).
Damaged == \E f \in Names : archive[f] = "bad"
Stranded == archived /\ ~saved.immutable /\ \E f \in Names : archive[f] # Form(saved, f)
RetiredAtLast == age = NeverExpire ~> (place = "gone" \/ Damaged \/ Stranded)

\* What the storage documentation says of an interrupted transfer: maintenance is
\* restart-safe and a retry does not repeat a successful transfer - so a transfer
\* that reached the archive is acknowledged in the end.
RetriesSucceed == archived ~> (saved.verified \/ Damaged \/ place = "gone")
=============================================================================
