------------------------------ MODULE LiveProofs ------------------------------
(***************************************************************************)
(* Safety of the parts of MCLive, for every value of their constants: the   *)
(* I2C bus has one user at a time, whoever dies where; the startup replay   *)
(* is sent unasked at most once, whatever commands and resets interleave;   *)
(* permits and locks of downloads are given back once; the queue of ranges  *)
(* is bounded and a chart is of the segment it is shown for.                *)
(***************************************************************************)
EXTENDS MCLive, SequenceTheorems, FiniteSetTheorems, TLAPS

USE I2cAssumption
-----------------------------------------------------------------------------
(* The I2C bus: the inductive invariant *)

States == {"idle", "waiting", "verifying", "exhausted", "quiescing", "recovering", "unavailable",
           "restore_failed"}

Files == [state : States, attempts : 0 .. Attempts, blocked : BOOLEAN, generation : Nat \ {0},
          samples : Nat, pending : BOOLEAN]

Types ==
    /\ lock \in Workers \cup {Helper, Nobody}
    /\ file \in Files
    /\ helper \in {"down", "starting", "ready", "suspects", "unbinding", "pins", "restoring"}
    /\ fd \in [Workers -> Nat] /\ seen \in [Workers -> Nat]
    /\ stuck \in Nat /\ spent \in Nat /\ bound \in BOOLEAN

\* The helper holds the lock from the first bad look to the end of the step, and only then.
HelperLocks == lock = Helper <=> helper \in {"suspects", "unbinding", "pins", "restoring"}

\* What the controller needs is on record before it is touched, and stays until it is done:
\* a restore that is owed blocks the bus, and no worker is inside a blocked bus.
RestoreIsOwed ==
    /\ ~bound => file.pending
    /\ file.pending => file.blocked /\ helper \notin {"ready", "suspects"}
    /\ helper \in {"suspects", "unbinding", "pins", "restoring"} => file.blocked
    /\ helper \in {"unbinding", "pins", "restoring"} => file.pending
    /\ file.blocked => lock \notin Workers

\* A device that is open was opened in the generation its worker has seen.
DevicesAreSeen ==
    /\ \A w \in Workers : fd[w] # 0 => fd[w] = seen[w]
    /\ \A w \in Workers : lock = w => fd[w] = file.generation
    /\ helper \in {"unbinding", "pins", "restoring"} => \A w \in Workers : fd[w] = 0

\* An attempt is on record before its first pulse.
AttemptsAreRecorded ==
    /\ spent <= file.attempts
    /\ helper \in {"unbinding", "pins"} => spent < file.attempts

Inv == Types /\ HelperLocks /\ RestoreIsOwed /\ DevicesAreSeen /\ AttemptsAreRecorded

LEMMA InitInv == Init => Inv
<1>. SUFFICES ASSUME Init PROVE Inv
  OBVIOUS
<1>1. Fresh \in Files
  BY DEF Fresh, Files, States
<1>2. Types
  BY <1>1 DEF Init, Types
<1>3. ~file.pending /\ ~file.blocked /\ file.attempts = 0
  BY DEF Init, Fresh
<1>. QED
  BY <1>2, <1>3 DEF Init, Inv, HelperLocks, RestoreIsOwed, DevicesAreSeen, AttemptsAreRecorded
-----------------------------------------------------------------------------
(* The workers: they move only the lock, from Nobody and back, and their devices *)

LEMMA WorkerStep ==
    ASSUME Inv, NEW w \in Workers,
           SeesBlocked(w) \/ Enter(w) \/ Succeed(w) \/ FailTransfer(w) \/ WorkerStops(w)
    PROVE  Inv'
<1>1. UNCHANGED <<file, helper, stuck, spent, bound>>
  BY DEF SeesBlocked, Enter, Succeed, FailTransfer, WorkerStops
<1>2. \/ lock' = lock
      \/ lock = w /\ lock' = Nobody
      \/ lock = Nobody /\ lock' = w /\ ~file.blocked
  BY DEF SeesBlocked, Enter, Succeed, FailTransfer, WorkerStops
<1>3. /\ fd' \in [Workers -> Nat] /\ seen' \in [Workers -> Nat]
      /\ \A v \in Workers : v # w => fd'[v] = fd[v] /\ seen'[v] = seen[v]
  BY DEF SeesBlocked, Enter, Succeed, FailTransfer, WorkerStops, Inv, Types, Files
<1>4. fd'[w] # 0 => fd'[w] = seen'[w]
  BY DEF SeesBlocked, Enter, Succeed, FailTransfer, WorkerStops, Inv, Types, Files, DevicesAreSeen
<1>5. lock' = w => fd'[w] = file.generation
  BY DEF SeesBlocked, Enter, Succeed, FailTransfer, WorkerStops, Inv, Types, Files, DevicesAreSeen
<1>6. helper \in {"unbinding", "pins", "restoring"} => fd'[w] = 0
  BY DEF SeesBlocked, Enter, Succeed, FailTransfer, WorkerStops, Inv, Types, DevicesAreSeen, HelperLocks
<1>7. Types'
  BY <1>1, <1>2, <1>3 DEF Inv, Types
<1>8. HelperLocks' /\ RestoreIsOwed'
  BY <1>1, <1>2 DEF Inv, HelperLocks, RestoreIsOwed
<1>9. DevicesAreSeen'
  BY <1>1, <1>2, <1>3, <1>4, <1>5, <1>6 DEF Inv, DevicesAreSeen
<1>. QED  BY <1>1, <1>7, <1>8, <1>9 DEF Inv, AttemptsAreRecorded
-----------------------------------------------------------------------------
(* The helper *)

\* A step of the helper touches no device.
LEMMA AwayKeeps ==
    ASSUME Inv, UNCHANGED <<fd, seen>>, file' \in Files, file'.generation = file.generation,
           lock' \in {lock, Helper, Nobody},
           helper' \in {"unbinding", "pins", "restoring"} => helper \in {"unbinding", "pins", "restoring"}
    PROVE  DevicesAreSeen'
  BY DEF Inv, Types, DevicesAreSeen

\* What an exception leaves behind.
LEMMA RaisedFile ==
    ASSUME Inv, Raised(file)
    PROVE  /\ file' \in Files /\ lock' = Nobody /\ helper' = "starting"
           /\ file'.attempts = file.attempts /\ file'.generation = file.generation
           /\ file'.pending = file.pending
           /\ file'.blocked = (file.blocked \/ file.pending)
<1>1. file \in Files
  BY DEF Inv, Types
<1>2. CASE file.pending
  BY <1>1, <1>2 DEF Raised, Publish, Files, States
<1>3. CASE ~file.pending
  BY <1>1, <1>3 DEF Raised, Publish, Files, States
<1>. QED  BY <1>2, <1>3

LEMMA RaisedStep ==
    ASSUME Inv, Raised(file), lock = Nobody \/ lock = Helper, bound' \in {bound, TRUE},
           UNCHANGED <<fd, seen, stuck, spent>>
    PROVE  Inv'
<1>1. /\ file' \in Files /\ lock' = Nobody /\ helper' = "starting"
      /\ file'.attempts = file.attempts /\ file'.generation = file.generation
      /\ file'.pending = file.pending
      /\ file'.blocked = (file.blocked \/ file.pending)
  BY RaisedFile
<1>2. Types'
  BY <1>1 DEF Inv, Types
<1>3. HelperLocks' /\ AttemptsAreRecorded'
  BY <1>1 DEF Inv, HelperLocks, AttemptsAreRecorded
<1>4. RestoreIsOwed'
  BY <1>1 DEF Inv, RestoreIsOwed
<1>5. DevicesAreSeen'
  BY <1>1, AwayKeeps
<1>. QED  BY <1>2, <1>3, <1>4, <1>5 DEF Inv

LEMMA StartStep == Inv /\ StartHelper => Inv'
<1>. SUFFICES ASSUME Inv, StartHelper PROVE Inv'
  OBVIOUS
<1>1. /\ file' \in Files /\ ~file'.pending
      /\ file'.attempts = file.attempts /\ file'.generation = file.generation
      /\ file'.blocked = (file.blocked \/ file.pending)
  <2>1. file \in Files
    BY DEF Inv, Types
  <2>2. CASE file.pending
    BY <2>1, <2>2 DEF StartHelper, Publish, Files, States
  <2>3. CASE ~file.pending
    BY <2>1, <2>3 DEF StartHelper, Publish, Files
  <2>. QED  BY <2>2, <2>3
<1>2. /\ lock = Nobody /\ lock' = lock /\ helper' = "ready" /\ bound' = (bound \/ file.pending)
      /\ UNCHANGED <<spent, fd, seen, stuck>>
  BY DEF StartHelper, Away
<1>3. bound'
  BY <1>2 DEF Inv, RestoreIsOwed
<1>4. Types'
  BY <1>1, <1>2, <1>3 DEF Inv, Types
<1>5. HelperLocks' /\ AttemptsAreRecorded' /\ RestoreIsOwed'
  BY <1>1, <1>2, <1>3 DEF Inv, HelperLocks, AttemptsAreRecorded, RestoreIsOwed
<1>6. DevicesAreSeen'
  BY <1>1, <1>2, AwayKeeps
<1>. QED  BY <1>4, <1>5, <1>6 DEF Inv

\* A look changes what is on record of the lines, or begins a step.
LEMMA VerifiedFile ==
    ASSUME Inv
    PROVE  /\ Verified \in Files /\ Verified.generation = file.generation
           /\ Verified.pending = file.pending
           /\ \/ Verified.attempts = 0 /\ ~Verified.blocked
              \/ Verified.attempts = file.attempts /\ Verified.blocked = file.blocked
<1>1. file \in Files
  BY DEF Inv, Types
<1>2. CASE file.attempts = 0 /\ ~file.blocked
  BY <1>1, <1>2 DEF Verified, Files, States
<1>3. CASE ~(file.attempts = 0 /\ ~file.blocked) /\ file.samples + 1 >= Looks
  <2>1. Verified = [file EXCEPT !.state = "idle", !.attempts = 0, !.blocked = FALSE, !.samples = 0]
    BY <1>3 DEF Verified
  <2>2. Verified = [state |-> "idle", attempts |-> 0, blocked |-> FALSE, generation |-> file.generation,
                    samples |-> 0, pending |-> file.pending]
    BY <1>1, <2>1 DEF Files
  <2>. QED  BY <1>1, <2>2 DEF Files, States
<1>4. CASE ~(file.attempts = 0 /\ ~file.blocked) /\ ~(file.samples + 1 >= Looks)
  BY <1>1, <1>4 DEF Verified, Files, States
<1>. QED  BY <1>2, <1>3, <1>4

LEMMA LookStep == Inv /\ Look => Inv'
<1>. SUFFICES ASSUME Inv, Look PROVE Inv'
  OBVIOUS
<1>1. lock = Nobody /\ helper = "ready" /\ UNCHANGED <<bound, fd, seen, stuck>> /\ ~file.pending
  BY DEF Look, Away, Inv, RestoreIsOwed
<1>2. CASE High
  <2>1. file' = Verified /\ lock' = lock /\ helper' = helper
        /\ spent' = IF Verified.attempts = 0 /\ ~Verified.blocked THEN 0 ELSE spent
    BY <1>2 DEF Look, Publish
  <2>2. /\ file' \in Files /\ file'.generation = file.generation /\ file'.pending = file.pending
        /\ \/ file'.attempts = 0 /\ ~file'.blocked /\ spent' = 0
           \/ file'.attempts = file.attempts /\ file'.blocked = file.blocked /\ spent' \in {0, spent}
    BY <2>1, VerifiedFile
  <2>3. Types'
    BY <1>1, <2>1, <2>2 DEF Inv, Types
  <2>4. HelperLocks' /\ AttemptsAreRecorded'
    BY <1>1, <2>1, <2>2 DEF Inv, Types, Files, HelperLocks, AttemptsAreRecorded
  <2>5. RestoreIsOwed'
    BY <1>1, <2>1, <2>2 DEF Inv, RestoreIsOwed
  <2>6. DevicesAreSeen'
    BY <1>1, <2>1, <2>2, AwayKeeps
  <2>. QED  BY <2>3, <2>4, <2>5, <2>6 DEF Inv
<1>3. CASE ~High
  <2>1. file' = [file EXCEPT !.blocked = TRUE, !.samples = 0] /\ lock' = Helper /\ helper' = "suspects"
        /\ spent' = spent
    BY <1>3 DEF Look, Publish
  <2>2. /\ file' \in Files /\ file'.generation = file.generation /\ file'.pending = file.pending
        /\ file'.attempts = file.attempts /\ file'.blocked
    BY <2>1 DEF Inv, Types, Files
  <2>3. Types'
    BY <1>1, <2>1, <2>2 DEF Inv, Types
  <2>4. HelperLocks' /\ AttemptsAreRecorded' /\ RestoreIsOwed'
    BY <1>1, <2>1, <2>2 DEF Inv, HelperLocks, AttemptsAreRecorded, RestoreIsOwed
  <2>5. DevicesAreSeen'
    BY <1>1, <2>1, <2>2, AwayKeeps
  <2>. QED  BY <2>3, <2>4, <2>5 DEF Inv
<1>. QED  BY <1>2, <1>3

\* The step ends with a word about why, or the controller is about to be taken away.
LEMMA DecideStep == Inv /\ Decide => Inv'
<1>. SUFFICES ASSUME Inv, Decide PROVE Inv'
  OBVIOUS
<1>1. /\ helper = "suspects" /\ lock = Helper /\ file \in Files /\ ~file.pending /\ file.blocked
      /\ UNCHANGED <<bound, spent, fd, seen, stuck>>
  BY DEF Decide, Away, Inv, Types, HelperLocks, RestoreIsOwed
<1>2. ASSUME NEW s \in States, file' = [file EXCEPT !.state = s], Leave
      PROVE  Inv'
  <2>1. /\ file' \in Files /\ file'.generation = file.generation /\ ~file'.pending
        /\ file'.attempts = file.attempts /\ file'.blocked
    BY <1>1, <1>2 DEF Files
  <2>2. lock' = Nobody /\ helper' = "ready"
    BY <1>2 DEF Leave
  <2>3. Types'
    BY <1>1, <2>1, <2>2 DEF Inv, Types
  <2>4. HelperLocks' /\ AttemptsAreRecorded' /\ RestoreIsOwed'
    BY <1>1, <2>1, <2>2 DEF Inv, HelperLocks, AttemptsAreRecorded, RestoreIsOwed
  <2>5. DevicesAreSeen'
    BY <1>1, <2>1, <2>2, AwayKeeps
  <2>. QED  BY <2>3, <2>4, <2>5 DEF Inv
<1>3. ASSUME ~(file.attempts >= Attempts), Open = {}, lock' = lock, helper' = "unbinding",
             file' = [file EXCEPT !.attempts = @ + 1, !.state = "recovering", !.pending = TRUE,
                                  !.generation = @ + 1]
      PROVE  Inv'
  <2>1. /\ file' \in Files /\ file'.pending /\ file'.attempts = file.attempts + 1 /\ file'.blocked
    <3>1. file' = [state |-> "recovering", attempts |-> file.attempts + 1, blocked |-> file.blocked,
                   generation |-> file.generation + 1, samples |-> file.samples, pending |-> TRUE]
      BY <1>1, <1>3 DEF Files
    <3>2. file.attempts + 1 \in 0 .. Attempts /\ file.generation + 1 \in Nat \ {0}
      BY <1>1, <1>3 DEF Files
    <3>. QED  BY <1>1, <3>1, <3>2 DEF Files, States
  <2>2. \A w \in Workers : fd[w] = 0
    BY <1>3 DEF Open
  <2>3. Types'
    BY <1>1, <1>3, <2>1 DEF Inv, Types
  <2>4. HelperLocks' /\ RestoreIsOwed'
    BY <1>1, <1>3, <2>1 DEF Inv, HelperLocks, RestoreIsOwed
  <2>5. AttemptsAreRecorded'
    BY <1>1, <1>3, <2>1 DEF Inv, Types, Files, AttemptsAreRecorded
  <2>6. DevicesAreSeen'
    BY <1>1, <1>3, <2>2 DEF DevicesAreSeen
  <2>. QED  BY <2>3, <2>4, <2>5, <2>6 DEF Inv
<1>. QED  BY <1>1, <1>2, <1>3 DEF Decide, Publish, States

LEMMA RecoveryStep == Inv /\ (Unbind \/ Pulses) => Inv'
<1>. SUFFICES ASSUME Inv, Unbind \/ Pulses PROVE Inv'
  OBVIOUS
<1>1. /\ UNCHANGED <<lock, file, fd, seen>> /\ helper \in {"unbinding", "pins"}
      /\ helper' \in {"pins", "restoring"} /\ bound' \in {bound, FALSE}
  BY DEF Unbind, Pulses, Away
<1>2. stuck' \in Nat /\ spent' \in Nat /\ spent' <= file.attempts
      /\ (helper' = "pins" => spent' = spent)
  BY DEF Unbind, Pulses, Away, Hard, Inv, Types, Files, AttemptsAreRecorded
<1>3. Types'
  BY <1>1, <1>2 DEF Inv, Types
<1>4. HelperLocks' /\ RestoreIsOwed' /\ DevicesAreSeen'
  BY <1>1 DEF Inv, HelperLocks, RestoreIsOwed, DevicesAreSeen
<1>5. AttemptsAreRecorded'
  BY <1>1, <1>2 DEF Inv, AttemptsAreRecorded, Unbind, Pulses
<1>. QED  BY <1>3, <1>4, <1>5 DEF Inv

LEMMA RestoreStep == Inv /\ Restore => Inv'
<1>. SUFFICES ASSUME Inv, Restore PROVE Inv'
  OBVIOUS
<1>1. /\ helper = "restoring" /\ lock = Helper /\ lock' = Nobody /\ helper' = "ready" /\ bound'
      /\ UNCHANGED <<spent, fd, seen, stuck>> /\ file \in Files
  BY DEF Restore, Leave, Away, Inv, Types, HelperLocks
<1>2. PICK b \in BOOLEAN, s \in States :
         file' = [file EXCEPT !.pending = FALSE, !.blocked = b, !.state = s]
  BY DEF Restore, Publish, States
<1>3. /\ file' \in Files /\ file'.generation = file.generation /\ ~file'.pending
      /\ file'.attempts = file.attempts
  BY <1>1, <1>2 DEF Files
<1>4. Types'
  BY <1>1, <1>3 DEF Inv, Types
<1>5. HelperLocks' /\ AttemptsAreRecorded' /\ RestoreIsOwed'
  BY <1>1, <1>3 DEF Inv, HelperLocks, AttemptsAreRecorded, RestoreIsOwed
<1>6. DevicesAreSeen'
  BY <1>1, <1>3, AwayKeeps
<1>. QED  BY <1>4, <1>5, <1>6 DEF Inv

\* Killed anywhere: the lock goes with it, the record stays.
LEMMA KilledStep == Inv /\ (HelperKilled \/ HelperStarts \/ NotDue) => Inv'
<1>. SUFFICES ASSUME Inv, HelperKilled \/ HelperStarts \/ NotDue PROVE Inv'
  OBVIOUS
<1>1. /\ UNCHANGED <<file, fd, seen, stuck, bound, spent>>
      /\ lock' = (IF helper' = "down" /\ lock = Helper THEN Nobody ELSE lock)
      /\ helper' \in {"down", "starting", "ready"}
      /\ helper' # "down" => helper \in {"down", "ready"}
      /\ helper' = "ready" => helper = "ready"
  BY DEF HelperKilled, HelperStarts, NotDue, Away
<1>2. Types'
  BY <1>1 DEF Inv, Types
<1>3. HelperLocks'
  BY <1>1 DEF Inv, HelperLocks
<1>4. RestoreIsOwed' /\ DevicesAreSeen' /\ AttemptsAreRecorded'
  BY <1>1 DEF Inv, RestoreIsOwed, DevicesAreSeen, AttemptsAreRecorded
<1>. QED  BY <1>2, <1>3, <1>4 DEF Inv

LEMMA WiresStep == Inv /\ (Stick \/ Unstick \/ UNCHANGED i2cvars) => Inv'
<1>. SUFFICES ASSUME Inv, Stick \/ Unstick \/ UNCHANGED i2cvars PROVE Inv'
  OBVIOUS
<1>1. UNCHANGED <<lock, file, helper, fd, seen, bound, spent>> /\ stuck' \in Nat
  BY DEF Stick, Unstick, i2cvars, Hard, Inv, Types
<1>. QED  BY <1>1 DEF Inv, Types, HelperLocks, RestoreIsOwed, DevicesAreSeen, AttemptsAreRecorded

LEMMA StepInv == Inv /\ [Next]_i2cvars => Inv'
<1>1. Inv /\ (StartFails \/ RestoreFails) => Inv'
  BY RaisedStep DEF StartFails, RestoreFails, Inv, HelperLocks
<1>. QED
  BY <1>1, WorkerStep, StartStep, LookStep, DecideStep, RecoveryStep, RestoreStep, KilledStep, WiresStep
     DEF Next, HelperStep

LEMMA InvIsExclusive == Inv => BusIsExclusive
  BY DEF Inv, Types, Files, HelperLocks, RestoreIsOwed, DevicesAreSeen, AttemptsAreRecorded,
         BusIsExclusive, BudgetHolds, Open

\* Transfers, recoveries and restores exclude each other on the bus, no transfer uses a
\* device that was opened before the last recovery, and a fault never gets more pulses than
\* its budget, through every kill, restart and failed restore.
THEOREM BusHasOneUser == Spec => []BusIsExclusive
  BY InvIsExclusive, InitInv, StepInv, PTL DEF Spec
-----------------------------------------------------------------------------
(* The startup replay *)

HIDE I2cAssumption

LEMMA ReplayInit == S!Init => S!ReplayInv
<1>. SUFFICES ASSUME S!Init PROVE S!ReplayInv
  OBVIOUS
<1>1. /\ x1 = "setup" /\ x2 \in Nat /\ x8 \in Nat /\ x10 = 0 /\ x11 = 0
      /\ ~x3 /\ ~x5 /\ x3 \in BOOLEAN /\ x4 \in BOOLEAN /\ x5 \in BOOLEAN
  BY DEF S!Init
<1>. QED  BY <1>1 DEF S!ReplayInv

LEMMA ProcessPpsReplays ==
    ASSUME S!ReplayInv, S!ProcessPps
    PROVE  S!ReplayInv' /\ S!ReplaysUnheard
<1>1. S!ReemitDue => x10 = 0 /\ ~x4'
  BY DEF S!ReplayInv, S!ProcessPps, S!ReemitDue, S!ReemitClears
<1>2. S!RetryDue => x11 = 0 /\ ~x5' /\ ~x7 /\ ~x6
  BY DEF S!ReplayInv, S!ProcessPps, S!RetryDue, S!RetryDisarmed
<1>3. x10' \in {0, 1} /\ (x3 /\ x4' => x10' = 0) /\ x4' \in BOOLEAN
  BY <1>1 DEF S!ReplayInv, S!ProcessPps, S!ReemitClears, S!ReemitDue
<1>4. x11' \in {0, 1} /\ (x5' => x11' = 0) /\ x5' \in BOOLEAN
  BY <1>2 DEF S!ReplayInv, S!ProcessPps
<1>5. S!ReplaysUnheard
  BY <1>2 DEF S!ReplaysUnheard, S!ReplayInv, S!ProcessPps
<1>. QED
  BY <1>3, <1>4, <1>5 DEF S!ReplayInv, S!ProcessPps

LEMMA ReplayStep ==
    ASSUME S!DelayAssumption, S!ReplayInv, S!Next
    PROVE  S!ReplayInv' /\ S!ReplaysUnheard
<1>1. CASE S!TimePasses
  BY <1>1 DEF S!TimePasses, S!ReplayInv, S!ReplaysUnheard, S!flagVars, S!histVars
<1>2. CASE S!FinishSetup
  BY <1>2 DEF S!FinishSetup, S!ReplayInv, S!ReplaysUnheard, S!histVars
<1>3. CASE S!Command
  <2>1. CASE S!EmitMeta \/ S!EmitStartup
    <3>1. /\ x1 = "commands" /\ UNCHANGED <<x1, x2, x3, x5, x8, x10, x11>>
          /\ x4' = IF x3 THEN x4 ELSE TRUE
      BY <2>1 DEF S!EmitMeta, S!EmitStartup, S!EmitOrDefer, S!timeVars
    <3>. QED  BY <3>1 DEF S!ReplayInv, S!ReplaysUnheard
  <2>2. CASE S!OtherCommand
    BY <2>2 DEF S!OtherCommand, S!ReplayInv, S!ReplaysUnheard, S!timeVars, S!histVars
  <2>3. CASE S!ResetDefaults
    <3>1. /\ x1 = "commands" /\ UNCHANGED <<x1, x2, x4, x10, x11>> /\ x3' = FALSE /\ x5' = FALSE /\ x8' = 0
      BY <2>3 DEF S!ResetDefaults, S!timeVars
    <3>. QED  BY <3>1 DEF S!ReplayInv, S!ReplaysUnheard
  <2>. QED  BY <1>3, <2>1, <2>2, <2>3 DEF S!Command
<1>4. CASE S!CommandsDone
  BY <1>4 DEF S!CommandsDone, S!ReplayInv, S!ReplaysUnheard, S!flagVars, S!histVars
<1>5. CASE S!ProcessPps
  BY <1>5, ProcessPpsReplays
<1>. QED  BY <1>1, <1>2, <1>3, <1>4, <1>5 DEF S!Next
-----------------------------------------------------------------------------
(* Downloads *)

\* The instance counts as this module does.
LEMMA SameCounts == \A T : (W!IsFiniteSet(T) <=> IsFiniteSet(T)) /\ W!Cardinality(T) = Cardinality(T)
  BY DEF W!IsFiniteSet, IsFiniteSet, W!Cardinality, Cardinality

\* The requests in one of the states T.
In(f, T) == {v \in Requests : f[v] \in T}

\* What the count of those changes by when one request moves.
Change(from, to, T) == IF from \notin T /\ to \in T THEN 1 ELSE IF from \in T /\ to \notin T THEN -1 ELSE 0

\* The state of r, and of no other request, becomes `to'.
Moved(p, q, r, to) == \A v \in Requests : q[v] = IF v = r THEN to ELSE p[v]

\* One request moves from a state in T or not to one in T or not.
LEMMA Counted ==
    ASSUME IsFiniteSet(Requests), NEW p, NEW q, NEW r \in Requests, NEW to, NEW T,
           Moved(p, q, r, to)
    PROVE  /\ Cardinality(In(p, T)) \in Nat /\ Cardinality(In(q, T)) \in Nat
           /\ Cardinality(In(q, T)) = Cardinality(In(p, T)) + Change(p[r], to, T)
<1>1. IsFiniteSet(In(p, T)) /\ Cardinality(In(p, T)) \in Nat
  <2>1. In(p, T) \subseteq Requests
    BY DEF In
  <2>. QED  BY <2>1, FS_Subset, FS_CardinalityType
<1>2. CASE p[r] \notin T /\ to \in T
  <2>1. In(q, T) = In(p, T) \cup {r} /\ r \notin In(p, T)
    BY <1>2 DEF In, Moved
  <2>2. Cardinality(In(q, T)) = Cardinality(In(p, T)) + 1
    BY <1>1, <2>1, FS_AddElement
  <2>. QED  BY <1>1, <1>2, <2>2 DEF Change
<1>3. CASE p[r] \in T /\ to \notin T
  <2>1. In(q, T) = In(p, T) \ {r} /\ r \in In(p, T)
    BY <1>3 DEF In, Moved
  <2>2. Cardinality(In(p, T) \ {r}) =
           IF r \in In(p, T) THEN Cardinality(In(p, T)) - 1 ELSE Cardinality(In(p, T))
    BY <1>1, FS_RemoveElement, Zenon
  <2>3. IsFiniteSet(In(q, T))
    <3>1. In(q, T) \subseteq In(p, T)
      BY <2>1
    <3>. QED  BY <1>1, <3>1, FS_Subset
  <2>4. Cardinality(In(q, T)) = Cardinality(In(p, T)) - 1
    BY <2>1, <2>2
  <2>. QED  BY <1>1, <1>3, <2>3, <2>4, FS_CardinalityType DEF Change
<1>4. CASE ~(p[r] \notin T /\ to \in T) /\ ~(p[r] \in T /\ to \notin T)
  <2>1. In(q, T) = In(p, T)
    BY <1>4 DEF In, Moved
  <2>. QED  BY <1>1, <1>4, <2>1 DEF Change
<1>. QED  BY <1>2, <1>3, <1>4

DownloadsInv == W!TypeOK /\ W!DownloadsAreStable

\* States of a request that hold a permit; the last of them for good.
Holding == {"permitted", "locked", "streaming", "gone"}

\* The books, with the permits that are out counted by the states of the requests.
LEMMA Books ==
    /\ W!Open = In(x1, {"permitted", "locked", "streaming"})
    /\ {v \in Requests : x1[v] = "gone"} = In(x1, {"gone"})
    /\ {v \in Requests : x1[v] \in {"locked", "streaming"}} = In(x1, {"locked", "streaming"})
  BY DEF W!Open, In

LEMMA DownloadsInit ==
    ASSUME W!DownloadsAssumption, W!Init
    PROVE  DownloadsInv
<1>1. \A T \in {{"permitted", "locked", "streaming"}, {"gone"}, {"locked", "streaming"}} : In(x1, T) = {}
  BY DEF W!Init, In
<1>2. Cardinality({}) = 0
  BY FS_EmptySet
<1>3. W!TypeOK
  BY DEF W!Init, W!TypeOK, W!DownloadsAssumption
<1>4. Permits \in Nat
  BY DEF W!DownloadsAssumption
<1>5. x2 = Permits /\ x3 = {} /\ x4 = Permits /\ x5 = {} /\ x6 = {} /\ x7 = "idle"
  BY DEF W!Init
<1>6. x2 + Cardinality(W!Open) + Cardinality({v \in Requests : x1[v] = "gone"}) = Permits
  BY <1>1, <1>2, <1>4, <1>5, Books
<1>7. x4 + Cardinality(x3) = Permits
  BY <1>2, <1>4, <1>5
<1>8. x5 = {v \in Requests : x1[v] \in {"locked", "streaming"}}
  BY <1>1, <1>5, Books
<1>. QED  BY <1>3, <1>5, <1>6, <1>7, <1>8, SameCounts DEF W!DownloadsAreStable, DownloadsInv

\* A step of one request keeps the books if it takes a permit when it comes to hold one and
\* gives it back when it ceases to.
LEMMA RequestMoves ==
    ASSUME W!DownloadsAssumption, DownloadsInv, NEW r \in Requests,
           NEW to \in {"idle", "refused", "permitted", "locked", "streaming", "drained", "gone"},
           x1' = [x1 EXCEPT ![r] = to], UNCHANGED <<x3, x4, x7, x8, x9>>, x6' \subseteq x6,
           x5' = IF to \in {"locked", "streaming"} THEN x5 \cup {r} ELSE x5 \ {r},
           x7 = "holding" => to \notin {"locked", "streaming"},
           x1[r] \notin Holding /\ to \in Holding => x2 > 0,
           x2' = x2 + (IF x1[r] \in Holding THEN 1 ELSE 0) - (IF to \in Holding THEN 1 ELSE 0)
    PROVE  DownloadsInv'
<1>. DEFINE D == {"idle", "refused", "permitted", "locked", "streaming", "drained", "gone"}
            Stages == {"permitted", "locked", "streaming"}
<1>1. x1 \in [Requests -> D] /\ IsFiniteSet(Requests) /\ x2 \in Nat /\ Permits \in Nat
  BY SameCounts DEF DownloadsInv, W!TypeOK, W!DownloadsAssumption
<1>2. \A T : /\ Cardinality(In(x1, T)) \in Nat /\ Cardinality(In(x1', T)) \in Nat
             /\ Cardinality(In(x1', T)) = Cardinality(In(x1, T)) + Change(x1[r], to, T)
  <2>1. Moved(x1, x1', r, to)
    BY <1>1 DEF Moved
  <2>. QED  BY <1>1, <2>1, Counted
<1>3. x2 + Cardinality(In(x1, Stages)) + Cardinality(In(x1, {"gone"})) = Permits
  BY Books, SameCounts DEF DownloadsInv, W!DownloadsAreStable
<1>4. x2' + Cardinality(In(x1', Stages)) + Cardinality(In(x1', {"gone"})) = Permits /\ x2' \in Int
  <2>1. /\ Cardinality(In(x1, Stages)) \in Nat /\ Cardinality(In(x1', Stages)) \in Nat
        /\ Cardinality(In(x1', Stages)) = Cardinality(In(x1, Stages)) + Change(x1[r], to, Stages)
    BY <1>2
  <2>2. /\ Cardinality(In(x1, {"gone"})) \in Nat /\ Cardinality(In(x1', {"gone"})) \in Nat
        /\ Cardinality(In(x1', {"gone"})) = Cardinality(In(x1, {"gone"})) + Change(x1[r], to, {"gone"})
    BY <1>2
  <2>3. /\ Change(x1[r], to, Stages) + Change(x1[r], to, {"gone"}) =
             (IF to \in Holding THEN 1 ELSE 0) - (IF x1[r] \in Holding THEN 1 ELSE 0)
        /\ Change(x1[r], to, Stages) \in Int /\ Change(x1[r], to, {"gone"}) \in Int
    BY DEF Change, Holding
  <2>. HIDE DEF Stages
  <2>. QED  BY <1>1, <1>3, <2>1, <2>2, <2>3
<1>5. x2' \in 0..Permits
  <2>1. Cardinality(In(x1', Stages)) \in Nat /\ Cardinality(In(x1', {"gone"})) \in Nat
    BY <1>2
  <2>2. x2' >= 0
    BY <1>1
  <2>. QED  BY <1>1, <1>4, <2>1, <2>2
<1>6. x5' = {v \in Requests : x1'[v] \in {"locked", "streaming"}}
  BY DEF DownloadsInv, W!TypeOK, W!DownloadsAreStable
<1>7. x6' = {} /\ (x7' = "holding" => x5' = {})
  BY DEF DownloadsInv, W!DownloadsAreStable
<1>8. W!TypeOK'
  BY <1>5, <1>6, <1>7 DEF DownloadsInv, W!TypeOK
<1>9. x2' + Cardinality(W!Open') + Cardinality({v \in Requests : x1'[v] = "gone"}) = Permits
  <2>1. W!Open' = In(x1', Stages) /\ {v \in Requests : x1'[v] = "gone"} = In(x1', {"gone"})
    BY DEF W!Open, In
  <2>. QED  BY <1>4, <2>1
<1>10. x4' + Cardinality(x3') = Permits
  BY SameCounts DEF DownloadsInv, W!DownloadsAreStable
<1>11. W!DownloadsAreStable'
  BY <1>6, <1>7, <1>9, <1>10, SameCounts DEF W!DownloadsAreStable
<1>. QED  BY <1>8, <1>11 DEF DownloadsInv

LEMMA RequestStep ==
    ASSUME W!DownloadsAssumption, DownloadsInv, NEW r \in Requests,
           W!Acquire(r) \/ W!Refuse(r) \/ W!Again(r) \/ W!Handle(r) \/ W!Finish(r)
    PROVE  DownloadsInv'
<1>1. /\ x2 \in Nat /\ x6 = {} /\ x5 = {v \in Requests : x1[v] \in {"locked", "streaming"}}
      /\ x7 = "holding" => x5 = {}
  BY DEF DownloadsInv, W!TypeOK, W!DownloadsAreStable, W!DownloadsAssumption
<1>2. r \in x5 <=> x1[r] \in {"locked", "streaming"}
  BY <1>1
<1>3. PICK to \in {"idle", "refused", "permitted", "locked", "streaming", "drained", "gone"} :
         x1' = [x1 EXCEPT ![r] = to]
  BY DEF W!Acquire, W!Refuse, W!Again, W!Handle, W!Finish, W!SettingsFail, W!Lock, W!LockBusy, W!Plan,
         W!PlanFails, W!Drain, W!Hangup, W!Release
<1>. QED
  BY <1>1, <1>2, RequestMoves
     DEF W!Acquire, W!Refuse, W!Again, W!Handle, W!Finish, W!SettingsFail, W!Lock, W!LockBusy, W!Plan,
         W!PlanFails, W!Drain, W!Hangup, W!Release, W!query, Holding

LEMMA QueryStep ==
    ASSUME W!DownloadsAssumption, DownloadsInv, NEW q \in Queries, W!Ask(q) \/ W!Answered(q)
    PROVE  DownloadsInv'
<1>1. /\ x3 \subseteq Queries /\ IsFiniteSet(Queries) /\ x4 \in Nat /\ Permits \in Nat
      /\ x4 + Cardinality(x3) = Permits
  BY SameCounts DEF DownloadsInv, W!TypeOK, W!DownloadsAreStable, W!DownloadsAssumption
<1>2. IsFiniteSet(x3) /\ Cardinality(x3) \in Nat
  BY <1>1, FS_Subset, FS_CardinalityType
<1>3. UNCHANGED <<x1, x2, x5, x6, x7, x8, x9>>
  BY DEF W!Ask, W!Answered
<1>4. x3' \subseteq Queries /\ x4' \in 0..Permits /\ x4' + Cardinality(x3') = Permits
  <2>1. CASE W!Ask(q)
    <3>1. q \notin x3 /\ x4 > 0 /\ x3' = x3 \cup {q} /\ x4' = x4 - 1
      BY <2>1 DEF W!Ask
    <3>2. Cardinality(x3') = Cardinality(x3) + 1
      BY <1>2, <3>1, FS_AddElement
    <3>. QED  BY <1>1, <1>2, <3>1, <3>2
  <2>2. CASE W!Answered(q)
    <3>1. q \in x3 /\ x3' = x3 \ {q} /\ x4' = x4 + 1
      BY <2>2 DEF W!Answered
    <3>2. Cardinality(x3 \ {q}) = IF q \in x3 THEN Cardinality(x3) - 1 ELSE Cardinality(x3)
      BY <1>2, FS_RemoveElement, Zenon
    <3>3. IsFiniteSet(x3') /\ Cardinality(x3') \in Nat
      <4>1. x3' \subseteq x3
        BY <3>1
      <4>. QED  BY <1>2, <4>1, FS_Subset, FS_CardinalityType
    <3>4. Cardinality(x3') = Cardinality(x3) - 1
      BY <3>1, <3>2
    <3>. QED  BY <1>1, <1>2, <3>1, <3>3, <3>4
  <2>. QED  BY <2>1, <2>2
<1>5. W!Open' = W!Open
  BY <1>3 DEF W!Open
<1>. QED  BY <1>3, <1>4, <1>5, SameCounts DEF DownloadsInv, W!TypeOK, W!DownloadsAreStable

\* A pass holds the lock only while nobody reads, so what it touches is under no one.
LEMMA PassStep ==
    ASSUME W!DownloadsAssumption, DownloadsInv,
           W!PassWanted \/ W!PassBegins \/ W!PassWorks \/ W!PassEnds \/ W!Edit
    PROVE  DownloadsInv'
<1>1. /\ x7' \in {"idle", "waiting", "holding"} /\ (x7' = "holding" => x5 = {})
      /\ UNCHANGED <<x1, x2, x3, x4, x5>>
  BY DEF W!PassWanted, W!PassBegins, W!PassWorks, W!PassEnds, W!Edit, W!query, DownloadsInv, W!TypeOK,
         W!DownloadsAreStable
<1>2. x6' = {}
  <2>1. CASE W!PassWorks
    <3>1. x5 = {} /\ x5 = {v \in Requests : x1[v] \in {"locked", "streaming"}}
      BY <2>1 DEF W!PassWorks, DownloadsInv, W!DownloadsAreStable
    <3>. QED  BY <2>1, <3>1 DEF W!PassWorks
  <2>2. CASE ~W!PassWorks
    BY <2>2 DEF W!PassWanted, W!PassBegins, W!PassEnds, W!Edit, DownloadsInv, W!DownloadsAreStable
  <2>. QED  BY <2>1, <2>2
<1>3. x8' \in BOOLEAN /\ x9' \in 0..MaxEdits
  <2>1. CASE W!Edit
    <3>1. x9' \in 0..MaxEdits
      BY <2>1 DEF W!Edit, DownloadsInv, W!TypeOK, W!DownloadsAssumption
    <3>2. x8' \in BOOLEAN
      BY <2>1 DEF W!Edit
    <3>. QED  BY <3>1, <3>2
  <2>2. CASE ~W!Edit
    BY <2>2 DEF W!PassWanted, W!PassBegins, W!PassWorks, W!PassEnds, DownloadsInv, W!TypeOK
  <2>. QED  BY <2>1, <2>2
<1>4. W!Open' = W!Open
  BY <1>1 DEF W!Open
<1>5. W!TypeOK'
  BY <1>1, <1>2, <1>3 DEF DownloadsInv, W!TypeOK
<1>6. W!DownloadsAreStable'
  BY <1>1, <1>2, <1>4 DEF DownloadsInv, W!DownloadsAreStable
<1>. QED  BY <1>5, <1>6 DEF DownloadsInv

LEMMA DownloadsStep == W!DownloadsAssumption /\ DownloadsInv /\ W!Next => DownloadsInv'
  BY RequestStep, QueryStep, PassStep DEF W!Next
-----------------------------------------------------------------------------
(* Saved views *)

\* What the instance and its libraries define is what this module does.
LEMMA SameSeqs ==
    /\ \A s, i, j : V!SubSeq(s, i, j) = SubSeq(s, i, j)
    /\ \A f : V!IsInjective(f) <=> \A i, j \in DOMAIN f : f[i] = f[j] => i = j
  BY DEF V!IsInjective

\* The job the worker holds is the oldest: taking its file away leaves the rest.
LEMMA RemoveHead ==
    ASSUME NEW s \in Seq(Keys), s # <<>>
    PROVE  V!RemoveFirst(s, Head(s)) = Tail(s)
<1>1. Len(s) \in Nat \ {0} /\ Head(s) = s[1]
  OBVIOUS
<1>. DEFINE I == {i \in 1..Len(s) : s[i] = Head(s)}
<1>2. 1 \in I /\ I \subseteq Nat \ {0} /\ \A i \in I : 1 <= i
  BY <1>1
<1>3. V!Min(I) = 1
  BY <1>2 DEF V!Min
<1>4. V!RemoveFirst(s, Head(s)) = V!RemoveAt(s, 1)
  BY <1>1, <1>2, <1>3 DEF V!RemoveFirst, V!SelectInSeq
<1>5. V!RemoveAt(s, 1) = Tail(s)
  BY <1>1 DEF V!RemoveAt
<1>. QED  BY <1>4, <1>5

LEMMA ViewsInit == V!ViewsAssumption /\ V!Init => V!ViewsInv
<1>. SUFFICES ASSUME V!ViewsAssumption, V!Init PROVE V!ViewsInv
  OBVIOUS
<1>1. x1 \in Seq(Keys) /\ Len(x1) <= MaxJobs /\ V!IsInjective(x1)
  BY SameSeqs DEF V!Init, V!ViewsAssumption
<1>2. x4 \in [Clients -> {Absent} \cup [key : Keys, fresh : BOOLEAN]] /\ x5 = Absent
  BY DEF V!Init
<1>3. x8 = 1 /\ x9 = [key |-> 0, of |-> 0, busy |-> 0] /\ x10 = [names |-> 0, of |-> 0]
  BY DEF V!Init
<1>. QED  BY <1>1, <1>2, <1>3 DEF V!ViewsInv

\* The queue: only a request and the worker's unlink change it.
LEMMA QueueStep ==
    ASSUME V!ViewsAssumption, V!ViewsInv,
           \/ \E c \in Clients : V!Locked(c) \/ \E k \in Keys : V!ReadCached(c, k)
           \/ V!Pick \/ V!Publish \/ V!Unlink
    PROVE  V!ViewsInv'
<1>1. UNCHANGED <<x8, x9, x10>>
  BY DEF V!Locked, V!ReadCached, V!Pick, V!Publish, V!Unlink, V!phaseless
<1>2. ASSUME NEW c \in Clients, NEW k \in Keys, V!ReadCached(c, k)
      PROVE  V!ViewsInv'
  <2>1. UNCHANGED <<x1, x5>>
    BY <1>2 DEF V!ReadCached
  <2>2. x4' \in [Clients -> {Absent} \cup [key : Keys, fresh : BOOLEAN]]
    BY <1>2 DEF V!ReadCached, V!ViewsInv
  <2>. QED  BY <1>1, <2>1, <2>2 DEF V!ViewsInv
<1>3. ASSUME NEW c \in Clients, V!Locked(c)
      PROVE  V!ViewsInv'
  <2>1. /\ x5' = x5 /\ x4[c] # Absent /\ x4' = [x4 EXCEPT ![c] = Absent]
        /\ \/ x1' = x1
           \/ /\ x4[c].key \notin V!ToSet(x1) /\ Len(x1) < MaxJobs
              /\ x1' = Append(x1, x4[c].key)
    BY <1>3 DEF V!Locked
  <2>2. x4[c].key \in Keys /\ x4' \in [Clients -> {Absent} \cup [key : Keys, fresh : BOOLEAN]]
    BY <2>1 DEF V!ViewsInv
  <2>3. CASE x1' = x1
    BY <1>1, <2>1, <2>2, <2>3 DEF V!ViewsInv
  <2>4. CASE /\ x4[c].key \notin V!ToSet(x1) /\ Len(x1) < MaxJobs
             /\ x1' = Append(x1, x4[c].key)
    <3>1. x1 \in Seq(Keys) /\ Len(x1) \in Nat /\ MaxJobs \in Nat /\ \A i, j \in 1..Len(x1) : x1[i] = x1[j] => i = j
      BY SameSeqs DEF V!ViewsInv, V!ViewsAssumption
    <3>2. \A i \in 1..Len(x1) : x1[i] # x4[c].key
      BY <2>4, <3>1 DEF V!ToSet
    <3>3. x1' \in Seq(Keys) /\ Len(x1') = Len(x1) + 1
      BY <2>2, <2>4, <3>1
    <3>4. \A i \in 1..Len(x1') : x1'[i] = IF i <= Len(x1) THEN x1[i] ELSE x4[c].key
      BY <2>2, <2>4, <3>1
    <3>5. V!IsInjective(x1')
      <4>1. \A i, j \in 1..Len(x1') : x1'[i] = x1'[j] => i = j
        BY <3>1, <3>2, <3>3, <3>4
      <4>2. DOMAIN x1' = 1..Len(x1')
        BY <3>3
      <4>. QED  BY <4>1, <4>2, SameSeqs
    <3>6. x5' # Absent => x1' # <<>> /\ x5'.job = Head(x1')
      <4>1. ASSUME x5 # Absent PROVE x1' # <<>> /\ x5.job = Head(x1')
        <5>1. x1 # <<>> /\ x5.job = Head(x1)
          BY <4>1 DEF V!ViewsInv
        <5>. QED  BY <2>2, <2>4, <3>1, <5>1
      <4>. QED  BY <2>1, <4>1
    <3>7. Len(x1') <= MaxJobs
      BY <2>4, <3>1, <3>3
    <3>. QED  BY <1>1, <2>2, <3>3, <3>5, <3>6, <3>7 DEF V!ViewsInv
  <2>. QED  BY <2>1, <2>3, <2>4
<1>4. CASE V!Pick
  BY <1>1, <1>4 DEF V!Pick, V!ViewsInv
<1>5. CASE V!Publish
  <2>1. UNCHANGED <<x1, x4>> /\ x5 # Absent /\ x5' = [x5 EXCEPT !.stage = "done"]
    BY <1>5 DEF V!Publish
  <2>2. x5'.job = x5.job
    BY <2>1
  <2>. QED  BY <1>1, <2>1, <2>2 DEF V!ViewsInv
<1>6. CASE V!Unlink
  <2>1. x4' = x4 /\ x5' = Absent /\ x5 # Absent /\ x1' = V!RemoveFirst(x1, x5.job)
    BY <1>6 DEF V!Unlink
  <2>2. x1 \in Seq(Keys) /\ x1 # <<>> /\ x5.job = Head(x1) /\ Len(x1) <= MaxJobs
    BY <2>1 DEF V!ViewsInv
  <2>3. x1' = Tail(x1)
    BY <2>1, <2>2, RemoveHead
  <2>4. /\ x1' \in Seq(Keys) /\ Len(x1') = Len(x1) - 1 /\ Len(x1) \in Nat
        /\ \A i \in 1..Len(x1') : x1'[i] = x1[i + 1]
    BY <2>2, <2>3
  <2>5. \A i, j \in 1..Len(x1) : x1[i] = x1[j] => i = j
    BY <2>2, SameSeqs DEF V!ViewsInv
  <2>6. V!IsInjective(x1')
    <3>1. \A i, j \in 1..Len(x1') : x1'[i] = x1'[j] => i = j
      BY <2>4, <2>5
    <3>2. DOMAIN x1' = 1..Len(x1')
      BY <2>4
    <3>. QED  BY <3>1, <3>2, SameSeqs
  <2>7. Len(x1') <= MaxJobs
    BY <2>2, <2>4 DEF V!ViewsAssumption
  <2>. QED  BY <1>1, <2>1, <2>4, <2>6, <2>7 DEF V!ViewsInv
<1>. QED  BY <1>2, <1>3, <1>4, <1>5, <1>6

\* The rest: the cache, the worker's life and the phase view, which names its segment.
LEMMA PhaseStep ==
    ASSUME V!ViewsAssumption, V!ViewsInv,
           \/ \E k \in Keys : V!Age(k)
           \/ V!Maintain \/ V!Kill \/ V!Start \/ V!NewSegment
           \/ (\E due \in BOOLEAN : V!PhaseGet(due)) \/ (\E ok \in BOOLEAN : V!PhaseBuilt(ok))
    PROVE  V!ViewsInv'
<1>1. UNCHANGED <<x1, x4>> /\ x5' \in {x5, Absent}
  BY DEF V!Age, V!Maintain, V!Kill, V!Start, V!NewSegment, V!PhaseGet, V!PhaseBuilt
<1>2. /\ x8 \in Nat /\ x9 \in [key : Nat, of : Nat, busy : Nat] /\ x9.of \in {0, x9.key}
      /\ x10 \in [names : Nat, of : Nat] /\ x10.of \in {0, x10.names}
  BY DEF V!ViewsInv
<1>3. /\ x8' \in Nat /\ x9' \in [key : Nat, of : Nat, busy : Nat] /\ x9'.of \in {0, x9'.key}
      /\ x10' \in [names : Nat, of : Nat] /\ x10'.of \in {0, x10'.names}
  <2>1. CASE (\E k \in Keys : V!Age(k)) \/ V!Maintain \/ V!Kill \/ V!Start \/ V!NewSegment
    BY <1>2, <2>1 DEF V!Age, V!Maintain, V!Kill, V!Start, V!NewSegment, V!phaseless, V!ViewsAssumption
  <2>2. ASSUME NEW ok \in BOOLEAN, V!PhaseBuilt(ok)
        PROVE  x8' \in Nat /\ x9' \in [key : Nat, of : Nat, busy : Nat] /\ x9'.of \in {0, x9'.key} /\ x10' = x10
    <3>1. x9' = [x9 EXCEPT !.busy = 0, !.of = IF x9.busy = x9.key /\ ok THEN x9.busy ELSE x9.of] /\ x8' = x8 /\ x10' = x10
      BY <2>2 DEF V!PhaseBuilt
    <3>. QED  BY <1>2, <3>1
  <2>3. ASSUME NEW due \in BOOLEAN, V!PhaseGet(due)
        PROVE  /\ x8' \in Nat /\ x9' \in [key : Nat, of : Nat, busy : Nat] /\ x9'.of \in {0, x9'.key}
               /\ x10' \in [names : Nat, of : Nat] /\ x10'.of \in {0, x10'.names}
    <3>. DEFINE kept == IF x9.key = x8 THEN x9 ELSE [x9 EXCEPT !.key = x8, !.of = 0]
                now  == IF kept.busy = 0 /\ (due \/ kept # x9) THEN [kept EXCEPT !.busy = x8] ELSE kept
    <3>1. x8' = x8 /\ x9' = now /\ x10' = [names |-> x8, of |-> now.of]
      BY <2>3 DEF V!PhaseGet
    <3>2. kept \in [key : Nat, of : Nat, busy : Nat] /\ kept.key = x8 /\ kept.of \in {0, x8}
      BY <1>2
    <3>3. now \in [key : Nat, of : Nat, busy : Nat] /\ now.key = x8 /\ now.of \in {0, x8}
      <4>. HIDE DEF kept
      <4>. QED  BY <1>2, <3>2
    <3>. HIDE DEF now
    <3>. QED  BY <1>2, <3>1, <3>3
  <2>. QED  BY <1>2, <2>1, <2>2, <2>3
<1>. QED  BY <1>1, <1>3 DEF V!ViewsInv

LEMMA ViewsStep == V!ViewsAssumption /\ V!ViewsInv /\ V!Next => V!ViewsInv'
  BY QueueStep, PhaseStep DEF V!Next
-----------------------------------------------------------------------------
(* The composition: the part that moves keeps its invariant, and so does the bus *)

LiveInv ==
    /\ Inv
    /\ part = "startup" => S!ReplayInv
    /\ part = "web" => DownloadsInv
    /\ part = "views" => V!ViewsInv

LEMMA LiveInit == PartsInit => LiveInv
  BY InitInv, ReplayInit, DownloadsInit, ViewsInit, PartsAssumption DEF PartsInit, LiveInv

LEMMA LiveStep ==
    ASSUME LiveInv, PartsNext
    PROVE  LiveInv' /\ (part = "startup" => S!ReplaysUnheard)
<1>1. part' = part
  BY DEF PartsNext, Startup, Replay, Bus, Oled, Web, Views
<1>2. Inv'
  <2>1. Next \/ UNCHANGED i2cvars
    BY DEF PartsNext, Startup, Replay, Bus, Oled, Web, Views
  <2>. QED  BY <2>1, StepInv DEF LiveInv
<1>3. CASE part = "startup"
  <2>1. S!Next
    BY <1>3 DEF PartsNext, Startup, Replay, Bus, Oled, Web, Views
  <2>. QED  BY <1>1, <1>2, <1>3, <2>1, ReplayStep, PartsAssumption DEF LiveInv
<1>4. CASE part = "web"
  <2>1. W!Next
    BY <1>4 DEF PartsNext, Startup, Replay, Bus, Oled, Web, Views
  <2>. QED  BY <1>1, <1>2, <1>4, <2>1, DownloadsStep, PartsAssumption DEF LiveInv
<1>5. CASE part = "views"
  <2>1. V!Next
    BY <1>5 DEF PartsNext, Startup, Replay, Bus, Oled, Web, Views
  <2>. QED  BY <1>1, <1>2, <1>5, <2>1, ViewsStep, PartsAssumption DEF LiveInv
<1>6. CASE part \notin {"startup", "web", "views"}
  BY <1>1, <1>2, <1>6 DEF LiveInv
<1>. QED  BY <1>3, <1>4, <1>5, <1>6

LEMMA LiveStutter == LiveInv /\ UNCHANGED pvars => LiveInv'
<1>. SUFFICES ASSUME LiveInv, UNCHANGED pvars PROVE LiveInv'
  OBVIOUS
<1>1. Inv'
  BY StepInv DEF LiveInv, pvars
<1>2. UNCHANGED <<part, x1, x2, x3, x4, x5, x6, x7, x8, x9, x10, x11, x12>>
  BY DEF pvars
<1>3. S!ReplayInv => S!ReplayInv'
  BY <1>2 DEF S!ReplayInv
<1>4. DownloadsInv => DownloadsInv'
  BY <1>2 DEF DownloadsInv, W!TypeOK, W!DownloadsAreStable, W!Open
<1>5. V!ViewsInv => V!ViewsInv'
  BY <1>2 DEF V!ViewsInv
<1>. QED  BY <1>1, <1>2, <1>3, <1>4, <1>5 DEF LiveInv

LEMMA LiveAlways == LiveSpec => []LiveInv /\ [][PartsNext]_pvars
<1>1. LiveSpec => PartsInit /\ [][PartsNext]_pvars
  BY PTL DEF LiveSpec
<1>2. LiveInv /\ [PartsNext]_pvars => LiveInv'
  BY LiveStep, LiveStutter
<1>. QED  BY <1>1, <1>2, LiveInit, PTL

\* The same of the bus while other parts run.
THEOREM BusStaysExclusive == LiveSpec => []BusIsExclusive
<1>1. LiveInv => BusIsExclusive
  BY InvIsExclusive DEF LiveInv
<1>. QED  BY <1>1, LiveAlways, PTL

\* Whatever commands, resets and delays interleave, the full replay is sent unasked at most
\* once and only while no host was heard, and the metadata is sent again at most once.
THEOREM ReplayedOnceUnheard == LiveSpec => AutoReplayOnlyUnheard
<1>1. LiveInv /\ PartsNext => (part = "startup" => S!ReplaysUnheard /\ S!ReemittedOnce)
  BY LiveStep DEF LiveInv, S!ReplayInv, S!ReemittedOnce
<1>2. LiveInv /\ [PartsNext]_pvars => [part = "startup" => S!ReplaysUnheard /\ S!ReemittedOnce]_pvars
  BY <1>1
<1>. QED  BY <1>2, LiveAlways, PTL DEF AutoReplayOnlyUnheard

\* Every permit is with a request that holds it, out for good or back, the lock's readers are
\* the requests that read, and nothing is touched under them; the queue of ranges is bounded,
\* holds no range twice and the one that is worked on, and no chart is of another segment.
THEOREM RequestsStayContained == LiveSpec => []RequestsAreContained
<1>1. LiveInv => RequestsAreContained
  <2>1. DownloadsInv => W!DownloadsAreStable
    BY DEF DownloadsInv
  <2>2. V!ViewsInv => V!QueueIsBounded /\ V!PhaseIsOfItsSegment
    <3>1. V!ViewsInv /\ x5 # Absent => x5.job \in V!ToSet(x1)
      BY DEF V!ViewsInv, V!ToSet
    <3>. QED  BY <3>1 DEF V!ViewsInv, V!QueueIsBounded, V!PhaseIsOfItsSegment
  <2>. QED  BY <2>1, <2>2 DEF LiveInv, RequestsAreContained
<1>. QED  BY <1>1, LiveAlways, PTL
=============================================================================
