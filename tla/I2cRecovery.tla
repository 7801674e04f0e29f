---------------------------- MODULE I2cRecovery ----------------------------
(***************************************************************************)
(* The Pi's shared I2C bus: sensor and OLED workers (peripherals.py) that   *)
(* transfer under a file lock, and the privileged helper (i2c_recovery.py)  *)
(* that takes the controller away from the kernel, clocks a device that     *)
(* holds SDA low, and gives it back.  Everything the helper knows is in a   *)
(* status file it replaces as a whole, so it survives being killed.         *)
(*                                                                          *)
(* Times appear only as the chance that a check is not due yet.             *)
(***************************************************************************)
EXTENDS Naturals, FiniteSets

CONSTANTS
    Workers,      \* the sensor channels and the OLED
    Helper, Nobody,
    Attempts,     \* recoveries allowed for one fault (2)
    PulseLimit,   \* clock pulses of one recovery (9)
    Looks,        \* clean looks at the lines before work goes on (3)
    MaxFaults     \* bound on faults, kills and failed restores

ASSUME I2cAssumption ==
    /\ Helper \notin Workers /\ Nobody \notin Workers \cup {Helper} /\ Helper # Nobody
    /\ Attempts \in Nat \ {0} /\ PulseLimit \in Nat \ {0} /\ Looks \in Nat \ {0} /\ MaxFaults \in Nat

VARIABLES
    lock,      \* who holds bus-1.lock
    file,      \* status.json
    helper,    \* where the helper is
    requested, \* a worker asked for recovery
    fd,        \* fd[w]: the generation worker w opened its device in, 0 when closed
    seen,      \* SensorChannel.generation of each worker
    stuck,     \* clock pulses after which SDA comes free; more than the helper ever sends: hard
    bound,     \* the kernel driver owns the controller
    spent,     \* history: recoveries tried since the bus was last declared good
    cut,       \* history: the helper was killed between its two looks
    faults

i2cvars == <<lock, file, helper, requested, fd, seen, stuck, bound, spent, cut, faults>>

Hard == Attempts * PulseLimit + 1
High == stuck = 0 /\ bound
Fresh == [state |-> "idle", attempts |-> 0, blocked |-> FALSE, generation |-> 1,
          samples |-> 0, pending |-> FALSE]
Open == {w \in Workers : fd[w] # 0}

Faulty == faults < MaxFaults /\ faults' = faults + 1

-----------------------------------------------------------------------------
(* The workers.                                                             *)

\* refresh() finds the bus blocked: let go of the device.
SeesBlocked(w) ==
    /\ lock # w /\ file.blocked /\ fd[w] # 0
    /\ fd' = [fd EXCEPT ![w] = 0]
    /\ UNCHANGED <<lock, file, helper, requested, seen, stuck, bound, spent, cut, faults>>

\* Mutant: the status is not looked at again under the lock.
EnterUnseen(w) ==
    /\ lock = Nobody /\ lock' = w
    /\ seen' = [seen EXCEPT ![w] = file.generation]
    /\ fd' = [fd EXCEPT ![w] = IF @ = 0 \/ seen[w] # file.generation THEN file.generation ELSE @]
    /\ UNCHANGED <<file, helper, requested, stuck, bound, spent, cut, faults>>

\* transaction(): the lock without waiting, then the status again under it.  A new
\* generation closes the device, and a closed device is opened.
Enter(w) ==
    /\ lock = Nobody
    /\ IF file.blocked
       THEN fd' = [fd EXCEPT ![w] = 0] /\ UNCHANGED <<lock, seen>>
       ELSE /\ lock' = w
            /\ seen' = [seen EXCEPT ![w] = file.generation]
            /\ fd' = [fd EXCEPT ![w] = IF @ = 0 \/ seen[w] # file.generation THEN file.generation ELSE @]
    /\ UNCHANGED <<file, helper, requested, stuck, bound, spent, cut, faults>>

Succeed(w) ==
    /\ lock = w /\ High
    /\ lock' = Nobody
    /\ UNCHANGED <<file, helper, requested, fd, seen, stuck, bound, spent, cut, faults>>

\* Any error closes the device and asks for recovery; nobody hears it while the helper is down.
FailTransfer(w) ==
    /\ lock = w
    /\ High => Faulty
    /\ ~High => UNCHANGED faults
    /\ lock' = Nobody /\ fd' = [fd EXCEPT ![w] = 0]
    /\ requested' = (requested \/ helper # "down")
    /\ UNCHANGED <<file, helper, seen, stuck, bound, spent, cut>>

WorkerStops(w) ==
    /\ Faulty
    /\ lock' = IF lock = w THEN Nobody ELSE lock
    /\ fd' = [fd EXCEPT ![w] = 0] /\ seen' = [seen EXCEPT ![w] = 0]
    /\ UNCHANGED <<file, helper, requested, stuck, bound, spent, cut>>

-----------------------------------------------------------------------------
(* The helper.  It holds the lock through a whole step.                     *)

Publish(changes) == file' = changes
Leave == lock' = Nobody /\ helper' = "ready"
Away == UNCHANGED <<fd, seen, stuck, cut, faults>>

\* The exception handler of run(): what is not restored stays blocked, and the
\* backend is built again later.
Raised(f) ==
    /\ Publish(IF f.pending THEN [f EXCEPT !.state = "restore_failed", !.blocked = TRUE]
                            ELSE [f EXCEPT !.state = "unavailable"])
    /\ lock' = Nobody /\ helper' = "starting"

\* PiBus1() and startup(): a restore that was interrupted is finished first.
StartHelper ==
    /\ helper = "starting" /\ lock = Nobody
    /\ helper' = "ready" /\ bound' = (bound \/ file.pending)
    /\ Publish(IF file.pending THEN [file EXCEPT !.pending = FALSE, !.state = "waiting", !.blocked = TRUE]
                               ELSE file)
    /\ UNCHANGED <<lock, requested, spent>> /\ Away

StartFails ==
    /\ helper = "starting" /\ lock = Nobody /\ Faulty
    /\ Raised(file)
    /\ UNCHANGED <<requested, fd, seen, stuck, bound, spent, cut>>

\* step() before next_check: the request is taken and nothing is done about it.
NotDue ==
    /\ helper = "ready" /\ lock = Nobody /\ requested
    /\ requested' = FALSE
    /\ UNCHANGED <<lock, file, helper, bound, spent>> /\ Away

\* One clean look more, or everything back to normal.
Verified ==
    IF file.attempts = 0 /\ ~file.blocked THEN [file EXCEPT !.state = "idle"]
    ELSE IF file.samples + 1 >= Looks
         THEN [file EXCEPT !.state = "idle", !.attempts = 0, !.blocked = FALSE, !.samples = 0]
         ELSE [file EXCEPT !.samples = @ + 1]

\* Mutant: a used-up budget ends the watch.
WatchesUnlessExhausted == requested \/ file.state \notin {"idle", "exhausted"}

\* Whether a step looks at the lines at all.
Watches == requested \/ file.state # "idle"

Look ==
    /\ helper = "ready" /\ lock = Nobody
    /\ Watches
    /\ requested' = FALSE
    /\ IF High
       THEN /\ Publish(Verified)
            /\ spent' = IF Verified.attempts = 0 /\ ~Verified.blocked THEN 0 ELSE spent
            /\ UNCHANGED <<lock, helper>>
       ELSE /\ Publish([file EXCEPT !.blocked = TRUE, !.samples = 0])
            /\ lock' = Helper /\ helper' = "suspects"
            /\ UNCHANGED spent
    /\ UNCHANGED bound /\ Away

\* The second look decides; the attempt is on record before anything is touched.  A new
\* generation has a name that was never used, here the next number.
Decide ==
    /\ helper = "suspects"
    /\ IF High THEN Publish([file EXCEPT !.state = "verifying"]) /\ Leave
       ELSE IF file.attempts >= Attempts THEN Publish([file EXCEPT !.state = "exhausted"]) /\ Leave
       ELSE IF Open # {} THEN Publish([file EXCEPT !.state = "quiescing"]) /\ Leave
       ELSE /\ Publish([file EXCEPT !.attempts = @ + 1, !.state = "recovering", !.pending = TRUE,
                                    !.generation = @ + 1])
            /\ helper' = "unbinding" /\ UNCHANGED lock
    /\ UNCHANGED <<requested, bound, spent>> /\ Away

Unbind ==
    /\ helper = "unbinding"
    /\ bound' = FALSE /\ helper' = "pins"
    /\ UNCHANGED <<lock, file, requested, spent>> /\ Away

\* clear_bus(): clock until SDA is free or the pulses are used up.
Pulses ==
    /\ helper = "pins"
    /\ stuck' = IF stuck = Hard THEN Hard ELSE IF stuck <= PulseLimit THEN 0 ELSE stuck - PulseLimit
    /\ spent' = spent + 1
    /\ helper' = "restoring"
    /\ UNCHANGED <<lock, file, requested, fd, seen, bound, cut, faults>>

\* Leaving gpio() gives the controller back, then the result is published.
Restore ==
    /\ helper = "restoring"
    /\ bound' = TRUE
    /\ LET released == stuck = 0
       IN  Publish([file EXCEPT !.pending = FALSE, !.blocked = ~released,
                    !.state = IF released THEN "verifying"
                              ELSE IF file.attempts >= Attempts THEN "exhausted" ELSE "waiting"])
    /\ Leave
    /\ UNCHANGED <<requested, spent>> /\ Away

\* The lines cannot be requested, or the controller does not come back.
RestoreFails ==
    /\ helper \in {"unbinding", "pins", "restoring"} /\ Faulty
    /\ Raised(file)
    /\ bound' \in {bound, TRUE}
    /\ UNCHANGED <<requested, fd, seen, stuck, spent, cut>>

HelperKilled ==
    /\ helper # "down" /\ Faulty
    /\ helper' = "down" /\ requested' = FALSE
    /\ lock' = IF lock = Helper THEN Nobody ELSE lock
    /\ cut' = (cut \/ helper = "suspects")
    /\ UNCHANGED <<file, fd, seen, stuck, bound, spent>>

HelperStarts ==
    /\ helper = "down"
    /\ helper' = "starting"
    /\ UNCHANGED <<lock, file, requested, bound, spent>> /\ Away

-----------------------------------------------------------------------------
(* The wires.                                                               *)

Stick ==
    /\ stuck = 0 /\ Faulty
    /\ stuck' \in 1 .. Hard
    /\ UNCHANGED <<lock, file, helper, requested, fd, seen, bound, spent, cut>>

Unstick ==
    /\ stuck # 0
    /\ stuck' = 0
    /\ UNCHANGED <<lock, file, helper, requested, fd, seen, bound, spent, cut, faults>>

Init ==
    /\ lock = Nobody /\ file = Fresh /\ helper = "starting" /\ requested = FALSE
    /\ fd = [w \in Workers |-> 0] /\ seen = [w \in Workers |-> 0]
    /\ stuck = 0 /\ bound = TRUE /\ spent = 0 /\ cut = FALSE /\ faults = 0

HelperStep == StartHelper \/ Look \/ Decide \/ Unbind \/ Pulses \/ Restore \/ HelperStarts

Next ==
    \/ \E w \in Workers : SeesBlocked(w) \/ Enter(w) \/ Succeed(w) \/ FailTransfer(w) \/ WorkerStops(w)
    \/ HelperStep \/ StartFails \/ NotDue \/ RestoreFails \/ HelperKilled
    \/ Stick \/ Unstick

Fairness ==
    /\ SF_i2cvars(StartHelper) /\ SF_i2cvars(Look)
    /\ WF_i2cvars(Decide \/ Unbind \/ Pulses \/ Restore) /\ WF_i2cvars(HelperStarts)
    /\ \A w \in Workers : WF_i2cvars(SeesBlocked(w)) /\ SF_i2cvars(Enter(w))
                          /\ WF_i2cvars(Succeed(w) \/ FailTransfer(w))

Spec == Init /\ [][Next]_i2cvars
FairSpec == Spec /\ Fairness
-----------------------------------------------------------------------------
\* However often the helper is killed and restarted, one fault is clocked at most
\* Attempts times until the lines were seen good again.
BudgetHolds == spent <= file.attempts /\ file.attempts <= Attempts

\* Whoever died where: no transfer runs while the kernel does not own the bus, the
\* controller is taken away only when no device is open (the kernel would wait for it
\* with the lock held), no transfer uses a device opened before the last recovery, and
\* no fault is clocked more often than its budget.
BusIsExclusive ==
    /\ ~bound => lock \in {Helper, Nobody}
    /\ helper \in {"unbinding", "pins", "restoring"} => Open = {}
    /\ \A w \in Workers : lock = w => fd[w] = file.generation
    /\ BudgetHolds

\* A fault is noticed even when the request for it was lost, and a bus whose lines stay
\* free goes back to work, also when the budget was used up: the helper may be killed
\* anywhere but between its two looks.
Free == stuck = 0
Blocked == file.blocked
Cut == cut
BusComesBack ==
    /\ ~Free ~> (Free \/ Blocked)
    /\ [](~Cut) => (<>[]Free => <>[](~Blocked))

\* What the repository says of it: a cleared fault re-arms after the verification, and
\* restarts of the helper do not change that.
FaultsRearm == <>[]Free => <>[](~Blocked)
=============================================================================
