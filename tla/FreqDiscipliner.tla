-------------------------- MODULE FreqDiscipliner ---------------------------
(***************************************************************************)
(* FreqDiscipliner's state machine, on a record, as pure operators.  The   *)
(* frequency estimates, their blend and the residual statistics appear as  *)
(* the two verdicts the machine draws from them: lockOk, all below the     *)
(* lock thresholds, and unlockBad, one above an unlock threshold.  As      *)
(* validateConfig keeps the unlock thresholds at or above the lock         *)
(* thresholds, both are never true of the same sample.                     *)
(*                                                                         *)
(* age is the time since ACQUIRE or HOLDOVER began, in timer ticks, and     *)
(* stops at the limit it is compared with; the code compares whole          *)
(* milliseconds.  The lock streak stops at LockCount, the code's at 255.   *)
(***************************************************************************)
EXTENDS Integers

CONSTANTS LockCount,    \* ppsLockCount
          UnlockCount,  \* ppsUnlockCount
          AcquireMin,   \* ppsAcquireMinMs
          Holdover      \* ppsHoldoverMs

ASSUME DisciplinerAssumption ==
    {LockCount, UnlockCount, AcquireMin, Holdover} \subseteq Nat \ {0}

States == {"FREE_RUN", "ACQUIRE", "DISCIPLINED", "HOLDOVER"}

Fresh(state) == [state |-> state, age |-> 0, lock |-> 0, unlock |-> 0]

\* FREE_RUN keeps no streaks, and ACQUIRE begins without.
FreeRun   == Fresh("FREE_RUN")
Acquiring == Fresh("ACQUIRE")

Upto(limit, n) == IF n < limit THEN n ELSE limit

AgeLimit(state) == CASE state = "ACQUIRE"  -> AcquireMin
                     [] state = "HOLDOVER" -> Holdover + 1
                     [] OTHER -> 0

\* t ticks later: acq_start_ms_ or holdover_start_ms_ lies further back.
Aged(d, t) == [d EXCEPT !.age = Upto(AgeLimit(d.state), @ + t)]

Turned(d, state) == [state |-> state, age |-> 0, lock |-> d.lock, unlock |-> d.unlock]

\* The transitions that PPS validity alone causes.
Entered(d, valid) ==
    CASE valid /\ d.state \in {"FREE_RUN", "HOLDOVER"} -> Acquiring
      [] ~valid /\ d.state = "DISCIPLINED" -> Turned(d, "HOLDOVER")
      [] ~valid /\ d.state = "ACQUIRE"     -> FreeRun
      [] OTHER -> d

\* A qualified sample counts towards a lock, or ends the streak.
Streak(d, lockOk) == [d EXCEPT !.lock = IF lockOk THEN Upto(LockCount, @ + 1) ELSE 0]

Locked(d) == IF d.state = "ACQUIRE" /\ d.age >= AcquireMin /\ d.lock >= LockCount
             THEN Turned(d, "DISCIPLINED") ELSE d

Unlocked(d, unlockBad) ==
    LET bad == IF unlockBad THEN d.unlock + 1 ELSE 0
    IN  IF d.state # "DISCIPLINED" THEN d
        ELSE IF bad >= UnlockCount THEN Acquiring
        ELSE [d EXCEPT !.unlock = bad]

Expired(d) == IF d.state = "HOLDOVER" /\ d.age > Holdover THEN FreeRun ELSE d

\* observe: the sample's class, the validator's verdict and the metrics'.
Discipline(d, cls, valid, lockOk, unlockBad) ==
    LET entered == Entered(d, valid)
    IN  Expired(IF valid /\ cls = "OK"
                THEN Unlocked(Locked(Streak(entered, lockOk)), unlockBad)
                ELSE entered)

Discipliners == [state : States, age : 0 .. AcquireMin + Holdover + 1,
                 lock : 0 .. LockCount, unlock : 0 .. UnlockCount]
=============================================================================
