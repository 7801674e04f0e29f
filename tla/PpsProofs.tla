----------------------------- MODULE PpsProofs ------------------------------
(***************************************************************************)
(* What a CPS row's status stands for, for pulses, faults and tunables of  *)
(* any kind: the status agrees with the validator and the discipliner, and *)
(* it is fresh.                                                            *)
(***************************************************************************)
EXTENDS PpsHealth, TLAPS

Machines == [state : States, age : Int, lock : Int, unlock : Int]

\* A machine that an invalid PPS does not leave disciplined.
Sound(d, valid) == d \in Machines /\ (d.state = "DISCIPLINED" => valid)

LEMMA FreshType ==
  ASSUME NEW s \in States
  PROVE  Fresh(s) \in Machines /\ Fresh(s).state = s
  BY DEF Fresh, Machines

LEMMA TurnedType ==
  ASSUME NEW d \in Machines, NEW s \in States
  PROVE  Turned(d, s) \in Machines /\ Turned(d, s).state = s
  BY DEF Turned, Machines

\* Time alone changes no state.
LEMMA AgedType ==
  ASSUME NEW d \in Machines, NEW t \in Int
  PROVE  Aged(d, t) \in Machines /\ Aged(d, t).state = d.state
<1> DEFINE a == Upto(AgeLimit(d.state), d.age + t)
<1>1. AgeLimit(d.state) \in Int
  BY DisciplinerAssumption DEF AgeLimit
<1>2. a \in Int
  BY <1>1 DEF Upto, Machines
<1>3. Aged(d, t) = [d EXCEPT !.age = a]
  BY DEF Aged
<1> HIDE DEF a
<1> QED BY <1>2, <1>3 DEF Machines

LEMMA EnteredSound ==
  ASSUME NEW d \in Machines, NEW valid \in BOOLEAN
  PROVE  Sound(Entered(d, valid), valid)
<1> DEFINE up   == valid /\ d.state \in {"FREE_RUN", "HOLDOVER"}
           hold == ~valid /\ d.state = "DISCIPLINED"
           free == ~valid /\ d.state = "ACQUIRE"
<1>1. CASE up
  BY <1>1, FreshType DEF Entered, Acquiring, Sound, States
<1>2. CASE hold
  BY <1>2, TurnedType DEF Entered, Sound, States
<1>3. CASE free
  BY <1>3, FreshType DEF Entered, FreeRun, Sound, States
<1>4. CASE ~(up \/ hold \/ free)
  BY <1>4 DEF Entered, Sound, States
<1> QED BY <1>1, <1>2, <1>3, <1>4

LEMMA StreakType ==
  ASSUME NEW d \in Machines, NEW lockOk \in BOOLEAN
  PROVE  Streak(d, lockOk) \in Machines
<1> DEFINE n == IF lockOk THEN Upto(LockCount, d.lock + 1) ELSE 0
<1>1. n \in Int
  BY DisciplinerAssumption DEF Upto, Machines
<1>2. Streak(d, lockOk) = [d EXCEPT !.lock = n]
  BY DEF Streak
<1> HIDE DEF n
<1> QED BY <1>1, <1>2 DEF Machines

LEMMA LockedType ==
  ASSUME NEW d \in Machines
  PROVE  Locked(d) \in Machines
  BY TurnedType DEF Locked, States

LEMMA UnlockedType ==
  ASSUME NEW d \in Machines, NEW unlockBad \in BOOLEAN
  PROVE  Unlocked(d, unlockBad) \in Machines
<1> DEFINE bad == IF unlockBad THEN d.unlock + 1 ELSE 0
<1>1. bad \in Int
  BY DEF Machines
<1>2. [d EXCEPT !.unlock = bad] \in Machines
  <2> HIDE DEF bad
  <2> QED BY <1>1 DEF Machines
<1>3. Acquiring \in Machines
  BY FreshType DEF Acquiring, States
<1> QED BY <1>2, <1>3 DEF Unlocked

\* No observation leaves the discipliner disciplined by an invalid PPS.
LEMMA DisciplineSound ==
  ASSUME NEW d \in Machines, NEW cls, NEW valid \in BOOLEAN,
         NEW lockOk \in BOOLEAN, NEW unlockBad \in BOOLEAN
  PROVE  Sound(Discipline(d, cls, valid, lockOk, unlockBad), valid)
<1> DEFINE en == Entered(d, valid)
           ul == Unlocked(Locked(Streak(en, lockOk)), unlockBad)
           up == IF valid /\ cls = "OK" THEN ul ELSE en
<1>1. Sound(en, valid)
  BY EnteredSound
<1>2. ul \in Machines
  <2>1. Streak(en, lockOk) \in Machines
    BY <1>1, StreakType DEF Sound
  <2>2. Locked(Streak(en, lockOk)) \in Machines
    BY <2>1, LockedType
  <2> QED BY <2>2, UnlockedType
<1>3. Sound(up, valid)
  BY <1>1, <1>2 DEF Sound
<1>4. Discipline(d, cls, valid, lockOk, unlockBad) = Expired(up)
  BY DEF Discipline
<1>5. Sound(Expired(up), valid)
  <2> HIDE DEF up
  <2> QED BY <1>3, FreshType DEF Expired, FreeRun, Sound, States
<1> QED BY <1>4, <1>5
-----------------------------------------------------------------------------
\* What the argument needs of the validator: it has a verdict.
HasVerdict(w) == "valid" \in DOMAIN w

LEMMA PartsHaveVerdict ==
  ASSUME NEW w, HasVerdict(w), NEW cls, NEW n
  PROVE  /\ HasVerdict(Pushed(w, cls))
         /\ HasVerdict(Seeded(w, n))
         /\ HasVerdict(Tracked(w, cls, n))
         /\ HasVerdict(Reseeded(w, n))
<1>1. HasVerdict(Pushed(w, cls))
  BY DEF HasVerdict, Pushed
<1>2. HasVerdict(Seeded(w, n))
  BY DEF HasVerdict, Seeded
<1>3. HasVerdict(Tracked(w, cls, n))
  BY DEF HasVerdict, Tracked
<1>4. HasVerdict(Reseeded(w, n))
  BY DEF HasVerdict, Reseeded
<1> QED BY <1>1, <1>2, <1>3, <1>4

LEMMA ObserveVerdict ==
  ASSUME NEW w, HasVerdict(w), NEW cls, NEW n
  PROVE  LET r == Observe(w, cls, n)
         IN  HasVerdict(r) /\ r.valid \in BOOLEAN
<1> DEFINE p == Pushed(w, cls)
           s == Seeded(p, n)
           t == Tracked(s, cls, n)
           r == Reseeded(t, n)
<1>1. HasVerdict(p)
  BY PartsHaveVerdict
<1>2. HasVerdict(s)
  <2> HIDE DEF p
  <2> QED BY <1>1, PartsHaveVerdict
<1>3. HasVerdict(t)
  <2> HIDE DEF s
  <2> QED BY <1>2, PartsHaveVerdict
<1>4. HasVerdict(r)
  <2> HIDE DEF t
  <2> QED BY <1>3, PartsHaveVerdict
<1>5. Observe(w, cls, n) = Judged(r)
  BY DEF Observe
<1>6. HasVerdict(Judged(r)) /\ Judged(r).valid \in BOOLEAN
  <2> HIDE DEF r
  <2> QED BY <1>4 DEF HasVerdict, Judged
<1> QED BY <1>5, <1>6
-----------------------------------------------------------------------------
\* A status other than NO_PPS is held only by a primed filter, so one that
\* survives the freshness test was tested on both ages.  A capture that
\* waits has moved capturePpsSeen: so the pass that pops it is fresh.
Inv == /\ phase \in Int /\ isrAge \in Int /\ procAge \in Int
       /\ disc \in Machines
       /\ HasVerdict(v)
       /\ gps # "NO_PPS" => primed
       /\ pc \in {"idle", "pop"}
       /\ (pc = "idle" /\ pending # <<>>) => seen
       /\ (pc = "pop" /\ pending # <<>>) => isrAge = 0
       /\ LockIsBacked
       /\ StatusIsFresh

USE FreshnessAssumption, InputAssumption, ValidatorAssumption

LEMMA InitInv == Init => Inv
<1> SUFFICES ASSUME Init PROVE Inv
  OBVIOUS
<1>1. disc \in Machines
  BY FreshType DEF Init, FreeRun, States
<1>2. HasVerdict(v)
  BY DEF Init, HasVerdict, Unseeded
<1> QED BY <1>1, <1>2 DEF Init, Inv, LockIsBacked, StatusIsFresh

\* Between passes time passes and captures queue up; nothing is judged.
LEMMA WaitingInv ==
  ASSUME Inv, NEW t \in Int, pc = "idle", Passes(t),
         phase' \in Int, pending' # <<>> => seen'
  PROVE  Inv'
<1>1. disc' \in Machines /\ disc'.state = disc.state
  BY AgedType DEF Passes, Inv
<1>2. isrAge' \in Int /\ procAge' \in Int
  <2>1. isrAge \in Int /\ procAge \in Int /\ Stale \in Nat /\ IsrStale \in Nat
    BY DEF Inv
  <2>2. /\ isrAge' = Upto(IsrStale + 1, isrAge + t)
        /\ procAge' = Upto(Stale + 1, procAge + t)
    BY DEF Passes
  <2> QED BY <2>1, <2>2 DEF Upto
<1>3. /\ pc' = "idle" /\ UNCHANGED <<primed, v, gps>>
  BY DEF Passes
<1>4. HasVerdict(v') /\ (gps' # "NO_PPS" => primed') /\ LockIsBacked'
  BY <1>1, <1>3 DEF Inv, LockIsBacked
<1>5. StatusIsFresh'
  BY <1>3 DEF StatusIsFresh
<1> QED BY <1>1, <1>2, <1>3, <1>4, <1>5 DEF Inv

LEMMA BeginPassInv == Inv /\ BeginPass => Inv'
<1> SUFFICES ASSUME Inv, BeginPass PROVE Inv'
  OBVIOUS
<1> DEFINE isr == IF seen THEN 0 ELSE isrAge
<1>1. /\ isr \in Int /\ isrAge' = isr /\ pc' = "pop" /\ phase' = phase
      /\ procAge' = procAge /\ procAge \in Int
      /\ pending' # <<>> => isrAge' = 0
  BY DEF BeginPass, pulseVars, Inv
<1>2. CASE ~Outdated(isr)
  <2>1. UNCHANGED <<primed, v, disc, gps>>
    BY <1>2 DEF BeginPass
  <2>2. gps' # "NO_PPS" => isrAge' <= IsrStale /\ procAge' <= Stale
    BY <1>1, <1>2, <2>1 DEF Outdated, Inv
  <2> QED BY <1>1, <2>1, <2>2 DEF Inv, LockIsBacked, StatusIsFresh
<1>3. CASE Outdated(isr)
  <2>1. /\ v' = Unseeded /\ gps' = "NO_PPS"
        /\ disc' = Discipline(disc, "GAP", FALSE, FALSE, FALSE)
    BY <1>3 DEF BeginPass, LoseStatus
  <2>2. disc' \in Machines
    BY <2>1, DisciplineSound DEF Sound, Inv
  <2>3. HasVerdict(v')
    BY <2>1 DEF HasVerdict, Unseeded
  <2> QED BY <1>1, <2>1, <2>2, <2>3 DEF Inv, LockIsBacked, StatusIsFresh
<1> QED BY <1>2, <1>3

\* A popped capture makes the status as fresh as it can be.
LEMMA PoppedFresh ==
  ASSUME Inv, Popped
  PROVE  /\ phase' \in Int /\ isrAge' = 0 /\ procAge' = 0
         /\ pc = "pop" /\ pc' = "pop"
  BY DEF Popped, Inv

LEMMA SampleInv == Inv /\ Sample => Inv'
<1> SUFFICES ASSUME Inv, Sample PROVE Inv'
  OBVIOUS
<1> DEFINE cls == Classify(v, Interval)
<1>1. Popped /\ primed /\ primed' = primed /\ gps' = Status(disc')
  BY DEF Sample
<1>2. v' = Observe(v, cls, Interval)
  BY DEF Sample
<1>3. PICK lockOk, unlockBad \in BOOLEAN :
         disc' = Discipline(disc, cls, v'.valid, lockOk, unlockBad)
  BY DEF Sample
<1>4. HasVerdict(v') /\ v'.valid \in BOOLEAN
  BY <1>2, ObserveVerdict DEF Inv
<1>5. Sound(disc', v'.valid)
  BY <1>3, <1>4, DisciplineSound DEF Inv
<1>6. gps' = "LOCKED" => disc'.state = "DISCIPLINED"
  BY <1>1, <1>5 DEF Status, Sound, Machines, States
<1> QED
  BY <1>1, <1>4, <1>5, <1>6, PoppedFresh DEF Inv, Sound, LockIsBacked, StatusIsFresh

LEMMA NextInv == Inv /\ [Next]_vars => Inv'
<1> SUFFICES ASSUME Inv, [Next]_vars PROVE Inv'
  OBVIOUS
<1>1. ASSUME NEW d \in Int, Captured(d), phase' \in Int PROVE Inv'
  <2>1. pc = "idle" /\ seen' /\ Passes(d - phase) /\ d - phase \in Int
    BY <1>1 DEF Captured, Inv
  <2> QED BY <1>1, <2>1, WaitingInv
<1>2. CASE Pulse
  BY <1>1, <1>2 DEF Pulse
<1>3. CASE OddPulse
  BY <1>1, <1>3 DEF OddPulse
<1>4. CASE Extra
  BY <1>1, <1>4 DEF Extra
<1>5. CASE Silence
  BY <1>5, WaitingInv DEF Silence, Inv
<1>6. CASE ResetDefaults
  <2>1. disc' \in Machines
    BY <1>6, FreshType DEF ResetDefaults, FreeRun, States
  <2>2. HasVerdict(v')
    BY <1>6 DEF ResetDefaults, HasVerdict, Unseeded
  <2> QED
    BY <1>6, <2>1, <2>2 DEF ResetDefaults, Inv, LockIsBacked, StatusIsFresh
<1>7. CASE BeginPass
  BY <1>7, BeginPassInv
<1>8. CASE Prime
  BY <1>8, PoppedFresh DEF Prime, Inv, LockIsBacked, StatusIsFresh
<1>9. CASE Ignore
  BY <1>9, PoppedFresh DEF Ignore, Inv, LockIsBacked, StatusIsFresh
<1>10. CASE Sample
  BY <1>10, SampleInv
<1>11. CASE EndPass
  BY <1>11 DEF EndPass, pulseVars, trustVars, Inv, LockIsBacked, StatusIsFresh
<1>12. CASE UNCHANGED vars
  BY <1>12 DEF vars, pulseVars, trustVars, Inv, LockIsBacked, StatusIsFresh
<1> QED BY <1>2, <1>3, <1>4, <1>5, <1>6, <1>7, <1>8, <1>9, <1>10, <1>11, <1>12 DEF Next, Pass

\* LOCKED is reported only with a candidate edge, a valid PPS and a
\* disciplined oscillator: the three that process_pps updates apart agree.
THEOREM LockedIsBacked == Spec => []LockIsBacked
<1>1. Inv => LockIsBacked
  BY DEF Inv
<1> QED BY <1>1, InitInv, NextInv, PTL DEF Spec

\* No pass of process_pps carries a status whose pulses are out of date,
\* however long the loop stalled.
THEOREM StatusStaysFresh == Spec => []StatusIsFresh
<1>1. Inv => StatusIsFresh
  BY DEF Inv
<1> QED BY <1>1, InitInv, NextInv, PTL DEF Spec
=============================================================================
