----------------------------- MODULE PpsHealth ------------------------------
(***************************************************************************)
(* process_pps and what it keeps of the PPS: freshness, the edge filter    *)
(* and validator, the discipliner and the status CPS rows report.  Pulses  *)
(* arrive on a grid of seconds with a bounded number of faults: extra      *)
(* edges, late or missing pulses, silences, resets.  The loop may stall    *)
(* while captures queue up, as many as one pass then processes.            *)
(*                                                                         *)
(* Time passes between the passes of the loop; how captures interleave     *)
(* with one pass is CapturePipeline's topic, the frequency estimates are   *)
(* FreqDiscipliner's.  Times are in timer ticks.                           *)
(***************************************************************************)
EXTENDS Integers, Sequences, FreqDiscipliner

CONSTANTS Nominal,     \* nominalRefTicks: a second
          Hard,        \* kHardTicks
          ValidCount,  \* kValid
          Required,    \* startupSeedRequired and recoverySeedRequired
          RefGain,     \* 2^6: the reference moves by err >> 6
          Window,      \* W_RATE
          Stale,      \* ppsStaleMs: since the last processed capture
          IsrStale,   \* ppsIsrStaleMs: since the last capture seen
          Extras,     \* how far into a second an extra edge may come
          OddSeconds, \* the intervals of pulses that are not on time
          Quiet,      \* the length of a silence
          MaxFaults,  \* bound on faults
          Budget,     \* PPS_PROCESS_BUDGET_PER_LOOP
          MaxPending  \* bound: captures that queue up while the loop stalls

ASSUME ValidatorAssumption == /\ {Nominal, Hard, ValidCount, Required, RefGain, Window}
                                 \subseteq Nat \ {0}
                              /\ Hard < Nominal
ASSUME FreshnessAssumption == {Stale, IsrStale} \subseteq Nat \ {0}
ASSUME InputAssumption == /\ Extras \subseteq 1 .. Nominal-1
                          /\ OddSeconds \subseteq Nat \ {0}
                          /\ {Quiet, MaxFaults, MaxPending, Budget} \subseteq Nat \ {0}
                          /\ MaxPending <= Budget

-----------------------------------------------------------------------------
(* PpsValidator and PpsEdgeFilter: which intervals between captures count   *)
(* as a second.  The validator's state is a record, its methods are         *)
(* operators on it, and the arithmetic is the code's; ok_streak_ is cut off *)
(* at kValid, where it stops mattering; the seed diagnostics are left out.  *)

Classes == {"OK", "GAP", "DUP", "HARD_GLITCH"}

Unseeded == [valid |-> FALSE, ref |-> 0, ok |-> 0,
             seedN |-> 0, seed |-> 0, recN |-> 0, rec |-> 0, ring |-> <<>>]

Distance(a, b) == IF a > b THEN a - b ELSE b - a
InOkBand(n, ref) == n * 10 >= ref * 7 /\ n * 10 <= ref * 13
Near1x(n) == InOkBand(n, Nominal)

\* classify; n_ref_valid_ is ref # 0.
Classify(v, n) ==
    CASE v.ref = 0 /\ Near1x(n)  -> "OK"
      [] v.ref = 0 /\ ~Near1x(n) -> "HARD_GLITCH"
      [] v.ref # 0 /\ n * 10 < v.ref * 3  -> "DUP"
      [] v.ref # 0 /\ n * 10 > v.ref * 17 -> "GAP"
      [] OTHER -> IF Distance(n, v.ref) <= Hard /\ InOkBand(n, v.ref)
                  THEN "OK" ELSE "HARD_GLITCH"
-----------------------------------------------------------------------------
(* PpsValidator::observe, part by part *)

Pushed(v, cls) ==
    [v EXCEPT !.ring = IF Len(@) < Window THEN Append(@, cls) ELSE Append(Tail(@), cls)]

\* Mutant: the latest interval replaces the average.
CandidateLatest(count, value, n, pct) ==
    IF count > 0 /\ Distance(n, value) <= (value * pct) \div 100
    THEN [count |-> count + 1, value |-> n]
    ELSE [count |-> 1, value |-> n]

\* A candidate for the reference, averaged over the intervals that agree
\* with it within pct per cent, or begun anew.
Candidate(count, value, n, pct) ==
    IF count > 0 /\ Distance(n, value) <= (value * pct) \div 100
    THEN [count |-> count + 1, value |-> (value * count + n) \div (count + 1)]
    ELSE [count |-> 1, value |-> n]

\* Startup: a run of plausible intervals yields the reference.
Seeded(v, n) ==
    LET c == Candidate(v.seedN, v.seed, n, 1)
    IN  IF v.ref # 0 THEN v
        ELSE IF ~Near1x(n) THEN [v EXCEPT !.seedN = 0, !.seed = 0, !.ok = 0]
        ELSE [v EXCEPT !.seedN = c.count, !.seed = c.value,
                       !.ref = IF c.count >= Required THEN c.value ELSE 0,
                       !.recN = IF c.count >= Required THEN 0 ELSE @,
                       !.rec  = IF c.count >= Required THEN 0 ELSE @]

\* err >> 6 rounds down, also below zero.
Tracked(v, cls, n) ==
    IF cls = "OK"
    THEN [v EXCEPT !.ok = IF @ < ValidCount THEN @ + 1 ELSE @,
                   !.ref = IF @ = 0 THEN 0 ELSE @ + (n - @) \div RefGain]
    ELSE [v EXCEPT !.ok = 0, !.valid = @ /\ cls # "GAP"]

\* Recovery, from a reference of more than one and a half seconds only.
Reseeded(v, n) ==
    LET c == Candidate(v.recN, v.rec, n, 10)
    IN  IF ~(v.ref > Nominal + Nominal \div 2 /\ Near1x(n))
        THEN [v EXCEPT !.recN = 0, !.rec = 0]
        ELSE IF c.count < Required THEN [v EXCEPT !.recN = c.count, !.rec = c.value]
        ELSE [v EXCEPT !.ref = c.value, !.recN = 0, !.rec = 0, !.ok = 0, !.valid = FALSE]

HardGlitches(v) == {i \in 1 .. Len(v.ring) : v.ring[i] = "HARD_GLITCH"}

Judged(v) == [v EXCEPT !.valid = /\ @ \/ v.ok >= ValidCount
                                 /\ \A i, j \in HardGlitches(v) : i = j]

Observe(v, cls, n) ==
    Judged(Reseeded(Tracked(Seeded(Pushed(v, cls), n), cls, n), n))
-----------------------------------------------------------------------------
(* PpsEdgeFilter *)

Earliest(v) == IF v.ref = 0 THEN (Nominal * 7) \div 10 ELSE v.ref - Hard
Latest(v)   == IF v.ref = 0 THEN (Nominal * 13) \div 10 ELSE v.ref + Hard

\* Mutant: there is no filter in front of the validator.
NothingIsExtra(v, n) == FALSE

EarlyExtra(v, n) == n < Earliest(v)

\* The edge becomes the candidate the next interval is measured from.
NewCandidate(v, n) == Classify(v, n) = "OK" \/ n > Latest(v)

Validators == [valid : BOOLEAN, ref : Nat, ok : 0 .. ValidCount,
               seedN : 0 .. Required, seed : Nat, recN : 0 .. Required, rec : Nat,
               ring : UNION {[1 .. k -> Classes] : k \in 0 .. Window}]
-----------------------------------------------------------------------------
VARIABLES
    (* The pulses *)
    phase,     \* how far into the present second the last edge came
    quiet,     \* how much longer ago, after a silence
    pending,   \* captures to process: ticks since the capture before
    faults,    \* faults so far
    extraOnly, \* all of them were extra edges
    (* The firmware *)
    pc,        \* "idle" between passes, "pop" within one
    seen,      \* capturePpsSeen has moved since pps_seen_prev
    isrAge,    \* age of last_pps_isr_change_ms
    procAge,   \* age of last_pps_processed_ms
    primed,    \* pps_primed
    since,     \* from candidate_edge32_ to the last processed capture
    v,         \* gPpsValidator
    disc,      \* gFreqDiscipliner
    gps,       \* gpsStatus
    goodRun    \* history: accepted samples in a row, up to LockCount

pulseVars == <<phase, quiet, pending, faults, extraOnly>>
trustVars == <<primed, since, v, disc, gps, goodRun>>
vars == <<pulseVars, pc, seen, isrAge, procAge, trustVars>>

-----------------------------------------------------------------------------
Init == /\ phase = 0 /\ quiet = 0 /\ pending = <<>>
        /\ faults = 0 /\ extraOnly = TRUE
        /\ pc = "idle" /\ seen = FALSE /\ isrAge = 0 /\ procAge = 0
        /\ primed = FALSE /\ since = 0
        /\ v = Unseeded /\ disc = FreeRun
        /\ gps = "NO_PPS" /\ goodRun = 0
-----------------------------------------------------------------------------
(* Pulses and the passage of time *)

Passes(t) == /\ isrAge' = Upto(IsrStale + 1, isrAge + t)
             /\ procAge' = Upto(Stale + 1, procAge + t)
             /\ disc' = Aged(disc, t)
             /\ UNCHANGED <<pc, primed, since, v, gps, goodRun>>

\* ISR(TCB2_INT_vect), d ticks after the last edge on the grid.
Captured(d) == /\ pc = "idle"
               /\ Len(pending) < MaxPending
               /\ d > phase
               /\ pending' = Append(pending, d - phase + quiet)
               /\ quiet' = 0
               /\ seen' = TRUE
               /\ Passes(d - phase)

Pulse == /\ Captured(Nominal)
         /\ phase' = 0
         /\ UNCHANGED <<faults, extraOnly>>

OddPulse == /\ faults < MaxFaults
            /\ \E d \in OddSeconds : Captured(d)
            /\ phase' = 0
            /\ faults' = faults + 1
            /\ extraOnly' = FALSE

Extra == /\ faults < MaxFaults
         /\ \E k \in Extras : Captured(k) /\ phase' = k
         /\ faults' = faults + 1
         /\ UNCHANGED extraOnly

\* The receiver loses its fix for a while.
Silence == /\ pc = "idle"
           /\ faults < MaxFaults
           /\ Passes(Quiet)
           /\ quiet' = quiet + Quiet
           /\ faults' = faults + 1
           /\ extraOnly' = FALSE
           /\ UNCHANGED <<phase, pending, seen>>

\* `reset defaults` clears the rings, the clocks and the PPS state.
ResetDefaults == /\ pc = "idle"
                 /\ faults < MaxFaults
                 /\ pending' = <<>> /\ seen' = FALSE
                 /\ isrAge' = 0 /\ procAge' = 0
                 /\ primed' = FALSE
                 /\ v' = Unseeded /\ disc' = FreeRun
                 /\ gps' = "NO_PPS" /\ goodRun' = 0
                 /\ faults' = faults + 1
                 /\ extraOnly' = FALSE
                 /\ UNCHANGED <<phase, quiet, pc, since>>
-----------------------------------------------------------------------------
(* One pass of process_pps *)

\* Mutant: processing may lag behind the captures unnoticed.
IsrStaleOnly(isr) == isr > IsrStale

\* evaluatePpsFreshness, isr being the age of the last capture seen.
Outdated(isr) == isr > IsrStale \/ (primed /\ procAge > Stale)

\* Mutant: the status outlives the outage.
KeepStatus == UNCHANGED gps

LoseStatus == gps' = "NO_PPS"

\* The captures seen are noted; an outage resets the PPS state, in every
\* pass it lasts.
BeginPass ==
    LET isr == IF seen THEN 0 ELSE isrAge
    IN  /\ pc = "idle"
        /\ pc' = "pop"
        /\ seen' = FALSE
        /\ isrAge' = isr
        /\ \/ ~Outdated(isr) /\ UNCHANGED <<primed, v, disc, gps, goodRun>>
           \/ /\ Outdated(isr)
              /\ primed' = FALSE
              /\ v' = Unseeded
              /\ disc' = Discipline(disc, "GAP", FALSE, FALSE, FALSE)
              /\ LoseStatus
              /\ goodRun' = 0
        /\ UNCHANGED <<pulseVars, procAge, since>>

Status(d) == CASE d.state = "DISCIPLINED" -> "LOCKED"
               [] d.state = "ACQUIRE"     -> "ACQUIRING"
               [] d.state = "HOLDOVER"    -> "HOLDOVER"
               [] d.state = "FREE_RUN"    -> "NO_PPS"

\* Mutant: the time of processing is not noted.
PoppedUntimed == /\ pc = "pop" /\ pending # <<>>
                 /\ pending' = Tail(pending)
                 /\ UNCHANGED <<procAge, phase, quiet, faults, extraOnly, pc, seen, isrAge>>

\* captureTryPopPps
Popped == /\ pc = "pop" /\ pending # <<>>
          /\ pending' = Tail(pending)
          /\ procAge' = 0
          /\ UNCHANGED <<phase, quiet, faults, extraOnly, pc, seen, isrAge>>

\* The interval of the popped capture, from the candidate.
Interval == since + Head(pending)

\* The first capture after a reset or an outage only primes the filter.
Prime == /\ Popped
         /\ ~primed
         /\ primed' = TRUE
         /\ since' = 0
         /\ UNCHANGED <<v, disc, gps, goodRun>>

\* An extra edge before the second is over changes nothing but freshness.
Ignore == /\ Popped
          /\ primed /\ EarlyExtra(v, Interval)
          /\ since' = IF NewCandidate(v, Interval) THEN 0 ELSE Interval
          /\ UNCHANGED <<primed, v, disc, gps, goodRun>>

\* A sample: validator, discipliner and status take it in.
Sample == /\ Popped
          /\ primed /\ ~EarlyExtra(v, Interval)
          /\ since' = IF NewCandidate(v, Interval) THEN 0 ELSE Interval
          /\ LET cls == Classify(v, Interval)
             IN  /\ v' = Observe(v, cls, Interval)
                 /\ \E lockOk, unlockBad \in BOOLEAN :
                       /\ ~(lockOk /\ unlockBad)
                       /\ disc' = Discipline(disc, cls, v'.valid, lockOk, unlockBad)
                 /\ goodRun' = IF cls = "OK" THEN Upto(LockCount, goodRun + 1) ELSE 0
          /\ gps' = Status(disc')
          /\ UNCHANGED primed

EndPass == /\ pc = "pop" /\ pending = <<>>
           /\ pc' = "idle"
           /\ UNCHANGED <<pulseVars, seen, isrAge, procAge, trustVars>>
-----------------------------------------------------------------------------
Pass == BeginPass \/ Prime \/ Ignore \/ Sample \/ EndPass

Next == Pulse \/ OddPulse \/ Extra \/ Silence \/ ResetDefaults \/ Pass

Spec == Init /\ [][Next]_vars

\* The loop turns, and the receiver delivers pulses on time, but for the
\* faults.
FairSpec == Spec /\ WF_vars(Pass) /\ SF_vars(Pulse)
-----------------------------------------------------------------------------
TypeOK == /\ phase \in 0 .. Nominal-1 /\ quiet \in Nat
          /\ pending \in Seq(Nat) /\ Len(pending) <= MaxPending
          /\ faults \in 0 .. MaxFaults /\ extraOnly \in BOOLEAN
          /\ pc \in {"idle", "pop"} /\ seen \in BOOLEAN
          /\ isrAge \in 0 .. IsrStale + 1 /\ procAge \in 0 .. Stale + 1
          /\ primed \in BOOLEAN /\ since \in Nat
          /\ v \in Validators
          /\ disc \in Discipliners
          /\ gps \in {"NO_PPS", "ACQUIRING", "LOCKED", "HOLDOVER"}
          /\ goodRun \in 0 .. LockCount

\* LOCKED is reported only while there is a candidate edge and a valid PPS,
\* and the discipliner is disciplined: through every fault the parts that
\* process_pps updates separately agree.
LockIsBacked ==
    gps = "LOCKED" => primed /\ v.valid /\ disc.state = "DISCIPLINED"

\* The status a CPS row carries never outlives the pulses it was earned
\* with: in the pass that emits the row, a capture was seen and one was
\* processed within the freshness limits, also when captures arrived while
\* the loop stalled.
StatusIsFresh ==
    (pc = "pop" /\ gps # "NO_PPS") => isrAge <= IsrStale /\ procAge <= Stale

\* No fault the inputs allow moves the reference off the true second by more
\* than the acceptance window, not even while it is being learnt.
ReferenceIsTrue == v.ref # 0 => Distance(v.ref, Nominal) <= Hard

\* Extra edges alone, wherever in the second they fall, never cost the PPS
\* its validity.
ExtrasAreHarmless == [][(v.valid /\ extraOnly') => v'.valid]_v

\* Config.h: ppsLockCount is the number of "consecutive good PPS samples
\* required to lock".
LockNeedsGoodRun == [][(gps # "LOCKED" /\ gps' = "LOCKED") => goodRun' >= LockCount]_gps

\* PpsValidator.cpp: seeding is guided by the nominal second "to avoid
\* poisoning n_ref_ from an anomalous first interval"; so pulses that are
\* regular from then on are trusted eventually and for good.
PulsesAreTrusted == <>[](v.valid)
=============================================================================
