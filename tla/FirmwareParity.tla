--------------------------- MODULE FirmwareParity ---------------------------
(***************************************************************************)
(* The frequency estimates of the discipliner, twice: the firmware's         *)
(* (FreqDiscipliner.cpp), with fixed-point states and rings of residuals,    *)
(* and the replay of the offline analysis (pps/firmware_parity.py).  Both    *)
(* get the same calls of observe().  The firmware's state machine is         *)
(* FreqDiscipliner, with the verdicts that are drawn from the numbers.       *)
(*                                                                         *)
(* The scales are parameters: so many parts of a tick, a "million" for       *)
(* relative errors, a full weight, residuals in a window.                    *)
(***************************************************************************)
EXTENDS Integers, Sequences, FiniteSets, FiniteSetsExt, TLC

CONSTANTS
    Nominal,  \* F_CPU
    Parts,    \* 2^16 parts of a tick
    Million,  \* the scale of relative errors
    Full,     \* 65535, the weight of the fast estimate alone
    Window,   \* W_MAD
    FastShift, SlowShift, BlendLo, BlendHi, LockR, LockMad, UnlockR, UnlockMad,
    LockCount, UnlockCount, AcquireMin, Holdover, \* the tunables
    MsRange, Start, \* the range of milliseconds, and where they start
    Widest,   \* UINT32_MAX, the longest interval
    Samples,  \* intervals
    Steps,    \* milliseconds between calls
    MaxCalls  \* bound

\* The tunables are what validateConfig() lets through; a power of two is no zero.
ParityAssumption ==
    /\ {Nominal, Parts, Million, Full, Window, AcquireMin, Holdover, MsRange, 2^FastShift, 2^SlowShift} \subseteq Nat \ {0}
    /\ Steps \cup {FastShift, SlowShift, BlendLo, BlendHi, LockR, LockMad, UnlockR, UnlockMad, Widest, MaxCalls} \subseteq Nat
    /\ Samples \cup {Nominal} \subseteq 0..Widest /\ {LockCount, UnlockCount} \subseteq 1..255
    /\ LockR <= UnlockR /\ LockMad <= UnlockMad
    /\ Start \in 0..MsRange - 1

VARIABLES
    calls, \* bound
    now,   \* millis()
    fw,    \* gFreqDiscipliner
    py     \* FirmwareParity

pvars == <<calls, now, fw, py>>

Abs(n)  == IF n < 0 THEN -n ELSE n
Since(t, then) == (t - then) % MsRange
Counted(n) == IF n < 255 THEN n + 1 ELSE n

Init ==
    /\ calls = 0 /\ now = Start
    /\ fw = [state |-> "FREE_RUN", fast |-> Nominal * Parts, slow |-> Nominal * Parts, hat |-> Nominal, anchor |-> Nominal,
             applied |-> [i \in 0..Window - 1 |-> 0], legacy |-> [i \in 0..Window - 1 |-> 0], head |-> 0, fill |-> 0,
             lock |-> 0, unlock |-> 0, acquire |-> 0, holdover |-> 0, r |-> 0, mad |-> 0]
    /\ py = [state |-> "FREE_RUN", fast |-> Nominal * Parts, slow |-> Nominal * Parts, hat |-> Nominal, anchor |-> Nominal,
             legacy |-> <<>>, lock |-> 0, unlock |-> 0, acquire |-> 0, holdover |-> 0, r |-> 0, mad |-> 0]
-----------------------------------------------------------------------------
(* The firmware *)

\* update_frequency(): an unsigned shift of the magnitude.
Update(state, sample, shift) ==
    LET step == Abs(sample * Parts - state) \div 2^shift
    IN  IF sample * Parts < state THEN state - step ELSE state + step

Ticks(state) == (state + Parts \div 2) \div Parts
Ppm(error, of) == IF of = 0 THEN 0 ELSE (Million * Abs(error)) \div of
Weight(r) == IF r <= BlendLo THEN 0 ELSE IF r >= BlendHi THEN Full ELSE ((r - BlendLo) * Full) \div (BlendHi - BlendLo)
Blend(fast, slow, r) == (slow * (Full - Weight(r)) + fast * Weight(r)) \div Full

\* median_u32() of the first n entries, and mad_from_residuals().
Median(values, n) ==
    CHOOSE v \in {values[i] : i \in 0..n - 1} :
        /\ Cardinality({i \in 0..n - 1 : values[i] < v}) <= n \div 2
        /\ Cardinality({i \in 0..n - 1 : values[i] <= v}) > n \div 2
Mad(ring, n) ==
    LET centre == Median([i \in 0..n - 1 |-> Abs(ring[i])], n)
    IN  Median([i \in 0..n - 1 |-> Abs(Abs(ring[i]) - centre)], n)

\* observe(): what PPS validity alone changes.
Entered(d, valid, at) ==
    CASE valid /\ d.state \in {"FREE_RUN", "HOLDOVER"} -> [d EXCEPT !.state = "ACQUIRE", !.acquire = at, !.lock = 0, !.unlock = 0]
      [] ~valid /\ d.state = "DISCIPLINED" ->
             [d EXCEPT !.state = "HOLDOVER", !.holdover = at, !.anchor = Ticks(d.slow), !.hat = Ticks(d.slow)]
      [] ~valid /\ d.state = "ACQUIRE" -> [d EXCEPT !.state = "FREE_RUN", !.unlock = 0]
      [] OTHER -> d

\* The estimates and residuals of a good sample; the ring of the machine's residuals holds the
\* slow estimate's when it is disciplined.
Measured(d, n) ==
    LET fast == Update(d.fast, n, FastShift)
        slow == Update(d.slow, n, SlowShift)
        r    == Ppm(Ticks(fast) - Ticks(slow), Ticks(slow))
        hat  == Blend(Ticks(fast), Ticks(slow), r)
        legacy == [d.legacy EXCEPT ![d.head] = n - (IF d.state \in {"DISCIPLINED", "HOLDOVER"} THEN Ticks(slow) ELSE hat)]
        fill == IF d.fill < Window THEN d.fill + 1 ELSE d.fill
    IN  [d EXCEPT !.fast = fast, !.slow = slow, !.r = r, !.hat = hat, !.legacy = legacy,
                  !.applied = [@ EXCEPT ![d.head] = n - hat], !.mad = Mad(legacy, fill), !.fill = fill, !.head = (@ + 1) % Window]

LockOk(d, anomaly)    == d.r < LockR /\ d.mad < LockMad /\ ~anomaly
UnlockBad(d, anomaly) == d.r > UnlockR \/ d.mad > UnlockMad \/ anomaly

\* The estimate of the slow filter alone is exported.
Anchored(d) == [d EXCEPT !.hat = Ticks(d.slow), !.anchor = Ticks(d.slow)]

Locked(d, anomaly, at) ==
    LET counted == [d EXCEPT !.lock = IF LockOk(d, anomaly) THEN Counted(@) ELSE 0]
    IN  IF counted.state = "ACQUIRE" /\ Since(at, d.acquire) >= AcquireMin /\ counted.lock >= LockCount
        THEN Anchored([counted EXCEPT !.state = "DISCIPLINED"]) ELSE counted

Unlocked(d, anomaly, at) ==
    LET bad == IF UnlockBad(d, anomaly) THEN Counted(d.unlock) ELSE 0
    IN  IF d.state # "DISCIPLINED" THEN d
        ELSE IF bad >= UnlockCount THEN [Anchored(d) EXCEPT !.state = "ACQUIRE", !.acquire = at, !.lock = 0, !.unlock = 0]
        ELSE [Anchored(d) EXCEPT !.unlock = bad]

Expired(d, at) ==
    LET held == IF d.state = "HOLDOVER" THEN [d EXCEPT !.hat = d.anchor] ELSE d
        free == IF d.state = "HOLDOVER" /\ Since(at, d.holdover) > Holdover THEN [held EXCEPT !.state = "FREE_RUN"] ELSE held
    IN  IF free.state = "FREE_RUN" THEN [free EXCEPT !.lock = 0, !.unlock = 0] ELSE free

Observe(d, cls, valid, n, anomaly, at) ==
    LET entered == Entered(d, valid, at)
    IN  Expired(IF valid /\ cls = "OK" THEN Unlocked(Locked(Measured(entered, n), anomaly, at), anomaly, at) ELSE entered, at)
-----------------------------------------------------------------------------
(* The replay *)

\* _update(), with the shift kept in its range; _mad() of a list.
PyUpdate(state, sample, shift) ==
    LET error == sample * Parts - state
        delta == Abs(error) \div 2^Max({1, Min({15, shift})})
    IN  state + (IF error >= 0 THEN delta ELSE -delta)

Sorted(values) == SortSeq(values, LAMBDA a, b : a < b)
PyMad(values) ==
    LET magnitudes == Sorted([i \in DOMAIN values |-> Abs(values[i])])
        median == magnitudes[Len(values) \div 2 + 1]
    IN  Sorted([i \in DOMAIN values |-> Abs(magnitudes[i] - median)])[Len(values) \div 2 + 1]

Kept(values, value) == LET all == Append(values, value) IN SubSeq(all, Max({1, Len(all) - Window + 1}), Len(all))

PyEnter(p, valid, at) ==
    IF valid
    THEN IF p.state \in {"FREE_RUN", "HOLDOVER"} THEN [p EXCEPT !.state = "ACQUIRE", !.acquire = at, !.lock = 0, !.unlock = 0] ELSE p
    ELSE CASE p.state = "DISCIPLINED" ->
                  [p EXCEPT !.state = "HOLDOVER", !.holdover = at, !.anchor = Ticks(p.slow), !.hat = Ticks(p.slow)]
           [] p.state = "ACQUIRE" -> [p EXCEPT !.state = "FREE_RUN", !.unlock = 0]
           [] OTHER -> p

\* A good sample, from the estimates to the unlocking.
PySample(p, n, anomaly, at) ==
    LET fast == PyUpdate(p.fast, n, FastShift)
        slow == PyUpdate(p.slow, n, SlowShift)
        r    == Ppm(Ticks(fast) - Ticks(slow), Ticks(slow))
        hi   == IF BlendHi > BlendLo THEN BlendHi ELSE BlendLo + 1
        weight == IF r <= BlendLo THEN 0 ELSE IF r >= hi THEN Full ELSE ((r - BlendLo) * Full) \div (hi - BlendLo)
        applied == (Ticks(slow) * (Full - weight) + Ticks(fast) * weight) \div Full
        legacy == Kept(p.legacy, n - (IF p.state \in {"DISCIPLINED", "HOLDOVER"} THEN Ticks(slow) ELSE applied))
        mad  == PyMad(legacy)
        lock == IF r < LockR /\ mad < LockMad /\ ~anomaly THEN Counted(p.lock) ELSE 0
        disciplined == \/ p.state = "DISCIPLINED"
                       \/ /\ p.state = "ACQUIRE" /\ Since(at, p.acquire) >= Max({1, AcquireMin})
                          /\ lock >= Max({1, Min({60, LockCount})})
        bad  == IF r > UnlockR \/ mad > UnlockMad \/ anomaly THEN Counted(p.unlock) ELSE 0
        out  == disciplined /\ bad >= Max({1, UnlockCount})
    IN  [p EXCEPT !.fast = fast, !.slow = slow, !.r = r, !.legacy = legacy, !.mad = mad,
                  !.hat    = IF disciplined THEN Ticks(slow) ELSE applied,
                  !.anchor = IF disciplined THEN Ticks(slow) ELSE @,
                  !.lock   = IF out THEN 0 ELSE lock,
                  !.unlock = IF out THEN 0 ELSE IF disciplined THEN bad ELSE @,
                  !.state  = IF out THEN "ACQUIRE" ELSE IF disciplined THEN "DISCIPLINED" ELSE @,
                  !.acquire = IF out THEN at ELSE @]

PyHoldover(p, at) ==
    IF p.state = "HOLDOVER"
    THEN IF Since(at, p.holdover) > Max({1, Holdover})
         THEN [p EXCEPT !.hat = p.anchor, !.state = "FREE_RUN", !.lock = 0, !.unlock = 0]
         ELSE [p EXCEPT !.hat = p.anchor]
    ELSE IF p.state = "FREE_RUN" THEN [p EXCEPT !.lock = 0, !.unlock = 0] ELSE p

PyObserve(p, cls, valid, n, anomaly, at) ==
    LET entered == PyEnter(p, valid, at)
    IN  PyHoldover(IF valid /\ cls = "OK" THEN PySample(entered, n, anomaly, at) ELSE entered, at)
-----------------------------------------------------------------------------
Call(cls, valid, n, anomaly, t) ==
    /\ calls < MaxCalls /\ calls' = calls + 1 /\ now' = (now + t) % MsRange
    /\ LET at == (now + t) % MsRange
       IN  fw' = Observe(fw, cls, valid, n, anomaly, at) /\ py' = PyObserve(py, cls, valid, n, anomaly, at)

\* A sample that is no good may be valid still; what it measured plays no part.
Next == \E t \in Steps :
    \/ \E n \in Samples, anomaly \in BOOLEAN : Call("OK", TRUE, n, anomaly, t)
    \/ \E valid \in BOOLEAN : Call("GAP", valid, Nominal, TRUE, t)

Spec == Init /\ [][Next]_pvars
-----------------------------------------------------------------------------
\* The replay is exact, whatever the firmware saw (firmware_parity.py, "the fixed firmware"):
\* same state, same estimates to a part of a tick, same metrics, streaks and anchor.
ParityIsExact ==
    \A f \in DOMAIN py \ {"legacy"} : fw[f] = py[f]

\* A frequency that is exported as disciplined, or held over an outage, is the slow estimate's,
\* and no estimate leaves the range of what was measured.
ExportIsSlow ==
    /\ fw.state \in {"DISCIPLINED", "HOLDOVER"} => fw.hat = Ticks(fw.slow)
    /\ \A f \in {Ticks(fw.fast), Ticks(fw.slow), fw.hat} : \E lo, hi \in Samples \cup {Nominal} : lo <= f /\ f <= hi

Machine == INSTANCE FreqDiscipliner
Age(d, t) == CASE d.state = "ACQUIRE" -> Since(t, d.acquire) [] d.state = "HOLDOVER" -> Since(t, d.holdover) [] OTHER -> 0
Shown(d, t) == [state |-> d.state, age |-> Machine!Upto(Machine!AgeLimit(d.state), Age(d, t)),
                lock |-> Machine!Upto(LockCount, d.lock), unlock |-> d.unlock]

\* The firmware with its numbers is the state machine FreqDiscipliner, for the verdicts that its
\* numbers give: each call is a step of it.
ImplementsMachine ==
    fw' # fw => \E cls \in {"OK", "GAP"}, valid, lockOk, unlockBad \in BOOLEAN :
        /\ ~(lockOk /\ unlockBad)
        /\ Shown(fw', now') = Machine!Discipline(Shown(fw, now'), cls, valid, lockOk, unlockBad)
MachineIsImplemented == [][ImplementsMachine]_pvars
=============================================================================
