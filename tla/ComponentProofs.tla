-------------------------- MODULE ComponentProofs ---------------------------
(***************************************************************************)
(* Proofs about the components of MCParts, for every value of their        *)
(* bounds.  Each section takes one component, under the letter it has in   *)
(* MCParts, and the components do not interact: variables of several of    *)
(* them have one name here because no statement is about two of them.      *)
(***************************************************************************)
EXTENDS Integers, Sequences, FiniteSets, FiniteSetTheorems, FunctionTheorems, SequenceTheorems, WellFoundedInduction, TLAPS

CONSTANT Absent

-----------------------------------------------------------------------------
(***************************************************************************)
(* The timebase: the extended timestamps are exact for every counter       *)
(* width, skew, filter delay and distance of the two timers, as long as    *)
(* the operating limits of Timebase hold.                                  *)
(*                                                                         *)
(* The argument is arithmetic modulo the widths of the counters: the       *)
(* software's count of overflows is behind the true one by the pending     *)
(* flag (Counted); whatever a routine has read so far is congruent to the  *)
(* instant at which it sampled (ReadingHolds); and the two counters'       *)
(* difference is the age of the edge, which is below one period.           *)
(***************************************************************************)
CONSTANTS TimerPeriod, Epochs, TimerWraps, Skew, Filter, Early, Offsets, TicksPerMs, MsRange, Routines,
    TimeSteps, TimebaseEnd, MaxRestarts

VARIABLES now, offset, flag, ovf, wraps, latched, ccmp, job, pc, epoch, cnt, capt, lastMs,
    backsteps, sampled, stamp, millis, restarts

T == INSTANCE Timebase WITH Period <- TimerPeriod, Wraps <- TimerWraps, Steps <- TimeSteps, MaxTime <- TimebaseEnd


Limits == T!CounterAssumption /\ T!TimingAssumption /\ T!BoundAssumption
-----------------------------------------------------------------------------
(* Division and congruence *)

LEMMA QuotientIs ==
    ASSUME NEW m \in Nat \ {0}, NEW x \in Int, NEW q \in Int, NEW r \in 0..(m - 1), x = m * q + r
    PROVE  x \div m = q /\ x % m = r
OBVIOUS

LEMMA Divided ==
    ASSUME NEW m \in Nat \ {0}, NEW x \in Int, NEW q, NEW r, q = x \div m, r = x % m
    PROVE  q \in Int /\ r \in 0..(m - 1) /\ x = m * q + r
<1>1. q \in Int /\ r \in 0..(m - 1)
  OBVIOUS
<1>2. x = q * m + r
  BY <1>1
<1> QED BY <1>1, <1>2

LEMMA Division ==
    ASSUME NEW m \in Nat \ {0}, NEW x \in Int
    PROVE  \E q \in Int : \E r \in 0..(m - 1) : q = x \div m /\ r = x % m /\ x = m * q + r
<1>1. PICK q, r : q = x \div m /\ r = x % m
  OBVIOUS
<1>2. q \in Int /\ r \in 0..(m - 1) /\ x = m * q + r
  BY <1>1, Divided
<1> QED BY <1>1, <1>2

Congruent(m, a, b) == \E k \in Int : a = b + m * k

\* Congruence is what the remainders say, and adds up.
LEMMA RestIsCongruent ==
    ASSUME NEW m \in Nat \ {0}, NEW a \in Int, NEW r, r = a % m
    PROVE  Congruent(m, a, r) /\ r \in 0..(m - 1)
<1>1. PICK q \in Int, s \in 0..(m - 1) : s = a % m /\ a = m * q + s
  BY Division
<1>2. a = s + m * q
  BY <1>1
<1>3. Congruent(m, a, s)
  BY <1>2 DEF Congruent
<1> QED BY <1>1, <1>3

LEMMA SameRest ==
    ASSUME NEW m \in Nat \ {0}, NEW a \in Int, NEW b \in Int, Congruent(m, a, b)
    PROVE  a % m = b % m
<1>1. PICK q \in Int, r \in 0..(m - 1) : r = a % m /\ a = m * q + r
  BY Division
<1>2. PICK k \in Int : a = b + m * k
  BY DEF Congruent
<1>3. q - k \in Int /\ b = m * (q - k) + r
  <2>1. a = m * q + r /\ a = b + m * k
    BY <1>1, <1>2
  <2> QED BY <2>1
<1>4. b % m = r
  BY <1>3, QuotientIs
<1> QED BY <1>1, <1>4

LEMMA CongruentPlus ==
    ASSUME NEW m \in Int, NEW a \in Int, NEW b \in Int, NEW c \in Int, Congruent(m, a, b)
    PROVE  Congruent(m, a + c, b + c)
<1>1. PICK k \in Int : a = b + m * k
  BY DEF Congruent
<1>2. a + c = (b + c) + m * k
  BY <1>1
<1> QED BY <1>2 DEF Congruent

LEMMA CongruentMinus ==
    ASSUME NEW m \in Int, NEW a \in Int, NEW b \in Int, NEW c \in Int, NEW d \in Int,
           Congruent(m, a, b), Congruent(m, c, d)
    PROVE  Congruent(m, a - c, b - d)
<1>1. PICK k \in Int : a = b + m * k
  BY DEF Congruent
<1>2. PICK l \in Int : c = d + m * l
  BY DEF Congruent
<1>3. k - l \in Int /\ a - c = (b - d) + m * (k - l)
  BY <1>1, <1>2
<1> QED BY <1>3 DEF Congruent

LEMMA CongruentTrans ==
    ASSUME NEW m \in Int, NEW a \in Int, NEW b \in Int, NEW c \in Int,
           Congruent(m, a, b), Congruent(m, b, c)
    PROVE  Congruent(m, a, c)
<1>1. PICK k \in Int : a = b + m * k
  BY DEF Congruent
<1>2. PICK l \in Int : b = c + m * l
  BY DEF Congruent
<1>3. k + l \in Int /\ a = c + m * (k + l)
  BY <1>1, <1>2
<1> QED BY <1>3 DEF Congruent

LEMMA Regroup ==
    ASSUME NEW p \in Int, NEW n \in Int, NEW t \in Int, NEW q \in Int, NEW r \in Int,
           NEW count \in Int, NEW k \in Int, t = p * q + r, q = count + n * k
    PROVE  t = (count * p + r) + (p * n) * k
<1>1. p * q = p * count + p * (n * k)
  OBVIOUS
<1>2. p * (n * k) = (p * n) * k
  OBVIOUS
<1>3. p * count = count * p
  OBVIOUS
<1>4. p * (n * k) \in Int /\ p * count \in Int
  OBVIOUS
<1> QED BY <1>1, <1>2, <1>3, <1>4

\* A time is known modulo the range of the overflow count times the period,
\* when the number of its period is known modulo that range.
LEMMA TimeFromCount ==
    ASSUME NEW p \in Nat \ {0}, NEW n \in Nat \ {0}, NEW t \in Int, NEW count \in Int,
           Congruent(n, t \div p, count), NEW r, r = t % p
    PROVE  Congruent(p * n, t, count * p + r)
<1>1. PICK q \in Int :
            q = t \div p /\ r \in 0..(p - 1) /\ t = p * q + r
  BY Division
<1>2. q \in Int /\ r \in 0..(p - 1) /\ t = p * q + r
  BY <1>1
<1>3. PICK k \in Int : q = count + n * k
  BY <1>1 DEF Congruent
<1>4. t = (count * p + r) + (p * n) * k
  BY <1>2, <1>3, Regroup
<1> QED BY <1>3, <1>4 DEF Congruent

\* And conversely: the wide read is the time itself modulo its width.
LEMMA CountToTime ==
    ASSUME NEW p \in Nat \ {0}, NEW n \in Nat \ {0}, NEW t \in Int, NEW count \in Int,
           NEW c \in 0..(p - 1), Congruent(p * n, t, count * p + c)
    PROVE  (count % n) * p + c = t % (p * n)
<1>1. PICK q \in Int, r \in 0..(n - 1) :
            q = count \div n /\ r = count % n /\ count = n * q + r
  BY Division
<1>2. q \in Int /\ r \in 0..(n - 1) /\ count = n * q + r
  BY <1>1
<1>3. PICK k \in Int : t = (count * p + c) + (p * n) * k
  BY DEF Congruent
<1>4. count * p = (p * n) * q + r * p
  <2>1. count * p = (n * q) * p + r * p
    BY <1>2
  <2>2. (n * q) * p = (p * n) * q
    BY <1>2
  <2> QED BY <2>1, <2>2
<1>5. r * p + c \in 0..(p * n - 1)
  <2>1. r * p <= (n - 1) * p
    BY <1>2
  <2>2. (n - 1) * p = p * n - p
    OBVIOUS
  <2>3. r * p >= 0 /\ r * p \in Int /\ p * n \in Int
    BY <1>2
  <2> QED BY <2>1, <2>2, <2>3
<1>6. p * n \in Nat \ {0}
  OBVIOUS
<1>7. q + k \in Int /\ t = (p * n) * (q + k) + (r * p + c)
  <2>1. (p * n) * (q + k) = (p * n) * q + (p * n) * k
    BY <1>2, <1>6
  <2>2. (p * n) * q \in Int /\ (p * n) * k \in Int /\ r * p \in Int /\ count * p \in Int
    BY <1>2, <1>6
  <2> QED BY <1>2, <1>3, <1>4, <2>1, <2>2
<1>8. t % (p * n) = r * p + c
  <2> DEFINE M == p * n
  <2> DEFINE Q == q + k
  <2> DEFINE R == r * p + c
  <2>1. M \in Nat \ {0} /\ t \in Int /\ Q \in Int /\ R \in 0..(M - 1) /\ t = M * Q + R
    BY <1>5, <1>6, <1>7
  <2> HIDE DEF M, Q, R
  <2>2. t % M = R
    BY <2>1, QuotientIs
  <2> QED BY <2>2 DEF M, R
<1> QED BY <1>1, <1>8

-----------------------------------------------------------------------------
(* The passage of time *)

\* Overflows of TCB0 up to tick t, the last tick of a period counting as
\* overflowed when Early = 1.
Overflows(t) == (t + Early) \div TimerPeriod

Bit(b) == IF b THEN 1 ELSE 0

\* In at most a period the counter overflows once, exactly when it crosses;
\* when it does not, the number of the period is the number of overflows.
LEMMA OneOverflow ==
    ASSUME Limits, now \in Nat, NEW d \in 1..TimerPeriod
    PROVE  /\ Overflows(now + d) = Overflows(now) + Bit(T!Crossing(now + d))
           /\ ~T!Crossing(now + d) => (now + d) \div TimerPeriod = Overflows(now + d)
<1>1. TimerPeriod \in Nat \ {0} /\ Early \in {0, 1} /\ now + Early \in Int /\ now + d + Early \in Int
  BY DEF Limits, T!CounterAssumption, T!TimingAssumption
<1>2. PICK q \in Int, r \in 0..(TimerPeriod - 1) :
          q = (now + Early) \div TimerPeriod /\ r = (now + Early) % TimerPeriod /\ now + Early = TimerPeriod * q + r
  BY <1>1, Division
<1>3. CASE r + d < TimerPeriod
  <2>1. r + d \in 0..(TimerPeriod - 1) /\ now + d + Early = TimerPeriod * q + (r + d)
    BY <1>1, <1>2, <1>3
  <2>2. (now + d + Early) \div TimerPeriod = q
    BY <1>1, <2>1, QuotientIs
  <2>3. ~T!Crossing(now + d)
    <3>1. SUFFICES ASSUME NEW t \in now + 1 .. now + d PROVE (t + Early) % TimerPeriod # 0
      BY DEF T!Crossing
    <3> DEFINE x == t + Early
    <3> DEFINE s == r + (t - now)
    <3>2. s \in 0..(TimerPeriod - 1) /\ x = TimerPeriod * q + s /\ s # 0 /\ x \in Int
      BY <1>1, <1>2, <1>3
    <3> HIDE DEF x, s
    <3>3. x % TimerPeriod = s
      BY ZenonT(40), <1>1, <1>2, <3>2, QuotientIs
    <3> QED BY <3>2, <3>3 DEF x
  <2>4. (now + d) \div TimerPeriod = q
    <3> DEFINE x == now + d
    <3> DEFINE s == r + d - Early
    <3>1. s \in 0..(TimerPeriod - 1) /\ x = TimerPeriod * q + s /\ x \in Int
      BY <1>1, <1>2, <1>3
    <3> HIDE DEF x, s
    <3>2. x \div TimerPeriod = q
      BY <1>1, <1>2, <3>1, QuotientIs
    <3> QED BY <3>2 DEF x
  <2> QED BY <1>2, <2>2, <2>3, <2>4 DEF Overflows, Bit
<1>4. CASE r + d >= TimerPeriod
  <2>1. /\ r + d - TimerPeriod \in 0..(TimerPeriod - 1)
        /\ now + d + Early = TimerPeriod * (q + 1) + (r + d - TimerPeriod)
    BY <1>1, <1>2, <1>4
  <2>2. (now + d + Early) \div TimerPeriod = q + 1
    <3> DEFINE x == now + d + Early
    <3> DEFINE s == r + d - TimerPeriod
    <3> DEFINE z == q + 1
    <3>1. s \in 0..(TimerPeriod - 1) /\ x = TimerPeriod * z + s /\ x \in Int /\ z \in Int
      BY <1>1, <1>2, <2>1
    <3> HIDE DEF x, s, z
    <3>2. x \div TimerPeriod = z
      BY <1>1, <3>1, QuotientIs
    <3> QED BY <3>2 DEF x, z
  <2>3. T!Crossing(now + d)
    <3> DEFINE t == now + (TimerPeriod - r)
    <3>1. t \in now + 1 .. now + d /\ t + Early = TimerPeriod * (q + 1) + 0
      BY <1>1, <1>2, <1>4
    <3>2. t + Early \in Int /\ q + 1 \in Int /\ 0 \in 0..(TimerPeriod - 1)
      BY <1>1, <1>2
    <3> HIDE DEF t
    <3>3. (t + Early) % TimerPeriod = 0
      BY <1>1, <3>1, <3>2, QuotientIs
    <3> QED BY <3>1, <3>3 DEF T!Crossing
  <2> QED BY <1>2, <2>2, <2>3 DEF Overflows, Bit
<1> QED BY <1>1, <1>2, <1>3, <1>4

\* The true count of overflows, less the one that waits behind the flag.
Serviced == Overflows(now) - Bit(flag)

\* A flag that is not set has been raised by no tick up to now, the present
\* one included.
Settled == ~flag => now \div TimerPeriod = Overflows(now)

LEMMA TimePasses ==
    ASSUME Limits, now \in Nat, flag \in BOOLEAN, latched \in Int, NEW d \in 1..TimerPeriod, NEW f \in BOOLEAN,
           T!Passes(d, f)
    PROVE  /\ now' = now + d /\ now' \in Nat /\ flag' \in BOOLEAN
           /\ Overflows(now') - Bit(flag') = Overflows(now) - Bit(f)
           /\ f => flag' /\ now' \div TimerPeriod = Overflows(now')
           /\ ~flag' => ~f /\ now' \div TimerPeriod = Overflows(now')
           /\ latched # T!NoEdge => now' - latched < TimerPeriod
<1>1. /\ now' = now + d /\ flag' = (f \/ T!Crossing(now + d)) /\ ~(f /\ T!Crossing(now + d))
      /\ latched # T!NoEdge => now + d - latched < TimerPeriod
  BY DEF T!Passes
<1>2. now + d \in Nat
  BY DEF Limits, T!CounterAssumption
<1>3. flag' \in BOOLEAN
  BY <1>1, Zenon
<1>4. /\ Overflows(now + d) = Overflows(now) + Bit(T!Crossing(now + d))
      /\ ~T!Crossing(now + d) => (now + d) \div TimerPeriod = Overflows(now + d)
  BY OneOverflow
<1>5. Overflows(now) \in Int
  <2>1. TimerPeriod \in Nat \ {0} /\ now + Early \in Int
    BY DEF Limits, T!CounterAssumption, T!TimingAssumption
  <2>2. PICK q \in Int, r \in 0..(TimerPeriod - 1) : q = (now + Early) \div TimerPeriod
    BY <2>1, Division
  <2> QED BY <2>2 DEF Overflows
<1>6. Overflows(now + d) - Bit(f \/ T!Crossing(now + d)) = Overflows(now) - Bit(f)
  BY <1>1, <1>4, <1>5 DEF Bit
<1>7. Overflows(now') = Overflows(now + d)
  BY <1>1 DEF Overflows
<1>8. Overflows(now') - Bit(flag') = Overflows(now) - Bit(f)
  BY <1>1, <1>6, <1>7 DEF Bit
<1>9. f => flag' /\ ~T!Crossing(now + d)
  BY <1>1
<1>10. ~flag' => ~f /\ ~T!Crossing(now + d)
  BY <1>1
<1>11. f => now' \div TimerPeriod = Overflows(now')
  BY <1>1, <1>4, <1>7, <1>9
<1>12. ~flag' => now' \div TimerPeriod = Overflows(now')
  BY <1>1, <1>4, <1>7, <1>10
<1>13. latched # T!NoEdge => now' - latched < TimerPeriod
  BY <1>1
<1>14. now' = now + d /\ now' \in Nat
  BY <1>1, <1>2
<1> QED BY <1>3, <1>8, <1>9, <1>10, <1>11, <1>12, <1>13, <1>14

-----------------------------------------------------------------------------
(* The invariant *)

\* The software's counts are behind the true one by the pending flag.
Counted == Congruent(Epochs, Serviced, ovf) /\ Congruent(TimerWraps, Serviced, wraps)

\* A pending edge is younger than a period, and its register tells when it
\* was latched.
EdgeKnown == latched # T!NoEdge => /\ latched \in Filter .. now
                                   /\ now - latched < TimerPeriod
                                   /\ ccmp = (latched + offset) % TimerPeriod

HasEdge == pc # "loop" /\ job = "capture" => latched # T!NoEdge

\* The count that the routine reads, and its range.
CountOf == IF job = "now64" THEN wraps ELSE ovf
RangeOf == IF job = "now64" THEN TimerWraps ELSE Epochs

\* The instant at which TCB0 was sampled.
SampledAt == IF job = "capture" THEN sampled - Skew ELSE sampled

\* The count and the sample stand for that instant.
ReadingHolds == Congruent(TimerPeriod * RangeOf, SampledAt, epoch * TimerPeriod + cnt)

SampleKnown == /\ sampled <= now
               /\ job = "capture" => /\ latched <= sampled
                                     /\ capt = (sampled + offset) % TimerPeriod

\* What each point of a routine may rely on: the count is the software's, or
\* one ahead when the flag was seen; a sample taken while the flag was not
\* set is of the period that was counted.
InRoutine ==
    /\ pc = "sample" => epoch = CountOf
    /\ pc = "check" => epoch = CountOf /\ SampleKnown /\ (~flag => ReadingHolds)
    /\ pc = "again" => flag /\ epoch = CountOf + 1 /\ now \div TimerPeriod = Overflows(now)
    /\ pc = "combine" => SampleKnown /\ ReadingHolds

TimeInv == T!TypeOK /\ Counted /\ Settled /\ EdgeKnown /\ HasEdge /\ InRoutine

\* The constants and variables as numbers.
LEMMA Numbers ==
    ASSUME Limits, T!TypeOK
    PROVE  /\ TimerPeriod \in Nat \ {0} /\ Epochs \in Nat \ {0} /\ TimerWraps \in Nat \ {0}
           /\ Skew \in 0..(TimerPeriod - 1) /\ Early \in {0, 1} /\ Filter \in Nat
           /\ TimebaseEnd \in Nat /\ MaxRestarts \in Nat
           /\ now \in Nat /\ offset \in 0..(TimerPeriod - 1) /\ flag \in BOOLEAN
           /\ ovf \in 0..(Epochs - 1) /\ wraps \in 0..(TimerWraps - 1)
           /\ latched \in Int /\ ccmp \in 0..(TimerPeriod - 1)
           /\ epoch \in Nat /\ cnt \in 0..(TimerPeriod - 1) /\ capt \in 0..(TimerPeriod - 1) /\ sampled \in Nat
           /\ CountOf \in Nat /\ RangeOf \in Nat \ {0} /\ SampledAt \in Int
<1>1. /\ TimerPeriod \in Nat \ {0} /\ Epochs \in Nat \ {0} /\ TimerWraps \in Nat \ {0}
      /\ Skew \in 0..(TimerPeriod - 1) /\ Early \in {0, 1} /\ Filter \in Nat
      /\ TimebaseEnd \in Nat /\ MaxRestarts \in Nat /\ Offsets \subseteq 0..(TimerPeriod - 1)
  BY DEF Limits, T!CounterAssumption, T!TimingAssumption, T!BoundAssumption
<1>2. flag \in BOOLEAN
  BY DEF T!TypeOK
<1>3. /\ now \in Nat /\ offset \in 0..(TimerPeriod - 1)
      /\ ovf \in 0..(Epochs - 1) /\ wraps \in 0..(TimerWraps - 1)
      /\ latched \in Int /\ ccmp \in 0..(TimerPeriod - 1)
      /\ epoch \in Nat /\ cnt \in 0..(TimerPeriod - 1) /\ capt \in 0..(TimerPeriod - 1) /\ sampled \in Nat
  BY <1>1 DEF T!TypeOK
<1>4. CountOf \in Nat /\ RangeOf \in Nat \ {0}
  BY <1>1, <1>3 DEF CountOf, RangeOf
<1>5. SampledAt \in Int
  BY <1>1, <1>3 DEF SampledAt
<1> QED BY <1>1, <1>2, <1>3, <1>4, <1>5

LEMMA Durations == ASSUME Limits, NEW d \in TimeSteps PROVE d \in 1..TimerPeriod /\ Skew + d \in 1..TimerPeriod
BY DEF Limits, T!CounterAssumption, T!TimingAssumption

LEMMA OverflowsInt == ASSUME Limits, NEW t \in Nat PROVE Overflows(t) \in Int
<1>1. TimerPeriod \in Nat \ {0} /\ t + Early \in Int
  BY DEF Limits, T!CounterAssumption, T!TimingAssumption
<1>2. PICK q \in Int, r \in 0..(TimerPeriod - 1) : q = (t + Early) \div TimerPeriod
  BY <1>1, Division
<1> QED BY <1>2 DEF Overflows

TimeTyped == /\ now \in 0..TimebaseEnd /\ offset \in Offsets /\ flag \in BOOLEAN
             /\ ovf \in 0..(Epochs - 1) /\ wraps \in 0..(TimerWraps - 1)
             /\ restarts \in 0..MaxRestarts

\* Time passes and nothing else happens to the timers.
LEMMA Ticks ==
    ASSUME Limits, T!TypeOK, Counted, Settled, EdgeKnown,
           NEW d \in 1..TimerPeriod, T!Takes(d), UNCHANGED <<latched, ccmp>>
    PROVE  /\ TimeTyped' /\ Counted' /\ Settled' /\ EdgeKnown'
           /\ now' = now + d /\ UNCHANGED <<offset, ovf, wraps, restarts>>
           /\ flag => flag' /\ now' \div TimerPeriod = Overflows(now')
<1>1. T!Passes(d, flag) /\ UNCHANGED <<offset, ovf, wraps, restarts>>
  BY DEF T!Takes
<1>2. /\ now' = now + d /\ now' \in Nat /\ flag' \in BOOLEAN
      /\ Overflows(now') - Bit(flag') = Overflows(now) - Bit(flag)
      /\ flag => flag' /\ now' \div TimerPeriod = Overflows(now')
      /\ ~flag' => ~flag /\ now' \div TimerPeriod = Overflows(now')
      /\ latched # T!NoEdge => now' - latched < TimerPeriod
  BY <1>1, TimePasses, Numbers
<1>3. TimeTyped'
  BY <1>1, <1>2 DEF TimeTyped, T!TypeOK, T!Passes
<1>4. Serviced' = Serviced
  BY <1>2 DEF Serviced, Overflows, Bit
<1>5. Counted'
  BY <1>1, <1>4 DEF Counted, Congruent
<1>6. Settled'
  BY <1>2 DEF Settled, Overflows
<1>7. EdgeKnown'
  BY <1>1, <1>2, Numbers DEF EdgeKnown
<1> QED BY <1>1, <1>2, <1>3, <1>5, <1>6, <1>7

LEMMA CountedNow ==
    ASSUME Limits, T!TypeOK, Counted
    PROVE  Serviced \in Int /\ Congruent(RangeOf, Serviced, CountOf)
<1>1. Serviced \in Int
  BY OverflowsInt, Numbers DEF Serviced, Bit
<1> QED BY <1>1 DEF Counted, RangeOf, CountOf

LEMMA SampleIs ==
    ASSUME NEW p \in Nat \ {0}, NEW n \in Nat \ {0}, NEW t \in Int, NEW s \in Int, NEW c \in Int,
           NEW b \in Int, Congruent(n, s, c), NEW x, x = s + b, x = t \div p, NEW r, r = t % p
    PROVE  Congruent(p * n, t, (c + b) * p + r)
<1>1. Congruent(n, s + b, c + b)
  <2>1. PICK k \in Int : s = c + n * k
    BY DEF Congruent
  <2>2. s + b = (c + b) + n * k
    BY <2>1
  <2> QED BY <2>2 DEF Congruent
<1>2. c + b \in Int
  OBVIOUS
<1>3. Congruent(n, t \div p, c + b)
  BY <1>1
<1> QED BY <1>2, <1>3, TimeFromCount

\* A sample taken in the period that the counts stand for.
LEMMA SampleHolds ==
    ASSUME Limits, T!TypeOK, Counted, now \div TimerPeriod = Overflows(now), NEW r, r = now % TimerPeriod
    PROVE  Congruent(TimerPeriod * RangeOf, now, (CountOf + Bit(flag)) * TimerPeriod + r)
<1>1. Serviced \in Int /\ Congruent(RangeOf, Serviced, CountOf)
  BY CountedNow
<1>2. TimerPeriod \in Nat \ {0} /\ RangeOf \in Nat \ {0} /\ now \in Int /\ CountOf \in Int
  BY Numbers
<1>3. Bit(flag) \in Int
  BY DEF Bit
<1>4. Overflows(now) = Serviced + Bit(flag)
  BY <1>3, OverflowsInt, Numbers DEF Serviced
<1> HIDE DEF Serviced, CountOf, RangeOf, Bit
<1> QED BY <1>1, <1>2, <1>3, <1>4, SampleIs

RegsTyped == /\ latched \in -1 .. TimebaseEnd /\ ccmp \in 0 .. TimerPeriod-1
             /\ job \in Routines \cup {"none"}
             /\ pc \in {"loop", "sample", "check", "again", "combine"}
             /\ epoch \in Nat /\ cnt \in 0 .. TimerPeriod-1 /\ capt \in 0 .. TimerPeriod-1
             /\ sampled \in Nat

OutcomeTyped == /\ lastMs \in Nat /\ backsteps \in Nat
                /\ stamp \in [value : 0 .. T!Short-1, truth : Nat]
                /\ millis \in [value : 0 .. MsRange-1, at : Nat, run : 0 .. MaxRestarts]

LEMMA Typed == ASSUME T!TypeOK PROVE TimeTyped /\ RegsTyped /\ OutcomeTyped
BY DEF T!TypeOK, TimeTyped, RegsTyped, OutcomeTyped

LEMMA Remainder == ASSUME NEW m \in Nat \ {0}, NEW a \in Int PROVE a % m \in 0..(m - 1)
BY RestIsCongruent

LEMMA ShortIsPositive == ASSUME Limits PROVE T!Short \in Nat \ {0}
BY DEF Limits, T!CounterAssumption, T!Short

-----------------------------------------------------------------------------
(* Every step keeps the invariant *)

LEMMA AtZero == ASSUME Limits PROVE Overflows(0) = 0 /\ 0 \div TimerPeriod = 0
<1>1. TimerPeriod \in Nat \ {0} /\ Early \in 0..(TimerPeriod - 1)
  BY DEF Limits, T!CounterAssumption, T!TimingAssumption
<1>2. 0 = TimerPeriod * 0 + 0 /\ 0 \in 0..(TimerPeriod - 1) /\ Early = TimerPeriod * 0 + Early /\ 0 \in Int /\ Early \in Int
  BY <1>1
<1>3. 0 \div TimerPeriod = 0
  BY <1>1, <1>2, QuotientIs
<1>4. Early \div TimerPeriod = 0
  BY <1>1, <1>2, QuotientIs
<1>5. 0 + Early = Early
  BY <1>1
<1> QED BY <1>3, <1>4, <1>5 DEF Overflows

LEMMA ZeroIsZero == ASSUME NEW m \in Int PROVE Congruent(m, 0, 0)
<1>1. 0 = 0 + m * 0
  OBVIOUS
<1> QED BY <1>1 DEF Congruent

LEMMA InitHolds == ASSUME Limits, T!Init PROVE TimeInv
<1>1. Counted /\ Settled
  <2>1. now = 0 /\ flag = FALSE /\ ovf = 0 /\ wraps = 0
    BY DEF T!Init
  <2>2. Serviced = 0 /\ Overflows(now) = 0
    BY <2>1, AtZero DEF Serviced, Bit
  <2>3. Congruent(Epochs, 0, 0) /\ Congruent(TimerWraps, 0, 0)
    BY ZeroIsZero DEF Limits, T!CounterAssumption
  <2> QED BY <2>1, <2>2, <2>3, AtZero DEF Counted, Settled
<1>2. EdgeKnown /\ HasEdge /\ InRoutine
  BY DEF T!Init, EdgeKnown, HasEdge, InRoutine
<1>3. T!TypeOK
  <2>1. T!Short \in Nat \ {0}
    BY ShortIsPositive
  <2>2. /\ now \in 0 .. TimebaseEnd /\ offset \in Offsets /\ ovf \in 0 .. Epochs-1 /\ wraps \in 0 .. TimerWraps-1
        /\ latched \in -1 .. TimebaseEnd /\ ccmp \in 0 .. TimerPeriod-1
        /\ epoch \in Nat /\ cnt \in 0 .. TimerPeriod-1 /\ capt \in 0 .. TimerPeriod-1 /\ sampled \in Nat
        /\ lastMs \in Nat /\ backsteps \in Nat /\ restarts \in 0 .. MaxRestarts
    BY DEF T!Init, Limits, T!CounterAssumption, T!TimingAssumption, T!BoundAssumption, T!NoEdge
  <2>3. stamp \in [value : 0 .. T!Short-1, truth : Nat]
    BY <2>1 DEF T!Init, T!NoStamp
  <2>4. millis \in [value : 0 .. MsRange-1, at : Nat, run : 0 .. MaxRestarts]
    BY DEF T!Init, Limits, T!BoundAssumption
  <2>5. flag \in BOOLEAN /\ job \in Routines \cup {"none"}
        /\ pc \in {"loop", "sample", "check", "again", "combine"}
    BY DEF T!Init
  <2> QED BY <2>2, <2>3, <2>4, <2>5 DEF T!TypeOK
<1> QED BY <1>1, <1>2, <1>3 DEF TimeInv

LEMMA ElapseStep == ASSUME Limits, TimeInv, T!Elapse PROVE TimeInv'
<1>1. PICK d \in TimeSteps : T!Takes(d)
  BY DEF T!Elapse
<1>2. d \in 1..TimerPeriod /\ UNCHANGED <<latched, ccmp>>
  BY Durations DEF T!Elapse
<1>3. TimeTyped' /\ Counted' /\ Settled' /\ EdgeKnown'
  BY <1>1, <1>2, Ticks DEF TimeInv
<1>4. pc' = "loop" /\ UNCHANGED <<latched, ccmp, T!regs, T!outcome>>
  BY DEF T!Elapse, T!regs
<1>5. HasEdge' /\ InRoutine'
  BY <1>4 DEF HasEdge, InRoutine
<1>6. T!TypeOK'
  <2>1. RegsTyped' /\ OutcomeTyped'
    BY <1>4, Typed DEF TimeInv, RegsTyped, OutcomeTyped, T!regs, T!outcome
  <2> QED BY <1>3, <2>1 DEF T!TypeOK, TimeTyped, RegsTyped, OutcomeTyped
<1> QED BY <1>3, <1>5, <1>6 DEF TimeInv

LEMMA EdgeStep == ASSUME Limits, TimeInv, T!Edge PROVE TimeInv'
<1>1. /\ latched = T!NoEdge /\ now >= Filter /\ latched' = now /\ ccmp' = (now + offset) % TimerPeriod
      /\ UNCHANGED <<now, offset, flag, ovf, wraps, T!regs, T!outcome, restarts>>
  BY DEF T!Edge
<1>2. UNCHANGED <<job, pc, epoch, cnt, capt, sampled, lastMs, backsteps, stamp, millis>>
  BY <1>1 DEF T!regs, T!outcome
<1>3. ccmp' \in 0..(TimerPeriod - 1)
  <2>1. now + offset \in Int /\ TimerPeriod \in Nat \ {0}
    BY Numbers DEF TimeInv
  <2> QED BY <1>1, <2>1, Remainder
<1>4. T!TypeOK'
  <2>1. TimeTyped' /\ OutcomeTyped'
    BY <1>1, <1>2, Typed DEF TimeInv, TimeTyped, OutcomeTyped
  <2>2. latched' \in -1..TimebaseEnd
    BY <1>1, Numbers DEF TimeInv, T!TypeOK
  <2>3. RegsTyped'
    BY <1>2, <1>3, <2>2, Typed DEF TimeInv, RegsTyped
  <2> QED BY <2>1, <2>3 DEF T!TypeOK, TimeTyped, RegsTyped, OutcomeTyped
<1>5. Counted' /\ Settled'
  BY <1>1 DEF TimeInv, Counted, Settled, Serviced, Overflows, Bit, Congruent
<1>6. EdgeKnown'
  BY <1>1, Numbers DEF TimeInv, EdgeKnown
<1>7. pc = "loop" \/ job # "capture"
  BY <1>1 DEF TimeInv, HasEdge
<1>8. HasEdge'
  BY <1>1, <1>2, <1>7 DEF HasEdge
<1>9. InRoutine'
  <2>1. CountOf' = CountOf /\ (ReadingHolds' <=> ReadingHolds)
    BY <1>1, <1>2 DEF CountOf, ReadingHolds, Congruent, RangeOf, SampledAt
  <2>2. pc # "loop" => (SampleKnown => SampleKnown')
    BY <1>1, <1>2, <1>7 DEF SampleKnown
  <2>3. UNCHANGED <<pc, epoch, flag, now>> /\ Overflows(now') = Overflows(now)
    BY <1>1, <1>2
  <2> QED BY <2>1, <2>2, <2>3 DEF TimeInv, InRoutine
<1> QED BY <1>4, <1>5, <1>6, <1>8, <1>9 DEF TimeInv

LEMMA Counting ==
    ASSUME NEW n \in Nat \ {0}, NEW s \in Int, NEW c \in Int, Congruent(n, s, c)
    PROVE  Congruent(n, s + 1, T!Succ(c, n)) /\ T!Succ(c, n) \in 0..(n - 1)
<1>1. Congruent(n, s + 1, c + 1)
  <2>1. PICK k \in Int : s = c + n * k
    BY DEF Congruent
  <2>2. s + 1 = (c + 1) + n * k
    BY <2>1
  <2> QED BY <2>2 DEF Congruent
<1>2. s + 1 \in Int /\ c + 1 \in Int
  OBVIOUS
<1>3. Congruent(n, c + 1, (c + 1) % n) /\ (c + 1) % n \in 0..(n - 1)
  BY <1>2, RestIsCongruent
<1>4. (c + 1) % n \in Int
  BY <1>3
<1>5. Congruent(n, s + 1, (c + 1) % n)
  BY <1>1, <1>2, <1>3, <1>4, CongruentTrans
<1> QED BY <1>3, <1>5 DEF T!Succ

LEMMA OverflowIsrStep == ASSUME Limits, TimeInv, T!OverflowIsr PROVE TimeInv'
<1>1. PICK d \in TimeSteps : T!Passes(d, FALSE)
  BY DEF T!OverflowIsr
<1>2. /\ pc = "loop" /\ flag = TRUE /\ pc' = "loop"
      /\ ovf' = T!Succ(ovf, Epochs) /\ wraps' = T!Succ(wraps, TimerWraps)
      /\ UNCHANGED <<offset, latched, ccmp, T!regs, T!outcome, restarts>>
  BY DEF T!OverflowIsr, T!regs, TimeInv, T!TypeOK
<1>3. d \in 1..TimerPeriod
  BY Durations
<1>4. /\ now' = now + d /\ now' \in Nat /\ flag' \in BOOLEAN
      /\ Overflows(now') - Bit(flag') = Overflows(now) - Bit(FALSE)
      /\ ~flag' => now' \div TimerPeriod = Overflows(now')
      /\ latched # T!NoEdge => now' - latched < TimerPeriod
  BY <1>1, <1>3, TimePasses, Numbers DEF TimeInv
<1>5. Serviced' = Serviced + 1
  <2>1. Overflows(now) \in Int /\ Overflows(now) - Bit(FALSE) = Overflows(now)
    BY OverflowsInt, Numbers DEF TimeInv, Bit
  <2>2. Serviced = Overflows(now) - 1
    BY <1>2 DEF Serviced, Bit
  <2>3. Serviced' = Overflows(now') - Bit(flag')
    BY DEF Serviced, Overflows, Bit
  <2>4. Overflows(now') \in Int /\ Bit(flag') \in Int
    BY <1>4, OverflowsInt DEF Bit
  <2>5. Overflows(now') - Bit(flag') = Overflows(now)
    BY <1>4, <2>1
  <2>6. Overflows(now') - Bit(flag') = Serviced + 1
    <3>1. Serviced \in Int
      BY <2>1, <2>2
    <3> QED BY <2>1, <2>2, <2>5, <3>1
  <2> QED BY <2>3, <2>6
<1>6. Serviced \in Int
  BY CountedNow DEF TimeInv
<1>7. Congruent(Epochs, Serviced + 1, ovf') /\ ovf' \in 0..(Epochs - 1)
  <2>1. Epochs \in Nat \ {0} /\ ovf \in Int /\ Congruent(Epochs, Serviced, ovf)
    BY Numbers DEF TimeInv, Counted
  <2> QED BY <1>2, <1>6, <2>1, Counting
<1>8. Congruent(TimerWraps, Serviced + 1, wraps') /\ wraps' \in 0..(TimerWraps - 1)
  <2>1. TimerWraps \in Nat \ {0} /\ wraps \in Int /\ Congruent(TimerWraps, Serviced, wraps)
    BY Numbers DEF TimeInv, Counted
  <2> QED BY <1>2, <1>6, <2>1, Counting
<1>9. Counted'
  <2>1. Congruent(Epochs, Serviced', ovf') /\ Congruent(TimerWraps, Serviced', wraps')
    BY <1>5, <1>7, <1>8
  <2> QED BY <2>1 DEF Counted, Congruent
<1>10. Settled'
  BY <1>4 DEF Settled, Overflows
<1>11. EdgeKnown'
  <2>1. now \in Nat /\ latched \in Int /\ d \in Nat /\ Filter \in Nat
    BY <1>3, Numbers DEF TimeInv
  <2>2. latched' = latched /\ ccmp' = ccmp /\ offset' = offset
    BY <1>2
  <2>3. ASSUME latched # T!NoEdge PROVE latched \in Filter..now' /\ now' - latched < TimerPeriod
    BY <1>4, <2>1, <2>3 DEF TimeInv, EdgeKnown
  <2> QED BY <2>2, <2>3 DEF TimeInv, EdgeKnown
<1>12. HasEdge' /\ InRoutine'
  BY <1>2 DEF HasEdge, InRoutine
<1>13. T!TypeOK'
  <2>1. TimeTyped'
    BY <1>1, <1>2, <1>4, <1>7, <1>8 DEF TimeInv, T!TypeOK, TimeTyped, T!Passes
  <2>2. RegsTyped' /\ OutcomeTyped'
    BY <1>2, Typed DEF TimeInv, RegsTyped, OutcomeTyped, T!regs, T!outcome
  <2> QED BY <2>1, <2>2 DEF T!TypeOK, TimeTyped, RegsTyped, OutcomeTyped
<1> QED BY <1>9, <1>10, <1>11, <1>12, <1>13 DEF TimeInv

LEMMA RestartStep == ASSUME Limits, TimeInv, T!Restart PROVE TimeInv'
<1>1. /\ pc = "loop" /\ restarts < MaxRestarts /\ now' = 0 /\ offset' \in Offsets /\ flag' = FALSE
      /\ ovf' = 0 /\ wraps' = 0 /\ latched' = T!NoEdge /\ ccmp' = 0 /\ restarts' = restarts + 1
      /\ UNCHANGED <<T!regs, T!outcome>>
  BY DEF T!Restart, T!ClearCounts
<1>2. Counted' /\ Settled'
  <2>1. Overflows(now') = 0 /\ now' \div TimerPeriod = 0
    BY <1>1, AtZero
  <2>2. Serviced' = 0
    BY <1>1, <2>1 DEF Serviced, Overflows, Bit
  <2>3. Congruent(Epochs, Serviced', ovf') /\ Congruent(TimerWraps, Serviced', wraps')
    BY <1>1, <2>2, ZeroIsZero DEF Limits, T!CounterAssumption
  <2> QED BY <1>1, <2>1, <2>3 DEF Counted, Settled, Congruent, Overflows
<1>3. EdgeKnown' /\ HasEdge' /\ InRoutine'
  BY <1>1 DEF EdgeKnown, HasEdge, InRoutine, T!regs
<1>4. T!TypeOK'
  <2>1. TimeTyped'
    <3>1. restarts \in 0..MaxRestarts /\ MaxRestarts \in Nat /\ TimebaseEnd \in Nat
          /\ Epochs \in Nat \ {0} /\ TimerWraps \in Nat \ {0}
      BY Numbers DEF TimeInv, T!TypeOK
    <3>2. now' \in 0..TimebaseEnd /\ ovf' \in 0..(Epochs - 1) /\ wraps' \in 0..(TimerWraps - 1)
          /\ restarts' \in 0..MaxRestarts
      BY <1>1, <3>1
    <3> QED BY <1>1, <3>2 DEF TimeTyped
  <2>2. latched' \in -1..TimebaseEnd /\ ccmp' \in 0..(TimerPeriod - 1)
    BY <1>1, Numbers DEF TimeInv, T!NoEdge
  <2>3. RegsTyped' /\ OutcomeTyped'
    BY <1>1, <2>2, Typed DEF TimeInv, RegsTyped, OutcomeTyped, T!regs, T!outcome
  <2> QED BY <2>1, <2>3 DEF T!TypeOK, TimeTyped, RegsTyped, OutcomeTyped
<1> QED BY <1>2, <1>3, <1>4 DEF TimeInv

LEMMA BeginStep == ASSUME Limits, TimeInv, NEW j \in Routines, T!Begin(j) PROVE TimeInv'
<1>1. PICK d \in TimeSteps : T!Takes(d)
  BY DEF T!Begin
<1>2. d \in 1..TimerPeriod /\ UNCHANGED <<latched, ccmp>>
  BY Durations DEF T!Begin
<1>3. TimeTyped' /\ Counted' /\ Settled' /\ EdgeKnown' /\ UNCHANGED <<ovf, wraps>>
  BY <1>1, <1>2, Ticks DEF TimeInv
<1>4. /\ j = "capture" => latched # T!NoEdge
      /\ job' = j /\ pc' = "sample" /\ epoch' = IF j = "now64" THEN wraps ELSE ovf
      /\ UNCHANGED <<latched, ccmp, cnt, capt, sampled, lastMs, backsteps, millis>> /\ stamp' = T!NoStamp
  BY DEF T!Begin
<1>5. HasEdge'
  BY <1>4 DEF HasEdge
<1>6. InRoutine'
  BY <1>3, <1>4 DEF InRoutine, CountOf
<1>7. T!TypeOK'
  <2>1. epoch' \in Nat
    BY <1>4, Numbers DEF TimeInv
  <2>2. stamp' \in [value : 0 .. T!Short-1, truth : Nat]
    BY <1>4, ShortIsPositive DEF T!NoStamp
  <2>3. RegsTyped'
    BY <1>4, <2>1, Typed DEF TimeInv, RegsTyped
  <2>4. OutcomeTyped'
    BY <1>4, <2>2, Typed DEF TimeInv, OutcomeTyped
  <2> QED BY <1>3, <2>3, <2>4 DEF T!TypeOK, TimeTyped, RegsTyped, OutcomeTyped
<1> QED BY <1>3, <1>5, <1>6, <1>7 DEF TimeInv

\* Either read of the counters: afterwards the sample and its instant are
\* known, and time has passed.
LEMMA SampleStep ==
    ASSUME Limits, TimeInv, pc # "loop", T!Sample, UNCHANGED <<latched, ccmp, job, epoch, T!outcome>>
    PROVE  /\ TimeTyped' /\ Counted' /\ Settled' /\ EdgeKnown' /\ HasEdge' /\ SampleKnown'
           /\ cnt' = now % TimerPeriod /\ SampledAt' = now /\ now < now' /\ UNCHANGED <<ovf, wraps, restarts>>
           /\ cnt' \in 0..(TimerPeriod - 1) /\ capt' \in 0..(TimerPeriod - 1) /\ sampled' \in Nat
           /\ sampled' <= now'
           /\ ~flag' => ~flag
<1> USE DEF TimeInv
<1>1. /\ cnt' = now % TimerPeriod
      /\ now \in Nat /\ Skew \in Nat /\ TimerPeriod \in Nat \ {0} /\ offset \in Nat /\ latched \in Int
  BY Numbers DEF T!Sample
<1>2. cnt' \in 0..(TimerPeriod - 1)
  BY <1>1, Remainder
<1>3. CASE job = "capture"
  <2>1. PICK d \in TimeSteps : T!Takes(Skew + d)
    BY <1>3 DEF T!Sample
  <2>2. capt' = (now + Skew + offset) % TimerPeriod /\ sampled' = now + Skew
    BY <1>3 DEF T!Sample
  <2>3. Skew + d \in 1..TimerPeriod /\ d \in 1..TimerPeriod
    BY Durations
  <2>4. /\ TimeTyped' /\ Counted' /\ Settled' /\ EdgeKnown' /\ now' = now + (Skew + d)
        /\ UNCHANGED <<offset, ovf, wraps, restarts>>
        /\ flag => flag'
    BY <2>1, <2>3, Ticks
  <2>5. capt' \in 0..(TimerPeriod - 1)
    <3>1. now + Skew + offset \in Int
      BY <1>1
    <3> QED BY <1>1, <2>2, <3>1, Remainder
  <2>6. latched # T!NoEdge /\ latched <= now
    BY <1>1, <1>3, Numbers DEF HasEdge, EdgeKnown
  <2>7. sampled' <= now' /\ latched' <= sampled' /\ now < now' /\ sampled' \in Nat
    BY <1>1, <2>2, <2>3, <2>4, <2>6
  <2>8. SampledAt' = now
    BY <1>1, <1>3, <2>2 DEF SampledAt
  <2>9. SampleKnown'
    <3>1. capt' = (sampled' + offset') % TimerPeriod
      <4>1. offset' = offset
        BY <2>4
      <4> QED BY <2>2, <4>1
    <3> QED BY <2>7, <3>1 DEF SampleKnown
  <2>10. HasEdge'
    BY <2>6 DEF HasEdge
  <2>11. ~flag' => ~flag
    BY <2>4
  <2>12. TimeTyped' /\ Counted' /\ Settled' /\ EdgeKnown' /\ UNCHANGED <<ovf, wraps, restarts>>
    BY <2>4
  <2> QED BY <1>1, <1>2, <2>5, <2>7, <2>8, <2>9, <2>10, <2>11, <2>12
<1>4. CASE job # "capture"
  <2>1. PICK d \in TimeSteps : T!Takes(d)
    BY <1>4 DEF T!Sample
  <2>2. capt' = capt /\ sampled' = now
    BY <1>4 DEF T!Sample
  <2>3. d \in 1..TimerPeriod
    BY Durations
  <2>4. /\ TimeTyped' /\ Counted' /\ Settled' /\ EdgeKnown' /\ now' = now + d
        /\ UNCHANGED <<offset, ovf, wraps, restarts>>
        /\ flag => flag'
    BY <2>1, <2>3, Ticks
  <2>5. capt' \in 0..(TimerPeriod - 1)
    BY <2>2, Numbers
  <2>6. sampled' <= now' /\ now < now' /\ sampled' \in Nat
    BY <1>1, <2>2, <2>3, <2>4
  <2>7. SampledAt' = now /\ SampleKnown' /\ HasEdge'
    BY <1>4, <2>2, <2>6 DEF SampledAt, SampleKnown, HasEdge
  <2>8. ~flag' => ~flag
    BY <2>4
  <2>9. TimeTyped' /\ Counted' /\ Settled' /\ EdgeKnown' /\ UNCHANGED <<ovf, wraps, restarts>>
    BY <2>4
  <2> QED BY <1>1, <1>2, <2>5, <2>6, <2>7, <2>8, <2>9
<1> QED BY <1>3, <1>4

LEMMA FirstSampleStep == ASSUME Limits, TimeInv, T!FirstSample PROVE TimeInv'
<1>1. /\ pc = "sample" /\ pc' = "check" /\ T!Sample /\ pc # "loop"
      /\ UNCHANGED <<latched, ccmp, job, epoch, T!outcome>>
  BY DEF T!FirstSample
<1>2. /\ TimeTyped' /\ Counted' /\ Settled' /\ EdgeKnown' /\ HasEdge' /\ SampleKnown'
      /\ cnt' = now % TimerPeriod /\ SampledAt' = now /\ UNCHANGED <<ovf, wraps>>
      /\ cnt' \in 0..(TimerPeriod - 1) /\ capt' \in 0..(TimerPeriod - 1) /\ sampled' \in Nat
      /\ ~flag' => ~flag
  BY <1>1, SampleStep
<1>3. ASSUME ~flag' PROVE ReadingHolds'
  <2>1. now \div TimerPeriod = Overflows(now) /\ Bit(flag) = 0
    BY <1>2, <1>3 DEF TimeInv, Settled, Bit
  <2>2. Congruent(TimerPeriod * RangeOf, now, (CountOf + Bit(flag)) * TimerPeriod + cnt')
    BY <1>2, <2>1, SampleHolds DEF TimeInv
  <2>3. epoch' = CountOf + Bit(flag) /\ RangeOf' = RangeOf
    <3>1. epoch = CountOf /\ CountOf \in Nat
      BY <1>1, Numbers DEF TimeInv, InRoutine
    <3> QED BY <1>1, <2>1, <3>1 DEF RangeOf
  <2> QED BY <1>2, <2>2, <2>3 DEF ReadingHolds, Congruent
<1>4. InRoutine'
  BY <1>1, <1>2, <1>3 DEF TimeInv, InRoutine, CountOf
<1>5. T!TypeOK'
  <2>1. RegsTyped' /\ OutcomeTyped'
    BY <1>1, <1>2, Typed DEF TimeInv, RegsTyped, OutcomeTyped, T!outcome
  <2> QED BY <1>2, <2>1 DEF T!TypeOK, TimeTyped, RegsTyped, OutcomeTyped
<1> QED BY <1>2, <1>4, <1>5 DEF TimeInv

LEMMA CheckStep == ASSUME Limits, TimeInv, T!Check PROVE TimeInv'
<1>1. PICK d \in TimeSteps : T!Takes(d)
  BY DEF T!Check
<1>2. d \in 1..TimerPeriod /\ pc = "check" /\ UNCHANGED <<latched, ccmp, job, cnt, capt, sampled, T!outcome>>
  BY Durations DEF T!Check
<1>3. /\ TimeTyped' /\ Counted' /\ Settled' /\ EdgeKnown'
      /\ now' = now + d /\ UNCHANGED <<offset, ovf, wraps, restarts>>
      /\ flag => flag' /\ now' \div TimerPeriod = Overflows(now')
  BY <1>1, <1>2, Ticks DEF TimeInv
<1>4. \/ flag /\ epoch' = epoch + 1 /\ pc' = "again"
      \/ ~flag /\ epoch' = epoch /\ pc' = "combine"
  BY DEF T!Check, T!OverflowPending
<1>5. HasEdge'
  BY <1>2 DEF TimeInv, HasEdge
<1>6. SampleKnown'
  <2>1. SampleKnown /\ now <= now' /\ now \in Nat /\ now' \in Nat /\ sampled \in Nat
    BY <1>2, <1>3, Numbers DEF TimeInv, InRoutine
  <2> QED BY <1>2, <1>3, <2>1 DEF SampleKnown
<1>7. ~flag => ReadingHolds
  BY <1>2 DEF TimeInv, InRoutine
<1>8. epoch = CountOf /\ CountOf' = CountOf /\ RangeOf' = RangeOf /\ SampledAt' = SampledAt
  BY <1>2, <1>3 DEF TimeInv, InRoutine, CountOf, RangeOf, SampledAt
<1>9. InRoutine'
  <2>1. CASE flag /\ epoch' = epoch + 1 /\ pc' = "again"
    BY <1>3, <1>8, <2>1 DEF InRoutine, Overflows
  <2>2. CASE ~flag /\ epoch' = epoch /\ pc' = "combine"
    BY <1>2, <1>6, <1>7, <1>8, <2>2 DEF InRoutine, ReadingHolds, Congruent
  <2> QED BY <1>4, <2>1, <2>2
<1>10. T!TypeOK'
  <2>1. epoch' \in Nat /\ pc' \in {"loop", "sample", "check", "again", "combine"}
    BY <1>4, Numbers DEF TimeInv
  <2>2. RegsTyped' /\ OutcomeTyped'
    BY <1>2, <2>1, Typed DEF TimeInv, RegsTyped, OutcomeTyped, T!outcome
  <2> QED BY <1>3, <2>2 DEF T!TypeOK, TimeTyped, RegsTyped, OutcomeTyped
<1> QED BY <1>3, <1>5, <1>9, <1>10 DEF TimeInv

LEMMA SecondSampleStep == ASSUME Limits, TimeInv, T!SecondSample PROVE TimeInv'
<1>1. /\ pc = "again" /\ pc' = "combine" /\ T!Sample /\ pc # "loop"
      /\ UNCHANGED <<latched, ccmp, job, epoch, T!outcome>>
  BY DEF T!SecondSample
<1>2. /\ TimeTyped' /\ Counted' /\ Settled' /\ EdgeKnown' /\ HasEdge' /\ SampleKnown'
      /\ cnt' = now % TimerPeriod /\ SampledAt' = now /\ UNCHANGED <<ovf, wraps>>
      /\ cnt' \in 0..(TimerPeriod - 1) /\ capt' \in 0..(TimerPeriod - 1) /\ sampled' \in Nat
  BY <1>1, SampleStep
<1>3. ReadingHolds'
  <2>1. now \div TimerPeriod = Overflows(now) /\ Bit(flag) = 1 /\ epoch = CountOf + 1
    BY <1>1 DEF TimeInv, InRoutine, Bit
  <2>2. Congruent(TimerPeriod * RangeOf, now, (CountOf + Bit(flag)) * TimerPeriod + cnt')
    BY <1>2, <2>1, SampleHolds DEF TimeInv
  <2>3. epoch' = CountOf + Bit(flag) /\ RangeOf' = RangeOf
    BY <1>1, <2>1 DEF RangeOf
  <2> QED BY <1>2, <2>2, <2>3 DEF ReadingHolds, Congruent
<1>4. InRoutine'
  BY <1>1, <1>2, <1>3 DEF InRoutine
<1>5. T!TypeOK'
  <2>1. RegsTyped' /\ OutcomeTyped'
    BY <1>1, <1>2, Typed DEF TimeInv, RegsTyped, OutcomeTyped, T!outcome
  <2> QED BY <1>2, <2>1 DEF T!TypeOK, TimeTyped, RegsTyped, OutcomeTyped
<1> QED BY <1>2, <1>4, <1>5 DEF TimeInv

-----------------------------------------------------------------------------
(* What the routines return *)

LEMMA SmallIsItself ==
    ASSUME NEW m \in Nat \ {0}, NEW a \in 0..(m - 1) PROVE a % m = a
<1>1. a = m * 0 + a /\ a \in Int /\ 0 \in Int
  OBVIOUS
<1> QED BY <1>1, QuotientIs

LEMMA RestOfRest ==
    ASSUME NEW m \in Nat \ {0}, NEW a \in Int, NEW b \in Int, NEW c \in Int, Congruent(m, a, b)
    PROVE  ((b % m) - c) % m = (a - c) % m
<1> DEFINE r == b % m
<1>1. Congruent(m, b, r) /\ r \in 0..(m - 1)
  BY RestIsCongruent
<1> HIDE DEF r
<1>2. PICK k \in Int : a = b + m * k
  BY DEF Congruent
<1>3. PICK l \in Int : b = r + m * l
  BY <1>1 DEF Congruent
<1>4. k + l \in Int /\ a - c = (r - c) + m * (k + l)
  BY <1>1, <1>2, <1>3
<1>5. Congruent(m, a - c, r - c) /\ a - c \in Int /\ r - c \in Int
  BY <1>1, <1>4 DEF Congruent
<1>6. (a - c) % m = (r - c) % m
  BY <1>5, SameRest
<1> QED BY <1>6 DEF r

\* The difference of two samples of one counter is the time between them.
LEMMA AgeOf ==
    ASSUME NEW p \in Nat \ {0}, NEW x \in Int, NEW y \in Int, x - y \in 0..(p - 1),
           NEW a \in Int, NEW b \in Int, Congruent(p, x, a), Congruent(p, y, b)
    PROVE  (a - b) % p = x - y
<1>1. PICK k \in Int : x = a + p * k
  BY DEF Congruent
<1>2. PICK n \in Int : y = b + p * n
  BY DEF Congruent
<1>3. n - k \in Int /\ a - b = p * (n - k) + (x - y)
  BY <1>1, <1>2
<1>4. a - b \in Int
  OBVIOUS
<1> QED BY <1>3, <1>4, QuotientIs

LEMMA CombineIsExact ==
    ASSUME Limits, TimeInv, pc = "combine", job = "capture"
    PROVE  T!Edge32 = (latched - Filter) % T!Short /\ T!Edge32 \in 0..(T!Short - 1) /\ latched - Filter \in Nat
<1> USE DEF TimeInv
<1>1. /\ TimerPeriod \in Nat \ {0} /\ Epochs \in Nat \ {0} /\ Skew \in Nat /\ Filter \in Nat
      /\ now \in Nat /\ offset \in Nat /\ latched \in Int /\ sampled \in Nat
      /\ epoch \in Nat /\ cnt \in Nat /\ T!Short \in Nat \ {0}
  BY Numbers, ShortIsPositive
<1>2. latched \in Filter..now /\ now - latched < TimerPeriod /\ ccmp = (latched + offset) % TimerPeriod
  BY DEF HasEdge, EdgeKnown
<1>3. sampled <= now /\ latched <= sampled /\ capt = (sampled + offset) % TimerPeriod
  BY DEF InRoutine, SampleKnown
<1>4. T!Latency = sampled - latched
  <2>1. sampled - latched \in 0..(TimerPeriod - 1)
    BY <1>1, <1>2, <1>3
  <2> DEFINE x == sampled + offset
  <2> DEFINE y == latched + offset
  <2>2. x \in Int /\ y \in Int /\ x - y = sampled - latched
    BY <1>1
  <2>3. capt = x % TimerPeriod /\ ccmp = y % TimerPeriod
    BY <1>2, <1>3
  <2> HIDE DEF x, y
  <2>0. TimerPeriod \in Nat \ {0}
    BY <1>1
  <2>4. Congruent(TimerPeriod, x, capt) /\ capt \in Int
    <3>1. Congruent(TimerPeriod, x, x % TimerPeriod) /\ x % TimerPeriod \in 0..(TimerPeriod - 1)
      BY <2>0, <2>2, RestIsCongruent
    <3> QED BY <2>0, <2>3, <3>1
  <2>5. Congruent(TimerPeriod, y, ccmp) /\ ccmp \in Int
    <3>1. Congruent(TimerPeriod, y, y % TimerPeriod) /\ y % TimerPeriod \in 0..(TimerPeriod - 1)
      BY <2>0, <2>2, RestIsCongruent
    <3> QED BY <2>0, <2>3, <3>1
  <2>6. (capt - ccmp) % TimerPeriod = x - y
    BY <1>1, <2>1, <2>2, <2>4, <2>5, AgeOf
  <2> QED BY <2>2, <2>6 DEF T!Latency
<1> DEFINE read == epoch * TimerPeriod + cnt
<1>5. read \in Int /\ read + Skew \in Int
  BY <1>1
<1>6. Congruent(T!Short, sampled - Skew, read)
  BY DEF InRoutine, ReadingHolds, RangeOf, SampledAt, T!Short
<1> HIDE DEF read
<1>7. Congruent(T!Short, sampled, read + Skew)
  <2>1. PICK k \in Int : sampled - Skew = read + T!Short * k
    BY <1>6 DEF Congruent
  <2>2. sampled = (read + Skew) + T!Short * k
    BY <1>1, <1>5, <2>1
  <2> QED BY <2>2 DEF Congruent
<1> DEFINE back == T!Latency + Filter
<1>8. back \in Int /\ sampled - back = latched - Filter
  BY <1>1, <1>4
<1>9. T!Edge32 = (((read + Skew) % T!Short) - back) % T!Short
  <2>1. T!Now32 = (read + Skew) % T!Short
    BY DEF T!Now32, read
  <2>2. T!Now32 \in Int
    BY <1>1, <1>5, <2>1, Remainder
  <2>3. T!Now32 - T!Latency - Filter = T!Now32 - back
    BY <1>1, <1>4, <2>2
  <2> QED BY <2>1, <2>3 DEF T!Edge32
<1> HIDE DEF back
<1>10. T!Edge32 = (sampled - back) % T!Short
  <2>1. sampled \in Int /\ T!Short \in Nat \ {0}
    BY <1>1
  <2>2. (((read + Skew) % T!Short) - back) % T!Short = (sampled - back) % T!Short
    BY <1>5, <1>7, <1>8, <2>1, RestOfRest
  <2> QED BY <1>9, <2>2
<1>11. latched - Filter \in Nat
  BY <1>1, <1>2
<1>12. T!Edge32 = (latched - Filter) % T!Short
  BY <1>8, <1>10
<1> QED BY <1>1, <1>11, <1>12, Remainder

LEMMA ReadIsExact ==
    ASSUME Limits, TimeInv, pc = "combine", job = "now32"
    PROVE  (epoch * TimerPeriod + cnt) % T!Short = sampled % T!Short /\ sampled % T!Short \in 0..(T!Short - 1)
<1> DEFINE read == epoch * TimerPeriod + cnt
<1>1. T!Short \in Nat \ {0} /\ read \in Int /\ sampled \in Int
  BY Numbers, ShortIsPositive DEF TimeInv
<1>2. Congruent(T!Short, sampled, read)
  BY DEF TimeInv, InRoutine, ReadingHolds, RangeOf, SampledAt, T!Short
<1> HIDE DEF read
<1>3. read % T!Short = sampled % T!Short
  BY <1>1, <1>2, SameRest
<1> QED BY <1>1, <1>3, Remainder DEF read

\* The wide read is the tick of its sample, modulo its width.
LEMMA WideIsExact ==
    ASSUME Limits, TimeInv, pc = "combine", job = "now64"
    PROVE  (epoch % TimerWraps) * TimerPeriod + cnt = sampled % T!Wide
<1>1. TimerPeriod \in Nat \ {0} /\ TimerWraps \in Nat \ {0} /\ sampled \in Int /\ epoch \in Int /\ cnt \in 0..(TimerPeriod - 1)
  BY Numbers DEF TimeInv
<1>2. Congruent(TimerPeriod * TimerWraps, sampled, epoch * TimerPeriod + cnt)
  BY DEF TimeInv, InRoutine, ReadingHolds, RangeOf, SampledAt
<1> QED BY <1>1, <1>2, CountToTime DEF T!Wide

LEMMA WideIsPositive == ASSUME Limits PROVE T!Wide \in Nat \ {0}
BY DEF Limits, T!CounterAssumption, T!Wide

Milliseconds == ((epoch % TimerWraps) * TimerPeriod + cnt) \div TicksPerMs

LEMMA MillisecondsTyped ==
    ASSUME Limits, TimeInv, pc = "combine", job = "now64"
    PROVE  Milliseconds \in Nat /\ Milliseconds % MsRange \in 0..(MsRange - 1)
<1>1. TicksPerMs \in Nat \ {0} /\ MsRange \in Nat \ {0}
  BY DEF Limits, T!BoundAssumption
<1>2. (epoch % TimerWraps) * TimerPeriod + cnt \in Nat
  <2>1. sampled % T!Wide \in 0..(T!Wide - 1)
    <3>1. T!Wide \in Nat \ {0} /\ sampled \in Int
      BY WideIsPositive, Numbers DEF TimeInv
    <3> QED BY <3>1, Remainder
  <2> QED BY <2>1, WideIsExact
<1> DEFINE x == (epoch % TimerWraps) * TimerPeriod + cnt
<1>3. x \in Nat
  BY <1>2
<1> HIDE DEF x
<1>4. x \div TicksPerMs \in Nat
  BY <1>1, <1>3
<1>5. Milliseconds \in Nat
  BY <1>4 DEF Milliseconds, x
<1> QED BY <1>1, <1>5, Remainder

\* After its last step a routine leaves nothing that an invariant is about.
LEMMA DoneStep ==
    ASSUME Limits, TimeInv, T!Return, latched' \in {latched, T!NoEdge}, OutcomeTyped',
           UNCHANGED <<now, offset, flag, ovf, wraps, ccmp, restarts>>
    PROVE  TimeInv'
<1>1. pc' = "loop" /\ job' = "none" /\ epoch' = 0 /\ cnt' = 0 /\ capt' = 0 /\ sampled' = 0
  BY DEF T!Return
<1>2. Counted' /\ Settled'
  BY DEF TimeInv, Counted, Settled, Serviced, Overflows, Bit, Congruent
<1>3. EdgeKnown' /\ HasEdge' /\ InRoutine'
  BY <1>1 DEF TimeInv, EdgeKnown, HasEdge, InRoutine
<1>4. T!TypeOK'
  <2>1. TimeTyped'
    BY Typed DEF TimeInv, TimeTyped
  <2>2. cnt' \in 0..(TimerPeriod - 1) /\ capt' \in 0..(TimerPeriod - 1) /\ epoch' \in Nat /\ sampled' \in Nat
    BY <1>1, Numbers DEF TimeInv
  <2>3. latched' \in -1..TimebaseEnd
    BY Numbers DEF TimeInv, T!TypeOK, T!NoEdge
  <2>4. RegsTyped'
    BY <1>1, <2>2, <2>3, Typed DEF TimeInv, RegsTyped
  <2> QED BY <2>1, <2>4 DEF T!TypeOK, TimeTyped, RegsTyped, OutcomeTyped
<1> QED BY <1>2, <1>3, <1>4 DEF TimeInv

LEMMA CaptureDoneStep ==
    ASSUME Limits, TimeInv, T!CaptureDone
    PROVE  TimeInv' /\ T!TimestampsAreExact'
<1>1. /\ pc = "combine" /\ job = "capture" /\ latched' = T!NoEdge /\ T!Return
      /\ stamp' = [value |-> T!Edge32, truth |-> latched - Filter]
      /\ UNCHANGED <<now, offset, flag, ovf, wraps, ccmp, restarts>>
      /\ UNCHANGED <<lastMs, backsteps, millis>>
  BY DEF T!CaptureDone
<1>2. T!Edge32 = (latched - Filter) % T!Short /\ T!Edge32 \in 0..(T!Short - 1) /\ latched - Filter \in Nat
  BY <1>1, CombineIsExact
<1>3. OutcomeTyped'
  BY <1>1, <1>2, Typed DEF TimeInv, OutcomeTyped
<1>4. T!TimestampsAreExact'
  BY <1>1, <1>2 DEF T!TimestampsAreExact
<1> QED BY <1>1, <1>3, <1>4, DoneStep

LEMMA Now32DoneStep ==
    ASSUME Limits, TimeInv, T!Now32Done
    PROVE  TimeInv' /\ T!TimestampsAreExact'
<1>1. /\ pc = "combine" /\ job = "now32" /\ T!Return
      /\ stamp' = [value |-> (epoch * TimerPeriod + cnt) % T!Short, truth |-> sampled]
      /\ UNCHANGED <<now, offset, flag, ovf, wraps, latched, ccmp, restarts>>
      /\ UNCHANGED <<lastMs, backsteps, millis>>
  BY DEF T!Now32Done, T!timers
<1>2. (epoch * TimerPeriod + cnt) % T!Short = sampled % T!Short /\ sampled % T!Short \in 0..(T!Short - 1)
  BY <1>1, ReadIsExact
<1>3. OutcomeTyped'
  BY <1>1, <1>2, Typed, Numbers DEF TimeInv, OutcomeTyped
<1>4. T!TimestampsAreExact'
  BY <1>1, <1>2 DEF T!TimestampsAreExact
<1> QED BY <1>1, <1>3, <1>4, DoneStep

LEMMA Now64DoneStep == ASSUME Limits, TimeInv, T!Now64Done PROVE TimeInv'
<1>1. /\ pc = "combine" /\ job = "now64" /\ T!Return
      /\ millis' = [value |-> Milliseconds % MsRange, at |-> sampled, run |-> restarts]
      /\ \/ Milliseconds < lastMs /\ backsteps' = backsteps + 1 /\ lastMs' = lastMs
         \/ lastMs' = Milliseconds /\ backsteps' = backsteps
      /\ UNCHANGED <<now, offset, flag, ovf, wraps, latched, ccmp, stamp, restarts>>
  BY DEF T!Now64Done, T!timers, Milliseconds
<1>2. Milliseconds \in Nat /\ Milliseconds % MsRange \in 0..(MsRange - 1)
  BY <1>1, MillisecondsTyped
<1>3. lastMs' \in Nat /\ backsteps' \in Nat
  BY <1>1, <1>2 DEF TimeInv, T!TypeOK
<1>4. millis' \in [value : 0 .. MsRange-1, at : Nat, run : 0 .. MaxRestarts]
  BY <1>1, <1>2 DEF TimeInv, T!TypeOK
<1>5. OutcomeTyped'
  BY <1>1, <1>3, <1>4, Typed DEF TimeInv, OutcomeTyped
<1> QED BY <1>1, <1>5, DoneStep

-----------------------------------------------------------------------------
(* Exact timestamps *)

LEMMA StepHolds == ASSUME Limits, TimeInv, [T!Next]_(T!vars) PROVE TimeInv'
<1>1. CASE UNCHANGED T!vars
  <2>1. UNCHANGED <<now, offset, flag, ovf, wraps, latched, ccmp>>
    BY <1>1 DEF T!vars, T!timers
  <2>2. UNCHANGED <<job, pc, epoch, cnt, capt, sampled>>
    BY <1>1 DEF T!vars, T!regs
  <2>3. UNCHANGED <<lastMs, backsteps, stamp, millis, restarts>>
    BY <1>1 DEF T!vars, T!outcome
  <2>4. T!TypeOK'
    BY <2>1, <2>2, <2>3 DEF TimeInv, T!TypeOK
  <2>5. Counted' /\ Settled'
    BY <2>1 DEF TimeInv, Counted, Settled, Serviced, Overflows, Bit, Congruent
  <2>6. EdgeKnown' /\ HasEdge'
    BY <2>1, <2>2 DEF TimeInv, EdgeKnown, HasEdge
  <2>7. InRoutine'
    BY <2>1, <2>2 DEF TimeInv, InRoutine, CountOf, RangeOf, SampledAt, SampleKnown, ReadingHolds,
                      Congruent, Overflows
  <2> QED BY <2>4, <2>5, <2>6, <2>7 DEF TimeInv
<1>2. CASE T!Next
  BY <1>2, ElapseStep, EdgeStep, OverflowIsrStep, RestartStep, BeginStep, FirstSampleStep, CheckStep,
     SecondSampleStep, CaptureDoneStep, Now32DoneStep, Now64DoneStep DEF T!Next
<1> QED BY <1>1, <1>2

LEMMA OtherStamps ==
    ASSUME Limits, T!TimestampsAreExact, [T!Next]_(T!vars), ~T!CaptureDone, ~T!Now32Done
    PROVE  T!TimestampsAreExact'
<1>0. 0 = 0 % T!Short
  BY ShortIsPositive, SmallIsItself
<1>1. stamp' = stamp \/ stamp' = T!NoStamp
  BY DEF T!Next, T!vars, T!outcome, T!Elapse, T!Edge, T!OverflowIsr, T!Restart, T!Begin, T!FirstSample, T!Check, T!SecondSample,
         T!Now64Done
<1>2. T!NoStamp.value = T!NoStamp.truth % T!Short
  BY <1>0 DEF T!NoStamp
<1> QED BY <1>1, <1>2 DEF T!TimestampsAreExact

\* Every state of the timeline is a sound one: the types, and the counts,
\* flags and registers in their relation to the true time.
THEOREM TimelineIsSound ==
    ASSUME Limits
    PROVE  T!Spec => []T!TypeOK
<1>1. T!Init => TimeInv
  BY InitHolds
<1>2. TimeInv /\ [T!Next]_(T!vars) => TimeInv'
  BY StepHolds
<1>3. TimeInv => T!TypeOK
  BY DEF TimeInv
<1> QED BY <1>1, <1>2, <1>3, PTL DEF T!Spec

\* TimestampsAreExact: the reconstruction of the capture interrupts and the
\* 32-bit read give the tick they are about, modulo the range of the
\* timeline, whatever the widths, the skew of the two samples, the filter
\* delay and the distance of the timers.
THEOREM ExactTimestamps ==
    ASSUME Limits
    PROVE  T!Spec => []T!TimestampsAreExact
<1>1. T!Init => TimeInv /\ T!TimestampsAreExact
  <2>1. 0 = 0 % T!Short
    BY ShortIsPositive, SmallIsItself
  <2>2. T!NoStamp.value = T!NoStamp.truth % T!Short
    BY <2>1 DEF T!NoStamp
  <2> QED BY <2>2, InitHolds DEF T!Init, T!TimestampsAreExact
<1>2. TimeInv /\ T!TimestampsAreExact /\ [T!Next]_(T!vars) => TimeInv' /\ T!TimestampsAreExact'
  BY StepHolds, OtherStamps, CaptureDoneStep, Now32DoneStep
<1> QED BY <1>1, <1>2, PTL DEF T!Spec

\* OverflowsCounted: the software counts have missed no overflow but the one
\* that is pending.
THEOREM CountsAreComplete ==
    ASSUME Limits
    PROVE  T!Spec => []T!OverflowsCounted
<1>1. T!Init => TimeInv
  BY InitHolds
<1>2. TimeInv /\ [T!Next]_(T!vars) => TimeInv'
  BY StepHolds
<1>3. TimeInv => T!OverflowsCounted
  <2> SUFFICES ASSUME TimeInv PROVE T!OverflowsCounted
    OBVIOUS
  <2>1. /\ Epochs \in Nat \ {0} /\ TimerWraps \in Nat \ {0} /\ ovf \in 0..(Epochs - 1) /\ wraps \in 0..(TimerWraps - 1)
        /\ Serviced \in Int
    BY Numbers, CountedNow DEF TimeInv
  <2>2. Congruent(Epochs, Serviced, ovf) /\ Congruent(TimerWraps, Serviced, wraps)
    BY DEF TimeInv, Counted
  <2>3. Serviced % Epochs = ovf
    <3>1. Epochs \in Nat \ {0} /\ Serviced \in Int /\ ovf \in Int
      BY <2>1
    <3> HIDE DEF Serviced
    <3>2. Serviced % Epochs = ovf % Epochs
      BY <2>2, <3>1, SameRest
    <3> QED BY <2>1, <3>2, SmallIsItself
  <2>4. Serviced % TimerWraps = wraps
    <3>1. TimerWraps \in Nat \ {0} /\ Serviced \in Int /\ wraps \in Int
      BY <2>1
    <3> HIDE DEF Serviced
    <3>2. Serviced % TimerWraps = wraps % TimerWraps
      BY <2>2, <3>1, SameRest
    <3> QED BY <2>1, <3>2, SmallIsItself
  <2>5. Serviced = (now + Early) \div TimerPeriod - (IF flag THEN 1 ELSE 0)
    BY DEF Serviced, Overflows, Bit
  <2> QED BY <2>3, <2>4, <2>5 DEF T!OverflowsCounted
<1> QED BY <1>1, <1>2, <1>3, PTL DEF T!Spec

-----------------------------------------------------------------------------
(* Milliseconds *)

\* Since the timers were started, and until the wide read wraps, no reading
\* is later than the present, nor than the sample a routine has taken.
NoBackstep ==
    restarts = 0 /\ now < T!Wide =>
        /\ backsteps = 0
        /\ lastMs * TicksPerMs <= now
        /\ pc \in {"check", "combine"} /\ job = "now64" => lastMs * TicksPerMs <= sampled

LEMMA Rounding ==
    ASSUME NEW t \in Nat \ {0}, NEW s \in Nat, NEW ms, ms = s \div t
    PROVE  ms \in Nat /\ ms * t <= s /\ (\A m \in Nat : m * t <= s => m <= ms)
<1>1. PICK q \in Int, r \in 0..(t - 1) : q = s \div t /\ s = t * q + r
  BY Division
<1>2. q = ms /\ q \in Int /\ r \in 0..(t - 1) /\ s = t * q + r
  BY <1>1
<1>3. q >= 0
  <2> SUFFICES ASSUME q < 0 PROVE FALSE
    BY <1>2
  <2>1. q <= -1 /\ t * q <= t * (-1)
    BY <1>2
  <2> QED BY <1>2, <2>1
<1>4. q * t <= s
  BY <1>2
<1>5. ASSUME NEW m \in Nat, m * t <= s PROVE m <= q
  <2> SUFFICES ASSUME m >= q + 1 PROVE FALSE
    BY <1>2
  <2>1. m * t >= (q + 1) * t
    BY <1>2
  <2>2. (q + 1) * t = t * q + t
    BY <1>2
  <2> QED BY <1>2, <1>5, <2>1, <2>2
<1> QED BY <1>2, <1>3, <1>4, <1>5

LEMMA MillisOfSample ==
    ASSUME Limits, TimeInv, pc = "combine", job = "now64", sampled < T!Wide
    PROVE  Milliseconds = sampled \div TicksPerMs
<1>1. sampled \in 0..(T!Wide - 1) /\ T!Wide \in Nat \ {0}
  BY Numbers, WideIsPositive DEF TimeInv
<1>2. sampled % T!Wide = sampled
  BY <1>1, SmallIsItself
<1> QED BY <1>2, WideIsExact DEF Milliseconds

Advance == now <= now' /\ restarts' = restarts

LEMMA TimeMoves ==
    ASSUME Limits, TimeInv, [T!Next]_(T!vars)
    PROVE  /\ Advance \/ (restarts' = restarts + 1 /\ now' = 0 /\ pc' = "loop" /\ UNCHANGED T!outcome)
           /\ now \in Nat /\ now' \in Nat
<1>1. now \in Nat /\ now' \in Nat
  <2>1. T!TypeOK /\ T!TypeOK' /\ TimebaseEnd \in Nat
    BY StepHolds DEF TimeInv, Limits, T!BoundAssumption
  <2> QED BY <2>1 DEF T!TypeOK
<1>2. CASE T!Restart
  BY <1>1, <1>2 DEF T!Restart, T!regs
<1>3. ASSUME NEW d \in 1..TimerPeriod, NEW f, T!Passes(d, f) PROVE now <= now'
  BY <1>1, <1>3, Numbers DEF T!Passes, TimeInv
<1>4. ASSUME NEW d \in 1..TimerPeriod, T!Takes(d) PROVE Advance
  BY <1>3, <1>4 DEF T!Takes, Advance
<1>5. CASE T!Elapse \/ T!Check \/ \E j \in Routines : T!Begin(j)
  <2>1. PICK d \in TimeSteps : T!Takes(d)
    BY <1>5 DEF T!Elapse, T!Check, T!Begin
  <2> QED BY <1>1, <1>4, <2>1, Durations
<1>6. CASE T!FirstSample \/ T!SecondSample
  <2>1. PICK d \in TimeSteps : T!Takes(d) \/ T!Takes(Skew + d)
    BY <1>6 DEF T!FirstSample, T!SecondSample, T!Sample
  <2>2. d \in 1..TimerPeriod /\ Skew + d \in 1..TimerPeriod
    BY Durations
  <2>3. Advance
    BY <1>4, <2>1, <2>2
  <2> QED BY <1>1, <2>3
<1>7. CASE T!OverflowIsr
  <2>1. PICK d \in TimeSteps : T!Passes(d, FALSE)
    BY <1>7 DEF T!OverflowIsr
  <2>2. now <= now'
    BY <1>3, <2>1, Durations
  <2> QED BY <1>1, <1>7, <2>2 DEF T!OverflowIsr, Advance
<1>8. CASE T!Edge \/ T!CaptureDone \/ T!Now32Done \/ T!Now64Done \/ UNCHANGED T!vars
  <2>1. now' = now /\ restarts' = restarts
    BY <1>8 DEF T!Edge, T!CaptureDone, T!Now32Done, T!Now64Done, T!vars, T!timers
  <2> QED BY <1>1, <2>1 DEF Advance
<1> QED BY <1>1, <1>2, <1>5, <1>6, <1>7, <1>8 DEF T!Next

\* What other routines and events leave alone.
LEMMA OtherReads ==
    ASSUME [T!Next]_(T!vars), ~T!Now64Done
    PROVE  /\ UNCHANGED <<lastMs, backsteps, millis>>
           /\ \/ pc' \notin {"check", "combine"} \/ job' # "now64"
              \/ sampled' = now
              \/ sampled' = sampled /\ pc \in {"check", "combine"} /\ job = "now64"
<1>1. CASE T!FirstSample \/ T!SecondSample
  BY <1>1 DEF T!FirstSample, T!SecondSample, T!Sample, T!outcome
<1>2. CASE T!Check
  BY <1>2 DEF T!Check, T!outcome
<1>3. CASE T!Elapse \/ T!Edge \/ T!OverflowIsr \/ T!Restart \/ UNCHANGED T!vars
  BY <1>3 DEF T!Elapse, T!Edge, T!OverflowIsr, T!Restart, T!vars, T!outcome, T!regs
<1>4. CASE T!CaptureDone \/ T!Now32Done \/ \E j \in Routines : T!Begin(j)
  BY <1>4 DEF T!CaptureDone, T!Now32Done, T!Begin, T!Return
<1> QED BY <1>1, <1>2, <1>3, <1>4 DEF T!Next

\* The readings of the wide routine.
LEMMA Reading ==
    ASSUME TimeInv, T!Now64Done
    PROVE  /\ pc = "combine" /\ job = "now64" /\ pc' = "loop" /\ sampled <= now
           /\ UNCHANGED <<now, restarts>>
           /\ millis' = [value |-> Milliseconds % MsRange, at |-> sampled, run |-> restarts]
           /\ \/ Milliseconds < lastMs /\ backsteps' = backsteps + 1 /\ lastMs' = lastMs
              \/ ~(Milliseconds < lastMs) /\ backsteps' = backsteps /\ lastMs' = Milliseconds
<1>1. pc = "combine" /\ job = "now64" /\ pc' = "loop" /\ UNCHANGED <<now, restarts>>
  BY DEF T!Now64Done, T!Return, T!timers
<1>2. sampled <= now
  BY <1>1 DEF TimeInv, InRoutine, SampleKnown
<1>3. millis' = [value |-> Milliseconds % MsRange, at |-> sampled, run |-> restarts]
  BY DEF T!Now64Done, Milliseconds
<1>4. \/ Milliseconds < lastMs /\ backsteps' = backsteps + 1 /\ lastMs' = lastMs
      \/ ~(Milliseconds < lastMs) /\ backsteps' = backsteps /\ lastMs' = Milliseconds
  BY DEF T!Now64Done, Milliseconds
<1> QED BY <1>1, <1>2, <1>3, <1>4

LEMMA NoBackstepStep ==
    ASSUME Limits, TimeInv, NoBackstep, [T!Next]_(T!vars) PROVE NoBackstep'
<1> SUFFICES ASSUME restarts' = 0, now' < T!Wide
             PROVE  /\ backsteps' = 0 /\ lastMs' * TicksPerMs <= now'
                    /\ pc' \in {"check", "combine"} /\ job' = "now64" => lastMs' * TicksPerMs <= sampled'
  BY DEF NoBackstep, T!Wide
<1>1. /\ now \in Nat /\ now' \in Nat /\ T!Wide \in Nat /\ lastMs \in Nat /\ TicksPerMs \in Nat \ {0}
      /\ sampled \in Nat /\ restarts \in Nat
  BY TimeMoves, WideIsPositive, Numbers DEF TimeInv, T!TypeOK, Limits, T!BoundAssumption
<1>2. restarts = 0 /\ now <= now'
  BY <1>1, TimeMoves DEF Advance
<1>3. /\ backsteps = 0 /\ lastMs * TicksPerMs <= now
      /\ pc \in {"check", "combine"} /\ job = "now64" => lastMs * TicksPerMs <= sampled
  BY <1>1, <1>2 DEF NoBackstep
<1>4. CASE T!Now64Done
  <2>1. /\ pc = "combine" /\ job = "now64" /\ pc' = "loop" /\ sampled <= now
        /\ \/ Milliseconds < lastMs
           \/ backsteps' = backsteps /\ lastMs' = Milliseconds
    BY <1>4, Reading
  <2>2. Milliseconds = sampled \div TicksPerMs
    BY <1>1, <1>2, <2>1, MillisOfSample
  <2>3. /\ Milliseconds \in Nat /\ Milliseconds * TicksPerMs <= sampled
        /\ \A m \in Nat : m * TicksPerMs <= sampled => m <= Milliseconds
    BY <1>1, <2>2, Rounding
  <2>4. lastMs <= Milliseconds
    BY <1>1, <1>3, <2>1, <2>3
  <2>5. backsteps' = 0 /\ lastMs' = Milliseconds
    BY <1>1, <1>3, <2>1, <2>3, <2>4
  <2>6. lastMs' * TicksPerMs <= now'
    <3> DEFINE x == Milliseconds * TicksPerMs
    <3>1. x \in Nat /\ x <= sampled /\ lastMs' * TicksPerMs = x
      BY <1>1, <2>3, <2>5
    <3> HIDE DEF x
    <3> QED BY <1>1, <1>2, <2>1, <3>1
  <2> QED BY <2>1, <2>5, <2>6
<1>5. CASE ~T!Now64Done
  <2>1. UNCHANGED <<lastMs, backsteps>>
    BY <1>5, OtherReads
  <2>2. \/ pc' \notin {"check", "combine"} \/ job' # "now64"
        \/ sampled' = now
        \/ sampled' = sampled /\ pc \in {"check", "combine"} /\ job = "now64"
    BY <1>5, OtherReads
  <2> DEFINE x == lastMs * TicksPerMs
  <2>3. x \in Nat /\ x <= now /\ lastMs' * TicksPerMs = x
    BY <1>1, <1>3, <2>1
  <2>4. pc \in {"check", "combine"} /\ job = "now64" => x <= sampled
    BY <1>3
  <2> HIDE DEF x
  <2>5. x <= now'
    BY <1>1, <1>2, <2>3
  <2> QED BY <1>3, <2>1, <2>2, <2>3, <2>4, <2>5
<1> QED BY <1>4, <1>5

\* BackstepsHaveACause: platformMillis never goes back within a run shorter
\* than the range of the wide read.
THEOREM MillisNeverGoBack ==
    ASSUME Limits
    PROVE  T!Spec => []T!BackstepsHaveACause
<1>1. T!Init => TimeInv /\ NoBackstep
  <2>1. T!Init => NoBackstep
    <3>1. 0 * TicksPerMs <= 0
      BY DEF Limits, T!BoundAssumption
    <3> QED BY <3>1 DEF T!Init, NoBackstep
  <2> QED BY <2>1, InitHolds
<1>2. TimeInv /\ NoBackstep /\ [T!Next]_(T!vars) => TimeInv' /\ NoBackstep'
  BY StepHolds, NoBackstepStep
<1>3. TimeInv /\ NoBackstep => T!BackstepsHaveACause
  <2> SUFFICES ASSUME TimeInv, NoBackstep, backsteps > 0, ~(restarts > 0), ~(now >= T!Wide) PROVE FALSE
    BY DEF T!BackstepsHaveACause
  <2>1. restarts \in Nat /\ now \in Nat /\ T!Wide \in Nat
    BY WideIsPositive, Numbers DEF TimeInv, T!TypeOK
  <2>2. restarts = 0 /\ now < T!Wide
    BY <2>1
  <2> QED BY <2>2 DEF NoBackstep
<1> QED BY <1>1, <1>2, <1>3, PTL DEF T!Spec

\* The last reading is the time of its sample, which lies in the past and
\* before every later sample of the same run.
MillisKnown ==
    /\ millis.run <= restarts
    /\ millis.at < T!Wide => millis.value = (millis.at \div TicksPerMs) % MsRange
    /\ millis.run = restarts =>
          /\ millis.at <= now
          /\ pc \in {"check", "combine"} /\ job = "now64" => millis.at <= sampled

LEMMA MillisKnownStep ==
    ASSUME Limits, TimeInv, MillisKnown, [T!Next]_(T!vars) PROVE MillisKnown'
<1>1. /\ now \in Nat /\ now' \in Nat /\ T!Wide \in Nat /\ sampled \in Nat /\ restarts \in Nat
      /\ millis.at \in Nat /\ millis.run \in Nat
  BY TimeMoves, WideIsPositive, Numbers DEF TimeInv, T!TypeOK
<1>2. CASE T!Now64Done
  <2>1. /\ pc = "combine" /\ job = "now64" /\ pc' = "loop" /\ sampled <= now /\ UNCHANGED <<now, restarts>>
        /\ millis' = [value |-> Milliseconds % MsRange, at |-> sampled, run |-> restarts]
    BY <1>2, Reading
  <2>2. sampled < T!Wide => Milliseconds = sampled \div TicksPerMs
    BY <2>1, MillisOfSample
  <2>3. millis'.at = sampled /\ millis'.run = restarts /\ millis'.value = Milliseconds % MsRange
    BY <2>1
  <2>4. millis'.at < T!Wide' => millis'.value = (millis'.at \div TicksPerMs) % MsRange
    BY <2>2, <2>3 DEF T!Wide
  <2> QED BY <1>1, <2>1, <2>3, <2>4 DEF MillisKnown
<1>3. CASE ~T!Now64Done
  <2>1. millis' = millis
    BY <1>3, OtherReads
  <2>2. \/ pc' \notin {"check", "combine"} \/ job' # "now64"
        \/ sampled' = now
        \/ sampled' = sampled /\ pc \in {"check", "combine"} /\ job = "now64"
    BY <1>3, OtherReads
  <2>3. millis'.at < T!Wide' => millis'.value = (millis'.at \div TicksPerMs) % MsRange
    BY <2>1 DEF MillisKnown, T!Wide
  <2>4. CASE Advance
    <3>1. millis'.run <= restarts'
      BY <2>1, <2>4 DEF Advance, MillisKnown
    <3>2. ASSUME millis'.run = restarts'
          PROVE  /\ millis'.at <= now'
                 /\ pc' \in {"check", "combine"} /\ job' = "now64" => millis'.at <= sampled'
      <4>1. /\ millis.at <= now /\ now <= now'
            /\ pc \in {"check", "combine"} /\ job = "now64" => millis.at <= sampled
        BY <2>1, <2>4, <3>2 DEF Advance, MillisKnown
      <4> QED BY <1>1, <2>1, <2>2, <4>1
    <3> QED BY <2>3, <3>1, <3>2 DEF MillisKnown
  <2>5. CASE restarts' = restarts + 1
    <3>1. millis'.run <= restarts' /\ millis'.run # restarts'
      BY <1>1, <2>1, <2>5 DEF MillisKnown
    <3> QED BY <2>3, <3>1 DEF MillisKnown
  <2> QED BY <2>4, <2>5, TimeMoves
<1> QED BY <1>2, <1>3

LEMMA Elapsed ==
    ASSUME NEW m \in Nat \ {0}, NEW a \in Int, NEW b \in Int, NEW x \in Int, NEW y \in Int,
           Congruent(m, a, x), Congruent(m, b, y)
    PROVE  (x - y) % m = (a - b) % m
<1>1. Congruent(m, a - b, x - y)
  BY CongruentMinus
<1>2. a - b \in Int /\ x - y \in Int
  OBVIOUS
<1> QED BY <1>1, <1>2, SameRest

LEMMA QuotientTyped == ASSUME NEW t \in Nat \ {0}, NEW s \in Nat PROVE s \div t \in Int
OBVIOUS

\* MillisCountTime: the difference of two readings of one run is the time
\* between their samples, for as long as the wide read has not wrapped.
THEOREM MillisAdvanceWithTime ==
    ASSUME Limits
    PROVE  T!Spec => T!MillisCountTime
<1>1. T!Init => TimeInv /\ MillisKnown
  <2>1. T!Init => MillisKnown
    <3>1. 0 = (0 \div TicksPerMs) % MsRange
      <4>1. TicksPerMs \in Nat \ {0} /\ MsRange \in Nat \ {0}
        BY DEF Limits, T!BoundAssumption
      <4>2. 0 = TicksPerMs * 0 + 0 /\ 0 \in 0..(TicksPerMs - 1) /\ 0 \in Int /\ 0 \in 0..(MsRange - 1)
        BY <4>1
      <4>3. 0 \div TicksPerMs = 0
        BY <4>1, <4>2, QuotientIs
      <4>4. 0 % MsRange = 0
        BY <4>1, <4>2, SmallIsItself
      <4> QED BY <4>3, <4>4
    <3> QED BY <3>1 DEF T!Init, MillisKnown
  <2> QED BY <2>1, InitHolds
<1>2. TimeInv /\ MillisKnown /\ [T!Next]_(T!vars) => TimeInv' /\ MillisKnown'
  BY StepHolds, MillisKnownStep
<1>3. TimeInv /\ MillisKnown /\ TimeInv' /\ MillisKnown' /\ [T!Next]_(T!vars) => [T!MillisAdvance]_millis
  <2> SUFFICES ASSUME TimeInv, MillisKnown, TimeInv', MillisKnown', [T!Next]_(T!vars), millis' # millis,
                      millis'.run = millis.run, millis'.at < T!Wide
               PROVE  (millis'.value - millis.value) % MsRange
                         = (millis'.at \div TicksPerMs - millis.at \div TicksPerMs) % MsRange
    BY DEF T!MillisAdvance
  <2>1. T!Now64Done
    BY OtherReads
  <2>2. pc = "combine" /\ job = "now64" /\ millis'.at = sampled /\ millis'.run = restarts
    BY <2>1, Reading
  <2>3. /\ millis.at \in Nat /\ millis'.at \in Nat /\ sampled \in Nat /\ T!Wide \in Nat /\ T!Wide' = T!Wide
        /\ TicksPerMs \in Nat \ {0} /\ MsRange \in Nat \ {0}
    BY <2>2, WideIsPositive, Numbers DEF TimeInv, T!TypeOK, Limits, T!BoundAssumption, T!Wide
  <2>4. millis.at <= sampled
    BY <2>2 DEF MillisKnown
  <2>5. millis.at < T!Wide
    BY <2>2, <2>3, <2>4
  <2>6. millis.value = (millis.at \div TicksPerMs) % MsRange
    BY <2>5 DEF MillisKnown
  <2>7. millis'.value = (millis'.at \div TicksPerMs) % MsRange
    BY <2>3 DEF MillisKnown
  <2>8. millis.at \div TicksPerMs \in Int /\ millis'.at \div TicksPerMs \in Int
    BY <2>3, QuotientTyped
  <2> DEFINE a == millis'.at \div TicksPerMs
  <2> DEFINE b == millis.at \div TicksPerMs
  <2> DEFINE x == millis'.value
  <2> DEFINE y == millis.value
  <2>9. a \in Int /\ b \in Int /\ x = a % MsRange /\ y = b % MsRange
    BY <2>6, <2>7, <2>8
  <2>10. MsRange \in Nat \ {0}
    BY <2>3
  <2> SUFFICES (x - y) % MsRange = (a - b) % MsRange
    OBVIOUS
  <2> HIDE DEF a, b, x, y
  <2>11. Congruent(MsRange, a, a % MsRange) /\ a % MsRange \in 0..(MsRange - 1)
    BY <2>9, <2>10, RestIsCongruent
  <2>12. Congruent(MsRange, b, b % MsRange) /\ b % MsRange \in 0..(MsRange - 1)
    BY <2>9, <2>10, RestIsCongruent
  <2>13. Congruent(MsRange, a, x) /\ x \in Int
    BY <2>9, <2>10, <2>11
  <2>14. Congruent(MsRange, b, y) /\ y \in Int
    BY <2>9, <2>10, <2>12
  <2>15. a \in Int /\ b \in Int
    BY <2>9
  <2> QED BY <2>10, <2>13, <2>14, <2>15, Elapsed
<1> QED BY <1>1, <1>2, <1>3, PTL DEF T!Spec, T!MillisCountTime
-----------------------------------------------------------------------------
(***************************************************************************)
(* The storage lifecycle: no interruption of the storage worker loses      *)
(* data, for any number of failures, kills, damaged archives and lost      *)
(* mounts.                                                                 *)
(*                                                                         *)
(* Both records of a segment, the saved one and the copy of the pass, tell *)
(* the truth about each file at every step (Accounted): a file is there in *)
(* the form its record says, or marked as expired.  So a kill between any  *)
(* two steps leaves what the next pass accepts, and a mark that precedes   *)
(* its unlink explains whatever is missing.  The archive cannot change     *)
(* within a pass, so what was verified before the first mark still holds   *)
(* at the last unlink.                                                     *)
(***************************************************************************)
CONSTANTS NeverExpire, StorageFaults

VARIABLES local, meta, place, saved, archive, archived, mounted, consumed, age, work, checked, wfaults

L == INSTANCE StorageLifecycle WITH MaxFaults <- StorageFaults


-----------------------------------------------------------------------------
(* The invariant *)

Entries == [recorded : BOOLEAN, gz : BOOLEAN, expired : BOOLEAN]
Records == [files : [L!Names -> Entries], verified : BOOLEAN, immutable : BOOLEAN]

\* Steps on a segment in place, with the number of a file and without, and on
\* one that was renamed.
FileSteps    == {"record", "original", "unlink"}
SegmentSteps == FileSteps \cup {"mount", "compress", "offload", "acknowledge", "prune", "retire", "rename"}
RetiredSteps == {"finish", "metadata", "rmdir"}
Labels       == {"idle"} \cup SegmentSteps \cup RetiredSteps

At(steps) == pc[1] \in steps

StorageTyped == /\ local \in [L!Names -> SUBSET {"plain", "gz"}]
                /\ place \in {"segment", ".expired", "gone"}
                /\ saved \in Records /\ work \in Records
                /\ pc \in Labels \X Nat /\ (~At({"idle"}) => pc[2] # 0)

\* A record tells what forms of a file are there.
Accounted(state, forms) ==
    \A f \in L!Names : \/ L!Expired(state, f)
                       \/ state.files[f].recorded /\ L!Form(state, f) \in forms[f]
                       \/ ~state.files[f].recorded /\ forms[f] # {}

AllExpired(state) == \A f \in L!Names : L!Expired(state, f)
Marker == ".retirement.json"

InPlace == /\ At(SegmentSteps) => place = "segment" /\ consumed /\ Accounted(work, local)
           /\ At(RetiredSteps) => place = ".expired"
           /\ place = "segment" => Accounted(saved, local)
           /\ place = "segment" /\ "lifecycle.json" \notin meta => saved = L!NewState
           /\ At(SegmentSteps) /\ work.verified => "lifecycle.json" \in meta

Compressing == At({"record", "original"}) =>
                   /\ pc[2] \in 1 .. Len(L!Members)
                   /\ work.files[L!Members[pc[2]]].gz => "gz" \in local[L!Members[pc[2]]]
                   /\ At({"original"}) => saved = work

\* What was verified in this pass is so still; a file is unlinked under its mark.
Verified == /\ At({"record", "original", "mount", "compress", "offload", "acknowledge"}) => ~checked
            /\ At({"prune", "unlink"}) /\ checked => L!ArchiveIntact(work)
            /\ At({"unlink"}) => /\ pc[2] \in 1 .. Len(L!Members)
                                 /\ checked /\ saved = work /\ L!Expired(work, L!Members[pc[2]])

Retired == /\ place = ".expired" \/ At({"rename"}) => AllExpired(saved)
           /\ At({"rename", "metadata"}) => Marker \in meta
           /\ place = ".expired" => meta = {} \/ Marker \in meta

StorageInv == StorageTyped /\ InPlace /\ Compressing /\ Verified /\ Retired

-----------------------------------------------------------------------------
(* Facts of the operators. *)

\* The data files are three, numbered in the order of the groups.
LEMMA MembersAre ==
    /\ Len(L!Members) = 3
    /\ \A i \in 1 .. 3 : L!Members[i] \in L!Names
    /\ \A f \in L!Names : \E i \in 1 .. 3 : f = L!Members[i]
BY DEF L!Members, L!Names

\* Acknowledging or invalidating the archive leaves what is recorded of the files.
LEMMA RecordFacts ==
    ASSUME NEW state \in Records, NEW v \in BOOLEAN, NEW i \in BOOLEAN
    PROVE  /\ [state EXCEPT !.verified = v, !.immutable = i] \in Records
           /\ [state EXCEPT !.verified = v, !.immutable = i].files = state.files
           /\ [state EXCEPT !.verified = v].files = state.files
BY DEF Records

-----------------------------------------------------------------------------
(* Two kinds of step that most actions are made of. *)

\* Where the worker may go on with nothing changed but its position.
MayGo(label) ==
    /\ label \in Labels \ {"record", "original", "unlink", "rename"}
    /\ label \in SegmentSteps => At(SegmentSteps)
    /\ label \in RetiredSteps => place = ".expired"
    /\ label = "metadata" => Marker \in meta
    /\ label \in {"mount", "compress", "offload", "acknowledge"} => ~checked
    /\ label = "prune" => ~checked \/ L!ArchiveIntact(work)

\* Only the position changes.
LEMMA MoveKeepsInv ==
    ASSUME NEW label, NEW i \in Nat, label # "idle" => i # 0, MayGo(label), StorageInv, pc' = L!Step(i, label),
           UNCHANGED <<local, meta, place, saved, archive, archived, mounted, consumed, work, checked>>
    PROVE  StorageInv'
<1>1. pc'[1] = label /\ pc'[2] = i
  BY DEF L!Step
<1>2. StorageTyped'
  <2>1. pc' \in Labels \X Nat /\ (~At({"idle"}) => pc[2] # 0)'
    BY <1>1 DEF MayGo, L!Step, At
  <2> QED
    BY <2>1 DEF StorageInv, StorageTyped
<1>3. InPlace'
  BY <1>1 DEF StorageInv, InPlace, MayGo, At, Accounted, L!Form, L!Expired
<1>4. Compressing'
  BY <1>1 DEF Compressing, MayGo, At
<1>5. Verified'
  BY <1>1 DEF StorageInv, Verified, MayGo, At, L!ArchiveIntact, L!Form
<1>6. Retired'
  BY <1>1 DEF StorageInv, Retired, MayGo, At, AllExpired, L!Expired
<1> QED
  BY <1>2, <1>3, <1>4, <1>5, <1>6 DEF StorageInv

\* The copy of the pass is saved, with nothing new in it about the files.
LEMMA SaveKeepsInv ==
    ASSUME NEW label, NEW i \in Nat, label # "idle" => i # 0, MayGo(label), At(SegmentSteps), label \in SegmentSteps,
           StorageInv, pc' = L!Step(i, label),
           work' \in Records, work'.files = work.files,
           saved' = work', meta' = meta \cup {"lifecycle.json"},
           UNCHANGED <<local, place, archive, archived, mounted, consumed, checked>>
    PROVE  StorageInv'
<1>1. /\ pc'[1] = label /\ pc'[2] = i /\ place = "segment" /\ consumed
      /\ label \notin RetiredSteps /\ label \notin {"rename", "record", "original", "unlink"}
  BY DEF L!Step, StorageInv, InPlace, SegmentSteps, FileSteps, RetiredSteps, MayGo
<1>2. StorageTyped'
  <2>1. pc' \in Labels \X Nat /\ (~At({"idle"}) => pc[2] # 0)'
    BY <1>1 DEF MayGo, L!Step, At
  <2> QED
    BY <2>1 DEF StorageInv, StorageTyped
<1>3. InPlace'
  <2>1. Accounted(work, local)
    BY DEF StorageInv, InPlace
  <2>2. Accounted(work, local)'
    BY <2>1 DEF Accounted, L!Form, L!Expired
  <2> QED
    BY <1>1, <2>2 DEF InPlace, At, Accounted, L!Form, L!Expired
<1>4. Compressing'
  BY <1>1 DEF Compressing, At
<1>5. Verified'
  BY <1>1 DEF StorageInv, Verified, MayGo, At, L!ArchiveIntact, L!Form
<1>6. Retired'
  BY <1>1 DEF Retired, RetiredSteps, At
<1> QED
  BY <1>2, <1>3, <1>4, <1>5, <1>6 DEF StorageInv

-----------------------------------------------------------------------------
(* The steps of a pass, one by one. *)

LEMMA BeginKeepsInv ==
    ASSUME StorageInv, L!Begin
    PROVE  StorageInv'
<1>1. /\ pc'[1] = "mount" /\ place = "segment" /\ consumed /\ checked' = FALSE
      /\ UNCHANGED <<L!dirs, mounted, consumed>>
      /\ Accounted(work', local)
      /\ work'.verified => "lifecycle.json" \in meta
  BY DEF L!Begin, L!Goto, L!Step, Accounted, L!NewState, L!world
<1>2. StorageTyped'
  <2>1. pc' \in Labels \X Nat /\ (~At({"idle"}) => pc[2] # 0)'
    BY DEF L!Begin, At, L!Goto, L!Step, Labels, SegmentSteps
  <2>2. L!NewState \in Records
    BY DEF L!NewState, Records, Entries, L!NoRecord
  <2>3. work' \in Records
    BY <2>2 DEF L!Begin, StorageInv, StorageTyped
  <2> QED
    BY <1>1, <2>1, <2>3 DEF StorageInv, StorageTyped, L!dirs
<1>3. InPlace'
  BY <1>1 DEF StorageInv, InPlace, L!dirs, At, RetiredSteps, Accounted, L!Form, L!Expired
<1>4. Compressing' /\ Verified'
  BY <1>1 DEF Compressing, Verified, At
<1>5. Retired'
  BY <1>1 DEF StorageInv, Retired, At, L!dirs
<1> QED
  BY <1>2, <1>3, <1>4, <1>5 DEF StorageInv

LEMMA MountKeepsInv ==
    ASSUME StorageInv, L!Mount
    PROVE  StorageInv'
<1> DEFINE Where == IF \/ ~L!AllRecorded(work)
                       \/ ~work'.verified /\ (mounted \/ \E f \in L!Names : ~L!Expired(work, f) /\ "plain" \in local[f])
                    THEN "compress" ELSE "prune"
<1>1. pc' = L!Step(1, Where) /\ Where \in {"compress", "prune"}
  BY DEF L!Mount, L!Goto
<1> HIDE DEF Where
<1>2. /\ At(SegmentSteps) /\ ~checked
      /\ UNCHANGED <<local, place, archive, archived, mounted, consumed, checked>>
  BY DEF StorageInv, Verified, L!Mount, L!Step, At, SegmentSteps, L!world
<1>3. MayGo(Where)
  BY <1>1, <1>2 DEF MayGo, Labels, SegmentSteps, FileSteps, RetiredSteps
<1>4. CASE work.verified /\ ~mounted
  <2>1. work' \in Records /\ work'.files = work.files
    BY <1>4, RecordFacts DEF L!Mount, StorageInv, StorageTyped
  <2>2. saved' = work' /\ meta' = meta \cup {"lifecycle.json"}
    BY <1>4 DEF L!Mount
  <2> QED
    BY <1>1, <1>2, <1>3, <2>1, <2>2, SaveKeepsInv DEF SegmentSteps
<1>5. CASE ~(work.verified /\ ~mounted)
  <2>1. UNCHANGED <<work, saved, meta>>
    BY <1>5 DEF L!Mount
  <2> QED
    BY <1>1, <1>2, <1>3, <2>1, MoveKeepsInv
<1> QED
  BY <1>4, <1>5

LEMMA CompressDoneKeepsInv ==
    ASSUME StorageInv, L!CompressDone
    PROVE  StorageInv'
<1>1. /\ At(SegmentSteps) /\ ~checked /\ pc' = L!Step(1, "offload")
      /\ UNCHANGED <<local, meta, place, saved, archive, archived, mounted, consumed, work, checked>>
  BY DEF StorageInv, Verified, L!CompressDone, L!Goto, At, SegmentSteps, L!dirs, L!world
<1>2. MayGo("offload")
  BY <1>1 DEF MayGo, Labels, SegmentSteps, FileSteps, RetiredSteps
<1> QED
  BY <1>1, <1>2, MoveKeepsInv

\* The record of a file that was just copied, in the form it has now.
LEMMA AfterCopy ==
    ASSUME NEW state \in Records, NEW f \in L!Names, NEW form \in {"plain", "gz"}, NEW next,
           next = [state EXCEPT !.files[f] = [recorded |-> TRUE, gz |-> form = "gz", expired |-> FALSE]]
    PROVE  /\ next \in Records
           /\ next.files[f].recorded /\ ~next.files[f].expired /\ (next.files[f].gz <=> form = "gz")
           /\ \A g \in L!Names \ {f} : next.files[g] = state.files[g]
BY DEF Records, Entries

LEMMA CompressFileKeepsInv ==
    ASSUME NEW atOnce \in BOOLEAN, StorageInv, L!CompressFile(atOnce)
    PROVE  StorageInv'
<1> DEFINE f    == L!Members[pc[2]]
           skip == L!Expired(work, f) \/ (work.files[f].gz /\ "plain" \notin local[f])
           form == IF atOnce \/ "gz" \in local[f] THEN "gz" ELSE "plain"
<1>0. pc[1] = "compress" /\ pc[2] \in 1 .. 3
  BY MembersAre DEF StorageInv, StorageTyped, L!CompressFile, At
<1>1. /\ pc[2] \in 1 .. 3 /\ f \in L!Names /\ At(SegmentSteps) /\ ~checked
      /\ place = "segment" /\ consumed
      /\ UNCHANGED <<meta, place, saved, archive, archived, mounted, consumed, checked>>
  BY <1>0, MembersAre DEF StorageInv, InPlace, Verified, L!CompressFile, At, SegmentSteps, L!world
<1>2. CASE skip
  <2>1. UNCHANGED <<local, work>> /\ pc' = L!Step(pc[2] + 1, "compress")
    BY <1>2 DEF L!CompressFile, L!Goto
  <2>2. MayGo("compress")
    BY <1>1 DEF MayGo, Labels, SegmentSteps, FileSteps, RetiredSteps
  <2> QED
    BY <1>1, <2>1, <2>2, MoveKeepsInv
<1>3. CASE ~skip
  <2>1. /\ local' = [local EXCEPT ![f] = @ \cup {form}]
        /\ work' = [work EXCEPT !.files[f] = [recorded |-> TRUE, gz |-> form = "gz", expired |-> FALSE]]
        /\ pc' = L!Step(pc[2], "record") /\ pc'[1] = "record" /\ pc'[2] = pc[2]
    BY <1>3 DEF L!CompressFile, L!Goto, L!Step
  <2>2. form \in {"plain", "gz"}
    OBVIOUS
  <2> HIDE DEF f, form, skip
  <2>3. /\ work' \in Records
        /\ work'.files[f].recorded /\ ~work'.files[f].expired /\ (work'.files[f].gz <=> form = "gz")
        /\ \A g \in L!Names \ {f} : work'.files[g] = work.files[g]
    BY <1>1, <2>1, <2>2, AfterCopy DEF StorageInv, StorageTyped
  <2>4. /\ local' \in [L!Names -> SUBSET {"plain", "gz"}]
        /\ form \in local'[f] /\ local[f] \subseteq local'[f]
        /\ \A g \in L!Names \ {f} : local'[g] = local[g]
    BY <1>1, <2>1, <2>2 DEF StorageInv, StorageTyped
  <2>5. StorageTyped'
    <3>1. pc' \in Labels \X Nat /\ (~At({"idle"}) => pc[2] # 0)'
      BY <1>1, <2>1 DEF At, L!Step, Labels, SegmentSteps, FileSteps
    <3> QED
      BY <1>1, <2>3, <2>4, <3>1 DEF StorageInv, StorageTyped
  <2>6. Accounted(work, local)'
    BY <1>1, <2>2, <2>3, <2>4 DEF StorageInv, InPlace, Accounted, L!Form, L!Expired
  <2>7. Accounted(saved, local) => Accounted(saved, local)'
    BY <1>1, <2>4 DEF Accounted, L!Form, L!Expired
  <2>8. InPlace'
    BY <1>1, <2>1, <2>6, <2>7 DEF StorageInv, InPlace, At, RetiredSteps
  <2>9. Compressing'
    BY <1>1, <2>1, <2>3, <2>4, MembersAre DEF Compressing, At, f
  <2>10. Verified'
    BY <1>1, <2>1 DEF Verified, At
  <2>11. Retired'
    BY <1>1, <2>1 DEF StorageInv, Retired, At, AllExpired, L!Expired
  <2> QED
    BY <2>5, <2>8, <2>9, <2>10, <2>11 DEF StorageInv
<1> QED
  BY <1>2, <1>3

LEMMA CompressRecordKeepsInv ==
    ASSUME StorageInv, L!CompressRecord
    PROVE  StorageInv'
<1>1. /\ pc[1] = "record" /\ pc' = L!Step(pc[2], "original") /\ pc'[1] = "original" /\ pc'[2] = pc[2]
      /\ place = "segment" /\ consumed /\ ~checked /\ Accounted(work, local)
      /\ saved' = work /\ meta' = meta \cup {"lifecycle.json"}
      /\ UNCHANGED <<local, place, archive, archived, mounted, consumed, work, checked>>
  BY DEF StorageInv, InPlace, Verified, L!CompressRecord, L!Goto, L!Step, At, SegmentSteps, FileSteps, L!world
<1>2. StorageTyped'
  <2>1. pc' \in Labels \X Nat /\ (~At({"idle"}) => pc[2] # 0)'
    BY <1>1 DEF StorageInv, StorageTyped, L!Step, At, Labels, SegmentSteps, FileSteps
  <2> QED
    BY <1>1, <2>1 DEF StorageInv, StorageTyped
<1>3. InPlace'
  BY <1>1 DEF InPlace, At, RetiredSteps, Accounted, L!Form, L!Expired
<1>4. Compressing'
  BY <1>1 DEF StorageInv, Compressing, At
<1>5. Verified' /\ Retired'
  BY <1>1 DEF Verified, Retired, At
<1> QED
  BY <1>2, <1>3, <1>4, <1>5 DEF StorageInv

LEMMA CompressUnlinkKeepsInv ==
    ASSUME StorageInv, L!CompressUnlink
    PROVE  StorageInv'
<1> DEFINE f == L!Members[pc[2]]
<1>1. /\ pc[1] = "original" /\ pc[2] \in 1 .. 3 /\ f \in L!Names /\ At(SegmentSteps)
      /\ pc' = L!Step(pc[2] + 1, "compress") /\ pc'[1] = "compress" /\ pc'[2] = pc[2] + 1
      /\ place = "segment" /\ consumed /\ ~checked /\ saved = work /\ Accounted(work, local)
      /\ work.files[f].gz => "gz" \in local[f]
      /\ UNCHANGED <<meta, place, saved, archive, archived, mounted, consumed, work, checked>>
  BY MembersAre DEF StorageInv, InPlace, Verified, Compressing, L!CompressUnlink, L!Goto, L!Step, At, SegmentSteps, FileSteps, L!world
<1>2. local' = [local EXCEPT ![f] = IF work.files[f].gz THEN @ \ {"plain"} ELSE @]
  BY DEF L!CompressUnlink
<1> HIDE DEF f
<1>3. /\ local' \in [L!Names -> SUBSET {"plain", "gz"}]
      /\ \A g \in L!Names \ {f} : local'[g] = local[g]
      /\ ~work.files[f].gz => local'[f] = local[f]
      /\ work.files[f].gz => local'[f] = local[f] \ {"plain"}
  BY <1>1, <1>2 DEF StorageInv, StorageTyped
<1>4. StorageTyped'
  <2>1. pc' \in Labels \X Nat /\ (~At({"idle"}) => pc[2] # 0)'
    BY <1>1 DEF L!Step, At, Labels, SegmentSteps, FileSteps
  <2> QED
    BY <1>1, <1>3, <2>1 DEF StorageInv, StorageTyped
<1>5. Accounted(work, local)'
  BY <1>1, <1>3 DEF Accounted, L!Form, L!Expired
<1>6. InPlace'
  BY <1>1, <1>5 DEF StorageInv, InPlace, At, RetiredSteps
<1>7. Compressing'
  BY <1>1 DEF Compressing, At
<1>8. Verified' /\ Retired'
  BY <1>1 DEF Verified, Retired, At
<1> QED
  BY <1>4, <1>6, <1>7, <1>8 DEF StorageInv

LEMMA OffloadKeepsInv ==
    ASSUME StorageInv, L!Offload
    PROVE  StorageInv'
<1>1. /\ pc[1] = "offload" /\ At(SegmentSteps) /\ ~checked
      /\ place = "segment" /\ consumed
      /\ UNCHANGED <<local, place, mounted, consumed, checked>>
  BY DEF StorageInv, InPlace, Verified, L!Offload, At, SegmentSteps, L!world
<1>2. MayGo("prune") /\ "prune" \in SegmentSteps
  BY <1>1 DEF MayGo, Labels, SegmentSteps, FileSteps, RetiredSteps
<1>3. CASE mounted /\ archived /\ ~L!ArchiveIntact(work)
  <2>1. /\ work' = [work EXCEPT !.verified = FALSE, !.immutable = work.verified \/ work.immutable]
        /\ saved' = work' /\ meta' = meta \cup {"lifecycle.json"}
        /\ pc' = L!Step(1, "prune")
        /\ UNCHANGED <<archive, archived>>
    BY <1>3 DEF L!Offload, L!Goto
  <2>2. work' \in Records /\ work'.files = work.files
    BY <2>1 DEF StorageInv, StorageTyped, Records
  <2> QED
    BY <1>1, <1>2, <2>1, <2>2, SaveKeepsInv
<1>4. CASE \/ ~mounted
           \/ ~archived /\ \E f \in L!Names : L!Expired(work, f)
  <2>1. pc' = L!Step(1, "prune") /\ UNCHANGED <<archive, archived, work, saved, meta>>
    BY <1>4 DEF L!Offload, L!Goto, L!ArchiveIntact
  <2> QED
    BY <1>1, <1>2, <2>1, MoveKeepsInv
<1>5. CASE /\ mounted /\ ~(archived /\ ~L!ArchiveIntact(work))
           /\ ~(~archived /\ \E f \in L!Names : L!Expired(work, f))
  <2>1. /\ pc' = L!Step(1, "acknowledge") /\ pc'[1] = "acknowledge"
        /\ UNCHANGED <<work, saved, meta>>
    BY <1>5 DEF L!Offload, L!Goto, L!Step
  <2>2. StorageTyped'
    <3>1. pc' \in Labels \X Nat /\ (~At({"idle"}) => pc[2] # 0)'
      BY <2>1 DEF At, L!Step, Labels, SegmentSteps
    <3> QED
      BY <1>1, <2>1, <3>1 DEF StorageInv, StorageTyped
  <2>3. InPlace'
    BY <1>1, <2>1 DEF StorageInv, InPlace, At, RetiredSteps, Accounted, L!Form, L!Expired
  <2>4. Compressing' /\ Verified'
    BY <1>1, <2>1 DEF Compressing, Verified, At
  <2>5. Retired'
    BY <1>1, <2>1 DEF Retired, At
  <2> QED
    BY <2>2, <2>3, <2>4, <2>5 DEF StorageInv
<1> QED
  BY <1>3, <1>4, <1>5

LEMMA AcknowledgeKeepsInv ==
    ASSUME StorageInv, L!Acknowledge
    PROVE  StorageInv'
<1>1. /\ At(SegmentSteps) /\ ~checked
      /\ saved' = work' /\ meta' = meta \cup {"lifecycle.json"}
      /\ pc' = L!Step(1, "prune")
      /\ UNCHANGED <<local, place, archive, archived, mounted, consumed, checked>>
  BY DEF StorageInv, Verified, L!Acknowledge, L!Goto, L!Step, At, SegmentSteps, L!world
<1>2. MayGo("prune") /\ "prune" \in SegmentSteps
  BY <1>1 DEF MayGo, Labels, SegmentSteps, FileSteps, RetiredSteps
<1>3. work' \in Records /\ work'.files = work.files
  BY DEF L!Acknowledge, StorageInv, StorageTyped, Records
<1> QED
  BY <1>1, <1>2, <1>3, SaveKeepsInv

\* A mark changes nothing of a record but the file's expiry.
Marked(state, f) == [state EXCEPT !.files[f].expired = TRUE]
LEMMA AfterMark ==
    ASSUME NEW state \in Records, NEW f \in L!Names
    PROVE  /\ Marked(state, f) \in Records
           /\ Marked(state, f).files[f].expired
           /\ Marked(state, f).verified = state.verified
           /\ \A g \in L!Names : Marked(state, f).files[g].gz = state.files[g].gz
           /\ \A g \in L!Names \ {f} : Marked(state, f).files[g] = state.files[g]
BY DEF Records, Entries, Marked

LEMMA PruneMarkKeepsInv ==
    ASSUME NEW pressure \in BOOLEAN, NEW saves \in BOOLEAN, StorageInv, L!PruneMark(pressure, saves)
    PROVE  StorageInv'
<1> DEFINE f    == L!Members[pc[2]]
           due  == L!Expired(work, f) \/ age >= pc[2] \/ (pressure /\ pc[2] < Len(L!Members))
           gone == L!Expired(work, f) /\ L!Form(work, f) \notin local[f]
           Done == pc[2] > Len(L!Members) \/ ~L!AllRecorded(work)
           Kept == ~due \/ gone \/ ~mounted \/ ~work.verified
<1>1. /\ pc[1] = "prune" /\ pc[2] \in Nat \ {0} /\ At(SegmentSteps)
      /\ place = "segment" /\ consumed
      /\ checked => L!ArchiveIntact(work)
      /\ UNCHANGED <<local, place, archive, archived, mounted, consumed>>
  BY DEF StorageInv, StorageTyped, InPlace, Verified, L!PruneMark, At, SegmentSteps, L!world
<1>2. MayGo("prune") /\ MayGo("retire") /\ "prune" \in SegmentSteps
  BY <1>1 DEF MayGo, Labels, SegmentSteps, FileSteps, RetiredSteps
<1>3. CASE Done
  <2>1. pc' = L!Step(1, "retire") /\ UNCHANGED <<work, saved, meta, checked>>
    BY <1>3 DEF L!PruneMark, L!Goto
  <2> QED
    BY <1>1, <1>2, <2>1, MoveKeepsInv
<1>4. CASE ~Done /\ Kept
  <2>1. pc' = L!Step(pc[2] + 1, "prune") /\ UNCHANGED <<work, saved, meta, checked>>
    BY <1>4 DEF L!PruneMark, L!Goto
  <2> QED
    BY <1>1, <1>2, <2>1, MoveKeepsInv
<1>5. CASE ~Done /\ ~Kept /\ L!Refuted
  <2>1. /\ work' = [work EXCEPT !.verified = FALSE, !.immutable = TRUE]
        /\ saved' = work' /\ meta' = meta \cup {"lifecycle.json"}
        /\ pc' = L!Step(pc[2] + 1, "prune") /\ UNCHANGED checked
    BY <1>5 DEF L!PruneMark, L!Goto
  <2>2. work' \in Records /\ work'.files = work.files
    BY <2>1, RecordFacts DEF StorageInv, StorageTyped
  <2> QED
    BY <1>1, <1>2, <2>1, <2>2, SaveKeepsInv
<1>6. CASE ~Done /\ ~Kept /\ ~L!Refuted
  <2>1. /\ work' = Marked(work, f)
        /\ saves => saved' = work' /\ pc' = L!Step(pc[2], "unlink")
        /\ ~saves => saved' = saved /\ pc' = L!Step(pc[2] + 1, "prune")
        /\ checked' = TRUE /\ meta' = meta
    BY <1>6 DEF L!PruneMark, L!Goto, Marked
  <2>2. L!ArchiveIntact(work)
    BY <1>1, <1>6 DEF L!Refuted
  <2>3. work.verified /\ "lifecycle.json" \in meta
    BY <1>1, <1>6 DEF StorageInv, InPlace
  <2>4. pc[2] \in 1 .. 3 /\ f \in L!Names
    BY <1>1, <1>6, MembersAre
  <2> HIDE DEF f, due, gone, Done, Kept
  <2>5. /\ work' \in Records
        /\ work'.files[f].expired
        /\ \A g \in L!Names : work'.files[g].gz = work.files[g].gz
        /\ \A g \in L!Names \ {f} : work'.files[g] = work.files[g]
    BY <2>1, <2>4, AfterMark DEF StorageInv, StorageTyped
  <2>6. /\ saves => pc'[1] = "unlink" /\ pc'[2] = pc[2]
        /\ ~saves => pc'[1] = "prune" /\ pc'[2] = pc[2] + 1
    BY <2>1 DEF L!Step
  <2>7. StorageTyped'
    <3>1. pc' \in Labels \X Nat /\ (~At({"idle"}) => pc[2] # 0)'
      BY <1>1, <2>1, <2>6 DEF L!Step, At, Labels, SegmentSteps, FileSteps
    <3>2. saved' \in Records
      BY <2>1, <2>5 DEF StorageInv, StorageTyped
    <3> QED
      BY <1>1, <2>5, <3>1, <3>2 DEF StorageInv, StorageTyped
  <2>8. Accounted(work, local)'
    BY <1>1, <2>5 DEF StorageInv, InPlace, Accounted, L!Form, L!Expired
  <2>9. Accounted(saved, local)'
    BY <1>1, <2>1, <2>8 DEF StorageInv, InPlace, Accounted, L!Form, L!Expired
  <2>10. InPlace'
    BY <1>1, <2>1, <2>3, <2>6, <2>8, <2>9 DEF InPlace, At, RetiredSteps
  <2>11. Compressing'
    BY <2>6 DEF Compressing, At
  <2>12. L!ArchiveIntact(work)'
    BY <1>1, <2>2, <2>5 DEF L!ArchiveIntact, L!Form
  <2>13. Verified'
    BY <2>1, <2>4, <2>5, <2>6, <2>12, MembersAre DEF Verified, At, L!Expired, f
  <2>14. Retired'
    BY <1>1, <2>6 DEF Retired, At
  <2> QED
    BY <2>7, <2>10, <2>11, <2>13, <2>14 DEF StorageInv
<1> QED
  BY <1>3, <1>4, <1>5, <1>6

\* What a last unlink finds: the mark is saved, and the archive holds the file.
LEMMA UnlinkFinds ==
    ASSUME StorageInv, L!PruneUnlink
    PROVE  /\ pc[1] = "unlink" /\ pc[2] \in 1 .. 3 /\ L!Members[pc[2]] \in L!Names
           /\ place = "segment" /\ consumed /\ checked /\ saved = work
           /\ L!ArchiveIntact(work) /\ L!Expired(work, L!Members[pc[2]])
           /\ local' = [local EXCEPT ![L!Members[pc[2]]] = @ \ {L!Form(work, L!Members[pc[2]])}]
           /\ \A g \in L!Names \ {L!Members[pc[2]]} : local'[g] = local[g]
BY MembersAre DEF StorageInv, StorageTyped, InPlace, Verified, L!PruneUnlink, At, SegmentSteps, FileSteps

LEMMA PruneUnlinkKeepsInv ==
    ASSUME StorageInv, L!PruneUnlink
    PROVE  StorageInv'
<1> DEFINE f == L!Members[pc[2]]
<1>1. /\ pc[1] = "unlink" /\ pc[2] \in 1 .. 3 /\ f \in L!Names
      /\ place = "segment" /\ consumed /\ checked /\ saved = work
      /\ L!ArchiveIntact(work) /\ L!Expired(work, f)
      /\ local' = [local EXCEPT ![f] = @ \ {L!Form(work, f)}]
      /\ \A g \in L!Names \ {f} : local'[g] = local[g]
  BY UnlinkFinds
<1>2. /\ pc' = L!Step(pc[2] + 1, "prune") /\ pc'[1] = "prune" /\ pc'[2] = pc[2] + 1
      /\ UNCHANGED <<meta, place, saved, archive, archived, mounted, consumed, work, checked>>
  BY DEF L!PruneUnlink, L!Goto, L!Step, L!world
<1> HIDE DEF f
<1>3. Accounted(work, local) /\ At(SegmentSteps)
  BY <1>1 DEF StorageInv, InPlace, At, SegmentSteps, FileSteps
<1>4. StorageTyped'
  <2>1. pc' \in Labels \X Nat /\ (~At({"idle"}) => pc[2] # 0)'
    BY <1>1, <1>2 DEF L!Step, At, Labels, SegmentSteps
  <2>2. local' \in [L!Names -> SUBSET {"plain", "gz"}]
    BY <1>1 DEF StorageInv, StorageTyped
  <2> QED
    BY <1>2, <2>1, <2>2 DEF StorageInv, StorageTyped
<1>5. Accounted(work, local)'
  BY <1>1, <1>2, <1>3 DEF Accounted, L!Form, L!Expired
<1>6. InPlace'
  BY <1>1, <1>2, <1>3, <1>5 DEF StorageInv, InPlace, At, RetiredSteps
<1>7. Compressing' /\ Retired'
  BY <1>1, <1>2 DEF Compressing, Retired, At
<1>8. Verified'
  BY <1>1, <1>2 DEF Verified, At, L!ArchiveIntact, L!Form
<1> QED
  BY <1>4, <1>6, <1>7, <1>8 DEF StorageInv

LEMMA RetireMarkKeepsInv ==
    ASSUME StorageInv, L!RetireMark
    PROVE  StorageInv'
<1>1. /\ pc[1] = "retire" /\ At(SegmentSteps) /\ place = "segment" /\ consumed
      /\ Accounted(saved, local) /\ Accounted(work, local)
      /\ UNCHANGED <<local, place, archive, archived, mounted, consumed, checked>>
  BY DEF StorageInv, InPlace, L!RetireMark, At, SegmentSteps, L!world
<1>2. CASE ~L!Retirable
  <2>1. pc' = L!Step(0, "idle") /\ UNCHANGED <<work, saved, meta>>
    BY <1>2 DEF L!RetireMark, L!Goto, L!Idle, L!Step
  <2>2. MayGo("idle")
    BY DEF MayGo, Labels, SegmentSteps, FileSteps, RetiredSteps
  <2> QED
    BY <1>1, <2>1, <2>2, MoveKeepsInv
<1>3. CASE L!Retirable /\ L!ArchiveIntact(work)
  <2>1. /\ pc' = L!Step(1, "rename") /\ pc'[1] = "rename" /\ pc'[2] = 1
        /\ meta' = meta \cup {Marker} /\ UNCHANGED <<work, saved>>
    BY <1>3 DEF L!RetireMark, L!Goto, L!Step, Marker
  <2>2. AllExpired(saved)
    BY <1>1, <1>3 DEF L!Retirable, Accounted, AllExpired, L!Form
  <2>3. StorageTyped'
    <3>1. pc' \in Labels \X Nat /\ (~At({"idle"}) => pc[2] # 0)'
      BY <2>1 DEF L!Step, At, Labels, SegmentSteps
    <3> QED
      BY <1>1, <2>1, <3>1 DEF StorageInv, StorageTyped
  <2>4. InPlace'
    BY <1>1, <2>1 DEF StorageInv, InPlace, At, RetiredSteps, Accounted, L!Form, L!Expired
  <2>5. Compressing' /\ Verified'
    BY <2>1 DEF Compressing, Verified, At
  <2>6. Retired'
    BY <1>1, <2>1, <2>2 DEF Retired, At, AllExpired, L!Expired
  <2> QED
    BY <2>3, <2>4, <2>5, <2>6 DEF StorageInv
<1>4. CASE L!Retirable /\ ~L!ArchiveIntact(work)
  <2>1. /\ pc' = L!Idle /\ pc'[1] = "idle" /\ saved' = work' /\ UNCHANGED meta
        /\ work' = [work EXCEPT !.verified = FALSE, !.immutable = TRUE]
    BY <1>4 DEF L!RetireMark, L!Goto, L!Idle
  <2>2. work' \in Records /\ work'.files = work.files
    BY <2>1, RecordFacts DEF StorageInv, StorageTyped
  \* There is a saved record: without one each file would still be there.
  <2>3. "lifecycle.json" \in meta
    <3>1. SUFFICES ASSUME saved = L!NewState PROVE FALSE
      BY <1>1 DEF StorageInv, InPlace
    <3>2. "diag" \in L!Names /\ local["diag"] = {}
      BY <1>4, MembersAre DEF L!Retirable, L!Members, L!Names
    <3> QED
      BY <1>1, <3>1, <3>2 DEF Accounted, L!Expired, L!NewState, L!NoRecord
  <2>4. StorageTyped'
    <3>1. pc' \in Labels \X Nat /\ (~At({"idle"}) => pc[2] # 0)'
      BY <2>1 DEF L!Idle, At, Labels
    <3> QED
      BY <1>1, <2>1, <2>2, <3>1 DEF StorageInv, StorageTyped
  <2>5. Accounted(saved, local)'
    BY <1>1, <2>1, <2>2 DEF Accounted, L!Form, L!Expired
  <2>6. InPlace'
    BY <1>1, <2>1, <2>3, <2>5 DEF InPlace, At, SegmentSteps, FileSteps, RetiredSteps
  <2>7. Compressing' /\ Verified'
    BY <2>1 DEF Compressing, Verified, At
  <2>8. Retired'
    BY <1>1, <2>1 DEF Retired, At
  <2> QED
    BY <2>4, <2>6, <2>7, <2>8 DEF StorageInv
<1> QED
  BY <1>2, <1>3, <1>4

LEMMA RetireRenameKeepsInv ==
    ASSUME StorageInv, L!RetireRename
    PROVE  StorageInv'
<1>1. /\ AllExpired(saved) /\ Marker \in meta
      /\ place' = ".expired" /\ pc' = L!Step(1, "finish") /\ pc'[1] = "finish" /\ pc'[2] = 1
      /\ UNCHANGED <<local, meta, saved, archive, archived, mounted, consumed, work, checked>>
  BY DEF StorageInv, Retired, L!RetireRename, L!Goto, L!Step, At, L!world
<1>2. StorageTyped'
  <2>1. pc' \in Labels \X Nat /\ (~At({"idle"}) => pc[2] # 0)'
    BY <1>1 DEF L!Step, At, Labels, RetiredSteps
  <2> QED
    BY <1>1, <2>1 DEF StorageInv, StorageTyped
<1>3. InPlace'
  BY <1>1 DEF InPlace, At, SegmentSteps, FileSteps, RetiredSteps
<1>4. Compressing' /\ Verified'
  BY <1>1 DEF Compressing, Verified, At
<1>5. Retired'
  BY <1>1 DEF Retired, At, AllExpired, L!Expired
<1> QED
  BY <1>2, <1>3, <1>4, <1>5 DEF StorageInv

LEMMA ResumeRetiredKeepsInv ==
    ASSUME StorageInv, L!ResumeRetired
    PROVE  StorageInv'
<1>1. /\ place = ".expired" /\ pc' = L!Step(1, "finish")
      /\ UNCHANGED <<local, meta, place, saved, archive, archived, mounted, consumed, work, checked>>
  BY DEF L!ResumeRetired, L!Goto, L!dirs, L!world
<1>2. MayGo("finish")
  BY <1>1 DEF MayGo, Labels, SegmentSteps, FileSteps, RetiredSteps
<1> QED
  BY <1>1, <1>2, MoveKeepsInv

LEMMA FinishKeepsInv ==
    ASSUME StorageInv, L!Finish
    PROVE  StorageInv'
<1>1. /\ place = ".expired"
      /\ UNCHANGED <<local, meta, place, saved, archive, archived, mounted, consumed, work, checked>>
      /\ \/ pc' = L!Step(1, "rmdir")
         \/ Marker \in meta /\ pc' = L!Step(1, "metadata")
         \/ pc' = L!Step(0, "idle")
  BY DEF StorageInv, InPlace, L!Finish, L!Goto, L!Idle, L!Step, At, RetiredSteps, Marker, L!dirs, L!world
<1>2. MayGo("rmdir") /\ MayGo("idle") /\ (Marker \in meta => MayGo("metadata"))
  BY <1>1 DEF MayGo, Labels, SegmentSteps, FileSteps, RetiredSteps
<1> QED
  BY <1>1, <1>2, MoveKeepsInv

LEMMA FinishUnlinkKeepsInv ==
    ASSUME StorageInv, L!FinishUnlink
    PROVE  StorageInv'
<1>1. /\ pc[1] = "metadata" /\ Marker \in meta /\ place = ".expired" /\ AllExpired(saved)
      /\ meta' = L!Unlinked
      /\ UNCHANGED <<local, place, saved, archive, archived, mounted, consumed, work, checked>>
  BY DEF StorageInv, InPlace, Retired, L!FinishUnlink, L!Step, At, RetiredSteps, L!world
<1>2. meta' = {} \/ Marker \in meta'
  BY <1>1 DEF L!Unlinked, Marker
<1>3. pc' = L!Step(1, "rmdir") \/ (pc' = L!Step(1, "metadata") /\ Marker \in meta')
  BY <1>2 DEF L!FinishUnlink, L!Goto
<1>4. pc'[1] \in {"rmdir", "metadata"} /\ pc'[2] = 1
  BY <1>3 DEF L!Step
<1>5. StorageTyped'
  <2>1. pc' \in Labels \X Nat /\ (~At({"idle"}) => pc[2] # 0)'
    BY <1>3 DEF L!Step, At, Labels, RetiredSteps
  <2> QED
    BY <1>1, <2>1 DEF StorageInv, StorageTyped
<1>6. InPlace'
  BY <1>1, <1>4 DEF InPlace, At, SegmentSteps, FileSteps
<1>7. Compressing' /\ Verified'
  BY <1>4 DEF Compressing, Verified, At
<1>8. Retired'
  <2>1. pc'[1] = "metadata" => Marker \in meta'
    BY <1>3 DEF L!Step
  <2> QED
    BY <1>1, <1>2, <1>4, <2>1 DEF Retired, At, AllExpired, L!Expired
<1> QED
  BY <1>5, <1>6, <1>7, <1>8 DEF StorageInv

LEMMA RmdirKeepsInv ==
    ASSUME StorageInv, L!Rmdir
    PROVE  StorageInv'
<1>1. /\ place' = "gone" /\ pc' = L!Idle /\ pc'[1] = "idle"
      /\ UNCHANGED <<local, meta, saved, archive, archived, mounted, consumed, work, checked>>
  BY DEF L!Rmdir, L!Goto, L!Idle, L!world
<1>2. StorageTyped'
  <2>1. pc' \in Labels \X Nat /\ (~At({"idle"}) => pc[2] # 0)'
    BY <1>1 DEF L!Idle, At, Labels
  <2> QED
    BY <1>1, <2>1 DEF StorageInv, StorageTyped
<1>3. InPlace' /\ Compressing' /\ Verified' /\ Retired'
  BY <1>1 DEF InPlace, Compressing, Verified, Retired, At, SegmentSteps, FileSteps, RetiredSteps
<1> QED
  BY <1>2, <1>3 DEF StorageInv

-----------------------------------------------------------------------------
(* Failure, and the world around. *)

LEMMA KilledKeepsInv ==
    ASSUME StorageInv, L!Killed
    PROVE  StorageInv'
<1>1. /\ pc' = L!Step(0, "idle")
      /\ UNCHANGED <<local, meta, place, saved, archive, archived, mounted, consumed, work, checked>>
  BY DEF L!Killed, L!Goto, L!Idle, L!Step, L!dirs, L!world
<1>2. MayGo("idle")
  BY DEF MayGo, Labels, SegmentSteps, FileSteps, RetiredSteps
<1> QED
  BY <1>1, <1>2, MoveKeepsInv

LEMMA FailedKeepsInv ==
    ASSUME StorageInv, L!Failed
    PROVE  StorageInv'
<1>1. UNCHANGED <<local, meta, place, saved, archive, archived, mounted, consumed, work, checked>>
  BY DEF L!Failed, L!dirs, L!world
<1>2. CASE pc[1] \in {"compress", "record", "original", "offload", "acknowledge"} /\ L!Goto(L!Step(1, "prune"))
  <2>1. At(SegmentSteps) /\ ~checked
    BY <1>2 DEF StorageInv, Verified, At, SegmentSteps, FileSteps
  <2>2. MayGo("prune")
    BY <2>1 DEF MayGo, Labels, SegmentSteps, FileSteps, RetiredSteps
  <2> QED
    BY <1>1, <1>2, <2>2, MoveKeepsInv DEF L!Goto
<1>3. CASE pc[1] = "unlink" /\ L!Goto(L!Step(pc[2] + 1, "prune"))
  <2>1. At(SegmentSteps) /\ L!ArchiveIntact(work) /\ pc[2] \in Nat
    BY <1>3 DEF StorageInv, StorageTyped, Verified, At, SegmentSteps, FileSteps
  <2>2. MayGo("prune")
    BY <2>1 DEF MayGo, Labels, SegmentSteps, FileSteps, RetiredSteps
  <2> QED
    BY <1>1, <1>3, <2>1, <2>2, MoveKeepsInv DEF L!Goto
<1>4. CASE pc[1] \in {"rename", "finish", "metadata", "rmdir"} /\ L!Goto(L!Idle)
  <2>1. pc' = L!Step(0, "idle")
    BY <1>4 DEF L!Goto, L!Idle, L!Step
  <2>2. MayGo("idle")
    BY DEF MayGo, Labels, SegmentSteps, FileSteps, RetiredSteps
  <2> QED
    BY <1>1, <2>1, <2>2, MoveKeepsInv
<1> QED
  BY <1>2, <1>3, <1>4 DEF L!Failed

\* Between passes no step relies on the archive, the mount or the cursor.
LEMMA WorldKeepsInv ==
    ASSUME StorageInv, L!Damage \/ L!Remount \/ L!Consume \/ L!Older
    PROVE  StorageInv'
<1>1. /\ UNCHANGED <<local, meta, place, saved, pc, work, checked>>
      /\ consumed => consumed'
  BY DEF L!Damage, L!Remount, L!Consume, L!Older, L!dirs, L!pass, L!world
<1>2. pc[1] # "idle" => UNCHANGED <<archive, archived, mounted>>
  BY DEF L!Damage, L!Remount, L!Consume, L!Older, L!dirs, L!pass, L!Idle
<1>3. StorageTyped' /\ InPlace' /\ Compressing' /\ Retired'
  BY <1>1 DEF StorageInv, StorageTyped, InPlace, Compressing, Retired, At, Accounted, AllExpired, L!Form, L!Expired
<1>4. Verified'
  BY <1>1, <1>2 DEF StorageInv, Verified, At, L!ArchiveIntact, L!Form, L!Expired
<1> QED
  BY <1>3, <1>4 DEF StorageInv

LEMMA StepKeepsInv == StorageInv /\ [L!Next]_(L!swvars) => StorageInv'
<1> SUFFICES ASSUME StorageInv, [L!Next]_(L!swvars) PROVE StorageInv'
  OBVIOUS
<1>1. CASE L!Worker
  BY <1>1, BeginKeepsInv, MountKeepsInv, CompressDoneKeepsInv, CompressFileKeepsInv, CompressRecordKeepsInv,
     CompressUnlinkKeepsInv, OffloadKeepsInv, AcknowledgeKeepsInv, PruneMarkKeepsInv, PruneUnlinkKeepsInv,
     RetireMarkKeepsInv, RetireRenameKeepsInv, ResumeRetiredKeepsInv, FinishKeepsInv, FinishUnlinkKeepsInv,
     RmdirKeepsInv DEF L!Worker
<1>2. CASE \E pressure \in BOOLEAN : L!PruneMark(pressure, FALSE)
  BY <1>2, PruneMarkKeepsInv
<1>3. CASE L!Killed \/ L!Failed
  BY <1>3, KilledKeepsInv, FailedKeepsInv
<1>4. CASE L!Damage \/ L!Remount \/ L!Consume \/ L!Older
  BY <1>4, WorldKeepsInv
<1>5. CASE UNCHANGED L!swvars
  <2>1. UNCHANGED <<local, meta, place, saved, archive, archived, mounted, consumed, pc, work, checked>>
    BY <1>5 DEF L!swvars, L!dirs, L!pass, L!world
  <2>2. StorageTyped' /\ InPlace' /\ Compressing' /\ Retired'
    BY <2>1 DEF StorageInv, StorageTyped, InPlace, Compressing, Retired, At, Accounted, AllExpired, L!Form, L!Expired
  <2>3. Verified'
    BY <2>1 DEF StorageInv, Verified, At, L!ArchiveIntact, L!Form, L!Expired
  <2> QED
    BY <2>2, <2>3 DEF StorageInv
<1> QED
  BY <1>1, <1>2, <1>3, <1>4, <1>5 DEF L!Next

LEMMA InitIsInv == L!Init => StorageInv
<1> SUFFICES ASSUME L!Init PROVE StorageInv
  OBVIOUS
<1>1. L!NewState \in Records
  BY DEF L!NewState, Records, Entries, L!NoRecord
<1>2. pc[1] = "idle"
  BY DEF L!Init, L!Idle
<1>3. StorageTyped
  BY <1>1 DEF L!Init, StorageTyped, L!Idle, At, Labels
<1>4. InPlace
  BY <1>2 DEF L!Init, InPlace, At, Accounted, L!NewState, L!NoRecord, SegmentSteps, FileSteps, RetiredSteps
<1>5. Compressing /\ Verified /\ Retired
  BY <1>2 DEF L!Init, Compressing, Verified, Retired, At
<1> QED
  BY <1>3, <1>4, <1>5 DEF StorageInv

LEMMA InvHolds == L!Spec => []StorageInv
<1>1. L!Init => StorageInv
  BY InitIsInv
<1>2. StorageInv /\ [L!Next]_(L!swvars) => StorageInv'
  BY StepKeepsInv
<1> QED
  BY <1>1, <1>2, PTL DEF L!Spec

-----------------------------------------------------------------------------
(* The promises. *)

LEMMA MissingHasRecord == StorageInv => L!MissingIsExplained
<1> SUFFICES ASSUME StorageInv, NEW f \in L!Names, local[f] = {}, place # "gone" PROVE L!Expired(saved, f)
  BY DEF L!MissingIsExplained
<1> QED
  BY DEF StorageInv, StorageTyped, InPlace, Retired, Accounted, AllExpired

LEMMA NothingIsRefused == StorageInv => L!PassesGoOn
  BY DEF StorageInv, InPlace, Retired, L!PassesGoOn, Accounted, Marker, L!Idle

LEMMA LastCopyStays == StorageInv /\ [L!Next]_(L!swvars) => L!KeepsSoleCopies
<1> SUFFICES ASSUME StorageInv, [L!Next]_(L!swvars), NEW f \in L!Names, local[f] # {}, local'[f] = {}
             PROVE  consumed /\ L!ArchiveIntact(saved)
  BY DEF L!KeepsSoleCopies
<1>1. CASE L!PruneUnlink
  BY <1>1, UnlinkFinds
<1>2. CASE \E atOnce \in BOOLEAN : L!CompressFile(atOnce)
  BY <1>2 DEF StorageInv, StorageTyped, L!CompressFile
<1>3. CASE L!CompressUnlink
  <2>1. /\ L!Members[pc[2]] \in L!Names
        /\ work.files[L!Members[pc[2]]].gz => "gz" \in local[L!Members[pc[2]]]
        /\ local' = [local EXCEPT ![L!Members[pc[2]]] = IF work.files[L!Members[pc[2]]].gz THEN @ \ {"plain"} ELSE @]
    BY <1>3, MembersAre DEF StorageInv, Compressing, L!CompressUnlink, At
  <2> QED
    BY <2>1 DEF StorageInv, StorageTyped
<1>4. CASE UNCHANGED local
  BY <1>4
<1> QED
  BY <1>1, <1>2, <1>3, <1>4 DEF L!Next, L!Worker, L!Begin, L!Mount, L!CompressDone, L!CompressRecord, L!Offload, L!Acknowledge,
     L!PruneMark, L!RetireMark, L!RetireRename, L!ResumeRetired, L!Finish, L!FinishUnlink, L!Rmdir, L!Killed, L!Failed, L!Damage,
     L!Remount, L!Consume, L!Older, L!swvars, L!dirs

\* A file that is not in the segment has a durable record of its expiry, or the
\* segment is gone, whatever was interrupted (storage.py: "a crash can leave an extra
\* copy, never an unexplained missing one").
THEOREM NothingMissesUnexplained == L!Spec => []L!MissingIsExplained
  BY MissingHasRecord, InvHolds, PTL

\* No interruption leaves a directory that the next pass refuses: _check_complete()
\* finds what the record says, and a retired directory has its marker or is empty.
THEOREM NextPassGoesOn == L!Spec => []L!PassesGoOn
  BY NothingIsRefused, InvHolds, PTL

\* The last local copy of a file goes only when the replay has read the segment and
\* the archive holds every file in its form (_prune() verifies before it expires).
THEOREM LastCopyIsKept == L!Spec => L!SoleCopyIsKept
  BY LastCopyStays, InvHolds, PTL DEF L!Spec, L!SoleCopyIsKept
-----------------------------------------------------------------------------
(***************************************************************************)
(* The display's clock: accepted pairs are true seconds once the first one *)
(* was, and the third true pulse in a row is accepted.                     *)
(*                                                                         *)
(* The candidate is always an edge of the past (Anchored), so unless a     *)
(* whole wrap went by, the ticks between two captured edges are the true   *)
(* ones.  After one true pulse the candidate is that pulse, or so near     *)
(* before it that the next one is late for it (Recovering).                *)
(***************************************************************************)
CONSTANTS ClockHz, ClockWrap, ExtraOffsets, MaxSeconds

VARIABLES second, sub, clock, clean, genuine, real

K == INSTANCE DisplayClock WITH Hz <- ClockHz, Wrap <- ClockWrap, Offsets <- ExtraOffsets

Moments == ExtraOffsets \cup {0}
EdgeAt(s, d) == s * ClockHz + d

\* An edge of the past, and a clock as it may be at a time.
IsEdge(t) == \E s \in 0..second, d \in Moments : t = EdgeAt(s, d)

Clocks == [candidate : Int, locked : BOOLEAN, calibrated : BOOLEAN, blended : Int, seen : BOOLEAN, accepted : BOOLEAN]
ClockTyped ==
    /\ second \in Nat /\ sub \in Moments /\ clean \in 0..3 /\ clock \in Clocks
    /\ genuine \in BOOLEAN /\ real \in Int

Anchored == clock.candidate = K!None \/ (IsEdge(clock.candidate) /\ clock.candidate <= K!Now)
Learned  == /\ ~clock.calibrated => clock.blended = 0
            /\ genuine => real = ClockHz /\ K!Reference(clock) = ClockHz

Recovering ==
    genuine =>
        /\ clean > 0 => /\ sub = 0
                        /\ clock.candidate # K!None
                        /\ \/ clock.candidate = K!Now /\ clock.locked
                           \/ clean = 1 /\ K!Now - clock.candidate < ClockHz - K!Tolerance(clock)
        /\ clean = 3 => clock.accepted

ClockInv == ClockTyped /\ Anchored /\ Learned /\ Recovering

LEMMA Instants == \A a, b, d \in Nat : a * b + d \in Nat
  OBVIOUS

LEMMA ModWrap ==
    ASSUME NEW w \in Nat \ {0}, NEW a \in Int, NEW b \in Int, 0 <= b - a, b - a < w
    PROVE  ((b % w) - (a % w)) % w = b - a
<1>1. /\ Congruent(w, b, b % w) /\ b % w \in 0..(w - 1)
      /\ Congruent(w, a, a % w) /\ a % w \in 0..(w - 1)
  BY RestIsCongruent
<1>2. Congruent(w, b - a, (b % w) - (a % w))
  BY <1>1, CongruentMinus
<1>. (b % w) - (a % w) \in Int /\ b - a \in Int
  BY <1>1
<1>3. (b - a) % w = ((b % w) - (a % w)) % w
  BY <1>2, SameRest
<1>4. (b - a) % w = b - a
  BY QuotientIs, b - a = w * 0 + (b - a)
<1> QED BY <1>3, <1>4

\* Of two edges, a second apart or not.
LEMMA Tolerances ==
    ASSUME K!ClockAssumption, NEW c
    PROVE  /\ K!Tolerance(c) \in Nat /\ 2 * K!Tolerance(c) < ClockHz
           /\ c.calibrated => K!Tolerance(c) = ClockHz \div 800
<1>1. ClockHz \in Nat \ {0}
  BY DEF K!ClockAssumption
<1> QED BY <1>1 DEF K!Tolerance

LEMMA ApartOrTrue ==
    ASSUME K!ClockAssumption, NEW s \in Nat, NEW t \in Nat, NEW d \in Moments, NEW e \in Moments,
           EdgeAt(t, e) - EdgeAt(s, d) <= ClockHz + ClockHz \div 800,
           EdgeAt(t, e) - EdgeAt(s, d) >= ClockHz - ClockHz \div 800
    PROVE  EdgeAt(t, e) - EdgeAt(s, d) = ClockHz
<1>1. ClockHz \in Nat \ {0} /\ d \in 0..(ClockHz - 1) /\ e \in 0..(ClockHz - 1)
  BY DEF K!ClockAssumption, Moments
<1> DEFINE band == ClockHz \div 800
<1>2. band \in Nat /\ 2 * band < ClockHz
  BY <1>1
<1>3. \A x, y \in ExtraOffsets \cup {0, ClockHz} : x < y => y - x > band
  BY DEF K!ClockAssumption
<1>4. d \in ExtraOffsets \cup {0, ClockHz} /\ e \in ExtraOffsets \cup {0, ClockHz}
  BY DEF Moments
<1>5. d + band < ClockHz /\ e + band < ClockHz
  BY <1>1, <1>2, <1>3, <1>4
<1>6. EdgeAt(t, e) - EdgeAt(s, d) = (t - s) * ClockHz + (e - d)
  BY <1>1 DEF EdgeAt
<1> HIDE DEF band
<1>7. t - s = 1
  <2>1. CASE t - s <= 0
    <3>1. (t - s) * ClockHz <= 0
      BY <1>1, <2>1
    <3> QED BY <1>1, <1>2, <1>5, <1>6, <3>1 DEF band
  <2>2. CASE t - s >= 2
    <3>1. (t - s) * ClockHz >= 2 * ClockHz
      BY <1>1, <2>2
    <3> QED BY <1>1, <1>2, <1>5, <1>6, <3>1 DEF band
  <2> QED BY <2>1, <2>2
<1>8. (t - s) * ClockHz = ClockHz
  BY <1>1, <1>7
<1>9. e - d <= band /\ d - e <= band
  BY <1>1, <1>6, <1>8, <1>2 DEF band
<1>10. d = e
  BY <1>1, <1>3, <1>4, <1>9, <1>2
<1> QED BY <1>6, <1>8, <1>10, <1>1

\* What the clock makes of an edge at time t.
Gap(t)   == t - clock.candidate
Measured(t) == clock.candidate # K!None /\ Gap(t) < ClockWrap
Plausible(t)  == /\ Measured(t)
            /\ Gap(t) <= K!Reference(clock) + K!Tolerance(clock)
            /\ Gap(t) >= K!Reference(clock) - K!Tolerance(clock)
Moves(t) == ~Measured(t) \/ Plausible(t) \/ Gap(t) > K!Reference(clock) + K!Tolerance(clock)

LEMMA ObservedIs ==
    ASSUME K!ClockAssumption, clock \in Clocks, NEW t \in Nat, NEW locked \in BOOLEAN,
           clock.candidate = K!None \/ (clock.candidate \in Nat /\ clock.candidate < t),
           NEW o, o = K!Observed(clock, t, locked)
    PROVE  /\ o \in Clocks
           /\ o.accepted = (Plausible(t) /\ locked /\ clock.locked)
           /\ o.candidate = IF Moves(t) THEN t ELSE clock.candidate
           /\ o.locked = IF Moves(t) THEN locked ELSE clock.locked
           /\ o.calibrated = (clock.calibrated \/ o.accepted)
           /\ o.blended = IF o.accepted /\ ~clock.calibrated THEN Gap(t) ELSE clock.blended
<1>1. K!Reference(clock) \in Int /\ K!Tolerance(clock) \in Nat /\ ClockWrap \in Nat \ {0} /\ K!None = -1
  BY Tolerances DEF K!Reference, K!ClockAssumption, Clocks, K!None
<1>2. Measured(t) => /\ Gap(t) \in Nat /\ clock.candidate \in Nat
                  /\ ((t % ClockWrap) - (clock.candidate % ClockWrap)) % ClockWrap = Gap(t)
  <2> SUFFICES ASSUME Measured(t)
               PROVE  /\ Gap(t) \in Nat /\ clock.candidate \in Nat
                      /\ ((t % ClockWrap) - (clock.candidate % ClockWrap)) % ClockWrap = Gap(t)
    OBVIOUS
  <2> DEFINE c == clock.candidate
  <2>1. c \in Nat /\ c < t /\ t - c < ClockWrap /\ Gap(t) = t - c
    BY DEF Measured, Gap
  <2> HIDE DEF c
  <2>2. ((t % ClockWrap) - (c % ClockWrap)) % ClockWrap = t - c
    <3>1. c \in Int /\ t \in Int /\ 0 <= t - c /\ t - c < ClockWrap
      BY <2>1
    <3> QED BY ONLY <1>1, <3>1, ModWrap, Zenon
  <2> QED BY <2>1, <2>2 DEF c
<1> DEFINE anchor == K!Anchor(clock, t)
<1>3. anchor = IF Measured(t) THEN clock.candidate ELSE K!None
  BY <1>1 DEF K!Anchor, Measured, Gap, Clocks
<1> HIDE DEF anchor
<1> DEFINE ticks == IF anchor = K!None THEN 0 ELSE ((t % ClockWrap) - (anchor % ClockWrap)) % ClockWrap
<1>5. ticks = IF Measured(t) THEN Gap(t) ELSE 0
  BY <1>1, <1>2, <1>3
<1>10. ticks \in Int /\ anchor \in Int
  BY <1>1, <1>2, <1>3, <1>5
<1> DEFINE off == IF ticks > K!Reference(clock) THEN ticks - K!Reference(clock) ELSE K!Reference(clock) - ticks
<1> DEFINE plausible == anchor # K!None /\ off <= K!Tolerance(clock)
<1> DEFINE valid == plausible /\ locked /\ clock.locked
<1> DEFINE late == ticks > K!Reference(clock) + K!Tolerance(clock)
<1> DEFINE moves == anchor = K!None \/ plausible \/ late
<1>4. o = [candidate |-> IF moves THEN t ELSE anchor,
           locked |-> IF moves THEN locked ELSE clock.locked,
           calibrated |-> clock.calibrated \/ valid,
           blended |-> IF ~valid THEN clock.blended ELSE IF clock.calibrated THEN clock.blended ELSE ticks,
           seen |-> TRUE, accepted |-> valid]
  BY DEF K!Observed, anchor
<1> HIDE DEF ticks
<1>6. plausible = Plausible(t)
  <2>1. CASE Measured(t)
    <3>1. anchor = clock.candidate /\ anchor # K!None /\ ticks = Gap(t) /\ Gap(t) \in Nat
      BY <1>2, <1>3, <1>5, <2>1 DEF Measured
    <3> DEFINE r == K!Reference(clock)  tol == K!Tolerance(clock)
    <3>2. off = IF ticks > r THEN ticks - r ELSE r - ticks
      OBVIOUS
    <3>3. r \in Int /\ tol \in Nat /\ ticks \in Nat
      BY <1>1, <3>1
    <3> HIDE DEF off, r, tol
    <3>4. off <= tol <=> ticks <= r + tol /\ ticks >= r - tol
      BY <3>2, <3>3
    <3> QED BY <2>1, <3>1, <3>4 DEF Plausible, r, tol
  <2>2. CASE ~Measured(t)
    BY <1>3, <2>2 DEF Plausible
  <2> QED BY <2>1, <2>2
<1> HIDE DEF plausible, off
<1>7. moves = Moves(t)
  BY <1>1, <1>2, <1>3, <1>5, <1>6 DEF Moves, Measured
<1>8. valid = (Plausible(t) /\ locked /\ clock.locked)
  BY <1>6
<1> HIDE DEF valid, moves, late
<1>9. /\ ~Moves(t) => anchor = clock.candidate
      /\ valid => ticks = Gap(t)
  BY <1>3, <1>5, <1>8 DEF Moves, Plausible
<1>11. valid \in BOOLEAN /\ moves \in BOOLEAN
  BY <1>7, <1>8 DEF Plausible, Moves, Measured
<1>12. o \in Clocks
  BY <1>4, <1>10, <1>11 DEF Clocks
<1>13. /\ o.accepted = valid /\ o.calibrated = (clock.calibrated \/ valid)
       /\ o.candidate = IF moves THEN t ELSE anchor
       /\ o.locked = IF moves THEN locked ELSE clock.locked
       /\ o.blended = IF ~valid THEN clock.blended ELSE IF clock.calibrated THEN clock.blended ELSE ticks
  BY <1>4
<1>14. o.candidate = IF Moves(t) THEN t ELSE clock.candidate
  BY <1>7, <1>9, <1>13
<1>15. o.blended = IF o.accepted /\ ~clock.calibrated THEN Gap(t) ELSE clock.blended
  BY <1>9, <1>13
<1> QED BY <1>7, <1>8, <1>12, <1>13, <1>14, <1>15


\* A row whose edge is after everything so far, from a pulse or not.
LEMMA RowKeeps ==
    ASSUME K!ClockAssumption, ClockInv,
           NEW locked \in BOOLEAN, NEW isTrue \in BOOLEAN,
           second' \in {second, second + 1}, sub' \in Moments, K!Now < K!Now',
           K!Row(K!Now', locked, isTrue),
           isTrue => locked /\ second' = second + 1 /\ sub' = 0
    PROVE  ClockInv'
<1> DEFINE t == K!Now'
<1> DEFINE off == K!Tolerance(clock)
<1>1. /\ ClockHz \in Nat \ {0} /\ Moments \subseteq 0..(ClockHz - 1) /\ ClockWrap \in Nat /\ ClockWrap > 2 * ClockHz
      /\ K!None = -1
      /\ second \in Nat /\ second' \in Nat /\ sub \in Nat /\ sub' \in Nat /\ clock \in Clocks
      /\ clean \in 0..3 /\ genuine \in BOOLEAN /\ real \in Int
  BY DEF K!ClockAssumption, K!None, Moments, ClockInv, ClockTyped
<1>2. K!Now = EdgeAt(second, sub) /\ t = EdgeAt(second', sub') /\ K!Now \in Nat /\ t \in Nat
  <2>1. second \in Nat /\ second' \in Nat /\ ClockHz \in Nat /\ sub \in Nat /\ sub' \in Nat
    BY <1>1
  <2>2. second * ClockHz + sub \in Nat /\ second' * ClockHz + sub' \in Nat
    BY <2>1, Instants, Zenon
  <2> QED BY <2>2 DEF K!Now, EdgeAt
<1>3. clock.candidate # K!None =>
          \E s \in 0..second, d \in Moments : clock.candidate = EdgeAt(s, d) /\ clock.candidate <= K!Now
  BY DEF ClockInv, Anchored, IsEdge
<1>4. clock.candidate = K!None \/ (clock.candidate \in Nat /\ clock.candidate < t)
  <2> SUFFICES ASSUME clock.candidate # K!None
               PROVE  clock.candidate \in Nat /\ clock.candidate < t
    OBVIOUS
  <2>1. PICK s \in 0..second, d \in Moments : clock.candidate = EdgeAt(s, d) /\ clock.candidate <= K!Now
    BY <1>3
  <2>2. s \in Nat /\ d \in Nat /\ ClockHz \in Nat
    BY <1>1
  <2>3. EdgeAt(s, d) \in Nat
    BY ONLY <2>2 DEF EdgeAt
  <2> QED BY <1>2, <2>1, <2>3
<1>5. /\ clock' = K!Observed(clock, t, locked)
      /\ genuine' = IF clock'.accepted /\ ~clock.calibrated THEN Gap(t) = ClockHz ELSE genuine
      /\ real' = IF clock'.accepted THEN Gap(t) ELSE real
      /\ clean' = IF isTrue THEN (IF clean < 3 THEN clean + 1 ELSE 3) ELSE 0
  BY DEF K!Row, Gap
<1> HIDE DEF t
<1>6. /\ clock' \in Clocks
      /\ clock'.accepted = (Plausible(t) /\ locked /\ clock.locked)
      /\ clock'.candidate = IF Moves(t) THEN t ELSE clock.candidate
      /\ clock'.locked = IF Moves(t) THEN locked ELSE clock.locked
      /\ clock'.calibrated = (clock.calibrated \/ clock'.accepted)
      /\ clock'.blended = IF clock'.accepted /\ ~clock.calibrated THEN Gap(t) ELSE clock.blended
  BY <1>1, <1>2, <1>4, <1>5, ObservedIs
<1>7. Gap(t) \in Int /\ K!Reference(clock) \in Int /\ off \in Nat /\ 2 * off < ClockHz
  BY <1>1, <1>2, Tolerances DEF Gap, K!Reference, Clocks
<1>8. ClockTyped'
  <2>1. clean' \in 0..3
    BY <1>1, <1>5
  <2>2. genuine' \in BOOLEAN /\ real' \in Int
    BY <1>1, <1>5, <1>7
  <2> QED BY <1>1, <1>6, <2>1, <2>2 DEF ClockTyped
<1>9. Anchored'
  <2>1. CASE Moves(t)
    <3>1. clock'.candidate = EdgeAt(second', sub') /\ sub' \in Moments /\ second' \in 0..second'
      BY <1>1, <1>2, <1>6, <2>1
    <3>2. \E s \in 0..second', d \in Moments : clock'.candidate = EdgeAt(s, d)
      BY <3>1
    <3> QED BY <1>2, <1>6, <2>1, <3>2 DEF Anchored, IsEdge, t
  <2>2. CASE ~Moves(t)
    <3>1. clock.candidate # K!None /\ clock'.candidate = clock.candidate
      BY <1>6, <2>2 DEF Moves, Measured
    <3>2. PICK s \in 0..second, d \in Moments : clock.candidate = EdgeAt(s, d) /\ clock.candidate <= K!Now
      BY <1>3, <3>1
    <3>3. s \in 0..second'
      BY <1>1
    <3>4. clock.candidate <= t
      BY <1>2, <3>2, <1>4, <3>1
    <3>5. \E z \in 0..second', e \in Moments : clock'.candidate = EdgeAt(z, e)
      BY <3>1, <3>2, <3>3
    <3> QED BY <3>1, <3>4, <3>5 DEF Anchored, IsEdge, t
  <2> QED BY <2>1, <2>2
<1>10. clock'.accepted /\ clock.calibrated /\ genuine => Gap(t) = ClockHz
  <2> SUFFICES ASSUME clock'.accepted, clock.calibrated, genuine
               PROVE  Gap(t) = ClockHz
    OBVIOUS
  <2>1. Plausible(t) /\ clock.candidate # K!None
    BY <1>6 DEF Plausible, Measured
  <2>2. K!Reference(clock) = ClockHz /\ off = ClockHz \div 800
    BY Tolerances DEF ClockInv, Learned
  <2>3. PICK s \in 0..second, d \in Moments : clock.candidate = EdgeAt(s, d)
    BY <1>3, <2>1
  <2>4. Gap(t) = EdgeAt(second', sub') - EdgeAt(s, d)
    BY <1>2, <2>3 DEF Gap
  <2>5. Gap(t) <= ClockHz + ClockHz \div 800 /\ Gap(t) >= ClockHz - ClockHz \div 800
    BY <2>1, <2>2 DEF Plausible
  <2> QED BY <1>1, <2>4, <2>5, ApartOrTrue
<1>11. Learned'
  <2>1. ~clock'.calibrated => clock'.blended = 0
    BY <1>1, <1>6 DEF ClockInv, Learned
  <2>2. genuine' => real' = ClockHz /\ K!Reference(clock') = ClockHz
    <3>1. CASE clock'.accepted /\ ~clock.calibrated
      BY <1>1, <1>5, <1>6, <3>1 DEF K!Reference
    <3>2. CASE clock'.accepted /\ clock.calibrated
      <4> SUFFICES ASSUME genuine'
                   PROVE  real' = ClockHz /\ K!Reference(clock') = ClockHz
        OBVIOUS
      <4>1. genuine /\ clock'.blended = clock.blended /\ real' = Gap(t)
        BY <1>5, <1>6, <3>2
      <4> QED BY <1>10, <3>2, <4>1 DEF ClockInv, Learned, K!Reference
    <3>3. CASE ~clock'.accepted
      BY <1>5, <1>6, <3>3 DEF ClockInv, Learned, K!Reference
    <3> QED BY <1>6, <3>1, <3>2, <3>3
  <2> QED BY <2>1, <2>2 DEF Learned, K!Reference
<1>12. isTrue => K!Reference(clock) = ClockHz \/ ~genuine
  BY DEF ClockInv, Learned
<1>13. Recovering'
  <2> SUFFICES ASSUME genuine', isTrue
               PROVE  /\ sub' = 0 /\ clock'.candidate # K!None
                      /\ \/ clock'.candidate = t /\ clock'.locked
                         \/ clean' = 1 /\ t - clock'.candidate < ClockHz - K!Tolerance(clock')
                      /\ clean' = 3 => clock'.accepted
    <3>1. clean' \in 0..3 /\ (~isTrue => clean' = 0)
      BY <1>5, <1>8 DEF ClockTyped
    <3> QED BY <3>1 DEF Recovering, t
  <2>1. Moves(t) => clock'.candidate = t /\ clock'.locked /\ t # K!None
    BY <1>1, <1>2, <1>6
  <2>2. CASE clock'.accepted
    BY <1>6, <2>1, <2>2 DEF Moves
  <2>3. CASE ~clock'.accepted
    <3>1. genuine /\ K!Reference(clock) = ClockHz
      BY <1>5, <1>12, <2>3
    <3>2. K!Tolerance(clock') = off
      BY <1>6, <2>3 DEF K!Tolerance
    <3>3. CASE clean = 0
      <4>1. clean' = 1
        BY <1>5, <3>3
      <4>2. CASE ~Moves(t)
        <5>1. clock'.candidate = clock.candidate /\ clock.candidate # K!None
          BY <1>6, <4>2 DEF Moves, Measured
        <5>2. Gap(t) < ClockHz - off
          BY <1>1, <1>7, <3>1, <4>2 DEF Moves, Plausible
        <5> QED BY <3>2, <4>1, <5>1, <5>2 DEF Gap
      <4> QED BY <2>1, <4>1, <4>2
    <3>4. CASE clean > 0
      <4>1. /\ sub = 0 /\ clock.candidate # K!None
            /\ \/ clock.candidate = K!Now /\ clock.locked
               \/ clean = 1 /\ K!Now - clock.candidate < ClockHz - off
        BY <3>1, <3>4 DEF ClockInv, Recovering
      <4>2. t = K!Now + ClockHz
        <5>1. (second + 1) * ClockHz = second * ClockHz + ClockHz
          BY <1>1
        <5> QED BY <1>1, <1>2, <4>1, <5>1 DEF EdgeAt
      <4>3. CASE clock.candidate = K!Now /\ clock.locked
        <5>1. Gap(t) = ClockHz
          BY <1>1, <1>2, <4>2, <4>3 DEF Gap
        <5>2. Plausible(t)
          <6>1. Gap(t) < ClockWrap /\ clock.candidate # K!None /\ off \in Nat /\ K!Reference(clock) = ClockHz
                /\ Gap(t) \in Int /\ ClockHz \in Nat
            BY <1>1, <1>7, <3>1, <4>1, <5>1
          <6>2. Gap(t) <= K!Reference(clock) + off /\ Gap(t) >= K!Reference(clock) - off
            BY ONLY <6>1, <5>1
          <6> QED BY <6>1, <6>2 DEF Plausible, Measured
        <5> QED BY <1>6, <2>3, <4>3, <5>2
      <4>4. CASE clean = 1 /\ K!Now - clock.candidate < ClockHz - off
        <5>1. /\ clock.candidate \in Nat /\ clock.candidate <= K!Now
          BY <1>3, <1>4, <4>1
        <5>2. Gap(t) >= ClockHz /\ Gap(t) < ClockWrap
          <6>1. clock.candidate \in Nat /\ K!Now \in Nat /\ ClockHz \in Nat /\ off \in Nat /\ ClockWrap \in Int
                /\ 2 * ClockHz < ClockWrap
            BY <1>1, <1>2, <1>7, <5>1 DEF K!ClockAssumption
          <6>2. Gap(t) = t - clock.candidate
            BY DEF Gap
          <6> HIDE DEF off
          <6> QED BY ONLY <6>1, <6>2, <4>2, <4>4, <5>1
        <5>3. Moves(t)
          BY <1>1, <1>7, <3>1, <4>1, <5>2 DEF Moves, Plausible, Measured
        <5>4. clean' = 2
          BY <1>5, <4>4
        <5> QED BY <2>1, <5>3, <5>4
      <4> QED BY <4>1, <4>3, <4>4
    <3> QED BY <1>1, <3>3, <3>4
  <2> QED BY <2>2, <2>3, <1>6
<1> QED BY <1>8, <1>9, <1>11, <1>13 DEF ClockInv

LEMMA ClockStarts == ASSUME K!ClockAssumption, K!Init PROVE ClockInv
  BY DEF K!ClockAssumption, K!Init, K!Initial, K!None, K!Reference, ClockInv, ClockTyped, Clocks, Anchored, Learned,
         Recovering, Moments

LEMMA ClockStepKeeps ==
    ASSUME K!ClockAssumption, ClockInv, [K!Next]_K!ckvars
    PROVE  ClockInv'
<1>1. /\ ClockHz \in Nat \ {0} /\ Moments \subseteq 0..(ClockHz - 1) /\ K!None = -1
      /\ second \in Nat /\ sub \in Nat /\ sub < ClockHz /\ clock \in Clocks
      /\ clean \in 0..3 /\ genuine \in BOOLEAN /\ real \in Int
  BY DEF K!ClockAssumption, K!None, Moments, ClockInv, ClockTyped
<1>2. second * ClockHz \in Nat /\ (second + 1) * ClockHz = second * ClockHz + ClockHz
  BY <1>1
<1>3. ASSUME NEW locked \in BOOLEAN, K!Pulse(locked) PROVE ClockInv'
  <2>1. second' = second + 1 /\ sub' = 0 /\ K!Now' = second' * ClockHz /\ sub' \in Moments
    BY <1>1, <1>2, <1>3 DEF K!Pulse, K!Now, Moments
  <2>2. K!Now < K!Now'
    BY <1>1, <1>2, <2>1 DEF K!Now
  <2>3. K!Row(K!Now', locked, locked)
    BY <1>3, <2>1 DEF K!Pulse
  <2> QED BY <2>1, <2>2, <2>3, RowKeeps
<1>4. ASSUME NEW d \in ExtraOffsets, NEW locked \in BOOLEAN, K!Extra(d, locked) PROVE ClockInv'
  <2>1. second' = second /\ sub' = d /\ K!Now' = second * ClockHz + d /\ sub' \in Moments /\ d > sub /\ d \in Nat
    BY <1>1, <1>4 DEF K!Extra, K!Now, Moments
  <2>2. K!Now < K!Now'
    BY <1>1, <1>2, <2>1 DEF K!Now
  <2>3. K!Row(K!Now', locked, FALSE)
    BY <1>4, <2>1 DEF K!Extra
  <2> QED BY <2>1, <2>2, <2>3, RowKeeps
<1>5. ASSUME second' = second + 1, sub' = 0 PROVE K!Now' = EdgeAt(second', 0) /\ 0 \in Moments /\ second' \in Nat /\ K!Now' \in Nat /\ K!Now < K!Now'
  BY <1>1, <1>2, <1>5 DEF EdgeAt, K!Now, Moments
<1>6. CASE K!Missing
  <2>1. second' = second + 1 /\ sub' = 0 /\ clean' = 0 /\ UNCHANGED <<clock, genuine, real>>
    BY <1>6 DEF K!Missing
  <2>2. Anchored'
    <3>1. \A s \in 0..second : s \in 0..second'
      BY <1>1, <2>1
    <3>2. IsEdge(clock.candidate) => IsEdge(clock.candidate)'
      BY <2>1, <3>1 DEF IsEdge
    <3>3. K!Now \in Nat
      BY <1>1, <1>2 DEF K!Now
    <3>4. clock.candidate \in Int
      BY <1>1 DEF Clocks
    <3>5. clock.candidate <= K!Now => clock.candidate <= K!Now'
      BY <1>5, <2>1, <3>3, <3>4
    <3> QED BY <2>1, <3>2, <3>5 DEF ClockInv, Anchored
  <2> QED BY <1>1, <1>5, <2>1, <2>2 DEF ClockInv, ClockTyped, Learned, Recovering, K!Reference
<1>7. CASE K!Restarted
  <2>1. second' = second + 1 /\ sub' = 0 /\ clean' = 1 /\ genuine' = TRUE /\ real' = ClockHz
    BY <1>7 DEF K!Restarted
  <2>2. clock' = K!Observed(K!Initial, K!Now', TRUE)
    BY <1>1, <1>2, <2>1, <1>7 DEF K!Restarted, K!Now
  <2>3. clock' = [candidate |-> K!Now', locked |-> TRUE, calibrated |-> FALSE, blended |-> 0, seen |-> TRUE,
                  accepted |-> FALSE]
    BY <2>2 DEF K!Observed, K!Anchor, K!Initial
  <2>4. second' \in 0..second'
    BY <1>5, <2>1
  <2>5. Anchored'
    BY <1>5, <2>1, <2>3, <2>4 DEF Anchored, IsEdge
  <2>6. K!Now' # K!None /\ K!Now' \in Int
    BY <1>1, <1>5, <2>1
  <2>7. ClockTyped'
    BY <1>1, <1>5, <2>1, <2>3, <2>6 DEF ClockTyped, Clocks
  <2>8. Learned' /\ Recovering'
    BY <1>1, <2>1, <2>3, <2>6 DEF Learned, Recovering, K!Reference
  <2> QED BY <2>5, <2>7, <2>8 DEF ClockInv
<1>8. CASE UNCHANGED K!ckvars
  BY <1>8 DEF K!ckvars, ClockInv, ClockTyped, Anchored, IsEdge, Learned, Recovering, K!Reference, K!Tolerance, K!Now
<1> QED BY <1>3, <1>4, <1>6, <1>7, <1>8 DEF K!Next, K!Duplicate

\* DisplayClock's AcceptedIsOneSecond and ClockRecovers.
LEMMA ClockIsSound == ClockInv => K!AcceptedIsOneSecond /\ K!ClockRecovers
  BY DEF ClockInv, ClockTyped, Learned, Recovering, K!AcceptedIsOneSecond, K!ClockRecovers
-----------------------------------------------------------------------------
(***************************************************************************)
(* The publisher: what is public was authorised, whichever invocations     *)
(* overlap and wherever one of them is killed.                             *)
(*                                                                         *)
(* From the check of the receipt on, a publication carries a key of which  *)
(* the server has taken a validation (Vouched): entries are never taken    *)
(* back, so losing the receipt meanwhile does not matter.  Between its     *)
(* first and its last access to what others may change, an invocation      *)
(* holds the lock.                                                         *)
(***************************************************************************)
CONSTANTS Invocations, Keys, PublisherSessions, MaxStarts, MaxChanges

VARIABLES session, files, config, receipt, last, holder, invs, starts, entries

U == INSTANCE Publisher WITH None <- Absent, MaxSessions <- PublisherSessions

\* The places of the program, and those at which the lock is held.
Modes   == {"publish", "validate", "ready", "dry"}
Assembling == {"status", "result", "build"}
Holding  == Assembling \cup {"unlink", "post", "receipt", "prior", "record"}
Places  == Holding \cup {"check", "lock", "failed", "note", "invalidate"}

Entry   == [kind : {"publish", "validate"}, key : Keys]
Begins   == [pc : Places, mode : Modes, key : Keys, status : Nat, result : Nat, entry : Nat, prior : Nat,
            rejected : BOOLEAN]

PublisherTyped ==
    /\ session \in Nat /\ files \in [status : Nat, result : Nat]
    /\ config \in [on : BOOLEAN, key : Keys, changes : Nat]
    /\ receipt \in Keys \cup {Absent} /\ last \in Nat /\ holder \in Invocations \cup {Absent}
    /\ invs \in [Invocations -> Begins \cup {U!Idle}] /\ entries \in Seq(Entry)

Vouched(k)   == \E n \in 1..Len(entries) : entries[n].kind = "validate" /\ entries[n].key = k
Published(n) == n = 0 \/ (n \in 1..Len(entries) /\ entries[n].kind = "publish")

\* What is known of an invocation by the place it has reached.
Known(v) ==
    /\ v.pc = "unlink" => v.mode = "validate"
    /\ v.pc = "lock" => v.mode # "ready"
    /\ v.pc \in Assembling => v.mode \in {"publish", "dry"}
    /\ v.pc = "post" => \/ v.mode = "publish" /\ v.status = v.result
                        \/ v.mode = "validate" /\ receipt = Absent
    /\ v.pc \in Assembling \cup {"lock", "post"} /\ v.mode = "publish" => Vouched(v.key)
    /\ v.pc = "receipt" => Vouched(v.key)
    /\ v.pc # "receipt" => Published(v.entry)
    /\ v.pc \in {"unlink", "lock", "check", "post"} \cup Assembling => v.entry = 0
    /\ Published(v.prior)

InvocationSafe(i) ==
    invs[i] # U!Idle => Known(invs[i]) /\ (invs[i].pc \in Holding => holder = i)

Authorised ==
    /\ \A n \in 1..Len(entries) : entries[n].kind = "publish" =>
           \E m \in 1..n - 1 : entries[m].kind = "validate" /\ entries[m].key = entries[n].key
    /\ Published(last)
    /\ receipt # Absent => Vouched(receipt)

PublisherInv == PublisherTyped /\ Authorised /\ \A i \in Invocations : InvocationSafe(i)

\* What the others see of a step: entries are added, the lock is taken when it is free or given
\* back by its holder, and only the holder writes a receipt.
Alongside(i) ==
    /\ \/ entries' = entries
       \/ \E e \in Entry : entries' = Append(entries, e)
    /\ holder' = holder \/ (holder = i /\ holder' = Absent) \/ (holder = Absent /\ holder' = i)
    /\ receipt' \in {receipt, Absent} \/ holder = i

LEMMA Appending ==
    ASSUME entries \in Seq(Entry), NEW e \in Entry, entries' = Append(entries, e)
    PROVE  /\ entries' \in Seq(Entry) /\ Len(entries') = Len(entries) + 1 /\ entries'[Len(entries) + 1] = e
           /\ \A n \in 1..Len(entries) : entries'[n] = entries[n]
           /\ Len(entries) \in Nat
  OBVIOUS

LEMMA EntriesStay ==
    ASSUME entries \in Seq(Entry), entries' = entries \/ \E e \in Entry : entries' = Append(entries, e)
    PROVE  /\ entries' \in Seq(Entry)
           /\ \A k : Vouched(k) => Vouched(k)'
           /\ \A n : Published(n) => Published(n)'
<1>1. CASE entries' = entries
  BY <1>1 DEF Vouched, Published
<1>2. CASE \E e \in Entry : entries' = Append(entries, e)
  <2>1. PICK e \in Entry : entries' = Append(entries, e)
    BY <1>2
  <2>2. /\ entries' \in Seq(Entry) /\ Len(entries') = Len(entries) + 1 /\ Len(entries) \in Nat
        /\ \A n \in 1..Len(entries) : entries'[n] = entries[n]
    BY <2>1, Appending
  <2>3. 1..Len(entries) \subseteq 1..Len(entries')
    BY <2>2
  <2>4. ASSUME NEW k, Vouched(k) PROVE Vouched(k)'
    <3>1. PICK n \in 1..Len(entries) : entries[n].kind = "validate" /\ entries[n].key = k
      BY <2>4 DEF Vouched
    <3> QED BY <2>2, <2>3, <3>1 DEF Vouched
  <2>5. ASSUME NEW n, Published(n) PROVE Published(n)'
    BY <2>2, <2>3, <2>5 DEF Published
  <2> QED BY <2>2, <2>4, <2>5
<1> QED BY <1>1, <1>2

LEMMA OthersStaySafe ==
    ASSUME U!PublisherAssumption, PublisherInv, NEW i \in Invocations, Alongside(i),
           NEW j \in Invocations, j # i, invs'[j] = invs[j]
    PROVE  InvocationSafe(j)'
<1> SUFFICES ASSUME invs[j] # U!Idle
             PROVE  Known(invs[j])' /\ (invs[j].pc \in Holding => holder' = j)
  BY DEF InvocationSafe
<1>1. Known(invs[j]) /\ (invs[j].pc \in Holding => holder = j)
  BY DEF PublisherInv, InvocationSafe
<1>2. (\A k : Vouched(k) => Vouched(k)') /\ (\A n : Published(n) => Published(n)')
  BY EntriesStay DEF PublisherInv, PublisherTyped, Alongside
<1>3. Absent \notin Invocations
  BY DEF U!PublisherAssumption
<1>4. invs[j].pc \in Holding => holder' = j /\ receipt' \in {receipt, Absent}
  BY <1>1, <1>3 DEF Alongside
<1>5. invs[j].pc = "post" => invs[j].pc \in Holding
  BY DEF Holding
<1>6. Known(invs[j])'
  BY <1>1, <1>2, <1>4, <1>5 DEF Known
<1> QED BY <1>4, <1>6

\* A step of one invocation: what it must show of itself.
LEMMA InvocationSteps ==
    ASSUME U!PublisherAssumption, PublisherInv, NEW i \in Invocations, Alongside(i),
           NEW v \in Begins \cup {U!Idle}, invs' = [invs EXCEPT ![i] = v],
           UNCHANGED <<session, files, config>>,
           receipt' \in Keys \cup {Absent}, last' \in Nat, holder' \in Invocations \cup {Absent},
           Authorised',
           v # U!Idle => Known(v)' /\ (v.pc \in Holding => holder' = i)
    PROVE  PublisherInv'
<1>1. invs' \in [Invocations -> Begins \cup {U!Idle}] /\ invs'[i] = v
      /\ \A j \in Invocations \ {i} : invs'[j] = invs[j]
  BY DEF PublisherInv, PublisherTyped
<1>2. PublisherTyped'
  BY <1>1, EntriesStay DEF PublisherInv, PublisherTyped, Alongside
<1>3. InvocationSafe(i)'
  BY <1>1 DEF InvocationSafe, Known, Vouched, Published
<1>4. ASSUME NEW j \in Invocations, j # i PROVE InvocationSafe(j)'
  BY <1>1, <1>4, OthersStaySafe
<1> QED BY <1>2, <1>3, <1>4 DEF PublisherInv

LEMMA SameEntries ==
    ASSUME PublisherInv, UNCHANGED entries, receipt' \in {receipt, Absent}, Published(last')
    PROVE  Authorised'
  BY DEF PublisherInv, Authorised, Vouched, Published

LEMMA Here ==
    ASSUME PublisherInv, NEW i \in Invocations, NEW at, U!At(i, at), at # "idle"
    PROVE  /\ invs[i] \in Begins /\ invs[i].pc = at /\ invs[i] # U!Idle
           /\ Known(invs[i]) /\ (at \in Holding => holder = i)
<1>1. invs[i].pc = at /\ invs[i] # U!Idle
  BY DEF U!At, U!Idle
<1>2. invs[i] \in Begins /\ Known(invs[i]) /\ (invs[i].pc \in Holding => holder = i)
  BY <1>1 DEF PublisherInv, PublisherTyped, InvocationSafe
<1> QED BY <1>1, <1>2

\* A step that adds no entry and writes no receipt.
LEMMA QuietSteps ==
    ASSUME U!PublisherAssumption, PublisherInv, NEW i \in Invocations,
           NEW v \in Begins \cup {U!Idle}, U!Set(i, v),
           UNCHANGED <<session, files, config, entries>>,
           receipt' \in {receipt, Absent}, last' \in Nat, Published(last'),
           holder' = holder \/ (holder = i /\ holder' = Absent) \/ (holder = Absent /\ holder' = i),
           v # U!Idle => Known(v) /\ (v.pc \in Holding => holder' = i)
    PROVE  PublisherInv'
<1>1. Alongside(i)
  BY DEF Alongside
<1>2. receipt' \in Keys \cup {Absent} /\ holder' \in Invocations \cup {Absent}
  BY DEF PublisherInv, PublisherTyped
<1>3. Authorised'
  BY SameEntries
<1>4. v # U!Idle => Known(v)'
  BY DEF Known, Vouched, Published
<1> QED BY <1>1, <1>2, <1>3, <1>4, InvocationSteps DEF U!Set

LEMMA StartKeeps ==
    ASSUME U!PublisherAssumption, PublisherInv, NEW i \in Invocations, NEW mode \in Modes, U!Start(i, mode)
    PROVE  PublisherInv'
<1>1. /\ UNCHANGED <<session, files, config, receipt, last, holder, entries>>
      /\ last \in Nat /\ Published(last) /\ config.key \in Keys
  BY DEF U!Start, U!world, PublisherInv, PublisherTyped, Authorised
<1> DEFINE b == U!Begun(mode, config.key)  f == [b EXCEPT !.pc = "failed"]
<1>2. CASE UNCHANGED invs
  <2>1. PublisherTyped'
    BY <1>1, <1>2 DEF PublisherInv, PublisherTyped
  <2>2. Authorised'
    BY <1>1 DEF PublisherInv, Authorised, Vouched, Published
  <2>3. \A j \in Invocations : InvocationSafe(j)'
    BY <1>1, <1>2 DEF PublisherInv, InvocationSafe, Known, Vouched, Published
  <2> QED BY <2>1, <2>2, <2>3 DEF PublisherInv
<1>3. CASE U!Set(i, b)
  <2>1. b \in Begins /\ b.pc \notin Holding /\ Known(b)
    BY <1>1 DEF U!Begun, Begins, Places, Holding, Assembling, Modes, Known, Published
  <2> HIDE DEF b
  <2> QED BY <1>1, <1>3, <2>1, QuietSteps
<1>4. CASE U!Set(i, f)
  <2>1. f \in Begins /\ f.pc \notin Holding /\ Known(f)
    BY <1>1 DEF U!Begun, Begins, Places, Holding, Assembling, Modes, Known, Published
  <2> HIDE DEF f
  <2> QED BY <1>1, <1>4, <2>1, QuietSteps
<1> QED BY <1>2, <1>3, <1>4 DEF U!Start

LEMMA CheckKeeps ==
    ASSUME U!PublisherAssumption, PublisherInv, NEW i \in Invocations, U!Check(i)
    PROVE  PublisherInv'
<1> DEFINE g == [invs[i] EXCEPT !.pc = "lock"]
<1>1. /\ UNCHANGED <<session, files, config, receipt, last, holder, entries>>
      /\ last \in Nat /\ Published(last) /\ invs[i] \in Begins /\ invs[i].pc = "check" /\ Known(invs[i])
  BY Here DEF U!Check, U!world, PublisherInv, PublisherTyped, Authorised
<1>2. CASE U!Set(i, U!Idle)
  BY <1>1, <1>2, QuietSteps
<1>3. CASE U!Set(i, g) /\ receipt = invs[i].key /\ invs[i].mode = "publish"
  <2>1. Vouched(invs[i].key)
    BY <1>1, <1>3 DEF PublisherInv, Authorised, Begins, U!PublisherAssumption
  <2>2. g \in Begins /\ g.pc \notin Holding /\ Known(g)
    BY <1>1, <1>3, <2>1 DEF Begins, Places, Holding, Assembling, Known, Published
  <2> HIDE DEF g
  <2> QED BY <1>1, <1>3, <2>2, QuietSteps
<1> QED BY <1>2, <1>3 DEF U!Check, U!Exit, U!Goto, U!Validated

LEMMA LockKeeps ==
    ASSUME U!PublisherAssumption, PublisherInv, NEW i \in Invocations, U!Lock(i)
    PROVE  PublisherInv'
<1> DEFINE g == [invs[i] EXCEPT !.pc = IF invs[i].mode = "validate" THEN "unlink" ELSE "status"]
<1>1. /\ UNCHANGED <<session, files, config, receipt, last, entries>>
      /\ last \in Nat /\ Published(last) /\ invs[i] \in Begins /\ invs[i].pc = "lock" /\ Known(invs[i])
  BY Here DEF U!Lock, U!world, PublisherInv, PublisherTyped, Authorised
<1>2. CASE U!Set(i, U!Idle) /\ UNCHANGED holder
  BY <1>1, <1>2, QuietSteps
<1>3. CASE U!Set(i, g) /\ holder = Absent /\ holder' = i
  <2>1. g \in Begins /\ Known(g)
    BY <1>1, <1>3 DEF Begins, Places, Modes, Holding, Assembling, Known, Published
  <2> HIDE DEF g
  <2> QED BY <1>1, <1>3, <2>1, QuietSteps
<1> QED BY <1>2, <1>3 DEF U!Lock, U!Exit, U!Goto

LEMMA UnlinkKeeps ==
    ASSUME U!PublisherAssumption, PublisherInv, NEW i \in Invocations, U!Unlink(i)
    PROVE  PublisherInv'
<1>1. /\ UNCHANGED <<session, files, config, last, holder, entries>> /\ receipt' = Absent /\ holder = i
      /\ last \in Nat /\ Published(last) /\ invs[i] \in Begins /\ invs[i].pc = "unlink" /\ Known(invs[i])
  BY Here DEF U!Unlink, U!world, PublisherInv, PublisherTyped, Authorised, Holding
<1>. PICK g : g = [invs[i] EXCEPT !.pc = "post"]
  OBVIOUS
<1>2. g \in Begins /\ g.mode = "validate" /\ g.pc = "post" /\ g.entry = 0 /\ g.prior = invs[i].prior
  BY <1>1 DEF Begins, Places, Holding, Known
<1>3. Alongside(i) /\ holder' = i
  BY <1>1 DEF Alongside
<1>4. Authorised'
  BY <1>1, SameEntries
<1>5. Known(g)'
  BY <1>1, <1>2 DEF Known, Published, Assembling
<1>6. invs' = [invs EXCEPT ![i] = g]
  BY DEF U!Unlink, U!Goto, U!Set
<1>7. receipt' \in Keys \cup {Absent} /\ last' \in Nat /\ holder' \in Invocations \cup {Absent}
  BY <1>1
<1> QED BY <1>1, <1>2, <1>3, <1>4, <1>5, <1>6, <1>7, InvocationSteps

LEMMA ReadKeeps ==
    ASSUME U!PublisherAssumption, PublisherInv, NEW i \in Invocations,
           U!ReadStatus(i) \/ U!ReadResult(i) \/ U!Build(i)
    PROVE  PublisherInv'
<1>1. /\ UNCHANGED <<session, files, config, receipt, last, entries>> /\ holder = i
      /\ last \in Nat /\ Published(last) /\ invs[i] \in Begins /\ Known(invs[i]) /\ invs[i].pc \in Assembling
      /\ files.status \in Nat /\ files.result \in Nat
  BY Here DEF U!ReadStatus, U!ReadResult, U!Build, U!world, PublisherInv, PublisherTyped, Authorised, Assembling, Holding
<1>2. CASE U!ReadStatus(i)
  <2> DEFINE g == [invs[i] EXCEPT !.pc = "result", !.status = files.status]
  <2>1. g \in Begins /\ Known(g) /\ U!Set(i, g) /\ UNCHANGED holder
    BY <1>1, <1>2 DEF U!ReadStatus, U!world, Begins, Places, Holding, Assembling, Known, Published
  <2> HIDE DEF g
  <2> QED BY <1>1, <2>1, QuietSteps
<1>3. CASE U!ReadResult(i)
  <2> DEFINE g == [invs[i] EXCEPT !.pc = "build", !.result = files.result]
  <2>1. g \in Begins /\ Known(g) /\ U!Set(i, g) /\ UNCHANGED holder
    BY <1>1, <1>3 DEF U!ReadResult, U!world, Begins, Places, Holding, Assembling, Known, Published
  <2> HIDE DEF g
  <2> QED BY <1>1, <2>1, QuietSteps
<1>4. CASE U!Build(i)
  <2>1. PICK ok \in U!Eligible(invs[i].status, invs[i].result) :
            IF invs[i].mode = "dry" THEN U!Exit(i) /\ U!Unlock(i)
            ELSE U!Goto(i, IF ok THEN "post" ELSE "prior") /\ UNCHANGED holder
    BY <1>4 DEF U!Build
  <2>2. CASE invs[i].mode = "dry"
    BY <1>1, <2>1, <2>2, QuietSteps DEF U!Exit, U!Unlock
  <2>3. CASE invs[i].mode # "dry"
    <3> DEFINE g == [invs[i] EXCEPT !.pc = IF ok THEN "post" ELSE "prior"]
    <3>1. ok \in BOOLEAN /\ (ok => invs[i].status = invs[i].result)
      BY <2>1 DEF U!Eligible
    <3>2. g \in Begins /\ Known(g) /\ U!Set(i, g) /\ UNCHANGED holder
      BY <1>1, <2>1, <2>3, <3>1 DEF U!Goto, Begins, Places, Holding, Assembling, Known, Published
    <3> HIDE DEF g
    <3> QED BY <1>1, <3>2, QuietSteps
  <2> QED BY <2>2, <2>3
<1> QED BY <1>2, <1>3, <1>4

\* An entry of the invocation's own kind and key.
LEMMA TakenIs ==
    ASSUME U!PublisherAssumption, PublisherInv, NEW i \in Invocations, U!At(i, "post"),
           entries' = U!Taken(i), receipt' \in {receipt, Absent}, UNCHANGED last,
           NEW k, k = invs[i].key, NEW n, n = Len(entries')
    PROVE  /\ \E e \in Entry : entries' = Append(entries, e)
           /\ Authorised' /\ n \in Nat \ {0}
           /\ invs[i].mode = "validate" => Vouched(k)'
           /\ invs[i].mode = "publish" => Published(n)'
<1> DEFINE e == [kind |-> invs[i].mode, key |-> invs[i].key]
<1> DEFINE N == Len(entries)
<1>1. invs[i] \in Begins /\ invs[i].pc = "post" /\ Known(invs[i])
  BY Here
<1>2. e \in Entry /\ entries' = Append(entries, e) /\ e.kind = invs[i].mode /\ e.key = invs[i].key
  BY <1>1 DEF U!Taken, Entry, Begins, Known
<1>3. entries \in Seq(Entry) /\ Authorised
  BY DEF PublisherInv, PublisherTyped
<1> HIDE DEF e
<1>4. /\ entries' \in Seq(Entry) /\ Len(entries') = N + 1 /\ entries'[N + 1] = e /\ N \in Nat
      /\ \A j \in 1..N : entries'[j] = entries[j]
  BY <1>2, <1>3, Appending
<1>5. (\A x : Vouched(x) => Vouched(x)') /\ (\A x : Published(x) => Published(x)')
  BY <1>2, <1>3, EntriesStay
<1> HIDE DEF N
<1>6. ASSUME NEW p \in 1..Len(entries'), entries'[p].kind = "publish"
      PROVE  \E m \in 1..p - 1 : entries'[m].kind = "validate" /\ entries'[m].key = entries'[p].key
  <2>1. CASE p \in 1..N
    <3>1. PICK m \in 1..p - 1 : entries[m].kind = "validate" /\ entries[m].key = entries[p].key
      BY <1>3, <1>4, <1>6, <2>1 DEF Authorised, N
    <3>2. m \in 1..N
      BY <1>4, <2>1, <3>1
    <3> QED BY <1>4, <2>1, <3>1, <3>2
  <2>2. CASE p = N + 1
    <3>1. invs[i].mode = "publish" /\ Vouched(invs[i].key)
      BY <1>1, <1>2, <1>4, <1>6, <2>2 DEF Known
    <3>2. PICK m \in 1..N : entries[m].kind = "validate" /\ entries[m].key = invs[i].key
      BY <3>1 DEF Vouched, N
    <3>3. m \in 1..p - 1
      BY <1>4, <2>2, <3>2
    <3> QED BY <1>2, <1>4, <2>2, <3>2, <3>3
  <2> QED BY <1>4, <2>1, <2>2
<1>7. Authorised'
  BY <1>3, <1>5, <1>6 DEF Authorised
<1>8. N + 1 \in 1..Len(entries')
  BY <1>4
<1>9. invs[i].mode = "validate" => Vouched(k)'
  BY <1>2, <1>4, <1>8 DEF Vouched
<1>10. invs[i].mode = "publish" => Published(n)'
  BY <1>2, <1>4, <1>8 DEF Published
<1> QED BY <1>2, <1>4, <1>7, <1>9, <1>10

LEMMA AcceptedKeeps ==
    ASSUME U!PublisherAssumption, PublisherInv, NEW i \in Invocations, U!Accepted(i)
    PROVE  PublisherInv'
<1>1. /\ UNCHANGED <<session, files, config, receipt, last, holder>> /\ U!At(i, "post") /\ holder = i
      /\ invs[i] \in Begins /\ Known(invs[i]) /\ entries' = U!Taken(i)
      /\ last \in Nat /\ receipt \in Keys \cup {Absent} /\ invs[i].pc = "post"
  BY Here DEF U!Accepted, U!world, PublisherInv, PublisherTyped, Holding
<1>2. PICK k, n : k = invs[i].key /\ n = Len(entries')
  OBVIOUS
<1>3. /\ \E e \in Entry : entries' = Append(entries, e)
      /\ Authorised' /\ n \in Nat \ {0}
      /\ invs[i].mode = "validate" => Vouched(k)'
      /\ invs[i].mode = "publish" => Published(n)'
  BY <1>1, <1>2, TakenIs
<1>4. PICK g : g = [invs[i] EXCEPT !.entry = n, !.pc = IF invs[i].mode = "validate" THEN "receipt" ELSE "prior"]
  OBVIOUS
<1>5. /\ g \in Begins /\ g.pc = (IF invs[i].mode = "validate" THEN "receipt" ELSE "prior") /\ g.entry = n /\ g.key = k
      /\ g.prior = invs[i].prior /\ invs[i].mode \in {"validate", "publish"}
  BY <1>1, <1>2, <1>3, <1>4 DEF Begins, Places, Holding, Known
<1>6. Published(g.prior)'
  <2>1. Published(g.prior)
    BY <1>1, <1>5 DEF Known
  <2> QED BY <1>3, <2>1, EntriesStay DEF PublisherInv, PublisherTyped
<1>7. Known(g)'
  BY <1>3, <1>5, <1>6 DEF Known, Assembling
<1>8. Alongside(i)
  BY <1>1, <1>3 DEF Alongside
<1>9. invs' = [invs EXCEPT ![i] = g]
  BY <1>2, <1>4 DEF U!Accepted, U!Set
<1> QED BY <1>1, <1>3, <1>5, <1>7, <1>8, <1>9, InvocationSteps

LEMMA RefusedKeeps ==
    ASSUME U!PublisherAssumption, PublisherInv, NEW i \in Invocations, U!Refused(i)
    PROVE  PublisherInv'
<1>1. /\ UNCHANGED <<session, files, config, receipt, last>> /\ U!At(i, "post") /\ holder = i /\ holder' = Absent
      /\ invs[i] \in Begins /\ Known(invs[i]) /\ entries' \in {entries, U!Taken(i)}
      /\ last \in Nat /\ Published(last) /\ receipt \in Keys \cup {Absent} /\ invs[i].pc = "post"
  BY Here DEF U!Refused, U!world, U!Unlock, PublisherInv, PublisherTyped, Authorised, Holding
<1>2. PICK k, n : k = invs[i].key /\ n = Len(entries')
  OBVIOUS
<1>3. Authorised' /\ (entries' = entries \/ \E e \in Entry : entries' = Append(entries, e))
  <2>1. CASE entries' = entries
    BY <1>1, <2>1, SameEntries
  <2>2. CASE entries' = U!Taken(i)
    BY <1>1, <1>2, <2>2, TakenIs
  <2> QED BY <1>1, <2>1, <2>2
<1>4. PICK g : /\ g \in {[invs[i] EXCEPT !.pc = "failed", !.rejected = TRUE], [invs[i] EXCEPT !.pc = "failed"]}
               /\ invs' = [invs EXCEPT ![i] = g]
  BY DEF U!Refused, U!Set, U!Goto
<1>5. g \in Begins /\ g.pc = "failed" /\ g.entry = 0 /\ g.prior = invs[i].prior
  BY <1>1, <1>4 DEF Begins, Places, Known
<1>6. Published(g.prior)'
  <2>1. Published(g.prior)
    BY <1>1, <1>5 DEF Known
  <2> QED BY <1>3, <2>1, EntriesStay DEF PublisherInv, PublisherTyped
<1>7. Known(g)' /\ g.pc \notin Holding
  BY <1>5, <1>6 DEF Known, Assembling, Holding, Published
<1>8. Alongside(i)
  BY <1>1, <1>3 DEF Alongside
<1> QED BY <1>1, <1>3, <1>4, <1>5, <1>7, <1>8, InvocationSteps

LEMMA ReceiptKeeps ==
    ASSUME U!PublisherAssumption, PublisherInv, NEW i \in Invocations, U!Receipt(i)
    PROVE  PublisherInv'
<1>1. /\ UNCHANGED <<session, files, config, last, entries>> /\ holder = i /\ holder' = Absent
      /\ receipt' = invs[i].key /\ invs[i].key \in Keys /\ Vouched(invs[i].key) /\ last \in Nat
      /\ invs' = [invs EXCEPT ![i] = U!Idle]
  BY Here DEF U!Receipt, U!world, U!Unlock, U!Exit, U!Set, PublisherInv, PublisherTyped, Holding, Begins, Known
<1>2. Alongside(i)
  BY <1>1 DEF Alongside
<1>3. Authorised'
  BY <1>1 DEF PublisherInv, Authorised, Vouched, Published
<1> QED BY <1>1, <1>2, <1>3, InvocationSteps

LEMMA RecordKeeps ==
    ASSUME U!PublisherAssumption, PublisherInv, NEW i \in Invocations,
           U!ReadPrior(i) \/ U!Record(i) \/ U!Note(i) \/ U!Invalidate(i) \/ U!Kill(i)
    PROVE  PublisherInv'
<1>1. /\ UNCHANGED <<session, files, config, entries>> /\ last \in Nat /\ Published(last)
  BY DEF U!ReadPrior, U!Record, U!Note, U!Invalidate, U!Kill, U!world, PublisherInv, PublisherTyped, Authorised
<1>2. CASE U!ReadPrior(i)
  <2>1. CASE U!At(i, "prior")
    <3> DEFINE g == [invs[i] EXCEPT !.pc = "record", !.prior = last]
    <3>1. invs[i] \in Begins /\ Known(invs[i]) /\ invs[i].pc = "prior" /\ holder = i
      BY <2>1, Here DEF Holding
    <3>2. g \in Begins /\ Known(g) /\ U!Set(i, g) /\ UNCHANGED <<receipt, last, holder>>
      BY <1>1, <1>2, <2>1, <3>1 DEF U!ReadPrior, U!At, U!world, Begins, Places, Holding, Assembling, Known
    <3> HIDE DEF g
    <3> QED BY <1>1, <3>1, <3>2, QuietSteps
  <2>2. CASE U!At(i, "failed")
    <3> DEFINE g == [invs[i] EXCEPT !.pc = "note", !.prior = last]
    <3>1. invs[i] \in Begins /\ Known(invs[i]) /\ invs[i].pc = "failed"
      BY <2>2, Here
    <3>2. g \in Begins /\ Known(g) /\ g.pc \notin Holding /\ U!Set(i, g) /\ UNCHANGED <<receipt, last, holder>>
      BY <1>1, <1>2, <2>2, <3>1 DEF U!ReadPrior, U!At, U!world, Begins, Places, Holding, Assembling, Known
    <3> HIDE DEF g
    <3> QED BY <1>1, <3>2, QuietSteps
  <2> QED BY <1>2, <2>1, <2>2 DEF U!ReadPrior
<1>3. ASSUME U!At(i, "record") \/ U!At(i, "note")
      PROVE  /\ U!Success(i) \in Nat /\ Published(U!Success(i)) /\ invs[i] \in Begins /\ Known(invs[i])
             /\ invs[i].pc \in {"record", "note"}
  <2>1. invs[i] \in Begins /\ Known(invs[i]) /\ invs[i].pc \in {"record", "note"}
    BY <1>3, Here
  <2>2. Published(invs[i].entry) /\ Published(invs[i].prior) /\ invs[i].entry \in Nat /\ invs[i].prior \in Nat
    BY <2>1 DEF Known, Begins
  <2> QED BY <2>1, <2>2 DEF U!Success
<1>4. CASE U!Record(i)
  <2>1. /\ last' \in Nat /\ Published(last') /\ U!Set(i, U!Idle) /\ UNCHANGED receipt
        /\ holder' = IF holder = i THEN Absent ELSE holder
    BY <1>3, <1>4 DEF U!Record, U!Exit, U!Unlock, U!world
  <2> QED BY <1>1, <2>1, QuietSteps
<1>5. CASE U!Note(i)
  <2> DEFINE g == [invs[i] EXCEPT !.pc = "invalidate"]
  <2>1. /\ last' \in Nat /\ Published(last') /\ UNCHANGED <<receipt, holder>>
        /\ U!Set(i, U!Idle) \/ U!Set(i, g)
    BY <1>3, <1>5 DEF U!Note, U!Exit, U!Goto, U!world
  <2>2. invs[i] \in Begins /\ Known(invs[i]) /\ invs[i].pc = "note"
    BY <1>5, Here DEF U!Note
  <2>3. g \in Begins /\ Known(g) /\ g.pc \notin Holding
    BY <2>2 DEF Begins, Places, Holding, Assembling, Known
  <2> HIDE DEF g
  <2> QED BY <1>1, <2>1, <2>3, QuietSteps
<1>6. CASE U!Invalidate(i)
  <2>1. receipt' = Absent /\ U!Set(i, U!Idle) /\ UNCHANGED <<last, holder>>
    BY <1>6 DEF U!Invalidate, U!Exit, U!world
  <2> QED BY <1>1, <2>1, QuietSteps
<1>7. CASE U!Kill(i)
  <2>1. /\ U!Set(i, U!Idle) /\ UNCHANGED <<receipt, last>> /\ holder' = IF holder = i THEN Absent ELSE holder
    BY <1>7 DEF U!Kill, U!Exit, U!Unlock, U!world
  <2> QED BY <1>1, <2>1, QuietSteps
<1> QED BY <1>2, <1>4, <1>5, <1>6, <1>7

LEMMA WorldKeeps ==
    ASSUME PublisherInv,
           \/ U!Report \/ U!NewSession \/ UNCHANGED U!pubvars
           \/ \E k \in Keys, enabled \in BOOLEAN : U!Configure(k, enabled)
    PROVE  PublisherInv'
<1>1. UNCHANGED <<receipt, last, holder, invs, entries>>
  BY DEF U!Report, U!NewSession, U!Configure, U!pubvars
<1>2. session' \in Nat /\ files' \in [status : Nat, result : Nat] /\ config' \in [on : BOOLEAN, key : Keys, changes : Nat]
  BY DEF PublisherInv, PublisherTyped, U!Report, U!NewSession, U!Configure, U!pubvars
<1> QED BY <1>1, <1>2 DEF PublisherInv, PublisherTyped, Authorised, InvocationSafe, Known, Vouched, Published

LEMMA PublisherStarts == ASSUME U!PublisherAssumption, U!Init PROVE PublisherInv
<1>1. PublisherTyped
  <2>1. entries \in Seq(Entry)
    <3>1. CASE receipt = Absent
      BY <3>1 DEF U!Init
    <3>2. CASE receipt # Absent
      <4>1. [kind |-> "validate", key |-> receipt] \in Entry
        BY <3>2 DEF U!Init, Entry
      <4> QED BY <3>2, <4>1 DEF U!Init
    <3> QED BY <3>1, <3>2
  <2>2. invs \in [Invocations -> Begins \cup {U!Idle}]
    BY DEF U!Init
  <2>3. session \in Nat /\ files \in [status : Nat, result : Nat] /\ last \in Nat /\ holder = Absent
        /\ receipt \in Keys \cup {Absent}
    BY DEF U!Init
  <2>4. config \in [on : BOOLEAN, key : Keys, changes : Nat]
    <3>1. config \in [on : {TRUE}, key : Keys, changes : {0}]
      BY DEF U!Init
    <3>2. config = [on |-> config.on, key |-> config.key, changes |-> config.changes] /\ config.on \in {TRUE}
          /\ config.key \in Keys /\ config.changes = 0
      BY <3>1
    <3>3. config.on \in BOOLEAN
      BY <3>2, Zenon
    <3> QED BY <3>2, <3>3
  <2> QED BY <2>1, <2>2, <2>3, <2>4 DEF PublisherTyped
<1>2. Authorised
  <2>1. CASE receipt = Absent
    BY <2>1 DEF U!Init, Authorised, Published
  <2>2. CASE receipt # Absent
    <3>1. /\ Len(entries) = 1 /\ entries[1].kind = "validate" /\ entries[1].key = receipt
          /\ last = 0
      BY <2>2 DEF U!Init
    <3> QED BY <3>1 DEF Authorised, Published, Vouched
  <2> QED BY <2>1, <2>2
<1> QED BY <1>1, <1>2 DEF PublisherInv, InvocationSafe, U!Init

LEMMA PublisherSteps ==
    ASSUME U!PublisherAssumption, PublisherInv, [U!Next]_U!pubvars
    PROVE  PublisherInv'
<1>1. ASSUME NEW i \in Invocations,
             \/ \E mode \in Modes : U!Start(i, mode)
             \/ U!Check(i) \/ U!Lock(i) \/ U!Unlink(i) \/ U!ReadStatus(i) \/ U!ReadResult(i) \/ U!Build(i)
             \/ U!Accepted(i) \/ U!Refused(i) \/ U!Receipt(i) \/ U!ReadPrior(i) \/ U!Record(i) \/ U!Note(i)
             \/ U!Invalidate(i) \/ U!Kill(i)
      PROVE  PublisherInv'
  BY <1>1, StartKeeps, CheckKeeps, LockKeeps, UnlinkKeeps, ReadKeeps, AcceptedKeeps, RefusedKeeps, ReceiptKeeps, RecordKeeps
<1> QED BY <1>1, WorldKeeps DEF U!Next, Modes

\* Publisher's PublicationIsAuthorised.
LEMMA PublicationIsSound == PublisherInv => U!PublicationIsAuthorised
<1> SUFFICES ASSUME PublisherInv PROVE U!PublicationIsAuthorised
  OBVIOUS
<1>1. DOMAIN entries = 1..Len(entries) /\ Len(entries) \in Nat
  BY DEF PublisherInv, PublisherTyped
<1>2. \A n \in DOMAIN entries : entries[n].kind = "publish" =>
          \E m \in 1..n - 1 : entries[m].kind = "validate" /\ entries[m].key = entries[n].key
  BY <1>1 DEF PublisherInv, Authorised
<1>3. ASSUME NEW i \in Invocations, U!At(i, "post")
      PROVE  Known(invs[i]) /\ holder = i /\ invs[i].pc = "post"
  BY <1>3, Here DEF Holding
<1>4. last # 0 => last <= Len(entries) /\ entries[last].kind = "publish"
  BY <1>1 DEF PublisherInv, Authorised, Published
<1>5. receipt # Absent => \E n \in DOMAIN entries : entries[n].kind = "validate" /\ entries[n].key = receipt
  BY <1>1 DEF PublisherInv, Authorised, Vouched
<1> QED BY <1>2, <1>3, <1>4, <1>5 DEF U!PublicationIsAuthorised, Known
-----------------------------------------------------------------------------
(***************************************************************************)
(* The exports: what ends well is complete, wherever the clock goes while  *)
(* the segments are recorded and whatever happens to the files meanwhile.  *)
(*                                                                         *)
(* The catalogue lists closed segments only (Listing), so nothing is       *)
(* recorded in a segment once it is listed; and every record is between    *)
(* the extrema its segment keeps (Within), hence in every range that the   *)
(* record is in, its segment overlaps.                                     *)
(***************************************************************************)
CONSTANTS FileNames, ClockSteps, WallEnd, ExportSegments, MaxSteps, ExportFaults

VARIABLES wall, steps, segments, records, catalogue, request, faults

X == INSTANCE Exports WITH Names <- FileNames, None <- Absent, Steps <- ClockSteps, MaxTime <- WallEnd,
        MaxSegments <- ExportSegments, MaxFaults <- ExportFaults

Instant == Int \cup {Absent}
Segment == [opened : Int, closed : Instant, min : Instant, max : Instant, reason : {Absent, "rotation", "failed"}]

Files   == Nat \X FileNames
Request == [state : {"none", "refused", "streaming", "done", "broken"}, from : Int, to : Int, chosen : SUBSET Nat,
            listed : SUBSET Nat, members : SUBSET Files, missing : SUBSET Files, sent : SUBSET Files]

ExportsTyped ==
    /\ wall \in Int /\ segments \in Seq(Segment)
    /\ \A r \in records : r[1] \in 1..Len(segments) /\ r[2] \in Int
    /\ request \in Request

\* Only the last segment may be open.
Over(n) == segments[n].reason # Absent
Closed == \A n \in 1..Len(segments) : Over(n) \/ n = Len(segments)

\* Files, and what the catalogue says of them, are of closed segments.
OfClosed(f) == f \in (1..Len(segments)) \X FileNames /\ Over(f[1])
Listing == (\A f \in DOMAIN files : OfClosed(f)) /\ (\A f \in DOMAIN catalogue : OfClosed(f))

Within ==
    \A r \in records :
        /\ segments[r[1]].min \in Int /\ segments[r[1]].max \in Int
        /\ segments[r[1]].min <= r[2] /\ r[2] <= segments[r[1]].max

\* A plan that was made holds whatever belongs to it.
Planned ==
    request.state \in {"streaming", "done", "broken"} =>
        /\ \A n \in request.listed : n \in 1..Len(segments) /\ Over(n)
        /\ \A r \in records : r[1] \in request.listed /\ X!Sound(r[1]) /\ request.from <= r[2] /\ r[2] < request.to =>
               r[1] \in request.chosen
        /\ request.chosen \X FileNames = request.members \cup request.missing
        /\ request.sent \subseteq request.members
        /\ request.state = "done" => request.sent = request.members

ExportsInv == ExportsTyped /\ Closed /\ Listing /\ Within /\ Planned

\* The extrema of a segment's bounds.
LEMMA Extremes ==
    ASSUME Absent \notin Int, NEW a \in Int, NEW b \in Instant, NEW c \in Instant, NEW d \in Instant,
           NEW S, S = {a, b, c, d} \ {Absent}
    PROVE  /\ S \subseteq Int
           /\ X!Min(S) \in S /\ \A x \in S : X!Min(S) <= x
           /\ X!Max(S) \in S /\ \A x \in S : X!Max(S) >= x
<1>1. S \subseteq Int
  BY DEF Instant
<1>2. \A x, y \in Int : \E m \in {x, y} : m <= x /\ m <= y
  OBVIOUS
<1>3. \E x \in S : \A y \in S : x <= y
  <2>1. PICK p \in Int : p \in S /\ p <= a /\ (b \in S => p <= b)
    BY <1>1, <1>2
  <2>2. PICK q \in Int : q \in S /\ q <= p /\ (c \in S => q <= c)
    BY <1>1, <1>2, <2>1
  <2>3. PICK m \in Int : m \in S /\ m <= q /\ (d \in S => m <= d)
    BY <1>1, <1>2, <2>2
  <2>4. \A y \in S : m <= y
    BY <1>1, <2>1, <2>2, <2>3
  <2> QED BY <2>3, <2>4
<1>4. \E x \in S : \A y \in S : x >= y
  <2>0. \A x, y \in Int : \E m \in {x, y} : m >= x /\ m >= y
    OBVIOUS
  <2>1. PICK p \in Int : p \in S /\ p >= a /\ (b \in S => p >= b)
    BY <1>1, <2>0
  <2>2. PICK q \in Int : q \in S /\ q >= p /\ (c \in S => q >= c)
    BY <1>1, <2>0, <2>1
  <2>3. PICK m \in Int : m \in S /\ m >= q /\ (d \in S => m >= d)
    BY <1>1, <2>0, <2>2
  <2>4. \A y \in S : m >= y
    BY <1>1, <2>1, <2>2, <2>3
  <2> QED BY <2>3, <2>4
<1> QED BY <1>1, <1>3, <1>4 DEF X!Min, X!Max

LEMMA RecordIsCovered ==
    ASSUME X!ExportAssumption, ExportsInv, NEW r \in records, NEW from \in Int, NEW to \in Int,
           from <= r[2], r[2] < to
    PROVE  X!Overlaps(segments[r[1]], from, to)
<1> DEFINE s == segments[r[1]]
<1>1. s \in Segment /\ s.min \in Int /\ s.max \in Int /\ s.min <= r[2] /\ r[2] <= s.max /\ r[2] \in Int
  BY DEF ExportsInv, ExportsTyped, Within
<1> HIDE DEF s
<1>3. Absent \notin Int /\ s.opened \in Int /\ s.closed \in Instant /\ s.min \in Instant /\ s.max \in Instant
  BY <1>1 DEF X!ExportAssumption, Segment, Instant
<1>9. PICK a \in Int, b \in Instant, c \in Instant, d \in Instant :
          a = s.opened /\ b = s.closed /\ c = s.min /\ d = s.max
  BY <1>3
<1>2. PICK S : S = {a, b, c, d} \ {Absent}
  OBVIOUS
<1>4. /\ S \subseteq Int
      /\ X!Min(S) \in S /\ \A x \in S : X!Min(S) <= x
      /\ X!Max(S) \in S /\ \A x \in S : X!Max(S) >= x
  BY ONLY <1>2, <1>3, Extremes, Zenon
<1>5. s.min \in S /\ s.max \in S
  BY <1>1, <1>2, <1>3, <1>9
<1>6. X!Min(S) \in Int /\ X!Min(S) <= s.min /\ X!Max(S) \in Int /\ X!Max(S) >= s.max
  BY <1>4, <1>5
<1>7. X!Min(S) < to /\ X!Max(S) >= from
  BY <1>1, <1>6
<1>8. {s.opened, s.closed, s.min, s.max} \ {Absent} = S
  BY <1>2, <1>9
<1> QED BY <1>7, <1>8 DEF X!Overlaps, X!Bounds, s

\* Steps that leave the segments and their records, and change the form of files only.
LEMMA FilesChange ==
    ASSUME ExportsInv, UNCHANGED <<segments, records>>, wall' \in Int,
           DOMAIN files' = DOMAIN files, DOMAIN catalogue' \in {DOMAIN catalogue, DOMAIN files},
           (ExportsTyped /\ UNCHANGED request) \/ (ExportsTyped' /\ Planned')
    PROVE  ExportsInv'
<1>1. ExportsTyped'
  BY DEF ExportsInv, ExportsTyped
<1>2. Closed' /\ Within'
  BY DEF ExportsInv, Closed, Within, Over
<1>3. Listing'
  BY DEF ExportsInv, Listing, OfClosed, Over
<1>4. Planned'
  BY DEF ExportsInv, Planned, Over, X!Sound
<1> QED BY <1>1, <1>2, <1>3, <1>4 DEF ExportsInv

LEMMA OpenKeeps ==
    ASSUME X!ExportAssumption, ExportsInv, X!Open
    PROVE  ExportsInv'
<1> DEFINE N == Len(segments)
<1> DEFINE s == [opened |-> wall, closed |-> Absent, min |-> Absent, max |-> Absent, reason |-> Absent]
<1>1. /\ s \in Segment /\ segments \in Seq(Segment) /\ segments' = Append(segments, s)
      /\ UNCHANGED <<wall, records, files, catalogue, request>>
  BY DEF X!Open, X!archive, ExportsInv, ExportsTyped, Segment, Instant
<1> HIDE DEF s
<1>2. /\ segments' \in Seq(Segment) /\ Len(segments') = N + 1 /\ N \in Nat
      /\ \A n \in 1..N : segments'[n] = segments[n] /\ n \in 1..Len(segments')
  BY <1>1
<1>3. \A n \in 1..N : Over(n) /\ Over(n)'
  <2> SUFFICES ASSUME NEW n \in 1..N PROVE Over(n) /\ Over(n)'
    OBVIOUS
  <2>1. Over(n)
    BY <1>2 DEF X!Open, X!Active, ExportsInv, Closed, Over
  <2> QED BY <1>2, <2>1 DEF Over
<1>4. ExportsTyped'
  <2>1. \A r \in records' : r[1] \in 1..Len(segments') /\ r[2] \in Int
    BY <1>1, <1>2 DEF ExportsInv, ExportsTyped
  <2> QED BY <1>1, <1>2, <2>1 DEF ExportsInv, ExportsTyped
<1>5. Closed'
  BY <1>2, <1>3 DEF Closed
<1>6. Listing'
  BY <1>1, <1>2, <1>3 DEF ExportsInv, Listing, OfClosed
<1>7. Within'
  BY <1>1, <1>2 DEF ExportsInv, ExportsTyped, Within
<1>8. Planned'
  <2>1. \A r \in records : X!Sound(r[1])' = X!Sound(r[1])
    BY <1>2 DEF ExportsInv, ExportsTyped, X!Sound
  <2> QED BY <1>1, <1>2, <1>3, <2>1 DEF ExportsInv, Planned, X!Sound
<1> QED BY <1>4, <1>5, <1>6, <1>7, <1>8 DEF ExportsInv

\* A change of the open segment, which is in no list.
LEMMA ActiveMoves ==
    ASSUME X!ExportAssumption, ExportsInv, X!Active, NEW s \in Segment,
           segments' = [segments EXCEPT ![Len(segments)] = s],
           UNCHANGED <<wall, catalogue, request>>,
           records' \in {records, records \cup {<<Len(segments), wall>>}},
           DOMAIN files' = DOMAIN files \/ (DOMAIN files' = (1..Len(segments)) \X FileNames /\ s.reason # Absent),
           \A r \in records' : r[1] = Len(segments) =>
               s.min \in Int /\ s.max \in Int /\ s.min <= r[2] /\ r[2] <= s.max
    PROVE  ExportsInv'
<1> DEFINE N == Len(segments)
<1>1. /\ segments \in Seq(Segment) /\ N \in Nat \ {0} /\ segments[N].reason = Absent
  BY DEF X!Active, ExportsInv, ExportsTyped
<1>2. /\ segments' \in Seq(Segment) /\ Len(segments') = N /\ segments'[N] = s
      /\ \A n \in 1..N : n # N => segments'[n] = segments[n]
  BY <1>1
<1>3. \A n \in 1..N : Over(n) => n # N /\ Over(n)'
  BY <1>1, <1>2 DEF Over
<1>4. \A n \in 1..N : n # N => Over(n) /\ Over(n)'
  <2> SUFFICES ASSUME NEW n \in 1..N, n # N PROVE Over(n) /\ Over(n)'
    OBVIOUS
  <2>1. Over(n)
    BY DEF ExportsInv, Closed
  <2> QED BY <1>2, <2>1 DEF Over
<1>5. ExportsTyped'
  <2>1. \A r \in records' : r[1] \in 1..Len(segments') /\ r[2] \in Int
    <3>1. \A r \in records : r[1] \in 1..N /\ r[2] \in Int
      BY DEF ExportsInv, ExportsTyped
    <3>2. \A r \in {<<N, wall>>} : r[1] \in 1..N /\ r[2] \in Int
      BY <1>1 DEF ExportsInv, ExportsTyped
    <3> HIDE DEF N
    <3> QED BY <1>2, <3>1, <3>2 DEF N
  <2> QED BY <1>1, <1>2, <2>1 DEF ExportsInv, ExportsTyped
<1>6. Closed'
  BY <1>2, <1>4 DEF Closed
<1>7. Listing'
  <2>1. ASSUME NEW f, OfClosed(f) PROVE OfClosed(f)'
    BY <1>2, <1>3, <2>1 DEF OfClosed
  <2>2. ASSUME NEW f, f \in (1..N) \X FileNames, s.reason # Absent PROVE OfClosed(f)'
    BY <1>1, <1>2, <1>4, <2>2 DEF OfClosed, Over
  <2>3. \A f \in DOMAIN catalogue' : OfClosed(f)'
    BY <2>1 DEF ExportsInv, Listing
  <2>4. \A f \in DOMAIN files' : OfClosed(f)'
    BY <2>1, <2>2 DEF ExportsInv, Listing
  <2> QED BY <2>3, <2>4 DEF Listing
<1>8. Within'
  <2>1. ASSUME NEW r \in records'
        PROVE  /\ segments'[r[1]].min \in Int /\ segments'[r[1]].max \in Int
               /\ segments'[r[1]].min <= r[2] /\ r[2] <= segments'[r[1]].max
    <3>1. CASE r[1] = N
      BY <1>2, <2>1, <3>1
    <3>2. CASE r[1] # N
      <4>1. r \in records
        BY <2>1, <3>2
      <4> QED BY <1>2, <3>2, <4>1 DEF ExportsInv, ExportsTyped, Within
    <3> QED BY <3>1, <3>2
  <2> QED BY <2>1 DEF Within
<1>9. Planned'
  <2> SUFFICES ASSUME request.state \in {"streaming", "done", "broken"}
               PROVE  /\ \A n \in request.listed : n \in 1..Len(segments') /\ Over(n)'
                      /\ \A r \in records' : r[1] \in request.listed /\ X!Sound(r[1])' /\ request.from <= r[2]
                             /\ r[2] < request.to => r[1] \in request.chosen
    BY DEF ExportsInv, Planned
  <2>1. \A n \in request.listed : n \in 1..N /\ Over(n)
    BY DEF ExportsInv, Planned
  <2>2. ASSUME NEW r \in records', r[1] \in request.listed
        PROVE  r \in records /\ X!Sound(r[1])' = X!Sound(r[1])
    <3>1. r[1] # N /\ r[1] \in 1..N
      BY <1>3, <2>1, <2>2
    <3>2. r \in records
      BY <2>2, <3>1
    <3> QED BY <1>2, <3>1, <3>2 DEF X!Sound
  <2> QED BY <1>2, <1>3, <2>1, <2>2 DEF ExportsInv, Planned
<1> QED BY <1>5, <1>6, <1>7, <1>8, <1>9 DEF ExportsInv

LEMMA RecordKeepsExports ==
    ASSUME X!ExportAssumption, ExportsInv, X!Record
    PROVE  ExportsInv'
<1> DEFINE N == Len(segments)
<1>1. PICK o : o = segments[N]
  OBVIOUS
<1>2. /\ segments \in Seq(Segment) /\ N \in Nat \ {0} /\ o \in Segment /\ wall \in Int /\ X!Active
      /\ Absent \notin Int
  BY <1>1 DEF X!Record, X!Active, ExportsInv, ExportsTyped, X!ExportAssumption
<1>3. PICK s : s = [o EXCEPT !.min = IF o.min = Absent \/ wall < o.min THEN wall ELSE o.min,
                             !.max = IF o.max = Absent \/ wall > o.max THEN wall ELSE o.max]
  OBVIOUS
<1>4. segments' = [segments EXCEPT ![N] = s]
  <2>1. segments' = [segments EXCEPT ![N].min = IF @ = Absent \/ wall < @ THEN wall ELSE @,
                                     ![N].max = IF @ = Absent \/ wall > @ THEN wall ELSE @]
    BY DEF X!Record
  <2> QED BY <1>1, <1>2, <1>3, <2>1
<1>8. o \in [opened : Int, closed : Instant, min : Instant, max : Instant, reason : {Absent, "rotation", "failed"}]
  BY <1>2 DEF Segment
<1>9. /\ s.min = IF o.min = Absent \/ wall < o.min THEN wall ELSE o.min
      /\ s.max = IF o.max = Absent \/ wall > o.max THEN wall ELSE o.max
      /\ s = [opened |-> o.opened, closed |-> o.closed, min |-> s.min, max |-> s.max, reason |-> o.reason]
  BY <1>3, <1>8
<1>10. o.min \in Int \cup {Absent} /\ o.max \in Int \cup {Absent} /\ wall \in Int /\ Absent \notin Int
  BY <1>2, <1>8 DEF Instant
<1>5. /\ s \in Segment /\ s.min \in Int /\ s.max \in Int /\ s.min <= wall /\ wall <= s.max
      /\ o.min \in Int => s.min <= o.min
      /\ o.max \in Int => o.max <= s.max
  <2>1. s.min \in Int /\ s.min <= wall /\ (o.min \in Int => s.min <= o.min)
    BY <1>9, <1>10
  <2>2. s.max \in Int /\ wall <= s.max /\ (o.max \in Int => o.max <= s.max)
    BY <1>9, <1>10
  <2>3. s \in Segment
    BY <1>8, <1>9, <2>1, <2>2 DEF Segment, Instant
  <2> QED BY <2>1, <2>2, <2>3
<1>6. /\ UNCHANGED <<wall, catalogue, request, files>> /\ records' = records \cup {<<N, wall>>}
  BY DEF X!Record, X!archive
<1>7. ASSUME NEW r \in records', r[1] = N
      PROVE  s.min \in Int /\ s.max \in Int /\ s.min <= r[2] /\ r[2] <= s.max
  <2>1. CASE r \in records
    <3>1. o.min \in Int /\ o.max \in Int /\ o.min <= r[2] /\ r[2] <= o.max /\ r[2] \in Int
      BY <1>1, <1>7, <2>1 DEF ExportsInv, ExportsTyped, Within
    <3> QED BY <1>5, <3>1
  <2>2. CASE r = <<N, wall>>
    BY <1>5, <2>2
  <2> QED BY <1>6, <1>7, <2>1, <2>2
<1> QED BY <1>2, <1>4, <1>5, <1>6, <1>7, ActiveMoves

LEMMA CloseKeeps ==
    ASSUME X!ExportAssumption, ExportsInv, X!Close
    PROVE  ExportsInv'
<1> DEFINE N == Len(segments)
<1>1. PICK o : o = segments[N]
  OBVIOUS
<1>2. /\ segments \in Seq(Segment) /\ N \in Nat \ {0} /\ o \in Segment /\ wall \in Int /\ X!Active
      /\ Absent \notin {"rotation", "failed"} /\ o.reason = Absent
  BY <1>1 DEF X!Close, X!Active, ExportsInv, ExportsTyped, X!ExportAssumption
<1>3. PICK why \in {"rotation", "failed"} : segments' = [segments EXCEPT ![N].closed = wall, ![N].reason = why]
  BY DEF X!Close
<1>4. PICK s : s = [o EXCEPT !.closed = wall, !.reason = why]
  OBVIOUS
<1>5. segments' = [segments EXCEPT ![N] = s]
  BY <1>1, <1>2, <1>3, <1>4
<1>6. s \in Segment /\ s.reason # Absent /\ s.min = o.min /\ s.max = o.max
  BY <1>2, <1>4 DEF Segment, Instant
<1>7. UNCHANGED <<wall, catalogue, request, records>> /\ DOMAIN files' = (1..N) \X FileNames
  BY DEF X!Close
<1>8. \A r \in records' : r[1] = N => s.min \in Int /\ s.max \in Int /\ s.min <= r[2] /\ r[2] <= s.max
  BY <1>1, <1>6, <1>7 DEF ExportsInv, Within
<1> QED BY <1>2, <1>5, <1>6, <1>7, <1>8, ActiveMoves

LEMMA PlanKeeps ==
    ASSUME X!ExportAssumption, ExportsInv, NEW from \in 0..WallEnd, NEW to \in 0..WallEnd, X!Plan(from, to)
    PROVE  ExportsInv'
<1> DEFINE chosen == X!Selected(from, to)
<1> DEFINE wanted == chosen \X FileNames
<1> DEFINE members == {f \in wanted : catalogue[f] # "gone"}
<1>1. /\ UNCHANGED <<wall, segments, records, files, catalogue>>
      /\ \/ request' = [state |-> "streaming", from |-> from, to |-> to, chosen |-> chosen, listed |-> X!Listed,
                        members |-> members, missing |-> wanted \ members, sent |-> {}]
         \/ request' = [X!NoRequest EXCEPT !.state = "refused"]
  BY DEF X!Plan
<1>2. CASE request' = [X!NoRequest EXCEPT !.state = "refused"]
  <2>1. request'.state = "refused"
    BY <1>2 DEF X!NoRequest
  <2>2. request' \in Request
    BY <1>2 DEF X!NoRequest, Request
  <2>3. ExportsTyped' /\ Planned'
    BY <1>1, <2>1, <2>2 DEF ExportsInv, ExportsTyped, Planned
  <2> QED BY <1>1, <2>3, FilesChange DEF ExportsInv, ExportsTyped
<1>3. CASE request' = [state |-> "streaming", from |-> from, to |-> to, chosen |-> chosen, listed |-> X!Listed,
                       members |-> members, missing |-> wanted \ members, sent |-> {}]
  <2> DEFINE missing == wanted \ members
  <2>1. /\ request'.state = "streaming" /\ request'.from = from /\ request'.to = to /\ request'.chosen = chosen
        /\ request'.listed = X!Listed /\ request'.members = members /\ request'.missing = missing
        /\ request'.sent = {}
    BY <1>3
  <2>2. from \in Int /\ to \in Int
    OBVIOUS
  <2>3. \A n \in X!Listed : n \in 1..Len(segments) /\ Over(n)
    BY DEF X!Listed, ExportsInv, Listing, OfClosed
  <2>4. ASSUME NEW r \in records, r[1] \in X!Listed, X!Sound(r[1]), from <= r[2], r[2] < to
        PROVE  r[1] \in chosen
    BY <2>2, <2>4, RecordIsCovered DEF X!Selected
  <2>5. wanted = members \cup missing
    OBVIOUS
  <2>8. X!Listed \subseteq Nat /\ chosen \subseteq X!Listed
    BY <2>3 DEF X!Selected
  <2>9. request' \in Request
    <3>1. members \subseteq Files /\ missing \subseteq Files
      BY <2>8 DEF Files
    <3> HIDE DEF chosen, members, missing
    <3> QED BY <1>3, <2>2, <2>8, <3>1 DEF Request, missing
  <2> HIDE DEF chosen, members, missing
  <2>6. Planned'
    BY <1>1, <2>1, <2>3, <2>4, <2>5 DEF Planned, Over, X!Sound
  <2>7. ExportsTyped'
    BY <1>1, <2>9 DEF ExportsInv, ExportsTyped
  <2> QED BY <1>1, <2>6, <2>7, FilesChange DEF ExportsInv, ExportsTyped
<1> QED BY <1>1, <1>2, <1>3

LEMMA StreamKeeps ==
    ASSUME ExportsInv, X!Stream
    PROVE  ExportsInv'
<1>1. UNCHANGED <<wall, segments, records, files, catalogue>> /\ request.state = "streaming"
  BY DEF X!Stream
<1>3. request \in Request
  BY DEF ExportsInv, ExportsTyped
<1>4. CASE request.sent = request.members /\ request' = [request EXCEPT !.state = "done"]
  <2>1. request' \in Request /\ request'.state = "done" /\ request'.sent = request.members
        /\ \A x \in {"from", "to", "chosen", "listed", "members", "missing"} : request'[x] = request[x]
    BY <1>3, <1>4 DEF Request
  <2>2. ExportsTyped' /\ Planned'
    BY <1>1, <2>1 DEF ExportsInv, ExportsTyped, Planned, Over, X!Sound
  <2> QED BY <1>1, <2>2, FilesChange DEF ExportsInv, ExportsTyped
<1>5. CASE request' = [request EXCEPT !.state = "broken"]
  <2>1. request' \in Request /\ request'.state = "broken"
        /\ \A x \in {"from", "to", "chosen", "listed", "members", "missing", "sent"} : request'[x] = request[x]
    BY <1>3, <1>5 DEF Request
  <2>2. ExportsTyped' /\ Planned'
    BY <1>1, <2>1 DEF ExportsInv, ExportsTyped, Planned, Over, X!Sound
  <2> QED BY <1>1, <2>2, FilesChange DEF ExportsInv, ExportsTyped
<1>6. ASSUME NEW f \in request.members, request' = [request EXCEPT !.sent = @ \cup {f}]
      PROVE  ExportsInv'
  <2>1. request' \in Request /\ request'.state = "streaming" /\ request'.sent = request.sent \cup {f}
        /\ \A x \in {"from", "to", "chosen", "listed", "members", "missing"} : request'[x] = request[x]
    BY <1>1, <1>3, <1>6 DEF Request
  <2>2. ExportsTyped' /\ Planned'
    BY <1>1, <2>1 DEF ExportsInv, ExportsTyped, Planned, Over, X!Sound
  <2> QED BY <1>1, <2>2, FilesChange DEF ExportsInv, ExportsTyped
<1> QED BY <1>4, <1>5, <1>6 DEF X!Stream

LEMMA ExportsStart == ASSUME X!Init, WallEnd \in Nat PROVE ExportsInv
<1>1. segments = <<>> /\ records = {} /\ DOMAIN files = {} /\ DOMAIN catalogue = {} /\ request = X!NoRequest
      /\ wall \in Int
  BY DEF X!Init
<1>2. request \in Request /\ request.state = "none"
  BY <1>1 DEF X!NoRequest, Request
<1> QED BY <1>1, <1>2 DEF ExportsInv, ExportsTyped, Closed, Listing, Within, Planned

LEMMA ExportsStep ==
    ASSUME X!ExportAssumption, ExportsInv, [X!Next]_X!expvars
    PROVE  ExportsInv'
<1>1. wall \in Int /\ ExportsTyped /\ ClockSteps \subseteq Int
  BY DEF ExportsInv, ExportsTyped, X!ExportAssumption
<1>2. ASSUME NEW d \in ClockSteps, X!Step(d) PROVE ExportsInv'
  BY <1>1, <1>2, FilesChange DEF X!Step, X!archive
<1>3. ASSUME NEW f \in DOMAIN files, X!Change(f, "gz") \/ X!Change(f, "gone") \/ X!Tamper(f) PROVE ExportsInv'
  BY <1>1, <1>3, FilesChange DEF X!Change, X!Tamper
<1>4. CASE X!Catalogue
  BY <1>1, <1>4, FilesChange DEF X!Catalogue
<1>5. CASE UNCHANGED X!expvars
  BY <1>1, <1>5, FilesChange DEF X!expvars
<1> QED BY <1>2, <1>3, <1>4, <1>5, OpenKeeps, RecordKeepsExports, CloseKeeps, PlanKeeps, StreamKeeps DEF X!Next

\* Exports' ExportsAreComplete.
LEMMA ExportsAreWhole == ExportsInv => X!ExportsAreComplete
  BY DEF ExportsInv, Planned, X!ExportsAreComplete
-----------------------------------------------------------------------------
(***************************************************************************)
(* The sensors: what a capture is recorded with, however long it waits.    *)
(*                                                                         *)
(* Unless rows were lost, the history holds a row of at most one interval  *)
(* before every snapshot that was ever published (Covered): the snapshot's *)
(* own, or the last one that made it not due.                              *)
(***************************************************************************)
CONSTANTS Devices, SensorStale, SensorInterval, Backlog, JoinEnd, MaxLosses

VARIABLES file, queue, good, snapshot, history, appended, attached, losses

J == INSTANCE EnvironmentJoin WITH None <- Absent, Stale <- SensorStale, Interval <- SensorInterval, MaxTime <- JoinEnd

Goods    == [Devices -> Nat \cup {Absent}]
Row      == [updated : Nat, good : Goods]
Offer    == [row : Row, offered : BOOLEAN]
Waiting  == [mono : Nat, published : Int]

JoinTyped ==
    /\ now \in Nat /\ losses \in Nat /\ good \in Goods /\ snapshot \in Offer \cup {Absent}
    /\ appended \in Nat \cup {Absent} /\ queue \in Seq(Waiting) /\ history \subseteq Row
    /\ file.updated \in Int /\ -1 <= file.updated /\ file.updated <= now
    /\ snapshot # Absent => snapshot.row.updated <= now

\* Of the rows up to any time there is a last one.
HasLast ==
    \A m \in Nat : (\E r \in history : r.updated <= m) =>
        \E r \in history : r.updated <= m /\ \A q \in history : q.updated <= m => q.updated <= r.updated

Covered(p) == p >= 0 => \E r \in history : p - SensorInterval <= r.updated /\ r.updated <= p

RowsAreKept ==
    /\ snapshot # Absent => /\ file.updated < snapshot.row.updated
                            /\ appended # Absent => appended <= snapshot.row.updated
                            /\ snapshot.offered => Covered(snapshot.row.updated)
    /\ appended # Absent => appended <= now /\ \E r \in history : r.updated = appended
    /\ Covered(file.updated)
    /\ \A n \in 1..Len(queue) : /\ queue[n].mono <= now /\ queue[n].published <= queue[n].mono
                                /\ queue[n].published <= file.updated /\ Covered(queue[n].published)

Attached ==
    attached # Absent =>
        /\ \A d \in Devices : attached.readings[d] # Absent => attached.readings[d] <= attached.capture.mono
        /\ losses = 0 => attached.from >= attached.capture.published - SensorInterval

JoinInv == JoinTyped /\ HasLast /\ Attached /\ (losses = 0 => RowsAreKept)

LEMMA WaitingTyped ==
    ASSUME JoinTyped, NEW n \in 1..Len(queue)
    PROVE  queue[n].mono \in Nat /\ queue[n].published \in Int
<1>1. queue[n] \in Waiting
  BY DEF JoinTyped
<1> QED BY <1>1 DEF Waiting

LEMMA LastRow ==
    ASSUME JoinTyped, HasLast, NEW m \in Nat
    PROVE  /\ J!AsOf(m).updated \in Int /\ J!AsOf(m).updated >= -1
           /\ \A r \in history : r.updated <= m => r.updated <= J!AsOf(m).updated
<1> DEFINE rows == {r \in history : r.updated <= m}
<1>1. CASE rows = {}
  BY <1>1 DEF J!AsOf, J!Nothing
<1>2. CASE rows # {}
  <2>1. \E r \in rows : \A q \in rows : q.updated <= r.updated
    BY <1>2 DEF HasLast
  <2>2. PICK r : r = CHOOSE x \in rows : \A q \in rows : q.updated <= x.updated
    OBVIOUS
  <2>3. r \in rows /\ \A q \in rows : q.updated <= r.updated
    BY <2>1, <2>2
  <2>4. J!AsOf(m) = r
    BY <1>2, <2>2 DEF J!AsOf
  <2>5. r.updated \in Nat
    BY <2>3 DEF JoinTyped, Row
  <2> QED BY <2>3, <2>4, <2>5
<1> QED BY <1>1, <1>2

LEMMA HistoryGrows ==
    ASSUME JoinTyped, HasLast, NEW x \in Row, history' = history \cup {x}
    PROVE  HasLast' /\ \A p \in Int : Covered(p) => Covered(p)'
<1>1. ASSUME NEW m \in Nat, \E r \in history' : r.updated <= m
      PROVE  \E r \in history' : r.updated <= m /\ \A q \in history' : q.updated <= m => q.updated <= r.updated
  <2>1. \A r \in history' : r.updated \in Nat
    BY DEF JoinTyped, Row
  <2>2. CASE \E r \in history : r.updated <= m
    <3>1. PICK r \in history : r.updated <= m /\ \A q \in history : q.updated <= m => q.updated <= r.updated
      BY <2>2 DEF HasLast
    <3>2. CASE x.updated <= m /\ r.updated < x.updated
      BY <2>1, <3>1, <3>2
    <3>3. CASE ~(x.updated <= m /\ r.updated < x.updated)
      BY <2>1, <3>1, <3>3
    <3> QED BY <3>2, <3>3
  <2>3. CASE ~\E r \in history : r.updated <= m
    BY <1>1, <2>1, <2>3
  <2> QED BY <2>2, <2>3
<1>2. HasLast'
  BY <1>1 DEF HasLast
<1> QED BY <1>2 DEF Covered

LEMMA JoinStarts == ASSUME J!Init PROVE JoinInv
  BY DEF J!Init, J!NoReadings, J!Nothing, JoinInv, JoinTyped, Goods, HasLast, Attached, RowsAreKept, Covered

LEMMA PollKeeps ==
    ASSUME J!JoinAssumption, JoinInv, NEW answering \in SUBSET Devices, J!Poll(answering)
    PROVE  JoinInv'
<1>1. /\ UNCHANGED <<now, history, appended, file, queue, losses>> /\ attached' = Absent /\ file.updated < now
      /\ good' = [d \in Devices |-> IF d \in answering THEN now ELSE good[d]]
      /\ snapshot' = [row |-> [updated |-> now, good |-> good'], offered |-> FALSE]
      /\ JoinTyped /\ HasLast
  BY DEF J!Poll, JoinInv
<1>2. good' \in Goods
  BY <1>1 DEF JoinTyped, Goods
<1>3. /\ snapshot' \in Offer /\ snapshot'.row.updated = now /\ ~snapshot'.offered
  BY <1>1, <1>2 DEF JoinTyped, Offer, Row
<1>4. JoinTyped' /\ HasLast' /\ Attached'
  BY <1>1, <1>2, <1>3 DEF JoinTyped, HasLast, Attached
<1>5. losses = 0 => RowsAreKept'
  BY <1>1, <1>3 DEF JoinInv, JoinTyped, RowsAreKept, Covered
<1> QED BY <1>1, <1>4, <1>5 DEF JoinInv

LEMMA RecordKeepsRows ==
    ASSUME J!JoinAssumption, JoinInv, NEW refused \in BOOLEAN, J!Record(refused)
    PROVE  JoinInv'
<1> DEFINE u == snapshot.row.updated
<1> DEFINE due == ~refused /\ (appended = Absent \/ u - appended >= SensorInterval)
<1>1. /\ UNCHANGED <<now, good, file, queue>> /\ attached' = Absent /\ snapshot # Absent
      /\ snapshot' = [snapshot EXCEPT !.offered = TRUE]
      /\ due => history' = history \cup {snapshot.row} /\ appended' = u
      /\ ~due => UNCHANGED <<history, appended>>
      /\ losses' = losses + (IF refused THEN 1 ELSE 0)
      /\ JoinTyped /\ HasLast
  BY DEF J!Record, JoinInv
<1>2. snapshot \in Offer /\ snapshot.row \in Row /\ u \in Nat /\ now \in Nat /\ SensorInterval \in Nat /\ losses \in Nat
      /\ Absent \notin Nat
  BY <1>1 DEF JoinTyped, Offer, Row, J!JoinAssumption
<1>3. snapshot' \in Offer /\ snapshot'.row = snapshot.row
  BY <1>1, <1>2 DEF Offer
<1>4. losses' \in Nat /\ (losses' = 0 => losses = 0 /\ ~refused)
  BY <1>1, <1>2
<1> HIDE DEF due
<1>5. HasLast' /\ \A p \in Int : Covered(p) => Covered(p)'
  <2>1. CASE due
    BY <1>1, <1>2, <2>1, HistoryGrows
  <2>2. CASE ~due
    BY <1>1, <2>2 DEF HasLast, Covered
  <2> QED BY <2>1, <2>2
<1>6. JoinTyped'
  BY <1>1, <1>2, <1>3, <1>4 DEF JoinTyped
<1>7. ASSUME losses' = 0 PROVE RowsAreKept'
  <2>1. RowsAreKept /\ ~refused /\ u <= now /\ file.updated < u
    BY <1>1, <1>4, <1>7 DEF JoinInv, RowsAreKept, JoinTyped
  <2>2. \A r \in history' : r.updated \in Nat
    BY <1>6 DEF JoinTyped, Row
  <2>3. /\ Covered(u)'
        /\ appended' # Absent => /\ appended' <= now /\ \E r \in history' : r.updated = appended'
                                 /\ appended' <= u
    <3>1. CASE due
      <4>1. snapshot.row \in history' /\ appended' = u
        BY <1>1, <3>1
      <4>2. \E r \in history' : r.updated = u
        BY <4>1
      <4>3. \E r \in history' : u - SensorInterval <= r.updated /\ r.updated <= u
        BY <1>2, <4>2
      <4> QED BY <1>1, <1>2, <2>1, <4>1, <4>2, <4>3 DEF Covered
    <3>2. CASE ~due
      <4>1. appended \in Nat /\ u - appended < SensorInterval /\ appended <= u
        BY <1>1, <1>2, <2>1, <3>2 DEF due, JoinTyped, RowsAreKept
      <4>2. PICK r \in history : r.updated = appended
        BY <1>2, <2>1, <4>1 DEF RowsAreKept
      <4>3. u - SensorInterval <= r.updated /\ r.updated <= u
        BY <1>2, <4>1, <4>2
      <4>4. appended' = appended /\ history' = history
        BY <1>1, <3>2
      <4> QED BY <1>1, <1>2, <2>1, <4>1, <4>2, <4>3, <4>4 DEF Covered
    <3> QED BY <3>1, <3>2
  <2>4. Covered(file.updated)'
    BY <1>1, <1>5, <2>1 DEF RowsAreKept, JoinTyped, Covered
  <2>5. \A n \in 1..Len(queue) : /\ queue[n].mono <= now /\ queue[n].published <= queue[n].mono
                                /\ queue[n].published <= file.updated /\ Covered(queue[n].published)'
    <3> SUFFICES ASSUME NEW n \in 1..Len(queue)
                 PROVE  /\ queue[n].mono <= now /\ queue[n].published <= queue[n].mono
                        /\ queue[n].published <= file.updated /\ Covered(queue[n].published)'
      OBVIOUS
    <3>1. queue[n].published \in Int
      BY <1>1, WaitingTyped
    <3> QED BY <1>1, <1>5, <2>1, <3>1 DEF RowsAreKept, Covered
  <2> QED BY <1>1, <1>3, <2>1, <2>3, <2>4, <2>5 DEF RowsAreKept, Covered
<1> QED BY <1>1, <1>5, <1>6, <1>7 DEF JoinInv, Attached

LEMMA PublishKeeps ==
    ASSUME J!JoinAssumption, JoinInv, J!Publish
    PROVE  JoinInv'
<1>1. /\ UNCHANGED <<now, good, history, appended, queue, losses>> /\ attached' = Absent /\ snapshot # Absent
      /\ snapshot.offered /\ file' = snapshot.row /\ snapshot' = Absent /\ JoinTyped /\ HasLast
  BY DEF J!Publish, JoinInv
<1>2. snapshot.row.updated \in Nat
  BY <1>1 DEF JoinTyped, Offer, Row
<1>3. JoinTyped' /\ HasLast' /\ Attached'
  BY <1>1, <1>2 DEF JoinTyped, HasLast, Attached
<1>4. ASSUME losses = 0 PROVE RowsAreKept'
  <2>1. RowsAreKept
    BY <1>4 DEF JoinInv
  <2>2. ASSUME NEW n \in 1..Len(queue)
        PROVE  queue[n].published <= file'.updated
    <3>1. queue[n].published <= file.updated /\ file.updated < file'.updated /\ file.updated \in Int
      BY <1>1, <2>1 DEF RowsAreKept, JoinTyped
    <3> QED BY <1>1, <1>2, <3>1, WaitingTyped
  <2> QED BY <1>1, <2>1, <2>2 DEF RowsAreKept, Covered
<1> QED BY <1>1, <1>3, <1>4 DEF JoinInv

LEMMA OthersKeep ==
    ASSUME J!JoinAssumption, JoinInv, J!Tick \/ J!Restart \/ J!Arrive \/ UNCHANGED J!joinvars
    PROVE  JoinInv'
<1>1. now \in Nat /\ JoinTyped /\ HasLast /\ losses \in Nat
  BY DEF JoinInv, JoinTyped
<1>2. CASE J!Tick
  <2>1. now' = now + 1 /\ attached' = Absent
        /\ UNCHANGED <<good, snapshot, history, appended, file, queue, losses>>
    BY <1>2 DEF J!Tick
  <2>2. JoinTyped' /\ HasLast' /\ Attached'
    BY <1>1, <2>1 DEF JoinTyped, HasLast, Attached, Offer, Row
  <2>3. ASSUME losses = 0 PROVE RowsAreKept'
    <3>1. \A n \in 1..Len(queue) : queue[n].mono <= now'
      BY <1>1, <2>1, <2>3, WaitingTyped DEF JoinInv, RowsAreKept
    <3>2. appended # Absent => appended <= now'
      BY <1>1, <2>1, <2>3 DEF JoinInv, RowsAreKept, JoinTyped
    <3> QED BY <2>1, <2>3, <3>1, <3>2 DEF JoinInv, RowsAreKept, Covered
  <2> QED BY <2>1, <2>2, <2>3 DEF JoinInv
<1>3. CASE J!Restart
  <2>1. /\ good' = J!NoReadings /\ snapshot' = Absent /\ appended' = Absent
        /\ file' = file \/ file' = [updated |-> now, good |-> good]
        /\ losses' = losses + 1 /\ attached' = Absent /\ UNCHANGED <<now, history, queue>>
    BY <1>3 DEF J!Restart
  <2>2. file'.updated \in Int /\ -1 <= file'.updated /\ file'.updated <= now
    BY <1>1, <2>1 DEF JoinTyped
  <2>3. JoinTyped'
    BY <1>1, <2>1, <2>2 DEF JoinTyped, J!NoReadings, Goods
  <2> QED BY <1>1, <2>1, <2>3 DEF JoinInv, HasLast, Attached
<1>4. CASE J!Arrive
  <2> DEFINE N == Len(queue)
  <2>1. PICK w : w = [mono |-> now, published |-> file.updated]
    OBVIOUS
  <2>2. /\ queue' = Append(queue, w) /\ attached' = Absent
        /\ UNCHANGED <<now, good, snapshot, history, appended, file, losses>>
    BY <1>4, <2>1 DEF J!Arrive
  <2>3. w \in Waiting /\ queue \in Seq(Waiting) /\ w.mono = now /\ w.published = file.updated
    BY <1>1, <2>1 DEF JoinTyped, Waiting
  <2>4. /\ queue' \in Seq(Waiting) /\ Len(queue') = N + 1 /\ queue'[N + 1] = w /\ N \in Nat
        /\ \A n \in 1..N : queue'[n] = queue[n]
    BY <2>2, <2>3
  <2>5. JoinTyped' /\ HasLast' /\ Attached'
    BY <1>1, <2>2, <2>4 DEF JoinTyped, HasLast, Attached
  <2>6. ASSUME losses = 0 PROVE RowsAreKept'
    <3> DEFINE Fine(x) == /\ x.mono <= now /\ x.published <= x.mono
                          /\ x.published <= file.updated /\ Covered(x.published)
    <3>1. \A n \in 1..N : Fine(queue[n])
      BY <2>6 DEF JoinInv, RowsAreKept
    <3>2. Fine(w)
      BY <1>1, <2>3, <2>6 DEF JoinInv, RowsAreKept, JoinTyped
    <3> HIDE DEF Fine
    <3>3. \A n \in 1..Len(queue') : Fine(queue'[n])
      BY <2>4, <3>1, <3>2
    <3>4. \A n \in 1..Len(queue') : /\ queue'[n].mono <= now /\ queue'[n].published <= queue'[n].mono
                                    /\ queue'[n].published <= file.updated /\ Covered(queue'[n].published)
      BY <3>3 DEF Fine
    <3> QED BY <2>2, <2>6, <3>4 DEF JoinInv, RowsAreKept, Covered
  <2> QED BY <2>2, <2>5, <2>6 DEF JoinInv
<1>5. CASE UNCHANGED J!joinvars
  BY <1>5 DEF J!joinvars, JoinInv, JoinTyped, HasLast, Attached, RowsAreKept, Covered
<1> QED BY <1>2, <1>3, <1>4, <1>5

LEMMA ProcessKeeps ==
    ASSUME J!JoinAssumption, JoinInv, J!Process
    PROVE  JoinInv'
<1>1. PICK w : w = Head(queue)
  OBVIOUS
<1>2. /\ queue # <<>> /\ queue' = Tail(queue) /\ UNCHANGED <<now, good, snapshot, history, appended, file, losses>>
      /\ attached' = [capture |-> w, from |-> J!SnapshotFor(w.mono).updated, readings |-> J!Readings(w.mono)]
      /\ JoinTyped /\ HasLast
  BY <1>1 DEF J!Process, JoinInv
<1>3. /\ queue \in Seq(Waiting) /\ Len(queue) \in Nat \ {0} /\ w = queue[1]
      /\ queue' \in Seq(Waiting) /\ Len(queue') = Len(queue) - 1
      /\ \A n \in 1..Len(queue') : queue'[n] = queue[n + 1] /\ n + 1 \in 1..Len(queue)
  BY <1>1, <1>2 DEF JoinTyped
<1>4. w.mono \in Nat /\ w.published \in Int
  BY <1>2, <1>3, WaitingTyped
<1>5. JoinTyped' /\ HasLast'
  BY <1>2, <1>3 DEF JoinTyped, HasLast
<1>6. losses = 0 => RowsAreKept'
  <2> SUFFICES ASSUME losses = 0 PROVE RowsAreKept'
    OBVIOUS
  <2>1. RowsAreKept
    BY DEF JoinInv
  <2>2. \A n \in 1..Len(queue') : /\ queue'[n].mono <= now /\ queue'[n].published <= queue'[n].mono
                                  /\ queue'[n].published <= file.updated /\ Covered(queue'[n].published)
    BY <1>3, <2>1 DEF RowsAreKept
  <2> QED BY <1>2, <2>1, <2>2 DEF RowsAreKept, Covered
<1>7. \A d \in Devices : attached'.readings[d] # Absent => attached'.readings[d] <= attached'.capture.mono
  BY <1>2 DEF J!Readings
<1>8. losses = 0 => J!SnapshotFor(w.mono).updated >= w.published - SensorInterval
  <2> SUFFICES ASSUME losses = 0
               PROVE  J!SnapshotFor(w.mono).updated >= w.published - SensorInterval
    OBVIOUS
  <2>1. w.published <= file.updated /\ w.published <= w.mono /\ Covered(w.published)
    BY <1>3 DEF JoinInv, RowsAreKept
  <2>2. SensorInterval \in Nat /\ file.updated \in Int
    BY <1>2 DEF J!JoinAssumption, JoinTyped
  <2>3. CASE file.updated > w.mono
    <3>1. J!SnapshotFor(w.mono) = J!AsOf(w.mono)
      BY <2>3 DEF J!SnapshotFor
    <3>2. /\ J!AsOf(w.mono).updated \in Int /\ J!AsOf(w.mono).updated >= -1
          /\ \A r \in history : r.updated <= w.mono => r.updated <= J!AsOf(w.mono).updated
      BY <1>2, <1>4, LastRow
    <3>3. CASE w.published >= 0
      <4>1. PICK r \in history : w.published - SensorInterval <= r.updated /\ r.updated <= w.published
        BY <2>1, <3>3 DEF Covered
      <4>2. r.updated \in Nat
        BY <1>2 DEF JoinTyped, Row
      <4> QED BY <1>4, <2>1, <2>2, <3>1, <3>2, <4>1, <4>2
    <3>4. CASE ~(w.published >= 0)
      BY <1>4, <2>2, <3>1, <3>2, <3>4
    <3> QED BY <3>3, <3>4
  <2>4. CASE ~(file.updated > w.mono)
    BY <1>4, <2>1, <2>2, <2>4 DEF J!SnapshotFor
  <2> QED BY <2>3, <2>4
<1>9. Attached'
  BY <1>2, <1>7, <1>8 DEF Attached
<1> QED BY <1>2, <1>5, <1>6, <1>9 DEF JoinInv

LEMMA JoinSteps ==
    ASSUME J!JoinAssumption, JoinInv, [J!Next]_J!joinvars
    PROVE  JoinInv'
  BY PollKeeps, RecordKeepsRows, PublishKeeps, OthersKeep, ProcessKeeps DEF J!Next

\* EnvironmentJoin's WaitingCostsOneInterval.
LEMMA WaitingIsBounded == JoinInv => J!WaitingCostsOneInterval
  BY DEF JoinInv, Attached, J!WaitingCostsOneInterval
-----------------------------------------------------------------------------
(***************************************************************************)
(* The collectors of diagnostics: a snapshot never presents what is no     *)
(* longer so, however the daemons, the worker and close() interleave.      *)
(*                                                                         *)
(* The two reports of chronyd are read at different times, but the pair a  *)
(* snapshot shows, reference and time, is all of the first one; and a view *)
(* of the sky without a time of its own has that of the receiver.          *)
(***************************************************************************)
CONSTANTS References, ReportStale, CollectorEnd

VARIABLES collector, daemon, got, cached, stopped, closed, updates

G == INSTANCE HealthCollectors WITH Names <- References, None <- Absent, Stale <- ReportStale, MaxTime <- CollectorEnd

Time   == Nat \cup {Absent}
Source == References \cup {Absent}
Chrony == [ref : Source, at : Time, selected : Source, reach : BOOLEAN]
Gpsd   == [tpv : [time : Time] \cup {Absent}, sky : [time : Time, full : BOOLEAN] \cup {Absent}]

Synchronized == [state : {"synchronized"}, source : References, at : Time]
Available    == [state : {"available"}, fix : BOOLEAN, at : Time, sky : Time, view : BOOLEAN]

\* What a daemon says, or said.
Reported(g) ==
    /\ collector = "chrony" => g \in Chrony /\ (g.ref # Absent => <<g.ref, g.at>> \in updates)
    /\ collector = "gpsd" => g \in Gpsd

Supported(c) ==
    /\ c \in Synchronized \cup Available \cup {G!Unknown}
    /\ c.state = "synchronized" => <<c.source, c.at>> \in updates
    /\ c.state = "available" /\ c.view /\ c.sky = Absent => c.at # Absent

CollectorInv ==
    /\ collector \in {"chrony", "gpsd"} /\ now \in Nat /\ sampled \in Time /\ stopped \in BOOLEAN /\ closed \in BOOLEAN
    /\ Reported(daemon) /\ (pc # "idle" => Reported(got)) /\ Supported(cached)
    /\ closed => stopped /\ sampled = Absent

LEMMA CollectorStarts == ASSUME G!Init PROVE CollectorInv
  BY DEF G!Init, G!Unknown, CollectorInv, Reported, Supported, Chrony, Gpsd, Time, Source

LEMMA ParsedIsSupported ==
    ASSUME G!CollectorAssumption, CollectorInv, pc # "idle"
    PROVE  Supported(G!Parsed)
<1>1. Supported(G!Unknown)
  BY DEF Supported, G!Unknown
<1>2. CASE collector = "chrony"
  <2>1. got \in Chrony /\ (got.ref # Absent => <<got.ref, got.at>> \in updates)
    BY <1>2 DEF CollectorInv, Reported
  <2>2. CASE G!Synchronized(got)
    <3>1. G!Parsed = [state |-> "synchronized", source |-> got.ref, at |-> got.at]
      BY <1>2, <2>2 DEF G!Parsed, G!Chrony
    <3> QED BY <2>1, <2>2, <3>1 DEF Supported, Synchronized, G!Synchronized, Chrony, Source
  <2>3. CASE ~G!Synchronized(got)
    BY <1>1, <1>2, <2>3 DEF G!Parsed, G!Chrony
  <2> QED BY <2>2, <2>3
<1>3. CASE collector = "gpsd"
  <2>1. got \in Gpsd /\ collector # "chrony"
    BY <1>3 DEF CollectorInv, Reported
  <2>2. CASE got.tpv = Absent
    BY <1>1, <2>1, <2>2 DEF G!Parsed, G!Gps
  <2>3. CASE got.tpv # Absent
    <3>1. PICK at \in Time, sky \in Time, fix \in BOOLEAN, view \in BOOLEAN :
              /\ at = got.tpv.time
              /\ sky = IF got.sky # Absent THEN got.sky.time ELSE Absent
              /\ fix = (got.tpv.time = Absent \/ G!Current(got.tpv.time))
              /\ view = (/\ got.sky # Absent
                         /\ IF got.sky.time = Absent THEN G!Current(got.tpv.time) ELSE G!Current(got.sky.time))
      <4>1. got.tpv.time \in Time /\ (got.sky # Absent => got.sky.time \in Time)
        BY <2>1, <2>3 DEF Gpsd
      <4>2. Absent \in Time
        BY DEF Time
      <4> QED BY <4>1, <4>2
    <3>2. G!Parsed = [state |-> "available", fix |-> fix, at |-> at, sky |-> sky, view |-> view]
      BY <2>1, <2>3, <3>1 DEF G!Parsed, G!Gps
    <3>3. view /\ sky = Absent => at # Absent
      BY <3>1 DEF G!Current
    <3>4. G!Parsed \in Available
      BY <3>2 DEF Available
    <3> QED BY <3>2, <3>3, <3>4 DEF Supported
  <2> QED BY <2>2, <2>3
<1> QED BY <1>2, <1>3 DEF CollectorInv

\* What the daemons do.
LEMMA DaemonKeeps ==
    ASSUME CollectorInv, (\E n \in References : G!Measured(n)) \/ G!SourceLost \/ G!Fix \/ G!Sky
    PROVE  CollectorInv'
<1>1. UNCHANGED <<collector, now, pc, got, cached, sampled, stopped, closed>> /\ updates \subseteq updates'
  BY DEF G!Measured, G!SourceLost, G!Fix, G!Sky, G!worker
<1>2. Reported(daemon)'
  <2>1. ASSUME NEW n \in References, G!Measured(n) PROVE Reported(daemon)'
    <3>1. daemon' = [ref |-> n, at |-> now, selected |-> n, reach |-> TRUE] /\ updates' = updates \cup {<<n, now>>}
          /\ collector' = "chrony"
      BY <2>1 DEF G!Measured
    <3> QED BY <3>1 DEF CollectorInv, Reported, Chrony, Source, Time
  <2>2. CASE G!SourceLost
    <3>1. daemon \in Chrony /\ (daemon.ref # Absent => <<daemon.ref, daemon.at>> \in updates) /\ collector' = "chrony"
          /\ updates' = updates
      BY <2>2 DEF G!SourceLost, CollectorInv, Reported
    <3>2. CASE daemon' = [daemon EXCEPT !.selected = Absent]
      BY <3>1, <3>2 DEF Reported, Chrony, Source
    <3>3. CASE daemon' = [daemon EXCEPT !.reach = FALSE]
      BY <3>1, <3>3 DEF Reported, Chrony
    <3>4. CASE daemon' = [daemon EXCEPT !.ref = Absent]
      BY <3>1, <3>4 DEF Reported, Chrony, Source
    <3> QED BY <2>2, <3>2, <3>3, <3>4 DEF G!SourceLost
  <2>3. CASE G!Fix
    <3>1. daemon \in Gpsd /\ now \in Nat /\ collector' = "gpsd"
      BY <2>3 DEF G!Fix, CollectorInv, Reported
    <3>2. PICK t \in {now, Absent} : daemon' = [daemon EXCEPT !.tpv = [time |-> t]]
      BY <2>3 DEF G!Fix
    <3>3. [time |-> t] \in [time : Time]
      BY <3>1 DEF Time
    <3> QED BY <3>1, <3>2, <3>3 DEF Reported, Gpsd
  <2>4. CASE G!Sky
    <3>1. daemon \in Gpsd /\ now \in Nat /\ collector' = "gpsd"
      BY <2>4 DEF G!Sky, CollectorInv, Reported
    <3>2. PICK v \in {Absent} \cup [time : {now, Absent}, full : BOOLEAN] : daemon' = [daemon EXCEPT !.sky = v]
      BY <2>4 DEF G!Sky
    <3>3. v \in [time : Time, full : BOOLEAN] \cup {Absent}
      BY <3>1 DEF Time
    <3> QED BY <3>1, <3>2, <3>3 DEF Reported, Gpsd
  <2> QED BY <2>1, <2>2, <2>3, <2>4
<1>3. pc' # "idle" => Reported(got)'
  BY <1>1 DEF CollectorInv, Reported
<1>4. Supported(cached)'
  BY <1>1 DEF CollectorInv, Supported
<1> QED BY <1>1, <1>2, <1>3, <1>4 DEF CollectorInv

\* What the worker and its owner do, and time.
LEMMA WorkerKeeps ==
    ASSUME G!CollectorAssumption, CollectorInv,
           G!Tick \/ G!Ask \/ G!Answer \/ G!Cache \/ G!Stop \/ G!Withdraw \/ UNCHANGED G!hcvars
    PROVE  CollectorInv'
<1>1. CASE G!Tick \/ UNCHANGED G!hcvars
  BY <1>1 DEF G!Tick, G!worker, G!hcvars, CollectorInv, Reported, Supported
<1>2. CASE G!Ask
  BY <1>2 DEF G!Ask, CollectorInv, Reported, Supported
<1>3. CASE G!Answer
  <2>1. UNCHANGED <<collector, now, daemon, updates, cached, sampled, stopped, closed>> /\ Reported(got) /\ Reported(daemon)
        /\ got' \in IF collector = "chrony" THEN {[got EXCEPT !.selected = daemon.selected, !.reach = daemon.reach]}
                    ELSE {got} \cup {[got EXCEPT !.sky = v] : v \in G!View}
    BY <1>3 DEF G!Answer, CollectorInv
  <2>2. CASE collector = "chrony"
    BY <2>1, <2>2 DEF CollectorInv, Reported, Supported, Chrony
  <2>3. CASE collector = "gpsd"
    <3>1. got \in Gpsd /\ \A v \in G!View : v \in [time : Time, full : BOOLEAN]
      BY <2>1, <2>3 DEF Reported, Gpsd, G!View
    <3>2. got' \in Gpsd
      BY <2>1, <2>3, <3>1 DEF Gpsd
    <3> QED BY <2>1, <2>3, <3>2 DEF CollectorInv, Reported, Supported
  <2> QED BY <2>2, <2>3 DEF CollectorInv
<1>4. CASE G!Cache
  <2>1. UNCHANGED <<collector, now, daemon, updates, stopped, closed>> /\ pc' = "idle" /\ pc # "idle"
    BY <1>4 DEF G!Cache
  <2>2. PICK value \in {G!Parsed, G!Unknown} :
            IF stopped THEN UNCHANGED <<cached, sampled>> ELSE cached' = value /\ sampled' = now
    BY <1>4 DEF G!Cache
  <2>3. Supported(value)
    <3>1. Supported(G!Unknown)
      BY DEF Supported, G!Unknown
    <3> QED BY <2>1, <3>1, ParsedIsSupported
  <2>4. Supported(cached)' /\ sampled' \in Time /\ (closed => sampled' = Absent)
    <3>1. CASE stopped
      BY <2>1, <2>2, <3>1 DEF CollectorInv, Supported
    <3>2. CASE ~stopped
      BY <2>1, <2>2, <2>3, <3>2 DEF CollectorInv, Supported, Time
    <3> QED BY <3>1, <3>2
  <2> QED BY <2>1, <2>4 DEF CollectorInv, Reported
<1>5. CASE G!Stop
  BY <1>5 DEF G!Stop, CollectorInv, Reported, Supported
<1>6. CASE G!Withdraw
  BY <1>6 DEF G!Withdraw, G!Unknown, CollectorInv, Reported, Supported, Time
<1> QED BY <1>1, <1>2, <1>3, <1>4, <1>5, <1>6

LEMMA CollectorSteps ==
    ASSUME G!CollectorAssumption, CollectorInv, [G!Next]_G!hcvars
    PROVE  CollectorInv'
  BY DaemonKeeps, WorkerKeeps DEF G!Next

\* HealthCollectors' SnapshotsAreCurrent.
LEMMA SnapshotsAreSound ==
    ASSUME G!CollectorAssumption, CollectorInv
    PROVE  G!SnapshotsAreCurrent
<1>1. CASE G!Snapshot = G!Unknown
  BY <1>1 DEF G!SnapshotsAreCurrent, G!Unknown
<1>2. CASE G!Snapshot # G!Unknown
  <2>1. /\ sampled # Absent /\ ~(now - sampled > ReportStale) /\ sampled \in Nat /\ now \in Nat /\ ReportStale \in Nat
        /\ ~closed
    BY <1>2 DEF G!Snapshot, CollectorInv, Time, G!CollectorAssumption
  <2>2. now - sampled <= ReportStale
    BY <2>1
  <2>3. CASE cached.state # "available"
    <3>1. G!Snapshot = cached
      BY <2>1, <2>3 DEF G!Snapshot
    <3> QED BY <2>1, <2>2, <2>3, <3>1 DEF G!SnapshotsAreCurrent, CollectorInv, Supported
  <2>4. CASE cached.state = "available"
    <3> DEFINE old == cached.at # Absent /\ now - cached.at > ReportStale
    <3>1. G!Snapshot = [cached EXCEPT !.fix = @ /\ ~old,
                                      !.view = @ /\ ~old /\ (cached.sky = Absent \/ now - cached.sky <= ReportStale)]
      BY <2>1, <2>4 DEF G!Snapshot
    <3>2. cached \in Available
      BY <2>4 DEF CollectorInv, Supported, Synchronized, G!Unknown
    <3>3. /\ G!Snapshot.state = "available" /\ G!Snapshot.at = cached.at /\ G!Snapshot.sky = cached.sky
          /\ G!Snapshot.fix => cached.fix /\ ~old
          /\ G!Snapshot.view => cached.view /\ ~old /\ (cached.sky = Absent \/ now - cached.sky <= ReportStale)
      BY <2>4, <3>1, <3>2 DEF Available
    <3>4. cached.at \in Time /\ cached.sky \in Time
      BY <3>2 DEF Available
    <3>5. cached.at # Absent /\ ~old => now - cached.at <= ReportStale
      BY <2>1, <3>4 DEF Time
    <3>6. cached.view /\ cached.sky = Absent => cached.at # Absent
      BY <2>4 DEF CollectorInv, Supported
    <3>7. G!Snapshot.view => \E t \in {G!Snapshot.sky, G!Snapshot.at} \ {Absent} : now - t <= ReportStale
      <4> HIDE DEF old
      <4> QED BY <3>3, <3>5, <3>6
    <3>8. G!Snapshot.fix /\ G!Snapshot.at # Absent => now - G!Snapshot.at <= ReportStale
      <4> HIDE DEF old
      <4> QED BY <3>3, <3>5
    <3> QED BY <2>1, <2>2, <3>3, <3>7, <3>8 DEF G!SnapshotsAreCurrent
  <2> QED BY <2>3, <2>4
<1> QED BY <1>1, <1>2
-----------------------------------------------------------------------------
(***************************************************************************)
(* The history: segments and discontinuities are counted alike, whether or *)
(* not the observation on which one falls is stored, for every retention,  *)
(* sampling and correction of the clock.                                   *)
(***************************************************************************)
CONSTANTS SeriesValues, MinuteTicks, SampleTicks, KeepTicks, Corrections, MaxTicks

VARIABLES obs, minutes, nextId, mono, skew, seg, stored, paused, failed, breaks

H == INSTANCE HistoryStore WITH Values <- SeriesValues, None <- Absent, Minute <- MinuteTicks, Sample <- SampleTicks,
        Keep <- KeepTicks

HistoryInv == seg = breaks /\ \A r \in obs : r.seg = r.breaks

LEMMA HistoryStarts == ASSUME H!Init PROVE HistoryInv
  BY DEF H!Init, HistoryInv

LEMMA HistorySteps ==
    ASSUME HistoryInv, [H!Next]_H!histvars
    PROVE  HistoryInv'
<1>1. ASSUME NEW value, NEW loss, NEW back, NEW gap, NEW prune \in {"not due", "age", "size"}, NEW fails,
             H!Observe(value, loss, back, gap, prune, fails)
      PROVE  HistoryInv'
  <2> DEFINE broken == loss \/ back > 0 \/ gap # paused \/ mono = 0
  <2>1. PICK o : o = [id |-> nextId, time |-> mono + 1 - (skew + back), seg |-> H!SegmentNow(broken),
                      value |-> IF gap THEN Absent ELSE value,
                      breaks |-> IF broken \/ failed THEN breaks + 1 ELSE breaks]
    OBVIOUS
  <2>2. PICK left : left = H!Pruned(mono + 1 - (skew + back), prune)
    OBVIOUS
  <2>3. seg' = o.seg /\ breaks' = o.breaks /\ (obs' = left \cup {o} \/ obs' = left)
    BY <1>1, <2>1, <2>2 DEF H!Observe
  <2>4. o.seg = o.breaks
    BY <2>1 DEF H!SegmentNow, HistoryInv
  <2>5. \A r \in left : r.seg = r.breaks
    <3>1. prune \in {"not due", "age", "size"} => left \subseteq obs
      BY <2>2 DEF H!Pruned
    <3> QED BY <3>1 DEF HistoryInv
  <2> QED BY <2>3, <2>4, <2>5 DEF HistoryInv
<1>2. CASE UNCHANGED H!histvars
  BY <1>2 DEF H!histvars, HistoryInv
<1> QED BY <1>1, <1>2 DEF H!Next

\* HistoryStore's SegmentsDoNotBridge.
LEMMA SegmentsAreOne == HistoryInv => H!SegmentsDoNotBridge
  BY DEF HistoryInv, H!SegmentsDoNotBridge
-----------------------------------------------------------------------------
(***************************************************************************)
(* The display's estimates: the mean and the forecast keep to one unbroken  *)
(* stretch of swings, and a full window holds no swing from before it began.*)
(*                                                                         *)
(* The last filling samples of the window are the ones measured since it    *)
(* last began or paused (WindowHolds), so a full window has only these; and *)
(* what a checkpoint brings back lies before all of them.                   *)
(***************************************************************************)
CONSTANTS MeanWindow, MeanSilence, ClockHoldover, DisplayEnd

VARIABLES line, seq, clockAt, est, forecast, pending, since

D == INSTANCE DisplayEstimates WITH Window <- MeanWindow, Silence <- MeanSilence, Holdover <- ClockHoldover,
        MaxTime <- DisplayEnd

Sample   == [at : Int, line : Int]
Estimate == [follows : BOOLEAN, samples : Seq(Sample), filling : 0 .. MeanWindow, paused : BOOLEAN,
             restored : SUBSET Int, swingAt : Int, captureAt : Int, unclocked : BOOLEAN]
Saved    == [at : Int, saved : Int, utc : BOOLEAN, boot : BOOLEAN, times : SUBSET Int]

\* The window e at time n, on the stretch ln, when the mean began or paused at s.
WindowHolds(e, n, ln, s) ==
    /\ e \in Estimate
    /\ Len(e.samples) <= MeanWindow /\ e.filling <= Len(e.samples)
    /\ \A i \in 1 .. Len(e.samples) : e.samples[i].line = ln /\ e.samples[i].at <= n
    /\ \A i \in 1 .. Len(e.samples) : i > Len(e.samples) - e.filling => e.samples[i].at > s
    /\ \A i, j \in 1 .. Len(e.samples) : i < j => e.samples[i].at < e.samples[j].at
    /\ \A i \in 1 .. Len(e.samples), at \in e.restored : at < e.samples[i].at
    /\ e.samples = <<>> => e.restored = {}

WindowSound(e, n, ln, s) == WindowHolds(e, n, ln, s) /\ (e.filling = MeanWindow => e.restored = {})

\* The forecast f on the stretch ln.
ForecastSound(f, ln) ==
    /\ f.next # D!Nobody => f.next.line = ln
    /\ f.score # D!Nobody => f.score.foretold = f.score.line

EstimatesInv ==
    /\ now \in Nat /\ line \in Int /\ since \in Int /\ since <= now
    /\ WindowSound(est, now, line, since) /\ ForecastSound(forecast, line)
    /\ est.follows \/ (est = D!NoSwingYet /\ forecast.next = D!Nobody)
    /\ pending \in Saved \cup {D!Nobody} /\ file \in Saved \cup {D!Nobody}

LEMMA EmptyIsSound ==
    ASSUME D!EstimatesAssumption, NEW e \in {D!FreshWindow, D!NoSwingYet}, NEW n, NEW ln, NEW s
    PROVE  WindowSound(e, n, ln, s)
<1>1. e \in Estimate /\ e.samples = <<>> /\ e.restored = {} /\ e.filling = 0
  <2>0. <<>> \in Seq(Sample) /\ 0 \in 0 .. MeanWindow /\ {} \in SUBSET Int /\ -1 \in Int
    BY DEF D!EstimatesAssumption
  <2>1. D!FreshWindow = [follows |-> TRUE, samples |-> <<>>, filling |-> 0, paused |-> FALSE, restored |-> {},
                         swingAt |-> -1, captureAt |-> -1, unclocked |-> FALSE]
    BY DEF D!FreshWindow, D!None
  <2> DEFINE w == D!FreshWindow
  <2>2. w \in Estimate /\ w.samples = <<>> /\ w.restored = {} /\ w.filling = 0
    BY <2>0, <2>1 DEF Estimate
  <2>3. D!NoSwingYet = [w EXCEPT !.follows = FALSE]
    BY DEF D!NoSwingYet
  <2> HIDE DEF w
  <2>4. e = w \/ e = [w EXCEPT !.follows = FALSE]
    BY <2>3 DEF w
  <2> QED BY <2>2, <2>4 DEF Estimate
<1>2. Len(e.samples) = 0 /\ 1 .. Len(e.samples) = {} /\ MeanWindow \in Nat
  BY <1>1 DEF D!EstimatesAssumption
<1> QED BY <1>1, <1>2 DEF WindowSound, WindowHolds

\* h is s with x after it, without its first element when s was full.
Appended(h, s, x) ==
    /\ h \in Seq(Sample)
    /\ Len(s) < MeanWindow => Len(h) = Len(s) + 1 /\ \A i \in 1 .. Len(s) : h[i] = s[i]
    /\ Len(s) = MeanWindow => Len(h) = MeanWindow /\ \A i \in 1 .. MeanWindow - 1 : h[i] = s[i + 1]
    /\ Len(h) > 0 /\ h[Len(h)] = x

LEMMA LatestOf ==
    ASSUME D!EstimatesAssumption, NEW s \in Seq(Sample), Len(s) <= MeanWindow, NEW x \in Sample,
           NEW g, g = D!Latest(Append(s, x), MeanWindow)
    PROVE  Appended(g, s, x)
<1> DEFINE n == MeanWindow
<1>0. n \in Nat \ {0} /\ Len(s) <= n /\ g = D!Latest(Append(s, x), n)
  BY DEF D!EstimatesAssumption
<1> SUFFICES /\ g \in Seq(Sample)
             /\ Len(s) < n => Len(g) = Len(s) + 1 /\ \A i \in 1 .. Len(s) : g[i] = s[i]
             /\ Len(s) = n => Len(g) = n /\ \A i \in 1 .. n - 1 : g[i] = s[i + 1]
             /\ Len(g) > 0 /\ g[Len(g)] = x
  BY DEF Appended
<1> HIDE DEF n
<1>1. CASE Len(s) < n
  <2>1. g = Append(s, x)
    <3>1. Len(Append(s, x)) <= n
      BY <1>0, <1>1
    <3>2. D!Latest(Append(s, x), n) = Append(s, x)
      BY <3>1 DEF D!Latest
    <3> QED BY <1>0, <3>2
  <2> QED BY <1>0, <1>1, <2>1
<1>2. CASE Len(s) = n
  <2> DEFINE a == Append(s, x)
  <2>0. a \in Seq(Sample) /\ Len(a) = n + 1 /\ n + 1 - n + 1 = 2 /\ ~(Len(a) <= n)
    BY <1>0, <1>2
  <2> HIDE DEF a
  <2>1. g = SubSeq(a, 2, n + 1)
    <3>1. g = D!Latest(a, n)
      BY <1>0 DEF a
    <3>2. D!Latest(a, n) = SubSeq(a, Len(a) - n + 1, Len(a))
      BY <1>0, <2>0 DEF D!Latest
    <3>3. Len(a) - n + 1 = 2 /\ Len(a) = n + 1
      BY <1>0, <2>0
    <3> QED BY <3>1, <3>2, <3>3
  <2>2. g \in Seq(Sample) /\ Len(g) = n /\ \A i \in 1 .. n : g[i] = a[i + 1]
    BY <1>0, <2>0, <2>1
  <2>3. a[n + 1] = x /\ \A i \in 1 .. n - 1 : a[i + 1] = s[i + 1]
    BY <1>0, <1>2 DEF a
  <2>4. Len(g) = n /\ n \in 1 .. n /\ g[n] = x
    BY <1>0, <2>2, <2>3
  <2>5. \A i \in 1 .. n - 1 : g[i] = s[i + 1]
    BY <1>0, <2>2, <2>3
  <2> QED BY <1>0, <1>2, <2>2, <2>4, <2>5
<1> QED BY <1>0, <1>1, <1>2

LEMMA WindowTakes ==
    ASSUME D!EstimatesAssumption, NEW e, NEW n \in Int, NEW ln \in Int, NEW s \in Int, s <= n, WindowHolds(e, n, ln, s),
           NEW g \in Estimate, g.samples = D!Latest(Append(e.samples, [at |-> n + 1, line |-> ln]), MeanWindow),
           g.filling = IF e.filling < MeanWindow THEN e.filling + 1 ELSE e.filling,
           g.restored = e.restored
    PROVE  WindowHolds(g, n + 1, ln, s)
<1> DEFINE x == [at |-> n + 1, line |-> ln]
<1>1. x \in Sample /\ x.at = n + 1 /\ x.line = ln /\ MeanWindow \in Nat \ {0}
  BY DEF Sample, D!EstimatesAssumption
<1>2. e.samples \in Seq(Sample) /\ Len(e.samples) <= MeanWindow /\ e.filling \in 0 .. MeanWindow
  BY DEF WindowHolds, Estimate
<1>3. g.samples = D!Latest(Append(e.samples, x), MeanWindow)
  OBVIOUS
<1> HIDE DEF x
<1>4. /\ g.samples \in Seq(Sample)
      /\ Len(e.samples) < MeanWindow => Len(g.samples) = Len(e.samples) + 1 /\ \A i \in 1 .. Len(e.samples) : g.samples[i] = e.samples[i]
      /\ Len(e.samples) = MeanWindow => Len(g.samples) = MeanWindow /\ \A i \in 1 .. MeanWindow - 1 : g.samples[i] = e.samples[i + 1]
      /\ Len(g.samples) > 0 /\ g.samples[Len(g.samples)] = x
  <2>1. Appended(g.samples, e.samples, x)
    BY <1>1, <1>2, <1>3, LatestOf, Zenon
  <2> QED BY <2>1 DEF Appended
\* A sample of g is x or one of e.
<1> DEFINE d == IF Len(e.samples) < MeanWindow THEN 0 ELSE 1
<1>5. d \in {0, 1} /\ Len(g.samples) = Len(e.samples) + 1 - d /\ Len(g.samples) <= MeanWindow /\ Len(e.samples) \in Nat
      /\ \A i \in 1 .. Len(g.samples) - 1 : i + d \in 1 .. Len(e.samples) /\ g.samples[i] = e.samples[i + d]
  <2>0. Len(e.samples) \in Nat /\ MeanWindow \in Nat \ {0} /\ Len(e.samples) <= MeanWindow
    BY <1>1, <1>2
  <2>1. CASE Len(e.samples) < MeanWindow
    <3>1. d = 0 /\ Len(g.samples) = Len(e.samples) + 1
      BY <1>4, <2>1
    <3> HIDE DEF d
    <3> QED BY <1>4, <2>0, <2>1, <3>1
  <2>2. CASE Len(e.samples) = MeanWindow
    <3>1. d = 1 /\ Len(g.samples) = MeanWindow
      BY <1>4, <2>0, <2>2
    <3> HIDE DEF d
    <3> QED BY <1>4, <2>0, <2>2, <3>1
  <2>3. Len(e.samples) < MeanWindow \/ Len(e.samples) = MeanWindow
    BY <2>0
  <2> QED BY <2>1, <2>2, <2>3, Zenon
<1> HIDE DEF d
<1>6. \A i \in 1 .. Len(e.samples) : e.samples[i].line = ln /\ e.samples[i].at <= n /\ e.samples[i] \in Sample
  BY <1>2 DEF WindowHolds
<1>7. \A i \in 1 .. Len(g.samples) : g.samples[i].line = ln /\ g.samples[i].at <= n + 1 /\ g.samples[i].at \in Int
  <2> TAKE i \in 1 .. Len(g.samples)
  <2>1. CASE i = Len(g.samples)
    BY <1>1, <1>4, <2>1
  <2>2. CASE i # Len(g.samples)
    <3>1. i \in 1 .. Len(g.samples) - 1
      BY <1>5, <2>2
    <3>2. g.samples[i] \in Sample /\ g.samples[i].line = ln /\ g.samples[i].at <= n
      BY <1>5, <1>6, <3>1
    <3> QED BY <3>2 DEF Sample
  <2> QED BY <2>1, <2>2
<1>8. g.filling <= Len(g.samples)
  BY <1>1, <1>2, <1>5 DEF WindowHolds, d
<1>9. \A i \in 1 .. Len(g.samples) : i > Len(g.samples) - g.filling => g.samples[i].at > s
  <2> SUFFICES ASSUME NEW i \in 1 .. Len(g.samples), i > Len(g.samples) - g.filling PROVE g.samples[i].at > s
    OBVIOUS
  <2>1. CASE i = Len(g.samples)
    BY <1>1, <1>4, <2>1
  <2>2. CASE i # Len(g.samples)
    <3>1. i \in 1 .. Len(g.samples) - 1
      BY <1>5, <2>2
    <3>2. i + d \in 1 .. Len(e.samples) /\ i + d > Len(e.samples) - e.filling
      BY <1>1, <1>2, <1>5, <3>1 DEF WindowHolds, d
    <3> QED BY <1>5, <3>1, <3>2 DEF WindowHolds
  <2> QED BY <2>1, <2>2
<1>10. \A i, j \in 1 .. Len(g.samples) : i < j => g.samples[i].at < g.samples[j].at
  <2> SUFFICES ASSUME NEW i \in 1 .. Len(g.samples), NEW j \in 1 .. Len(g.samples), i < j PROVE g.samples[i].at < g.samples[j].at
    OBVIOUS
  <2>1. i \in 1 .. Len(g.samples) - 1
    BY <1>5
  <2>2. g.samples[i].at <= n /\ g.samples[i].at \in Int
    BY <1>5, <1>6, <1>7, <2>1
  <2>3. CASE j = Len(g.samples)
    BY <1>1, <1>4, <2>2, <2>3
  <2>4. CASE j # Len(g.samples)
    <3>1. j \in 1 .. Len(g.samples) - 1 /\ i + d < j + d
      BY <1>5, <2>4
    <3> QED BY <1>5, <2>1, <3>1 DEF WindowHolds
  <2> QED BY <2>3, <2>4
<1>11. \A i \in 1 .. Len(g.samples), at \in g.restored : at < g.samples[i].at
  <2> SUFFICES ASSUME NEW i \in 1 .. Len(g.samples), NEW at \in g.restored PROVE at < g.samples[i].at
    OBVIOUS
  <2>1. at \in Int /\ at \in e.restored /\ e.samples # <<>>
    BY DEF WindowHolds, Estimate
  <2>2. Len(e.samples) > 0 /\ 1 \in 1 .. Len(e.samples)
    BY <1>2, <2>1
  <2>3. at < e.samples[1].at /\ e.samples[1].at <= n /\ e.samples[1].at \in Int
    BY <1>6, <2>1, <2>2 DEF WindowHolds, Sample
  <2>4. CASE i = Len(g.samples)
    BY <1>1, <1>4, <2>1, <2>3, <2>4
  <2>5. CASE i # Len(g.samples)
    <3>1. i \in 1 .. Len(g.samples) - 1
      BY <1>5, <2>5
    <3> QED BY <1>5, <2>1, <3>1 DEF WindowHolds
  <2> QED BY <2>4, <2>5
<1>12. g.samples # <<>>
  BY <1>4
<1> QED BY <1>5, <1>7, <1>8, <1>9, <1>10, <1>11, <1>12 DEF WindowHolds

\* _expire_restored() only takes away.
LEMMA WindowExpires ==
    ASSUME D!EstimatesAssumption, NEW e, NEW n \in Int, NEW ln, NEW s, NEW t \in Int, WindowHolds(e, n, ln, s),
           NEW g, g = D!Expire(e, t)
    PROVE  /\ WindowSound(g, n, ln, s) /\ g.samples = e.samples /\ g.filling = e.filling
           /\ g.follows = e.follows /\ g.swingAt = e.swingAt
<1>1. e \in Estimate /\ MeanWindow \in Nat \ {0}
  BY DEF WindowHolds, D!EstimatesAssumption
<1> DEFINE kept == IF e.filling >= MeanWindow THEN {} ELSE D!Younger(e.restored, t)
<1>2. kept \in SUBSET e.restored /\ kept \in SUBSET Int /\ (e.filling = MeanWindow => kept = {})
  BY <1>1 DEF Estimate, D!Younger
<1>3. g = [e EXCEPT !.restored = kept]
  BY DEF D!Expire
<1> HIDE DEF kept
<1>4. g \in Estimate /\ g.restored = kept /\ g.samples = e.samples /\ g.filling = e.filling
      /\ g.follows = e.follows /\ g.swingAt = e.swingAt
  BY <1>1, <1>2, <1>3 DEF Estimate
<1>5. WindowHolds(g, n, ln, s)
  BY <1>2, <1>4 DEF WindowHolds
<1> QED BY <1>2, <1>4, <1>5 DEF WindowSound

\* MeanCheckpoint.restore() brings back only what lies before the window.
LEMMA WindowRestores ==
    ASSUME D!EstimatesAssumption, NEW e, NEW n, NEW ln, NEW s, NEW t \in Int, WindowSound(e, n, ln, s),
           pending \in Saved, e.filling < MeanWindow, e.samples # <<>>, NEW g, g = D!Restored(e, t)
    PROVE  WindowSound(g, n, ln, s) /\ g.follows = e.follows
<1> DEFINE fits == {at \in D!Younger(pending.times, t) : at < e.samples[1].at}
<1>1. e \in Estimate /\ WindowHolds(e, n, ln, s) /\ e.samples \in Seq(Sample) /\ Len(e.samples) > 0
  BY DEF WindowSound, WindowHolds, Estimate
<1>2. fits \in SUBSET Int /\ \A at \in fits : at < e.samples[1].at
  BY DEF D!Younger, Saved
<1>3. g = e \/ g = [e EXCEPT !.restored = fits]
  BY DEF D!Restored
<1> HIDE DEF fits
<1>4. CASE g = e
  BY <1>4
<1>5. CASE g = [e EXCEPT !.restored = fits]
  <2>1. g \in Estimate /\ g.restored = fits /\ g.samples = e.samples /\ g.filling = e.filling /\ g.follows = e.follows
    BY <1>1, <1>2, <1>5 DEF Estimate
  <2>2. \A i \in 1 .. Len(g.samples), at \in g.restored : at < g.samples[i].at
    <3> SUFFICES ASSUME NEW i \in 1 .. Len(e.samples), NEW at \in fits PROVE at < e.samples[i].at
      BY <2>1
    <3>1. at \in Int /\ at < e.samples[1].at /\ 1 \in 1 .. Len(e.samples)
      BY <1>1, <1>2
    <3>2. e.samples[1] \in Sample /\ e.samples[i] \in Sample
      BY <1>1, <3>1
    <3>3. i = 1 \/ e.samples[1].at < e.samples[i].at
      BY <1>1, <3>1 DEF WindowHolds
    <3> QED BY <3>1, <3>2, <3>3 DEF Sample
  <2>3. WindowHolds(g, n, ln, s)
    BY <1>1, <2>1, <2>2 DEF WindowHolds
  <2> QED BY <1>1, <2>1, <2>3 DEF WindowSound, Estimate, WindowHolds
<1> QED BY <1>3, <1>4, <1>5

\* Time passes, or the mean pauses.
LEMMA WindowLasts ==
    ASSUME NEW e, NEW n \in Int, NEW ln, NEW s, WindowHolds(e, n, ln, s) PROVE WindowHolds(e, n + 1, ln, s)
<1>1. \A i \in 1 .. Len(e.samples) : e.samples[i] \in Sample
  BY DEF WindowHolds, Estimate
<1>2. \A i \in 1 .. Len(e.samples) : e.samples[i].at <= n + 1
  BY <1>1 DEF WindowHolds, Sample
<1> QED BY <1>2 DEF WindowHolds

PausedAt(e, t) == [D!Paused(e) EXCEPT !.captureAt = t, !.follows = TRUE]
Since(e, s, t) == IF e.unclocked THEN s ELSE t

LEMMA WindowPauses ==
    ASSUME D!EstimatesAssumption, NEW e, NEW n, NEW ln, NEW s, NEW t \in Int, WindowHolds(e, n, ln, s),
           NEW g, g = PausedAt(e, t)
    PROVE  WindowHolds(g, n, ln, Since(e, s, t)) /\ (g.filling = MeanWindow => e.filling = MeanWindow /\ g.restored = e.restored) /\ g.follows
<1>1. e \in Estimate /\ MeanWindow \in Nat \ {0}
  BY DEF WindowHolds, D!EstimatesAssumption
<1>2. g \in Estimate /\ g.samples = e.samples /\ g.restored = e.restored /\ g.follows
      /\ g.filling = (IF e.unclocked THEN e.filling ELSE 0)
  <2> DEFINE p == D!Paused(e)
  <2>1. p = [e EXCEPT !.paused = TRUE, !.filling = IF e.unclocked THEN e.filling ELSE 0, !.unclocked = TRUE]
    BY DEF D!Paused
  <2>2. p \in Estimate /\ p.samples = e.samples /\ p.restored = e.restored
        /\ p.filling = (IF e.unclocked THEN e.filling ELSE 0)
    <3>1. (IF e.unclocked THEN e.filling ELSE 0) \in 0 .. MeanWindow
      BY <1>1 DEF Estimate
    <3> QED BY <1>1, <2>1, <3>1 DEF Estimate
  <2>3. g = [p EXCEPT !.captureAt = t, !.follows = TRUE]
    BY DEF PausedAt
  <2> HIDE DEF p
  <2> QED BY <2>2, <2>3 DEF Estimate
<1>3. CASE e.unclocked
  BY <1>1, <1>2, <1>3 DEF WindowHolds, Since
<1>4. CASE ~e.unclocked
  <2>1. g.filling = 0 /\ Len(e.samples) \in Nat
    BY <1>1, <1>2, <1>4 DEF Estimate
  <2> QED BY <1>1, <1>2, <2>1 DEF WindowHolds, Since
<1> QED BY <1>3, <1>4

LEMMA EstimatesStart == ASSUME D!EstimatesAssumption, D!Init PROVE EstimatesInv
<1>1. D!NoSwingYet.follows = FALSE \/ est.follows
  BY DEF D!Init, D!NoSwingYet, D!FreshWindow
<1>2. WindowSound(est, now, line, since)
  BY EmptyIsSound DEF D!Init
<1>3. ForecastSound(forecast, line) /\ forecast.next = D!Nobody
  BY DEF D!Init, D!FreshForecast, ForecastSound
<1> QED BY <1>2, <1>3 DEF D!Init, EstimatesInv

\* The estimates begin anew.
LEMMA AnewKeeps ==
    ASSUME D!EstimatesAssumption, EstimatesInv, NEW kept \in Saved \cup {D!Nobody}, D!Anew(kept)
    PROVE  EstimatesInv'
<1>1. WindowSound(est', now', line', since')
  BY EmptyIsSound DEF D!Anew
<1>2. ForecastSound(forecast', line') /\ forecast'.next = D!Nobody
  BY DEF D!Anew, D!FreshForecast, ForecastSound
<1>3. now' \in Nat /\ line' \in Int /\ since' \in Int /\ since' <= now' /\ file' \in Saved \cup {D!Nobody}
      /\ pending' \in Saved \cup {D!Nobody} /\ est' = D!NoSwingYet
  BY DEF D!Anew, EstimatesInv
<1> QED BY <1>1, <1>2, <1>3 DEF EstimatesInv

\* One average more: RollingSwingMean.observe().
LEMMA WindowAverages ==
    ASSUME D!EstimatesAssumption, NEW e, NEW s \in Int, now \in Int, s <= now, line' \in Int, now' = now + 1,
           WindowHolds(e, now, line', s), NEW g, g = D!Averaged(e, now')
    PROVE  WindowSound(g, now', line', s) /\ g.follows /\ g.samples # <<>>
<1> DEFINE x == [at |-> now + 1, line |-> line']
           q == D!Latest(Append(e.samples, x), MeanWindow)
           k == IF e.filling < MeanWindow THEN e.filling + 1 ELSE e.filling
           w == [e EXCEPT !.samples = q, !.filling = k, !.paused = FALSE, !.unclocked = FALSE, !.follows = TRUE,
                          !.swingAt = now', !.captureAt = now']
<1>1. e \in Estimate /\ e.samples \in Seq(Sample) /\ Len(e.samples) <= MeanWindow /\ e.filling \in 0 .. MeanWindow
  BY DEF WindowHolds, Estimate
<1>2. x \in Sample /\ k \in 0 .. MeanWindow /\ now' \in Int
  BY <1>1 DEF Sample, D!EstimatesAssumption
<1>3. g = D!Expire(w, now')
  BY DEF D!Averaged
<1>4. q \in Seq(Sample) /\ q # <<>>
  <2>1. Appended(q, e.samples, x)
    BY <1>1, <1>2, LatestOf
  <2> QED BY <2>1 DEF Appended
<1>5. q = D!Latest(Append(e.samples, [at |-> now + 1, line |-> line']), MeanWindow)
      /\ k = IF e.filling < MeanWindow THEN e.filling + 1 ELSE e.filling
  OBVIOUS
<1> HIDE DEF q, k, x
<1>6. w \in Estimate /\ w.samples = q /\ w.filling = k /\ w.restored = e.restored /\ w.follows
  BY <1>1, <1>2, <1>4 DEF Estimate
<1> HIDE DEF w
<1>7. WindowHolds(w, now', line', s)
  BY <1>5, <1>6, WindowTakes
<1>8. WindowSound(g, now', line', s) /\ g.samples = w.samples /\ g.follows = w.follows
  BY <1>2, <1>3, <1>7, WindowExpires
<1> QED BY <1>4, <1>6, <1>8

LEMMA SwingKeeps ==
    ASSUME D!EstimatesAssumption, EstimatesInv, NEW kind \in {"next", "gap", "broken", "invalid"},
           NEW trusted \in BOOLEAN, D!Swing(kind, trusted)
    PROVE  EstimatesInv'
<1> DEFINE silent == est.captureAt # D!None /\ now' - est.captureAt >= MeanSilence
           reset  == D!Resets(kind) \/ silent
           e0     == IF reset THEN D!FreshWindow ELSE est
           f0     == IF reset THEN D!FreshForecast ELSE forecast
           early  == IF reset THEN D!Nobody ELSE pending
           e1     == D!Averaged(e0, now')
           tries  == early # D!Nobody /\ D!CanRestore(e1, now', trusted)
           begun  == IF reset THEN now ELSE since
<1>1. now' = now + 1 /\ file' = file
      /\ line' = (CASE kind = "next" -> line [] kind = "invalid" -> now' [] OTHER -> now)
  BY DEF D!Swing
<1>2. /\ kind = "invalid" => est' = D!FreshWindow /\ forecast' = f0 /\ pending' = early /\ since' = now'
      /\ kind # "invalid" /\ ~D!Calibrated(now') =>
            /\ est' = [D!Paused(e0) EXCEPT !.captureAt = now', !.follows = TRUE]
            /\ forecast' = IF e0.unclocked THEN f0 ELSE D!FreshForecast
            /\ pending' = early /\ since' = IF e0.unclocked THEN since ELSE now'
      /\ kind # "invalid" /\ D!Calibrated(now') =>
            /\ est' = IF tries THEN D!Restored(e1, now') ELSE e1
            /\ forecast' = D!Foretold(f0, seq', now')
            /\ pending' = IF tries \/ e1.filling >= MeanWindow THEN D!Nobody ELSE early
            /\ since' = begun
  BY DEF D!Swing
<1>3. /\ reset => e0 = D!FreshWindow /\ f0 = D!FreshForecast /\ early = D!Nobody /\ begun = now
      /\ ~reset => e0 = est /\ f0 = forecast /\ early = pending /\ begun = since
                  /\ kind # "invalid" /\ (est.follows => kind = "next")
  BY DEF D!Resets
<1>4. now' \in Nat /\ line' \in Int /\ now' \in Int /\ now \in Int /\ kind \in {"next", "gap", "broken", "invalid"}
  BY <1>1 DEF EstimatesInv
<1>5. begun \in Int /\ begun <= now /\ begun <= now' /\ early \in Saved \cup {D!Nobody} /\ (early # D!Nobody => early = pending)
  BY <1>1, <1>3, <1>4 DEF EstimatesInv
<1>6. file' \in Saved \cup {D!Nobody}
  BY <1>1 DEF EstimatesInv
<1> HIDE DEF silent, reset, e0, f0, early, e1, tries, begun
\* It goes on with a window of the stretch to which the swing belongs.
<1>7. WindowSound(e0, now, line', begun)
  <2>1. CASE reset
    BY <1>3, <2>1, EmptyIsSound
  <2>2. CASE ~reset /\ est.follows
    <3>1. line' = line
      BY <1>1, <1>3, <2>2
    <3> QED BY <1>3, <2>2, <3>1 DEF EstimatesInv
  <2>3. CASE ~reset /\ ~est.follows
    <3>1. e0 = D!NoSwingYet
      BY <1>3, <2>3 DEF EstimatesInv
    <3> QED BY <3>1, EmptyIsSound
  <2> QED BY <2>1, <2>2, <2>3
<1>8. ForecastSound(f0, line')
  <2>1. CASE reset
    BY <1>3, <2>1 DEF D!FreshForecast, ForecastSound
  <2>2. CASE ~reset /\ est.follows
    <3>1. line' = line
      BY <1>1, <1>3, <2>2
    <3> QED BY <1>3, <2>2, <3>1 DEF EstimatesInv
  <2>3. CASE ~reset /\ ~est.follows
    BY <1>3, <2>3 DEF EstimatesInv, ForecastSound
  <2> QED BY <2>1, <2>2, <2>3
<1>9. CASE kind = "invalid"
  <2>1. WindowSound(est', now', line', since')
    BY <1>2, <1>9, EmptyIsSound
  <2>2. est'.follows /\ since' = now'
    BY <1>2, <1>9 DEF D!FreshWindow
  <2> QED BY <1>2, <1>4, <1>5, <1>6, <1>8, <1>9, <2>1, <2>2 DEF EstimatesInv
<1>10. CASE kind # "invalid" /\ ~D!Calibrated(now')
  <2>1. e0.unclocked => begun = since
    BY <1>3 DEF D!FreshWindow
  <2>2. since' = IF e0.unclocked THEN begun ELSE now'
    BY <1>2, <1>10, <2>1
  <2>3. WindowHolds(e0, now', line', begun)
    BY <1>1, <1>4, <1>7, WindowLasts DEF WindowSound
  <2>4. WindowHolds(est', now', line', since') /\ est'.follows
        /\ (est'.filling = MeanWindow => e0.filling = MeanWindow /\ est'.restored = e0.restored)
    <3>1. est' = PausedAt(e0, now') /\ since' = Since(e0, begun, now')
      BY <1>2, <1>10, <2>2 DEF PausedAt, Since
    <3>2. WindowHolds(est', now', line', Since(e0, begun, now')) /\ est'.follows
          /\ (est'.filling = MeanWindow => e0.filling = MeanWindow /\ est'.restored = e0.restored)
      BY <1>4, <2>3, <3>1, WindowPauses
    <3> QED BY <3>1, <3>2
  <2>5. WindowSound(est', now', line', since')
    BY <1>7, <2>4 DEF WindowSound
  <2>6. ForecastSound(forecast', line')
    BY <1>2, <1>8, <1>10 DEF D!FreshForecast, ForecastSound
  <2>7. since' \in Int /\ since' <= now'
    BY <1>4, <1>5, <2>2
  <2> QED BY <1>2, <1>4, <1>5, <1>6, <1>10, <2>4, <2>5, <2>6, <2>7 DEF EstimatesInv
<1>11. CASE kind # "invalid" /\ D!Calibrated(now')
  <2>1. WindowSound(e1, now', line', begun) /\ e1.follows /\ e1.samples # <<>>
    BY <1>1, <1>4, <1>5, <1>7, WindowAverages DEF WindowSound, e1
  <2>2. WindowSound(est', now', line', begun) /\ est'.follows
    <3>1. CASE tries
      <4>1. pending \in Saved /\ e1.filling < MeanWindow
        BY <1>5, <3>1 DEF tries, D!CanRestore, EstimatesInv
      <4>2. est' = D!Restored(e1, now')
        BY <1>2, <1>11, <3>1
      <4> QED BY <1>4, <2>1, <4>1, <4>2, WindowRestores
    <3>2. CASE ~tries
      BY <1>2, <1>11, <2>1, <3>2
    <3> QED BY <3>1, <3>2
  <2>3. ForecastSound(forecast', line')
    <3>1. forecast'.next.line = line'
          /\ (forecast'.score = f0.score \/ (f0.next # D!Nobody /\ forecast'.score.foretold = f0.next.line /\ forecast'.score.line = line'))
      BY <1>2, <1>11 DEF D!Foretold
    <3> QED BY <1>8, <3>1 DEF ForecastSound
  <2>4. since' = begun /\ pending' \in Saved \cup {D!Nobody}
    BY <1>2, <1>5, <1>11
  <2> QED BY <1>4, <1>5, <1>6, <2>2, <2>3, <2>4 DEF EstimatesInv
<1> QED BY <1>9, <1>10, <1>11

\* submit() and the saver thread.
LEMMA CheckpointKeeps ==
    ASSUME D!EstimatesAssumption, EstimatesInv, NEW trusted \in BOOLEAN, D!Checkpoint(trusted)
    PROVE  EstimatesInv'
<1> DEFINE kept  == D!Expire(est, now)
           times == D!Younger(kept.restored \cup {est.samples[i].at : i \in DOMAIN est.samples}, now)
<1>1. est' = kept /\ est.swingAt # D!None
      /\ file' = [at |-> now, saved |-> now, utc |-> trusted, boot |-> TRUE, times |-> times]
      /\ now' = now /\ line' = line /\ since' = since /\ forecast' = forecast /\ pending' = pending
  BY DEF D!Checkpoint
<1>2. WindowSound(est', now, line, since) /\ est'.samples = est.samples /\ est'.follows = est.follows
  BY <1>1, WindowExpires DEF EstimatesInv, WindowSound
<1>3. est.follows
  BY <1>1 DEF EstimatesInv, D!NoSwingYet, D!FreshWindow
<1>4. times \in SUBSET Int
  <2>1. est' \in Estimate
    BY <1>2 DEF WindowSound, WindowHolds
  <2>2. kept.restored \in SUBSET Int /\ est.samples \in Seq(Sample)
    BY <1>1, <1>2, <2>1 DEF Estimate
  <2>3. \A i \in DOMAIN est.samples : est.samples[i] \in Sample
    BY <2>2
  <2>4. \A i \in DOMAIN est.samples : est.samples[i].at \in Int
    BY <2>3 DEF Sample
  <2> QED BY <2>2, <2>4 DEF D!Younger
<1> HIDE DEF times
<1>5. file' \in Saved
  BY <1>1, <1>4 DEF EstimatesInv, Saved
<1> QED BY <1>1, <1>2, <1>3, <1>5 DEF EstimatesInv

LEMMA EstimatesStep == ASSUME D!EstimatesAssumption, EstimatesInv, [D!Next]_(D!esvars) PROVE EstimatesInv'
<1>1. CASE D!Quiet
  <2>1. now' = now + 1 /\ now' \in Nat /\ est' = est /\ line' = line /\ since' = since /\ forecast' = forecast
        /\ pending' = pending /\ file' = file
    BY <1>1 DEF D!Quiet, EstimatesInv
  <2>2. WindowSound(est', now', line', since')
    BY <2>1, WindowLasts DEF EstimatesInv, WindowSound
  <2> QED BY <2>1, <2>2 DEF EstimatesInv
<1>2. CASE D!PpsAccepted
  BY <1>2 DEF D!PpsAccepted, EstimatesInv
<1>3. CASE D!PpsRestarted \/ D!CaptureLoss
  BY <1>3, AnewKeeps DEF D!PpsRestarted, D!CaptureLoss
<1>4. ASSUME NEW sameBoot \in BOOLEAN, D!ServiceStarted(sameBoot) PROVE EstimatesInv'
  <2> DEFINE kept == IF file = D!Nobody \/ (~sameBoot /\ ~file.utc) THEN D!Nobody ELSE [file EXCEPT !.boot = sameBoot]
  <2>1. kept \in Saved \cup {D!Nobody}
    BY DEF EstimatesInv, Saved
  <2>2. D!Anew(kept)
    BY <1>4 DEF D!ServiceStarted
  <2> HIDE DEF kept
  <2> QED BY <2>1, <2>2, AnewKeeps
<1>5. CASE UNCHANGED D!esvars
  BY <1>5 DEF D!esvars, EstimatesInv
<1> QED BY <1>1, <1>2, <1>3, <1>4, <1>5, SwingKeeps, CheckpointKeeps DEF D!Next

LEMMA EstimatesAreSound ==
    ASSUME D!EstimatesAssumption, EstimatesInv PROVE D!EstimatesAreOneTimeline /\ D!FullWindowIsFresh
<1>1. WindowHolds(est, now, line, since) /\ est \in Estimate /\ (est.filling = MeanWindow => est.restored = {})
  BY DEF EstimatesInv, WindowSound, WindowHolds
<1>2. est.samples \in Seq(Sample) /\ DOMAIN est.samples = 1 .. Len(est.samples) /\ Len(est.samples) \in Nat
      /\ est.filling \in 0 .. MeanWindow /\ MeanWindow \in Nat \ {0}
  BY <1>1 DEF Estimate, D!EstimatesAssumption
<1>3. D!EstimatesAreOneTimeline
  BY <1>1, <1>2 DEF D!EstimatesAreOneTimeline, EstimatesInv, ForecastSound, WindowHolds
<1>4. est.filling >= MeanWindow =>
          est.filling = MeanWindow /\ Len(est.samples) = MeanWindow
  BY <1>1, <1>2 DEF WindowHolds
<1>5. est.filling >= MeanWindow => \A i \in 1 .. Len(est.samples) : est.samples[i].at > since
  BY <1>1, <1>2, <1>4 DEF WindowHolds
<1> QED BY <1>1, <1>2, <1>3, <1>4, <1>5 DEF D!FullWindowIsFresh, WindowHolds
-----------------------------------------------------------------------------
(***************************************************************************)
(* The parity of firmware and replay: whatever pulses come, each call of   *)
(* observe() takes the step that the state machine (FreqDiscipliner) takes *)
(* on what the call sees, and no estimate leaves the range of the samples. *)
(*                                                                         *)
(* Both thresholds of a lock lie within those of an unlock, so one second  *)
(* cannot ask for both.  The median that the ring holds is one of its      *)
(* residuals (MedianExists: among the values with half of the ring below   *)
(* them there is a least one), and shifts and blends of numbers of a range *)
(* stay within it, whatever their rounding.                                *)
(***************************************************************************)
CONSTANTS Nominal, TickParts, Million, FullWeight, ResidualWindow, FastShift, SlowShift, BlendLo, BlendHi, LockR, LockMad,
    UnlockR, UnlockMad, LockCount, UnlockCount, AcquireMin, FwHoldover, FwMsRange, FwStart, Widest, Samples, CallSteps, MaxCalls

VARIABLES calls, fw, py

F == INSTANCE FirmwareParity WITH Parts <- TickParts, Full <- FullWeight, Window <- ResidualWindow, Holdover <- FwHoldover,
        MsRange <- FwMsRange, Start <- FwStart, Steps <- CallSteps

\* Every set of naturals that has an element has a least one.
LEMMA LeastNatural ==
    ASSUME NEW Most \in SUBSET Nat, Most # {}
    PROVE  \E k \in Most : \A j \in Most : k <= j
<1>1. PICK k \in Most : \A j \in Most : ~(<<j, k>> \in OpToRel(<, Nat))
  BY NatLessThanWellFounded, WFMin
<1>2. \A j \in Most : ~(j < k)
  BY <1>1 DEF OpToRel
<1> QED BY <1>2

LEMMA SameCardinality == \A S : F!Cardinality(S) = Cardinality(S)
  BY DEF F!Cardinality, Cardinality

AtMost(v, n, k) == {i \in 0 .. n - 1 : v[i] <= k}

\* The median of naturals is one of them.
LEMMA MedianExists ==
    ASSUME NEW n \in Nat \ {0}, NEW limit \in Nat, NEW v, \A i \in 0 .. n - 1 : v[i] \in 0 .. limit
    PROVE  F!Median(v, n) \in 0 .. limit
<1> DEFINE values == {v[i] : i \in 0 .. n - 1}
           Most == {k \in Nat : Cardinality(AtMost(v, n, k)) > n \div 2}
<1>1. IsFiniteSet(0 .. n - 1) /\ Cardinality(0 .. n - 1) = n
  BY FS_Interval
<1>2. \A k : IsFiniteSet(AtMost(v, n, k)) /\ Cardinality(AtMost(v, n, k)) \in Nat
  BY <1>1, FS_Subset, FS_CardinalityType DEF AtMost
<1>3. n > n \div 2 /\ n \div 2 \in Nat
  OBVIOUS
<1>4. limit \in Most
  <2>1. AtMost(v, n, limit) = 0 .. n - 1
    BY DEF AtMost
  <2> QED BY <1>1, <1>3, <2>1
<1>5. PICK k \in Most : \A j \in Most : k <= j
  BY <1>4, LeastNatural
<1> HIDE DEF Most
<1>6. k \in Nat /\ Cardinality(AtMost(v, n, k)) > n \div 2 /\ \A j \in Nat : j < k => ~(Cardinality(AtMost(v, n, j)) > n \div 2)
  BY <1>5 DEF Most
\* Fewer are below k.
<1>7. Cardinality({i \in 0 .. n - 1 : v[i] < k}) <= n \div 2
  <2>1. CASE k = 0
    <3>1. {i \in 0 .. n - 1 : v[i] < k} = {}
      BY <2>1
    <3>2. Cardinality({i \in 0 .. n - 1 : v[i] < k}) = 0
      BY <3>1, FS_EmptySet
    <3> QED BY <1>3, <3>2
  <2>2. CASE k > 0
    <3>1. k - 1 \in Nat /\ k - 1 < k
      BY <1>6, <2>2
    <3>2. {i \in 0 .. n - 1 : v[i] < k} = AtMost(v, n, k - 1)
      BY <1>6, <2>2 DEF AtMost
    <3>3. ~(Cardinality(AtMost(v, n, k - 1)) > n \div 2)
      BY <1>6, <3>1
    <3> QED BY <1>2, <1>3, <3>2, <3>3
  <2> QED BY <1>6, <2>1, <2>2
<1>8. k \in values
  <2> SUFFICES ASSUME \A i \in 0 .. n - 1 : v[i] # k PROVE FALSE
    OBVIOUS
  <2>1. {i \in 0 .. n - 1 : v[i] < k} = AtMost(v, n, k)
    BY <1>6 DEF AtMost
  <2>2. Cardinality(AtMost(v, n, k)) \in Nat
    BY <1>2
  <2>3. Cardinality(AtMost(v, n, k)) <= n \div 2 /\ Cardinality(AtMost(v, n, k)) > n \div 2
    BY <1>6, <1>7, <2>1
  <2> QED BY ONLY <1>3, <2>2, <2>3
<1>9. Cardinality({i \in 0 .. n - 1 : v[i] <= k}) > n \div 2
  BY <1>6 DEF AtMost
<1> DEFINE middle(w) == /\ Cardinality({i \in 0 .. n - 1 : v[i] < w}) <= n \div 2
                        /\ Cardinality({i \in 0 .. n - 1 : v[i] <= w}) > n \div 2
<1>10. middle(k)
  BY <1>7, <1>9
<1>11. F!Median(v, n) = CHOOSE w \in values : middle(w)
  BY SameCardinality DEF F!Median
<1> HIDE DEF middle, values
<1>12. F!Median(v, n) \in values
  BY <1>8, <1>10, <1>11
<1> QED BY <1>12 DEF values

LEMMA AbsIs == ASSUME NEW n \in Int PROVE F!Abs(n) \in Nat /\ (F!Abs(n) = n \/ F!Abs(n) = -n) /\ F!Abs(n) >= n /\ F!Abs(n) >= -n
  BY DEF F!Abs

\* The median of the distances from the median is no larger than the residuals.
LEMMA MadExists ==
    ASSUME NEW n \in Nat \ {0}, NEW limit \in Nat, NEW ring, \A i \in 0 .. n - 1 : ring[i] \in -limit .. limit
    PROVE  F!Mad(ring, n) \in 0 .. limit
<1> DEFINE v == [i \in 0 .. n - 1 |-> F!Abs(ring[i])]
           m == F!Median(v, n)
           w == [i \in 0 .. n - 1 |-> F!Abs(F!Abs(ring[i]) - m)]
<1>1. \A i \in 0 .. n - 1 : F!Abs(ring[i]) \in 0 .. limit
  <2> TAKE i \in 0 .. n - 1
  <2>1. ring[i] \in Int /\ ring[i] <= limit /\ -ring[i] <= limit
    OBVIOUS
  <2>2. F!Abs(ring[i]) \in Nat /\ (F!Abs(ring[i]) = ring[i] \/ F!Abs(ring[i]) = -ring[i])
    BY <2>1, AbsIs
  <2> QED BY <2>1, <2>2
<1>2. \A i \in 0 .. n - 1 : v[i] \in 0 .. limit
  BY <1>1
<1>3. F!Mad(ring, n) = F!Median(w, n)
  BY DEF F!Mad
<1> HIDE DEF v
<1>4. m \in 0 .. limit
  BY <1>2, MedianExists
<1> HIDE DEF m
<1>5. \A i \in 0 .. n - 1 : w[i] \in 0 .. limit
  <2> TAKE i \in 0 .. n - 1
  <2>1. F!Abs(ring[i]) \in 0 .. limit /\ F!Abs(ring[i]) - m \in Int
    BY <1>1, <1>4
  <2>2. F!Abs(F!Abs(ring[i]) - m) \in 0 .. limit
    BY <1>4, <2>1, AbsIs
  <2> QED BY <2>2
<1> HIDE DEF w
<1> QED BY <1>3, <1>5, MedianExists

LEMMA Multiplied == ASSUME NEW a \in Int, NEW b \in Int, NEW m \in Nat, a <= b PROVE a * m <= b * m
OBVIOUS

\* What lies between two multiples has its quotient between them.
LEMMA QuotientBetween ==
    ASSUME NEW m \in Nat \ {0}, NEW x \in Int, NEW a \in Int, NEW b \in Int, a * m <= x, x < (b + 1) * m, NEW q, q = x \div m
    PROVE  q \in Int /\ a <= q /\ q <= b
<1>1. PICK r : r = x % m
  OBVIOUS
<1>2. q \in Int /\ r \in 0 .. m - 1 /\ x = m * q + r
  BY <1>1, Divided
<1>3. CASE q < a
  <2>1. (q + 1) * m <= a * m
    BY <1>2, <1>3, Multiplied
  <2>2. (q + 1) * m = m * q + m
    BY <1>2
  <2>3. a * m \in Int /\ m * q \in Int
    BY <1>2
  <2> QED BY <1>2, <2>1, <2>2, <2>3
<1>4. CASE q > b
  <2>1. (b + 1) * m <= q * m
    BY <1>2, <1>4, Multiplied
  <2>2. q * m = m * q /\ m * q \in Int /\ (b + 1) * m \in Int
    BY <1>2
  <2> QED BY <1>2, <2>1, <2>2
<1> QED BY <1>2, <1>3, <1>4

\* One step of an estimate goes towards the sample and not past it.
LEMMA UpdateBetween ==
    ASSUME F!ParityAssumption, NEW state \in Nat, NEW sample \in Nat, NEW shift \in {FastShift, SlowShift},
           NEW u, u = F!Update(state, sample, shift)
    PROVE  /\ u \in Nat /\ sample * TickParts \in Nat
           /\ \/ sample * TickParts <= u /\ u <= state
              \/ state <= u /\ u <= sample * TickParts
<1> DEFINE target == sample * TickParts
           d == 2^shift
           a == F!Abs(target - state)
           step == a \div d
<1>1. target \in Nat /\ d \in Nat \ {0}
  BY DEF F!ParityAssumption
<1>2. u = IF target < state THEN state - step ELSE state + step
  BY DEF F!Update
<1> HIDE DEF target, d
<1>3. a \in Nat /\ (a = target - state \/ a = state - target) /\ a >= target - state /\ a >= state - target
  BY <1>1, AbsIs
<1> HIDE DEF a
<1>4. step \in Int /\ 0 <= step /\ step <= a
  <2>1. 0 * d <= a /\ a < (a + 1) * d
    <3>1. a * 1 <= a * d
      BY <1>1, <1>3, Multiplied
    <3>2. (a + 1) * d = a * d + d /\ a * d \in Int
      BY <1>1, <1>3
    <3> QED BY <1>1, <1>3, <3>1, <3>2
  <2>2. 0 \in Int /\ a \in Int
    BY <1>3
  <2> HIDE DEF step
  <2>3. step = a \div d
    BY DEF step
  <2> QED BY <1>1, <1>3, <2>1, <2>2, <2>3, QuotientBetween
<1> HIDE DEF step
<1>5. u \in Nat /\ ((target <= u /\ u <= state) \/ (state <= u /\ u <= target))
  BY <1>1, <1>2, <1>3, <1>4
<1> QED BY <1>1, <1>5 DEF target

Given     == Samples \cup {Nominal}
Ranged(f) == f \in Nat /\ \E lo, hi \in Given : lo <= f /\ f <= hi
Scaled(s) == s \in Nat /\ \E lo, hi \in Given : lo * TickParts <= s /\ s <= hi * TickParts

LEMMA GivenIs ==
    ASSUME F!ParityAssumption PROVE Given \in SUBSET (0 .. Widest) /\ Widest \in Nat /\ TickParts \in Nat \ {0} /\ FullWeight \in Nat \ {0}
  BY DEF F!ParityAssumption, Given

LEMMA UpdateKeeps ==
    ASSUME F!ParityAssumption, NEW state, Scaled(state), NEW sample \in Samples, NEW shift \in {FastShift, SlowShift},
           NEW u, u = F!Update(state, sample, shift)
    PROVE  Scaled(u)
<1>1. PICK lo \in Given, hi \in Given : lo * TickParts <= state /\ state <= hi * TickParts
  BY DEF Scaled
<1>2. state \in Nat /\ sample \in Nat /\ sample \in Given /\ lo \in Nat /\ hi \in Nat /\ TickParts \in Nat
  BY GivenIs DEF Scaled, Given
<1>3. u \in Nat /\ sample * TickParts \in Nat
      /\ ((sample * TickParts <= u /\ u <= state) \/ (state <= u /\ u <= sample * TickParts))
  BY <1>2, UpdateBetween
<1>4. lo * TickParts \in Nat /\ hi * TickParts \in Nat
  BY <1>2
<1>5. CASE sample * TickParts <= u /\ u <= state
  <2>1. u <= hi * TickParts
    BY <1>1, <1>2, <1>3, <1>4, <1>5
  <2> QED BY <1>2, <1>3, <1>5, <2>1 DEF Scaled
<1>6. CASE state <= u /\ u <= sample * TickParts
  <2>1. lo * TickParts <= u
    BY <1>1, <1>2, <1>3, <1>4, <1>6
  <2> QED BY <1>2, <1>3, <1>6, <2>1 DEF Scaled
<1> QED BY <1>3, <1>5, <1>6

LEMMA TicksRange ==
    ASSUME F!ParityAssumption, NEW s, Scaled(s), NEW f, f = F!Ticks(s)
    PROVE  Ranged(f)
<1>1. PICK lo \in Given, hi \in Given : lo * TickParts <= s /\ s <= hi * TickParts
  BY DEF Scaled
<1>2. s \in Nat /\ lo \in Nat /\ hi \in Nat /\ TickParts \in Nat \ {0}
  BY GivenIs DEF Scaled
<1> DEFINE h == TickParts \div 2
           x == s + h
<1>3. h \in Nat /\ h < TickParts
  BY <1>2
<1>4. f = x \div TickParts
  BY DEF F!Ticks
<1> HIDE DEF h
<1>5. lo * TickParts <= x /\ x < (hi + 1) * TickParts /\ x \in Int
  <2>1. (hi + 1) * TickParts = hi * TickParts + TickParts /\ hi * TickParts \in Int /\ lo * TickParts \in Int
    BY <1>2
  <2> QED BY <1>1, <1>2, <1>3, <2>1
<1> HIDE DEF x
<1>6. f \in Int /\ lo <= f /\ f <= hi
  <2>1. lo \in Int /\ hi \in Int
    BY <1>2
  <2> QED BY <1>2, <1>4, <1>5, <2>1, QuotientBetween, Zenon
<1> QED BY <1>2, <1>6 DEF Ranged

LEMMA WeightIs == ASSUME F!ParityAssumption, NEW r \in Nat PROVE F!Weight(r) \in 0 .. FullWeight
<1>1. FullWeight \in Nat \ {0} /\ BlendLo \in Nat /\ BlendHi \in Nat
  BY DEF F!ParityAssumption
<1>2. CASE r <= BlendLo \/ r >= BlendHi
  BY <1>1, <1>2 DEF F!Weight
<1>3. CASE ~(r <= BlendLo \/ r >= BlendHi)
  <2> DEFINE m == BlendHi - BlendLo
             n == r - BlendLo
             x == n * FullWeight
             q == x \div m
  <2>1. m \in Nat \ {0} /\ n \in Nat /\ n <= m
    BY <1>1, <1>3
  <2>2. F!Weight(r) = q
    BY <1>3 DEF F!Weight
  <2> HIDE DEF m, n
  <2>3. x \in Nat /\ x <= m * FullWeight
    BY <1>1, <2>1, Multiplied
  <2>4. 0 * m <= x /\ x < (FullWeight + 1) * m
    <3>1. (FullWeight + 1) * m = m * FullWeight + m /\ m * FullWeight \in Int
      BY <1>1, <2>1
    <3> QED BY <2>1, <2>3, <3>1
  <2> HIDE DEF x
  <2>5. x \in Int /\ FullWeight \in Int /\ 0 \in Int
    BY <1>1, <2>3
  <2> HIDE DEF q
  <2>6. q = x \div m
    BY DEF q
  <2>7. q \in Int /\ 0 <= q /\ q <= FullWeight
    BY <2>1, <2>4, <2>5, <2>6, QuotientBetween
  <2> QED BY <1>1, <2>2, <2>7
<1> QED BY <1>2, <1>3

LEMMA BlendRange ==
    ASSUME F!ParityAssumption, NEW fast, Ranged(fast), NEW slow, Ranged(slow), NEW r \in Nat, NEW f, f = F!Blend(fast, slow, r)
    PROVE  Ranged(f)
<1>1. PICK lo1 \in Given, hi1 \in Given : lo1 <= fast /\ fast <= hi1
  BY DEF Ranged
<1>2. PICK lo2 \in Given, hi2 \in Given : lo2 <= slow /\ slow <= hi2
  BY DEF Ranged
<1>3. fast \in Nat /\ slow \in Nat /\ lo1 \in Nat /\ hi1 \in Nat /\ lo2 \in Nat /\ hi2 \in Nat
  BY GivenIs DEF Ranged
<1>4. \E lo, hi \in Given : lo <= fast /\ lo <= slow /\ fast <= hi /\ slow <= hi
  <2>1. \E lo \in Given : lo <= fast /\ lo <= slow
    BY <1>1, <1>2, <1>3
  <2>2. \E hi \in Given : fast <= hi /\ slow <= hi
    BY <1>1, <1>2, <1>3
  <2> QED BY <2>1, <2>2
<1>5. PICK lo \in Given, hi \in Given : lo <= fast /\ lo <= slow /\ fast <= hi /\ slow <= hi
  BY <1>4
<1> DEFINE w == F!Weight(r)
           v == FullWeight - w
           x == slow * v + fast * w
<1>6. FullWeight \in Nat \ {0} /\ lo \in Nat /\ hi \in Nat
  BY GivenIs
<1>7. w \in Nat /\ v \in Nat /\ v + w = FullWeight
  <2>1. w \in 0 .. FullWeight
    BY WeightIs
  <2> HIDE DEF w
  <2> QED BY <1>6, <2>1
<1>8. f = x \div FullWeight
  BY DEF F!Blend
<1> HIDE DEF w, v
<1>9. lo * v <= slow * v /\ lo * w <= fast * w /\ slow * v <= hi * v /\ fast * w <= hi * w
  BY <1>3, <1>5, <1>6, <1>7, Multiplied
<1>10. lo * v + lo * w = lo * FullWeight /\ hi * v + hi * w = hi * FullWeight
  <2>1. lo * v + lo * w = lo * (v + w) /\ hi * v + hi * w = hi * (v + w)
    BY <1>6, <1>7
  <2> QED BY <1>7, <2>1
<1>11. lo * v \in Int /\ lo * w \in Int /\ slow * v \in Int /\ fast * w \in Int /\ hi * v \in Int /\ hi * w \in Int
       /\ lo * FullWeight \in Int /\ hi * FullWeight \in Int
  BY <1>3, <1>6, <1>7
<1>12. (hi + 1) * FullWeight = hi * FullWeight + FullWeight
  BY <1>6
<1>13. x \in Int /\ lo * FullWeight <= x /\ x < (hi + 1) * FullWeight
  BY <1>6, <1>9, <1>10, <1>11, <1>12
<1> HIDE DEF x
<1>14. f \in Int /\ lo <= f /\ f <= hi
  <2>1. lo \in Int /\ hi \in Int
    BY <1>6
  <2> QED BY <1>6, <1>8, <1>13, <2>1, QuotientBetween, Zenon
<1> QED BY <1>6, <1>14 DEF Ranged

LEMMA PpmIs == ASSUME F!ParityAssumption, NEW error \in Int, NEW of \in Nat PROVE F!Ppm(error, of) \in Nat
<1>1. CASE of = 0
  BY <1>1 DEF F!Ppm
<1>2. CASE of # 0
  <2>1. F!Abs(error) \in Nat /\ Million \in Nat
    BY AbsIs DEF F!ParityAssumption
  <2>2. Million * F!Abs(error) \in Nat
    BY <2>1
  <2>3. F!Ppm(error, of) = (Million * F!Abs(error)) \div of
    BY <1>2 DEF F!Ppm
  <2> QED BY <1>2, <2>2, <2>3
<1> QED BY <1>1, <1>2

Residuals == [0 .. ResidualWindow - 1 -> -Widest .. Widest]
Slots     == 0 .. ResidualWindow - 1
Fills     == 0 .. ResidualWindow
Streaks   == 0 .. 255
FwStates  == {"FREE_RUN", "ACQUIRE", "DISCIPLINED", "HOLDOVER"}
Fw == [state : FwStates, fast : Nat, slow : Nat, hat : Nat, anchor : Nat, applied : Residuals, legacy : Residuals,
       head : Slots, fill : Fills, lock : Streaks, unlock : Streaks,
       acquire : Int, holdover : Int, r : Nat, mad : Nat]

FwTyped(d) ==
    /\ d \in Fw /\ d.unlock < UnlockCount
    /\ Scaled(d.fast) /\ Scaled(d.slow) /\ Ranged(d.hat) /\ Ranged(d.anchor)

\* A frequency that is exported or held is the slow estimate's, and FREE_RUN keeps no streaks.
FwSound(d) ==
    /\ FwTyped(d)
    /\ d.state = "FREE_RUN" => d.lock = 0 /\ d.unlock = 0
    /\ d.state \in {"DISCIPLINED", "HOLDOVER"} => d.hat = F!Ticks(d.slow)
    /\ d.state = "HOLDOVER" => d.anchor = F!Ticks(d.slow)

\* The estimates and residuals of a sample leave the machine where it is.
LEMMA MeasuredIs ==
    ASSUME F!ParityAssumption, NEW d, FwTyped(d), NEW n \in Samples, NEW g, g = F!Measured(d, n)
    PROVE  FwTyped(g) /\ g.state = d.state /\ g.acquire = d.acquire /\ g.holdover = d.holdover
           /\ g.lock = d.lock /\ g.unlock = d.unlock
<1> DEFINE fast == F!Update(d.fast, n, FastShift)
           slow == F!Update(d.slow, n, SlowShift)
           r    == F!Ppm(F!Ticks(fast) - F!Ticks(slow), F!Ticks(slow))
           hat  == F!Blend(F!Ticks(fast), F!Ticks(slow), r)
           residual == n - (IF d.state \in {"DISCIPLINED", "HOLDOVER"} THEN F!Ticks(slow) ELSE hat)
           legacy == [d.legacy EXCEPT ![d.head] = residual]
           applied == [d.applied EXCEPT ![d.head] = n - hat]
           fill == IF d.fill < ResidualWindow THEN d.fill + 1 ELSE d.fill
           mad  == F!Mad(legacy, fill)
           head == (d.head + 1) % ResidualWindow
<1>1. d \in Fw /\ d.unlock < UnlockCount /\ Scaled(d.fast) /\ Scaled(d.slow) /\ Ranged(d.anchor)
      /\ ResidualWindow \in Nat \ {0} /\ FastShift \in {FastShift, SlowShift} /\ SlowShift \in {FastShift, SlowShift}
  BY DEF FwTyped, F!ParityAssumption
<1>2. Scaled(fast) /\ Scaled(slow)
  BY <1>1, UpdateKeeps
<1>3. g = [d EXCEPT !.fast = fast, !.slow = slow, !.r = r, !.hat = hat, !.legacy = legacy,
                    !.applied = applied, !.mad = mad, !.fill = fill, !.head = head]
  BY DEF F!Measured
<1> HIDE DEF fast, slow
<1>4. Ranged(F!Ticks(fast)) /\ Ranged(F!Ticks(slow)) /\ F!Ticks(fast) \in Nat /\ F!Ticks(slow) \in Nat
  <2>1. Ranged(F!Ticks(fast)) /\ Ranged(F!Ticks(slow))
    BY <1>2, TicksRange
  <2> QED BY <2>1 DEF Ranged
<1>5. r \in Nat
  <2>1. F!Ticks(fast) - F!Ticks(slow) \in Int
    BY <1>4
  <2> QED BY <1>4, <2>1, PpmIs
<1> HIDE DEF r
<1>6. Ranged(hat)
  BY <1>4, <1>5, BlendRange
<1> HIDE DEF hat
<1>7. n \in 0 .. Widest /\ Widest \in Nat /\ F!Ticks(slow) \in 0 .. Widest /\ hat \in 0 .. Widest
  <2>1. \A f : Ranged(f) => f \in 0 .. Widest
    BY GivenIs DEF Ranged
  <2> QED BY <1>4, <1>6, <2>1, GivenIs DEF Given
<1>8. residual \in -Widest .. Widest /\ n - hat \in -Widest .. Widest
  BY <1>7
<1> HIDE DEF residual
<1>9. legacy \in Residuals /\ applied \in Residuals
  BY <1>1, <1>8 DEF Fw, Residuals, Slots
<1> HIDE DEF legacy, applied
<1>10. fill \in Fills /\ fill \in Nat \ {0} /\ fill <= ResidualWindow /\ head \in Slots
  <2>1. d.fill \in 0 .. ResidualWindow /\ d.head \in Nat
    BY <1>1 DEF Fw, Fills, Slots
  <2> QED BY <1>1, <2>1 DEF Fills, Slots
<1> HIDE DEF fill, head
<1>11. mad \in Nat
  <2>1. \A i \in 0 .. fill - 1 : legacy[i] \in -Widest .. Widest
    BY <1>1, <1>9, <1>10 DEF Residuals
  <2>2. mad \in 0 .. Widest
    BY <1>7, <1>10, <2>1, MadExists
  <2> QED BY <1>7, <2>2
<1> HIDE DEF mad
<1>12. fast \in Nat /\ slow \in Nat /\ hat \in Nat
  BY <1>2, <1>6 DEF Scaled, Ranged
<1>13. g \in Fw
  <2> DEFINE e == [d EXCEPT !.fast = fast, !.slow = slow, !.r = r, !.hat = hat]
             h == [e EXCEPT !.legacy = legacy, !.applied = applied]
  <2>1. e \in Fw
    BY <1>1, <1>5, <1>12 DEF Fw
  <2>2. g = [h EXCEPT !.mad = mad, !.fill = fill, !.head = head]
    BY <1>3
  <2> HIDE DEF e
  <2>3. h \in Fw
    BY <1>9, <2>1 DEF Fw
  <2> HIDE DEF h
  <2> QED BY <1>10, <1>11, <2>2, <2>3 DEF Fw
<1>14. g.fast = fast /\ g.slow = slow /\ g.hat = hat /\ g.anchor = d.anchor /\ g.state = d.state /\ g.acquire = d.acquire
       /\ g.holdover = d.holdover /\ g.lock = d.lock /\ g.unlock = d.unlock
  BY <1>1, <1>3 DEF Fw
<1> QED BY <1>1, <1>2, <1>6, <1>13, <1>14 DEF FwTyped

\* Where the estimate of the slow filter alone is exported.
LEMMA AnchoredIs ==
    ASSUME F!ParityAssumption, NEW d, FwTyped(d), NEW g, g = F!Anchored(d)
    PROVE  /\ FwTyped(g) /\ g.hat = F!Ticks(g.slow) /\ g.anchor = F!Ticks(g.slow)
           /\ g.state = d.state /\ g.acquire = d.acquire /\ g.holdover = d.holdover /\ g.lock = d.lock /\ g.unlock = d.unlock
           /\ g.r = d.r /\ g.mad = d.mad /\ g.slow = d.slow
<1> DEFINE f == F!Ticks(d.slow)
<1>1. d \in Fw /\ Ranged(f) /\ f \in Nat
  <2>1. Ranged(f)
    BY TicksRange DEF FwTyped
  <2> QED BY <2>1 DEF FwTyped, Ranged
<1>2. g = [d EXCEPT !.hat = f, !.anchor = f]
  BY DEF F!Anchored
<1>3. g.slow = d.slow => f = F!Ticks(g.slow)
  OBVIOUS
<1> HIDE DEF f
<1>3a. g \in Fw
  BY <1>1, <1>2 DEF Fw
<1>4. g.hat = f /\ g.anchor = f /\ g.fast = d.fast /\ g.slow = d.slow /\ g.state = d.state /\ g.acquire = d.acquire
      /\ g.holdover = d.holdover /\ g.lock = d.lock /\ g.unlock = d.unlock /\ g.r = d.r /\ g.mad = d.mad
  BY <1>1, <1>2 DEF Fw
<1> QED BY <1>1, <1>3, <1>3a, <1>4 DEF FwTyped

LEMMA SinceIs ==
    ASSUME F!ParityAssumption, NEW at \in Int, NEW then \in Int PROVE F!Since(at, then) \in Nat /\ F!Since(at, at) = 0
<1>1. FwMsRange \in Nat \ {0}
  BY DEF F!ParityAssumption
<1>2. (at - then) % FwMsRange \in Nat /\ (at - at) % FwMsRange = 0
  BY <1>1
<1> QED BY <1>2 DEF F!Since

\* What the machine sees, in its own terms.
Seen(state, old, lock, unlock) ==
    [state |-> state, age |-> F!Machine!Upto(F!Machine!AgeLimit(state), old), lock |-> F!Machine!Upto(LockCount, lock), unlock |-> unlock]
Aging(d, at) == CASE d.state = "ACQUIRE" -> F!Since(at, d.acquire) [] d.state = "HOLDOVER" -> F!Since(at, d.holdover) [] OTHER -> 0

LEMMA ShownIs == ASSUME NEW d, NEW at PROVE F!Shown(d, at) = Seen(d.state, Aging(d, at), d.lock, d.unlock)
  BY DEF F!Shown, F!Age, Seen, Aging

LEMMA LimitsAre ==
    ASSUME F!ParityAssumption
    PROVE  /\ LockCount \in 1 .. 255 /\ UnlockCount \in 1 .. 255 /\ AcquireMin \in Nat \ {0} /\ FwHoldover \in Nat \ {0}
           /\ F!Machine!AgeLimit("ACQUIRE") = AcquireMin /\ F!Machine!AgeLimit("HOLDOVER") = FwHoldover + 1
           /\ F!Machine!AgeLimit("FREE_RUN") = 0 /\ F!Machine!AgeLimit("DISCIPLINED") = 0
  BY DEF F!ParityAssumption, F!Machine!AgeLimit

LEMMA FreshIsSeen ==
    ASSUME F!ParityAssumption
    PROVE  /\ Seen("ACQUIRE", 0, 0, 0) = F!Machine!Acquiring
           /\ Seen("FREE_RUN", 0, 0, 0) = F!Machine!FreeRun
           /\ \A lock, unlock : Seen("HOLDOVER", 0, lock, unlock) =
                  [state |-> "HOLDOVER", age |-> 0, lock |-> F!Machine!Upto(LockCount, lock), unlock |-> unlock]
           /\ \A lock, unlock : Seen("DISCIPLINED", 0, lock, unlock) =
                  [state |-> "DISCIPLINED", age |-> 0, lock |-> F!Machine!Upto(LockCount, lock), unlock |-> unlock]
<1>1. F!Machine!Upto(AcquireMin, 0) = 0 /\ F!Machine!Upto(FwHoldover + 1, 0) = 0 /\ F!Machine!Upto(0, 0) = 0
      /\ F!Machine!Upto(LockCount, 0) = 0
  BY LimitsAre DEF F!Machine!Upto
<1> QED BY <1>1, LimitsAre DEF Seen, F!Machine!Acquiring, F!Machine!FreeRun, F!Machine!Fresh

\* PPS becomes valid, or goes on.
LEMMA EnteredValid ==
    ASSUME F!ParityAssumption, NEW d, FwSound(d), NEW at \in Int, NEW g, g = F!Entered(d, TRUE, at)
    PROVE  /\ FwTyped(g) /\ g.state \in {"ACQUIRE", "DISCIPLINED"} /\ (g.state = "DISCIPLINED" => g.hat = F!Ticks(g.slow))
           /\ F!Shown(g, at) = F!Machine!Entered(F!Shown(d, at), TRUE)
<1>1. d \in Fw /\ d.state \in FwStates /\ FwTyped(d)
  BY DEF FwSound, FwTyped, Fw
<1>2. F!Shown(d, at).state = d.state
  BY ShownIs DEF Seen
<1>3. CASE d.state \in {"FREE_RUN", "HOLDOVER"}
  <2>1. g = [d EXCEPT !.state = "ACQUIRE", !.acquire = at, !.lock = 0, !.unlock = 0]
    BY <1>3 DEF F!Entered
  <2>2. "ACQUIRE" \in FwStates /\ 0 \in Streaks
    BY DEF FwStates, Streaks
  <2>3. g \in Fw
    BY <1>1, <2>1, <2>2 DEF Fw
  <2>4. g.state = "ACQUIRE" /\ g.acquire = at /\ g.lock = 0 /\ g.unlock = 0
        /\ g.fast = d.fast /\ g.slow = d.slow /\ g.hat = d.hat /\ g.anchor = d.anchor
    BY <1>1, <2>1 DEF Fw
  <2>5. FwTyped(g)
    <3>1. 0 < UnlockCount
      BY LimitsAre
    <3> QED BY <1>1, <2>3, <2>4, <3>1 DEF FwTyped
  <2>6. F!Shown(g, at) = F!Machine!Acquiring
    BY <2>4, ShownIs, SinceIs, FreshIsSeen DEF Aging
  <2>7. F!Machine!Entered(F!Shown(d, at), TRUE) = F!Machine!Acquiring
    BY <1>2, <1>3 DEF F!Machine!Entered
  <2> QED BY <2>4, <2>5, <2>6, <2>7
<1>4. CASE d.state \in {"ACQUIRE", "DISCIPLINED"}
  <2>1. g = d
    BY <1>4 DEF F!Entered
  <2>2. F!Machine!Entered(F!Shown(d, at), TRUE) = F!Shown(d, at)
    BY <1>2, <1>4 DEF F!Machine!Entered
  <2> QED BY <1>1, <1>4, <2>1, <2>2 DEF FwSound
<1> QED BY <1>1, <1>3, <1>4 DEF FwStates

\* The last part of observe(): the holdover may end, and FREE_RUN keeps no streaks.
LEMMA ExpiredIs ==
    ASSUME F!ParityAssumption, NEW d, FwTyped(d), NEW at \in Int, NEW g, g = F!Expired(d, at),
           d.state \in {"DISCIPLINED", "HOLDOVER"} => d.hat = F!Ticks(d.slow), d.state = "HOLDOVER" => d.anchor = F!Ticks(d.slow)
    PROVE  /\ FwSound(g)
           /\ d.state \in {"ACQUIRE", "DISCIPLINED"} => g = d
           /\ d.state = "FREE_RUN" => F!Shown(g, at) = F!Machine!FreeRun
           /\ d.state = "HOLDOVER" => F!Shown(g, at) = F!Machine!Expired(F!Shown(d, at))
<1>1. d \in Fw /\ d.state \in FwStates /\ "FREE_RUN" \in FwStates /\ 0 \in Streaks
  BY DEF FwTyped, Fw, FwStates, Streaks
<1>2. CASE d.state \in {"ACQUIRE", "DISCIPLINED"}
  <2>1. g = d
    BY <1>2 DEF F!Expired
  <2> QED BY <1>2, <2>1 DEF FwSound
<1> DEFINE freed(x) == [x EXCEPT !.lock = 0, !.unlock = 0]
<1>3. ASSUME NEW x \in Fw, FwTyped(x), x.state = "FREE_RUN", g = freed(x)
      PROVE  FwSound(g) /\ F!Shown(g, at) = F!Machine!FreeRun
  <2>1. g \in Fw
    BY <1>1, <1>3 DEF Fw
  <2>2. g.lock = 0 /\ g.unlock = 0 /\ g.state = "FREE_RUN" /\ g.fast = x.fast /\ g.slow = x.slow /\ g.hat = x.hat /\ g.anchor = x.anchor
    BY <1>3 DEF Fw
  <2>3. FwTyped(g)
    BY <1>3, <2>1, <2>2, LimitsAre DEF FwTyped
  <2>4. F!Shown(g, at) = F!Machine!FreeRun
    BY <2>2, ShownIs, FreshIsSeen DEF Aging
  <2> QED BY <2>2, <2>3, <2>4 DEF FwSound
<1>4. CASE d.state = "FREE_RUN"
  <2>1. g = freed(d)
    BY <1>4 DEF F!Expired
  <2> HIDE DEF freed
  <2> QED BY <1>1, <1>3, <1>4, <2>1
<1>5. CASE d.state = "HOLDOVER"
  <2> DEFINE held == [d EXCEPT !.hat = d.anchor]
             free == [held EXCEPT !.state = "FREE_RUN"]
  <2>1. held \in Fw
    BY <1>1 DEF Fw
  <2>2. held.state = "HOLDOVER" /\ held.hat = d.anchor /\ held.anchor = d.anchor /\ held.slow = d.slow /\ held.fast = d.fast
        /\ held.lock = d.lock /\ held.unlock = d.unlock /\ held.holdover = d.holdover
    BY <1>1, <1>5 DEF Fw
  <2>3. FwTyped(held)
    BY <2>1, <2>2 DEF FwTyped
  <2> DEFINE left == F!Since(at, d.holdover) > FwHoldover
             then == IF left THEN free ELSE held
  <2>4. g = IF then.state = "FREE_RUN" THEN freed(then) ELSE then
    BY <1>5 DEF F!Expired
  <2> HIDE DEF held
  <2>5. free \in Fw
    BY <1>1, <2>1 DEF Fw
  <2>6. free.state = "FREE_RUN" /\ free.fast = held.fast /\ free.slow = held.slow /\ free.hat = held.hat
        /\ free.anchor = held.anchor /\ free.unlock = held.unlock
    BY <2>1 DEF Fw
  <2> HIDE DEF free
  <2>6a. g = IF left THEN freed(free) ELSE held
    BY <2>2, <2>4, <2>6
  <2> HIDE DEF then
  <2>7. FwTyped(free)
    BY <2>3, <2>5, <2>6 DEF FwTyped
  <2>8. F!Shown(d, at) = Seen("HOLDOVER", F!Since(at, d.holdover), d.lock, d.unlock) /\ F!Since(at, d.holdover) \in Nat
    BY <1>1, <1>5, ShownIs, SinceIs DEF Aging, Fw
  <2>9. F!Shown(d, at).state = "HOLDOVER" /\ (F!Shown(d, at).age > FwHoldover <=> F!Since(at, d.holdover) > FwHoldover)
    BY <2>8, LimitsAre DEF Seen, F!Machine!Upto
  <2>10. CASE F!Since(at, d.holdover) > FwHoldover
    <3>1. g = freed(free)
      BY <2>6a, <2>10
    <3> HIDE DEF freed
    <3>2. FwSound(g) /\ F!Shown(g, at) = F!Machine!FreeRun
      BY <1>3, <2>5, <2>6, <2>7, <3>1
    <3>3. F!Machine!Expired(F!Shown(d, at)) = F!Machine!FreeRun
      BY <2>9, <2>10 DEF F!Machine!Expired
    <3> QED BY <1>5, <3>2, <3>3
  <2>11. CASE ~(F!Since(at, d.holdover) > FwHoldover)
    <3>1. g = held
      BY <2>6a, <2>11
    <3>2. F!Machine!Expired(F!Shown(d, at)) = F!Shown(d, at)
      BY <2>9, <2>11 DEF F!Machine!Expired
    <3>3. F!Shown(g, at) = F!Shown(d, at)
      BY <2>2, <2>8, <3>1, ShownIs DEF Aging
    <3>4. FwSound(g)
      BY <1>5, <2>2, <2>3, <3>1 DEF FwSound
    <3> QED BY <1>5, <3>2, <3>3, <3>4
  <2> QED BY <2>10, <2>11
<1> QED BY <1>1, <1>2, <1>4, <1>5 DEF FwStates

\* PPS is not valid.
LEMMA EnteredInvalid ==
    ASSUME F!ParityAssumption, NEW d, FwSound(d), NEW at \in Int, NEW e, e = F!Entered(d, FALSE, at),
           NEW g, g = F!Expired(e, at)
    PROVE  FwSound(g) /\ F!Shown(g, at) = F!Machine!Expired(F!Machine!Entered(F!Shown(d, at), FALSE))
<1> DEFINE shown == F!Shown(d, at)
           f     == F!Ticks(d.slow)
<1>1. d \in Fw /\ d.state \in FwStates /\ FwTyped(d) /\ Ranged(f) /\ f \in Nat /\ FwStates = {"FREE_RUN", "ACQUIRE", "DISCIPLINED", "HOLDOVER"}
  <2>1. Ranged(f)
    BY TicksRange DEF FwSound, FwTyped
  <2> QED BY <2>1 DEF FwSound, FwTyped, Fw, Ranged, FwStates
<1>2. shown = Seen(d.state, Aging(d, at), d.lock, d.unlock) /\ shown.state = d.state
      /\ shown.lock = F!Machine!Upto(LockCount, d.lock) /\ shown.unlock = d.unlock
  BY ShownIs DEF Seen
<1>3. f = F!Ticks(d.slow)
  OBVIOUS
<1> HIDE DEF shown, f
<1>4. F!Machine!Expired(F!Machine!FreeRun) = F!Machine!FreeRun
  BY DEF F!Machine!Expired, F!Machine!FreeRun, F!Machine!Fresh
<1>5. CASE d.state = "DISCIPLINED"
  <2>1. e = [d EXCEPT !.state = "HOLDOVER", !.holdover = at, !.anchor = f, !.hat = f]
    BY <1>5 DEF F!Entered, f
  <2>2. e \in Fw
    BY <1>1, <2>1 DEF Fw
  <2>3. e.state = "HOLDOVER" /\ e.holdover = at /\ e.anchor = f /\ e.hat = f /\ e.fast = d.fast /\ e.slow = d.slow
        /\ e.lock = d.lock /\ e.unlock = d.unlock
    BY <1>1, <2>1 DEF Fw
  <2>4. FwTyped(e) /\ e.hat = F!Ticks(e.slow) /\ e.anchor = F!Ticks(e.slow)
    BY <1>1, <1>3, <2>2, <2>3 DEF FwTyped
  <2>5. FwSound(g) /\ F!Shown(g, at) = F!Machine!Expired(F!Shown(e, at))
    BY <2>3, <2>4, ExpiredIs
  <2>6. F!Shown(e, at) = [state |-> "HOLDOVER", age |-> 0, lock |-> F!Machine!Upto(LockCount, d.lock), unlock |-> d.unlock]
    <3>1. F!Shown(e, at) = Seen(e.state, Aging(e, at), e.lock, e.unlock)
      BY ShownIs
    <3>2. Aging(e, at) = 0
      BY <2>3, SinceIs DEF Aging
    <3>3. F!Shown(e, at) = Seen("HOLDOVER", 0, d.lock, d.unlock)
      BY <2>3, <3>1, <3>2
    <3> QED BY <3>3, FreshIsSeen
  <2>7. F!Machine!Entered(shown, FALSE) = F!Shown(e, at)
    BY <1>2, <1>5, <2>6 DEF F!Machine!Entered, F!Machine!Turned
  <2> QED BY <2>5, <2>7 DEF shown
<1>6. CASE d.state = "ACQUIRE"
  <2>1. e = [d EXCEPT !.state = "FREE_RUN", !.unlock = 0]
    BY <1>6 DEF F!Entered
  <2>2. 0 \in Streaks /\ 0 < UnlockCount
    BY LimitsAre DEF Streaks
  <2>3. e \in Fw
    BY <1>1, <2>1, <2>2 DEF Fw
  <2>4. e.state = "FREE_RUN" /\ e.unlock = 0 /\ e.fast = d.fast /\ e.slow = d.slow /\ e.hat = d.hat /\ e.anchor = d.anchor
    BY <1>1, <2>1 DEF Fw
  <2>5. FwTyped(e)
    BY <1>1, <2>2, <2>3, <2>4 DEF FwTyped
  <2>6. FwSound(g) /\ F!Shown(g, at) = F!Machine!FreeRun
    BY <2>4, <2>5, ExpiredIs
  <2>7. F!Machine!Entered(shown, FALSE) = F!Machine!FreeRun
    BY <1>2, <1>6 DEF F!Machine!Entered
  <2> QED BY <1>4, <2>6, <2>7 DEF shown
<1>7. CASE d.state \in {"FREE_RUN", "HOLDOVER"}
  <2>1. e = d
    BY <1>7 DEF F!Entered
  <2>2. F!Machine!Entered(shown, FALSE) = shown
    BY <1>2, <1>7 DEF F!Machine!Entered
  <2>3. FwSound(g) /\ (d.state = "FREE_RUN" => F!Shown(g, at) = F!Machine!FreeRun)
        /\ (d.state = "HOLDOVER" => F!Shown(g, at) = F!Machine!Expired(shown))
    BY <1>1, <2>1, ExpiredIs DEF FwSound, shown
  <2>4. d.state = "FREE_RUN" => shown = F!Machine!FreeRun
    BY <1>2, FreshIsSeen DEF FwSound, Aging
  <2> QED BY <1>4, <1>7, <2>2, <2>3, <2>4 DEF shown
<1> QED BY <1>1, <1>5, <1>6, <1>7

\* The streak towards a lock, and the lock.
LEMMA LockedIs ==
    ASSUME F!ParityAssumption, NEW d, FwTyped(d), d.state \in {"ACQUIRE", "DISCIPLINED"},
           NEW anomaly \in BOOLEAN, NEW at \in Int, NEW ok \in BOOLEAN, ok = F!LockOk(d, anomaly), NEW g, g = F!Locked(d, anomaly, at)
    PROVE  /\ FwTyped(g) /\ g.state \in {"ACQUIRE", "DISCIPLINED"} /\ g.r = d.r /\ g.mad = d.mad /\ g.slow = d.slow
           /\ F!Shown(g, at) = F!Machine!Locked(F!Machine!Streak(F!Shown(d, at), ok))
<1> DEFINE l == IF ok THEN F!Counted(d.lock) ELSE 0
           c == [d EXCEPT !.lock = l]
           turned == [c EXCEPT !.state = "DISCIPLINED"]
           locks == c.state = "ACQUIRE" /\ F!Since(at, c.acquire) >= AcquireMin /\ c.lock >= LockCount
           streak == F!Machine!Streak(F!Shown(d, at), ok)
<1>1. d \in Fw /\ d.lock \in 0 .. 255 /\ d.acquire \in Int /\ LockCount \in 1 .. 255
  BY LimitsAre DEF FwTyped, Fw, Streaks
<1>2. l \in 0 .. 255
  BY <1>1 DEF F!Counted
<1>3. g = IF locks THEN F!Anchored(turned) ELSE c
  BY DEF F!Locked
<1>4. F!Machine!Upto(LockCount, l) = IF ok THEN F!Machine!Upto(LockCount, F!Machine!Upto(LockCount, d.lock) + 1) ELSE 0
  BY <1>1 DEF F!Counted, F!Machine!Upto
<1> HIDE DEF l
<1>5. c \in Fw /\ turned \in Fw
  <2>1. l \in Streaks /\ "DISCIPLINED" \in FwStates
    BY <1>2 DEF Streaks, FwStates
  <2>2. c \in Fw
    BY <1>1, <2>1 DEF Fw
  <2> HIDE DEF c
  <2> QED BY <2>1, <2>2 DEF Fw
<1>6. c.state = d.state /\ c.lock = l /\ c.acquire = d.acquire /\ c.unlock = d.unlock /\ c.fast = d.fast /\ c.slow = d.slow
      /\ c.hat = d.hat /\ c.anchor = d.anchor /\ c.r = d.r /\ c.mad = d.mad
  BY <1>1 DEF Fw
<1> HIDE DEF c
<1>7. turned.state = "DISCIPLINED" /\ turned.lock = l /\ turned.unlock = c.unlock /\ turned.fast = c.fast /\ turned.slow = c.slow
      /\ turned.hat = c.hat /\ turned.anchor = c.anchor /\ turned.r = c.r /\ turned.mad = c.mad
  BY <1>5, <1>6 DEF Fw
<1> HIDE DEF turned
<1>8. FwTyped(c) /\ FwTyped(turned)
  BY <1>5, <1>6, <1>7 DEF FwTyped
<1> DEFINE old == F!Machine!Upto(F!Machine!AgeLimit(d.state), Aging(d, at))
<1>9. streak = [state |-> d.state, age |-> old, lock |-> F!Machine!Upto(LockCount, l), unlock |-> d.unlock]
  <2>1. F!Shown(d, at) = [state |-> d.state, age |-> old, lock |-> F!Machine!Upto(LockCount, d.lock), unlock |-> d.unlock]
    BY ShownIs DEF Seen
  <2> HIDE DEF old
  <2> QED BY <1>4, <2>1 DEF F!Machine!Streak
<1>10. F!Shown(c, at) = streak
  <2>1. Aging(c, at) = Aging(d, at)
    BY <1>6 DEF Aging
  <2> QED BY <1>6, <1>9, <2>1, ShownIs DEF Seen
<1>11. locks <=> (d.state = "ACQUIRE" /\ old >= AcquireMin /\ F!Machine!Upto(LockCount, l) >= LockCount)
  <2>1. d.state = "ACQUIRE" => old = F!Machine!Upto(AcquireMin, F!Since(at, d.acquire))
    BY LimitsAre DEF Aging
  <2>2. F!Since(at, d.acquire) \in Nat /\ AcquireMin \in Nat
    BY <1>1, SinceIs, LimitsAre
  <2>3. F!Machine!Upto(AcquireMin, F!Since(at, d.acquire)) >= AcquireMin <=> F!Since(at, d.acquire) >= AcquireMin
    BY <2>2 DEF F!Machine!Upto
  <2>4. F!Machine!Upto(LockCount, l) >= LockCount <=> l >= LockCount
    BY <1>1, <1>2 DEF F!Machine!Upto
  <2> HIDE DEF old
  <2> QED BY <1>6, <2>1, <2>3, <2>4
<1> HIDE DEF locks, streak, old
<1>12. CASE locks
  <2>1. g = F!Anchored(turned)
    BY <1>3, <1>12
  <2>2. FwTyped(g) /\ g.state = "DISCIPLINED" /\ g.lock = l /\ g.unlock = d.unlock /\ g.r = d.r /\ g.mad = d.mad /\ g.slow = d.slow
    BY <1>6, <1>7, <1>8, <2>1, AnchoredIs
  <2>3. F!Shown(g, at) = [state |-> "DISCIPLINED", age |-> 0, lock |-> F!Machine!Upto(LockCount, l), unlock |-> d.unlock]
    BY <2>2, ShownIs, FreshIsSeen DEF Aging
  <2>4. F!Machine!Locked(streak) = F!Machine!Turned(streak, "DISCIPLINED")
    BY <1>9, <1>11, <1>12 DEF F!Machine!Locked
  <2>5. F!Machine!Turned(streak, "DISCIPLINED") = F!Shown(g, at)
    BY <1>9, <2>3 DEF F!Machine!Turned
  <2> QED BY <2>2, <2>4, <2>5 DEF streak
<1>13. CASE ~locks
  <2>1. g = c
    BY <1>3, <1>13
  <2>2. F!Machine!Locked(streak) = streak
    BY <1>9, <1>11, <1>13 DEF F!Machine!Locked
  <2> QED BY <1>6, <1>8, <1>10, <2>1, <2>2 DEF streak
<1> QED BY <1>12, <1>13

\* The streak towards losing the lock.
LEMMA UnlockedIs ==
    ASSUME F!ParityAssumption, NEW d, FwTyped(d), d.state \in {"ACQUIRE", "DISCIPLINED"},
           NEW anomaly \in BOOLEAN, NEW at \in Int, NEW out \in BOOLEAN, out = F!UnlockBad(d, anomaly), NEW g, g = F!Unlocked(d, anomaly, at)
    PROVE  /\ FwTyped(g) /\ g.state \in {"ACQUIRE", "DISCIPLINED"} /\ (g.state = "DISCIPLINED" => g.hat = F!Ticks(g.slow))
           /\ F!Shown(g, at) = F!Machine!Unlocked(F!Shown(d, at), out)
<1> DEFINE bad == IF out THEN F!Counted(d.unlock) ELSE 0
           a == F!Anchored(d)
           shown == F!Shown(d, at)
<1>1. d \in Fw /\ d.unlock \in 0 .. 255 /\ d.unlock < UnlockCount /\ UnlockCount \in 1 .. 255
  BY LimitsAre DEF FwTyped, Fw, Streaks
<1>2. bad \in 0 .. 255 /\ bad = IF out THEN d.unlock + 1 ELSE 0
  BY <1>1 DEF F!Counted
<1>3. g = IF d.state # "DISCIPLINED" THEN d
          ELSE IF bad >= UnlockCount THEN [a EXCEPT !.state = "ACQUIRE", !.acquire = at, !.lock = 0, !.unlock = 0]
          ELSE [a EXCEPT !.unlock = bad]
  BY DEF F!Unlocked
<1>4. shown.state = d.state /\ shown.unlock = d.unlock /\ (d.state = "DISCIPLINED" =>
          shown = [state |-> d.state, age |-> 0, lock |-> F!Machine!Upto(LockCount, d.lock), unlock |-> d.unlock])
  <2>1. shown = Seen(d.state, Aging(d, at), d.lock, d.unlock)
    BY ShownIs
  <2>2. d.state = "DISCIPLINED" => Aging(d, at) = 0
    BY DEF Aging
  <2> HIDE DEF shown
  <2>3. shown.state = d.state /\ shown.unlock = d.unlock
    BY <2>1 DEF Seen
  <2> QED BY <2>1, <2>2, <2>3, FreshIsSeen
<1> HIDE DEF bad, shown
<1>5. F!Machine!Unlocked(shown, out) =
          IF d.state # "DISCIPLINED" THEN shown
          ELSE IF bad >= UnlockCount THEN F!Machine!Acquiring ELSE [shown EXCEPT !.unlock = bad]
  BY <1>2, <1>4 DEF F!Machine!Unlocked
<1>6. /\ FwTyped(a) /\ a.hat = F!Ticks(a.slow) /\ a.anchor = F!Ticks(a.slow) /\ a.state = d.state
      /\ a.lock = d.lock /\ a.unlock = d.unlock /\ a.slow = d.slow /\ a \in Fw
  BY AnchoredIs DEF FwTyped
<1> HIDE DEF a
<1>7. bad \in Streaks /\ 0 \in Streaks /\ "ACQUIRE" \in FwStates /\ 0 < UnlockCount
  BY <1>1, <1>2 DEF Streaks, FwStates
<1>8. CASE d.state # "DISCIPLINED"
  BY <1>3, <1>5, <1>8 DEF shown
<1>9. CASE d.state = "DISCIPLINED" /\ bad >= UnlockCount
  <2>1. g = [a EXCEPT !.state = "ACQUIRE", !.acquire = at, !.lock = 0, !.unlock = 0]
    BY <1>3, <1>9
  <2>2. g \in Fw
    BY <1>6, <1>7, <2>1 DEF Fw
  <2>3. g.state = "ACQUIRE" /\ g.acquire = at /\ g.lock = 0 /\ g.unlock = 0 /\ g.fast = a.fast /\ g.slow = a.slow
        /\ g.hat = a.hat /\ g.anchor = a.anchor
    BY <1>6, <2>1 DEF Fw
  <2>4. FwTyped(g)
    BY <1>6, <1>7, <2>2, <2>3 DEF FwTyped
  <2>5. F!Shown(g, at) = F!Machine!Acquiring
    <3>1. F!Shown(g, at) = Seen(g.state, Aging(g, at), g.lock, g.unlock)
      BY ShownIs
    <3>2. Aging(g, at) = 0
      BY <2>3, SinceIs DEF Aging
    <3> QED BY <2>3, <3>1, <3>2, FreshIsSeen
  <2> QED BY <1>5, <1>9, <2>3, <2>4, <2>5 DEF shown
<1>10. CASE d.state = "DISCIPLINED" /\ ~(bad >= UnlockCount)
  <2>1. g = [a EXCEPT !.unlock = bad]
    BY <1>3, <1>10
  <2>2. g \in Fw
    BY <1>6, <1>7, <2>1 DEF Fw
  <2>3. g.state = "DISCIPLINED" /\ g.lock = d.lock /\ g.unlock = bad /\ g.fast = a.fast /\ g.slow = a.slow
        /\ g.hat = a.hat /\ g.anchor = a.anchor
    BY <1>6, <1>10, <2>1 DEF Fw
  <2>4. FwTyped(g)
    <3>1. bad < UnlockCount
      BY <1>1, <1>2, <1>10
    <3> QED BY <1>6, <2>2, <2>3, <3>1 DEF FwTyped
  <2>5. F!Shown(g, at) = [state |-> "DISCIPLINED", age |-> 0, lock |-> F!Machine!Upto(LockCount, d.lock), unlock |-> bad]
    <3>1. F!Shown(g, at) = Seen(g.state, Aging(g, at), g.lock, g.unlock)
      BY ShownIs
    <3>2. Aging(g, at) = 0
      BY <2>3 DEF Aging
    <3> QED BY <2>3, <3>1, <3>2, FreshIsSeen
  <2>6. [shown EXCEPT !.unlock = bad] = F!Shown(g, at)
    BY <1>4, <1>10, <2>5
  <2>7. F!Machine!Unlocked(shown, out) = [shown EXCEPT !.unlock = bad]
    BY <1>5, <1>10
  <2>8. F!Machine!Unlocked(shown, out) = F!Shown(g, at)
    BY <2>6, <2>7
  <2> QED BY <1>6, <2>3, <2>4, <2>8 DEF shown
<1> QED BY <1>8, <1>9, <1>10

\* observe() is a step of the machine.
LEMMA ObserveIs ==
    ASSUME F!ParityAssumption, NEW d, FwSound(d), NEW cls \in {"OK", "GAP"}, NEW valid \in BOOLEAN, NEW n, n \in Samples \/ cls = "GAP",
           NEW anomaly \in BOOLEAN, NEW at \in Int, NEW g, g = F!Observe(d, cls, valid, n, anomaly, at)
    PROVE  /\ FwSound(g)
           /\ \E lockOk, unlockBad \in BOOLEAN :
                  /\ ~(lockOk /\ unlockBad)
                  /\ F!Shown(g, at) = F!Machine!Discipline(F!Shown(d, at), cls, valid, lockOk, unlockBad)
<1> DEFINE e == F!Entered(d, valid, at)
           shown == F!Shown(d, at)
<1>1. CASE ~valid
  <2>1. valid = FALSE
    BY <1>1
  <2>2. g = F!Expired(e, at)
    BY <1>1 DEF F!Observe
  <2>3. e = F!Entered(d, FALSE, at)
    BY <2>1
  <2> HIDE DEF e
  <2>4. FwSound(g) /\ F!Shown(g, at) = F!Machine!Expired(F!Machine!Entered(shown, FALSE))
    BY <2>2, <2>3, EnteredInvalid
  <2> HIDE DEF shown
  <2>5. F!Machine!Discipline(shown, cls, valid, FALSE, FALSE) = F!Machine!Expired(F!Machine!Entered(shown, FALSE))
    BY <2>1 DEF F!Machine!Discipline
  <2>6. F!Shown(g, at) = F!Machine!Discipline(shown, cls, valid, FALSE, FALSE)
    BY <2>4, <2>5
  <2> QED BY <2>4, <2>6 DEF shown
<1>2. CASE valid
  <2>0. valid = TRUE
    BY <1>2
  <2>1. FwTyped(e) /\ e.state \in {"ACQUIRE", "DISCIPLINED"} /\ (e.state = "DISCIPLINED" => e.hat = F!Ticks(e.slow))
        /\ F!Shown(e, at) = F!Machine!Entered(shown, TRUE)
    BY <2>0, EnteredValid
  \* The machine's last step changes nothing in these states.
  <2>2. ASSUME NEW x, x.state \in {"ACQUIRE", "DISCIPLINED"} PROVE F!Machine!Expired(F!Shown(x, at)) = F!Shown(x, at)
    <3>1. F!Shown(x, at).state = x.state
      BY ShownIs DEF Seen
    <3> QED BY <2>2, <3>1 DEF F!Machine!Expired
  <2> HIDE DEF e, shown
  <2>3. CASE cls = "GAP"
    <3>1. g = F!Expired(e, at)
      BY <2>3 DEF F!Observe, e
    <3>2. FwSound(g) /\ g = e
      BY <2>1, <3>1, ExpiredIs
    <3>3. F!Machine!Discipline(shown, cls, valid, FALSE, FALSE) = F!Machine!Expired(F!Machine!Entered(shown, TRUE))
      BY <2>0, <2>3 DEF F!Machine!Discipline
    <3>4. F!Shown(g, at) = F!Machine!Discipline(shown, cls, valid, FALSE, FALSE)
      <4>0. e.state \in {"ACQUIRE", "DISCIPLINED"}
        BY <2>1 DEF FwSound
      <4>1. F!Machine!Expired(F!Shown(e, at)) = F!Shown(e, at)
        BY <4>0, <2>2
      <4> QED BY <2>1, <3>2, <3>3, <4>1
    <3> QED BY <3>2, <3>4 DEF shown
  <2>4. CASE cls = "OK"
    <3> DEFINE m == F!Measured(e, n)
               ok == F!LockOk(m, anomaly)
               l == F!Locked(m, anomaly, at)
               out == F!UnlockBad(l, anomaly)
               u == F!Unlocked(l, anomaly, at)
    <3>1. g = F!Expired(u, at)
      BY <1>2, <2>4 DEF F!Observe, e
    <3>2. n \in Samples
      BY <2>4
    <3>3. FwTyped(m) /\ m.state = e.state /\ m.acquire = e.acquire /\ m.holdover = e.holdover /\ m.lock = e.lock /\ m.unlock = e.unlock
      BY <2>1, <3>2, MeasuredIs
    <3>4. F!Shown(m, at) = F!Machine!Entered(shown, TRUE)
      <4>1. Aging(m, at) = Aging(e, at)
        BY <3>3 DEF Aging
      <4> HIDE DEF m
      <4>2. F!Shown(m, at) = F!Shown(e, at)
        BY <3>3, <4>1, ShownIs
      <4> QED BY <2>1, <4>2
    <3> HIDE DEF m
    <3>5. ok \in BOOLEAN /\ out \in BOOLEAN
      BY DEF F!LockOk, F!UnlockBad
    <3>6. FwTyped(l) /\ l.state \in {"ACQUIRE", "DISCIPLINED"} /\ l.r = m.r /\ l.mad = m.mad
          /\ F!Shown(l, at) = F!Machine!Locked(F!Machine!Streak(F!Shown(m, at), ok))
      BY <2>1, <3>3, <3>5, LockedIs
    <3>7. ~(ok /\ out)
      <4>1. m.r \in Int /\ m.mad \in Int
        BY <3>3 DEF FwTyped, Fw
      <4>2. LockR \in Nat /\ LockMad \in Nat /\ UnlockR \in Nat /\ UnlockMad \in Nat /\ LockR <= UnlockR /\ LockMad <= UnlockMad
        BY DEF F!ParityAssumption
      <4> HIDE DEF l
      <4> QED BY <3>6, <4>1, <4>2 DEF F!LockOk, F!UnlockBad
    <3> HIDE DEF l, ok
    <3>8. FwTyped(u) /\ u.state \in {"ACQUIRE", "DISCIPLINED"} /\ (u.state = "DISCIPLINED" => u.hat = F!Ticks(u.slow))
          /\ F!Shown(u, at) = F!Machine!Unlocked(F!Shown(l, at), out)
      BY <3>5, <3>6, UnlockedIs
    <3> HIDE DEF u, out
    <3>9. FwSound(g) /\ g = u
      BY <3>1, <3>8, ExpiredIs
    <3>10. F!Machine!Discipline(shown, cls, valid, ok, out) =
               F!Machine!Expired(F!Machine!Unlocked(F!Machine!Locked(F!Machine!Streak(F!Machine!Entered(shown, TRUE), ok)), out))
      BY <2>0, <2>4 DEF F!Machine!Discipline
    <3>11. F!Shown(g, at) = F!Machine!Discipline(shown, cls, valid, ok, out)
      <4>1. F!Machine!Expired(F!Shown(u, at)) = F!Shown(u, at)
        BY <2>2, <3>8
      <4>2. F!Machine!Unlocked(F!Machine!Locked(F!Machine!Streak(F!Machine!Entered(shown, TRUE), ok)), out) = F!Shown(u, at)
        BY <3>4, <3>6, <3>8
      <4> QED BY <3>9, <3>10, <4>1, <4>2
    <3> QED BY <3>5, <3>7, <3>9, <3>11 DEF shown
  <2> QED BY <2>3, <2>4
<1> QED BY <1>1, <1>2

FwInv == now \in Int /\ FwSound(fw)

LEMMA FwStarts == ASSUME F!ParityAssumption, F!Init PROVE FwInv
<1> DEFINE zeros == [i \in 0 .. ResidualWindow - 1 |-> 0]
           f == Nominal * TickParts
<1>1. Nominal \in Given /\ Nominal \in Nat /\ Widest \in Nat /\ TickParts \in Nat \ {0} /\ ResidualWindow \in Nat \ {0} /\ 0 < UnlockCount
  BY GivenIs, LimitsAre DEF Given, F!ParityAssumption
<1>2. f \in Nat /\ Scaled(f) /\ Ranged(Nominal)
  <2>1. f \in Nat /\ f <= f /\ Nominal <= Nominal
    BY <1>1
  <2> QED BY <1>1, <2>1 DEF Scaled, Ranged
<1>3. zeros \in Residuals /\ 0 \in Slots /\ 0 \in Fills /\ 0 \in Streaks /\ "FREE_RUN" \in FwStates
  BY <1>1 DEF Residuals, Slots, Fills, Streaks, FwStates
<1>4. fw = [state |-> "FREE_RUN", fast |-> f, slow |-> f, hat |-> Nominal, anchor |-> Nominal,
            applied |-> zeros, legacy |-> zeros, head |-> 0, fill |-> 0,
            lock |-> 0, unlock |-> 0, acquire |-> 0, holdover |-> 0, r |-> 0, mad |-> 0]
  BY DEF F!Init
<1>5. now \in Int
  <2>1. now = FwStart /\ FwStart \in 0 .. FwMsRange - 1
    BY DEF F!Init, F!ParityAssumption
  <2> QED BY <2>1
<1> HIDE DEF zeros, f
<1>6. fw \in Fw
  BY <1>1, <1>2, <1>3, <1>4 DEF Fw
<1>7. fw.state = "FREE_RUN" /\ fw.fast = f /\ fw.slow = f /\ fw.hat = Nominal /\ fw.anchor = Nominal /\ fw.lock = 0 /\ fw.unlock = 0
  BY <1>4
<1> QED BY <1>1, <1>2, <1>5, <1>6, <1>7 DEF FwInv, FwSound, FwTyped

\* The firmware's half of a call, and of F!Next.
FwCall(cls, valid, n, anomaly, t) ==
    now' = (now + t) % FwMsRange /\ fw' = F!Observe(fw, cls, valid, n, anomaly, now')

FwNext == \E t \in CallSteps :
    \/ \E n \in Samples, anomaly \in BOOLEAN : FwCall("OK", TRUE, n, anomaly, t)
    \/ \E valid \in BOOLEAN : FwCall("GAP", valid, Nominal, TRUE, t)

LEMMA CallIsStep ==
    ASSUME F!ParityAssumption, FwInv, NEW cls \in {"OK", "GAP"}, NEW valid \in BOOLEAN, NEW n, n \in Samples \/ cls = "GAP",
           NEW anomaly \in BOOLEAN, NEW t \in CallSteps, FwCall(cls, valid, n, anomaly, t)
    PROVE  FwInv' /\ F!ImplementsMachine
<1>1. now' \in Int
  <2>1. t \in Nat /\ FwMsRange \in Nat \ {0} /\ now \in Int
    BY DEF F!ParityAssumption, FwInv
  <2>2. now' = (now + t) % FwMsRange
    BY DEF FwCall
  <2> QED BY <2>1, <2>2
<1>2. fw' = F!Observe(fw, cls, valid, n, anomaly, now')
  BY DEF FwCall
<1>3. FwSound(fw') /\ \E lockOk, unlockBad \in BOOLEAN :
          /\ ~(lockOk /\ unlockBad)
          /\ F!Shown(fw', now') = F!Machine!Discipline(F!Shown(fw, now'), cls, valid, lockOk, unlockBad)
  BY <1>1, <1>2, ObserveIs DEF FwInv
<1>4. FwInv'
  BY <1>1, <1>3 DEF FwInv
<1> QED BY <1>3, <1>4 DEF F!ImplementsMachine

LEMMA FwSteps == ASSUME F!ParityAssumption, FwInv, [FwNext]_<<now, fw>> PROVE FwInv' /\ [F!ImplementsMachine]_<<now, fw>>
<1>1. ASSUME NEW t \in CallSteps, NEW n \in Samples, NEW anomaly \in BOOLEAN, FwCall("OK", TRUE, n, anomaly, t)
      PROVE  FwInv' /\ F!ImplementsMachine
  BY <1>1, CallIsStep
<1>2. ASSUME NEW t \in CallSteps, NEW valid \in BOOLEAN, FwCall("GAP", valid, Nominal, TRUE, t)
      PROVE  FwInv' /\ F!ImplementsMachine
  BY <1>2, CallIsStep
<1>3. CASE UNCHANGED <<now, fw>>
  BY <1>3 DEF FwInv
<1> QED BY <1>1, <1>2, <1>3 DEF FwNext

LEMMA ExportsAreSlow == ASSUME F!ParityAssumption, FwInv PROVE F!ExportIsSlow
<1>1. FwTyped(fw) /\ (fw.state \in {"DISCIPLINED", "HOLDOVER"} => fw.hat = F!Ticks(fw.slow))
  BY DEF FwInv, FwSound
<1>2. Ranged(F!Ticks(fw.fast)) /\ Ranged(F!Ticks(fw.slow)) /\ Ranged(fw.hat)
  BY <1>1, TicksRange DEF FwTyped
<1> QED BY <1>1, <1>2 DEF F!ExportIsSlow, Ranged, Given
-----------------------------------------------------------------------------
(***************************************************************************)
(* The accounting of captures: the rows accepted and the rows reported     *)
(* missing add up to what was sent, for every width of the numbers and     *)
(* every loss, repetition, damage and restart that the guards of           *)
(* CaptureAccounting leave.                                                *)
(*                                                                         *)
(* The last row accepted, the rows under way and what the firmware has     *)
(* sent form one trail (Chained, Ends): from each row to the next, the     *)
(* firmware was restarted, or fewer than half the numbers were used.  So   *)
(* within a life the number modulo its width tells how many are missing.   *)
(***************************************************************************)
CONSTANTS SeqWidth, MinuteMs, Joins, AccountRows, AccountEnd, AccountFaults, MaxBacklog

VARIABLES nano, lost, pi, log, rec, out, kept

A == INSTANCE CaptureAccounting WITH None <- Absent, Width <- SeqWidth, Minute <- MinuteMs, MaxRows <- AccountRows,
        MaxTime <- AccountEnd, MaxFaults <- AccountFaults

Accepted == [what : {"row"}, life : Nat, n : Nat, at : Nat]
Arrivals == Accepted \cup [what : {"damaged"}, life : Nat, n : Nat, at : Nat] \cup [what : {"metadata"}, at : Nat]
IsRow(e) == e.what = "row"
Blank    == [what |-> "metadata", at |-> 0]

\* The trail of what was accepted last, b, and what arrived after it, q.
Trail(b, q, i) == IF i = 0 THEN b ELSE q[i]
Quiet(b, q, i, j) == \A k \in i + 1 .. j - 1 : ~IsRow(Trail(b, q, k))
Near(a, c) == a.life < c.life \/ (a.life = c.life /\ a.n <= c.n /\ 2 * (c.n - a.n) < SeqWidth)

Chained(b, q) ==
    \A i, j \in 0 .. Len(q) :
        i < j /\ IsRow(Trail(b, q, i)) /\ IsRow(Trail(b, q, j)) /\ Quiet(b, q, i, j) => Near(Trail(b, q, i), Trail(b, q, j))

\* The firmware is in the given life and has sent n rows; the last ones of them are gone.
Reaches(a, life, n, gone) == a.life < life \/ (a.life = life /\ a.n + gone = n)
Ends(b, q, life, n, gone) ==
    \A i \in 0 .. Len(q) : IsRow(Trail(b, q, i)) /\ Quiet(b, q, i, Len(q) + 1) => Reaches(Trail(b, q, i), life, n, gone)

LEMMA Stretch ==
    ASSUME NEW x \in Nat, NEW gone \in Nat, NEW n \in Nat, NEW m \in Nat, NEW w \in Nat, x + gone = n, n <= m, 2 * (m - n + gone) < w
    PROVE  x <= m /\ 2 * (m - x) < w
OBVIOUS

LEMMA PushOther ==
    ASSUME NEW b, NEW q \in Seq(Arrivals), NEW e \in Arrivals, ~IsRow(e), NEW life, NEW n, NEW gone,
           Chained(b, q), Ends(b, q, life, n, gone)
    PROVE  Append(q, e) \in Seq(Arrivals) /\ Chained(b, Append(q, e)) /\ Ends(b, Append(q, e), life, n, gone)
<1> DEFINE r == Append(q, e)
<1>1. r \in Seq(Arrivals) /\ Len(r) = Len(q) + 1 /\ Len(q) \in Nat /\ r[Len(q) + 1] = e /\ \A i \in 1 .. Len(q) : r[i] = q[i]
  OBVIOUS
<1> HIDE DEF r
<1>2. (\A i \in 0 .. Len(q) : Trail(b, r, i) = Trail(b, q, i)) /\ ~IsRow(Trail(b, r, Len(q) + 1))
  BY <1>1 DEF Trail
<1>3. ASSUME NEW i \in 0 .. Len(r), NEW j \in 0 .. Len(r), i < j, IsRow(Trail(b, r, i)), IsRow(Trail(b, r, j)), Quiet(b, r, i, j)
      PROVE  Near(Trail(b, r, i), Trail(b, r, j))
  <2>1. i \in 0 .. Len(q) /\ j \in 0 .. Len(q)
    BY <1>1, <1>2, <1>3
  <2>2. Quiet(b, q, i, j)
    BY <1>1, <1>2, <1>3, <2>1 DEF Quiet
  <2> QED BY <1>2, <1>3, <2>1, <2>2 DEF Chained
<1>4. ASSUME NEW i \in 0 .. Len(r), IsRow(Trail(b, r, i)), Quiet(b, r, i, Len(r) + 1)
      PROVE  Reaches(Trail(b, r, i), life, n, gone)
  <2>1. i \in 0 .. Len(q)
    BY <1>1, <1>2, <1>4
  <2>2. Quiet(b, q, i, Len(q) + 1)
    BY <1>1, <1>2, <1>4, <2>1 DEF Quiet
  <2> QED BY <1>2, <1>4, <2>1, <2>2 DEF Ends
<1>5. Chained(b, r) /\ Ends(b, r, life, n, gone)
  BY <1>3, <1>4 DEF Chained, Ends
<1> QED BY <1>1, <1>5 DEF r

LEMMA PushRow ==
    ASSUME NEW b, NEW q \in Seq(Arrivals), NEW e \in Accepted, NEW n \in Nat, NEW gone \in Nat, SeqWidth \in Nat,
           Chained(b, q), Ends(b, q, e.life, n, gone), IsRow(b) => b \in Accepted,
           n <= e.n, 2 * (e.n - n + gone) < SeqWidth
    PROVE  Append(q, e) \in Seq(Arrivals) /\ Chained(b, Append(q, e)) /\ Ends(b, Append(q, e), e.life, e.n, 0)
<1> DEFINE r == Append(q, e)
<1>0. e \in Arrivals /\ IsRow(e) /\ e.n \in Nat /\ e.life \in Nat
  BY DEF Arrivals, Accepted, IsRow
<1>1. r \in Seq(Arrivals) /\ Len(r) = Len(q) + 1 /\ Len(q) \in Nat /\ r[Len(q) + 1] = e /\ \A i \in 1 .. Len(q) : r[i] = q[i] /\ q[i] \in Arrivals
  BY <1>0
<1> HIDE DEF r
<1>2. (\A i \in 0 .. Len(q) : Trail(b, r, i) = Trail(b, q, i)) /\ Trail(b, r, Len(q) + 1) = e
  BY <1>1 DEF Trail
<1>3. ASSUME NEW i \in 0 .. Len(r), NEW j \in 0 .. Len(r), i < j, IsRow(Trail(b, r, i)), IsRow(Trail(b, r, j)), Quiet(b, r, i, j)
      PROVE  Near(Trail(b, r, i), Trail(b, r, j))
  <2>0. i \in 0 .. Len(q)
    BY <1>1, <1>3
  <2>1. Quiet(b, q, i, j)
    <3>1. SUFFICES ASSUME NEW k \in i + 1 .. j - 1 PROVE ~IsRow(Trail(b, q, k))
      BY DEF Quiet
    <3>2. k \in 0 .. Len(q) /\ ~IsRow(Trail(b, r, k))
      BY <1>1, <1>3, <2>0, <3>1 DEF Quiet
    <3> QED BY <1>2, <3>2
  <2>2. CASE j \in 0 .. Len(q)
    BY <1>2, <1>3, <2>0, <2>1, <2>2 DEF Chained
  <2>3. CASE j = Len(q) + 1
    <3> DEFINE a == Trail(b, q, i)
    <3>1. Reaches(a, e.life, n, gone)
      BY <1>2, <1>3, <2>0, <2>1, <2>3 DEF Ends
    <3>2. a.n \in Nat
      BY <1>1, <1>2, <1>3, <2>0 DEF Trail, Arrivals, Accepted, IsRow
    <3>3. Near(a, e)
      <4> HIDE DEF a
      <4>1. a.n + gone = n => a.n <= e.n /\ 2 * (e.n - a.n) < SeqWidth
        BY <1>0, <3>2, Stretch
      <4> QED BY <3>1, <4>1 DEF Near, Reaches
    <3> QED BY <1>2, <2>0, <2>3, <3>3
  <2> QED BY <1>1, <2>2, <2>3
<1>4. ASSUME NEW i \in 0 .. Len(r), IsRow(Trail(b, r, i)), Quiet(b, r, i, Len(r) + 1)
      PROVE  Reaches(Trail(b, r, i), e.life, e.n, 0)
  <2>1. ~(i \in 0 .. Len(q))
    <3>1. SUFFICES ASSUME i \in 0 .. Len(q) PROVE FALSE
      OBVIOUS
    <3>2. Len(q) + 1 \in i + 1 .. (Len(r) + 1) - 1
      BY <1>1, <3>1
    <3> QED BY <1>0, <1>2, <1>4, <3>2 DEF Quiet
  <2>2. Trail(b, r, i) = e
    BY <1>1, <1>2, <2>1
  <2> QED BY <1>0, <2>2 DEF Reaches
<1>5. Chained(b, r) /\ Ends(b, r, e.life, e.n, 0)
  BY <1>3, <1>4 DEF Chained, Ends
<1> QED BY <1>1, <1>5 DEF r

\* The first of what arrived is taken: it becomes the last row accepted, or is passed over.
Passes(b, e) == IsRow(b) /\ IsRow(e) => b.life < e.life \/ (b.life = e.life /\ b.n = e.n)
LEMMA Popped ==
    ASSUME NEW b, NEW q \in Seq(Arrivals), q # <<>>, NEW life \in Nat, NEW n \in Nat, NEW gone \in Nat, NEW c,
           Chained(b, q), Ends(b, q, life, n, gone), IsRow(b) => b \in Accepted,
           ~IsRow(c) \/ (IsRow(c) /\ c = Head(q)) \/ (IsRow(c) /\ c = b /\ Passes(b, Head(q)))
    PROVE  Tail(q) \in Seq(Arrivals) /\ Chained(c, Tail(q)) /\ Ends(c, Tail(q), life, n, gone)
<1> DEFINE t == Tail(q)
           e == Head(q)
<1>1. /\ t \in Seq(Arrivals) /\ Len(q) = Len(t) + 1 /\ Len(t) \in Nat /\ e = q[1] /\ \A i \in 1 .. Len(t) : t[i] = q[i + 1]
      /\ \A i \in 1 .. Len(q) : q[i] \in Arrivals
  OBVIOUS
<1> HIDE DEF t, e
<1>2. /\ \A i \in 1 .. Len(t) : Trail(c, t, i) = Trail(b, q, i + 1)
      /\ Trail(c, t, 0) = c /\ Trail(b, q, 0) = b /\ Trail(b, q, 1) = e
  BY <1>1 DEF Trail
<1>3. \A i \in 0 .. Len(q) : IsRow(Trail(b, q, i)) => Trail(b, q, i) \in Accepted
  BY <1>1 DEF Trail, Arrivals, IsRow
<1>4. \A i, j \in 0 .. Len(t) + 1 : Quiet(c, t, i, j) => Quiet(b, q, i + 1, j + 1)
  <2>1. SUFFICES ASSUME NEW i \in 0 .. Len(t) + 1, NEW j \in 0 .. Len(t) + 1, Quiet(c, t, i, j), NEW k \in (i + 1) + 1 .. (j + 1) - 1
                 PROVE  ~IsRow(Trail(b, q, k))
    BY DEF Quiet
  <2>2. k - 1 \in i + 1 .. j - 1 /\ k - 1 \in 1 .. Len(t) /\ (k - 1) + 1 = k
    BY <1>1
  <2> QED BY <1>2, <2>1, <2>2 DEF Quiet
\* Where the row in front stands in the old trail.
<1>5. ASSUME IsRow(c), ~IsRow(e)
      PROVE  c = b /\ \A j \in 0 .. Len(t) + 1 : Quiet(c, t, 0, j) => Quiet(b, q, 0, j + 1)
  <2>1. c = b
    BY <1>5 DEF e
  <2>2. SUFFICES ASSUME NEW j \in 0 .. Len(t) + 1, Quiet(c, t, 0, j), NEW k \in 0 + 1 .. (j + 1) - 1
                 PROVE  ~IsRow(Trail(b, q, k))
    BY <2>1 DEF Quiet
  <2>3. CASE k = 1
    BY <1>2, <1>5, <2>3
  <2>4. CASE k # 1
    <3>1. k - 1 \in 0 + 1 .. j - 1 /\ k - 1 \in 1 .. Len(t) /\ (k - 1) + 1 = k
      BY <1>1, <2>4
    <3> QED BY <1>2, <2>2, <3>1 DEF Quiet
  <2> QED BY <2>3, <2>4
<1>6. ASSUME IsRow(c), IsRow(e) PROVE c \in Accepted /\ e \in Accepted /\ (c.life < e.life \/ (c.life = e.life /\ c.n = e.n) \/ c = e)
  BY <1>1, <1>2, <1>3, <1>6 DEF Passes, e
<1>7. ASSUME NEW i \in 0 .. Len(t), NEW j \in 0 .. Len(t), i < j, IsRow(Trail(c, t, i)), IsRow(Trail(c, t, j)), Quiet(c, t, i, j)
      PROVE  Near(Trail(c, t, i), Trail(c, t, j))
  <2>0. /\ i + 1 \in 0 .. Len(q) /\ j + 1 \in 0 .. Len(q) /\ i + 1 < j + 1 /\ 0 \in 0 .. Len(q) /\ 0 < j + 1
        /\ j \in 1 .. Len(t) /\ i \in 0 .. Len(t) + 1 /\ j \in 0 .. Len(t) + 1
    BY <1>1, <1>7
  <2>1. Trail(c, t, j) = Trail(b, q, j + 1) /\ Trail(c, t, j) \in Accepted
    BY <1>2, <1>3, <1>7, <2>0
  <2>2. CASE i # 0
    <3>1. Trail(c, t, i) = Trail(b, q, i + 1)
      BY <1>2, <2>2
    <3>2. Quiet(b, q, i + 1, j + 1)
      BY <1>4, <1>7, <2>0
    <3> QED BY <1>7, <2>0, <2>1, <3>1, <3>2 DEF Chained
  <2>3. CASE i = 0 /\ ~IsRow(e)
    <3>1. c = b /\ IsRow(c) /\ Quiet(b, q, 0, j + 1)
      BY <1>2, <1>5, <1>7, <2>0, <2>3
    <3>2. Near(Trail(b, q, 0), Trail(b, q, j + 1))
      BY <1>2, <1>7, <2>0, <2>1, <3>1 DEF Chained
    <3> QED BY <1>2, <2>1, <2>3, <3>1, <3>2
  <2>4. CASE i = 0 /\ IsRow(e)
    <3>1. Quiet(b, q, 1, j + 1)
      BY <1>4, <1>7, <2>0, <2>4
    <3>2. Near(e, Trail(b, q, j + 1))
      BY <1>2, <1>7, <2>0, <2>1, <2>4, <3>1 DEF Chained
    <3> DEFINE d == Trail(c, t, j)
    <3>3. Near(e, d) /\ d \in Accepted
      BY <2>1, <3>2
    <3> HIDE DEF d
    <3>4. c \in Accepted /\ e \in Accepted /\ (c.life < e.life \/ (c.life = e.life /\ c.n = e.n) \/ c = e)
      BY <1>2, <1>6, <1>7, <2>4
    <3>5. Near(c, d)
      BY <3>3, <3>4 DEF Near, Accepted
    <3> QED BY <1>2, <2>4, <3>5 DEF d
  <2> QED BY <2>2, <2>3, <2>4
<1>8. ASSUME NEW i \in 0 .. Len(t), IsRow(Trail(c, t, i)), Quiet(c, t, i, Len(t) + 1)
      PROVE  Reaches(Trail(c, t, i), life, n, gone)
  <2>0. i + 1 \in 0 .. Len(q) /\ Len(t) + 1 \in 0 .. Len(t) + 1 /\ (Len(t) + 1) + 1 = Len(q) + 1 /\ i \in 0 .. Len(t) + 1 /\ 0 \in 0 .. Len(q)
        /\ 1 \in 0 .. Len(q)
    BY <1>1
  <2>1. Quiet(b, q, i + 1, Len(q) + 1)
    BY <1>4, <1>8, <2>0
  <2>2. CASE i # 0
    <3>1. Trail(c, t, i) = Trail(b, q, i + 1)
      BY <1>2, <2>2
    <3> QED BY <1>8, <2>0, <2>1, <3>1 DEF Ends
  <2>3. CASE i = 0 /\ ~IsRow(e)
    <3>1. c = b /\ IsRow(c) /\ Quiet(b, q, 0, Len(q) + 1)
      BY <1>2, <1>5, <1>8, <2>0, <2>3
    <3>2. Reaches(Trail(b, q, 0), life, n, gone)
      BY <1>2, <2>0, <3>1 DEF Ends
    <3> QED BY <1>2, <2>3, <3>1, <3>2
  <2>4. CASE i = 0 /\ IsRow(e)
    <3>1. Reaches(e, life, n, gone)
      <4>1. Quiet(b, q, 1, Len(q) + 1)
        BY <2>1, <2>4
      <4> QED BY <1>2, <2>0, <2>4, <4>1 DEF Ends
    <3>2. c \in Accepted /\ e \in Accepted /\ (c.life < e.life \/ (c.life = e.life /\ c.n = e.n) \/ c = e)
      BY <1>2, <1>6, <1>8, <2>4
    <3>3. Reaches(c, life, n, gone)
      BY <3>1, <3>2 DEF Reaches, Accepted
    <3> QED BY <1>2, <2>4, <3>3
  <2> QED BY <2>2, <2>3, <2>4
<1>9. Chained(c, t) /\ Ends(c, t, life, n, gone)
  BY <1>7, <1>8 DEF Chained, Ends
<1> QED BY <1>1, <1>9 DEF t

\* Within a life, the numbers tell the distance.
LEMMA DistanceIs ==
    ASSUME A!AccountingAssumption, NEW a \in Accepted, NEW c \in Accepted, Near(a, c), NEW step, step = A!Step(A!Seq0(a), A!Seq0(c))
    PROVE  /\ step.kind \in {"duplicate", "restart", "next"} /\ step.missing \in Nat
           /\ a.life = c.life => /\ step.kind = "duplicate" => a.n = c.n
                                 /\ step.kind # "restart"
                                 /\ step.kind = "next" => step.missing = c.n - a.n - 1
<1> DEFINE p == a.n % SeqWidth
           r == c.n % SeqWidth
           d == (r + SeqWidth - p) % SeqWidth
<1>1. SeqWidth \in Nat \ {0} /\ a.n \in Nat /\ c.n \in Nat
  BY DEF A!AccountingAssumption, Accepted
<1>2. p \in 0 .. SeqWidth - 1 /\ r \in 0 .. SeqWidth - 1
  BY <1>1
<1>3. p # Absent
  BY <1>2 DEF A!AccountingAssumption
<1>4. step = CASE d = 0               -> [kind |-> "duplicate", missing |-> 0]
               [] 2 * d >= SeqWidth   -> [kind |-> "restart", missing |-> 0]
               [] OTHER               -> [kind |-> "next", missing |-> d - 1]
  BY <1>3 DEF A!Step, A!Seq0
<1>5. d \in 0 .. SeqWidth - 1
  <2>1. r + SeqWidth - p \in Int
    BY <1>1, <1>2
  <2> HIDE DEF r, p
  <2> QED BY <1>1, <2>1
<1>6. a.life = c.life => d = c.n - a.n /\ 2 * d < SeqWidth
  <2>1. SUFFICES ASSUME a.life = c.life PROVE d = c.n - a.n /\ 2 * d < SeqWidth
    OBVIOUS
  <2>2. a.n <= c.n /\ 2 * (c.n - a.n) < SeqWidth
    BY <2>1 DEF Near, Accepted
  <2>3. Congruent(SeqWidth, c.n, r) /\ Congruent(SeqWidth, a.n, p)
    BY <1>1, RestIsCongruent
  <2> HIDE DEF r, p
  <2>4. Congruent(SeqWidth, c.n - a.n, r - p)
    BY <1>1, <1>2, <2>3, CongruentMinus
  <2>5. PICK k \in Int : c.n - a.n = (r - p) + SeqWidth * k
    BY <2>4 DEF Congruent
  <2>6. c.n - a.n = (r + SeqWidth - p) + SeqWidth * (k - 1) /\ k - 1 \in Int /\ c.n - a.n \in Int /\ r + SeqWidth - p \in Int
    BY <1>1, <1>2, <2>5
  <2>7. (c.n - a.n) % SeqWidth = d
    BY <1>1, <2>6, SameRest DEF Congruent
  <2>8. c.n - a.n \in 0 .. SeqWidth - 1
    BY <1>1, <2>2
  <2> QED BY <1>1, <2>2, <2>7, <2>8, SmallIsItself
<1> HIDE DEF d
<1>7. CASE d = 0
  <2>1. step = [kind |-> "duplicate", missing |-> 0]
    <3>1. ~(2 * d >= SeqWidth)
      BY <1>1, <1>7
    <3> QED BY <1>4, <1>7, <3>1
  <2>2. step.kind = "duplicate" /\ step.missing = 0
    BY <2>1
  <2> QED BY <1>1, <1>6, <1>7, <2>2
<1>8. CASE d # 0 /\ 2 * d >= SeqWidth
  <2>1. step = [kind |-> "restart", missing |-> 0]
    BY <1>4, <1>8
  <2>2. step.kind = "restart" /\ step.missing = 0
    BY <2>1
  <2> QED BY <1>1, <1>5, <1>6, <1>8, <2>2
<1>9. CASE d # 0 /\ ~(2 * d >= SeqWidth)
  <2>1. step = [kind |-> "next", missing |-> d - 1]
    BY <1>4, <1>9
  <2>2. step.kind = "next" /\ step.missing = d - 1
    BY <2>1
  <2>3. d - 1 \in Nat
    BY <1>1, <1>5, <1>9
  <2> QED BY <1>1, <1>6, <2>2, <2>3
<1> QED BY <1>7, <1>8, <1>9

\* What has been accepted, and what is counted of it.
Front(rows) == IF rows = <<>> THEN Blank ELSE rows[Len(rows)]
Tallied(p, rows) ==
    /\ p \in [ready : BOOLEAN, prev : Nat \cup {Absent}, missing : Nat] /\ rows \in Seq(Accepted)
    /\ ~p.ready => rows = <<>>
    /\ rows = <<>> => p.prev = Absent /\ p.missing = 0
    /\ rows # <<>> => /\ p.prev = A!Seq0(Front(rows))
                      /\ rows[1].life <= Front(rows).life
                      /\ rows[1].life = Front(rows).life => Len(rows) + p.missing = Front(rows).n - rows[1].n + 1
    /\ \A k \in 1 .. Len(rows) - 1 : rows[k].life # rows[k + 1].life => A!Step(A!Seq0(rows[k]), A!Seq0(rows[k + 1])).kind = "next"

AccountInv ==
    /\ now \in Nat /\ nano \in [life : Nat, n : Nat, left : Nat]
    /\ lost \in Nat /\ (lost = 0 \/ lost < SeqWidth \div 2 - 1)
    /\ queue \in Seq(Arrivals) /\ Tallied(pi, log)
    /\ Chained(Front(log), queue) /\ Ends(Front(log), queue, nano.life, nano.n, lost)

LEMMA FrontIs ==
    ASSUME NEW rows \in Seq(Accepted)
    PROVE  /\ rows # <<>> => Front(rows) \in Accepted /\ IsRow(Front(rows))
           /\ rows = <<>> => ~IsRow(Front(rows))
<1>1. rows # <<>> => Len(rows) \in 1 .. Len(rows) /\ rows[Len(rows)] \in Accepted
  OBVIOUS
<1> QED BY <1>1 DEF Front, IsRow, Accepted, Blank

LEMMA AccountStarts == ASSUME A!AccountingAssumption, A!Init PROVE AccountInv
<1>1. /\ now \in Nat /\ nano \in [life : Nat, n : Nat, left : Nat] /\ lost = 0 /\ queue = <<>> /\ log = <<>>
      /\ pi = [ready |-> FALSE, prev |-> Absent, missing |-> 0]
  <2>1. nano \in [life : {1}, n : Joins, left : {AccountRows}] /\ Joins \subseteq Nat /\ AccountRows \in Nat
    BY DEF A!Init, A!AccountingAssumption
  <2>2. nano \in [life : Nat, n : Nat, left : Nat]
    <3>1. nano = [life |-> 1, n |-> nano.n, left |-> AccountRows] /\ nano.n \in Nat
      BY <2>1
    <3> QED BY <2>1, <3>1
  <2> QED BY <2>2 DEF A!Init, A!Silent
<1>2. queue \in Seq(Arrivals) /\ log \in Seq(Accepted) /\ Len(queue) = 0 /\ Len(log) = 0
  BY <1>1
<1>3. Tallied(pi, log)
  BY <1>1, <1>2 DEF Tallied
<1>4. ~IsRow(Front(log))
  BY <1>1, <1>2, FrontIs
<1>5. \A i \in 0 .. Len(queue) : ~IsRow(Trail(Front(log), queue, i))
  BY <1>2, <1>4 DEF Trail
<1>6. Chained(Front(log), queue) /\ Ends(Front(log), queue, nano.life, nano.n, lost)
  BY <1>5 DEF Chained, Ends
<1> QED BY <1>1, <1>2, <1>3, <1>6 DEF AccountInv

LEMMA SendKeeps ==
    ASSUME A!AccountingAssumption, AccountInv, NEW how \in {"arrives", "lost", "twice", "damaged", "cut"}, A!Send(how)
    PROVE  AccountInv'
<1> DEFINE b == Front(log)
           row == [what |-> "row", life |-> nano.life, n |-> nano.n + 1, at |-> now]
           bad == [what |-> "damaged", life |-> nano.life, n |-> nano.n + 1, at |-> now]
<1>1. /\ now \in Nat /\ nano \in [life : Nat, n : Nat, left : Nat] /\ nano.life \in Nat /\ nano.n \in Nat
      /\ lost \in Nat /\ (lost = 0 \/ lost < SeqWidth \div 2 - 1)
      /\ queue \in Seq(Arrivals) /\ Tallied(pi, log) /\ Chained(b, queue) /\ Ends(b, queue, nano.life, nano.n, lost)
  BY DEF AccountInv
<1>2. SeqWidth \in Nat /\ SeqWidth \div 2 \in Nat /\ 2 * (SeqWidth \div 2) <= SeqWidth
  BY DEF A!AccountingAssumption
<1>3. /\ nano' \in [life : Nat, n : Nat, left : Nat] /\ nano'.life = nano.life /\ nano'.n = nano.n + 1 /\ lost' \in Nat /\ lost' < SeqWidth \div 2 - 1
      /\ lost' = (IF how \in {"lost", "damaged"} THEN lost + 1 ELSE 0)
      /\ now' = now /\ pi' = pi /\ log' = log
  <2>1. nano' = [nano EXCEPT !.n = @ + 1, !.left = @ - 1] /\ nano.left > 0
    BY DEF A!Send
  <2>2. nano' \in [life : Nat, n : Nat, left : Nat] /\ nano'.life = nano.life /\ nano'.n = nano.n + 1
    <3>1. nano' = [life |-> nano.life, n |-> nano.n + 1, left |-> nano.left - 1] /\ nano.left \in Nat
      BY <1>1, <2>1
    <3>2. nano.left - 1 \in Nat /\ nano.n + 1 \in Nat /\ nano.life \in Nat
      BY <1>1, <2>1, <3>1
    <3> QED BY <3>1, <3>2
  <2>3. lost' = (IF how \in {"lost", "damaged"} THEN lost + 1 ELSE 0) /\ lost' < SeqWidth \div 2 - 1 /\ UNCHANGED <<now, pi, log>>
    BY DEF A!Send, A!receiver
  <2> QED BY <1>1, <2>2, <2>3
<1>4. /\ how = "arrives" => queue' = queue \o <<row>>
      /\ how = "lost" => queue' = queue \o <<>>
      /\ how = "twice" => queue' = queue \o <<row, row>>
      /\ how = "damaged" => queue' = queue \o <<bad>>
      /\ how = "cut" => queue' = queue \o <<bad, row>>
  <2>1. A!Row = row /\ [A!Row EXCEPT !.what = "damaged"] = bad
    BY DEF A!Row
  <2> QED BY <2>1 DEF A!Send
<1>5. /\ row \in Accepted /\ row.life = nano.life /\ row.n = nano.n + 1 /\ bad \in Arrivals /\ ~IsRow(bad) /\ row \in Arrivals
      /\ log \in Seq(Accepted) /\ (IsRow(b) => b \in Accepted)
  <2>1. row \in Accepted /\ bad \in [what : {"damaged"}, life : Nat, n : Nat, at : Nat] /\ bad.what = "damaged"
    BY <1>1 DEF Accepted
  <2>2. log \in Seq(Accepted)
    BY <1>1 DEF Tallied
  <2> QED BY <2>1, <2>2, FrontIs DEF Arrivals, IsRow
<1>6. /\ how = "arrives" => queue' = Append(queue, row)
      /\ how = "lost" => queue' = queue
      /\ how = "twice" => queue' = Append(Append(queue, row), row)
      /\ how = "damaged" => queue' = Append(queue, bad)
      /\ how = "cut" => queue' = Append(Append(queue, bad), row)
  <2> HIDE DEF row, bad
  <2>1. queue \o <<>> = queue /\ queue \o <<row>> = Append(queue, row) /\ queue \o <<bad>> = Append(queue, bad)
    BY <1>1, <1>5
  <2>2. queue \o <<row, row>> = Append(Append(queue, row), row) /\ queue \o <<bad, row>> = Append(Append(queue, bad), row)
    BY <1>1, <1>5
  <2> QED BY <1>4, <2>1, <2>2
<1> HIDE DEF b, row, bad
<1>7. nano.n <= row.n /\ 2 * (row.n - nano.n + lost) < SeqWidth /\ row.n <= row.n /\ 2 * (row.n - row.n + 0) < SeqWidth
      /\ row.n \in Nat /\ 0 \in Nat
  BY <1>1, <1>2, <1>3, <1>5
<1>8. /\ Append(queue, row) \in Seq(Arrivals) /\ Chained(b, Append(queue, row))
      /\ Ends(b, Append(queue, row), nano.life, nano.n + 1, 0)
  BY <1>1, <1>2, <1>5, <1>7, PushRow
<1>9. /\ Append(queue, bad) \in Seq(Arrivals) /\ Chained(b, Append(queue, bad))
      /\ Ends(b, Append(queue, bad), nano.life, nano.n, lost)
  BY <1>1, <1>5, PushOther
<1>10. \A q \in Seq(Arrivals) : Ends(b, q, nano.life, nano.n, lost) => Ends(b, q, nano.life, nano.n + 1, lost + 1)
  <2>1. SUFFICES ASSUME NEW q \in Seq(Arrivals), Ends(b, q, nano.life, nano.n, lost), NEW i \in 0 .. Len(q),
                        IsRow(Trail(b, q, i)), Quiet(b, q, i, Len(q) + 1)
                 PROVE  Reaches(Trail(b, q, i), nano.life, nano.n + 1, lost + 1)
    BY DEF Ends
  <2>2. Reaches(Trail(b, q, i), nano.life, nano.n, lost)
    BY <2>1 DEF Ends
  <2>3. Trail(b, q, i).n \in Nat
    BY <1>5, <2>1 DEF Trail, Arrivals, Accepted, IsRow
  <2> QED BY <1>1, <2>2, <2>3 DEF Reaches
<1>11. queue' \in Seq(Arrivals) /\ Chained(b, queue') /\ Ends(b, queue', nano'.life, nano'.n, lost')
  <2>1. CASE how = "arrives"
    BY <1>3, <1>6, <1>8, <2>1
  <2>2. CASE how = "lost"
    BY <1>1, <1>3, <1>6, <1>10, <2>2
  <2>3. CASE how = "twice"
    <3>1. Ends(b, Append(queue, row), row.life, row.n, 0)
      BY <1>5, <1>8
    <3>2. /\ Append(Append(queue, row), row) \in Seq(Arrivals) /\ Chained(b, Append(Append(queue, row), row))
          /\ Ends(b, Append(Append(queue, row), row), nano.life, nano.n + 1, 0)
      BY <1>2, <1>5, <1>7, <1>8, <3>1, PushRow
    <3> QED BY <1>3, <1>6, <2>3, <3>2
  <2>4. CASE how = "damaged"
    BY <1>1, <1>3, <1>6, <1>9, <1>10, <2>4
  <2>5. CASE how = "cut"
    <3>1. /\ Append(Append(queue, bad), row) \in Seq(Arrivals) /\ Chained(b, Append(Append(queue, bad), row))
          /\ Ends(b, Append(Append(queue, bad), row), nano.life, nano.n + 1, 0)
      BY <1>1, <1>2, <1>5, <1>7, <1>9, PushRow
    <3> QED BY <1>3, <1>6, <2>5, <3>1
  <2> QED BY <2>1, <2>2, <2>3, <2>4, <2>5
<1>12. Front(log') = b
  BY <1>3 DEF b
<1> QED BY <1>1, <1>3, <1>11, <1>12 DEF AccountInv

\* What the receiver does with a row.
LEMMA CaptureKeeps ==
    ASSUME A!AccountingAssumption, Tallied(pi, log), pi.ready, NEW row \in Accepted, A!Capture(row),
           log # <<>> => Near(Front(log), row)
    PROVE  /\ Tallied(pi', log')
           /\ \/ ~IsRow(Front(log'))
              \/ IsRow(Front(log')) /\ Front(log') = row
              \/ IsRow(Front(log')) /\ Front(log') = Front(log) /\ Passes(Front(log), row)
<1> DEFINE step == A!Step(pi.prev, A!Seq0(row))
           N == Len(log)
<1>0. /\ log \in Seq(Accepted) /\ N \in Nat /\ pi.missing \in Nat /\ (N = 0 <=> log = <<>>)
      /\ row.n \in Nat /\ row.life \in Nat /\ IsRow(row)
  BY DEF Tallied, Accepted, IsRow
<1>1. log = <<>> => step = [kind |-> "join", missing |-> 0]
  BY DEF Tallied, A!Step
<1>2. log # <<>> => /\ step = A!Step(A!Seq0(Front(log)), A!Seq0(row)) /\ Front(log) \in Accepted /\ Near(Front(log), row)
                    /\ IsRow(Front(log))
  BY <1>0, FrontIs DEF Tallied
<1>3. log # <<>> => /\ step.kind \in {"duplicate", "restart", "next"} /\ step.missing \in Nat
                    /\ Front(log).life = row.life => /\ step.kind = "duplicate" => Front(log).n = row.n
                                                     /\ step.kind # "restart"
                                                     /\ step.kind = "next" => step.missing = row.n - Front(log).n - 1
  BY <1>2, DistanceIs
<1>4. CASE step.kind = "duplicate"
  <2>1. pi' = pi /\ log' = log
    BY <1>4 DEF A!Capture, A!receiver
  <2>2. log # <<>>
    BY <1>1, <1>4
  <2>3. Passes(Front(log), row)
    BY <1>2, <1>3, <1>4, <2>2 DEF Passes, Near
  <2> QED BY <1>2, <2>1, <2>2, <2>3
<1>5. CASE step.kind = "restart"
  <2>1. pi' = [ready |-> FALSE, prev |-> Absent, missing |-> 0] /\ log' = <<>>
    BY <1>5 DEF A!Capture, A!Recover, A!Silent
  <2>2. log' \in Seq(Accepted) /\ Len(log') = 0
    BY <2>1
  <2>3. Tallied(pi', log')
    BY <2>1, <2>2 DEF Tallied
  <2> QED BY <2>1, <2>2, <2>3, FrontIs
<1>6. CASE step.kind \notin {"duplicate", "restart"}
  <2>1. log' = Append(log, row) /\ pi' = [pi EXCEPT !.prev = A!Seq0(row), !.missing = @ + step.missing]
    BY <1>6 DEF A!Capture
  <2> HIDE DEF step
  <2> DEFINE r == Append(log, row)
  <2>2. r \in Seq(Accepted) /\ Len(r) = N + 1 /\ r[N + 1] = row /\ (\A k \in 1 .. N : r[k] = log[k] /\ log[k] \in Accepted) /\ r # <<>>
    <3>1. r \in Seq(Accepted) /\ Len(r) = Len(log) + 1 /\ r[Len(log) + 1] = row /\ (\A k \in 1 .. Len(log) : r[k] = log[k])
      BY <1>0
    <3>2. \A k \in 1 .. Len(log) : log[k] \in Accepted
      BY <1>0
    <3> QED BY <1>0, <3>1, <3>2
  <2>3. log' = r /\ Front(r) = row /\ Len(r) \in Nat
    BY <1>0, <2>1, <2>2 DEF Front
  <2>4. A!Seq0(row) \in Nat /\ (log # <<>> => step.missing \in Nat) /\ (log = <<>> => step.missing = 0 /\ pi.missing = 0) /\ step.missing \in Nat
    BY <1>0, <1>1, <1>3 DEF A!Seq0, A!AccountingAssumption, Tallied
  <2>5. /\ pi' \in [ready : BOOLEAN, prev : Nat \cup {Absent}, missing : Nat]
        /\ pi'.ready = TRUE /\ pi'.prev = A!Seq0(row) /\ pi'.missing = pi.missing + step.missing
    <3>1. pi \in [ready : BOOLEAN, prev : Nat \cup {Absent}, missing : Nat] /\ pi.missing + step.missing \in Nat
      BY <2>4 DEF Tallied
    <3> QED BY <2>1, <2>4, <3>1
  <2>6. r[1].life <= row.life /\ (r[1].life = row.life => Len(r) + pi'.missing = row.n - r[1].n + 1)
    <3>1. CASE log = <<>>
      <4>1. N = 0 /\ Len(r) = 1 /\ r[1] = row /\ pi'.missing = 0
        BY <1>0, <2>2, <2>4, <2>5, <3>1
      <4> HIDE DEF r
      <4> QED BY <1>0, <4>1
    <3>2. CASE log # <<>>
      <4> DEFINE front == Front(log)
      <4>1. r[1] = log[1] /\ log[1] \in Accepted /\ front \in Accepted /\ N >= 1
        BY <1>0, <1>2, <2>2, <3>2
      <4>2. /\ log[1].life <= front.life
            /\ log[1].life = front.life => N + pi.missing = front.n - log[1].n + 1
        BY <3>2 DEF Tallied
      <4>3. front.life <= row.life /\ (front.life = row.life => step.missing = row.n - front.n - 1)
        <5>1. Near(front, row) /\ step.kind = "next" /\ (front.life = row.life => step.missing = row.n - front.n - 1)
          BY <1>2, <1>3, <1>6, <3>2
        <5>2. front.life \in Nat /\ row.life \in Nat
          BY <1>0, <4>1 DEF Accepted
        <5> HIDE DEF front
        <5>3. front.life <= row.life
          BY <5>1, <5>2 DEF Near
        <5> QED BY <5>1, <5>3
      <4> HIDE DEF front, r
      <4>4. log[1].life \in Nat /\ log[1].n \in Nat /\ front.life \in Nat /\ front.n \in Nat
        BY <4>1 DEF Accepted
      <4>5. row.life \in Nat /\ row.n \in Nat /\ pi.missing \in Nat /\ step.missing \in Nat /\ N \in Nat /\ Len(r) = N + 1
             /\ pi'.missing = pi.missing + step.missing
        BY <1>0, <2>2, <2>4, <2>5
      <4>6. log[1].life <= row.life
        BY <4>2, <4>3, <4>4, <4>5
      <4>7. log[1].life = row.life => Len(r) + pi'.missing = row.n - log[1].n + 1
        <5>1. SUFFICES ASSUME log[1].life = row.life PROVE Len(r) + pi'.missing = row.n - log[1].n + 1
          OBVIOUS
        <5>2. log[1].life = front.life /\ front.life = row.life
          BY <4>2, <4>3, <4>4, <4>5, <5>1
        <5>3. N + pi.missing = front.n - log[1].n + 1 /\ step.missing = row.n - front.n - 1
          BY <4>2, <4>3, <5>2
        <5>4. (N + 1) + (pi.missing + step.missing) = row.n - log[1].n + 1
          <6>1. PICK k \in Nat, m \in Nat, f \in Nat, o \in Nat, t \in Nat, d \in Nat :
                      k = N /\ m = pi.missing /\ f = front.n /\ o = log[1].n /\ t = row.n /\ d = step.missing
            BY <4>4, <4>5
          <6>2. k + m = f - o + 1 /\ d = t - f - 1
            BY <5>3, <6>1
          <6>3. (k + 1) + (m + d) = t - o + 1
            BY <6>2
          <6> QED BY <6>1, <6>3
        <5> QED BY <4>5, <5>4
      <4> QED BY <4>1, <4>6, <4>7
    <3> QED BY <3>1, <3>2
  <2>7. ASSUME NEW k \in 1 .. Len(r) - 1, r[k].life # r[k + 1].life
        PROVE  A!Step(A!Seq0(r[k]), A!Seq0(r[k + 1])).kind = "next"
    <3>1. CASE k \in 1 .. N - 1
      <4>1. r[k] = log[k] /\ r[k + 1] = log[k + 1]
        BY <1>0, <2>2, <3>1
      <4> QED BY <2>7, <3>1, <4>1 DEF Tallied
    <3>2. CASE k = N
      <4>1. log # <<>> /\ r[k] = Front(log) /\ r[k + 1] = row
        BY <1>0, <2>2, <2>7, <3>2 DEF Front
      <4>2. A!Step(A!Seq0(r[k]), A!Seq0(r[k + 1])).kind = step.kind
        BY <1>2, <4>1
      <4> QED BY <1>3, <1>6, <4>1, <4>2
    <3> QED BY <1>0, <2>2, <3>1, <3>2
  <2> HIDE DEF r
  <2>8. Tallied(pi', log')
    BY <2>2, <2>3, <2>5, <2>6, <2>7 DEF Tallied
  <2> QED BY <1>0, <2>3, <2>8
<1> QED BY <1>4, <1>5, <1>6

LEMMA ArrivalKeeps == ASSUME A!AccountingAssumption, AccountInv, A!Process PROVE AccountInv'
<1> DEFINE b == Front(log)
           c == Front(log')
           e == Head(queue)
<1>1. /\ now \in Nat /\ nano \in [life : Nat, n : Nat, left : Nat] /\ nano.life \in Nat /\ nano.n \in Nat
      /\ lost \in Nat /\ (lost = 0 \/ lost < SeqWidth \div 2 - 1)
      /\ queue \in Seq(Arrivals) /\ Tallied(pi, log) /\ Chained(b, queue) /\ Ends(b, queue, nano.life, nano.n, lost)
  BY DEF AccountInv
<1>2. queue # <<>> /\ queue' = Tail(queue) /\ now' = now /\ nano' = nano /\ lost' = lost
  BY DEF A!Process
<1>3. e \in Arrivals /\ e = queue[1] /\ 1 \in 1 .. Len(queue) /\ Len(queue) \in Nat
  BY <1>1, <1>2
<1>4. log \in Seq(Accepted) /\ (IsRow(b) => b \in Accepted)
  BY <1>1, FrontIs DEF Tallied
<1>5. Tallied(pi', log') /\ (~IsRow(c) \/ (IsRow(c) /\ c = e) \/ (IsRow(c) /\ c = b /\ Passes(b, e)))
  <2>1. CASE A!Recover
    <3>1. pi' = [ready |-> FALSE, prev |-> Absent, missing |-> 0] /\ log' = <<>>
      BY <2>1 DEF A!Recover, A!Silent
    <3>2. log' \in Seq(Accepted) /\ Len(log') = 0
      BY <3>1
    <3>3. Tallied(pi', log')
      BY <3>1, <3>2 DEF Tallied
    <3> QED BY <3>1, <3>2, <3>3, FrontIs
  <2>2. CASE e.what = "metadata"
    <3>1. pi' = [pi EXCEPT !.ready = TRUE] /\ log' = log
      BY <2>2 DEF A!Process
    <3>2. Tallied(pi', log')
      BY <1>1, <3>1 DEF Tallied
    <3> QED BY <2>2, <3>1, <3>2 DEF Passes, IsRow
  <2>3. CASE e.what = "damaged" /\ ~A!Recover
    <3>1. pi' = pi /\ log' = log
      BY <2>3 DEF A!Process, A!receiver
    <3> QED BY <1>1, <2>3, <3>1 DEF Passes, IsRow
  <2>4. CASE e.what = "row" /\ pi.ready
    <3>1. A!Capture(e)
      BY <2>4 DEF A!Process
    <3>2. e \in Accepted
      BY <1>3, <2>4 DEF Arrivals
    <3>3. log # <<>> => Near(b, e)
      <4>1. SUFFICES ASSUME log # <<>> PROVE Near(b, e)
        OBVIOUS
      <4>2. IsRow(b) /\ IsRow(e)
        BY <1>4, <2>4, <4>1, FrontIs DEF IsRow
      <4>3. Trail(b, queue, 0) = b /\ Trail(b, queue, 1) = e /\ 0 \in 0 .. Len(queue) /\ 1 \in 0 .. Len(queue) /\ Quiet(b, queue, 0, 1)
        BY <1>3 DEF Trail, Quiet
      <4> QED BY <1>1, <4>2, <4>3 DEF Chained
    <3> QED BY <1>1, <2>4, <3>1, <3>2, <3>3, CaptureKeeps
  <2>5. CASE e.what = "row" /\ ~pi.ready
    <3>1. pi' = pi /\ log' = log /\ log = <<>>
      BY <1>1, <2>5 DEF A!Process, A!receiver, Tallied
    <3> QED BY <1>1, <1>4, <3>1, FrontIs
  <2> QED BY <1>3, <2>1, <2>2, <2>3, <2>4, <2>5 DEF Arrivals, Accepted
<1> HIDE DEF b, c
<1>6. Tail(queue) \in Seq(Arrivals) /\ Chained(c, Tail(queue)) /\ Ends(c, Tail(queue), nano.life, nano.n, lost)
  BY <1>1, <1>2, <1>4, <1>5, Popped
<1> QED BY <1>1, <1>2, <1>5, <1>6 DEF AccountInv, c

\* The recorder's steps, and the clock, do not touch the trail.
LEMMA TrailStays ==
    ASSUME AccountInv, UNCHANGED <<nano, lost, queue, pi, log>>, now' \in Nat
    PROVE  AccountInv'
BY DEF AccountInv

LEMMA MetadataKeeps ==
    ASSUME AccountInv, queue' = Append(queue, A!Metadata), UNCHANGED <<now, pi, log>>,
           \/ UNCHANGED <<nano, lost>>
           \/ nano' \in [life : Nat, n : Nat, left : Nat] /\ nano'.life = nano.life + 1 /\ nano'.n = 0 /\ lost' = 0
    PROVE  AccountInv'
<1> DEFINE b == Front(log)
           q == Append(queue, A!Metadata)
<1>1. /\ now \in Nat /\ nano \in [life : Nat, n : Nat, left : Nat] /\ nano.life \in Nat /\ nano.n \in Nat
      /\ lost \in Nat /\ (lost = 0 \/ lost < SeqWidth \div 2 - 1)
      /\ queue \in Seq(Arrivals) /\ Tallied(pi, log) /\ Chained(b, queue) /\ Ends(b, queue, nano.life, nano.n, lost)
  BY DEF AccountInv
<1>2. A!Metadata \in Arrivals /\ ~IsRow(A!Metadata)
  BY <1>1 DEF A!Metadata, Arrivals, IsRow
<1>3. log \in Seq(Accepted) /\ (IsRow(b) => b \in Accepted)
  BY <1>1, FrontIs DEF Tallied
<1> HIDE DEF b
<1>4. q \in Seq(Arrivals) /\ Chained(b, q) /\ Ends(b, q, nano.life, nano.n, lost)
  BY <1>1, <1>2, PushOther
<1> HIDE DEF q
<1>5. \A i \in 0 .. Len(q) : IsRow(Trail(b, q, i)) => Trail(b, q, i).life \in Nat
  BY <1>3, <1>4 DEF Trail, Arrivals, Accepted, IsRow
<1>6. Ends(b, q, nano.life + 1, 0, 0)
  <2>1. ASSUME NEW i \in 0 .. Len(q), IsRow(Trail(b, q, i)), Quiet(b, q, i, Len(q) + 1)
        PROVE  Trail(b, q, i).life < nano.life + 1
    <3>1. Reaches(Trail(b, q, i), nano.life, nano.n, lost) /\ Trail(b, q, i).life \in Nat
      BY <1>4, <1>5, <2>1 DEF Ends
    <3> QED BY <1>1, <3>1 DEF Reaches
  <2> QED BY <2>1 DEF Ends, Reaches
<1>7. Ends(b, q, nano'.life, nano'.n, lost')
  BY <1>4, <1>6
<1>8. Front(log') = b /\ queue' = q
  BY DEF b, q
<1> QED BY <1>1, <1>4, <1>7, <1>8 DEF AccountInv

LEMMA AccountSteps == ASSUME A!AccountingAssumption, AccountInv, [A!Next]_(A!accvars) PROVE AccountInv'
<1>1. CASE A!Tick
  BY <1>1, TrailStays DEF A!Tick, A!receiver, AccountInv
<1>2. CASE \E how \in {"arrives", "lost", "twice", "damaged", "cut"} : A!Send(how)
  BY <1>2, SendKeeps
<1>3. CASE A!Restart
  <2>1. nano \in [life : Nat, n : Nat, left : Nat] /\ nano' = [nano EXCEPT !.life = @ + 1, !.n = 0]
    BY <1>3 DEF A!Restart, AccountInv
  <2>2. nano' \in [life : Nat, n : Nat, left : Nat] /\ nano'.life = nano.life + 1 /\ nano'.n = 0
    <3>1. nano.life \in Nat /\ nano.left \in Nat
      BY <2>1
    <3>2. nano' = [life |-> nano.life + 1, n |-> 0, left |-> nano.left]
      BY <2>1
    <3>3. nano.life + 1 \in Nat
      BY <3>1
    <3> QED BY <3>1, <3>2, <3>3
  <2> QED BY <1>3, <2>2, MetadataKeeps DEF A!Restart, A!receiver
<1>4. CASE A!Describe
  BY <1>4, MetadataKeeps DEF A!Describe, A!receiver
<1>5. CASE A!Process
  BY <1>5, ArrivalKeeps
<1>6. CASE A!Close
  BY <1>6, TrailStays DEF A!Close, AccountInv
<1>7. CASE A!Open
  BY <1>7, TrailStays DEF A!Open, AccountInv
<1>8. CASE A!Fail
  BY <1>8, TrailStays DEF A!Fail, AccountInv
<1>9. CASE UNCHANGED A!accvars
  BY <1>9, TrailStays DEF A!accvars, AccountInv
<1> QED BY <1>1, <1>2, <1>3, <1>4, <1>5, <1>6, <1>7, <1>8, <1>9 DEF A!Next

\* Every accepted row of a life is counted or reported missing (MissingIsExact).
LEMMA CountsAreExact == ASSUME AccountInv PROVE A!MissingIsExact
<1>1. Tallied(pi, log) /\ log \in Seq(Accepted)
  BY DEF AccountInv, Tallied
<1>2. A!Last(log) = log[Len(log)]
  BY DEF A!Last
<1>3. log # <<>> => Front(log) = A!Last(log)
  BY <1>2 DEF Front
<1> QED BY <1>1, <1>3 DEF Tallied, A!MissingIsExact, A!OneLife, A!Span
=============================================================================
