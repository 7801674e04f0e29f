--------------------------- MODULE DisplayClock ---------------------------
(***************************************************************************)
(* The Pi display's own PPS clock (display.py, PpsClock), fed with every   *)
(* CPS row the Nano sends: true pulses, extra edges between them, rows      *)
(* sent twice, pulses and rows that never come, and a restarted counter.   *)
(* The clock keeps an expected-edge candidate and accepts only a pair of    *)
(* locked edges one plausible second apart.                                 *)
(*                                                                          *)
(* Edges are counted in ticks modulo Wrap (2^32 in the code); a second has  *)
(* Hz ticks.  A row arrives when its edge happens.                          *)
(***************************************************************************)
EXTENDS Integers

CONSTANTS
    Hz,         \* ticks in a second; 0.1 of it is the cold band, 1/800 the learned one
    Wrap,       \* ticks after which the captured edges repeat
    Offsets,    \* where in a second an extra edge may fall
    MaxSeconds  \* length of a behaviour

\* Extra edges are further from each other's place in a second, and from the pulse, than the
\* learned band is wide: no clock could tell two edges that are closer apart.
ClockAssumption ==
    /\ Hz \in Nat \ {0} /\ Wrap \in Nat /\ Wrap > 2 * Hz
    /\ Offsets \subseteq 1..(Hz - 1) /\ MaxSeconds \in Nat
    /\ \A d, e \in Offsets \cup {0, Hz} : d < e => e - d > Hz \div 800

VARIABLES
    second,  \* true seconds so far
    sub,     \* ticks into the second that extras have used
    clock,   \* PpsClock: candidate, at, calibrated, blended, seen (previous), accepted
    clean,   \* true pulses received since anything else happened
    genuine, \* the first accepted pair was a true second
    real     \* true ticks between the edges of the last accepted pair

ckvars == <<second, sub, clock, clean, genuine, real>>

None == -1
Initial == [candidate |-> None, locked |-> FALSE, calibrated |-> FALSE, blended |-> 0,
            seen |-> FALSE, accepted |-> FALSE]

Reference(c) == IF c.blended # 0 THEN c.blended ELSE Hz
Tolerance(c) == IF c.calibrated THEN Hz \div 800 ELSE Hz \div 10

\* An anchor a whole wrap of the timer old says nothing any more.
Anchor(c, now) == IF c.candidate # None /\ now - c.candidate >= Wrap THEN None ELSE c.candidate

\* observe(): candidate is the time of the anchored edge; now is the true time in
\* ticks, of which the row carries only the remainder.
Observed(c, now, locked) ==
    LET anchor    == Anchor(c, now)
        ticks     == IF anchor = None THEN 0 ELSE ((now % Wrap) - (anchor % Wrap)) % Wrap
        off       == IF ticks > Reference(c) THEN ticks - Reference(c) ELSE Reference(c) - ticks
        plausible == anchor # None /\ off <= Tolerance(c)
        valid     == plausible /\ locked /\ c.locked
        late      == ticks > Reference(c) + Tolerance(c)
        moves     == anchor = None \/ plausible \/ late
    IN  [candidate |-> IF moves THEN now ELSE anchor,
         locked |-> IF moves THEN locked ELSE c.locked,
         calibrated |-> c.calibrated \/ valid,
         blended |-> IF ~valid THEN c.blended ELSE IF c.calibrated THEN c.blended ELSE ticks,
         seen |-> TRUE, accepted |-> valid]

Now == second * Hz + sub

Row(now, locked, isTrue) ==
    LET next == Observed(clock, now, locked)
        gap  == now - clock.candidate
    IN  /\ clock' = next
        /\ genuine' = IF next.accepted /\ ~clock.calibrated THEN gap = Hz ELSE genuine
        /\ real' = IF next.accepted THEN gap ELSE real
        /\ clean' = IF isTrue THEN (IF clean < 3 THEN clean + 1 ELSE 3) ELSE 0

Pulse(locked) ==
    /\ second < MaxSeconds
    /\ second' = second + 1 /\ sub' = 0
    /\ Row(second' * Hz, locked, locked)

\* The pulse, or its row, does not come.
Missing ==
    /\ second < MaxSeconds
    /\ second' = second + 1 /\ sub' = 0
    /\ clean' = 0
    /\ UNCHANGED <<clock, genuine, real>>

Extra(d, locked) ==
    /\ d > sub
    /\ sub' = d
    /\ Row(second * Hz + d, locked, FALSE)
    /\ UNCHANGED second

\* A row sent again has the same sequence number and is ignored.
Duplicate ==
    /\ clock.seen
    /\ UNCHANGED ckvars

\* The Nano's counter stepped back, or its nominal frequency changed: a new clock,
\* which takes the row as its first.
Restarted ==
    /\ second < MaxSeconds /\ clock.seen
    /\ second' = second + 1 /\ sub' = 0
    /\ clock' = Observed(Initial, second' * Hz, TRUE)
    /\ clean' = 1 /\ genuine' = TRUE /\ real' = Hz

Init ==
    /\ second = 0 /\ sub = 0 /\ clock = Initial
    /\ clean = 0 /\ genuine = TRUE /\ real = Hz

Next ==
    \/ \E locked \in BOOLEAN : Pulse(locked)
    \/ Missing
    \/ \E d \in Offsets, locked \in BOOLEAN : Extra(d, locked)
    \/ Duplicate
    \/ Restarted

Spec == Init /\ [][Next]_ckvars

-----------------------------------------------------------------------------
\* An accepted pair is a true second apart, not a second and a timer wrap, and not an
\* extra and a pulse - once the first pair was true, whose ten per cent band an extra
\* edge at the wrong moment can enter.
AcceptedIsOneSecond == genuine => real = Hz

\* Extra edges, lost rows and lost lock do no lasting harm: the third true locked pulse
\* in a row is accepted, wherever the candidate was left.
ClockRecovers == genuine /\ clean = 3 => clock.accepted
=============================================================================
