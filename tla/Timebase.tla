------------------------------ MODULE Timebase ------------------------------
(***************************************************************************)
(* The shared timeline: the 16-bit counter TCB0, its overflow interrupt,   *)
(* and the three routines that extend the counter in software -- the       *)
(* capture interrupts' reconstruction of an edge, the 32-bit read and the  *)
(* 64-bit read under platformMillis.  An overflow may be pending, or occur *)
(* between any two instructions of a routine, while interrupts are off.    *)
(*                                                                         *)
(* now is the true number of ticks since the timers were last restarted;   *)
(* no routine can read it, only TCB0.CNT, which is now modulo Period.      *)
(***************************************************************************)
EXTENDS Integers

CONSTANTS Period,      \* ticks per overflow of TCB0: 2^16
          Epochs,      \* values of tcb0Ovf: 2^16
          Wraps,       \* values of tcb0WrapDetected: 2^32
          Skew,        \* CAPTURE_SAMPLE_SKEW_TICKS
          Filter,      \* captureFilterDelayTicks of the capture path
          Early,       \* ticks before the wrap at which TCB0 raises its flag
          Offsets,     \* how far the capture timer may run ahead of TCB0
          TicksPerMs,  \* TICKS_PER_MS
          MsRange,     \* values of platformMillis: 2^32
          Routines,    \* bound: the routines that run, of "capture", "now32", "now64"
          Steps,       \* bound: ticks an instruction sequence may take
          MaxTime,     \* bound on now
          MaxRestarts  \* bound on `reset defaults`

CounterAssumption == /\ {Period, Epochs, Wraps} \subseteq Nat \ {0}
                     /\ Offsets \subseteq 0 .. Period-1
\* No instruction sequence takes a period of the counter.
TimingAssumption == /\ Skew \in 0 .. Period-1
                    /\ Early \in {0, 1} /\ Early < Period
                    /\ Steps \subseteq Nat \ {0}
                    /\ \A d \in Steps : Skew + d <= Period
BoundAssumption == /\ Filter \in Nat
                   /\ TicksPerMs \in Nat \ {0}
                   /\ MsRange \in Nat \ {0}
                   /\ {MaxTime, MaxRestarts} \subseteq Nat

VARIABLES
    now, offset,
    flag,     \* TCB0.INTFLAGS: an overflow is not serviced yet
    ovf,      \* tcb0Ovf
    wraps,    \* tcb0WrapDetected
    latched,  \* when the capture timer latched the pending edge, or NoEdge
    ccmp,     \* its capture register
    job,      \* the routine running: "capture", "now32" or "now64"
    pc,       \* where it stands; "loop" when interrupts are enabled
    epoch, cnt, capt,   \* its registers: overflow count and counter samples
    lastMs, backsteps,  \* s_last_platform_ms, s_platform_ms_backstep_count
    sampled,  \* history: when the selected sample was taken
    stamp,    \* the 32-bit timestamp just produced, and the truth about it
    millis,   \* the last platformMillis, and when in which run it was read
    restarts  \* history: restarts of the timers

timers  == <<now, offset, flag, ovf, wraps, latched, ccmp>>
regs    == <<job, pc, epoch, cnt, capt, sampled>>
outcome == <<lastMs, backsteps, stamp, millis>>
vars == <<timers, regs, outcome, restarts>>

NoEdge == -1
Short  == Period * Epochs   \* range of the 32-bit timeline
Wide   == Period * Wraps    \* range of the 64-bit reads

NoStamp == [value |-> 0, truth |-> 0]

Init == /\ now = 0 /\ offset \in Offsets
        /\ flag = FALSE /\ ovf = 0 /\ wraps = 0
        /\ latched = NoEdge /\ ccmp = 0
        /\ job = "none" /\ pc = "loop"
        /\ epoch = 0 /\ cnt = 0 /\ capt = 0 /\ sampled = 0
        /\ lastMs = 0 /\ backsteps = 0
        /\ stamp = NoStamp
        /\ millis = [value |-> 0, at |-> 0, run |-> 0]
        /\ restarts = 0
-----------------------------------------------------------------------------
(* The hardware *)

\* TCB0 raises its flag at a tick of the interval (now, to].
Crossing(to) == \E t \in now + 1 .. to : (t + Early) % Period = 0

\* d ticks pass, f being the flag at their beginning.  The operating limits
\* the code states: an overflow is serviced before the next one, and a
\* capture within one period of the counter.
Passes(d, f) == /\ now + d <= MaxTime
                /\ ~(f /\ Crossing(now + d))
                /\ latched # NoEdge => now + d - latched < Period
                /\ now' = now + d
                /\ flag' = (f \/ Crossing(now + d))

Takes(d) == Passes(d, flag) /\ UNCHANGED <<offset, ovf, wraps, restarts>>

\* The loop runs, or has interrupts masked for a while.
Elapse == /\ pc = "loop"
          /\ \E d \in Steps : Takes(d)
          /\ UNCHANGED <<latched, ccmp, regs, outcome>>

\* An edge at the pin Filter ticks ago reaches the capture register.
Edge == /\ "capture" \in Routines
        /\ latched = NoEdge /\ now >= Filter
        /\ latched' = now
        /\ ccmp' = (now + offset) % Period
        /\ UNCHANGED <<now, offset, flag, ovf, wraps, regs, outcome, restarts>>

Succ(n, size) == (n + 1) % size

\* ISR(TCB0_INT_vect)
OverflowIsr == /\ pc = "loop" /\ flag
               /\ \E d \in Steps : Passes(d, FALSE)
               /\ ovf' = Succ(ovf, Epochs)
               /\ wraps' = Succ(wraps, Wraps)
               /\ UNCHANGED <<offset, latched, ccmp, regs, outcome, restarts>>

ClearCounts == ovf' = 0 /\ wraps' = 0

\* captureResetAndReinit: timers stopped, cleared and started one by one.
\* s_last_platform_ms is not touched.
Restart == /\ pc = "loop" /\ restarts < MaxRestarts
           /\ now' = 0
           /\ offset' \in Offsets
           /\ flag' = FALSE
           /\ ClearCounts
           /\ latched' = NoEdge
           /\ ccmp' = 0
           /\ restarts' = restarts + 1
           /\ UNCHANGED <<regs, outcome>>
-----------------------------------------------------------------------------
(* The routines, with interrupts disabled *)

\* A routine starts and reads its count of overflows.
Begin(j) == /\ pc = "loop"
            /\ j = "capture" => latched # NoEdge
            /\ job' = j
            /\ epoch' = IF j = "now64" THEN wraps ELSE ovf
            /\ pc' = "sample"
            /\ \E d \in Steps : Takes(d)
            /\ stamp' = NoStamp
            /\ UNCHANGED <<latched, ccmp, cnt, capt, sampled, lastMs, backsteps, millis>>

\* read_capture_counter_pair, the second counter Skew ticks after the first;
\* the plain reads sample TCB0 alone.
Sample == /\ cnt' = now % Period
          /\ IF job = "capture"
             THEN /\ capt' = (now + Skew + offset) % Period
                  /\ sampled' = now + Skew
                  /\ \E d \in Steps : Takes(Skew + d)
             ELSE /\ sampled' = now
                  /\ \E d \in Steps : Takes(d)
                  /\ UNCHANGED capt

FirstSample == /\ pc = "sample"
               /\ Sample
               /\ pc' = "check"
               /\ UNCHANGED <<latched, ccmp, job, epoch, outcome>>

\* TCB0.INTFLAGS, read after the sample.
OverflowPending == flag

Check == /\ pc = "check"
         /\ IF OverflowPending
            THEN epoch' = epoch + 1 /\ pc' = "again"
            ELSE UNCHANGED epoch /\ pc' = "combine"
         /\ \E d \in Steps : Takes(d)
         /\ UNCHANGED <<latched, ccmp, job, cnt, capt, sampled, outcome>>

\* Mutant: the sample taken before the overflow is kept.
KeepSample == /\ pc = "again"
              /\ pc' = "combine"
              /\ \E d \in Steps : Takes(d)
              /\ UNCHANGED <<latched, ccmp, job, epoch, cnt, capt, sampled, outcome>>

\* Both counters again, in the incremented epoch.
SecondSample == /\ pc = "again"
                /\ Sample
                /\ pc' = "combine"
                /\ UNCHANGED <<latched, ccmp, job, epoch, outcome>>

Now32 == (epoch * Period + cnt + Skew) % Short

Latency == (capt - ccmp) % Period

Edge32 == (Now32 - Latency - Filter) % Short

\* Interrupts are enabled again and the routine's registers are dead.
Return == /\ pc' = "loop" /\ job' = "none"
          /\ epoch' = 0 /\ cnt' = 0 /\ capt' = 0 /\ sampled' = 0

\* The end of a capture interrupt: the edge is queued.
CaptureDone ==
    /\ pc = "combine" /\ job = "capture"
    /\ stamp' = [value |-> Edge32, truth |-> latched - Filter]
    /\ latched' = NoEdge
    /\ Return
    /\ UNCHANGED <<now, offset, flag, ovf, wraps, ccmp, restarts>>
    /\ UNCHANGED <<lastMs, backsteps, millis>>

\* tcb0NowCoherentMainLoop
Now32Done ==
    /\ pc = "combine" /\ job = "now32"
    /\ stamp' = [value |-> (epoch * Period + cnt) % Short, truth |-> sampled]
    /\ Return
    /\ UNCHANGED <<timers, lastMs, backsteps, millis, restarts>>

\* tcb0NowCoherent64 and platformMillis above it, with its count of the
\* readings that went backwards.
Now64Done ==
    /\ pc = "combine" /\ job = "now64"
    /\ LET ms == ((epoch % Wraps) * Period + cnt) \div TicksPerMs
       IN  /\ millis' = [value |-> ms % MsRange, at |-> sampled, run |-> restarts]
           /\ IF ms < lastMs
              THEN backsteps' = backsteps + 1 /\ UNCHANGED lastMs
              ELSE lastMs' = ms /\ UNCHANGED backsteps
    /\ Return
    /\ UNCHANGED <<timers, stamp, restarts>>
-----------------------------------------------------------------------------
Next == \/ Elapse \/ Edge \/ OverflowIsr \/ Restart
        \/ \E j \in Routines : Begin(j)
        \/ FirstSample \/ Check \/ SecondSample
        \/ CaptureDone \/ Now32Done \/ Now64Done

Spec == Init /\ [][Next]_vars
-----------------------------------------------------------------------------
TypeOK == /\ now \in 0 .. MaxTime /\ offset \in Offsets
          /\ flag \in BOOLEAN
          /\ ovf \in 0 .. Epochs-1 /\ wraps \in 0 .. Wraps-1
          /\ latched \in -1 .. MaxTime /\ ccmp \in 0 .. Period-1
          /\ job \in Routines \cup {"none"}
          /\ pc \in {"loop", "sample", "check", "again", "combine"}
          /\ epoch \in Nat /\ cnt \in 0 .. Period-1 /\ capt \in 0 .. Period-1
          /\ sampled \in Nat
          /\ lastMs \in Nat /\ backsteps \in Nat
          /\ stamp \in [value : 0 .. Short-1, truth : Nat]
          /\ millis \in [value : 0 .. MsRange-1, at : Nat, run : 0 .. MaxRestarts]
          /\ restarts \in 0 .. MaxRestarts

\* The timestamp of an edge is the tick at which the edge was at the pin,
\* whenever the interrupt ran, wherever the counter wrapped meanwhile and
\* however far apart the two timers started; so is a 32-bit read the tick of
\* its sample.
TimestampsAreExact == stamp.value = stamp.truth % Short

\* The software has counted every overflow but the one whose flag it still
\* has to service, in both counters.  (With Early = 1 the last tick of a
\* period counts as overflowed.)
OverflowsCounted ==
    LET overflows == (now + Early) \div Period
        serviced  == overflows - (IF flag THEN 1 ELSE 0)
    IN  ovf = serviced % Epochs /\ wraps = serviced % Wraps

\* elapsed32 of two consecutive platformMillis readings is the time between
\* them, unless the timers were restarted or the 64-bit read, 48 bits wide,
\* wrapped.
MillisAdvance ==
    (millis'.run = millis.run /\ millis'.at < Wide)
       => (millis'.value - millis.value) % MsRange
             = (millis'.at \div TicksPerMs - millis.at \div TicksPerMs) % MsRange
MillisCountTime == [][MillisAdvance]_millis

\* platformMillis goes back only because the timers were restarted or the
\* 64-bit read wrapped: the count it keeps of such readings is no noise.
BackstepsHaveACause == backsteps > 0 => restarts > 0 \/ now >= Wide
=============================================================================
