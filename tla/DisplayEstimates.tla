------------------------- MODULE DisplayEstimates -------------------------
(***************************************************************************)
(* The Pi's display estimates (display.py, forecast.py) with the checkpoint*)
(* that primes them after a restart (priming.py): a mean over the swings of *)
(* the last Window seconds, a forecast of the next swing, and how both end, *)
(* pause and go on when captures are lost, fall silent, lose their clock or *)
(* a process starts again.                                                  *)
(*                                                                          *)
(* One swing lasts one unit of time.  line is when the present stretch of   *)
(* swings that really follow one another began; the code knows only         *)
(* sequence numbers (here modulo four), edges and drop counters.            *)
(***************************************************************************)
EXTENDS Integers, Sequences

CONSTANTS
    Window,   \* WINDOW_SECONDS, in swings
    Silence,  \* ten seconds, in swings
    Holdover, \* pps_holdover_seconds, in swings
    MaxTime   \* length of a behaviour

EstimatesAssumption ==
    /\ Window \in Nat \ {0} /\ Silence \in Nat \ {0, 1} /\ Holdover \in Nat \ {0}
    /\ MaxTime \in Nat

VARIABLES
    now,      \* time, in swings
    line,     \* when the present unbroken stretch of swings began
    seq,      \* sequence number of the latest swing
    clockAt,  \* PpsClock.calibrated_at
    est,      \* RollingSwingMean and DisplayEstimator
    forecast, \* SwingForecaster: next, and the latest score
    pending,  \* MeanCheckpoint.pending
    file,     \* the checkpoint on disk
    since     \* when the mean last began, paused or started anew

esvars == <<now, line, seq, clockAt, est, forecast, pending, file, since>>

None == -1
Nobody == [at |-> None]
FreshWindow == [follows |-> TRUE, samples |-> <<>>, filling |-> 0, paused |-> FALSE, restored |-> {},
                swingAt |-> None, captureAt |-> None, unclocked |-> FALSE]
FreshForecast == [next |-> Nobody, score |-> Nobody]
NoSwingYet == [FreshWindow EXCEPT !.follows = FALSE]

Calibrated(t) == clockAt # None /\ t - clockAt < Holdover
Holding(t) == clockAt # None /\ t - clockAt >= 2   \* stale(): five seconds

Latest(s, n) == IF Len(s) <= n THEN s ELSE SubSeq(s, Len(s) - n + 1, Len(s))
Younger(times, t) == {at \in times : t - at < Window}

-----------------------------------------------------------------------------
(* One swing.                                                               *)

\* _expire_restored()
Expire(e, t) ==
    [e EXCEPT !.restored = IF e.filling >= Window THEN {} ELSE Younger(@, t)]

\* RollingSwingMean.observe()
Averaged(e, t) ==
    Expire([e EXCEPT !.samples = Latest(Append(@, [at |-> t, line |-> line']), Window),
                     !.filling = IF @ < Window THEN @ + 1 ELSE @,
                     !.paused = FALSE, !.unclocked = FALSE, !.follows = TRUE,
                     !.swingAt = t, !.captureAt = t], t)

\* The first swing without a clock pauses the mean, once.
Paused(e) == [e EXCEPT !.paused = TRUE, !.filling = IF e.unclocked THEN @ ELSE 0, !.unclocked = TRUE]

\* SwingForecaster.observe(): score what was foretold for this swing, foretell the next.
Foretold(f, s, t) ==
    [score |-> IF f.next # Nobody /\ f.next.target = s THEN [at |-> t, foretold |-> f.next.line, line |-> line'] ELSE f.score,
     next |-> [at |-> t, target |-> (s + 1) % 4, line |-> line']]

\* MeanCheckpoint.restore(), tried after every observed swing.  Only swings measured
\* before the first fresh one, and still inside the window, come back.
Restored(e, t) ==
    LET fits == {at \in Younger(pending.times, t) : at < e.samples[1].at}
    IN  IF t - pending.saved < Window /\ fits # {} THEN [e EXCEPT !.restored = fits] ELSE e

CanRestore(e, t, trusted) ==
    /\ pending # Nobody /\ e.filling < Window
    /\ e.samples # <<>> /\ clockAt # None /\ e.swingAt # None
    /\ ~e.unclocked /\ ~Holding(t)
    /\ pending.boot \/ trusted

\* Mutant: lost edges and drop counters are not looked at.
ResetsOnGaps(kind) == kind = "invalid" \/ (kind = "gap" /\ est.follows)

\* What breaks the estimates, apart from silence.
Resets(kind) == kind = "invalid" \/ (kind \in {"gap", "broken"} /\ est.follows)

\* kind: "next" follows the last swing; "gap" has a later number; "broken" shows a lost
\* edge or a raised drop counter; "invalid" has an empty interval.
Swing(kind, trusted) ==
    /\ now < MaxTime
    /\ now' = now + 1
    /\ seq' = (IF kind = "gap" THEN seq + 2 ELSE seq + 1) % 4
    /\ line' = CASE kind = "next" -> line [] kind = "invalid" -> now' [] OTHER -> now
    /\ LET silent == est.captureAt # None /\ now' - est.captureAt >= Silence
           reset  == Resets(kind) \/ silent
           e0     == IF reset THEN FreshWindow ELSE est
           f0     == IF reset THEN FreshForecast ELSE forecast
           early  == IF reset THEN Nobody ELSE pending
       IN  IF kind = "invalid"
           THEN est' = FreshWindow /\ forecast' = f0 /\ pending' = early /\ since' = now'
           ELSE IF ~Calibrated(now')
           THEN /\ est' = [Paused(e0) EXCEPT !.captureAt = now', !.follows = TRUE]
                /\ forecast' = IF e0.unclocked THEN f0 ELSE FreshForecast
                /\ pending' = early /\ since' = IF e0.unclocked THEN since ELSE now'
           ELSE LET e1 == Averaged(e0, now')
                    tries == early # Nobody /\ CanRestore(e1, now', trusted)
                IN  /\ est' = IF tries THEN Restored(e1, now') ELSE e1
                    /\ forecast' = Foretold(f0, seq', now')
                    /\ pending' = IF tries \/ e1.filling >= Window THEN Nobody ELSE early
                    /\ since' = IF reset THEN now ELSE since
    /\ UNCHANGED <<clockAt, file>>

\* Nothing is received; the pendulum may have stopped, or the row be on its way.
Quiet ==
    /\ now < MaxTime /\ now' = now + 1
    /\ UNCHANGED <<line, seq, clockAt, est, forecast, pending, file, since>>

-----------------------------------------------------------------------------
(* The clock, the timeline, the checkpoint.                                 *)

PpsAccepted ==
    /\ clockAt' = now
    /\ UNCHANGED <<now, line, seq, est, forecast, pending, file, since>>

\* _reset_estimates() by the clock, or reset() at a new capture timeline.
Anew(keeps) ==
    /\ clockAt' = None
    /\ est' = NoSwingYet /\ forecast' = FreshForecast
    /\ pending' = keeps
    /\ since' = now /\ line' = now
    /\ UNCHANGED <<now, seq, file>>

PpsRestarted == clockAt # None /\ Anew(Nobody)
CaptureLoss == est # NoSwingYet /\ Anew(Nobody)

\* The acquisition service started again: the checkpoint on disk may prime the mean.
\* Over a boot its age counts only with verified UTC at both ends.
ServiceStarted(sameBoot) ==
    Anew(IF file = Nobody \/ (~sameBoot /\ ~file.utc) THEN Nobody ELSE [file EXCEPT !.boot = sameBoot])

\* submit() and the saver thread.
Checkpoint(trusted) ==
    /\ pending = Nobody /\ est.swingAt # None /\ ~est.unclocked
    /\ now - est.swingAt < Silence /\ clockAt # None /\ ~Holding(now)
    /\ LET kept  == Expire(est, now)
           times == Younger(kept.restored \cup {est.samples[i].at : i \in DOMAIN est.samples}, now)
       IN  /\ times # {}
           /\ file' = [at |-> now, saved |-> now, utc |-> trusted, boot |-> TRUE, times |-> times]
           /\ est' = kept
    /\ UNCHANGED <<now, line, seq, clockAt, forecast, pending, since>>

Init ==
    /\ now = 0 /\ line = 0 /\ seq = 0 /\ clockAt = None
    /\ est = NoSwingYet /\ forecast = FreshForecast
    /\ pending = Nobody /\ file = Nobody /\ since = 0

Next ==
    \/ \E kind \in {"next", "gap", "broken", "invalid"}, trusted \in BOOLEAN : Swing(kind, trusted)
    \/ Quiet \/ PpsAccepted \/ PpsRestarted \/ CaptureLoss
    \/ \E sameBoot \in BOOLEAN : ServiceStarted(sameBoot)
    \/ \E trusted \in BOOLEAN : Checkpoint(trusted)

Spec == Init /\ [][Next]_esvars
-----------------------------------------------------------------------------
\* No mean and no score spans a loss: all swings in the window, and a forecast with the
\* swing it is scored against, belong to one unbroken stretch.
EstimatesAreOneTimeline ==
    /\ \A i \in DOMAIN est.samples : est.samples[i].line = line
    /\ forecast.score # Nobody => forecast.score.foretold = forecast.score.line

\* A window is called full only of swings measured since it last began or paused;
\* restored swings never count towards it, and no swing counts twice.
FullWindowIsFresh ==
    /\ est.filling >= Window => /\ \A i \in DOMAIN est.samples : est.samples[i].at > since
                                /\ Len(est.samples) = Window /\ est.restored = {}
    /\ \A i \in DOMAIN est.samples, at \in est.restored : at < est.samples[i].at
=============================================================================
