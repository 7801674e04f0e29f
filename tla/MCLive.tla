------------------------------- MODULE MCLive -------------------------------
(***************************************************************************)
(* Progress of components that share no state, for TLC, in one run, as in  *)
(* MCParts: only the part that a behaviour starts with moves.  As it never *)
(* changes, a fairness condition on the disjunction of one action of each  *)
(* part is that condition on each of them.  The I2C bus moves in its own   *)
(* variables.  The bounds of parts that theorems are about are constants    *)
(* here too, so that the theorems hold for all of them; fairness and        *)
(* progress name two workers, three requests and one range.                 *)
(***************************************************************************)
EXTENDS I2cRecovery, Sequences

CONSTANTS
    Absent, w1, w2,
    ReemitDelay, RetryDelay, Settle, MaxTime, MaxResets,          \* StartupReplay
    Requests, Queries, Permits, MaxEdits,                         \* WebDownloads
    Keys, Clients, MaxJobs, MaxCache, ViewSegments, MaxKills          \* SavedViews

VARIABLES
    part,  \* the part that moves
    x1, x2, x3, x4, x5, x6, x7, x8, x9, x10, x11, x12

pvars == <<part, i2cvars, x1, x2, x3, x4, x5, x6, x7, x8, x9, x10, x11, x12>>

\* Either of the two delays may come first.
S == INSTANCE StartupReplay WITH
        pc <- x1, now <- x2, outputReady <- x3, metaPending <- x4, retryPending <- x5,
        replayRequested <- x6, activitySeen <- x7, readyAt <- x8, metaOwed <- x9,
        reemits <- x10, autoReplays <- x11, resets <- x12

\* Two captures in two sessions of two segments, and one fault anywhere.
R == INSTANCE Recording WITH
        captured <- x1, journal <- x2, recorder <- x3, faults <- x4, db <- x5, paths <- x6,
        txn <- x7,
        MaxCaptures <- 2, MaxSessions <- 2, MaxSegments <- 2, MaxFaults <- 1, Batch <- 1

\* Two faults, one of two windows, and an error.
O == INSTANCE OledView WITH
        faults <- x1, errors <- x2, alerts <- x3, messages <- x4, index <- x5, window <- x6,
        wait <- x7,
        Faults <- <<"f1", "f2">>, Errors <- {"e1"},
        Windows <- [f1 |-> 1, f2 |-> 2, e1 |-> 1, ok |-> 1], Ok <- "ok", Period <- 1,
        Ttl <- 3, Kept <- 2

\* Requests and queries for permits of two kinds; the configuration is broken and mended.
W == INSTANCE WebDownloads WITH
        pc <- x1, permits <- x2, asking <- x3, slots <- x4, readers <- x5, changed <- x6,
        worker <- x7, valid <- x8, edits <- x9

\* Ranges for the places in the queue and in the cache; segments; kills.
V == INSTANCE SavedViews WITH
        jobs <- x1, results <- x2, old <- x3, reading <- x4, active <- x5, up <- x6,
        kills <- x7, segment <- x8, phase <- x9, shown <- x10,
        None <- Absent, Segments <- ViewSegments

-----------------------------------------------------------------------------
\* What a part of so many variables leaves over.
Rest0 == <<x1, x2, x3, x4, x5, x6, x7, x8, x9, x10, x11, x12>>
Rest7 == <<x8, x9, x10, x11, x12>>
Rest9 == <<x10, x11, x12>>
Rest10 == <<x11, x12>>
Idle10 == x11 = 0 /\ x12 = 0
Idle9 == x10 = 0 /\ Idle10
Idle7 == x8 = 0 /\ x9 = 0 /\ Idle9
Idle0 == x1 = 0 /\ x2 = 0 /\ x3 = 0 /\ x4 = 0 /\ x5 = 0 /\ x6 = 0 /\ x7 = 0 /\ Idle7

PartsInit ==
    \/ /\ part = "startup" /\ S!Init /\ Init
    \/ /\ part = "recording" /\ R!Init /\ Init /\ Idle7
    \/ /\ part = "i2c" /\ Init /\ Idle0
    \/ /\ part = "oled" /\ O!Init /\ Init /\ Idle7
    \/ /\ part = "web" /\ W!Init /\ Init /\ Idle9
    \/ /\ part = "views" /\ V!Init /\ Init /\ Idle10

Startup(A) == part = "startup" /\ A /\ UNCHANGED <<part, i2cvars>>
Replay(A) == part = "recording" /\ A /\ UNCHANGED <<part, Rest7, i2cvars>>
Bus(A) == part = "i2c" /\ A /\ UNCHANGED <<part, Rest0>>
Oled(A) == part = "oled" /\ A /\ UNCHANGED <<part, Rest7, i2cvars>>
Web(A) == part = "web" /\ A /\ UNCHANGED <<part, Rest9, i2cvars>>
Views(A) == part = "views" /\ A /\ UNCHANGED <<part, Rest10, i2cvars>>

PartsNext ==
    \/ Startup(S!Next)
    \/ Replay(R!Next)
    \/ Bus(Next)
    \/ Oled(O!Next)
    \/ Web(W!Next)
    \/ Views(V!Next)

LiveSpec ==
    /\ PartsInit /\ [][PartsNext]_pvars
    /\ WF_pvars(\/ Startup(S!TimePasses)
               \/ Replay(R!AnalysisStep /\ UNCHANGED <<x1, x2, x3, x4>>)
               \/ Bus(Decide \/ Unbind \/ Pulses \/ Restore)
               \/ Oled(O!Pass)
               \/ Web(W!Handle(1))
               \/ Views(V!Pick))
    /\ WF_pvars(\/ Startup(S!FinishSetup \/ S!ProcessPps)
               \/ Bus(HelperStarts)
               \/ Oled(O!Redraw)
               \/ Web(W!Handle(2))
               \/ Views(V!Publish))
    /\ WF_pvars(Bus(SeesBlocked(w1)) \/ Web(W!Handle(3)) \/ Views(V!Unlink))
    /\ WF_pvars(Bus(SeesBlocked(w2)) \/ Web(W!Finish(1)) \/ Views(V!Start))
    /\ WF_pvars(Bus(Succeed(w1) \/ FailTransfer(w1)) \/ Web(W!Finish(2)))
    /\ WF_pvars(Bus(Succeed(w2) \/ FailTransfer(w2)) \/ Web(W!Finish(3)))
    /\ WF_pvars(Web(W!PassEnds))
    /\ SF_pvars(\/ Startup(S!CommandsDone)
               \/ Replay(R!Discover /\ UNCHANGED <<x1, x2, x3, x4>>)
               \/ Bus(StartHelper))
    /\ SF_pvars(Bus(Look))
    /\ SF_pvars(Bus(Enter(w1)))
    /\ SF_pvars(Bus(Enter(w2)))

ASSUME PartsAssumption ==
    /\ S!DelayAssumption /\ R!RecordingAssumption /\ O!OledAssumption
    /\ W!DownloadsAssumption /\ V!ViewsAssumption
-----------------------------------------------------------------------------
\* The full replay is sent unasked at most once, and never after a host was heard, and the
\* metadata is sent again at most once (StartupReplay).
AutoReplayOnlyUnheard == [][part = "startup" => S!ReplaysUnheard /\ S!ReemittedOnce]_pvars

\* What a download reads is not changed under it, the queue of ranges is bounded, and a chart
\* is of the segment it is shown for (WebDownloads, SavedViews).
RequestsAreContained ==
    /\ part = "web" => W!DownloadsAreStable
    /\ part = "views" => V!QueueIsBounded /\ V!PhaseIsOfItsSegment

Owed ==
    \/ part \in {"startup", "recording"}
    \/ part = "web" /\ W!Let(1)
    \/ part = "views" /\ V!Queued(1)
Given ==
    \/ part = "startup" /\ S!Reemitted
    \/ part = "recording" /\ R!CaughtUp
    \/ part = "web" /\ ~W!Let(1)
    \/ part = "views" /\ ~V!Queued(1)

\* What is owed comes: the startup metadata is sent again, the replay
\* catches up again and again, a download that was let in ends,
\* and a range that was queued is answered.  (Each module states its own.)
OwedIsGiven == Owed ~> Given

\* Every standing fault is shown in full, again and again (OledView).
FaultsAreShown ==
    \A f \in {"f1", "f2"} :
        /\ <>[][part = "oled" => UNCHANGED <<x1, x2>>]_pvars
        /\ <>[](part = "oled" => O!Standing(f))
        => []<>(part = "oled" => O!ShownInFull(f))
=============================================================================
