--------------------------- MODULE StartupReplay ----------------------------
(***************************************************************************)
(* When the Nano describes itself to the host: the boot burst, the one     *)
(* metadata re-emission from the loop, the one full replay retry, and the  *)
(* replays the host asks for with `emit meta` and `emit startup`, all      *)
(* gated by startup_output_ready, which `reset defaults` withdraws.        *)
(*                                                                         *)
(* now is platformMillis in seconds: the delays are whole seconds.         *)
(***************************************************************************)
EXTENDS Naturals

CONSTANTS ReemitDelay,  \* ppsConfigReemitDelayMs
          RetryDelay,   \* STARTUP_FULL_REPLAY_RETRY_DELAY_MS
          Settle,       \* STARTUP_SERIAL_SETTLE_MS
          MaxTime,      \* bound on now
          MaxResets     \* bound on `reset defaults`

DelayAssumption == {ReemitDelay, RetryDelay, Settle, MaxTime, MaxResets} \subseteq Nat

VARIABLES
    pc,               \* "setup", "commands" (reading lines), "pps"
    now,              \* platformMillis, seconds
    outputReady,      \* startup_output_ready
    metaPending,      \* metadata_reemit_pending
    retryPending,     \* startup_auto_retry_pending
    replayRequested,  \* startup_replay_requested
    activitySeen,     \* command_activity_seen
    readyAt,          \* startup_ready_ms
    (* History *)
    metaOwed,         \* an acknowledged `emit` has not been followed by CFG and SCH
    reemits,          \* CFG + SCH bursts sent by the runtime path
    autoReplays,      \* full replays sent without being asked
    resets

timeVars == <<pc, now>>
flagVars == <<outputReady, metaPending, retryPending, replayRequested, activitySeen, readyAt>>
histVars == <<metaOwed, reemits, autoReplays, resets>>
vars == <<timeVars, flagVars, histVars>>

\* pendulumSetup after resetRuntimeStateAfterTunablesChange, at the settle delay.
Init == /\ pc = "setup" /\ now = 0
        /\ outputReady = FALSE /\ metaPending = TRUE
        /\ retryPending = FALSE /\ replayRequested = FALSE
        /\ activitySeen = FALSE /\ readyAt = 0
        /\ metaOwed = FALSE /\ reemits = 0 /\ autoReplays = 0 /\ resets = 0
-----------------------------------------------------------------------------
TimePasses == /\ now < MaxTime
              /\ now' = now + 1
              /\ UNCHANGED <<pc, flagVars, histVars>>

\* The settle delay is over: output is enabled, the boot burst is sent and
\* the two backups are armed.
FinishSetup == /\ pc = "setup" /\ now >= Settle
               /\ pc' = "commands"
               /\ outputReady' = TRUE
               /\ readyAt' = now
               /\ retryPending' = TRUE
               /\ metaPending' = TRUE
               /\ UNCHANGED <<now, replayRequested, activitySeen, histVars>>

\* emitMetadataNow and emitStartupNow: send CFG and SCH if output is enabled,
\* else leave a note for later.
EmitOrDefer == IF outputReady
               THEN metaOwed' = FALSE /\ UNCHANGED metaPending
               ELSE metaOwed' = TRUE /\ metaPending' = TRUE

\* `emit meta`: acknowledged, then emitMetadataNow.
EmitMeta == /\ pc = "commands"
            /\ activitySeen' = TRUE
            /\ EmitOrDefer
            /\ UNCHANGED <<timeVars, outputReady, retryPending, replayRequested, readyAt>>
            /\ UNCHANGED <<reemits, autoReplays, resets>>

\* `emit startup`: noted as an explicit replay request as well.
EmitStartup == /\ pc = "commands"
               /\ activitySeen' = TRUE
               /\ replayRequested' = TRUE
               /\ EmitOrDefer
               /\ UNCHANGED <<timeVars, outputReady, retryPending, readyAt>>
               /\ UNCHANGED <<reemits, autoReplays, resets>>

\* Any other non-empty command line.
OtherCommand == /\ pc = "commands"
                /\ activitySeen' = TRUE
                /\ UNCHANGED <<timeVars, outputReady, metaPending, retryPending,
                               replayRequested, readyAt, histVars>>

\* `reset defaults`: resetRuntimeStateAfterTunablesChange clears the startup
\* flags except metadata_reemit_pending; the handler then prints CFG and SCH.
ResetDefaults == /\ pc = "commands" /\ resets < MaxResets
                 /\ outputReady' = FALSE
                 /\ replayRequested' = FALSE
                 /\ activitySeen' = FALSE
                 /\ retryPending' = FALSE
                 /\ readyAt' = 0
                 /\ metaOwed' = FALSE
                 /\ resets' = resets + 1
                 /\ UNCHANGED <<timeVars, metaPending, reemits, autoReplays>>

\* The serial input is drained; process_pps is entered.
CommandsDone == /\ pc = "commands"
                /\ pc' = "pps"
                /\ UNCHANGED <<now, flagVars, histVars>>

\* Mutant: the delay is compared for equality.
ReemitDueOnlyOnTheDot == outputReady /\ metaPending /\ now = ReemitDelay

ReemitDue == outputReady /\ metaPending /\ now >= ReemitDelay

\* Mutant: a command is not taken for a sign that the host is served.
RetryDueDespiteCommands == outputReady /\ retryPending /\ now - readyAt >= RetryDelay

\* The retry is sent only while no host has spoken.
RetryDue == /\ outputReady /\ retryPending
            /\ ~activitySeen /\ ~replayRequested
            /\ now - readyAt >= RetryDelay

RetryDisarmed == outputReady /\ retryPending /\ (activitySeen \/ replayRequested \/ RetryDue)

ReemitClears == metaPending' = (metaPending /\ ~ReemitDue)

\* The startup part of process_pps: first the re-emission, then the retry.
ProcessPps == /\ pc = "pps"
              /\ ReemitClears
              /\ reemits' = IF ReemitDue THEN reemits + 1 ELSE reemits
              /\ autoReplays' = IF RetryDue THEN autoReplays + 1 ELSE autoReplays
              /\ retryPending' = (retryPending /\ ~RetryDisarmed)
              /\ metaOwed' = (metaOwed /\ ~ReemitDue /\ ~RetryDue)
              /\ pc' = "commands"
              /\ UNCHANGED <<now, outputReady, replayRequested, activitySeen, readyAt, resets>>

Command == EmitMeta \/ EmitStartup \/ OtherCommand \/ ResetDefaults

Next == TimePasses \/ FinishSetup \/ Command \/ CommandsDone \/ ProcessPps

Spec == Init /\ [][Next]_vars

\* Time advances and the loop keeps turning; the host need not send anything.
FairSpec == /\ Spec
            /\ WF_vars(TimePasses) /\ WF_vars(FinishSetup)
            /\ SF_vars(CommandsDone) /\ WF_vars(ProcessPps)
-----------------------------------------------------------------------------
\* "Re-emit startup metadata exactly once from the runtime path": at most
\* once, also when commands and `reset defaults` interleave with it ...
ReemittedOnce == reemits <= 1

\* ... and eventually, unless a reset withdraws output.
Reemitted == reemits = 1 \/ resets > 0
ReemittedEventually == <>Reemitted

\* Why it is at most once: nothing is sent before the setup is over, the retry is armed
\* there alone, and output that `reset defaults` withdrew does not come back.
ReplayInv ==
    /\ pc \in {"setup", "commands", "pps"} /\ now \in Nat /\ readyAt \in Nat
    /\ outputReady \in BOOLEAN /\ metaPending \in BOOLEAN /\ retryPending \in BOOLEAN
    /\ reemits \in {0, 1} /\ autoReplays \in {0, 1}
    /\ pc = "setup" => ~outputReady /\ ~retryPending /\ reemits = 0 /\ autoReplays = 0
    /\ retryPending => autoReplays = 0
    /\ outputReady /\ metaPending => reemits = 0

\* The full replay is sent unasked at most once, and never after a host has
\* been heard: two hosts cannot make the Nano repeat it.
ReplaysUnheard ==
    autoReplays' # autoReplays => autoReplays' = 1 /\ ~activitySeen /\ ~replayRequested
AutoReplayOnlyUnheard == [][ReplaysUnheard]_vars

\* An `emit meta` or `emit startup` that was acknowledged is answered with
\* CFG and SCH rows.
EmitIsAnswered == metaOwed ~> ~metaOwed
=============================================================================
