--------------------------- MODULE CommandProofs ----------------------------
(***************************************************************************)
(* Proofs about CommandLink, for any number of requests, any queue and any *)
(* number of faults, reconnections and restarts.                           *)
(*                                                                         *)
(* NothingIsRetried.  A request passes through the command file, the       *)
(* reader's queue and the reader's hand.  SingleFlight says that it is     *)
(* never in two of them, and that it has not been written while it is in   *)
(* any: the one exception, the file that is not yet removed when the       *)
(* command is already put before the reader, ends with the step "publish"  *)
(* or makes the request an old one.                                        *)
(*                                                                         *)
(* ReportedResultsStay.  Whatever the loop may still say something about,  *)
(* the pending command and those with a file, is open (OpenInv).           *)
(*                                                                         *)
(* DeclaredBeforeWritten.  Generations only ascend along the event queue,  *)
(* so the loop is behind the reader; and when it declares it ready for a   *)
(* connection that is gone, every command before the reader is an older    *)
(* one, which the reader drops (DeclaredInv).                              *)
(***************************************************************************)
EXTENDS CommandLink, SequenceTheorems, TLAPS

Command == [id : Requests, gen : Nat]

Typed == /\ gen \in Nat
         /\ held \in Requests \cup {None}
         /\ commands \in Seq(Command)
         /\ queued \subseteq Requests
         /\ DOMAIN result = Requests
         /\ written \in [Requests -> Nat]

\* The request may still be put before the reader.
Unsent(r) == \/ result[r] = "none"
             \/ r \in queued \ old /\ ~(apc = "publish" /\ pending.id = r)

UnsentIsUnwritten ==
    \A r \in Requests : Unsent(r) => /\ written[r] = 0
                                     /\ held # r
                                     /\ \A i \in 1..Len(commands) : commands[i].id # r

CommandsAreUnwritten ==
    \A i \in 1..Len(commands) : /\ written[commands[i].id] = 0
                                /\ held # commands[i].id
                                /\ \A j \in 1..Len(commands) :
                                      commands[i].id = commands[j].id => i = j

HeldIsUnwritten == held \in Requests => written[held] = 0

QueuedIsKnown == \A r \in queued : result[r] # "none"

PutIsQueued == apc = "put" => pending.id \in queued \ old

SingleFlight == /\ Typed /\ NeverRetried
                /\ UnsentIsUnwritten /\ CommandsAreUnwritten /\ HeldIsUnwritten
                /\ QueuedIsKnown /\ PutIsQueued

\* A step that puts nothing before the reader and writes nothing.
Harmless == /\ gen' \in Nat
            /\ written' = written
            /\ held' = held \/ held' = None
            /\ commands' = commands \/ commands' = <<>>
            /\ queued' \subseteq queued
            /\ queued' \ old' \subseteq queued \ old
            /\ DOMAIN result' = Requests
            /\ \A r \in Requests : result'[r] = "none" => result[r] = "none"
            /\ apc' = "put" => pending'.id \in queued' \ old'
            /\ (apc = "publish" /\ pending.id \in queued' \ old')
                    => apc' = "publish" /\ pending'.id = pending.id

\* What lies before the reader is one of the requests.
LEMMA CommandHasId == /\ \A c \in Command : c.id \in Requests
                      /\ \A r \in Requests, g \in Nat : [id |-> r, gen |-> g] \in Command
BY DEF Command

\* A harmless step keeps the invariant.
LEMMA HarmlessKeeps == ASSUME SingleFlight, Harmless PROVE SingleFlight'
<1>1. Typed'
  <2>1. commands' \in Seq(Command)
    <3>1. <<>> \in Seq(Command)
      OBVIOUS
    <3>2. commands \in Seq(Command) /\ (commands' = commands \/ commands' = <<>>)
      BY DEF SingleFlight, Typed, Harmless
    <3>3. CASE commands' = <<>>
      BY <3>1, <3>3
    <3> QED BY <3>2, <3>3
  <2> QED BY <2>1 DEF SingleFlight, Harmless, Typed
<1>2. \A r \in Requests : Unsent(r)' => Unsent(r)
  BY DEF Harmless, Unsent
<1>3. UnsentIsUnwritten'
  BY <1>2, NoneAssumption DEF SingleFlight, Harmless, Typed, UnsentIsUnwritten
<1>4. CommandsAreUnwritten'
  <2>1. CASE commands' = <<>>
    BY <2>1 DEF CommandsAreUnwritten
  <2>2. CASE commands' = commands
    <3>1. \A i \in 1..Len(commands) : commands[i].id # None
      BY CommandHasId, NoneAssumption DEF SingleFlight, Typed
    <3> QED BY <2>2, <3>1 DEF SingleFlight, Harmless, CommandsAreUnwritten
  <2> QED BY <2>1, <2>2 DEF Harmless
<1>5. HeldIsUnwritten' /\ QueuedIsKnown' /\ PutIsQueued' /\ NeverRetried'
  BY NoneAssumption
  DEF SingleFlight, Harmless, Typed, HeldIsUnwritten, QueuedIsKnown, PutIsQueued, NeverRetried
<1> QED BY <1>1, <1>3, <1>4, <1>5 DEF SingleFlight

\* The reader takes a command: it leaves the queue for the reader's hand, or
\* is dropped for its generation.
LEMMA GetKeeps == ASSUME SingleFlight, GetCommand PROVE SingleFlight'
<1> DEFINE c == Head(commands)
<1>1. /\ commands # <<>> /\ commands' = Tail(commands)
      /\ held' = c.id \/ held' = held
      /\ UNCHANGED <<gen, written, queued, old, result, apc, pending>>
  BY DEF GetCommand, loopVars, fileVars, noHist
<1>2. /\ c \in Command /\ c = commands[1]
      /\ commands' \in Seq(Command)
      /\ Len(commands) \in Nat \ {0} /\ Len(commands') = Len(commands) - 1
      /\ \A i \in 1..Len(commands') : i + 1 \in 1..Len(commands)
                                      /\ commands'[i] = commands[i + 1]
  BY <1>1 DEF SingleFlight, Typed
<1>3. \A r \in Requests : Unsent(r)' => Unsent(r)
  BY <1>1 DEF Unsent
<1>4. Typed'
  BY <1>1, <1>2, CommandHasId DEF SingleFlight, Typed
<1>5. \A i \in 1..Len(commands') : commands'[i].id # c.id
  <2>1. TAKE i \in 1..Len(commands')
  <2>2. i + 1 # 1 /\ 1 \in 1..Len(commands)
    BY <1>2
  <2> QED BY <1>2, <2>2 DEF SingleFlight, CommandsAreUnwritten
<1>6. UnsentIsUnwritten'
  <2>1. SUFFICES ASSUME NEW r \in Requests, Unsent(r)
                 PROVE  /\ written'[r] = 0 /\ held' # r
                        /\ \A i \in 1..Len(commands') : commands'[i].id # r
    BY <1>3 DEF UnsentIsUnwritten
  <2>2. written[r] = 0 /\ held # r /\ \A i \in 1..Len(commands) : commands[i].id # r
    BY <2>1 DEF SingleFlight, UnsentIsUnwritten
  <2> QED BY <1>1, <1>2, <2>2
<1>7. CommandsAreUnwritten'
  <2>1. SUFFICES ASSUME NEW i \in 1..Len(commands')
                 PROVE  /\ written'[commands'[i].id] = 0 /\ held' # commands'[i].id
                        /\ \A j \in 1..Len(commands') :
                              commands'[i].id = commands'[j].id => i = j
    BY DEF CommandsAreUnwritten
  <2>2. written[commands[i + 1].id] = 0 /\ held # commands[i + 1].id
    BY <1>2 DEF SingleFlight, CommandsAreUnwritten
  <2>3. \A j \in 1..Len(commands') : commands[i + 1].id = commands[j + 1].id => i + 1 = j + 1
    BY <1>2 DEF SingleFlight, CommandsAreUnwritten
  <2> QED BY <1>1, <1>2, <1>5, <2>2, <2>3
<1>8. HeldIsUnwritten'
  BY <1>1, <1>2, CommandHasId DEF SingleFlight, HeldIsUnwritten, CommandsAreUnwritten
<1>9. QueuedIsKnown' /\ PutIsQueued' /\ NeverRetried'
  BY <1>1 DEF SingleFlight, QueuedIsKnown, PutIsQueued, NeverRetried
<1> QED BY <1>4, <1>6, <1>7, <1>8, <1>9 DEF SingleFlight

\* What the reader holds is written once and let go.
LEMMA WriteKeeps == ASSUME SingleFlight, rpc = "write", held' = None, ReachesNano,
                           UNCHANGED <<gen, commands, queued, old, result, apc, pending>>
                    PROVE  SingleFlight'
<1>1. /\ written' \in [Requests -> Nat]
      /\ \A r \in Requests : written'[r] = IF r = held THEN written[r] + 1 ELSE written[r]
  <2>1. /\ written \in [Requests -> Nat] /\ held \in Requests \cup {None}
        /\ written' = [written EXCEPT ![held] = written[held] + 1]
    BY DEF SingleFlight, Typed, ReachesNano
  <2>2. CASE held \in Requests
    BY <2>1, <2>2
  <2>3. CASE held \notin Requests
    BY <2>1, <2>3
  <2> QED BY <2>2, <2>3
<1>2. Typed'
  BY <1>1 DEF SingleFlight, Typed
<1>3. NeverRetried'
  BY <1>1 DEF SingleFlight, HeldIsUnwritten, NeverRetried, Typed
<1>4. UnsentIsUnwritten'
  BY <1>1, NoneAssumption DEF SingleFlight, UnsentIsUnwritten, Unsent
<1>5. CommandsAreUnwritten'
  <2>1. \A i \in 1..Len(commands) : commands[i].id \in Requests
    BY CommandHasId DEF SingleFlight, Typed
  <2> QED BY <1>1, <2>1, NoneAssumption DEF SingleFlight, CommandsAreUnwritten
<1>6. HeldIsUnwritten' /\ QueuedIsKnown' /\ PutIsQueued'
  BY NoneAssumption DEF SingleFlight, HeldIsUnwritten, QueuedIsKnown, PutIsQueued
<1> QED BY <1>2, <1>3, <1>4, <1>5, <1>6 DEF SingleFlight

\* The request in the loop's hand goes before the reader, not again into the
\* set of those that may.
LEMMA PutKeeps == ASSUME SingleFlight, PutCommand PROVE SingleFlight'
<1> DEFINE p == pending.id
<1> DEFINE n == Len(commands)
<1>1. /\ apc = "put" /\ apc' = "publish"
      /\ commands' = Append(commands, [id |-> p, gen |-> gen])
      /\ UNCHANGED <<gen, held, written, queued, old, result, pending>>
  BY DEF PutCommand, pollStays, readerVars, fileVars, histVars
<1>2. p \in Requests /\ p \in queued \ old /\ result[p] # "none"
  BY <1>1 DEF SingleFlight, Typed, PutIsQueued, QueuedIsKnown
<1>3. /\ commands' \in Seq(Command)
      /\ n \in Nat /\ Len(commands') = n + 1
      /\ \A i \in 1..n : commands'[i] = commands[i]
      /\ commands'[n + 1].id = p
  BY <1>1, <1>2, CommandHasId DEF SingleFlight, Typed
<1>4. written[p] = 0 /\ held # p /\ \A i \in 1..n : commands[i].id # p
  BY <1>1, <1>2 DEF SingleFlight, UnsentIsUnwritten, Unsent
<1>5. \A r \in Requests : Unsent(r)' => Unsent(r) /\ r # p
  BY <1>1, <1>2 DEF Unsent
<1>6. Typed'
  BY <1>1, <1>3 DEF SingleFlight, Typed
<1>7. UnsentIsUnwritten'
  <2>1. SUFFICES ASSUME NEW r \in Requests, Unsent(r), r # p
                 PROVE  /\ written'[r] = 0 /\ held' # r
                        /\ \A i \in 1..Len(commands') : commands'[i].id # r
    BY <1>5 DEF UnsentIsUnwritten
  <2>2. written[r] = 0 /\ held # r /\ \A i \in 1..n : commands[i].id # r
    BY <2>1 DEF SingleFlight, UnsentIsUnwritten
  <2> QED BY <1>1, <1>3, <2>1, <2>2
<1>8. CommandsAreUnwritten'
  <2>1. SUFFICES ASSUME NEW i \in 1..(n + 1)
                 PROVE  /\ written[commands'[i].id] = 0 /\ held # commands'[i].id
                        /\ \A j \in 1..(n + 1) : commands'[i].id = commands'[j].id => i = j
    BY <1>1, <1>3 DEF CommandsAreUnwritten
  <2>2. \A k \in 1..n : /\ written[commands[k].id] = 0 /\ held # commands[k].id
                        /\ \A j \in 1..n : commands[k].id = commands[j].id => k = j
    BY DEF SingleFlight, CommandsAreUnwritten
  <2> QED BY <1>3, <1>4, <2>1, <2>2
<1>9. HeldIsUnwritten' /\ QueuedIsKnown' /\ PutIsQueued' /\ NeverRetried'
  BY <1>1 DEF SingleFlight, HeldIsUnwritten, QueuedIsKnown, PutIsQueued, NeverRetried
<1> QED BY <1>6, <1>7, <1>8, <1>9 DEF SingleFlight

\* A new request joins those that may be sent.
LEMMA SubmitKeeps == ASSUME SingleFlight, NEW s \in Requests, Submit(s) PROVE SingleFlight'
<1>1. /\ result[s] = "none" /\ queued' = queued \cup {s}
      /\ result' = [result EXCEPT ![s] = "queued"]
      /\ UNCHANGED <<gen, held, commands, written, old, apc, pending>>
  BY DEF Submit, piVars, readerVars, loopVars, histVars
<1>2. \A r \in Requests : Unsent(r)' => Unsent(r)
  BY <1>1 DEF Unsent, SingleFlight, Typed
<1>3. Typed'
  BY <1>1 DEF SingleFlight, Typed
<1>4. UnsentIsUnwritten'
  BY <1>1, <1>2 DEF SingleFlight, UnsentIsUnwritten
<1>5. QueuedIsKnown'
  BY <1>1 DEF SingleFlight, QueuedIsKnown, Typed
<1>6. CommandsAreUnwritten' /\ HeldIsUnwritten' /\ PutIsQueued' /\ NeverRetried'
  BY <1>1 DEF SingleFlight, CommandsAreUnwritten, HeldIsUnwritten, PutIsQueued, NeverRetried
<1> QED BY <1>3, <1>4, <1>5, <1>6 DEF SingleFlight


\* A step that changes none of what the invariant is about, or the generation.
LEMMA QuietIsHarmless ==
    ASSUME SingleFlight, gen' \in Nat,
           UNCHANGED <<held, written, commands, queued, old, result, apc, pending>>
    PROVE  Harmless
BY DEF SingleFlight, Typed, PutIsQueued, Harmless

\* The loop's steps between polls: neither "put" nor "publish" is near.
LEMMA LoopIsHarmless ==
    ASSUME SingleFlight, UNCHANGED <<gen, held, written, queued, old>>,
           commands' = commands \/ commands' = <<>>,
           apc \notin {"put", "publish"}, apc' # "put",
           NEW state \in Final \cup {"sent"}, NEW r,
           result' = result \/ result' = [result EXCEPT ![r] = state]
    PROVE  Harmless
<1>1. DOMAIN result' = Requests
  BY DEF SingleFlight, Typed
<1>2. \A q \in Requests : result'[q] = "none" => result[q] = "none"
  BY DEF SingleFlight, Typed, Final
<1> QED BY <1>1, <1>2 DEF SingleFlight, Typed, Harmless

\* Everything the reader does but taking and writing a command.
LEMMA ReaderKeeps ==
    ASSUME SingleFlight,
           \/ Reader \/ OpenFails \/ WriteFails \/ Break
           \/ NanoAnswers \/ AnswerLost \/ NanoRestarts \/ LineDamaged
    PROVE  SingleFlight'
<1> USE DEF readerVars, acqVars, loopVars, fileVars, nanoVars, histVars, noHist, piVars
<1> DEFINE Quiet == gen' \in Nat
                    /\ UNCHANGED <<held, written, commands, queued, old, result, apc, pending>>
<1>1. ASSUME Quiet PROVE SingleFlight'
  BY <1>1, QuietIsHarmless, HarmlessKeeps
<1>2. ASSUME OpenPort \/ Opened \/ OpenFails PROVE Quiet
  BY <1>2 DEF OpenPort, Opened, OpenFails, SingleFlight, Typed
<1>3. ASSUME Reconnect \/ Break PROVE Quiet
  BY <1>3 DEF Reconnect, Break, Disconnect, SingleFlight, Typed
<1>4. ASSUME AskMeta \/ GoOn \/ GetNothing PROVE Quiet
  BY <1>4 DEF AskMeta, GoOn, GetNothing, SingleFlight, Typed
<1>5. ASSUME ReadLine \/ ReadNothing PROVE Quiet
  BY <1>5 DEF ReadLine, ReadNothing, SingleFlight, Typed
<1>6. ASSUME NanoAnswers \/ AnswerLost \/ NanoRestarts \/ LineDamaged PROVE Quiet
  BY <1>6 DEF NanoAnswers, AnswerLost, NanoRestarts, LineDamaged, SingleFlight, Typed
<1>7. CASE WriteCommand
  BY <1>7, WriteKeeps DEF WriteCommand
<1>8. CASE WriteFails
  <2>1. CASE ReachesNano
    BY <1>8, <2>1, WriteKeeps DEF WriteFails
  <2>2. CASE UNCHANGED <<input, written>>
    <3>1. Harmless
      BY <1>8, <2>2 DEF WriteFails, SingleFlight, Typed, PutIsQueued, Harmless
    <3> QED BY <3>1, HarmlessKeeps
  <2> QED BY <1>8, <2>1, <2>2 DEF WriteFails
<1> QED BY <1>1, <1>2, <1>3, <1>4, <1>5, <1>6, <1>7, <1>8, GetKeeps DEF Reader

\* The events that the loop takes.
LEMMA ProcessKeeps == ASSUME SingleFlight, Process \/ TakeNewCfg \/ Periodic PROVE SingleFlight'
<1> USE DEF readerVars, loopVars, fileVars, nanoVars, histVars, noHist, stay, reader
<1> DEFINE Told(r, state) == result' = result \/ result' = [result EXCEPT ![r] = state]
<1> DEFINE InLoop == /\ UNCHANGED <<gen, held, written, queued, old>>
                     /\ commands' = commands \/ commands' = <<>>
                     /\ apc \in {"loop", "set"} /\ apc' # "put"
<1>1. ASSUME InLoop, NEW r, NEW state \in Final \cup {"sent"}, Told(r, state)
      PROVE  SingleFlight'
  <2>1. apc \notin {"put", "publish"}
    BY <1>1
  <2>2. Harmless
    BY <1>1, <2>1, LoopIsHarmless
  <2> QED BY <2>2, HarmlessKeeps
<1>2. ASSUME Interrupted PROVE Told(pending.id, "error") /\ (commands' = <<>>)
  BY <1>2 DEF Interrupted
<1>3. ASSUME Follow \/ TakeUpset \/ TakeNewCfg PROVE InLoop /\ Told(pending.id, "error")
  BY <1>2, <1>3 DEF Follow, TakeUpset, TakeNewCfg, Take, Recover
<1>4. ASSUME Periodic PROVE InLoop /\ Told(pending.id, "error")
  BY <1>2, <1>4 DEF Periodic, Recover
<1>5. ASSUME TakeNothing \/ TakeCfg \/ TakeSch \/ SetReady
      PROVE  InLoop /\ Told(pending.id, "error")
  BY <1>5 DEF TakeNothing, TakeCfg, TakeSch, SetReady, Take, Complete
<1>6. ASSUME TakeSent PROVE InLoop /\ Told(pending.id, "sent")
  BY <1>6 DEF TakeSent, Take
<1>7. ASSUME TakeError PROVE InLoop /\ Told(pending.id, "error")
  BY <1>7 DEF TakeError, Take, Conclude
<1>8. ASSUME TakeAnswer PROVE InLoop /\ (Told(pending.id, "error") \/ Told(pending.id, "ok"))
  BY <1>8 DEF TakeAnswer, Take, Conclude
<1>9. {"error", "ok", "sent"} \subseteq Final \cup {"sent"}
  BY DEF Final
<1> HIDE DEF Told, InLoop
<1> QED BY <1>1, <1>3, <1>4, <1>5, <1>6, <1>7, <1>8, <1>9 DEF Process

\* The poll.
LEMMA PollKeeps ==
    ASSUME SingleFlight,
           \/ Poll \/ Timeout
           \/ \E r \in Requests : Refuse(r) \/ Dispatch(r)
    PROVE  SingleFlight'
<1> USE DEF pollStays, readerVars, fileVars, histVars
<1>1. CASE Timeout
  <2>1. /\ UNCHANGED <<gen, held, written, commands, queued, old>>
        /\ apc = "poll" /\ apc' = "timeout"
        /\ result' = [result EXCEPT ![pending.id] = "timeout"]
    BY <1>1 DEF Timeout, Conclude
  <2>2. "timeout" \in Final \cup {"sent"}
    BY DEF Final
  <2> QED BY <2>1, <2>2, LoopIsHarmless, HarmlessKeeps
<1>2. CASE AfterTimeout
  BY <1>2, HarmlessKeeps DEF AfterTimeout, ForceReconnect, SingleFlight, Typed, Harmless
<1>3. CASE PollDone
  BY <1>3, HarmlessKeeps DEF PollDone, SingleFlight, Typed, Harmless
<1>4. CASE Publish
  <2>1. /\ apc = "publish" /\ apc' = "poll"
        /\ result' = [result EXCEPT ![pending.id] = "queued"]
        /\ queued' = queued \ {pending.id}
        /\ UNCHANGED <<gen, held, written, commands, old, pending>>
    BY <1>4 DEF Publish
  <2>2. Harmless
    BY <2>1 DEF SingleFlight, Typed, Harmless
  <2> QED BY <2>2, HarmlessKeeps
<1>5. ASSUME NEW r \in Requests, Refuse(r) PROVE SingleFlight'
  <2>1. /\ apc = "poll" /\ apc' = "poll"
        /\ \/ result' = [result EXCEPT ![r] = "not sent"]
           \/ result' = [result EXCEPT ![r] = "error"]
        /\ queued' = queued \ {r}
        /\ UNCHANGED <<gen, held, written, commands, old, pending>>
    BY <1>5 DEF Refuse
  <2>2. Harmless
    BY <2>1 DEF SingleFlight, Typed, Harmless
  <2> QED BY <2>2, HarmlessKeeps
<1>6. ASSUME NEW r \in Requests, Dispatch(r) PROVE SingleFlight'
  <2>1. /\ apc = "poll" /\ apc' = "put"
        /\ r \in queued \ old /\ pending'.id = r
        /\ UNCHANGED <<gen, held, written, commands, queued, old, result>>
    BY <1>6 DEF Dispatch, IsOld
  <2>2. Harmless
    BY <2>1 DEF SingleFlight, Typed, Harmless
  <2> QED BY <2>2, HarmlessKeeps
<1> QED BY <1>1, <1>2, <1>3, <1>4, <1>5, <1>6, PutKeeps DEF Poll

\* A stop or a crash makes every waiting request an old one.
LEMMA StopKeeps == ASSUME SingleFlight, Killed \/ Stopped PROVE SingleFlight'
<1>1. /\ gen' = 0 /\ held' = None /\ commands' = <<>> /\ apc' = "loop"
      /\ old' = queued /\ UNCHANGED <<queued, written>>
  BY DEF Killed, Stopped, Restarted, nanoVars
<1>2. result' = result \/ result' = [result EXCEPT ![pending.id] = "error"]
  BY DEF Killed, Stopped
<1>3. Harmless
  BY <1>1, <1>2 DEF SingleFlight, Typed, Harmless
<1> QED BY <1>3, HarmlessKeeps

LEMMA SingleFlightInit == Init => SingleFlight
<1>1. SUFFICES ASSUME Init PROVE SingleFlight
  OBVIOUS
<1>2. <<>> \in Seq(Command) /\ Len(<<>>) = 0
  OBVIOUS
<1>3. Typed
  BY <1>1, <1>2 DEF Init, Typed
<1> QED
  BY <1>1, <1>3, NoneAssumption
  DEF Init, SingleFlight, NeverRetried, UnsentIsUnwritten, CommandsAreUnwritten,
      HeldIsUnwritten, QueuedIsKnown, PutIsQueued

LEMMA SingleFlightStep == SingleFlight /\ [Next]_vars => SingleFlight'
<1>1. SUFFICES ASSUME SingleFlight, [Next]_vars PROVE SingleFlight'
  OBVIOUS
<1>2. CASE UNCHANGED vars
  <2>1. gen' \in Nat /\ UNCHANGED <<held, written, commands, queued, old, result, apc, pending>>
    BY <1>1, <1>2 DEF vars, readerVars, loopVars, fileVars, histVars, SingleFlight, Typed
  <2> QED BY <1>1, <2>1, QuietIsHarmless, HarmlessKeeps
<1>3. CASE Next
  BY <1>1, <1>3, ReaderKeeps, ProcessKeeps, PollKeeps, SubmitKeeps, StopKeeps DEF Next
<1> QED BY <1>1, <1>2, <1>3

\* "Never automatically retry a mutation": whatever fails, is late or starts
\* again, a command is written to the port at most once.
THEOREM NothingIsRetried == Spec => []NeverRetried
<1>1. SingleFlight => NeverRetried
  BY DEF SingleFlight
<1> QED BY <1>1, SingleFlightInit, SingleFlightStep, PTL DEF Spec
-----------------------------------------------------------------------------
(* Types *)

Evt     == [kind : EventKinds, of : Requests \cup {None}, gen : Nat]
Sending == [kind : LineKinds, of : Requests \cup {None}]

\* What the reader holds while it writes is a request.
HoldsWhileWriting == rpc = "write" => held \in Requests


LEMMA Kinds == /\ LineKinds \subseteq EventKinds
               /\ {"connected", "disconnected", "command_sent", "command_error", "fragment"}
                     \subseteq EventKinds
BY DEF EventKinds, LineKinds

LEMMA EventIsEvt == ASSUME gen \in Nat, NEW k \in EventKinds, NEW o \in Requests \cup {None}
                    PROVE  Event(k, o) \in Evt /\ Event(k, o).gen = gen
BY DEF Event, Evt

\* What posting an event does to the queue.
LEMMA PostTyped ==
    ASSUME events \in Seq(Evt), Len(events) <= QueueCap, dropped \in BOOLEAN,
           NEW e \in Evt, Post(e)
    PROVE  /\ events' \in Seq(Evt) /\ Len(events') <= QueueCap /\ dropped' \in BOOLEAN
           /\ events' = events \/ events' = Append(events, e)
<1>1. QueueCap \in Nat
  BY QueueAssumption
<1>2. Append(events, e) \in Seq(Evt) /\ Len(Append(events, e)) = Len(events) + 1
  OBVIOUS
<1>3. Len(events) \in Nat
  OBVIOUS
<1>4. events' = events \/ (events' = Append(events, e) /\ Len(events) < QueueCap)
  BY DEF Post
<1>5. events' \in Seq(Evt)
  BY <1>2, <1>4
<1>6. Len(events') <= QueueCap
  BY <1>1, <1>2, <1>3, <1>4
<1>7. dropped' \in BOOLEAN
  BY DEF Post
<1> QED BY <1>4, <1>5, <1>6, <1>7

ReaderTyped ==
    /\ rpc \in {"closed", "opening", "top", "get", "write", "read", "broken"}
    /\ gen \in Nat
    /\ connected \in BOOLEAN /\ reconnect \in BOOLEAN
    /\ asked \in BOOLEAN /\ first \in BOOLEAN
    /\ held \in Requests \cup {None}

QueueTyped == events \in Seq(Evt) /\ Len(events) <= QueueCap /\ dropped \in BOOLEAN

LoopTyped ==
    /\ apc \in {"loop", "set", "poll", "put", "publish", "timeout"}
    /\ agen \in Nat
    /\ cfg \in BOOLEAN /\ schemas \in BOOLEAN /\ blocked \in BOOLEAN /\ mayDispatch \in BOOLEAN
    /\ pending \in [id : Requests \cup {None}, gen : Nat, sent : BOOLEAN]

FileTyped ==
    /\ queued \subseteq Requests /\ old \subseteq Requests
    /\ result \in [Requests -> {"none", "queued", "sent"} \cup Final]

NanoTyped == input \in Seq(Requests \cup {"emit meta"}) /\ wire \in Seq(Sending)

HistTyped ==
    /\ written \in [Requests -> Nat]
    /\ validGen \in Nat /\ timedOutGen \in Nat /\ faults \in Nat /\ stops \in Nat

FlagsTyped == ready \in BOOLEAN /\ turned \in BOOLEAN

CommandsTyped == commands \in Seq(Command)

AllTyped == /\ ReaderTyped /\ FlagsTyped /\ QueueTyped /\ CommandsTyped
            /\ LoopTyped /\ FileTyped /\ NanoTyped /\ HistTyped

TypeInv == AllTyped /\ SingleFlight /\ HoldsWhileWriting

\* The type invariant in parts, one for each group of variables.
LEMMA TypeParts == TypeOK <=> AllTyped
<1>1. TypeOK => ReaderTyped /\ FlagsTyped /\ LoopTyped
  BY DEF TypeOK, ReaderTyped, FlagsTyped, LoopTyped
<1>2. TypeOK => QueueTyped /\ CommandsTyped /\ FileTyped /\ NanoTyped /\ HistTyped
  BY DEF TypeOK, QueueTyped, CommandsTyped, FileTyped, NanoTyped, HistTyped, Evt, Sending, Command
<1>3. AllTyped => TypeOK
  BY ZenonT(40) DEF TypeOK, AllTyped, ReaderTyped, FlagsTyped, CommandsTyped, QueueTyped, LoopTyped, FileTyped, NanoTyped, HistTyped,
         Evt, Sending, Command
<1> QED BY <1>1, <1>2, <1>3 DEF AllTyped

LEMMA TypeInit == Init => TypeInv
<1>1. SUFFICES ASSUME Init PROVE TypeInv
  OBVIOUS
<1>2. <<>> \in Seq(Evt) /\ <<>> \in Seq(Command) /\ <<>> \in Seq(Sending)
      /\ <<>> \in Seq(Requests \cup {"emit meta"}) 
  OBVIOUS
<1>3. Len(<<>>) <= QueueCap
  BY QueueAssumption
<1>4. NoPending \in [id : Requests \cup {None}, gen : Nat, sent : BOOLEAN]
  BY DEF NoPending
<1>5. ReaderTyped /\ FlagsTyped /\ CommandsTyped /\ FileTyped /\ NanoTyped /\ HistTyped
  BY <1>1, <1>2 DEF Init, ReaderTyped, FlagsTyped, CommandsTyped, FileTyped, NanoTyped, HistTyped
<1>6. QueueTyped /\ LoopTyped
  BY <1>1, <1>2, <1>3, <1>4 DEF Init, QueueTyped, LoopTyped
<1>7. AllTyped
  BY <1>5, <1>6 DEF AllTyped
<1> QED BY <1>1, <1>7, SingleFlightInit DEF Init, TypeInv, HoldsWhileWriting

\* What reading and writing a line does to a sequence.
LEMMA SeqSteps ==
    ASSUME NEW S, NEW s \in Seq(S)
    PROVE  /\ <<>> \in Seq(S)
           /\ s # <<>> => Head(s) \in S /\ Tail(s) \in Seq(S) /\ Len(Tail(s)) = Len(s) - 1
                          /\ Len(s) \in Nat \ {0} /\ Head(s) = s[1]
                          /\ \A i \in 1..Len(Tail(s)) : Tail(s)[i] = s[i + 1]
           /\ \A x \in S : /\ Append(s, x) \in Seq(S) /\ Len(Append(s, x)) = Len(s) + 1
                            /\ Append(s, x)[Len(s) + 1] = x
                            /\ \A i \in 1..Len(s) : Append(s, x)[i] = s[i]
OBVIOUS

\* The reader thread.
LEMMA ReaderTypes ==
    ASSUME AllTyped, HoldsWhileWriting,
           Reader \/ OpenFails \/ WriteFails \/ Break
    PROVE  ReaderTyped' /\ FlagsTyped' /\ QueueTyped' /\ NanoTyped' /\ HistTyped'
<1> USE DEF readerVars, acqVars, loopVars, fileVars, nanoVars, histVars, noHist
<1> DEFINE Own == ReaderTyped' /\ FlagsTyped'
<1>1. ASSUME NEW k \in EventKinds, NEW o \in Requests \cup {None}, Post(Event(k, o))
      PROVE  QueueTyped'
  BY <1>1, EventIsEvt, PostTyped DEF AllTyped, QueueTyped, ReaderTyped
<1>2. NoPost => QueueTyped'
  BY DEF NoPost, AllTyped, QueueTyped
<1>3. /\ UNCHANGED nanoVars => NanoTyped'
      /\ UNCHANGED input /\ wire' = <<>> => NanoTyped'
      /\ UNCHANGED input /\ wire # <<>> /\ wire' = Tail(wire) => NanoTyped'
      /\ UNCHANGED wire /\ input' = Append(input, "emit meta") => NanoTyped'
      /\ UNCHANGED wire /\ input' = Append(input, held) /\ held \in Requests => NanoTyped'
  <2>1. input \in Seq(Requests \cup {"emit meta"}) /\ wire \in Seq(Sending)
    BY DEF AllTyped, NanoTyped
  <2>2. <<>> \in Seq(Sending) /\ (wire # <<>> => Tail(wire) \in Seq(Sending))
    BY <2>1, SeqSteps
  <2>3. \A x \in Requests \cup {"emit meta"} :
            Append(input, x) \in Seq(Requests \cup {"emit meta"})
    BY <2>1, SeqSteps
  <2> QED BY <2>1, <2>2, <2>3 DEF NanoTyped
<1>4. /\ NoFault /\ UNCHANGED noHist => HistTyped'
      /\ Fault /\ UNCHANGED noHist => HistTyped'
  BY DEF AllTyped, HistTyped, NoFault, Fault
<1>5. \A e \in Evt : e.kind \in EventKinds /\ e.of \in Requests \cup {None}
  BY DEF Evt
<1>6. \A c \in Command : c.id \in Requests
  BY DEF Command
<1>7. {"connected", "disconnected", "command_sent", "command_error", "fragment"} \subseteq EventKinds
  BY Kinds
<1> HIDE DEF readerVars, acqVars, loopVars, fileVars, nanoVars, histVars, noHist
<1>8. CASE OpenPort
  <2>1. gen' \in Nat
    BY <1>8 DEF OpenPort, AllTyped, ReaderTyped
  <2>2. Own
    BY <1>8, <2>1 DEF OpenPort, AllTyped, ReaderTyped, FlagsTyped
  <2> QED BY <2>2, <1>2, <1>3, <1>4, <1>8, <2>1 DEF OpenPort
<1>9. CASE Opened
  <2>1. Own
    BY <1>9 DEF Opened, AllTyped, ReaderTyped, FlagsTyped
  <2>2. QueueTyped'
    BY <1>1, <1>7, <1>9 DEF Opened
  <2> QED BY <1>3, <1>4, <1>9, <2>1, <2>2 DEF Opened
<1>10. CASE OpenFails
  <2>1. Own
    BY <1>10 DEF OpenFails, AllTyped, ReaderTyped, FlagsTyped, readerVars
  <2>2. QueueTyped'
    BY <1>1, <1>2, <1>7, <1>10 DEF OpenFails
  <2> QED BY <1>3, <1>4, <1>10, <2>1, <2>2 DEF OpenFails
<1>11. CASE Reconnect
  <2>1. Own
    BY <1>11 DEF Reconnect, Disconnect, AllTyped, ReaderTyped, FlagsTyped
  <2>2. QueueTyped'
    BY <1>1, <1>7, <1>11 DEF Reconnect, Disconnect
  <2> QED BY <1>3, <1>4, <1>11, <2>1, <2>2 DEF Reconnect
<1>12. CASE Break
  <2>1. Own
    BY <1>12 DEF Break, Disconnect, AllTyped, ReaderTyped, FlagsTyped
  <2>2. QueueTyped'
    BY <1>1, <1>7, <1>12 DEF Break, Disconnect
  <2> QED BY <1>3, <1>4, <1>12, <2>1, <2>2 DEF Break
<1>13. CASE AskMeta \/ GoOn
  <2>1. Own
    BY <1>13 DEF AskMeta, GoOn, AllTyped, ReaderTyped, FlagsTyped
  <2> QED BY <1>2, <1>3, <1>4, <1>13, <2>1 DEF AskMeta, GoOn, nanoVars
<1>14. CASE GetNothing \/ ReadNothing
  <2>1. Own
    BY <1>14 DEF GetNothing, ReadNothing, AllTyped, ReaderTyped, FlagsTyped
  <2> QED BY <1>2, <1>3, <1>4, <1>14, <2>1 DEF GetNothing, ReadNothing
<1>15. CASE GetCommand
  <2>1. Head(commands) \in Command
    BY <1>15 DEF GetCommand, AllTyped, CommandsTyped
  <2>2. Head(commands).id \in Requests
    BY <1>6, <2>1
  <2>3. Own
    BY <1>15, <2>2 DEF GetCommand, AllTyped, ReaderTyped, FlagsTyped
  <2>4. QueueTyped'
    BY <1>1, <1>2, <1>7, <1>15, <2>2 DEF GetCommand
  <2> QED BY <1>3, <1>4, <1>15, <2>3, <2>4 DEF GetCommand
<1>16. CASE WriteCommand \/ WriteFails
  <2>1. Own
    BY <1>16 DEF WriteCommand, WriteFails, AllTyped, ReaderTyped, FlagsTyped
  <2>2. held \in Requests
    BY <1>16 DEF WriteCommand, WriteFails, HoldsWhileWriting
  <2>3. QueueTyped'
    BY <1>1, <1>7, <1>16, <2>2 DEF WriteCommand, WriteFails
  <2>4. ReachesNano => written' \in [Requests -> Nat]
    <3>1. written \in [Requests -> Nat]
      BY DEF AllTyped, HistTyped
    <3>2. written[held] + 1 \in Nat
      BY <2>2, <3>1
    <3> QED BY <2>2, <3>1, <3>2 DEF ReachesNano
  <2>5. ReachesNano \/ UNCHANGED <<input, written>>
    BY <1>16 DEF WriteCommand, WriteFails
  <2>6. NanoTyped'
    BY <1>3, <1>16, <2>2, <2>5 DEF WriteCommand, WriteFails, ReachesNano, nanoVars
  <2>7. HistTyped'
    BY <1>16, <2>4, <2>5 DEF WriteCommand, WriteFails, AllTyped, HistTyped, NoFault, Fault
  <2> QED BY <2>1, <2>3, <2>6, <2>7
<1>17. CASE ReadLine
  <2>1. Own
    BY <1>17 DEF ReadLine, AllTyped, ReaderTyped, FlagsTyped
  <2>2. Head(wire) \in Sending
    <3>1. wire # <<>> /\ wire \in Seq(Sending)
      BY <1>17 DEF ReadLine, AllTyped, NanoTyped
    <3> QED BY <3>1, SeqSteps
  <2>3. Head(wire).kind \in EventKinds /\ Head(wire).of \in Requests \cup {None}
    BY <2>2, Kinds DEF Sending
  <2>4. CASE first
    <3>1. Post(Event("fragment", None))
      BY <1>17, <2>4 DEF ReadLine
    <3> QED BY <1>1, <1>3, <1>4, <1>7, <1>17, <2>1, <3>1 DEF ReadLine
  <2>5. CASE ~first
    <3>1. Post(Event(Head(wire).kind, Head(wire).of))
      BY <1>17, <2>5 DEF ReadLine
    <3> QED BY <1>1, <1>3, <1>4, <1>17, <2>1, <2>3, <3>1 DEF ReadLine
  <2> QED BY <2>4, <2>5
<1> QED BY <1>8, <1>9, <1>10, <1>11, <1>12, <1>13, <1>14, <1>15, <1>16, <1>17 DEF Reader

\* A step of the reader leaves the rest alone.
LEMMA ReaderLeaves ==
    ASSUME Reader \/ OpenFails \/ WriteFails \/ Break
    PROVE  UNCHANGED <<loopVars, fileVars>>
           /\ (UNCHANGED commands \/ (commands # <<>> /\ commands' = Tail(commands)))
<1> USE DEF acqVars
<1>1. CASE OpenPort \/ Opened \/ OpenFails \/ Reconnect \/ Break
  BY <1>1 DEF OpenPort, Opened, OpenFails, Reconnect, Break
<1>2. CASE AskMeta \/ GoOn \/ GetNothing \/ GetCommand
  BY <1>2 DEF AskMeta, GoOn, GetNothing, GetCommand
<1>3. CASE WriteCommand \/ WriteFails \/ ReadLine \/ ReadNothing
  BY <1>3 DEF WriteCommand, WriteFails, ReadLine, ReadNothing
<1> QED BY <1>1, <1>2, <1>3 DEF Reader

\* Only taking a command brings the reader to a write.
LEMMA WritesWhatItTook ==
    ASSUME AllTyped, HoldsWhileWriting, Reader \/ OpenFails \/ WriteFails \/ Break
    PROVE  HoldsWhileWriting'
<1> USE DEF HoldsWhileWriting
<1>1. CASE OpenPort \/ Opened \/ Reconnect \/ Break
  BY <1>1 DEF OpenPort, Opened, Reconnect, Disconnect, Break
<1>2. CASE AskMeta \/ GoOn \/ GetNothing \/ OpenFails
  BY <1>2 DEF AskMeta, GoOn, GetNothing, OpenFails, readerVars
<1>3. CASE GetCommand
  <2>1. Head(commands) \in Command
    BY <1>3, SeqSteps DEF GetCommand, AllTyped, CommandsTyped
  <2> QED BY <1>3, <2>1 DEF GetCommand, Command
<1>4. CASE WriteCommand \/ WriteFails \/ ReadLine \/ ReadNothing
  BY <1>4 DEF WriteCommand, WriteFails, ReadLine, ReadNothing
<1> QED BY <1>1, <1>2, <1>3, <1>4 DEF Reader

\* What the loop, the Nano, the user and the service manager leave alone.
LEMMA LoopTypes ==
    ASSUME AllTyped,
           \/ Process \/ TakeNewCfg \/ Periodic \/ Poll \/ Timeout
           \/ \E r \in Requests : Refuse(r) \/ Dispatch(r)
    PROVE  /\ (rpc' = rpc) /\ (held' = held) /\ (gen' = gen)
           /\ ReaderTyped' /\ FlagsTyped' /\ QueueTyped' /\ LoopTyped'
           /\ NanoTyped' /\ HistTyped'
<1> USE DEF Process, Poll
<1>1. UNCHANGED <<rpc, gen, connected, asked, first, held, input, wire>>
      /\ (reconnect' = reconnect \/ reconnect' = TRUE)
      /\ (ready' = ready \/ ready' = FALSE \/ ready' = TRUE)
      /\ (turned' = turned \/ turned' = FALSE)
  <2> USE DEF stay, reader, readerVars, nanoVars, Recover, WithdrawReady
  <2>1. CASE Follow \/ TakeNothing \/ TakeUpset \/ TakeCfg \/ TakeSch \/ SetReady \/ TakeNewCfg
    BY <2>1 DEF Follow, TakeNothing, TakeUpset, TakeCfg, TakeSch, SetReady, TakeNewCfg
  <2>2. CASE TakeSent \/ TakeError \/ TakeAnswer \/ Periodic
    BY <2>2 DEF TakeSent, TakeError, TakeAnswer, Periodic
  <2>3. CASE Timeout \/ AfterTimeout \/ PutCommand \/ Publish \/ PollDone
    BY <2>3 DEF Timeout, AfterTimeout, ForceReconnect, PutCommand, Publish, PollDone, pollStays
  <2>4. CASE \E r \in Requests : Refuse(r) \/ Dispatch(r)
    BY <2>4 DEF Refuse, Dispatch, pollStays
  <2> QED BY <2>1, <2>2, <2>3, <2>4
<1>2. events' = events \/ (events # <<>> /\ events' = Tail(events))
  <2> USE DEF Take, pollStays
  <2>1. CASE Follow \/ TakeNothing \/ TakeUpset \/ TakeCfg \/ TakeSch \/ SetReady \/ TakeNewCfg
    BY <2>1 DEF Follow, TakeNothing, TakeUpset, TakeCfg, TakeSch, SetReady, TakeNewCfg
  <2>2. CASE TakeSent \/ TakeError \/ TakeAnswer \/ Periodic
    BY <2>2 DEF TakeSent, TakeError, TakeAnswer, Periodic
  <2>3. CASE Timeout \/ AfterTimeout \/ PutCommand \/ Publish \/ PollDone
    BY <2>3 DEF Timeout, AfterTimeout, PutCommand, Publish, PollDone
  <2>4. CASE \E r \in Requests : Refuse(r) \/ Dispatch(r)
    BY <2>4 DEF Refuse, Dispatch
  <2> QED BY <2>1, <2>2, <2>3, <2>4
<1>3. dropped' = dropped \/ dropped' = FALSE
  <2> USE DEF stay, pollStays
  <2>1. CASE Follow \/ TakeNothing \/ TakeUpset \/ TakeCfg \/ TakeSch \/ SetReady \/ TakeNewCfg
    BY <2>1 DEF Follow, TakeNothing, TakeUpset, TakeCfg, TakeSch, SetReady, TakeNewCfg
  <2>2. CASE TakeSent \/ TakeError \/ TakeAnswer \/ Periodic
    BY <2>2 DEF TakeSent, TakeError, TakeAnswer, Periodic
  <2>3. CASE Timeout \/ AfterTimeout \/ PutCommand \/ Publish \/ PollDone
    BY <2>3 DEF Timeout, AfterTimeout, PutCommand, Publish, PollDone
  <2>4. CASE \E r \in Requests : Refuse(r) \/ Dispatch(r)
    BY <2>4 DEF Refuse, Dispatch
  <2> QED BY <2>1, <2>2, <2>3, <2>4
<1>4. QueueTyped'
  <2>1. events' \in Seq(Evt) /\ Len(events') <= QueueCap
    <3>1. events \in Seq(Evt) /\ Len(events) <= QueueCap /\ QueueCap \in Nat
      BY QueueAssumption DEF AllTyped, QueueTyped
    <3> QED BY <1>2, <3>1, SeqSteps
  <2>2. dropped' \in BOOLEAN
    BY <1>3 DEF AllTyped, QueueTyped
  <2> QED BY <2>1, <2>2 DEF QueueTyped
<1>5. ReaderTyped' /\ FlagsTyped' /\ NanoTyped'
  BY ZenonT(40), <1>1 DEF AllTyped, ReaderTyped, FlagsTyped, NanoTyped
<1>6. /\ written' = written /\ (validGen' = validGen \/ validGen' = agen)
      /\ (timedOutGen' = timedOutGen \/ timedOutGen' = gen)
      /\ (faults' = faults \/ faults' = faults + 1) /\ stops' = stops
  <2> USE DEF histVars, noHist, Complete, Fault, NoFault
  <2>1. CASE Follow \/ TakeNothing \/ TakeUpset \/ TakeCfg \/ TakeSch \/ SetReady \/ TakeNewCfg
    BY <2>1 DEF Follow, TakeNothing, TakeUpset, TakeCfg, TakeSch, SetReady, TakeNewCfg
  <2>2. CASE TakeSent \/ TakeError \/ TakeAnswer \/ Periodic
    BY <2>2 DEF TakeSent, TakeError, TakeAnswer, Periodic, SecondPassed
  <2>3. CASE Timeout \/ AfterTimeout \/ PutCommand \/ Publish \/ PollDone
    BY <2>3 DEF Timeout, AfterTimeout, PutCommand, Publish, PollDone
  <2>4. CASE \E r \in Requests : Refuse(r) \/ Dispatch(r)
    BY <2>4 DEF Refuse, Dispatch
  <2> QED BY <2>1, <2>2, <2>3, <2>4
<1>7. HistTyped'
  BY <1>6 DEF AllTyped, HistTyped, ReaderTyped, LoopTyped
<1>8. LoopTyped'
  <2> DEFINE Pendings == [id : Requests \cup {None}, gen : Nat, sent : BOOLEAN]
  <2>1. NoPending \in Pendings /\ [pending EXCEPT !.sent = TRUE] \in Pendings
    BY DEF NoPending, AllTyped, LoopTyped
  <2>2. \A e \in Evt : e.gen \in Nat
    BY DEF Evt
  <2>3. LoopTyped
    BY DEF AllTyped
  <2> HIDE DEF Pendings
  <2>4. CASE Follow
    <3>1. Head(events) \in Evt
      BY <2>4, SeqSteps DEF Follow, AllTyped, QueueTyped
    <3>2. agen' \in Nat
      BY <2>2, <2>4, <3>1 DEF Follow
    <3> QED BY <2>1, <2>3, <2>4, <3>2 DEF Follow, Recover, Interrupted, LoopTyped, Pendings
  <2>5. CASE TakeNothing \/ TakeUpset \/ TakeNewCfg
    BY <2>1, <2>3, <2>5
    DEF TakeNothing, TakeUpset, TakeNewCfg, Recover, Interrupted, LoopTyped, Pendings, stay
  <2>6. CASE TakeCfg \/ TakeSch \/ SetReady
    BY <2>3, <2>6 DEF TakeCfg, TakeSch, SetReady, Complete, LoopTyped, stay, Take
  <2>7. CASE TakeSent \/ TakeError \/ TakeAnswer
    BY <2>1, <2>3, <2>7
    DEF TakeSent, TakeError, TakeAnswer, Conclude, LoopTyped, Pendings, stay
  <2>8. CASE Periodic
    <3>1. cfg' \in BOOLEAN /\ schemas' \in BOOLEAN /\ blocked' \in BOOLEAN /\ pending' \in Pendings
      BY <2>1, <2>3, <2>8 DEF Periodic, Recover, Interrupted, LoopTyped, Pendings
    <3>2. mayDispatch' \in BOOLEAN
      BY <2>8 DEF Periodic
    <3>3. apc' = "poll" /\ agen' = agen
      BY <2>8 DEF Periodic
    <3> QED BY <2>3, <3>1, <3>2, <3>3 DEF LoopTyped, Pendings
  <2>9. CASE Timeout \/ AfterTimeout \/ PutCommand \/ Publish \/ PollDone
    BY <2>1, <2>3, <2>9
    DEF Timeout, AfterTimeout, PutCommand, Publish, PollDone, Conclude, LoopTyped, Pendings, pollStays
  <2>10. CASE \E r \in Requests : Refuse(r)
    BY <2>3, <2>10 DEF Refuse, LoopTyped, pollStays
  <2>11. CASE \E r \in Requests : Dispatch(r)
    <3>1. \A r \in Requests : [id |-> r, gen |-> gen, sent |-> FALSE] \in Pendings
      BY DEF AllTyped, ReaderTyped, Pendings
    <3> QED BY <2>3, <2>11, <3>1 DEF Dispatch, LoopTyped, Pendings, pollStays
  <2> QED BY <2>4, <2>5, <2>6, <2>7, <2>8, <2>9, <2>10, <2>11
<1> QED BY <1>1, <1>4, <1>5, <1>7, <1>8

\* The files: a result is one of the states the web user knows.
LEMMA FileTypes == ASSUME AllTyped, [Next]_vars PROVE FileTyped'
<1> DEFINE States == {"none", "queued", "sent"} \cup Final
<1> DEFINE Told(r, state) == result' = result \/ result' = [result EXCEPT ![r] = state]
<1>1. FileTyped
  BY DEF AllTyped
<1>2. ASSUME NEW r, NEW state \in States, Told(r, state),
             queued' \subseteq Requests, old' \subseteq Requests
      PROVE  FileTyped'
  BY <1>1, <1>2 DEF FileTyped
<1>3. {"error", "ok", "sent", "queued", "not sent", "timeout"} \subseteq States
  BY DEF Final
<1>4. ASSUME Told(pending.id, "error"), UNCHANGED <<queued, old>> PROVE FileTyped'
  BY <1>1, <1>2, <1>3, <1>4 DEF FileTyped
<1> HIDE DEF States
<1> USE DEF fileVars, stay, pollStays, vars, acqVars
<1>5. CASE UNCHANGED vars
  BY <1>1, <1>5 DEF FileTyped
<1>6. CASE Reader \/ OpenFails \/ WriteFails \/ Break
  BY <1>1, <1>6, ReaderLeaves DEF FileTyped
<1>7. CASE NanoAnswers \/ AnswerLost \/ NanoRestarts \/ LineDamaged
  BY <1>1, <1>7 DEF FileTyped, NanoAnswers, AnswerLost, NanoRestarts, LineDamaged
<1>8. CASE Follow \/ TakeNothing \/ TakeUpset \/ TakeNewCfg \/ Periodic
  BY <1>4, <1>8
  DEF Follow, TakeNothing, TakeUpset, TakeNewCfg, Periodic, Recover, Interrupted
<1>9. CASE TakeCfg \/ TakeSch \/ SetReady \/ TakeError
  BY <1>4, <1>9 DEF TakeCfg, TakeSch, SetReady, TakeError, Conclude
<1>10. CASE TakeSent
  BY <1>1, <1>2, <1>3, <1>10 DEF TakeSent, FileTyped
<1>11. CASE TakeAnswer
  BY <1>1, <1>2, <1>3, <1>4, <1>11 DEF TakeAnswer, Conclude, FileTyped
<1>12. CASE Timeout \/ Publish
  <2>1. Told(pending.id, "timeout") \/ Told(pending.id, "queued")
    BY <1>12 DEF Timeout, Publish, Conclude
  <2>2. old' = old /\ queued' \subseteq queued
    BY <1>12 DEF Timeout, Publish
  <2> QED BY <1>1, <1>2, <1>3, <2>1, <2>2 DEF FileTyped
<1>13. CASE AfterTimeout \/ PutCommand \/ PollDone
  BY <1>4, <1>13 DEF AfterTimeout, PutCommand, PollDone
<1>14. ASSUME NEW r \in Requests, Refuse(r) \/ Dispatch(r) \/ Submit(r) PROVE FileTyped'
  <2>1. Told(r, "not sent") \/ Told(r, "error") \/ Told(r, "queued")
    BY <1>14 DEF Refuse, Dispatch, Submit
  <2>2. old' = old /\ queued' \subseteq queued \cup {r}
    BY <1>14 DEF Refuse, Dispatch, Submit
  <2> HIDE DEF Told
  <2> QED BY <1>1, <1>2, <1>3, <2>1, <2>2 DEF FileTyped
<1>15. CASE Killed \/ Stopped
  <2>1. Told(pending.id, "error") /\ queued' = queued /\ old' = queued
    BY <1>15 DEF Killed, Stopped, Restarted
  <2> QED BY <1>1, <1>2, <1>3, <2>1 DEF FileTyped
<1> QED BY <1>5, <1>6, <1>7, <1>8, <1>9, <1>10, <1>11, <1>12, <1>13, <1>14, <1>15
        DEF Next, Process, Poll

\* What the Nano does with its input.
LEMMA NanoTypes ==
    ASSUME AllTyped, NanoAnswers \/ AnswerLost \/ NanoRestarts \/ LineDamaged
    PROVE  NanoTyped' /\ HistTyped' /\ UNCHANGED piVars
<1>1. /\ input \in Seq(Requests \cup {"emit meta"}) /\ wire \in Seq(Sending)
      /\ Metadata \in Seq(Sending)
      /\ \A k \in LineKinds, o \in Requests \cup {None} : <<Line(k, o)>> \in Seq(Sending)
  <2>1. \A k \in LineKinds, o \in Requests \cup {None} : Line(k, o) \in Sending
    BY DEF Line, Sending
  <2>2. "CFG" \in LineKinds /\ "SCH" \in LineKinds
    BY DEF LineKinds
  <2>3. \A a, b \in Sending : <<a>> \in Seq(Sending) /\ <<a, b>> \in Seq(Sending)
    OBVIOUS
  <2>4. input \in Seq(Requests \cup {"emit meta"}) /\ wire \in Seq(Sending)
    BY DEF AllTyped, NanoTyped
  <2> QED BY <2>1, <2>2, <2>3, <2>4 DEF Metadata
<1>2. \A s, t \in Seq(Sending) : s \o t \in Seq(Sending)
  OBVIOUS
<1>3. HistTyped' /\ UNCHANGED piVars
  <2>1. UNCHANGED <<written, validGen, timedOutGen, stops>> /\ (faults' = faults \/ faults' = faults + 1)
    BY DEF NanoAnswers, AnswerLost, NanoRestarts, LineDamaged, histVars, noHist, Fault
  <2>2. UNCHANGED piVars
    BY DEF NanoAnswers, AnswerLost, NanoRestarts, LineDamaged
  <2> QED BY <2>1, <2>2 DEF AllTyped, HistTyped
<1>4. CASE NanoAnswers
  <2>1. Head(input) \in Requests \cup {"emit meta"} /\ input' \in Seq(Requests \cup {"emit meta"})
    BY <1>1, <1>4, SeqSteps DEF NanoAnswers
  <2>2. PICK a \in Answers(Head(input)) : wire' = wire \o a
    BY <1>4 DEF NanoAnswers
  <2>3. a \in Seq(Sending)
    BY <1>1, <2>1, <2>2 DEF Answers, LineKinds
  <2> QED BY <1>1, <1>2, <1>3, <2>1, <2>2, <2>3 DEF NanoTyped
<1>5. CASE AnswerLost
  BY <1>1, <1>3, <1>5, SeqSteps DEF AnswerLost, NanoTyped
<1>6. CASE NanoRestarts
  <2>1. wire' \in Seq(Sending)
    <3>1. <<Line("upset", None)>> \in Seq(Sending)
      BY <1>1 DEF LineKinds
    <3>2. wire' = wire \o Metadata \o <<Line("upset", None)>>
      BY <1>6 DEF NanoRestarts
    <3> QED BY <1>1, <1>2, <3>1, <3>2
  <2> QED BY <1>3, <1>6, <2>1, SeqSteps DEF NanoRestarts, NanoTyped
<1>7. CASE LineDamaged
  <2>1. wire # <<>> /\ wire' = [wire EXCEPT ![1] = Line("upset", None)] /\ input' = input
    BY <1>7 DEF LineDamaged
  <2>2. Line("upset", None) \in Sending
    BY DEF Line, Sending, LineKinds
  <2>3. wire' \in Seq(Sending)
    <3>1. Len(wire) \in Nat \ {0}
      BY <1>1, <2>1, SeqSteps
    <3>2. 1 \in 1..Len(wire)
      BY <3>1
    <3> QED BY <1>1, <2>1, <2>2, <3>2, ExceptSeq
  <2> QED BY <1>1, <1>3, <2>1, <2>3 DEF NanoTyped
<1> QED BY <1>4, <1>5, <1>6, <1>7

LEMMA TypeStep == ASSUME TypeInv, [Next]_vars PROVE TypeInv'
<1>1. AllTyped /\ SingleFlight /\ HoldsWhileWriting
  BY TypeParts DEF TypeInv
<1>2. SingleFlight' /\ FileTyped'
  BY <1>1, SingleFlightStep, FileTypes
<1>3. CommandsTyped'
  BY <1>2 DEF SingleFlight, Typed, CommandsTyped
<1> DEFINE Rest == /\ ReaderTyped' /\ FlagsTyped' /\ QueueTyped' /\ LoopTyped'
                   /\ NanoTyped' /\ HistTyped' /\ HoldsWhileWriting'
<1>4. ASSUME Reader \/ OpenFails \/ WriteFails \/ Break PROVE Rest
  BY <1>1, <1>4, ReaderTypes, ReaderLeaves, WritesWhatItTook DEF loopVars, AllTyped, LoopTyped
<1>5. ASSUME \/ Process \/ TakeNewCfg \/ Periodic \/ Poll \/ Timeout
             \/ \E r \in Requests : Refuse(r) \/ Dispatch(r)
      PROVE  Rest
  BY <1>1, <1>5, LoopTypes DEF HoldsWhileWriting
<1>6. ASSUME UNCHANGED piVars, NanoTyped', HistTyped' PROVE Rest
  BY <1>1, <1>6 DEF piVars, readerVars, loopVars, AllTyped, ReaderTyped, QueueTyped, LoopTyped,
                    FlagsTyped, HoldsWhileWriting
<1>7. ASSUME NanoAnswers \/ AnswerLost \/ NanoRestarts \/ LineDamaged PROVE Rest
  BY <1>1, <1>6, <1>7, NanoTypes
<1>8. ASSUME UNCHANGED vars \/ \E r \in Requests : Submit(r) PROVE Rest
  <2>1. UNCHANGED piVars /\ UNCHANGED nanoVars /\ UNCHANGED histVars
    BY <1>8 DEF vars, piVars, Submit
  <2> QED BY <1>1, <1>6, <2>1 DEF nanoVars, histVars, AllTyped, NanoTyped, HistTyped
<1>9. ASSUME Killed \/ Stopped PROVE Rest
  <2>1. Restarted
    BY <1>9 DEF Killed, Stopped
  <2>2. NoPending \in [id : Requests \cup {None}, gen : Nat, sent : BOOLEAN]
    BY DEF NoPending
  <2>3. ReaderTyped' /\ FlagsTyped' /\ HoldsWhileWriting'
    BY <2>1, NoneAssumption DEF Restarted, ReaderTyped, FlagsTyped, HoldsWhileWriting
  <2>4. LoopTyped'
    BY <2>1, <2>2 DEF Restarted, LoopTyped
  <2>5. QueueTyped'
    <3>1. events' = <<>> /\ dropped' = FALSE
      BY <2>1 DEF Restarted
    <3>2. <<>> \in Seq(Evt) /\ Len(<<>>) <= QueueCap
      BY QueueAssumption
    <3> QED BY <3>1, <3>2 DEF QueueTyped
  <2>6. NanoTyped'
    BY <1>1, <2>1 DEF Restarted, nanoVars, AllTyped, NanoTyped
  <2>7. HistTyped'
    <3>1. /\ validGen' = 0 /\ timedOutGen' = 0 /\ stops' = stops + 1
          /\ UNCHANGED <<written, faults>>
      BY <2>1 DEF Restarted
    <3> QED BY <1>1, <3>1 DEF AllTyped, HistTyped
  <2> QED BY <2>3, <2>4, <2>5, <2>6, <2>7
<1>10. Rest
  BY <1>4, <1>5, <1>7, <1>8, <1>9 DEF Next
<1>11. AllTyped'
  BY <1>2, <1>3, <1>10 DEF AllTyped
<1> QED BY <1>2, <1>10, <1>11 DEF TypeInv

\* Every variable of the link keeps to its type: the event queue within its
\* capacity, one state per result file.
THEOREM CommandTypes == Spec => []TypeOK
<1>1. TypeInv => TypeOK
  BY TypeParts DEF TypeInv
<1>2. TypeInv /\ [Next]_vars => TypeInv'
  BY TypeStep
<1> QED BY <1>1, <1>2, TypeInit, PTL DEF Spec

-----------------------------------------------------------------------------
(* Results *)

Open(r) == result[r] \in {"queued", "sent"}

\* The pending command and every request with a file are still open, and are
\* different requests but for the moment in which the file is being removed.
PendingIsOpen == pending.id \in Requests => Open(pending.id)
OneAtATime == pending.id \in queued => apc \in {"put", "publish"}
QueuedIsOpen == \A r \in queued : Open(r)
PublishedIsQueued == apc \in {"put", "publish"} => pending.id \in queued

OpenInv == PendingIsOpen /\ OneAtATime /\ QueuedIsOpen /\ PublishedIsQueued

\* A step that touches none of it.
LEMMA SameIsOpen == ASSUME OpenInv, UNCHANGED <<pending, queued, result, apc>>
                    PROVE  OpenInv' /\ FinalStays
BY DEF OpenInv, PendingIsOpen, OneAtATime, QueuedIsOpen, PublishedIsQueued, Open, FinalStays

\* Outside a poll, something may be said of the pending command, which then
\* is open still, or no longer pending.
LEMMA SayingIsOpen ==
    ASSUME AllTyped, OpenInv, queued' = queued,
           apc \notin {"put", "publish"}, apc' \notin {"put", "publish"},
           NEW state,
           \/ result' = result /\ pending'.id = pending.id
           \/ result' = result /\ pending.id = None /\ pending'.id = None
           \/ /\ pending.id # None
              /\ result' = [result EXCEPT ![pending.id] = state]
              /\ pending'.id = None \/ (pending'.id = pending.id /\ state = "sent")
    PROVE  OpenInv' /\ FinalStays
<1>1. DOMAIN result = Requests /\ pending.id \in Requests \cup {None} /\ queued \subseteq Requests
  BY DEF AllTyped, FileTyped, LoopTyped
<1>2. pending.id \notin queued
  BY DEF OpenInv, OneAtATime
<1>3. \A r \in Requests : r # pending.id => result'[r] = result[r]
  BY <1>1
<1>4. FinalStays
  BY <1>3 DEF OpenInv, PendingIsOpen, Open, FinalStays, Final
<1>5. PendingIsOpen'
  BY <1>1, NoneAssumption DEF OpenInv, PendingIsOpen, Open
<1>6. OneAtATime' /\ QueuedIsOpen' /\ PublishedIsQueued'
  BY <1>1, <1>2, <1>3, NoneAssumption
  DEF OpenInv, OneAtATime, QueuedIsOpen, PublishedIsQueued, Open
<1> QED BY <1>4, <1>5, <1>6 DEF OpenInv

LEMMA OpenStep == ASSUME AllTyped, OpenInv, [Next]_vars PROVE OpenInv' /\ FinalStays
<1> DEFINE Kept == OpenInv' /\ FinalStays
<1> DEFINE Same == UNCHANGED <<pending, queued, result, apc>>
<1>1. Same => Kept
  BY SameIsOpen
<1>2. DOMAIN result = Requests /\ pending.id \in Requests \cup {None} /\ queued \subseteq Requests
  BY DEF AllTyped, FileTyped, LoopTyped
<1>3. NoPending.id = None
  BY DEF NoPending
<1>4. ASSUME Interrupted, queued' = queued,
             apc \notin {"put", "publish"}, apc' \notin {"put", "publish"}
      PROVE  Kept
  <2>1. pending'.id = None
    BY <1>3, <1>4 DEF Interrupted
  <2>2. \/ result' = result /\ pending.id = None
        \/ pending.id # None /\ result' = [result EXCEPT ![pending.id] = "error"]
    BY <1>4 DEF Interrupted
  <2> QED BY <1>4, <2>1, <2>2, SayingIsOpen
<1>5. ASSUME NEW state, Conclude(state), pending.id # None, queued' = queued,
             apc \notin {"put", "publish"}, apc' \notin {"put", "publish"}
      PROVE  Kept
  <2>1. pending'.id = None /\ result' = [result EXCEPT ![pending.id] = state]
    BY <1>3, <1>5 DEF Conclude
  <2> QED BY <1>5, <2>1, SayingIsOpen
<1>6. ASSUME UNCHANGED <<pending, result, queued>>,
             apc \notin {"put", "publish"}, apc' \notin {"put", "publish"}
      PROVE  Kept
  BY <1>6, SayingIsOpen
<1> HIDE DEF Kept
<1> USE DEF stay, pollStays, loopVars, fileVars, piVars
<1>7. ASSUME UNCHANGED vars PROVE Kept
  BY <1>1, <1>7 DEF vars
<1>8. ASSUME Reader \/ OpenFails \/ WriteFails \/ Break PROVE Kept
  BY <1>1, <1>8, ReaderLeaves
<1>9. ASSUME NanoAnswers \/ AnswerLost \/ NanoRestarts \/ LineDamaged PROVE Kept
  BY <1>1, <1>9 DEF NanoAnswers, AnswerLost, NanoRestarts, LineDamaged
<1>10. ASSUME Follow \/ TakeUpset \/ TakeNewCfg PROVE Kept
  BY <1>4, <1>10 DEF Follow, TakeUpset, TakeNewCfg, Take, Recover
<1>11. ASSUME Periodic PROVE Kept
  <2>1. CASE dropped
    BY <1>4, <1>11, <2>1 DEF Periodic, Recover
  <2>2. CASE ~dropped
    BY <1>6, <1>11, <2>2 DEF Periodic
  <2> QED BY <2>1, <2>2
<1>12. ASSUME TakeNothing \/ TakeCfg \/ TakeSch \/ SetReady PROVE Kept
  BY <1>6, <1>12 DEF TakeNothing, TakeCfg, TakeSch, SetReady, Take, Complete
<1>13. ASSUME TakeSent PROVE Kept
  <2>1. queued' = queued /\ apc = "loop" /\ apc' = "loop"
    BY <1>13 DEF TakeSent, Take
  <2>2. CASE pending.id # None /\ pending.id = Head(events).of
    <3>1. pending'.id = pending.id /\ result' = [result EXCEPT ![pending.id] = "sent"]
      BY <1>13, <2>2 DEF TakeSent, AllTyped, LoopTyped
    <3> QED BY <2>1, <2>2, <3>1, SayingIsOpen DEF Kept
  <2>3. CASE ~(pending.id # None /\ pending.id = Head(events).of)
    BY <1>6, <1>13, <2>1, <2>3 DEF TakeSent
  <2> QED BY <2>2, <2>3
<1>14. ASSUME TakeError PROVE Kept
  BY <1>5, <1>6, <1>14 DEF TakeError, Take
<1>15. ASSUME TakeAnswer PROVE Kept
  BY <1>5, <1>6, <1>15 DEF TakeAnswer, Take, AwaitsAnswer
<1>16. ASSUME Timeout PROVE Kept
  BY <1>5, <1>16 DEF Timeout
<1>17. ASSUME AfterTimeout \/ PollDone PROVE Kept
  BY <1>6, <1>17 DEF AfterTimeout, PollDone
<1> USE DEF OpenInv, PendingIsOpen, OneAtATime, QueuedIsOpen, PublishedIsQueued, Open, FinalStays, Kept
<1>18. ASSUME PutCommand PROVE Kept
  BY <1>18 DEF PutCommand
<1>19. ASSUME Publish PROVE Kept
  <2>1. pending.id \in queued /\ Open(pending.id)
    BY <1>19 DEF Publish
  <2>2. /\ result' = [result EXCEPT ![pending.id] = "queued"]
        /\ queued' = queued \ {pending.id} /\ pending' = pending /\ apc' = "poll"
    BY <1>19 DEF Publish
  <2>3. \A r \in Requests : r # pending.id => result'[r] = result[r]
    BY <1>2, <2>2
  <2>4. result'[pending.id] = "queued" /\ "queued" \notin Final
    BY <1>2, <2>1, <2>2 DEF Final
  <2> QED BY <1>2, <2>1, <2>2, <2>3, <2>4 DEF Final
<1>20. ASSUME NEW r \in Requests, Refuse(r) PROVE Kept
  <2>1. /\ apc = "poll" /\ apc' = "poll" /\ r \in queued /\ queued' = queued \ {r} /\ pending' = pending
        /\ \A q \in Requests : q # r => result'[q] = result[q]
    BY <1>2, <1>20 DEF Refuse
  <2>2. pending.id # r
    BY <2>1
  <2> QED BY <1>2, <2>1, <2>2 DEF Final
<1>21. ASSUME NEW r \in Requests, Dispatch(r) PROVE Kept
  BY <1>2, <1>21 DEF Dispatch
<1>22. ASSUME NEW r \in Requests, Submit(r) PROVE Kept
  <2>1. /\ result[r] = "none" /\ result' = [result EXCEPT ![r] = "queued"]
        /\ queued' = queued \cup {r} /\ UNCHANGED <<pending, apc>>
    BY <1>22 DEF Submit
  <2>2. pending.id # r
    BY <2>1
  <2> QED BY <1>2, <2>1, <2>2 DEF Final
<1>23. ASSUME Killed \/ Stopped PROVE Kept
  <2>1. /\ pending'.id = None /\ apc' = "loop" /\ queued' = queued
        /\ result' = result \/ (/\ apc = "loop" /\ pending.id # None
                                /\ result' = [result EXCEPT ![pending.id] = "error"])
    BY <1>3, <1>23 DEF Killed, Stopped, Restarted
  <2>2. \A r \in queued : result'[r] = result[r]
    BY <1>2, <2>1
  <2> QED BY <1>2, <2>1, <2>2, NoneAssumption DEF Final
<1> HIDE DEF Kept
<1>24. Kept
  BY <1>7, <1>8, <1>9, <1>10, <1>11, <1>12, <1>13, <1>14, <1>15, <1>16, <1>17, <1>18, <1>19,
     <1>20, <1>21, <1>22, <1>23 DEF Next, Process, Poll
<1> QED BY <1>24 DEF Kept

LEMMA OpenInit == Init => OpenInv
BY NoneAssumption DEF Init, NoPending, OpenInv, PendingIsOpen, OneAtATime, QueuedIsOpen, PublishedIsQueued

\* A result that was reported stays, whatever answers, errors, timeouts,
\* refusals and restarts come later.
THEOREM ReportedResultsStay == Spec => ResultsAreFinal
<1>1. TypeInv /\ OpenInv /\ [Next]_vars => TypeInv' /\ OpenInv' /\ [FinalStays]_result
  BY TypeStep, OpenStep DEF TypeInv
<1> QED BY <1>1, TypeInit, OpenInit, PTL DEF Spec, ResultsAreFinal

-----------------------------------------------------------------------------
(* Declaration before writing *)

\* The acquisition is behind the reader, the events lead from the one's
\* generation to the other's, and no command has a later generation.
EventsAscend ==
    /\ agen <= gen
    /\ \A i \in 1..Len(events) : agen <= events[i].gen /\ events[i].gen <= gen
    /\ \A i \in 1..Len(events) : \A j \in i..Len(events) : events[i].gen <= events[j].gen

CommandsAreNotAhead == \A i \in 1..Len(commands) : commands[i].gen <= gen

\* The commands before the reader are of an earlier connection.
Older == \A i \in 1..Len(commands) : commands[i].gen < gen

\* Readiness is given on the ground of complete metadata ...
ReadyIsValid == ready \/ apc = "set" => validGen = agen

\* ... and given late, for a connection that is gone, it lets nothing through.
LateIsHarmless ==
    /\ apc = "set" /\ agen # gen => Older
    /\ (ready /\ agen # gen /\ rpc \notin {"closed", "opening"}) =>
           /\ Older
           /\ apc \in {"loop", "set", "poll", "timeout"}
           /\ apc \in {"poll", "timeout"} => ~mayDispatch

WritingIsValid == rpc = "write" => agen = gen /\ validGen = gen

DeclaredInv == /\ EventsAscend /\ CommandsAreNotAhead /\ ReadyIsValid /\ LateIsHarmless
               /\ WritingIsValid

\* The numbers the invariant is about.
LEMMA Gens ==
    ASSUME AllTyped
    PROVE  /\ gen \in Nat /\ agen \in Nat
           /\ Len(events) \in Nat /\ \A i \in 1..Len(events) : events[i].gen \in Nat
           /\ Len(commands) \in Nat /\ \A i \in 1..Len(commands) : commands[i].gen \in Nat
<1>1. events \in Seq(Evt) /\ commands \in Seq(Command)
  BY DEF AllTyped, QueueTyped, CommandsTyped
<1>2. (\A e \in Evt : e.gen \in Nat) /\ (\A c \in Command : c.gen \in Nat)
  BY DEF Evt, Command
<1> QED BY <1>1, <1>2 DEF AllTyped, ReaderTyped, LoopTyped

\* An event of the reader's generation is the last.
LEMMA PostAscends ==
    ASSUME AllTyped, EventsAscend, gen' = gen, agen' = agen,
           NEW e \in Evt, e.gen = gen, events' = events \/ events' = Append(events, e)
    PROVE  EventsAscend'
<1>1. CASE events' = events
  BY <1>1 DEF EventsAscend
<1>2. CASE events' = Append(events, e)
  <2> DEFINE n == Len(events)
  <2>1. /\ n \in Nat /\ Len(events') = n + 1 /\ events'[n + 1] = e
        /\ \A i \in 1..n : events'[i] = events[i]
    BY <1>2, SeqSteps, Gens DEF AllTyped, QueueTyped
  <2>2. \A i \in 1..(n + 1) : i \in 1..n \/ i = n + 1
    BY <2>1
  <2>3. \A i \in 1..(n + 1) : agen <= events'[i].gen /\ events'[i].gen <= gen
    BY <2>1, <2>2, Gens DEF EventsAscend
  <2>4. \A i \in 1..(n + 1) : \A j \in i..(n + 1) : events'[i].gen <= events'[j].gen
    <3>1. TAKE i \in 1..(n + 1)
    <3>2. TAKE j \in i..(n + 1)
    <3>3. CASE j = n + 1
      BY <2>1, <2>3, <3>3, Gens
    <3>4. CASE j # n + 1
      <4>1. i \in 1..n /\ j \in i..n
        BY <2>1, <3>4
      <4>2. j \in 1..n
        BY <2>1, <4>1
      <4> QED BY <2>1, <4>1, <4>2 DEF EventsAscend
    <3> QED BY <3>3, <3>4
  <2> QED BY <2>1, <2>3, <2>4 DEF EventsAscend
<1> QED BY <1>1, <1>2

\* Taking the first event.
LEMMA TakeAscends ==
    ASSUME AllTyped, EventsAscend, gen' = gen, agen' = agen,
           events # <<>>, events' = Tail(events)
    PROVE  EventsAscend'
<1> DEFINE n == Len(events)
<1>1. /\ n \in Nat \ {0} /\ Len(events') = n - 1
      /\ \A i \in 1..(n - 1) : events'[i] = events[i + 1]
  <2>1. events \in Seq(Evt)
    BY DEF AllTyped, QueueTyped
  <2>2. n \in Nat \ {0} /\ Len(events') = n - 1
    BY <2>1, SeqSteps
  <2>3. \A i \in 1..Len(events') : events'[i] = events[i + 1]
    BY <2>1, SeqSteps
  <2> QED BY <2>2, <2>3
<1>2. \A i \in 1..(n - 1) : i + 1 \in 1..n /\ \A j \in i..(n - 1) : j + 1 \in (i + 1)..n
                                                               /\ j \in 1..(n - 1)
  BY <1>1
<1> HIDE DEF n
<1>3. \A i \in 1..(n - 1) : agen <= events'[i].gen /\ events'[i].gen <= gen
  BY <1>1, <1>2 DEF EventsAscend, n
<1>4. \A i \in 1..(n - 1) : \A j \in i..(n - 1) : events'[i].gen <= events'[j].gen
  <2>1. \A i \in 1..n : \A j \in i..n : events[i].gen <= events[j].gen
    BY DEF EventsAscend, n
  <2>2. TAKE i \in 1..(n - 1)
  <2>3. TAKE j \in i..(n - 1)
  <2>4. i + 1 \in 1..n /\ j + 1 \in (i + 1)..n /\ j \in 1..(n - 1)
    BY <1>2
  <2>5. events[i + 1].gen <= events[j + 1].gen
    BY <2>1, <2>4
  <2> QED BY <1>1, <2>4, <2>5
<1> QED BY <1>1, <1>3, <1>4 DEF EventsAscend

\* Commands only grow older, unless the loop puts one.
LEMMA CommandsAge ==
    ASSUME AllTyped, gen' \in Nat, gen <= gen',
           \/ commands' = commands
           \/ commands' = <<>>
           \/ commands # <<>> /\ commands' = Tail(commands)
    PROVE  /\ CommandsAreNotAhead => CommandsAreNotAhead'
           /\ Older => Older'
           /\ gen < gen' /\ CommandsAreNotAhead => Older'
<1> DEFINE n == Len(commands)
<1>1. /\ gen \in Nat /\ n \in Nat
      /\ \A i \in 1..n : commands[i].gen \in Nat
  BY Gens
<1>2. /\ \A i \in 1..Len(commands') : \E j \in 1..n : commands'[i] = commands[j]
  <2>1. CASE commands' = commands
    BY <2>1
  <2>2. CASE commands' = <<>>
    BY <2>2
  <2>3. CASE commands # <<>> /\ commands' = Tail(commands)
    <3>1. /\ n \in Nat \ {0} /\ Len(commands') = n - 1
          /\ \A i \in 1..Len(commands') : commands'[i] = commands[i + 1]
      BY <2>3, SeqSteps DEF AllTyped, CommandsTyped
    <3>2. \A i \in 1..Len(commands') : i + 1 \in 1..n
      BY <3>1
    <3> QED BY <3>1, <3>2
  <2> QED BY <2>1, <2>2, <2>3
<1> HIDE DEF n
<1>3. \A i \in 1..Len(commands') : \E j \in 1..Len(commands) :
          commands'[i].gen = commands[j].gen /\ commands[j].gen \in Nat
  BY <1>1, <1>2 DEF n
<1>4. ASSUME NEW i \in 1..Len(commands')
      PROVE  /\ CommandsAreNotAhead => commands'[i].gen <= gen'
             /\ Older => commands'[i].gen < gen'
             /\ gen < gen' /\ CommandsAreNotAhead => commands'[i].gen < gen'
  <2>1. PICK j \in 1..Len(commands) :
            commands'[i].gen = commands[j].gen /\ commands[j].gen \in Nat
    BY <1>3
  <2> QED BY <1>1, <2>1 DEF CommandsAreNotAhead, Older
<1> QED BY <1>4 DEF CommandsAreNotAhead, Older

\* What a step of the reader does to readiness, the queue and the connection.
LEMMA ReaderMoves ==
    ASSUME AllTyped, HoldsWhileWriting, Reader \/ OpenFails \/ WriteFails \/ Break
    PROVE  /\ ready' = ready \/ ready' = FALSE
           /\ validGen' = validGen
           /\ \/ gen' = gen + 1 /\ rpc' = "opening" /\ events' = events
              \/ /\ gen' = gen
                 /\ events' = events \/ \E e \in Evt : e.gen = gen /\ events' = Append(events, e)
                 /\ rpc \in {"closed", "opening"} => rpc' = rpc \/ ~ready'
                 /\ rpc' = "write" => /\ rpc = "get" /\ ready /\ commands # <<>>
                                      /\ Head(commands).gen = gen
<1> DEFINE Stay == /\ gen' = gen
                   /\ events' = events \/ \E e \in Evt : e.gen = gen /\ events' = Append(events, e)
<1> USE DEF noHist, NoPost
<1>1. ASSUME NEW k \in EventKinds, NEW o \in Requests \cup {None}, Post(Event(k, o)), gen' = gen
      PROVE  Stay
  BY <1>1, EventIsEvt, PostTyped DEF AllTyped, QueueTyped, ReaderTyped
<1>2. {"connected", "disconnected", "command_sent", "command_error", "fragment"} \subseteq EventKinds
  BY Kinds
<1> HIDE DEF Stay
<1>3. CASE OpenPort
  BY <1>3 DEF OpenPort
<1>4. CASE Opened \/ Reconnect \/ Break
  <2>1. Stay
    BY <1>1, <1>2, <1>4 DEF Opened, Reconnect, Break, Disconnect
  <2>2. ready' = FALSE /\ validGen' = validGen /\ rpc' # "write"
    BY <1>4 DEF Opened, Reconnect, Break, Disconnect
  <2> QED BY <2>1, <2>2 DEF Stay
<1>5. CASE OpenFails
  <2>1. gen' = gen /\ ready' = FALSE /\ validGen' = validGen /\ rpc' = rpc /\ rpc = "closed"
    BY <1>5 DEF OpenFails, readerVars
  <2>2. CASE Post(Event("disconnected", None))
    <3>1. Stay
      BY <1>1, <1>2, <2>1, <2>2
    <3> QED BY <2>1, <3>1 DEF Stay
  <2>3. CASE NoPost
    BY <2>1, <2>3
  <2> QED BY <1>5, <2>2, <2>3 DEF OpenFails
<1>6. CASE AskMeta \/ GoOn \/ GetNothing \/ ReadNothing
  BY <1>6 DEF AskMeta, GoOn, GetNothing, ReadNothing
<1>7. CASE GetCommand
  <2>1. /\ gen' = gen /\ ready' = ready /\ validGen' = validGen /\ rpc = "get"
        /\ ready /\ commands # <<>>
    BY <1>7 DEF GetCommand
  <2>2. CASE Head(commands).gen = gen
    BY <1>7, <2>1, <2>2 DEF GetCommand
  <2>3. CASE Head(commands).gen # gen
    <3>1. Head(commands) \in Command
      BY <2>1, SeqSteps DEF AllTyped, CommandsTyped
    <3>2. Post(Event("command_error", Head(commands).id)) /\ rpc' = "top"
      BY <1>7, <2>3 DEF GetCommand
    <3>3. Stay
      BY <1>1, <1>2, <2>1, <3>1, <3>2 DEF Command
    <3> QED BY <2>1, <3>2, <3>3 DEF Stay
  <2> QED BY <2>2, <2>3
<1>8. CASE WriteCommand \/ WriteFails
  <2>1. /\ gen' = gen /\ ready' = ready /\ validGen' = validGen /\ rpc = "write"
        /\ rpc' \in {"read", "broken"}
        /\ Post(Event("command_sent", held)) \/ Post(Event("command_error", held))
    BY <1>8 DEF WriteCommand, WriteFails
  <2>2. held \in Requests \cup {None}
    BY DEF AllTyped, ReaderTyped
  <2>3. Stay
    BY <1>1, <1>2, <2>1, <2>2
  <2> QED BY <2>1, <2>3 DEF Stay
<1>9. CASE ReadLine
  <2>1. /\ gen' = gen /\ ready' = ready /\ validGen' = validGen /\ rpc = "read" /\ rpc' = "top"
        /\ wire # <<>>
    BY <1>9 DEF ReadLine
  <2>2. Head(wire) \in Sending
    BY <2>1, SeqSteps DEF AllTyped, NanoTyped
  <2>3. Head(wire).kind \in EventKinds /\ Head(wire).of \in Requests \cup {None}
    BY <2>2, Kinds DEF Sending
  <2>4. Stay
    <3>1. CASE first
      <4>1. Post(Event("fragment", None))
        BY <1>9, <3>1 DEF ReadLine
      <4> QED BY <1>1, <1>2, <2>1, <4>1
    <3>2. CASE ~first
      <4>1. Post(Event(Head(wire).kind, Head(wire).of))
        BY <1>9, <3>2 DEF ReadLine
      <4> QED BY <1>1, <2>1, <2>3, <4>1
    <3> QED BY <3>1, <3>2
  <2> QED BY <2>1, <2>4 DEF Stay
<1> QED BY <1>3, <1>4, <1>5, <1>6, <1>7, <1>8, <1>9 DEF Reader

\* The reader keeps the invariant: it writes only what was put for the present
\* connection, while ready on the ground of this connection's metadata.
LEMMA ReaderDeclares ==
    ASSUME AllTyped, HoldsWhileWriting, DeclaredInv, Reader \/ OpenFails \/ WriteFails \/ Break
    PROVE  DeclaredInv'
<1>1. UNCHANGED <<apc, agen, mayDispatch>>
  BY ReaderLeaves DEF loopVars
<1>2. gen \in Nat /\ agen \in Nat /\ agen <= gen
  BY Gens DEF DeclaredInv, EventsAscend
<1>3. gen' = gen \/ gen' = gen + 1
  BY ReaderMoves
<1>4. /\ CommandsAreNotAhead' /\ (Older => Older')
      /\ gen' = gen + 1 => Older'
  BY <1>2, <1>3, ReaderLeaves, CommandsAge DEF DeclaredInv
<1>5. EventsAscend'
  <2>1. CASE gen' = gen + 1 /\ events' = events
    <3>1. \A i \in 1..Len(events) : events[i].gen \in Nat
      BY Gens
    <3> QED BY <1>1, <1>2, <2>1, <3>1 DEF DeclaredInv, EventsAscend
  <2>2. CASE gen' = gen
    <3>1. events' = events \/ \E e \in Evt : e.gen = gen /\ events' = Append(events, e)
      BY <1>2, <2>2, ReaderMoves
    <3>2. CASE events' = events
      BY <1>1, <2>2, <3>2 DEF DeclaredInv, EventsAscend
    <3>3. ASSUME NEW e \in Evt, e.gen = gen, events' = Append(events, e) PROVE EventsAscend'
      BY <1>1, <2>2, <3>3, PostAscends DEF DeclaredInv
    <3> QED BY <3>1, <3>2, <3>3
  <2> QED BY <2>1, <2>2, ReaderMoves
<1>6. ReadyIsValid'
  BY <1>1, ReaderMoves DEF DeclaredInv, ReadyIsValid
<1>7. LateIsHarmless'
  <2>1. CASE gen' = gen + 1 /\ rpc' = "opening"
    BY <1>4, <2>1 DEF LateIsHarmless
  <2>2. CASE gen' = gen /\ (rpc \in {"closed", "opening"} => rpc' = rpc \/ ~ready')
    <3>1. LateIsHarmless /\ (ready' = ready \/ ready' = FALSE)
      BY ReaderMoves DEF DeclaredInv
    <3>2. (apc' = "set" /\ agen' # gen') => Older'
      BY <1>1, <1>4, <2>2, <3>1 DEF LateIsHarmless
    <3>3. ASSUME ready', agen' # gen', rpc' \notin {"closed", "opening"}
          PROVE  Older' /\ apc' \in {"loop", "set", "poll", "timeout"}
                 /\ (apc' \in {"poll", "timeout"} => ~mayDispatch')
      <4>1. ready /\ agen # gen /\ rpc \notin {"closed", "opening"}
        BY <1>1, <2>2, <3>1, <3>3
      <4> QED BY <1>1, <1>4, <3>1, <4>1 DEF LateIsHarmless
    <3> QED BY <3>2, <3>3 DEF LateIsHarmless
  <2> QED BY <2>1, <2>2, ReaderMoves
<1>8. WritingIsValid'
  <2>1. SUFFICES ASSUME rpc' = "write" PROVE agen' = gen' /\ validGen' = gen'
    BY DEF WritingIsValid
  <2>2. gen' = gen /\ rpc = "get" /\ ready /\ commands # <<>> /\ Head(commands).gen = gen
    BY <2>1, ReaderMoves
  <2>3. Len(commands) \in Nat \ {0} /\ Head(commands) = commands[1]
    BY <2>2, SeqSteps DEF AllTyped, CommandsTyped
  <2>4. ~Older
    BY <1>2, <2>2, <2>3 DEF Older
  <2>5. agen = gen /\ validGen = agen
    BY <2>2, <2>4 DEF DeclaredInv, LateIsHarmless, ReadyIsValid
  <2> QED BY <1>1, <2>2, <2>5, ReaderMoves
<1> QED BY <1>4, <1>5, <1>6, <1>7, <1>8 DEF DeclaredInv

\* The loop keeps it.  An event taken may complete the contract ...
LEMMA TakeDeclares ==
    ASSUME AllTyped, DeclaredInv,
           \/ TakeNothing \/ TakeUpset \/ TakeNewCfg \/ TakeCfg \/ TakeSch
           \/ TakeSent \/ TakeError \/ TakeAnswer
    PROVE  DeclaredInv'
<1>1. /\ apc = "loop" /\ events # <<>> /\ events' = Tail(events)
      /\ UNCHANGED <<gen, agen, rpc, mayDispatch>>
      /\ commands' = commands \/ commands' = <<>>
      /\ ready' = ready \/ ready' = FALSE
      /\ apc' \in {"loop", "set"}
      /\ validGen' \in {validGen, agen}
      /\ apc' = "set" => agen = gen /\ validGen' = agen
  <2> USE DEF Take, stay, reader, readerVars, Complete, Recover, WithdrawReady, Interrupted,
              histVars, noHist
  <2>1. CASE TakeNothing \/ TakeUpset \/ TakeNewCfg
    BY <2>1 DEF TakeNothing, TakeUpset, TakeNewCfg
  <2>2. CASE TakeCfg \/ TakeSch
    BY <2>2 DEF TakeCfg, TakeSch
  <2>3. CASE TakeSent \/ TakeError \/ TakeAnswer
    BY <2>3 DEF TakeSent, TakeError, TakeAnswer
  <2> QED BY <2>1, <2>2, <2>3
<1>2. gen \in Nat /\ agen \in Nat
  BY Gens
<1>3. EventsAscend'
  BY <1>1, TakeAscends DEF DeclaredInv
<1>4. CommandsAreNotAhead' /\ (Older => Older')
  BY <1>1, <1>2, CommandsAge DEF DeclaredInv
<1>5. ReadyIsValid'
  BY <1>1 DEF DeclaredInv, ReadyIsValid
<1>6. LateIsHarmless'
  <2>1. (ready /\ agen # gen /\ rpc \notin {"closed", "opening"}) => Older
    BY DEF DeclaredInv, LateIsHarmless
  <2> QED BY <1>1, <1>4, <2>1 DEF LateIsHarmless
<1>7. WritingIsValid'
  BY <1>1 DEF DeclaredInv, WritingIsValid
<1> QED BY <1>3, <1>4, <1>5, <1>6, <1>7 DEF DeclaredInv

\* ... an event of a later connection voids it.
LEMMA FollowDeclares == ASSUME AllTyped, DeclaredInv, Follow PROVE DeclaredInv'
<1>1. /\ events # <<>> /\ Head(events).gen # agen /\ agen' = Head(events).gen
      /\ commands' = <<>> /\ ready' = FALSE /\ apc' = "loop"
      /\ UNCHANGED <<gen, rpc, events, validGen>>
  BY DEF Follow, Recover, WithdrawReady, Interrupted, stay, reader, readerVars, histVars
<1>2. Len(events) \in Nat \ {0} /\ Head(events) = events[1]
  BY <1>1, SeqSteps DEF AllTyped, QueueTyped
<1>3. /\ gen \in Nat /\ agen \in Nat
      /\ \A i \in 1..Len(events) : events[i].gen \in Nat
  BY Gens
<1>4. 1 \in 1..Len(events) /\ \A i \in 1..Len(events) : i \in 1..Len(events)
  BY <1>2
<1>5. agen <= events[1].gen /\ events[1].gen <= gen
  BY <1>4 DEF DeclaredInv, EventsAscend
<1>6. EventsAscend'
  <2>1. \A i \in 1..Len(events) : events[1].gen <= events[i].gen
    BY <1>2, <1>4 DEF DeclaredInv, EventsAscend
  <2> QED BY <1>1, <1>2, <1>5, <2>1 DEF DeclaredInv, EventsAscend
<1>7. CommandsAreNotAhead'
  BY <1>1, <1>3, CommandsAge DEF DeclaredInv
<1>8. ReadyIsValid' /\ LateIsHarmless'
  BY <1>1 DEF ReadyIsValid, LateIsHarmless
<1>9. WritingIsValid'
  BY <1>1, <1>2, <1>3, <1>5 DEF DeclaredInv, WritingIsValid
<1> QED BY <1>6, <1>7, <1>8, <1>9 DEF DeclaredInv

\* Readiness, the poll and the put command.
LEMMA PollDeclares ==
    ASSUME AllTyped, DeclaredInv,
           \/ SetReady \/ Periodic \/ Poll \/ Timeout
           \/ \E r \in Requests : Refuse(r) \/ Dispatch(r)
    PROVE  DeclaredInv'
<1> DEFINE Same == UNCHANGED <<gen, agen, rpc, events, validGen>>
<1>1. gen \in Nat /\ agen \in Nat
  BY Gens
<1>2. ASSUME Same PROVE EventsAscend' /\ WritingIsValid'
  BY <1>2 DEF DeclaredInv, EventsAscend, WritingIsValid
<1>3. ASSUME Same, commands' = commands \/ commands' = <<>>
      PROVE  CommandsAreNotAhead' /\ (Older => Older')
  BY <1>1, <1>3, CommandsAge DEF DeclaredInv
<1>4. CASE SetReady
  <2>1. Same /\ apc = "set" /\ apc' = "loop" /\ ready' = TRUE /\ commands' = commands
    BY <1>4 DEF SetReady, reader, readerVars, histVars
  <2>2. ReadyIsValid' /\ LateIsHarmless'
    BY <1>3, <2>1 DEF DeclaredInv, ReadyIsValid, LateIsHarmless
  <2> QED BY <1>2, <1>3, <2>1, <2>2 DEF DeclaredInv
<1>5. CASE Periodic
  <2>1. /\ Same /\ apc = "loop" /\ apc' = "poll"
        /\ commands' = commands \/ commands' = <<>>
        /\ ready' = ready \/ ready' = FALSE
    BY <1>5 DEF Periodic, Recover, WithdrawReady, Interrupted, readerVars, noHist
  <2>2. mayDispatch' => agen = gen
    BY <1>5 DEF Periodic
  <2>3. (ready /\ agen # gen /\ rpc \notin {"closed", "opening"}) => Older
    BY DEF DeclaredInv, LateIsHarmless
  <2>4. ReadyIsValid'
    BY <2>1 DEF DeclaredInv, ReadyIsValid
  <2>5. LateIsHarmless'
    BY <1>3, <2>1, <2>2, <2>3 DEF LateIsHarmless
  <2> QED BY <1>2, <1>3, <2>1, <2>4, <2>5 DEF DeclaredInv
<1>6. CASE \/ Timeout \/ AfterTimeout \/ PollDone \/ Publish
           \/ \E r \in Requests : Refuse(r)
  <2>1. /\ Same /\ commands' = commands /\ mayDispatch' = mayDispatch
        /\ ready' = ready \/ ready' = FALSE
        /\ apc \in {"poll", "publish", "timeout"} /\ apc' \in {"poll", "loop", "timeout"}
    <3> USE DEF pollStays, readerVars, histVars
    <3>1. CASE Timeout \/ AfterTimeout
      BY <3>1 DEF Timeout, AfterTimeout, ForceReconnect
    <3>2. CASE PollDone \/ Publish \/ \E r \in Requests : Refuse(r)
      BY <3>2 DEF PollDone, Publish, Refuse
    <3> QED BY <1>6, <3>1, <3>2
  <2>2. ReadyIsValid'
    BY <2>1 DEF DeclaredInv, ReadyIsValid
  <2>3. LateIsHarmless'
    BY <1>3, <2>1 DEF DeclaredInv, LateIsHarmless
  <2> QED BY <1>2, <1>3, <2>1, <2>2, <2>3 DEF DeclaredInv
<1>7. ASSUME NEW r \in Requests, Dispatch(r) PROVE DeclaredInv'
  <2>1. /\ Same /\ commands' = commands /\ ready' = ready /\ mayDispatch
        /\ apc = "poll" /\ apc' = "put"
    BY <1>7 DEF Dispatch, MayDispatch, pollStays, readerVars, histVars
  <2>2. ReadyIsValid' /\ LateIsHarmless'
    BY <2>1 DEF DeclaredInv, ReadyIsValid, LateIsHarmless
  <2> QED BY <1>2, <1>3, <2>1, <2>2 DEF DeclaredInv
<1>8. CASE PutCommand
  <2>1. /\ Same /\ ready' = ready /\ apc = "put" /\ apc' = "publish"
        /\ commands' = Append(commands, [id |-> pending.id, gen |-> gen])
    BY <1>8 DEF PutCommand, pollStays, readerVars, histVars
  <2>2. ReadyIsValid' /\ LateIsHarmless'
    BY <2>1 DEF DeclaredInv, ReadyIsValid, LateIsHarmless
  <2>3. CommandsAreNotAhead'
    <3>1. commands \in Seq(Command)
      BY DEF AllTyped, CommandsTyped
    <3>2. /\ Len(commands) \in Nat /\ Len(commands') = Len(commands) + 1
          /\ \A i \in 1..Len(commands) : commands'[i] = commands[i]
          /\ commands'[Len(commands) + 1] = [id |-> pending.id, gen |-> gen]
      BY <2>1, <3>1
    <3> QED BY <1>1, <2>1, <3>2 DEF DeclaredInv, CommandsAreNotAhead
  <2> QED BY <1>2, <2>1, <2>2, <2>3 DEF DeclaredInv
<1> QED BY <1>4, <1>5, <1>6, <1>7, <1>8 DEF Poll

LEMMA DeclaredStep == ASSUME TypeInv, DeclaredInv, [Next]_vars PROVE DeclaredInv'
<1>1. AllTyped /\ HoldsWhileWriting
  BY DEF TypeInv
<1>2. ASSUME UNCHANGED piVars, validGen' = validGen PROVE DeclaredInv'
  BY <1>2
  DEF piVars, readerVars, loopVars, DeclaredInv, EventsAscend, CommandsAreNotAhead, ReadyIsValid,
      LateIsHarmless, WritingIsValid, Older
<1>3. ASSUME UNCHANGED vars PROVE UNCHANGED piVars /\ validGen' = validGen
  BY <1>3 DEF vars, piVars, histVars
<1>4. ASSUME \/ NanoAnswers \/ AnswerLost \/ NanoRestarts \/ LineDamaged
             \/ \E r \in Requests : Submit(r)
      PROVE  UNCHANGED piVars /\ validGen' = validGen
  BY <1>4 DEF NanoAnswers, AnswerLost, NanoRestarts, LineDamaged, Submit, histVars, noHist
<1>5. CASE Killed \/ Stopped
  <2>1. /\ gen' = 0 /\ agen' = 0 /\ events' = <<>> /\ commands' = <<>> /\ ready' = FALSE
        /\ apc' = "loop" /\ rpc' = "closed"
    BY <1>5 DEF Killed, Stopped, Restarted
  <2> QED BY <2>1 DEF DeclaredInv, EventsAscend, CommandsAreNotAhead, ReadyIsValid,
                      LateIsHarmless, WritingIsValid
<1> QED BY <1>1, <1>2, <1>3, <1>4, <1>5, ReaderDeclares, TakeDeclares, FollowDeclares,
           PollDeclares
        DEF Next, Process

LEMMA DeclaredInit == Init => DeclaredInv
BY DEF Init, DeclaredInv, EventsAscend, CommandsAreNotAhead, ReadyIsValid, LateIsHarmless,
       WritingIsValid

\* A command reaches the port only from the reader's write.
LEMMA OnlyWritesWrite == ASSUME [Next]_vars, rpc # "write" PROVE written' = written
<1> USE DEF histVars, noHist
<1>1. CASE UNCHANGED vars
  BY <1>1 DEF vars
<1>2. CASE OpenPort \/ Opened \/ OpenFails \/ Reconnect \/ Break
  BY <1>2 DEF OpenPort, Opened, OpenFails, Reconnect, Break
<1>3. CASE AskMeta \/ GoOn \/ GetNothing \/ GetCommand \/ ReadLine \/ ReadNothing
  BY <1>3 DEF AskMeta, GoOn, GetNothing, GetCommand, ReadLine, ReadNothing
<1>4. CASE WriteCommand \/ WriteFails
  BY <1>4 DEF WriteCommand, WriteFails
<1>5. CASE Follow \/ TakeNothing \/ TakeUpset \/ TakeCfg \/ TakeSch \/ SetReady \/ TakeNewCfg
  BY <1>5 DEF Follow, TakeNothing, TakeUpset, TakeCfg, TakeSch, SetReady, TakeNewCfg
<1>6. CASE TakeSent \/ TakeError \/ TakeAnswer \/ Periodic \/ Timeout
  BY <1>6 DEF TakeSent, TakeError, TakeAnswer, Periodic, Timeout
<1>7. CASE AfterTimeout \/ PutCommand \/ Publish \/ PollDone
  BY <1>7 DEF AfterTimeout, PutCommand, Publish, PollDone
<1>8. CASE \E r \in Requests : Refuse(r) \/ Dispatch(r) \/ Submit(r)
  BY <1>8 DEF Refuse, Dispatch, Submit
<1>9. CASE NanoAnswers \/ AnswerLost \/ NanoRestarts \/ LineDamaged \/ Killed \/ Stopped
  BY <1>9 DEF NanoAnswers, AnswerLost, NanoRestarts, LineDamaged, Killed, Stopped, Restarted
<1> QED BY <1>1, <1>2, <1>3, <1>4, <1>5, <1>6, <1>7, <1>8, <1>9 DEF Next, Reader, Process, Poll

\* A command is written only while the connection's own metadata are
\* complete: neither a readiness given late, for a connection that is gone,
\* nor a command put for one lets it through.
THEOREM DeclaredBeforeWritten == Spec => [][DeclaredFirst]_written
<1>1. ASSUME TypeInv, DeclaredInv, [Next]_vars PROVE [DeclaredFirst]_written
  BY <1>1, OnlyWritesWrite DEF DeclaredInv, WritingIsValid, DeclaredFirst
<1>2. TypeInv /\ DeclaredInv /\ [Next]_vars
          => TypeInv' /\ DeclaredInv' /\ [DeclaredFirst]_written
  BY <1>1, TypeStep, DeclaredStep
<1> QED BY <1>2, TypeInit, DeclaredInit, PTL DEF Spec
=============================================================================
