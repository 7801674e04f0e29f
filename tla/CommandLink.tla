---------------------------- MODULE CommandLink -----------------------------
(***************************************************************************)
(* How a command of a web user reaches the Nano and how its outcome comes  *)
(* back: the reader thread that owns the serial port, the bounded event    *)
(* queue, the acquisition loop with the protocol contract and the single   *)
(* pending command, the command and result files, and the Nano at the      *)
(* other end of a connection that may break at any time.                   *)
(*                                                                         *)
(* A request is one of Requests; all have the same verb and parameter, so  *)
(* nothing but the code's own bookkeeping tells their answers apart.       *)
(* Clock readings are left out: a time limit may have passed or not.       *)
(***************************************************************************)
EXTENDS Naturals, Sequences, TLC

CONSTANTS Requests,   \* the commands posted to the web interface
          None,       \* no command
          QueueCap,   \* queue_capacity of Reader.events
          MaxFaults,  \* bound: failures of the port, the Nano and the wire
          MaxStops    \* bound: how often the service is stopped or killed

ASSUME NoneAssumption == None \notin Requests
ASSUME QueueAssumption == QueueCap \in Nat \ {0}
ASSUME FaultAssumption == {MaxFaults, MaxStops} \subseteq Nat

RequestSymmetry == Permutations(Requests) \* requests are interchangeable

VARIABLES
    (* Reader *)
    rpc,        \* "closed", "opening", "top", "get", "write", "read", "broken"
    gen,        \* generation
    connected, ready, reconnect,
    asked,      \* `emit meta` was written on this connection: next_meta
    first,      \* the first line may be the rest of one
    held,       \* the command popped and not yet written
    events,     \* Reader.events
    dropped,    \* dropped_events differs from last_queue_drops
    commands,   \* Reader.commands
    (* Acquisition and Commands *)
    apc,        \* "loop", "set", "poll", "put", "publish", "timeout"
    agen,       \* generation
    cfg, schemas, \* the contract
    pending, blocked,
    mayDispatch, \* the argument of poll
    turned,     \* the reader has been round its loop since the last poll
    (* Files *)
    queued,     \* requests with a file in commands/
    old,        \* those posted before the service started
    result,     \* the state in results/
    (* Wire and Nano *)
    input,      \* written to the port, not yet handled by the Nano
    wire,       \* sent by the Nano, not yet read
    (* History *)
    written,    \* how often each command was written to the port
    validGen,   \* the last connection with complete metadata
    timedOutGen, \* the last connection on which a command timed out
    faults, stops

readerVars == <<rpc, gen, connected, reconnect, asked, first, held>>
loopVars   == <<apc, agen, cfg, schemas, pending, blocked, mayDispatch>>
fileVars   == <<queued, old, result>>
nanoVars   == <<input, wire>>
histVars   == <<written, validGen, timedOutGen, faults, stops>>
vars == <<readerVars, ready, events, dropped, commands, loopVars, turned,
          fileVars, nanoVars, histVars>>

Final == {"ok", "error", "not sent", "timeout"}
Event(kind, of) == [kind |-> kind, of |-> of, gen |-> gen]
Line(kind, of)  == [kind |-> kind, of |-> of]
Metadata == <<Line("CFG", None), Line("SCH", None)>>
NoPending == [id |-> None, gen |-> 0, sent |-> FALSE]

\* The service has just started; the files may be older.
Init == /\ rpc = "closed" /\ gen = 0 /\ connected = FALSE
        /\ ready = FALSE /\ reconnect = FALSE
        /\ asked = FALSE /\ first = TRUE /\ held = None
        /\ events = <<>> /\ dropped = FALSE /\ commands = <<>>
        /\ apc = "loop" /\ agen = 0 /\ cfg = FALSE /\ schemas = FALSE
        /\ pending = NoPending /\ blocked = FALSE
        /\ mayDispatch = FALSE /\ turned = FALSE
        /\ validGen = 0 /\ timedOutGen = 0
        /\ queued = {} /\ old = {}
        /\ result = [r \in Requests |-> "none"]
        /\ input = <<>> /\ wire = <<>>
        /\ written = [r \in Requests |-> 0]
        /\ faults = 0 /\ stops = 0
-----------------------------------------------------------------------------
(* The reader thread *)

Fault == faults < MaxFaults /\ faults' = faults + 1
NoFault == UNCHANGED faults
noHist == <<written, validGen, timedOutGen, stops>>

\* Reader.post: what does not fit is dropped and counted.
Post(e) == IF Len(events) < QueueCap
           THEN events' = Append(events, e) /\ UNCHANGED dropped
           ELSE dropped' = TRUE /\ UNCHANGED events

NoPost == UNCHANGED <<events, dropped>>

acqVars == <<commands, loopVars, fileVars>>

\* The port opens, which discards what it had received; then opened() starts
\* the new generation ...
OpenPort == /\ rpc = "closed"
            /\ rpc' = "opening"
            /\ gen' = gen + 1
            /\ asked' = FALSE /\ first' = TRUE
            /\ wire' = <<>>
            /\ turned' = TRUE
            /\ NoPost /\ NoFault
            /\ UNCHANGED <<connected, ready, reconnect, held, acqVars, input, noHist>>

\* ... and only then withdraws readiness.
Opened == /\ rpc = "opening"
          /\ rpc' = "top"
          /\ ready' = FALSE
          /\ connected' = TRUE
          /\ Post(Event("connected", None))
          /\ NoFault
          /\ UNCHANGED <<gen, reconnect, asked, first, held, acqVars, turned, nanoVars, noHist>>

OpenFails == /\ rpc = "closed" /\ Fault
             /\ ready' = FALSE
             /\ Post(Event("disconnected", None)) \/ NoPost
             /\ UNCHANGED <<readerVars, acqVars, turned, nanoVars, noHist>>

Disconnect == /\ rpc' = "closed"
              /\ connected' = FALSE
              /\ ready' = FALSE
              /\ Post(Event("disconnected", None))

Reconnect == /\ rpc = "top" /\ reconnect
             /\ Disconnect
             /\ reconnect' = FALSE
             /\ turned' = TRUE
             /\ NoFault
             /\ UNCHANGED <<gen, asked, first, held, acqVars, nanoVars, noHist>>

\* `emit meta`, at once on a new connection and then every five seconds while
\* not ready: long enough for all that came before to be dealt with.
MetaDue == ~asked \/ (input = <<>> /\ wire = <<>> /\ events = <<>>)

AskMeta == /\ rpc = "top" /\ ~reconnect
           /\ ~ready /\ MetaDue
           /\ rpc' = "get"
           /\ asked' = TRUE
           /\ input' = Append(input, "emit meta")
           /\ turned' = TRUE
           /\ NoPost /\ NoFault
           /\ UNCHANGED <<gen, connected, ready, reconnect, first, held, acqVars, wire, noHist>>

GoOn == /\ rpc = "top" /\ ~reconnect
        /\ ready \/ asked
        /\ rpc' = "get"
        /\ turned' = TRUE
        /\ NoPost /\ NoFault
        /\ UNCHANGED <<gen, connected, ready, reconnect, asked, first, held, acqVars,
                       nanoVars, noHist>>

\* The command was put under the generation of this connection.
GetCommand == /\ rpc = "get" /\ ready /\ commands # <<>>
              /\ commands' = Tail(commands)
              /\ \/ /\ Head(commands).gen = gen
                    /\ rpc' = "write" /\ held' = Head(commands).id
                    /\ NoPost
                 \/ /\ Head(commands).gen # gen
                    /\ rpc' = "top" /\ UNCHANGED held
                    /\ Post(Event("command_error", Head(commands).id))
              /\ NoFault
              /\ UNCHANGED <<gen, connected, ready, reconnect, asked, first, loopVars,
                             turned, fileVars, nanoVars, noHist>>

GetNothing == /\ rpc = "get" /\ (~ready \/ commands = <<>>)
              /\ rpc' = "read"
              /\ NoPost /\ NoFault
              /\ UNCHANGED <<gen, connected, ready, reconnect, asked, first, held, acqVars,
                             turned, nanoVars, noHist>>

ReachesNano == /\ input' = Append(input, held)
               /\ written' = [written EXCEPT ![held] = @ + 1]

WriteCommand == /\ rpc = "write"
                /\ rpc' = "read" /\ held' = None
                /\ ReachesNano
                /\ Post(Event("command_sent", held))
                /\ NoFault
                /\ UNCHANGED <<gen, connected, ready, reconnect, asked, first, acqVars,
                               turned, wire, validGen, timedOutGen, stops>>

\* The write fails, but the Nano may have received the command all the same.
WriteFails == /\ rpc = "write" /\ Fault
              /\ rpc' = "broken" /\ held' = None
              /\ ReachesNano \/ UNCHANGED <<input, written>>
              /\ Post(Event("command_error", held))
              /\ UNCHANGED <<gen, connected, ready, reconnect, asked, first, acqVars,
                             turned, wire, validGen, timedOutGen, stops>>

\* A line is posted; the first one is kept as a fragment.
ReadLine == /\ rpc = "read" /\ wire # <<>>
            /\ rpc' = "top"
            /\ wire' = Tail(wire)
            /\ first' = FALSE
            /\ Post(IF first THEN Event("fragment", None)
                    ELSE Event(Head(wire).kind, Head(wire).of))
            /\ NoFault
            /\ UNCHANGED <<gen, connected, ready, reconnect, asked, held, acqVars, turned,
                           input, noHist>>

ReadNothing == /\ rpc = "read" /\ wire = <<>>
               /\ rpc' = "top"
               /\ NoPost /\ NoFault
               /\ UNCHANGED <<gen, connected, ready, reconnect, asked, first, held, acqVars,
                              turned, nanoVars, noHist>>

\* An exception at the port ends the connection.
Break == /\ \/ rpc \in {"top", "read"} /\ Fault
            \/ rpc = "broken" /\ NoFault
         /\ Disconnect
         /\ UNCHANGED <<gen, reconnect, asked, first, held, acqVars, turned, nanoVars, noHist>>

Reader == \/ OpenPort \/ Opened \/ Reconnect \/ AskMeta \/ GoOn \/ GetCommand \/ GetNothing
          \/ WriteCommand \/ ReadLine \/ ReadNothing \/ (Break /\ rpc = "broken")
-----------------------------------------------------------------------------
(* The acquisition loop *)

reader == <<readerVars, turned, nanoVars>>

\* Mutant: the interrupted command stays pending.
InterruptedStaysPending ==
    /\ blocked' = FALSE
    /\ UNCHANGED pending
    /\ result' = IF pending.id = None THEN result ELSE [result EXCEPT ![pending.id] = "error"]
    /\ commands' = <<>>

\* Mutant: the user is not told.
InterruptedSilently ==
    /\ blocked' = FALSE
    /\ pending' = NoPending
    /\ UNCHANGED result
    /\ commands' = <<>>

\* Commands.interrupted: the pending command is given up, never retried.
Interrupted ==
    /\ blocked' = FALSE
    /\ pending' = NoPending
    /\ result' = IF pending.id = None THEN result ELSE [result EXCEPT ![pending.id] = "error"]
    /\ commands' = <<>>

\* Mutant: the reader is not told that its metadata are void.
KeepReady == UNCHANGED ready

WithdrawReady == ready' = FALSE

\* Acquisition.recover: readiness, contract and command are void.
Recover == WithdrawReady /\ cfg' = FALSE /\ schemas' = FALSE /\ Interrupted

\* Acquisition.process takes an event of its own generation from the queue.
Take(kind) == /\ apc = "loop"
              /\ events # <<>> /\ Head(events).gen = agen /\ Head(events).kind = kind
              /\ events' = Tail(events)

stay == <<agen, mayDispatch, dropped, reader, queued, old>>

\* An event of another generation: the acquisition follows, then takes it.
Follow == /\ apc = "loop"
          /\ events # <<>> /\ Head(events).gen # agen
          /\ agen' = Head(events).gen
          /\ Recover
          /\ UNCHANGED <<apc, events, dropped, mayDispatch, reader, queued, old, histVars>>

TakeNothing == /\ Take("connected") \/ Take("fragment")
               /\ UNCHANGED <<apc, cfg, schemas, pending, blocked, ready, commands, result,
                              stay, histVars>>

\* A disconnection; or a line that voids the contract, one that is no record
\* or a row whose number shows a restart of the Nano.
TakeUpset == /\ Take("disconnected") \/ Take("upset")
             /\ Recover
             /\ UNCHANGED <<apc, stay, histVars>>

\* The contract is complete: remember it, and tell the reader if the metadata
\* are of the connection it has now.
Complete == IF cfg' /\ schemas'
            THEN /\ validGen' = agen
                 /\ apc' = IF agen = gen /\ connected THEN "set" ELSE "loop"
            ELSE UNCHANGED <<validGen, apc>>

TakeCfg == /\ Take("CFG")
           /\ cfg' = TRUE
           /\ UNCHANGED <<schemas, pending, blocked, ready, commands, result>>
           /\ Complete
           /\ UNCHANGED <<stay, written, timedOutGen, faults, stops>>

\* ContractChanged: another firmware declares itself.
TakeNewCfg == /\ Take("CFG") /\ cfg /\ Fault
              /\ WithdrawReady /\ Interrupted
              /\ cfg' = TRUE /\ schemas' = FALSE
              /\ UNCHANGED <<apc, stay, noHist>>

TakeSch == /\ Take("SCH")
           /\ schemas' = TRUE
           /\ UNCHANGED <<cfg, pending, blocked, ready, commands, result>>
           /\ Complete
           /\ UNCHANGED <<stay, written, timedOutGen, faults, stops>>

SetReady == /\ apc = "set"
            /\ apc' = "loop"
            /\ ready' = TRUE
            /\ UNCHANGED <<agen, cfg, schemas, pending, blocked, mayDispatch, events, dropped,
                           commands, reader, fileVars, histVars>>

\* Commands.transport_event
TakeSent == /\ Take("command_sent")
            /\ IF pending.id # None /\ pending.id = Head(events).of
               THEN /\ pending' = [pending EXCEPT !.sent = TRUE]
                    /\ result' = [result EXCEPT ![pending.id] = "sent"]
               ELSE UNCHANGED <<pending, result>>
            /\ UNCHANGED <<apc, cfg, schemas, blocked, ready, commands, stay, histVars>>

Conclude(state) == /\ pending' = NoPending
                   /\ result' = [result EXCEPT ![pending.id] = state]

TakeError == /\ Take("command_error")
             /\ IF pending.id # None /\ pending.id = Head(events).of
                THEN Conclude("error") ELSE UNCHANGED <<pending, result>>
             /\ UNCHANGED <<apc, cfg, schemas, blocked, ready, commands, stay, histVars>>

\* Mutant: an answer is taken before the command is known to be sent.
AwaitsAnyhow(e) == pending.id # None /\ pending.gen = e.gen

AwaitsAnswer(e) == pending.id # None /\ pending.sent /\ pending.gen = e.gen

\* Commands.observe: the wire does not say whose answer it is.
TakeAnswer == /\ \/ Take("STS,OK") /\ AwaitsAnswer(Head(events)) /\ Conclude("ok")
                 \/ Take("STS,INVALID_VALUE") /\ AwaitsAnswer(Head(events)) /\ Conclude("error")
                 \/ /\ Take("STS,OK") \/ Take("STS,INVALID_VALUE")
                    /\ ~AwaitsAnswer(Head(events))
                    /\ UNCHANGED <<pending, result>>
              /\ UNCHANGED <<apc, cfg, schemas, blocked, ready, commands, stay, histVars>>
-----------------------------------------------------------------------------
(* Acquisition.periodic and Commands.poll *)

\* A second has passed since the last poll, longer than the reader waits for
\* the port: it has been round its loop and finished a write. The Nano has
\* answered by now and is read, or it is late, which counts as a fault.
SecondPassed == /\ turned /\ held = None
                /\ \/ (connected => input = <<>> /\ wire = <<>>) /\ NoFault
                   \/ Fault

\* A loss in the event queue voids the contract; then the files are looked at.
Periodic == /\ apc = "loop" /\ SecondPassed
            /\ apc' = "poll"
            /\ turned' = FALSE
            /\ dropped' = FALSE
            /\ \/ dropped /\ Recover
               \/ /\ ~dropped
                  /\ UNCHANGED <<ready, cfg, schemas, pending, blocked, result, commands>>
            /\ mayDispatch' = (cfg' /\ schemas' /\ agen = gen)
            /\ UNCHANGED <<agen, events, readerVars, nanoVars, queued, old, noHist>>

pollStays == <<agen, cfg, schemas, mayDispatch, events, dropped, turned, nanoVars>>

\* Ten seconds without an answer, and none waits in the queue.
Timeout == /\ apc = "poll"
           /\ pending.id # None /\ events = <<>>
           /\ apc' = "timeout"
           /\ Conclude("timeout")
           /\ blocked' = TRUE
           /\ timedOutGen' = gen
           /\ UNCHANGED <<pollStays, ready, readerVars, commands, queued, old,
                          written, validGen, faults, stops>>

\* Mutant: a timeout leaves the connection as it is.
ForceNothing == UNCHANGED <<ready, reconnect>>

ForceReconnect == ready' = FALSE /\ reconnect' = TRUE

AfterTimeout == /\ apc = "timeout"
                /\ apc' = "poll"
                /\ ForceReconnect
                /\ UNCHANGED <<pollStays, rpc, gen, connected, asked, first, held, commands,
                               pending, blocked, fileVars, histVars>>

\* Mutant: requests from before the start are served like others.
NoneIsOld(r) == FALSE

IsOld(r) == r \in old

\* A request that waited for thirty seconds, or since before the start, is
\* refused; the former "was not sent".
Refuse(r) == /\ apc = "poll" /\ r \in queued
             /\ queued' = queued \ {r}
             /\ \/ result' = [result EXCEPT ![r] = "not sent"]
                \/ IsOld(r) /\ result' = [result EXCEPT ![r] = "error"]
             /\ UNCHANGED <<pollStays, apc, pending, blocked, ready, readerVars, commands,
                            old, histVars>>

MayDispatch == connected /\ ~blocked /\ mayDispatch

\* The next request is taken, one at a time ...
Dispatch(r) == /\ apc = "poll" /\ r \in queued /\ ~IsOld(r)
               /\ pending.id = None /\ MayDispatch
               /\ apc' = "put"
               /\ pending' = [id |-> r, gen |-> gen, sent |-> FALSE]
               /\ UNCHANGED <<pollStays, blocked, ready, readerVars, commands, fileVars, histVars>>

\* ... put before the reader, under the generation it has by then ...
PutCommand == /\ apc = "put"
              /\ apc' = "publish"
              /\ commands' = Append(commands, [id |-> pending.id, gen |-> gen])
              /\ UNCHANGED <<pollStays, pending, blocked, ready, readerVars, fileVars, histVars>>

\* ... and its file removed.
Publish == /\ apc = "publish"
           /\ apc' = "poll"
           /\ result' = [result EXCEPT ![pending.id] = "queued"]
           /\ queued' = queued \ {pending.id}
           /\ UNCHANGED <<pollStays, pending, blocked, ready, readerVars, commands, old, histVars>>

PollDone == /\ apc = "poll"
            /\ apc' = "loop"
            /\ UNCHANGED <<pollStays, pending, blocked, ready, readerVars, commands, fileVars,
                           histVars>>

Process == \/ Follow \/ TakeNothing \/ TakeUpset \/ TakeCfg \/ TakeSch \/ SetReady
           \/ TakeSent \/ TakeError \/ TakeAnswer
Poll == \/ AfterTimeout \/ PutCommand \/ Publish \/ PollDone
-----------------------------------------------------------------------------
(* The Nano, the user and the service manager *)

piVars == <<readerVars, ready, events, dropped, commands, loopVars, turned>>

\* The Nano handles its input in order.
Answers(what) == IF what = "emit meta" THEN {Metadata}
                 ELSE {<<Line("STS,OK", what)>>, <<Line("STS,INVALID_VALUE", what)>>}

NanoAnswers == /\ input # <<>>
               /\ input' = Tail(input)
               /\ \E a \in Answers(Head(input)) : wire' = wire \o a
               /\ UNCHANGED <<piVars, fileVars, histVars>>

AnswerLost == /\ input # <<>> /\ Fault
              /\ input' = Tail(input)
              /\ UNCHANGED <<piVars, wire, fileVars, noHist>>

\* A restart: the boot burst, then rows that are numbered from the beginning.
NanoRestarts == /\ Fault
                /\ input' = <<>>
                /\ wire' = wire \o Metadata \o <<Line("upset", None)>>
                /\ UNCHANGED <<piVars, fileVars, noHist>>

\* A line arrives damaged.
LineDamaged == /\ wire # <<>> /\ Fault
               /\ wire' = [wire EXCEPT ![1] = Line("upset", None)]
               /\ UNCHANGED <<piVars, input, fileVars, noHist>>

Submit(r) == /\ result[r] = "none"
             /\ result' = [result EXCEPT ![r] = "queued"]
             /\ queued' = queued \cup {r}
             /\ UNCHANGED <<piVars, old, nanoVars, histVars>>

Restarted == /\ stops < MaxStops /\ stops' = stops + 1
             /\ rpc' = "closed" /\ gen' = 0 /\ connected' = FALSE
             /\ ready' = FALSE /\ reconnect' = FALSE
             /\ asked' = FALSE /\ first' = TRUE /\ held' = None
             /\ events' = <<>> /\ dropped' = FALSE /\ commands' = <<>>
             /\ apc' = "loop" /\ agen' = 0 /\ cfg' = FALSE /\ schemas' = FALSE
             /\ pending' = NoPending /\ blocked' = FALSE
             /\ mayDispatch' = FALSE /\ turned' = FALSE
             /\ validGen' = 0 /\ timedOutGen' = 0
             /\ old' = queued
             /\ UNCHANGED <<queued, nanoVars, written, faults>>

\* The service is killed at any point.
Killed == Restarted /\ UNCHANGED result

\* Or stopped: what was received is processed, the pending command given up.
Stopped == /\ apc = "loop" /\ events = <<>>
           /\ Restarted
           /\ result' = IF pending.id = None THEN result
                        ELSE [result EXCEPT ![pending.id] = "error"]

Next == \/ Reader \/ OpenFails \/ WriteFails \/ Break
        \/ Process \/ TakeNewCfg \/ Periodic \/ Poll \/ Timeout
        \/ \E r \in Requests : Refuse(r) \/ Dispatch(r) \/ Submit(r)
        \/ NanoAnswers \/ AnswerLost \/ NanoRestarts \/ LineDamaged
        \/ Killed \/ Stopped

Spec == Init /\ [][Next]_vars

\* Both threads and the Nano keep running, time limits pass, `emit meta` is
\* asked for again and again, the second between two polls passes.
FairSpec == /\ Spec
            /\ WF_vars(Reader) /\ SF_vars(AskMeta)
            /\ SF_vars(Process) /\ SF_vars(Periodic) /\ WF_vars(Poll)
            /\ SF_vars(Timeout) /\ WF_vars(NanoAnswers)
            /\ \A r \in Requests : SF_vars(Refuse(r))
-----------------------------------------------------------------------------
LineKinds == {"CFG", "SCH", "STS,OK", "STS,INVALID_VALUE", "upset"}
EventKinds == LineKinds \cup {"connected", "disconnected", "command_sent", "command_error",
                              "fragment"}

TypeOK ==
    /\ rpc \in {"closed", "opening", "top", "get", "write", "read", "broken"}
    /\ gen \in Nat /\ agen \in Nat
    /\ {connected, ready, reconnect, asked, first, dropped} \subseteq BOOLEAN
    /\ {cfg, schemas, blocked, mayDispatch, turned} \subseteq BOOLEAN
    /\ held \in Requests \cup {None}
    /\ events \in Seq([kind : EventKinds, of : Requests \cup {None}, gen : Nat])
    /\ Len(events) <= QueueCap
    /\ commands \in Seq([id : Requests, gen : Nat])
    /\ apc \in {"loop", "set", "poll", "put", "publish", "timeout"}
    /\ pending \in [id : Requests \cup {None}, gen : Nat, sent : BOOLEAN]
    /\ queued \subseteq Requests /\ old \subseteq Requests
    /\ result \in [Requests -> {"none", "queued", "sent"} \cup Final]
    /\ input \in Seq(Requests \cup {"emit meta"})
    /\ wire \in Seq([kind : LineKinds, of : Requests \cup {None}])
    /\ written \in [Requests -> Nat]
    /\ {validGen, timedOutGen, faults, stops} \subseteq Nat

\* "Never automatically retry a mutation": no command is written to the port
\* twice, through reconnections, timeouts and restarts of the service.
NeverRetried == \A r \in Requests : written[r] <= 1

\* A result that was reported stays: no late answer, error or timeout
\* overwrites it.
FinalStays == \A r \in Requests : result[r] \in Final => result'[r] = result[r]
ResultsAreFinal == [][FinalStays]_result

\* An `ok` is the answer to that very request, though the wire carries no
\* transaction identifier.
OkIsOwn == [][\A r \in Requests :
                 (result[r] # "ok" /\ result'[r] = "ok")
                     => events # <<>> /\ Head(events).of = r]_result

\* A command is written only on a connection that has declared itself and,
\* after another one's timeout, only on a later connection.
DeclaredFirst == written' # written => validGen = gen
LaterConnection ==
    \A r \in Requests : written'[r] # written[r] /\ result[r] # "timeout" => gen > timedOutGen
WrittenAfterMetadata == [][DeclaredFirst /\ LaterConnection]_written

\* "command expired; it was not sent"
NotSentIsTrue == \A r \in Requests : result[r] = "not sent" => written[r] = 0

\* Every request is concluded, unless the service is killed or stopped.
Queued(r) == result[r] = "queued"
Concluded(r) == result[r] \in Final \/ stops > 0
RequestsAreConcluded == \A r \in Requests : Queued(r) ~> Concluded(r)

\* Once nothing fails any more, the reader knows itself ready, and it is on
\* the ground of a complete contract of its present connection.
Joined == connected /\ ready /\ cfg /\ schemas /\ agen = gen
Rejoins == <>[]Joined
=============================================================================
