-------------------------- MODULE EnvironmentJoin --------------------------
(***************************************************************************)
(* Sensor readings and the captures they are recorded with (peripherals.py,  *)
(* sensor_history.py, service.py).  The sensor worker appends its snapshot to *)
(* a history and then replaces sensors.json; acquisition may get to a capture *)
(* long after it arrived, and must not give it a reading of its future.       *)
(*                                                                          *)
(* A reading is named by the time it was completed.                          *)
(***************************************************************************)
EXTENDS Integers, Sequences, FiniteSets

CONSTANTS
    Devices,  \* sht4x and bmp280
    None,
    Stale,    \* sensor_stale_seconds
    Interval, \* sensor_interval_seconds, between rows of the history
    Backlog,  \* bound: captures waiting
    MaxTime,  \* bound
    MaxLosses \* bound: restarts and refused rows

JoinAssumption == {Stale, Interval, Backlog, MaxTime, MaxLosses} \subseteq Nat /\ None \notin Nat

VARIABLES
    now,
    good,     \* device: its last good reading
    snapshot, \* the snapshot the worker holds, and whether it was offered to the history; or None
    history,  \* rows of sensor-history.sqlite3
    appended, \* time of the worker's last row, or None
    file,     \* sensors.json
    queue,    \* captures not processed: arrival, and (history) the snapshot published then
    attached, \* the capture just processed, with the readings it got, or None
    losses    \* history: restarts of the worker, and rows the database refused

joinvars == <<now, good, snapshot, history, appended, file, queue, attached, losses>>

NoReadings == [d \in Devices |-> None]
Nothing == [updated |-> -1, good |-> NoReadings]

Init ==
    /\ now = 0 /\ good = NoReadings /\ snapshot = None /\ history = {} /\ appended = None
    /\ file = Nothing /\ queue = <<>> /\ attached = None /\ losses = 0

Tick ==
    /\ now < MaxTime /\ now' = now + 1
    /\ attached' = None /\ UNCHANGED <<good, snapshot, history, appended, file, queue, losses>>

-----------------------------------------------------------------------------
\* A round of the worker: some devices answer, and the snapshot is taken.
Poll(answering) ==
    /\ snapshot = None /\ file.updated < now
    /\ good' = [d \in Devices |-> IF d \in answering THEN now ELSE good[d]]
    /\ snapshot' = [row |-> [updated |-> now, good |-> good'], offered |-> FALSE]
    /\ attached' = None /\ UNCHANGED <<now, history, appended, file, queue, losses>>

\* SensorHistory.append(), unless it is not due or the database refuses; then sensors.json.
Record(refused) ==
    /\ refused => losses < MaxLosses
    /\ snapshot # None /\ ~snapshot.offered /\ snapshot' = [snapshot EXCEPT !.offered = TRUE]
    /\ IF ~refused /\ (appended = None \/ snapshot.row.updated - appended >= Interval)
       THEN history' = history \cup {snapshot.row} /\ appended' = snapshot.row.updated
       ELSE UNCHANGED <<history, appended>>
    /\ losses' = losses + (IF refused THEN 1 ELSE 0) /\ attached' = None
    /\ UNCHANGED <<now, good, file, queue>>

Publish ==
    /\ snapshot # None /\ snapshot.offered /\ file' = snapshot.row /\ snapshot' = None
    /\ attached' = None /\ UNCHANGED <<now, good, history, appended, queue, losses>>

\* The worker is started again with nothing but what is on disk; if it was stopped, and not
\* killed, it left a last snapshot that is in no history.
Restart ==
    /\ good' = NoReadings /\ snapshot' = None /\ appended' = None
    /\ file' = file \/ file' = [updated |-> now, good |-> good]
    /\ losses < MaxLosses /\ losses' = losses + 1 /\ attached' = None /\ UNCHANGED <<now, history, queue>>

-----------------------------------------------------------------------------
\* as_of(): the last row that is not newer than the capture.
AsOf(mono) ==
    LET rows == {r \in history : r.updated <= mono}
    IN  IF rows = {} THEN Nothing ELSE CHOOSE r \in rows : \A q \in rows : q.updated <= r.updated

\* environment_snapshot() and the check in process(): what a capture is recorded with.
SnapshotFor(mono) == IF file.updated > mono THEN AsOf(mono) ELSE file
Readings(mono) ==
    [d \in Devices |-> LET at == SnapshotFor(mono).good[d]
                       IN  IF at # None /\ at <= mono /\ mono - at <= Stale THEN at ELSE None]

Arrive ==
    /\ Len(queue) < Backlog /\ queue' = Append(queue, [mono |-> now, published |-> file.updated])
    /\ attached' = None /\ UNCHANGED <<now, good, snapshot, history, appended, file, losses>>

Process ==
    /\ queue # <<>> /\ queue' = Tail(queue)
    /\ LET mono == Head(queue).mono
       IN  attached' = [capture |-> Head(queue), from |-> SnapshotFor(mono).updated, readings |-> Readings(mono)]
    /\ UNCHANGED <<now, good, snapshot, history, appended, file, losses>>

Next ==
    \/ Tick \/ Publish \/ Restart \/ Arrive \/ Process
    \/ (\E answering \in SUBSET Devices : Poll(answering)) \/ (\E refused \in BOOLEAN : Record(refused))

Spec == Init /\ [][Next]_joinvars

-----------------------------------------------------------------------------
\* However long a capture waits, no reading is of its future, and unless rows were lost its
\* readings are from a snapshot that is at most one interval of the history older than the
\* one it would have been recorded with at once.
WaitingCostsOneInterval ==
    attached # None =>
        /\ \A d \in Devices : attached.readings[d] # None => attached.readings[d] <= attached.capture.mono
        /\ losses = 0 => attached.from >= attached.capture.published - Interval
=============================================================================
