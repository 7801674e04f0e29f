-------------------------- MODULE HealthCollectors --------------------------
(***************************************************************************)
(* The cached diagnostics of chronyd (time_health.py) and of gpsd            *)
(* (gps_health.py).  A worker thread asks the daemon, in two steps between   *)
(* which the daemon goes on; it parses what it got and caches the value;     *)
(* readers take snapshots at any time, and close() may overtake a collection *)
(* that is still under way.  The two collectors do not interact: a behaviour *)
(* is about one of them.                                                     *)
(***************************************************************************)
EXTENDS Integers

CONSTANTS
    Names,   \* chrony's external references
    None,    \* no reference, no report, an omitted field, an unknown age
    Stale,   \* stale_after, also the thirty seconds of parse_gpsd_poll()
    MaxTime  \* bound

CollectorAssumption == Stale \in Nat \ {0} /\ MaxTime \in Nat

VARIABLES
    collector, \* "chrony" or "gpsd"
    now,
    daemon,  \* chronyd: the reference of `tracking` and its time, the source selected, its reach;
             \* gpsd: the receiver's last report (time) and view of the sky (time, full)
    pc,      \* of the worker
    got,     \* what it has read
    cached,  \* _cached: the value, with times in place of ages
    sampled, \* _sampled, or None
    stopped, \* _stop is set; TRUE for good
    closed,  \* close() has returned
    updates  \* history: when each reference was updated

hcvars == <<collector, now, daemon, pc, got, cached, sampled, stopped, closed, updates>>

Unknown == [state |-> "unknown"]

Init ==
    /\ collector \in {"chrony", "gpsd"} /\ now = 0 /\ updates = {}
    /\ daemon = IF collector = "chrony" THEN [ref |-> None, at |-> None, selected |-> None, reach |-> FALSE]
                ELSE [tpv |-> None, sky |-> None]
    /\ pc = "idle" /\ got = None /\ cached = Unknown /\ sampled = None /\ stopped = FALSE /\ closed = FALSE

worker == <<pc, got, cached, sampled, stopped, closed>>
-----------------------------------------------------------------------------
Tick == now < MaxTime /\ now' = now + 1 /\ UNCHANGED <<collector, daemon, updates, worker>>

\* chronyd: a source is selected and measured, at most once in a unit of time; the selected
\* one fails; holdover.
Measured(n) ==
    /\ collector = "chrony" /\ daemon.at # now /\ daemon' = [ref |-> n, at |-> now, selected |-> n, reach |-> TRUE]
    /\ updates' = updates \cup {<<n, now>>} /\ UNCHANGED <<collector, now, worker>>

SourceLost ==
    /\ collector = "chrony" /\ daemon.selected # None
    /\ daemon' \in {[daemon EXCEPT !.selected = None], [daemon EXCEPT !.reach = FALSE], [daemon EXCEPT !.ref = None]}
    /\ UNCHANGED <<collector, now, updates, worker>>

\* gpsd: a report of the receiver, a view of the sky; either may come without its time, the
\* view in part, or from another device, which is as good as none.
Fix == collector = "gpsd" /\ daemon' \in {[daemon EXCEPT !.tpv = [time |-> t]] : t \in {now, None}}
       /\ UNCHANGED <<collector, now, updates, worker>>

Sky == collector = "gpsd" /\ daemon' \in {[daemon EXCEPT !.sky = v] : v \in {None} \cup [time : {now, None}, full : BOOLEAN]}
       /\ UNCHANGED <<collector, now, updates, worker>>

-----------------------------------------------------------------------------
\* _run(): the worker asks; `tracking` of chronyd, the POLL of gpsd.
Ask ==
    /\ pc = "idle" /\ ~stopped /\ got' = daemon /\ pc' = "asked"
    /\ UNCHANGED <<collector, now, daemon, updates, cached, sampled, stopped, closed>>

\* A matching view with satellites, if there is one, ends the wait of poll_gpsd() for the stream.
View == IF daemon.sky # None /\ daemon.sky.full THEN {daemon.sky} ELSE {}

\* `sources` of chronyd; a streamed view of gpsd, or the deadline with the POLL's own.
Answer ==
    /\ pc = "asked" /\ pc' = "answered"
    /\ got' \in IF collector = "chrony" THEN {[got EXCEPT !.selected = daemon.selected, !.reach = daemon.reach]}
                ELSE {got} \cup {[got EXCEPT !.sky = v] : v \in View}
    /\ UNCHANGED <<collector, now, daemon, updates, cached, sampled, stopped, closed>>

\* parse_chrony(): the two reports must name one external reference, selected and reachable.
Synchronized(g) == g.ref # None /\ g.selected = g.ref /\ g.reach
Chrony(g) == IF Synchronized(g) THEN [state |-> "synchronized", source |-> g.ref, at |-> g.at] ELSE Unknown

Current(t) == t # None /\ now - t <= Stale

\* parse_gpsd_poll(): old reports lose their fix; a view needs a time, or a current report.
Gps(g) ==
    IF g.tpv = None THEN Unknown
    ELSE [state |-> "available", fix |-> g.tpv.time = None \/ Current(g.tpv.time), at |-> g.tpv.time,
          sky |-> IF g.sky # None THEN g.sky.time ELSE None,
          view |-> /\ g.sky # None
                   /\ IF g.sky.time = None THEN Current(g.tpv.time) ELSE Current(g.sky.time)]

Parsed == IF collector = "chrony" THEN Chrony(got) ELSE Gps(got)

\* _collect(): the value, or "unknown" when the daemon failed or there is not one receiver,
\* under the lock and only while the worker is not stopped.
Cache ==
    /\ pc = "answered" /\ pc' = "idle" /\ got' = None
    /\ \E value \in {Parsed, Unknown} :
           IF stopped THEN UNCHANGED <<cached, sampled>> ELSE cached' = value /\ sampled' = now
    /\ UNCHANGED <<collector, now, daemon, updates, stopped, closed>>

\* close(): the flag, then after a join that may time out the cached value is withdrawn.
Stop == ~stopped /\ stopped' = TRUE /\ UNCHANGED <<collector, now, daemon, updates, pc, got, cached, sampled, closed>>

Withdraw ==
    /\ stopped /\ ~closed /\ closed' = TRUE /\ cached' = Unknown /\ sampled' = None
    /\ UNCHANGED <<collector, now, daemon, updates, pc, got, stopped>>

Next == Tick \/ (\E n \in Names : Measured(n)) \/ SourceLost \/ Fix \/ Sky
        \/ Ask \/ Answer \/ Cache \/ Stop \/ Withdraw

Spec == Init /\ [][Next]_hcvars
-----------------------------------------------------------------------------
\* snapshot(), now: stale diagnostics say nothing, and cached reports go on ageing.
Snapshot ==
    IF sampled = None \/ now - sampled > Stale THEN Unknown
    ELSE IF cached.state # "available" THEN cached
    ELSE LET old == cached.at # None /\ now - cached.at > Stale
         IN  [cached EXCEPT !.fix = @ /\ ~old,
                            !.view = @ /\ ~old /\ (cached.sky = None \/ now - cached.sky <= Stale)]

\* A snapshot never presents what is no longer so.  A synchronisation it reports is with a
\* reference that was measured at the very time it says, and was collected within stale_after;
\* a fix whose time is known, and a view of the sky, rest on reports within stale_after; and
\* once closed, the collector presents nothing (time_health.py:148, gps_health.py:187).
SnapshotsAreCurrent ==
    /\ Snapshot.state = "synchronized" => <<Snapshot.source, Snapshot.at>> \in updates
    /\ Snapshot.state # "unknown" => now - sampled <= Stale /\ ~closed
    /\ Snapshot.state = "available" =>
           /\ Snapshot.fix /\ Snapshot.at # None => now - Snapshot.at <= Stale
           /\ Snapshot.view => \E t \in {Snapshot.sky, Snapshot.at} \ {None} : now - t <= Stale
=============================================================================
