--------------------------- MODULE HistoryStore ---------------------------
(***************************************************************************)
(* The sampled history of estimates (history.py): observations stored in    *)
(* segments no gap may bridge, the extrema of each minute kept beside them,  *)
(* pruning by age and by size, and the reduced query that answers a long     *)
(* range from the minutes and only its ends from the observations.           *)
(*                                                                          *)
(* Time counts observations of the analysis (one tick apart); a correction  *)
(* moves the wall clock back.  Values are members of a small set, None is a  *)
(* series without a value.                                                  *)
(***************************************************************************)
EXTENDS Integers, FiniteSets, FiniteSetsExt

CONSTANTS
    Values,      \* values of the series
    None,        \* no value
    Minute,      \* ticks in a minute row
    Sample,      \* routine observations are stored this far apart (10 s)
    Keep,        \* history_retention_days
    Corrections, \* how far a correction may move the clock back
    MaxTicks     \* bound: observations

HistoryAssumption ==
    /\ Values \subseteq Nat /\ None \notin Values
    /\ {Minute, Sample, Keep, MaxTicks} \subseteq Nat \ {0} /\ Corrections \subseteq Nat

VARIABLES
    obs,     \* observations: a set of [id, time, seg, value, breaks]
    minutes, \* minutes: a set of [bucket, seg, first, min, minId, max, maxId]
    nextId,  \* AUTOINCREMENT
    mono,    \* observations so far
    skew,    \* how far the wall clock was moved back
    seg,     \* _segment
    stored,  \* _last_written_segment and _last_written_mono
    paused,  \* _last_gap: the pause marker is the last row
    failed,  \* history_write_failure is pending, or the analysis was rebuilt
    breaks   \* history: discontinuities so far

histvars == <<obs, minutes, nextId, mono, skew, seg, stored, paused, failed, breaks>>

Epoch == mono - skew
Bucket(t) == (t \div Minute) * Minute

\* Ids of the rows (with a value) where it is least or greatest, the first one stored.
Least(rows)    == {r \in rows : r.value # None /\ \A q \in rows : q.value # None => r.value < q.value \/ (r.value = q.value /\ r.id <= q.id)}
Greatest(rows) == {r \in rows : r.value # None /\ \A q \in rows : q.value # None => r.value > q.value \/ (r.value = q.value /\ r.id <= q.id)}
TimesOf(rows)  == {r.time : r \in rows}
IdsOf(rows)    == {r.id : r \in rows}

-----------------------------------------------------------------------------
\* _prune(), when a minute has passed or the file is too large: retention by time, and then
\* the oldest ids by size.
Pruned(epoch, why) ==
    LET recent == {r \in obs : r.time >= epoch - Keep}
    IN  CASE why = "not due" -> obs
          [] why = "age"     -> recent
          [] why = "size"    -> {r \in recent : \E q \in recent : q.id < r.id}

\* Minutes any of whose observations are gone.
MinutesKept(rows) == {m \in minutes : m.first >= Min(IdsOf(rows) \cup {nextId})}

\* _summarize(): the minute row of a new observation.
Summarized(kept, o) ==
    LET old == {m \in kept : m.bucket = Bucket(o.time) /\ m.seg = o.seg}
        row == [bucket |-> Bucket(o.time), seg |-> o.seg, first |-> o.id,
                min |-> o.value, minId |-> o.id, max |-> o.value, maxId |-> o.id]
        joined(m) ==
            [m EXCEPT !.min   = IF o.value # None /\ (@ = None \/ o.value < @) THEN o.value ELSE @,
                      !.minId = IF o.value # None /\ (m.min = None \/ o.value < m.min) THEN o.id ELSE @,
                      !.max   = IF o.value # None /\ (@ = None \/ o.value > @) THEN o.value ELSE @,
                      !.maxId = IF o.value # None /\ (m.max = None \/ o.value > m.max) THEN o.id ELSE @]
    IN  (kept \ old) \cup (IF old = {} THEN {row} ELSE {joined(m) : m \in old})

\* Mutant: a discontinuity that fell on a failed write is forgotten.
SegmentOnlyNow(broken) == IF broken THEN seg + 1 ELSE seg

\* _point(): a discontinuity since the last observation starts a segment, stored or not.
SegmentNow(broken) == IF broken \/ failed THEN seg + 1 ELSE seg

\* _write(): whether this observation is stored.
Due(segment, gap) ==
    /\ ~(gap /\ paused)
    /\ stored.seg # segment \/ mono + 1 - stored.mono >= Sample

\* One observation.  A correction of the clock is a discontinuity of its own; so is entering
\* or leaving a gap.
Observe(value, loss, back, gap, prune, fails) ==
    LET broken  == loss \/ back > 0 \/ gap # paused \/ mono = 0
        segment == SegmentNow(broken)
        epoch   == mono + 1 - (skew + back)
        left    == Pruned(epoch, prune)
        kept    == IF prune = "not due" THEN minutes ELSE MinutesKept(left)
        o       == [id |-> nextId, time |-> epoch, seg |-> segment, value |-> IF gap THEN None ELSE value,
                    breaks |-> IF broken \/ failed THEN breaks + 1 ELSE breaks]
    IN  /\ mono < MaxTicks /\ epoch >= 0
        /\ mono' = mono + 1 /\ skew' = skew + back
        /\ seg' = segment /\ breaks' = o.breaks
        /\ failed' = (fails /\ Due(segment, gap))
        /\ IF Due(segment, gap) /\ ~fails
           THEN /\ obs' = left \cup {o} /\ minutes' = Summarized(kept, o) /\ nextId' = nextId + 1
                /\ stored' = [seg |-> segment, mono |-> mono + 1] /\ paused' = gap
           ELSE obs' = left /\ minutes' = kept /\ UNCHANGED <<nextId, stored, paused>>

Init ==
    /\ obs = {} /\ minutes = {} /\ nextId = 1 /\ mono = 0 /\ skew = 0
    /\ seg = 0 /\ stored = [seg |-> 0, mono |-> 0] /\ paused = FALSE /\ failed = FALSE /\ breaks = 0

Next ==
    \E value \in Values \cup {None}, loss, gap, fails \in BOOLEAN, back \in Corrections \cup {0},
       prune \in {"not due", "age", "size"} :
        Observe(value, loss, back, gap, prune, fails)

Spec == Init /\ [][Next]_histvars

-----------------------------------------------------------------------------
\* query_history(), reduced: extrema of whole minutes from the minute rows, those of the
\* ends from the observations; a minute row may name an observation that is gone.
InRange(s, e) == {r \in obs : s <= r.time /\ r.time <= e}

\* Mutant: the minute in which the range begins is taken for a whole one.
FirstWholeEarly(from) == Bucket(from)

FirstWhole(from) == ((from + Minute - 1) \div Minute) * Minute

Reduced(s, e) ==
    LET from  == IF Min(TimesOf(obs)) > s THEN Min(TimesOf(obs)) ELSE s
        lower == FirstWhole(from)
        upper == Bucket(e)
        whole == {m \in minutes : lower <= m.bucket /\ m.bucket < upper}
        ends  == {r \in obs : \/ s <= r.time /\ r.time < lower /\ r.time < e
                              \/ upper <= r.time /\ s <= r.time /\ r.time <= e}
        low   == {m \in whole : m.min # None /\ \A n \in whole : n.min # None => m.min <= n.min}
        high  == {m \in whole : m.max # None /\ \A n \in whole : n.max # None => m.max >= n.max}
        ids   == {m.minId : m \in low} \cup {m.maxId : m \in high}
                 \cup IdsOf(Least(ends)) \cup IdsOf(Greatest(ends))
    IN  {r \in InRange(s, e) : r.id \in ids}

ValuesOf(rows) == {r.value : r \in rows} \ {None}

\* history.py:502: "keeping queries exact at arbitrary bounds": a reduced query shows the
\* least and the greatest value of its range.
QueryIsExact ==
    obs # {} => \A s, e \in 0..Epoch :
        LET there == ValuesOf(InRange(s, e))
        IN  s < e /\ there # {} => {Min(there), Max(there)} \subseteq ValuesOf(Reduced(s, e))

\* Observations of one segment have no discontinuity between them, not even one that fell
\* on an observation that was sampled away, paused or failed.
SegmentsDoNotBridge == \A p, q \in obs : p.seg = q.seg => p.breaks = q.breaks
=============================================================================
