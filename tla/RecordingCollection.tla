------------------------- MODULE RecordingCollection ------------------------
(***************************************************************************)
(* The analysis of rotated recordings (suite/collection.py).  The recorder   *)
(* left directories of segments, of which storage maintenance may have       *)
(* compressed or removed files, even while the analysis is started.  The     *)
(* analysis combines segments that follow one another without a gap, and     *)
(* lists what it left out.                                                   *)
(*                                                                         *)
(* Rows are numbered in the order they were received; a row of a file is    *)
(* its number.  Two streams stand for the three files of a segment.          *)
(***************************************************************************)
EXTENDS Naturals, Sequences, SequencesExt, FiniteSets, FiniteSetsExt

CONSTANTS
    None,
    Sessions, \* names of receiver sessions: the order of names is not that of time
    Contracts,
    MaxSegments, MaxRows, MaxFaults \* bounds

VARIABLES
    dirs,    \* the directories, in the order they were recorded
    session, contract, next, \* the recorder: session (or None), contract, number of the next row
    used,    \* sessions that were begun
    faults,  \* bound
    result   \* of the analysis: None, "refused", or reports and excluded directories

cvars == <<dirs, session, contract, next, used, faults, result>>

Roles == {"pcps", "pcsw"}

Init ==
    /\ dirs = <<>> /\ session = None /\ contract = None /\ next = 1 /\ used = {} /\ faults = 0 /\ result = None
-----------------------------------------------------------------------------
(* The recorder *)

Fault(n) == faults + n <= MaxFaults /\ faults' = faults + n

\* The receiver starts, connects anew, or is told of another contract.
Begin(s) ==
    /\ result = None /\ session = None /\ s \notin used
    /\ session' = s /\ used' = used \cup {s} /\ contract' = None /\ UNCHANGED <<dirs, next, faults, result>>

\* Metadata is complete; a contract lasts as long as the session.
SetContract(c) ==
    /\ result = None /\ session # None /\ contract = None /\ contract' = c /\ UNCHANGED <<dirs, session, next, used, faults, result>>

Number == 1 + Cardinality({i \in 1..Len(dirs) : dirs[i].session = session})

\* A segment is recorded, and closed for a reason.  Rows are lost until the next one can be
\* opened, after a rotation just if the disk is full then.
Record(rows, reason, lost) ==
    /\ result = None /\ session # None /\ Len(dirs) < MaxSegments
    /\ contract = None => rows = 0
    /\ Fault(IF reason = "rotation" /\ lost = 0 THEN 0 ELSE 1)
    /\ dirs' = Append(dirs, [session |-> session, segment |-> Number, contract |-> contract, reason |-> reason,
                             rows |-> [r \in Roles |-> [i \in 1..rows |-> next + i - 1]], form |-> [r \in Roles |-> "plain"]])
    /\ next' = next + rows + lost /\ UNCHANGED <<session, contract, used, result>>

End == result = None /\ session # None /\ session' = None /\ UNCHANGED <<dirs, contract, next, used, faults, result>>

\* Storage maintenance: a file is compressed, in two steps, or expires; a row of a file is
\* damaged.  What the recorder does meanwhile is of no consequence to it.
Change(i, r, form) ==
    /\ result = None /\ session = None /\ Fault(1)
    /\ dirs[i].reason # "active" /\ <<dirs[i].form[r], form>> \in {<<"plain", "both">>, <<"plain", "gz">>, <<"plain", "none">>, <<"plain", "damaged">>}
    /\ dirs' = [dirs EXCEPT ![i].form[r] = form]
    /\ UNCHANGED <<session, contract, next, used, result>>
-----------------------------------------------------------------------------
(* The analysis *)

\* _segments(): what is closed and has its measurements, by session and number.
Closed(i)  == dirs[i].reason \notin {"active", "failed"}
Found      == {i \in 1..Len(dirs) : Closed(i) /\ \A r \in Roles : dirs[i].form[r] # "none"}
Doubled    == \E i \in 1..Len(dirs), r \in Roles : Closed(i) /\ dirs[i].form[r] = "both"
Names      == SetToSeq(Sessions) \* in the order of names
Rank(s)    == CHOOSE k \in 1..Len(Names) : Names[k] = s
Precedes(i, j) == Rank(dirs[i].session) < Rank(dirs[j].session) \/ (dirs[i].session = dirs[j].session /\ dirs[i].segment < dirs[j].segment)
Ordered    == SetToSortSeq(Found, Precedes)

\* _groups(): a segment that goes on where the one before it stopped.
Follows(i, j) ==
    /\ dirs[j].session = dirs[i].session /\ dirs[j].segment = dirs[i].segment + 1
    /\ dirs[j].contract = dirs[i].contract /\ dirs[i].reason = "rotation"
Grown(groups, j) ==
    IF groups # <<>> /\ Follows(Last(Last(groups)), j)
    THEN Append(Front(groups), Append(Last(groups), j)) ELSE Append(groups, <<j>>)
Groups == FoldLeft(Grown, <<>>, Ordered)

\* _combine(): the rows of a group, and which of them came from where.
Combined(group, r) ==
    [rows |-> FlattenSeq([k \in DOMAIN group |-> dirs[group[k]].rows[r]]),
     from |-> [k \in DOMAIN group |->
                 [dir |-> group[k], rows |-> Len(dirs[group[k]].rows[r]),
                  first |-> 2 + FoldLeft(LAMBDA n, i : n + Len(dirs[i].rows[r]), 0, SubSeq(group, 1, k - 1))]]]
Damaged(group) == \E i \in ToSet(group), r \in Roles : dirs[i].form[r] = "damaged"

\* run_collection(): a report for each group that has seconds.
Collect ==
    LET empty == {k \in DOMAIN Groups : Combined(Groups[k], "pcps").rows = <<>>}
        refused == Doubled \/ Found = {} \/ \E k \in DOMAIN Groups : Damaged(Groups[k])
    IN  /\ result = None /\ dirs # <<>>
        /\ result' = IF refused THEN [complete |-> FALSE]
                     ELSE [complete |-> TRUE,
                           reports  |-> {[r \in Roles |-> Combined(Groups[k], r)] : k \in DOMAIN Groups \ empty},
                           excluded |-> (1..Len(dirs) \ Found) \cup UNION {ToSet(Groups[k]) : k \in empty}]
        /\ UNCHANGED <<dirs, session, contract, next, used, faults>>

Next ==
    \/ (\E s \in Sessions : Begin(s)) \/ Collect
    \/ End \/ (\E c \in Contracts : SetContract(c))
    \/ (\E rows \in 0..MaxRows, reason \in {"rotation", "disabled", "failed", "active"}, lost \in {0, 1} : Record(rows, reason, lost))
    \/ \E i \in 1..Len(dirs), r \in Roles, form \in {"both", "gz", "none", "damaged"} : Change(i, r, form)

Spec == Init /\ [][Next]_cvars
-----------------------------------------------------------------------------
\* The rows of a report are in the order they were received, of one session and one contract,
\* nothing is missing within a file, and each is traced to the row of the file it came from.
ReportsAreTraced ==
    result # None /\ result.complete => \A report \in result.reports, r \in Roles :
        LET all == report[r] IN
        /\ \A k \in 2..Len(all.rows) : all.rows[k] > all.rows[k - 1]
        /\ \A f, g \in ToSet(all.from) : dirs[f.dir].session = dirs[g.dir].session /\ dirs[f.dir].contract = dirs[g.dir].contract
        /\ \A f \in ToSet(all.from) : \A i \in 1..f.rows : all.rows[f.first - 2 + i] = dirs[f.dir].rows[r][i]
        /\ \A f, g \in ToSet(all.from), i \in 1..Len(dirs) : f.dir < i /\ i < g.dir => \E h \in ToSet(all.from) : h.dir = i

\* "Unknown gaps, missing files and session changes split reports" (collection.py): the rows of
\* a report are all that were received from its first to its last.
GapsSplitReports ==
    result # None /\ result.complete => \A report \in result.reports, r \in Roles :
        \A k \in 2..Len(report[r].rows) : report[r].rows[k] = report[r].rows[k - 1] + 1

\* Nothing is left out silently, nor used twice: a complete analysis accounts for every segment
\* in one report or among those excluded.
SegmentsAreAccounted ==
    result # None /\ result.complete => \A i \in 1..Len(dirs) :
        IF i \in result.excluded THEN \A report \in result.reports : \A f \in ToSet(report["pcps"].from) : f.dir # i
        ELSE Cardinality({report \in result.reports : \E f \in ToSet(report["pcps"].from) : f.dir = i}) = 1
=============================================================================
