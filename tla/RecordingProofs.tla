-------------------------- MODULE RecordingProofs ---------------------------
(***************************************************************************)
(* The Pi's journal survives what happens to it, for any number of         *)
(* captures, sessions, segments, failures, kills and power cuts.           *)
(*                                                                         *)
(* A segment holds three lengths of each stream: what is written, what is  *)
(* durable and what is published.  Each of the three is the length of all  *)
(* streams at one instant (Snapshot), at which every analysis input had    *)
(* its raw line and its CSV row before it; they are in order; and a        *)
(* segment is published as closed only when the three are equal.           *)
(***************************************************************************)
EXTENDS Recording, SequenceTheorems, TLAPS

-----------------------------------------------------------------------------
(* The invariant *)

Inputs == [id : Nat, session : Nat, loss : Nat \X Nat]
Items  == Nat \cup Inputs
Counts == [Streams -> Nat]
SegmentType == [rows : [Streams -> Seq(Items)], durable : Counts, committed : Counts,
                closed : BOOLEAN, gone : BOOLEAN, previous : Nat]
RecorderType == [up : {TRUE}, logging : BOOLEAN, open : BOOLEAN, session : Nat, segment : Nat,
                 previous : Nat, committed : Counts, storage_lost : Nat, input_lost : Nat]

\* At these lengths every input has its rows.
Covers(rows, n) ==
    \A i \in 1 .. n["input"] :
        /\ \E k \in 1 .. n["csv"] : rows["csv"][k] = rows["input"][i].id
        /\ \E k \in 1 .. n["raw"] : rows["raw"][k] = rows["input"][i].id

LengthsOf(rows) == [f \in Streams |-> Len(rows[f])]

SegmentHolds(g) ==
    /\ \A f \in Streams : g.committed[f] <= g.durable[f] /\ g.durable[f] <= Len(g.rows[f])
    /\ Covers(g.rows, g.committed) /\ Covers(g.rows, g.durable) /\ Covers(g.rows, LengthsOf(g.rows))
    /\ g.closed => g.committed = g.durable /\ g.durable = LengthsOf(g.rows)
    /\ g.gone => g.closed

JournalHolds(S) == /\ S \in [DOMAIN S -> SegmentType] /\ DOMAIN S \subseteq Nat \X Nat
                   /\ \A p \in DOMAIN S : SegmentHolds(S[p])

\* The recorder writes to a segment of its own, which it numbered last and
\* whose published frontier it knows.
RecorderHolds(S, r) ==
    /\ r.open => /\ <<r.session, r.segment>> \in DOMAIN S
                 /\ ~S[<<r.session, r.segment>>].closed
                 /\ S[<<r.session, r.segment>>].committed = r.committed
    /\ \A p \in DOMAIN S : p[1] = r.session => p[2] <= r.segment

JournalInv ==
    /\ captured \in Nat /\ journal.last \in Nat
    /\ journal = [segments |-> journal.segments, last |-> journal.last]
    /\ JournalHolds(journal.segments)
    /\ recorder.up => recorder \in RecorderType /\ RecorderHolds(journal.segments, recorder)

\* What no step may take back: the frontier of a segment, and anything of a
\* closed one but its presence.
SegmentKept(g, h) == /\ \A f \in Streams : g.committed[f] <= h.committed[f]
                     /\ g.closed => h = g
JournalKept(S, T) == \A p \in DOMAIN S : p \in DOMAIN T /\ SegmentKept(S[p], T[p])

\* And what the storage worker may not take back either.
Final(S, T) ==
    \A p \in DOMAIN S : /\ \A f \in Streams : S[p].committed[f] <= T[p].committed[f]
                        /\ S[p].closed => [T[p] EXCEPT !.gone = S[p].gone] = S[p]

-----------------------------------------------------------------------------
(* The recorder's operators, on a state written out *)

State(S, l, r) == [j |-> [segments |-> S, last |-> l], r |-> r]

StateHolds(st) == /\ st = State(st.j.segments, st.j.last, st.r)
                  /\ st.j.last \in Nat /\ st.r \in RecorderType
                  /\ JournalHolds(st.j.segments) /\ RecorderHolds(st.j.segments, st.r)

Follows(st, next) == StateHolds(next) /\ JournalKept(st.j.segments, next.j.segments)

\* The changes the operators make to a recorder and to a segment.
Shut(r)           == [r EXCEPT !.open = FALSE]
Knows(r, n)       == [r EXCEPT !.committed = n]
Durably(g)        == [g EXCEPT !.durable = LengthsOf(g.rows)]
Manifest(g, n, c) == [[g EXCEPT !.committed = n] EXCEPT !.closed = c]
Added(rows, f, x) == [rows EXCEPT ![f] = Append(rows[f], x)]
Filled(g, f, x)   == [g EXCEPT !.rows = Added(g.rows, f, x)]

LEMMA FailIs ==
    ASSUME NEW st, NEW S, NEW l, NEW r, st = State(S, l, r)
    PROVE  Fail(st) = State(S, l, Shut(r))
<1>1. Fail(st) = [st EXCEPT !.r = Shut(st.r)]
  BY DEF Fail, Shut
<1> QED BY <1>1 DEF State

LEMMA HereIs ==
    ASSUME NEW st, NEW S, NEW l, NEW r, st = State(S, l, r)
    PROVE  Here(st) = <<r.session, r.segment>>
BY DEF State, Here

LEMMA LengthsIs ==
    ASSUME NEW st, NEW S, NEW l, NEW r, st = State(S, l, r)
    PROVE  Lengths(st) = LengthsOf(S[Here(st)].rows)
<1>1. st.j.segments = S
  BY DEF State
<1> QED BY <1>1 DEF Lengths, LengthsOf

LEMMA FsyncedIs ==
    ASSUME NEW st, NEW S, NEW l, NEW r, st = State(S, l, r), NEW K, K = <<r.session, r.segment>>
    PROVE  Fsynced(st) = State([S EXCEPT ![K] = Durably(S[K])], l, r)
<1>1. Here(st) = K
  BY HereIs
<1>2. Lengths(st) = LengthsOf(S[K].rows)
  BY <1>1, LengthsIs
<1>3. Fsynced(st) = [st EXCEPT !.j.segments[K].durable = LengthsOf(S[K].rows)]
  BY <1>1, <1>2 DEF Fsynced
<1> QED BY <1>3 DEF State, Durably

LEMMA CommittingIs ==
    ASSUME NEW st, NEW S, NEW l, NEW r, st = State(S, l, r), NEW K, K = <<r.session, r.segment>>
    PROVE  Committing(st) = State(S, l, Knows(r, LengthsOf(S[K].rows)))
<1>0. Here(st) = K
  BY HereIs
<1>1. Lengths(st) = LengthsOf(S[K].rows)
  BY <1>0, LengthsIs
<1>2. Committing(st) = [st EXCEPT !.r.committed = LengthsOf(S[K].rows)]
  BY <1>1 DEF Committing
<1> QED BY <1>2 DEF State, Knows

LEMMA SetTwice ==
    ASSUME NEW S, NEW K \in DOMAIN S, NEW G, S \in [DOMAIN S -> G], NEW a, NEW b
    PROVE  /\ [[S EXCEPT ![K] = a] EXCEPT ![K] = b] = [S EXCEPT ![K] = b]
           /\ [S EXCEPT ![K] = a][K] = a
OBVIOUS

LEMMA PublishedIs ==
    ASSUME NEW st, NEW S, NEW l, NEW r, st = State(S, l, r), NEW K, K = <<r.session, r.segment>>,
           NEW G, S \in [DOMAIN S -> G], K \in DOMAIN S, NEW c
    PROVE  Published(st, c) = State([S EXCEPT ![K] = Manifest(S[K], r.committed, c)], l, r)
<1> DEFINE g == S[K]
<1>1. Here(st) = K /\ st.r.committed = r.committed
  BY HereIs DEF State
<1> DEFINE mid == [st EXCEPT !.j.segments[K].committed = r.committed]
<1>2. Published(st, c) = [mid EXCEPT !.j.segments[K].closed = c]
  BY <1>1 DEF Published
<1> DEFINE T == [S EXCEPT ![K] = [g EXCEPT !.committed = r.committed]]
<1>3. mid = State(T, l, r)
  BY DEF State
<1>4. T[K] = [g EXCEPT !.committed = r.committed]
  BY SetTwice
<1> HIDE DEF mid
<1>5. [mid EXCEPT !.j.segments[K].closed = c]
        = State([T EXCEPT ![K] = [T[K] EXCEPT !.closed = c]], l, r)
  <2> HIDE DEF T
  <2> QED BY <1>3 DEF State
<1>6. [T EXCEPT ![K] = [T[K] EXCEPT !.closed = c]]
        = [S EXCEPT ![K] = [[g EXCEPT !.committed = r.committed] EXCEPT !.closed = c]]
  BY <1>4, SetTwice
<1> QED BY <1>2, <1>5, <1>6 DEF Manifest


\* sync() and close() as far as their manifest: the lengths as they are now
\* become durable, then known, then published.
LEMMA PublishedNowIs ==
    ASSUME NEW st, NEW S, NEW l, NEW r \in RecorderType, st = State(S, l, r), NEW K, K = <<r.session, r.segment>>,
           NEW G, S \in [DOMAIN S -> G], K \in DOMAIN S, NEW c, NEW n, n = LengthsOf(S[K].rows),
           Durably(S[K]).rows = S[K].rows
    PROVE  Published(Committing(Fsynced(st)), c)
             = State([S EXCEPT ![K] = Manifest(Durably(S[K]), n, c)], l, Knows(r, n))
<1> DEFINE T == [S EXCEPT ![K] = Durably(S[K])]
<1> DEFINE m == Fsynced(st)
<1> DEFINE k == Committing(m)
<1> DEFINE q == Knows(r, n)
<1>1. m = State(T, l, r)
  BY FsyncedIs
<1> DEFINE H == G \cup {Durably(S[K])}
<1>2. T \in [DOMAIN T -> H] /\ K \in DOMAIN T /\ T[K] = Durably(S[K])
  OBVIOUS
<1> HIDE DEF T, m, H
<1>3. LengthsOf(T[K].rows) = n
  BY <1>2
<1>4. k = State(T, l, q)
  BY <1>1, <1>3, CommittingIs
<1>5. q.session = r.session /\ q.segment = r.segment /\ q.committed = n
  BY DEF RecorderType, Knows
<1> HIDE DEF k, q
<1>6. Published(k, c) = State([T EXCEPT ![K] = Manifest(T[K], n, c)], l, q)
  <2>1. K = <<q.session, q.segment>>
    BY <1>5
  <2>2. Published(k, c) = State([T EXCEPT ![K] = Manifest(T[K], q.committed, c)], l, q)
    BY SMTT(20), <1>2, <1>4, <2>1, PublishedIs
  <2> QED BY <2>2, <1>5
<1>7. [T EXCEPT ![K] = Manifest(T[K], n, c)] = [S EXCEPT ![K] = Manifest(Durably(S[K]), n, c)]
  BY <1>2, SetTwice DEF T
<1> QED BY <1>6, <1>7 DEF k, q, m

NewSegment(previous) ==
    [rows |-> Empty, durable |-> Nothing, committed |-> Nothing,
     closed |-> FALSE, gone |-> FALSE, previous |-> previous]
Numbered(r) == [[r EXCEPT !.segment = r.segment + 1] EXCEPT !.committed = Nothing]
Opening(r)  == [r EXCEPT !.open = TRUE]

\* _open(), one result for each point at which it can fail.
LEMMA OpenedIs ==
    ASSUME NEW st, NEW S, NEW l, NEW r \in RecorderType, st = State(S, l, r), NEW q, q = Numbered(r),
           NEW K, K = <<r.session, r.segment + 1>>, NEW T, T = WithSegment(S, K, NewSegment(r.previous))
    PROVE  /\ Opened(st, "space") = st
           /\ Opened(st, "files") = State(S, l, q)
           /\ Opened(st, "marker") = State(T, l, q)
           /\ Opened(st, "ok") = State(T, r.session, Opening(q))
<1> DEFINE numbered == [st EXCEPT !.r.segment = st.r.segment + 1, !.r.committed = Nothing]
<1> DEFINE visible == [numbered EXCEPT !.j.segments = WithSegment(@, K, NewSegment(r.previous))]
<1> DEFINE open == [visible EXCEPT !.r.open = TRUE, !.j.last = st.r.session]
<1>1. st.r = r /\ st.j.last = l /\ st.j.segments = S
  BY DEF State
<1>2. /\ Opened(st, "space") = st /\ Opened(st, "files") = numbered
      /\ Opened(st, "marker") = visible /\ Opened(st, "ok") = open
  BY <1>1 DEF Opened, NewSegment
<1>3. numbered = State(S, l, q)
  <2> DEFINE half == [st EXCEPT !.r.segment = r.segment + 1]
  <2>1. numbered = [half EXCEPT !.r.committed = Nothing]
    BY <1>1
  <2>2. half = State(S, l, [r EXCEPT !.segment = r.segment + 1])
    BY DEF State
  <2> HIDE DEF half
  <2>3. [half EXCEPT !.r.committed = Nothing] = State(S, l, q)
    BY <2>2 DEF State, Numbered
  <2> QED BY <2>1, <2>3
<1> HIDE DEF numbered
<1>4. visible = State(T, l, q)
  BY <1>3 DEF State
<1> HIDE DEF visible
<1>5. open = State(T, r.session, Opening(q))
  <2> DEFINE half == [visible EXCEPT !.r = Opening(visible.r)]
  <2>1. open = [half EXCEPT !.j.last = r.session]
    BY <1>1 DEF Opening
  <2>2. half = State(T, l, Opening(q))
    BY <1>4 DEF State
  <2> HIDE DEF half
  <2>3. [half EXCEPT !.j.last = r.session] = State(T, r.session, Opening(q))
    BY <2>2 DEF State
  <2> QED BY <2>1, <2>3
<1> QED BY <1>2, <1>3, <1>4, <1>5

-----------------------------------------------------------------------------
(* What the changes make of a segment *)

Fine(g) == g \in SegmentType /\ SegmentHolds(g)

LEMMA LengthTypes ==
    ASSUME NEW rows \in [Streams -> Seq(Items)]
    PROVE  LengthsOf(rows) \in Counts /\ (\A f \in Streams : LengthsOf(rows)[f] = Len(rows[f]))
<1>1. \A f \in Streams : Len(rows[f]) \in Nat
  OBVIOUS
<1> QED BY <1>1 DEF LengthsOf, Counts

LEMMA NothingCovered ==
    ASSUME NEW rows PROVE Covers(rows, Nothing) /\ Nothing \in Counts /\ \A f \in Streams : Nothing[f] = 0
BY DEF Covers, Nothing, Counts, Streams

LEMMA DurablyFields ==
    ASSUME NEW g \in SegmentType
    PROVE  /\ Durably(g) \in SegmentType
           /\ Durably(g).rows = g.rows /\ Durably(g).durable = LengthsOf(g.rows)
           /\ Durably(g).committed = g.committed
           /\ Durably(g).closed = g.closed /\ Durably(g).gone = g.gone
<1>1. LengthsOf(g.rows) \in Counts
  BY LengthTypes DEF SegmentType
<1> QED BY <1>1 DEF Durably, SegmentType

LEMMA ManifestFields ==
    ASSUME NEW g \in SegmentType, NEW n \in Counts, NEW c \in BOOLEAN
    PROVE  /\ Manifest(g, n, c) \in SegmentType
           /\ Manifest(g, n, c).rows = g.rows /\ Manifest(g, n, c).durable = g.durable
           /\ Manifest(g, n, c).committed = n
           /\ Manifest(g, n, c).closed = c /\ Manifest(g, n, c).gone = g.gone
BY DEF Manifest, SegmentType

LEMMA FilledFields ==
    ASSUME NEW g \in SegmentType, NEW f \in Streams, NEW x \in Items
    PROVE  /\ Filled(g, f, x) \in SegmentType
           /\ Filled(g, f, x).rows = Added(g.rows, f, x)
           /\ Filled(g, f, x).durable = g.durable /\ Filled(g, f, x).committed = g.committed
           /\ Filled(g, f, x).closed = g.closed /\ Filled(g, f, x).gone = g.gone
<1>1. Added(g.rows, f, x) \in [Streams -> Seq(Items)]
  <2>1. g.rows \in [Streams -> Seq(Items)]
    BY DEF SegmentType
  <2>2. Append(g.rows[f], x) \in Seq(Items)
    BY <2>1
  <2> QED BY <2>1, <2>2 DEF Added
<1> QED BY <1>1 DEF Filled, SegmentType

LEMMA Ordered ==
    ASSUME NEW g, Fine(g)
    PROVE  /\ g.rows \in [Streams -> Seq(Items)] /\ g.durable \in Counts /\ g.committed \in Counts
           /\ g.closed \in BOOLEAN /\ g.gone \in BOOLEAN
           /\ \A f \in Streams : /\ g.committed[f] \in Nat /\ g.durable[f] \in Nat /\ Len(g.rows[f]) \in Nat
                                 /\ g.committed[f] <= g.durable[f] /\ g.durable[f] <= Len(g.rows[f])
<1>1. g.rows \in [Streams -> Seq(Items)] /\ g.durable \in Counts /\ g.committed \in Counts
  BY DEF Fine, SegmentType
<1>2. g.closed \in BOOLEAN /\ g.gone \in BOOLEAN
  BY DEF Fine, SegmentType
<1>3. \A f \in Streams : g.committed[f] \in Nat /\ g.durable[f] \in Nat /\ Len(g.rows[f]) \in Nat
  BY <1>1 DEF Counts
<1> QED BY <1>1, <1>2, <1>3 DEF Fine, SegmentHolds

\* A flush of all streams at once.
LEMMA DurablyFine ==
    ASSUME NEW g, Fine(g), ~g.closed
    PROVE  Fine(Durably(g)) /\ SegmentKept(g, Durably(g)) /\ ~Durably(g).closed
<1> DEFINE h == Durably(g)
<1>1. /\ h \in SegmentType /\ h.rows = g.rows /\ h.durable = LengthsOf(g.rows) /\ h.committed = g.committed
      /\ h.closed = g.closed /\ h.gone = g.gone
  BY DurablyFields DEF Fine
<1>2. \A f \in Streams : LengthsOf(g.rows)[f] = Len(g.rows[f])
  BY Ordered, LengthTypes
<1> HIDE DEF h
<1>3. \A f \in Streams : h.committed[f] <= h.durable[f] /\ h.durable[f] <= Len(h.rows[f])
  BY <1>1, <1>2, Ordered
<1>4. Covers(h.rows, h.committed) /\ Covers(h.rows, h.durable) /\ Covers(h.rows, LengthsOf(h.rows))
  BY <1>1 DEF Fine, SegmentHolds
<1>5. ~h.closed /\ (h.gone => h.closed)
  BY <1>1 DEF Fine, SegmentHolds
<1>6. SegmentKept(g, h)
  BY <1>1, Ordered DEF SegmentKept
<1>7. SegmentHolds(h)
  BY <1>3, <1>4, <1>5 DEF SegmentHolds
<1> QED BY <1>1, <1>5, <1>6, <1>7 DEF Fine, h

\* The manifest that follows it.
LEMMA ManifestFine ==
    ASSUME NEW g, Fine(g), ~g.closed, NEW c \in BOOLEAN, NEW n, n = LengthsOf(g.rows)
    PROVE  /\ Fine(Manifest(Durably(g), n, c)) /\ SegmentKept(g, Manifest(Durably(g), n, c))
           /\ Manifest(Durably(g), n, c).closed = c /\ Manifest(Durably(g), n, c).committed = n
<1> DEFINE d == Durably(g)
<1> DEFINE h == Manifest(d, n, c)
<1>1. d \in SegmentType /\ d.rows = g.rows /\ d.durable = n /\ d.gone = g.gone
  BY DurablyFields DEF Fine
<1>2. n \in Counts /\ \A f \in Streams : n[f] = Len(g.rows[f])
  BY Ordered, LengthTypes
<1> HIDE DEF d
<1>3. /\ h \in SegmentType /\ h.rows = g.rows /\ h.durable = n /\ h.committed = n
      /\ h.closed = c /\ h.gone = g.gone
  BY <1>1, <1>2, ManifestFields
<1> HIDE DEF h
<1>4. \A f \in Streams : h.committed[f] <= h.durable[f] /\ h.durable[f] <= Len(h.rows[f])
  <2>1. \A f \in Streams : Len(g.rows[f]) \in Nat
    BY Ordered
  <2> QED BY <1>2, <1>3, <2>1
<1>5. Covers(h.rows, h.committed) /\ Covers(h.rows, h.durable) /\ Covers(h.rows, LengthsOf(h.rows))
  BY <1>3 DEF Fine, SegmentHolds
<1>6. h.gone => h.closed
  BY <1>3 DEF Fine, SegmentHolds
<1>7. SegmentKept(g, h)
  <2>1. \A f \in Streams : g.committed[f] <= Len(g.rows[f])
    BY Ordered
  <2> QED BY <1>2, <1>3, <2>1 DEF SegmentKept
<1>8. SegmentHolds(h)
  BY <1>3, <1>4, <1>5, <1>6 DEF SegmentHolds
<1> QED BY <1>3, <1>7, <1>8 DEF Fine, h, d

\* The manifest alone, with the frontier it had.
LEMMA ContractFine ==
    ASSUME NEW g, Fine(g), ~g.closed, NEW c \in BOOLEAN, c = FALSE
    PROVE  /\ Fine(Manifest(g, g.committed, c)) /\ SegmentKept(g, Manifest(g, g.committed, c))
           /\ ~Manifest(g, g.committed, c).closed /\ Manifest(g, g.committed, c).committed = g.committed
<1> DEFINE h == Manifest(g, g.committed, c)
<1>1. /\ h \in SegmentType /\ h.rows = g.rows /\ h.durable = g.durable /\ h.committed = g.committed
      /\ h.closed = c /\ h.gone = g.gone
  BY Ordered, ManifestFields DEF Fine
<1> HIDE DEF h
<1>2. \A f \in Streams : h.committed[f] <= h.durable[f] /\ h.durable[f] <= Len(h.rows[f])
  BY <1>1, Ordered
<1>3. Covers(h.rows, h.committed) /\ Covers(h.rows, h.durable) /\ Covers(h.rows, LengthsOf(h.rows))
  BY <1>1 DEF Fine, SegmentHolds
<1>4. ~h.gone /\ ~h.closed
  BY <1>1 DEF Fine, SegmentHolds
<1>5. SegmentKept(g, h)
  BY <1>1, Ordered DEF SegmentKept
<1>6. SegmentHolds(h)
  BY <1>2, <1>3, <1>4 DEF SegmentHolds
<1> QED BY <1>1, <1>4, <1>5, <1>6 DEF Fine, h

\* x is a row of a stream.
HasRow(rows, f, x) == \E k \in 1 .. Len(rows[f]) : rows[f][k] = x

LEMMA Appended ==
    ASSUME NEW rows \in [Streams -> Seq(Items)], NEW f \in Streams, NEW x \in Items
    PROVE  /\ Added(rows, f, x) \in [Streams -> Seq(Items)]
           /\ Len(Added(rows, f, x)[f]) = Len(rows[f]) + 1
           /\ Added(rows, f, x)[f][Len(rows[f]) + 1] = x
           /\ \A h \in Streams :
                /\ h # f => Added(rows, f, x)[h] = rows[h]
                /\ Len(rows[h]) <= Len(Added(rows, f, x)[h])
                /\ \A k \in 1 .. Len(rows[h]) : Added(rows, f, x)[h][k] = rows[h][k]
<1> DEFINE new == Added(rows, f, x)
<1>1. rows[f] \in Seq(Items) /\ Len(rows[f]) \in Nat
  OBVIOUS
<1>2. /\ Append(rows[f], x) \in Seq(Items) /\ Len(Append(rows[f], x)) = Len(rows[f]) + 1
      /\ Append(rows[f], x)[Len(rows[f]) + 1] = x
      /\ \A k \in 1 .. Len(rows[f]) : Append(rows[f], x)[k] = rows[f][k]
  BY <1>1
<1>3. new[f] = Append(rows[f], x) /\ (\A h \in Streams : h # f => new[h] = rows[h])
  BY DEF Added
<1>4. \A h \in Streams : Len(rows[h]) \in Nat
  OBVIOUS
<1>5. new \in [Streams -> Seq(Items)]
  BY <1>2 DEF Added
<1> HIDE DEF new
<1>6. \A h \in Streams : Len(rows[h]) <= Len(new[h])
  BY <1>1, <1>2, <1>3, <1>4
<1>7. \A h \in Streams : \A k \in 1 .. Len(rows[h]) : new[h][k] = rows[h][k]
  BY <1>2, <1>3
<1> QED BY <1>2, <1>3, <1>5, <1>6, <1>7 DEF new

LEMMA RowsCounted ==
    ASSUME NEW rows \in [Streams -> Seq(Items)] PROVE \A h \in Streams : Len(rows[h]) \in Nat
OBVIOUS

LEMMA SameSegment ==
    ASSUME NEW g \in SegmentType, NEW h \in SegmentType,
           h.rows = g.rows, h.durable = g.durable, h.committed = g.committed,
           h.closed = g.closed, h.gone = g.gone, h.previous = g.previous
    PROVE  h = g
BY DEF SegmentType

\* What a stream's rows had covered stays covered when rows are added.
LEMMA CoversMore ==
    ASSUME NEW rows \in [Streams -> Seq(Items)], NEW f \in Streams, NEW x \in Items,
           NEW n \in Counts, \A h \in Streams : n[h] <= Len(rows[h]), Covers(rows, n)
    PROVE  Covers(Added(rows, f, x), n)
<1> DEFINE new == Added(rows, f, x)
<1>1. \A h \in Streams : \A k \in 1 .. Len(rows[h]) : new[h][k] = rows[h][k]
  BY Appended
<1> SUFFICES Covers(new, n)
  OBVIOUS
<1> HIDE DEF new
<1>2. \A h \in Streams : n[h] \in Nat /\ Len(rows[h]) \in Nat
  <2>1. \A h \in Streams : n[h] \in Nat
    BY DEF Counts
  <2>2. \A h \in Streams : Len(rows[h]) \in Nat
    BY RowsCounted
  <2> QED BY <2>1, <2>2
<1>3. \A h \in Streams : \A k \in 1 .. n[h] : new[h][k] = rows[h][k]
  BY <1>1, <1>2
<1>4. "raw" \in Streams /\ "csv" \in Streams /\ "input" \in Streams
  BY DEF Streams
<1> SUFFICES ASSUME NEW i \in 1 .. n["input"]
             PROVE  /\ \E k \in 1 .. n["csv"] : new["csv"][k] = new["input"][i].id
                    /\ \E k \in 1 .. n["raw"] : new["raw"][k] = new["input"][i].id
  BY DEF Covers
<1>5. new["input"][i] = rows["input"][i]
  BY <1>3, <1>4
<1>6. PICK k \in 1 .. n["csv"] : rows["csv"][k] = rows["input"][i].id
  BY DEF Covers
<1>7. PICK m \in 1 .. n["raw"] : rows["raw"][m] = rows["input"][i].id
  BY DEF Covers
<1>8. new["csv"][k] = rows["csv"][k] /\ new["raw"][m] = rows["raw"][m]
  BY <1>3, <1>4
<1> QED BY <1>5, <1>6, <1>7, <1>8

\* And all rows are covered, an input being added after its two rows.
LEMMA CoversAll ==
    ASSUME NEW rows \in [Streams -> Seq(Items)], NEW f \in Streams, NEW x \in Items,
           Covers(rows, LengthsOf(rows)),
           f = "input" => HasRow(rows, "csv", x.id) /\ HasRow(rows, "raw", x.id)
    PROVE  Covers(Added(rows, f, x), LengthsOf(Added(rows, f, x)))
<1> DEFINE new == Added(rows, f, x)
<1>0. "raw" \in Streams /\ "csv" \in Streams /\ "input" \in Streams
  BY DEF Streams
<1>1. /\ new \in [Streams -> Seq(Items)]
      /\ Len(new[f]) = Len(rows[f]) + 1 /\ new[f][Len(rows[f]) + 1] = x
      /\ \A h \in Streams : h # f => new[h] = rows[h]
      /\ \A h \in Streams : Len(rows[h]) <= Len(new[h])
      /\ \A h \in Streams : \A k \in 1 .. Len(rows[h]) : new[h][k] = rows[h][k]
  BY SMTT(20), Appended
<1> SUFFICES Covers(new, LengthsOf(new))
  OBVIOUS
<1> HIDE DEF new
<1>2. \A h \in Streams : LengthsOf(new)[h] = Len(new[h]) /\ Len(new[h]) \in Nat
  <2>1. new \in [Streams -> Seq(Items)]
    BY <1>1
  <2> QED BY <2>1, LengthTypes, RowsCounted
<1>3. \A h \in Streams : LengthsOf(rows)[h] = Len(rows[h]) /\ Len(rows[h]) \in Nat
  BY LengthTypes, RowsCounted
<1>4. ASSUME NEW h \in Streams, NEW y, HasRow(rows, h, y)
      PROVE  \E k \in 1 .. LengthsOf(new)[h] : new[h][k] = y
  <2>1. PICK k \in 1 .. Len(rows[h]) : rows[h][k] = y
    BY <1>4 DEF HasRow
  <2>2. k \in 1 .. LengthsOf(new)[h] /\ new[h][k] = y
    <3>1. Len(rows[h]) <= Len(new[h]) /\ Len(rows[h]) \in Nat /\ Len(new[h]) \in Nat
      BY <1>1, <1>2, <1>3
    <3>2. LengthsOf(new)[h] = Len(new[h])
      BY <1>2
    <3>3. new[h][k] = rows[h][k]
      BY <1>1
    <3> QED BY <2>1, <3>1, <3>2, <3>3
  <2> QED BY <2>2
<1>5. ASSUME NEW i \in 1 .. Len(new["input"])
      PROVE  HasRow(rows, "csv", new["input"][i].id) /\ HasRow(rows, "raw", new["input"][i].id)
  <2>1. CASE i \in 1 .. Len(rows["input"])
    <3>1. new["input"][i] = rows["input"][i]
      BY <1>0, <1>1, <2>1
    <3>2. /\ \E k \in 1 .. LengthsOf(rows)["csv"] : rows["csv"][k] = rows["input"][i].id
          /\ \E k \in 1 .. LengthsOf(rows)["raw"] : rows["raw"][k] = rows["input"][i].id
      BY <1>0, <1>3, <2>1 DEF Covers
    <3> QED BY <1>0, <1>3, <3>1, <3>2 DEF HasRow
  <2>2. CASE i \notin 1 .. Len(rows["input"])
    <3>1. f = "input"
      BY <1>0, <1>1, <1>3, <2>2
    <3>2. i = Len(rows["input"]) + 1
      BY <1>0, <1>1, <1>3, <2>2, <3>1
    <3> QED BY <1>1, <3>1, <3>2
  <2> QED BY <2>1, <2>2
<1> SUFFICES ASSUME NEW i \in 1 .. LengthsOf(new)["input"]
             PROVE  /\ \E k \in 1 .. LengthsOf(new)["csv"] : new["csv"][k] = new["input"][i].id
                    /\ \E k \in 1 .. LengthsOf(new)["raw"] : new["raw"][k] = new["input"][i].id
  BY DEF Covers
<1>6. HasRow(rows, "csv", new["input"][i].id) /\ HasRow(rows, "raw", new["input"][i].id)
  BY <1>0, <1>2, <1>5
<1>7. \E k \in 1 .. LengthsOf(new)["csv"] : new["csv"][k] = new["input"][i].id
  BY <1>0, <1>4, <1>6
<1>8. \E k \in 1 .. LengthsOf(new)["raw"] : new["raw"][k] = new["input"][i].id
  BY <1>0, <1>4, <1>6
<1> QED BY <1>7, <1>8

LEMMA FilledFine ==
    ASSUME NEW g, Fine(g), ~g.closed, NEW f \in Streams, NEW x \in Items,
           f = "input" => HasRow(g.rows, "csv", x.id) /\ HasRow(g.rows, "raw", x.id)
    PROVE  /\ Fine(Filled(g, f, x)) /\ SegmentKept(g, Filled(g, f, x))
           /\ ~Filled(g, f, x).closed /\ Filled(g, f, x).committed = g.committed
           /\ HasRow(Filled(g, f, x).rows, f, x)
           /\ \A h \in Streams : \A y : HasRow(g.rows, h, y) => HasRow(Filled(g, f, x).rows, h, y)
<1> DEFINE h == Filled(g, f, x)
<1> DEFINE new == Added(g.rows, f, x)
<1>1. /\ h \in SegmentType /\ h.rows = new /\ h.durable = g.durable /\ h.committed = g.committed
      /\ h.closed = g.closed /\ h.gone = g.gone
  BY FilledFields DEF Fine
<1>2. g.rows \in [Streams -> Seq(Items)] /\ g.durable \in Counts /\ g.committed \in Counts
  BY Ordered
<1>3. /\ new \in [Streams -> Seq(Items)]
      /\ Len(new[f]) = Len(g.rows[f]) + 1 /\ new[f][Len(g.rows[f]) + 1] = x
      /\ \A s \in Streams : Len(g.rows[s]) <= Len(new[s])
      /\ \A s \in Streams : \A k \in 1 .. Len(g.rows[s]) : new[s][k] = g.rows[s][k]
  <2>1. g.rows \in [Streams -> Seq(Items)]
    BY <1>2
  <2>2. /\ Added(g.rows, f, x) \in [Streams -> Seq(Items)]
        /\ Len(Added(g.rows, f, x)[f]) = Len(g.rows[f]) + 1
    BY <2>1, Appended
  <2>5. Added(g.rows, f, x)[f][Len(g.rows[f]) + 1] = x
    <3>1. ASSUME NEW rows, rows = g.rows PROVE Added(rows, f, x)[f][Len(rows[f]) + 1] = x
      BY <2>1, <3>1, Appended
    <3> QED BY <3>1
  <2>3. \A s \in Streams : Len(g.rows[s]) <= Len(Added(g.rows, f, x)[s])
    BY <2>1, Appended
  <2>4. \A s \in Streams : \A k \in 1 .. Len(g.rows[s]) : Added(g.rows, f, x)[s][k] = g.rows[s][k]
    <3>1. ASSUME NEW rows, rows = g.rows
          PROVE  \A s \in Streams : \A k \in 1 .. Len(rows[s]) : Added(rows, f, x)[s][k] = rows[s][k]
      <4>1. rows \in [Streams -> Seq(Items)]
        BY <2>1, <3>1
      <4> QED BY <4>1, Appended
    <3> QED BY <3>1
  <2> QED BY <2>2, <2>3, <2>4, <2>5
<1>4. \A s \in Streams : Len(new[s]) \in Nat
  BY <1>3
<1>0. new = Added(g.rows, f, x)
  OBVIOUS
<1> HIDE DEF h, new
<1>5. Covers(new, g.durable)
  <2>1. \A s \in Streams : g.durable[s] <= Len(g.rows[s])
    BY Ordered
  <2>2. Covers(g.rows, g.durable)
    BY DEF Fine, SegmentHolds
  <2> QED BY <1>0, <1>2, <2>1, <2>2, CoversMore
<1>6. Covers(new, g.committed)
  <2>1. \A s \in Streams : g.committed[s] <= Len(g.rows[s])
    BY Ordered
  <2>2. Covers(g.rows, g.committed)
    BY DEF Fine, SegmentHolds
  <2> QED BY <1>0, <1>2, <2>1, <2>2, CoversMore
<1>7. Covers(new, LengthsOf(new))
  <2>1. Covers(g.rows, LengthsOf(g.rows))
    BY DEF Fine, SegmentHolds
  <2> QED BY <1>0, <1>2, <2>1, CoversAll
<1>8. \A s \in Streams : h.committed[s] <= h.durable[s] /\ h.durable[s] <= Len(h.rows[s])
  BY <1>1, <1>3, <1>4, Ordered
<1>9. ~h.closed /\ ~h.gone
  BY <1>1 DEF Fine, SegmentHolds
<1>10. SegmentHolds(h)
  BY <1>1, <1>5, <1>6, <1>7, <1>8, <1>9 DEF SegmentHolds
<1>11. SegmentKept(g, h)
  BY <1>1, Ordered DEF SegmentKept
<1>12. HasRow(h.rows, f, x)
  <2>1. Len(g.rows[f]) + 1 \in 1 .. Len(new[f])
    BY <1>3, <1>4, Ordered
  <2> QED BY <1>1, <1>3, <2>1 DEF HasRow
<1>13. ASSUME NEW s \in Streams, NEW y, HasRow(g.rows, s, y) PROVE HasRow(h.rows, s, y)
  <2>1. PICK k \in 1 .. Len(g.rows[s]) : g.rows[s][k] = y
    BY <1>13 DEF HasRow
  <2>2. k \in 1 .. Len(new[s]) /\ new[s][k] = y
    <3>1. Len(g.rows[s]) <= Len(new[s]) /\ Len(new[s]) \in Nat /\ Len(g.rows[s]) \in Nat
      BY <1>3, <1>4, Ordered
    <3> QED BY <1>3, <2>1, <3>1
  <2> QED BY <1>1, <2>2 DEF HasRow
<1> QED BY <1>1, <1>9, <1>10, <1>11, <1>12, <1>13 DEF Fine, h

LEMMA NewFine ==
    ASSUME NEW previous \in Nat
    PROVE  /\ Fine(NewSegment(previous)) /\ ~NewSegment(previous).closed
           /\ NewSegment(previous).committed = Nothing
<1>1. Empty \in [Streams -> Seq(Items)] /\ Nothing \in Counts /\ LengthsOf(Empty) = Nothing
  <2>1. <<>> \in Seq(Items) /\ Len(<<>>) = 0
    OBVIOUS
  <2>2. \A f \in Streams : Len(Empty[f]) = 0
    BY <2>1 DEF Empty
  <2> QED BY <2>1, <2>2 DEF Empty, Nothing, Counts, LengthsOf
<1> DEFINE g == NewSegment(previous)
<1>2. /\ g.rows = Empty /\ g.durable = Nothing /\ g.committed = Nothing /\ g.closed = FALSE /\ g.gone = FALSE
      /\ g \in SegmentType
  BY <1>1 DEF NewSegment, SegmentType
<1> HIDE DEF g
<1>3. Covers(Empty, Nothing)
  BY NothingCovered
<1>4. \A f \in Streams : Nothing[f] <= Nothing[f] /\ Nothing[f] <= Len(Empty[f])
  <2>1. \A f \in Streams : Nothing[f] = 0 /\ Len(Empty[f]) \in Nat
    BY <1>1 DEF Nothing
  <2> QED BY <2>1
<1>5. SegmentHolds(g)
  BY <1>1, <1>2, <1>3, <1>4 DEF SegmentHolds
<1> QED BY <1>2, <1>5 DEF Fine, g

\* A power cut leaves what was durable.
LEMMA SurvivorFine ==
    ASSUME NEW g, Fine(g) PROVE Fine(Survivor(g)) /\ SegmentKept(g, Survivor(g))
<1> DEFINE kept == [f \in Streams |-> SubSeq(g.rows[f], 1, g.durable[f])]
<1> DEFINE h == Survivor(g)
<1>1. g \in SegmentType
  BY DEF Fine
<1>2. \A f \in Streams : /\ g.rows[f] \in Seq(Items) /\ g.durable[f] \in 0 .. Len(g.rows[f])
                         /\ g.committed[f] \in Nat /\ g.committed[f] <= g.durable[f]
  BY Ordered
<1>3. \A f \in Streams : /\ kept[f] \in Seq(Items) /\ Len(kept[f]) = g.durable[f]
                         /\ \A k \in 1 .. g.durable[f] : kept[f][k] = g.rows[f][k]
  BY <1>2
<1>4. kept \in [Streams -> Seq(Items)]
  BY <1>3
<1>5. /\ h \in SegmentType /\ h.rows = kept /\ h.durable = g.durable /\ h.committed = g.committed
      /\ h.closed = g.closed /\ h.gone = g.gone
  BY <1>1, <1>4 DEF Survivor, SegmentType
<1>6. LengthsOf(kept) = g.durable
  BY <1>3, Ordered DEF LengthsOf, Counts
<1>7. ASSUME NEW n \in Counts, \A f \in Streams : n[f] <= g.durable[f], Covers(g.rows, n)
      PROVE  Covers(kept, n)
  <2>1. "raw" \in Streams /\ "csv" \in Streams /\ "input" \in Streams
    BY DEF Streams
  <2>2. \A f \in Streams : n[f] \in Nat /\ g.durable[f] \in Nat
    BY <1>2 DEF Counts
  <2>3. \A f \in Streams : \A k \in 1 .. n[f] : kept[f][k] = g.rows[f][k]
    BY <1>3, <1>7, <2>2
  <2> HIDE DEF kept
  <2> SUFFICES ASSUME NEW i \in 1 .. n["input"]
               PROVE  /\ \E k \in 1 .. n["csv"] : kept["csv"][k] = kept["input"][i].id
                      /\ \E k \in 1 .. n["raw"] : kept["raw"][k] = kept["input"][i].id
    BY DEF Covers
  <2>4. PICK k \in 1 .. n["csv"] : g.rows["csv"][k] = g.rows["input"][i].id
    BY <1>7 DEF Covers
  <2>5. PICK m \in 1 .. n["raw"] : g.rows["raw"][m] = g.rows["input"][i].id
    BY <1>7 DEF Covers
  <2> QED BY <2>1, <2>3, <2>4, <2>5
<1> HIDE DEF kept, h
<1>8. Covers(kept, g.durable) /\ Covers(kept, g.committed)
  <2>1. Covers(g.rows, g.durable) /\ Covers(g.rows, g.committed)
    BY DEF Fine, SegmentHolds
  <2>2. \A f \in Streams : g.durable[f] <= g.durable[f]
    BY <1>2
  <2> QED BY <1>2, <1>7, <2>1, <2>2, Ordered
<1>9. \A f \in Streams : h.committed[f] <= h.durable[f] /\ h.durable[f] <= Len(h.rows[f])
  BY <1>2, <1>3, <1>5
<1>10. (h.closed => h.committed = h.durable /\ h.durable = LengthsOf(h.rows)) /\ (h.gone => h.closed)
  BY <1>5, <1>6 DEF Fine, SegmentHolds
<1>11. SegmentHolds(h)
  BY <1>5, <1>6, <1>8, <1>9, <1>10 DEF SegmentHolds
<1>12. g.closed => h = g
  <2> SUFFICES ASSUME g.closed PROVE h = g
    OBVIOUS
  <2>1. g.durable = LengthsOf(g.rows)
    BY DEF Fine, SegmentHolds
  <2>2. \A f \in Streams : g.durable[f] = Len(g.rows[f])
    BY <2>1 DEF LengthsOf
  <2>3. \A f \in Streams : kept[f] = g.rows[f]
    BY <1>2, <2>2 DEF kept
  <2>4. kept = g.rows
    BY <1>1, <2>3 DEF kept, SegmentType
  <2>5. h.previous = g.previous
    BY <1>1 DEF h, Survivor, SegmentType
  <2> QED BY <1>1, <1>5, <2>4, <2>5, SameSegment
<1>13. SegmentKept(g, h)
  BY <1>2, <1>5, <1>12 DEF SegmentKept
<1> QED BY <1>5, <1>11, <1>13 DEF Fine, h

-----------------------------------------------------------------------------
(* The operators keep the journal and the recorder sound *)

LEMMA KeptAsIs == ASSUME NEW S, JournalHolds(S) PROVE JournalKept(S, S)
<1>1. ASSUME NEW p \in DOMAIN S PROVE SegmentKept(S[p], S[p])
  <2>1. Fine(S[p])
    BY DEF JournalHolds, Fine
  <2>2. \A f \in Streams : S[p].committed[f] \in Nat
    BY <2>1, Ordered
  <2> QED BY <2>2 DEF SegmentKept
<1> QED BY <1>1 DEF JournalKept

LEMMA KeptOn ==
    ASSUME NEW S, NEW T, NEW U, JournalHolds(S), JournalHolds(T), JournalHolds(U),
           JournalKept(S, T), JournalKept(T, U)
    PROVE  JournalKept(S, U)
<1>1. ASSUME NEW p \in DOMAIN S PROVE p \in DOMAIN U /\ SegmentKept(S[p], U[p])
  <2>1. p \in DOMAIN T /\ p \in DOMAIN U /\ SegmentKept(S[p], T[p]) /\ SegmentKept(T[p], U[p])
    BY DEF JournalKept
  <2>2. Fine(S[p]) /\ Fine(T[p]) /\ Fine(U[p])
    BY <2>1 DEF JournalHolds, Fine
  <2>3. \A f \in Streams : S[p].committed[f] \in Nat /\ T[p].committed[f] \in Nat /\ U[p].committed[f] \in Nat
    BY <2>2, Ordered
  <2>4. \A f \in Streams : S[p].committed[f] <= U[p].committed[f]
    BY <2>1, <2>3 DEF SegmentKept
  <2>5. S[p].closed => U[p] = S[p]
    BY <2>1 DEF SegmentKept
  <2> QED BY <2>1, <2>4, <2>5 DEF SegmentKept
<1> QED BY <1>1 DEF JournalKept

\* One segment becomes another.
LEMMA Replaced ==
    ASSUME NEW S, JournalHolds(S), NEW K \in DOMAIN S, NEW h, Fine(h), SegmentKept(S[K], h)
    PROVE  /\ JournalHolds([S EXCEPT ![K] = h]) /\ JournalKept(S, [S EXCEPT ![K] = h])
           /\ DOMAIN [S EXCEPT ![K] = h] = DOMAIN S /\ [S EXCEPT ![K] = h][K] = h
<1> DEFINE T == [S EXCEPT ![K] = h]
<1>1. S \in [DOMAIN S -> SegmentType] /\ h \in SegmentType
  BY DEF JournalHolds, Fine
<1>2. T \in [DOMAIN S -> SegmentType] /\ T[K] = h /\ (\A p \in DOMAIN S : p # K => T[p] = S[p])
  BY <1>1
<1> HIDE DEF T
<1>3. DOMAIN T = DOMAIN S
  BY <1>2
<1>4. ASSUME NEW p \in DOMAIN S PROVE SegmentHolds(T[p]) /\ SegmentKept(S[p], T[p])
  <2>1. CASE p = K
    BY <1>2, <2>1 DEF Fine
  <2>2. CASE p # K
    BY <1>2, <2>2, KeptAsIs DEF JournalHolds, JournalKept
  <2> QED BY <2>1, <2>2
<1>5. JournalHolds(T) /\ JournalKept(S, T)
  BY <1>2, <1>3, <1>4 DEF JournalHolds, JournalKept
<1> QED BY <1>2, <1>3, <1>5 DEF T

\* A recorder's fields after a change.
LEMMA ShutFields ==
    ASSUME NEW r \in RecorderType
    PROVE  /\ Shut(r) \in RecorderType /\ ~Shut(r).open
           /\ Shut(r).session = r.session /\ Shut(r).segment = r.segment
           /\ Shut(r).committed = r.committed /\ Shut(r).logging = r.logging
BY DEF Shut, RecorderType

LEMMA KnowsFields ==
    ASSUME NEW r \in RecorderType, NEW n \in Counts
    PROVE  /\ Knows(r, n) \in RecorderType /\ Knows(r, n).open = r.open
           /\ Knows(r, n).session = r.session /\ Knows(r, n).segment = r.segment
           /\ Knows(r, n).committed = n /\ Knows(r, n).logging = r.logging
BY DEF Knows, RecorderType

LEMMA NumberedFields ==
    ASSUME NEW r \in RecorderType
    PROVE  /\ Numbered(r) \in RecorderType /\ Numbered(r).open = r.open
           /\ Numbered(r).session = r.session /\ Numbered(r).segment = r.segment + 1
           /\ Numbered(r).committed = Nothing /\ Numbered(r).logging = r.logging
<1>1. Nothing \in Counts
  BY DEF Nothing, Counts
<1> DEFINE m == [r EXCEPT !.segment = r.segment + 1]
<1>2. /\ m \in RecorderType /\ m.open = r.open /\ m.session = r.session
      /\ m.segment = r.segment + 1 /\ m.logging = r.logging
  <2> DEFINE n == r.segment + 1
  <2>1. n \in Nat
    BY DEF RecorderType
  <2> HIDE DEF n
  <2>2. /\ [r EXCEPT !.segment = n] \in RecorderType
        /\ [r EXCEPT !.segment = n].open = r.open /\ [r EXCEPT !.segment = n].session = r.session
        /\ [r EXCEPT !.segment = n].segment = n /\ [r EXCEPT !.segment = n].logging = r.logging
    BY <2>1 DEF RecorderType
  <2> QED BY <2>2 DEF n
<1>3. Numbered(r) = [m EXCEPT !.committed = Nothing]
  BY DEF Numbered
<1> HIDE DEF m
<1> QED BY <1>1, <1>2, <1>3 DEF RecorderType

LEMMA OpeningFields ==
    ASSUME NEW r \in RecorderType
    PROVE  /\ Opening(r) \in RecorderType /\ Opening(r).open
           /\ Opening(r).session = r.session /\ Opening(r).segment = r.segment
           /\ Opening(r).committed = r.committed
BY DEF Opening, RecorderType

LEMMA StateIs ==
    ASSUME NEW st, NEW S, NEW l, NEW r, st = State(S, l, r)
    PROVE  st.j.segments = S /\ st.j.last = l /\ st.r = r
BY DEF State

LEMMA HoldsBy ==
    ASSUME NEW st, NEW S, NEW l \in Nat, NEW r \in RecorderType, st = State(S, l, r),
           JournalHolds(S), RecorderHolds(S, r)
    PROVE  StateHolds(st) /\ st.j.segments = S /\ st.r = r
BY StateIs DEF StateHolds

\* What every operator is given and gives back.
Key(r) == <<r.session, r.segment>>

LEMMA Given ==
    ASSUME NEW st, StateHolds(st), NEW S, S = st.j.segments, NEW r, r = st.r
    PROVE  /\ st = State(S, st.j.last, r) /\ st.j.last \in Nat /\ r \in RecorderType
           /\ JournalHolds(S) /\ RecorderHolds(S, r)
BY DEF StateHolds

LEMMA Own ==
    ASSUME NEW S, NEW r, JournalHolds(S), RecorderHolds(S, r), r.open
    PROVE  Key(r) \in DOMAIN S /\ Fine(S[Key(r)]) /\ ~S[Key(r)].closed /\ S[Key(r)].committed = r.committed
<1>1. Key(r) \in DOMAIN S /\ ~S[Key(r)].closed /\ S[Key(r)].committed = r.committed
  BY DEF RecorderHolds, Key
<1> QED BY <1>1 DEF JournalHolds, Fine

LEMMA FailHolds ==
    ASSUME NEW st, StateHolds(st)
    PROVE  /\ Follows(st, Fail(st)) /\ ~Fail(st).r.open
           /\ Fail(st).j = st.j
           /\ Fail(st).r.session = st.r.session /\ Fail(st).r.segment = st.r.segment
<1> DEFINE S == st.j.segments
<1> DEFINE r == st.r
<1>1. /\ st = State(S, st.j.last, r) /\ st.j.last \in Nat /\ r \in RecorderType
      /\ JournalHolds(S) /\ RecorderHolds(S, r)
  BY DEF StateHolds
<1>2. Fail(st) = State(S, st.j.last, Shut(r))
  BY <1>1, FailIs
<1>3. /\ Shut(r) \in RecorderType /\ ~Shut(r).open /\ Shut(r).session = r.session /\ Shut(r).segment = r.segment
  BY <1>1, ShutFields
<1>4. RecorderHolds(S, Shut(r))
  BY <1>1, <1>3 DEF RecorderHolds
<1>5. StateHolds(Fail(st)) /\ Fail(st).j.segments = S /\ Fail(st).r = Shut(r)
  BY <1>1, <1>2, <1>3, <1>4, HoldsBy
<1>6. JournalKept(S, S)
  BY <1>1, KeptAsIs
<1>7. Fail(st).j = st.j
  BY <1>1, <1>2 DEF State
<1> QED BY <1>3, <1>5, <1>6, <1>7 DEF Follows

\* With the segment open, a change of it that a reader may see.
LEMMA ChangeHolds ==
    ASSUME NEW st, StateHolds(st), st.r.open, NEW h, Fine(h), SegmentKept(st.j.segments[Key(st.r)], h),
           NEW q \in RecorderType, q.session = st.r.session, q.segment = st.r.segment,
           q.open => ~h.closed /\ h.committed = q.committed,
           NEW next, next = State([st.j.segments EXCEPT ![Key(st.r)] = h], st.j.last, q)
    PROVE  /\ Follows(st, next) /\ next.r = q
           /\ next.j.segments = [st.j.segments EXCEPT ![Key(st.r)] = h]
           /\ next.j.segments[Key(st.r)] = h /\ Key(q) = Key(st.r)
<1> DEFINE S == st.j.segments
<1> DEFINE r == st.r
<1> DEFINE T == [S EXCEPT ![Key(r)] = h]
<1>1. /\ st.j.last \in Nat /\ r \in RecorderType /\ JournalHolds(S) /\ RecorderHolds(S, r)
  BY DEF StateHolds
<1>2. Key(r) \in DOMAIN S
  BY <1>1, Own
<1>3. JournalHolds(T) /\ JournalKept(S, T) /\ DOMAIN T = DOMAIN S /\ T[Key(r)] = h
  BY <1>1, <1>2, Replaced
<1>4. Key(q) = Key(r) /\ <<q.session, q.segment>> = Key(r)
  BY DEF Key
<1> HIDE DEF T, S
<1>5. RecorderHolds(T, q)
  BY <1>1, <1>2, <1>3, <1>4 DEF RecorderHolds
<1>6. next = State(T, st.j.last, q)
  BY DEF T, S
<1>7. StateHolds(next) /\ next.j.segments = T /\ next.r = q
  BY <1>1, <1>3, <1>5, <1>6, HoldsBy
<1> QED BY <1>3, <1>4, <1>7 DEF Follows, T, S
LEMMA FollowsOn ==
    ASSUME NEW a, NEW b, NEW c, StateHolds(a), Follows(a, b), Follows(b, c)
    PROVE  Follows(a, c)
BY KeptOn DEF Follows, StateHolds

LEMMA FollowsAsIs == ASSUME NEW st, StateHolds(st) PROVE Follows(st, st)
BY KeptAsIs DEF Follows, StateHolds

\* What no operator changes but _open() and a new session.
Same(st, next) == /\ next.r.session = st.r.session /\ next.r.segment = st.r.segment
                  /\ next.r.logging = st.r.logging
                  /\ DOMAIN next.j.segments = DOMAIN st.j.segments

LEMMA FailSame == ASSUME NEW st, StateHolds(st) PROVE Same(st, Fail(st))
<1>1. st = State(st.j.segments, st.j.last, st.r) /\ st.r \in RecorderType
  BY DEF StateHolds
<1>2. Fail(st) = State(st.j.segments, st.j.last, Shut(st.r))
  BY <1>1, FailIs
<1>3. Fail(st).j.segments = st.j.segments /\ Fail(st).r = Shut(st.r)
  BY <1>2, StateIs
<1> QED BY <1>1, <1>3, ShutFields DEF Same

LEMMA FsyncedHolds ==
    ASSUME NEW st, StateHolds(st), st.r.open
    PROVE  Follows(st, Fsynced(st)) /\ Same(st, Fsynced(st))
<1> DEFINE S == st.j.segments
<1> DEFINE r == st.r
<1> DEFINE K == Key(r)
<1> DEFINE h == Durably(S[K])
<1> DEFINE next == Fsynced(st)
<1>1. st = State(S, st.j.last, r) /\ r \in RecorderType /\ JournalHolds(S) /\ RecorderHolds(S, r)
  BY DEF StateHolds
<1>2. K \in DOMAIN S /\ Fine(S[K]) /\ ~S[K].closed /\ S[K].committed = r.committed
  BY <1>1, Own
<1>3. Fine(h) /\ SegmentKept(S[K], h) /\ ~h.closed
  BY <1>2, DurablyFine
<1>4. h.committed = r.committed
  BY <1>2, DurablyFields DEF Fine
<1>5. next = State([S EXCEPT ![K] = h], st.j.last, r)
  BY <1>1, FsyncedIs DEF Key
<1> HIDE DEF h, next
<1>6. Follows(st, next) /\ next.r = r /\ next.j.segments = [S EXCEPT ![K] = h]
  BY <1>1, <1>3, <1>4, <1>5, ChangeHolds
<1> QED BY <1>6 DEF Same, next

\* The manifest after the flush, with the segment open or as its last.
LEMMA PublishedNowHolds ==
    ASSUME NEW st, StateHolds(st), st.r.open, NEW c \in BOOLEAN,
           NEW next, next = Published(Committing(Fsynced(st)), c)
    PROVE  /\ ~c => Follows(st, next)
           /\ Follows(st, Fail(next)) /\ Same(st, Fail(next)) /\ ~Fail(next).r.open
<1> DEFINE S == st.j.segments
<1> DEFINE r == st.r
<1> DEFINE l == st.j.last
<1> DEFINE K == Key(r)
<1> DEFINE n == LengthsOf(S[K].rows)
<1> DEFINE h == Manifest(Durably(S[K]), n, c)
<1> DEFINE q == Knows(r, n)
<1> DEFINE T == [S EXCEPT ![K] = h]
<1>1. st = State(S, l, r) /\ l \in Nat /\ r \in RecorderType /\ JournalHolds(S) /\ RecorderHolds(S, r)
  BY DEF StateHolds
<1>2. K \in DOMAIN S /\ Fine(S[K]) /\ ~S[K].closed /\ S[K].committed = r.committed
  BY <1>1, Own
<1>3. Fine(h) /\ SegmentKept(S[K], h) /\ h.closed = c /\ h.committed = n
  BY <1>2, ManifestFine
<1>4. n \in Counts
  <2>1. S[K].rows \in [Streams -> Seq(Items)]
    BY <1>2, Ordered
  <2> QED BY <2>1, LengthTypes
<1>5. /\ q \in RecorderType /\ q.open = r.open /\ q.session = r.session /\ q.segment = r.segment
      /\ q.committed = n /\ q.logging = r.logging
  BY <1>1, <1>4, KnowsFields
<1>6. next = State(T, l, q)
  <2>1. Durably(S[K]).rows = S[K].rows
    BY <1>2, DurablyFields DEF Fine
  <2>2. S \in [DOMAIN S -> SegmentType]
    BY <1>1 DEF JournalHolds
  <2> QED BY SMTT(20), <1>1, <1>2, <2>1, <2>2, PublishedNowIs DEF Key
<1>7. Fail(next) = State(T, l, Shut(q))
  <2> HIDE DEF T, q
  <2> QED BY <1>6, FailIs
<1>8. /\ Shut(q) \in RecorderType /\ ~Shut(q).open /\ Shut(q).session = r.session
      /\ Shut(q).segment = r.segment /\ Shut(q).logging = r.logging
  BY <1>5, ShutFields
<1>9. ASSUME ~c PROVE Follows(st, next)
  <2>1. q.open => ~h.closed /\ h.committed = q.committed
    BY <1>3, <1>5, <1>9
  <2> HIDE DEF h, q
  <2> QED BY <1>3, <1>5, <1>6, <2>1, ChangeHolds
<1>10. Follows(st, Fail(next)) /\ Fail(next).r = Shut(q) /\ Fail(next).j.segments = T
  <2> DEFINE z == Shut(q)
  <2>1. z.open => ~h.closed /\ h.committed = z.committed
    BY <1>8
  <2>2. z \in RecorderType /\ z.session = r.session /\ z.segment = r.segment
    BY <1>8
  <2>3. Fail(next) = State([S EXCEPT ![K] = h], l, z)
    BY <1>7
  <2> HIDE DEF h, z
  <2>4. Fine(h) /\ SegmentKept(st.j.segments[Key(st.r)], h) /\ z.session = st.r.session /\ z.segment = st.r.segment
    BY <1>3, <2>2
  <2>5. Fail(next) = State([st.j.segments EXCEPT ![Key(st.r)] = h], st.j.last, z)
    BY <2>3
  <2>6. Follows(st, Fail(next)) /\ Fail(next).r = z /\ Fail(next).j.segments = [st.j.segments EXCEPT ![Key(st.r)] = h]
    <3> HIDE DEF S, r, l, K, n, q, T
    <3> QED BY <2>1, <2>2, <2>4, <2>5, ChangeHolds
  <2> QED BY <2>6 DEF z
<1>11. DOMAIN T = DOMAIN S
  OBVIOUS
<1> HIDE DEF T, q
<1> QED BY <1>8, <1>9, <1>10, <1>11 DEF Same

LEMMA SyncedHolds ==
    ASSUME NEW st, StateHolds(st), st.r.open, NEW outcome \in {"ok", "fsync", "manifest", "directory"}
    PROVE  Follows(st, Synced(st, outcome))
<1>1. CASE outcome = "ok"
  BY <1>1, PublishedNowHolds DEF Synced
<1>2. CASE outcome = "fsync"
  BY <1>2, FailHolds DEF Synced
<1>3. CASE outcome = "manifest"
  <2>1. Follows(st, Fsynced(st))
    BY FsyncedHolds
  <2>2. Follows(Fsynced(st), Fail(Fsynced(st)))
    BY <2>1, FailHolds DEF Follows
  <2>3. Follows(st, Fail(Fsynced(st)))
    BY <2>1, <2>2, FollowsOn
  <2> QED BY <1>3, <2>3 DEF Synced
<1>4. CASE outcome = "directory"
  BY <1>4, PublishedNowHolds DEF Synced
<1> QED BY <1>1, <1>2, <1>3, <1>4

LEMMA ClosedHolds ==
    ASSUME NEW st, StateHolds(st), NEW outcome \in CloseOutcomes
    PROVE  /\ Follows(st, Closed(st, outcome)) /\ Same(st, Closed(st, outcome))
           /\ ~Closed(st, outcome).r.open
<1>1. CASE ~st.r.open
  <2>1. Closed(st, outcome) = st
    BY <1>1 DEF Closed
  <2> QED BY <1>1, <2>1, FollowsAsIs DEF Same
<1>2. CASE st.r.open /\ outcome = "ok"
  <2>1. Closed(st, outcome) = Fail(Published(Committing(Fsynced(st)), TRUE))
    BY <1>2 DEF Closed
  <2> QED BY <1>2, <2>1, PublishedNowHolds
<1>3. CASE st.r.open /\ outcome = "fsync"
  <2>1. Closed(st, outcome) = Fail(st)
    BY <1>3 DEF Closed
  <2> QED BY <2>1, FailHolds, FailSame
<1>4. CASE st.r.open /\ outcome = "manifest"
  <2>1. Closed(st, outcome) = Fail(Fsynced(st))
    BY <1>4 DEF Closed
  <2>2. Follows(st, Fsynced(st)) /\ Same(st, Fsynced(st))
    BY <1>4, FsyncedHolds
  <2>3. StateHolds(Fsynced(st))
    BY <2>2 DEF Follows
  <2>4. Follows(Fsynced(st), Fail(Fsynced(st))) /\ Same(Fsynced(st), Fail(Fsynced(st)))
        /\ ~Fail(Fsynced(st)).r.open
    BY <2>3, FailHolds, FailSame
  <2>5. Follows(st, Fail(Fsynced(st)))
    BY <2>2, <2>4, FollowsOn
  <2>6. Same(st, Fail(Fsynced(st)))
    BY <2>2, <2>4 DEF Same
  <2> QED BY <2>1, <2>4, <2>5, <2>6
<1> QED BY <1>1, <1>2, <1>3, <1>4 DEF CloseOutcomes

\* A segment with a manifest of its own, in a place that is free.
LEMMA WithSegmentHolds ==
    ASSUME NEW S, JournalHolds(S), NEW K \in Nat \X Nat, K \notin DOMAIN S, NEW g, Fine(g)
    PROVE  /\ JournalHolds(WithSegment(S, K, g)) /\ JournalKept(S, WithSegment(S, K, g))
           /\ DOMAIN WithSegment(S, K, g) = DOMAIN S \cup {K} /\ WithSegment(S, K, g)[K] = g
<1> DEFINE T == WithSegment(S, K, g)
<1>1. DOMAIN T = DOMAIN S \cup {K} /\ T[K] = g /\ \A p \in DOMAIN S : T[p] = S[p]
  BY DEF WithSegment
<1>2. T = [p \in DOMAIN T |-> T[p]]
  BY DEF WithSegment
<1> HIDE DEF T
<1>3. \A p \in DOMAIN T : T[p] \in SegmentType /\ SegmentHolds(T[p])
  BY <1>1 DEF JournalHolds, Fine
<1>4. T \in [DOMAIN T -> SegmentType] /\ DOMAIN T \subseteq Nat \X Nat
  BY <1>1, <1>2, <1>3 DEF JournalHolds
<1>5. JournalKept(S, S)
  BY KeptAsIs
<1>6. JournalKept(S, T)
  BY <1>1, <1>5 DEF JournalKept
<1> QED BY <1>1, <1>3, <1>4, <1>6 DEF JournalHolds, T

LEMMA OpenedHolds ==
    ASSUME NEW st, StateHolds(st), ~st.r.open, NEW outcome \in OpenOutcomes
    PROVE  Follows(st, Opened(st, outcome))
<1> DEFINE S == st.j.segments
<1> DEFINE r == st.r
<1> DEFINE l == st.j.last
<1> DEFINE K == <<r.session, r.segment + 1>>
<1> DEFINE q == Numbered(r)
<1> DEFINE g == NewSegment(r.previous)
<1> DEFINE T == WithSegment(S, K, g)
<1>1. st = State(S, l, r) /\ l \in Nat /\ r \in RecorderType /\ JournalHolds(S) /\ RecorderHolds(S, r)
  BY DEF StateHolds
<1>2. r.session \in Nat /\ r.segment \in Nat /\ r.previous \in Nat
  BY <1>1 DEF RecorderType
<1>3. /\ q \in RecorderType /\ ~q.open /\ q.session = r.session /\ q.segment = r.segment + 1
      /\ q.committed = Nothing
  BY <1>1, NumberedFields
<1>4. Fine(g) /\ ~g.closed /\ g.committed = Nothing
  BY <1>2, NewFine
<1>5. DOMAIN S \subseteq Nat \X Nat /\ \A p \in DOMAIN S : p[1] = r.session => p[2] <= r.segment
  BY <1>1 DEF JournalHolds, RecorderHolds
<1>6. K \in Nat \X Nat /\ K \notin DOMAIN S
  <2>1. K[1] = r.session /\ K[2] = r.segment + 1 /\ K \in Nat \X Nat
    BY <1>2
  <2>2. ~(r.segment + 1 <= r.segment)
    BY <1>2
  <2> QED BY <1>5, <2>1, <2>2
<1>7. /\ JournalHolds(T) /\ JournalKept(S, T)
      /\ DOMAIN T = DOMAIN S \cup {K} /\ T[K] = g
  BY <1>1, <1>4, <1>6, WithSegmentHolds
<1>8. /\ Opened(st, "space") = st /\ Opened(st, "files") = State(S, l, q)
      /\ Opened(st, "marker") = State(T, l, q) /\ Opened(st, "ok") = State(T, r.session, Opening(q))
  BY <1>1, OpenedIs
<1>9. \A p \in DOMAIN T : p[1] = r.session => p[2] <= r.segment + 1
  <2> SUFFICES ASSUME NEW p \in DOMAIN T, p[1] = r.session PROVE p[2] <= r.segment + 1
    OBVIOUS
  <2>1. CASE p = K
    BY <1>2, <2>1
  <2>2. CASE p \in DOMAIN S
    <3>1. p[2] <= r.segment /\ p[2] \in Nat
      BY <1>5, <2>2
    <3> QED BY <1>2, <3>1
  <2> QED BY <1>7, <2>1, <2>2
<1>10. JournalKept(S, S)
  BY <1>1, KeptAsIs
<1>11. DOMAIN S \subseteq DOMAIN T
  BY <1>7
<1> HIDE DEF T, q, g
<1>12. RecorderHolds(T, q) /\ RecorderHolds(S, q)
  BY <1>3, <1>9, <1>11 DEF RecorderHolds
<1>13. CASE outcome = "space"
  BY <1>8, <1>13, FollowsAsIs
<1>14. CASE outcome = "files"
  <2>1. StateHolds(Opened(st, "files")) /\ Opened(st, "files").j.segments = S
    BY <1>1, <1>3, <1>8, <1>12, HoldsBy
  <2> QED BY <1>10, <1>14, <2>1 DEF Follows
<1>15. CASE outcome = "marker"
  <2>2. Opened(st, "marker") = State(T, l, q) /\ JournalHolds(T) /\ RecorderHolds(T, q)
    BY <1>7, <1>8, <1>12
  <2>3. l \in Nat /\ q \in RecorderType
    BY <1>1, <1>3
  <2>1. StateHolds(Opened(st, "marker")) /\ Opened(st, "marker").j.segments = T
    BY <2>2, <2>3, HoldsBy
  <2> QED BY <1>7, <1>15, <2>1 DEF Follows
<1>16. CASE outcome = "ok"
  <2> DEFINE z == Opening(q)
  <2>1. /\ z \in RecorderType /\ z.open /\ z.session = r.session /\ z.segment = r.segment + 1
        /\ z.committed = Nothing
    BY <1>3, OpeningFields
  <2>2. Opened(st, "ok") = State(T, r.session, z)
    BY <1>8
  <2> HIDE DEF z
  <2>3. <<z.session, z.segment>> = K
    BY <2>1
  <2>4. <<z.session, z.segment>> \in DOMAIN T
    BY <1>7, <2>3
  <2>5. ~T[<<z.session, z.segment>>].closed /\ T[<<z.session, z.segment>>].committed = z.committed
    BY <1>4, <1>7, <2>1, <2>3
  <2>6. RecorderHolds(T, z)
    BY <1>9, <2>1, <2>4, <2>5 DEF RecorderHolds
  <2>7. StateHolds(Opened(st, "ok")) /\ Opened(st, "ok").j.segments = T
    BY <1>2, <1>7, <2>1, <2>2, <2>6, HoldsBy
  <2> QED BY <1>7, <1>16, <2>7 DEF Follows
<1> QED BY <1>13, <1>14, <1>15, <1>16 DEF OpenOutcomes

\* A recorder for a session no segment has.
Anew(r, name, previous) ==
    [[[r EXCEPT !.session = name] EXCEPT !.segment = 0] EXCEPT !.previous = previous]

Afresh(st, name) == [st EXCEPT !.r.session = name, !.r.segment = 0, !.r.previous = st.j.last]

LEMMA AnewHolds ==
    ASSUME NEW closed, NEW S, NEW l \in Nat, NEW r \in RecorderType, closed = State(S, l, r),
           JournalHolds(S), ~r.open, NEW name \in Nat, \A p \in DOMAIN S : p[1] # name
    PROVE  /\ StateHolds(Afresh(closed, name)) /\ Afresh(closed, name).j.segments = S
           /\ ~Afresh(closed, name).r.open
<1> DEFINE fresh == Afresh(closed, name)
<1> DEFINE q == Anew(r, name, l)
<1>1. fresh = State(S, l, q)
  <2> DEFINE a == [closed EXCEPT !.r.session = name]
  <2> DEFINE b == [a EXCEPT !.r.segment = 0]
  <2>1. fresh = [b EXCEPT !.r.previous = l]
    <3>1. closed.j.last = l
      BY StateIs
    <3> QED BY <3>1 DEF Afresh
  <2>2. a = State(S, l, [r EXCEPT !.session = name])
    BY DEF State
  <2> HIDE DEF a
  <2>3. b = State(S, l, [[r EXCEPT !.session = name] EXCEPT !.segment = 0])
    BY <2>2 DEF State
  <2> HIDE DEF b
  <2>4. [b EXCEPT !.r.previous = l] = State(S, l, q)
    BY <2>3 DEF State, Anew
  <2> QED BY <2>1, <2>4
<1>2. q \in RecorderType /\ q.session = name /\ q.segment = 0 /\ ~q.open
  <2> DEFINE a == [r EXCEPT !.session = name]
  <2> DEFINE b == [a EXCEPT !.segment = 0]
  <2>1. a \in RecorderType /\ a.session = name /\ ~a.open
    BY DEF RecorderType
  <2>2. q = [b EXCEPT !.previous = l]
    BY DEF Anew
  <2> HIDE DEF a
  <2>3. b \in RecorderType /\ b.session = name /\ b.segment = 0 /\ ~b.open
    BY <2>1 DEF RecorderType
  <2> HIDE DEF b
  <2>4. [b EXCEPT !.previous = l] \in RecorderType /\ [b EXCEPT !.previous = l].session = name
        /\ [b EXCEPT !.previous = l].segment = 0 /\ ~[b EXCEPT !.previous = l].open
    BY <2>3 DEF RecorderType
  <2> QED BY <2>2, <2>4
<1> HIDE DEF q, fresh
<1>3. RecorderHolds(S, q)
  BY <1>2 DEF RecorderHolds
<1>4. StateHolds(fresh) /\ fresh.j.segments = S /\ fresh.r = q
  BY <1>1, <1>2, <1>3, HoldsBy
<1> QED BY <1>2, <1>4 DEF fresh

\* A new session, on a journal where no segment has its name.
LEMMA StartedHolds ==
    ASSUME NEW st, NEW name \in Nat, NEW closing \in CloseOutcomes, NEW opening \in OpenOutcomes,
           NEW S, NEW l \in Nat, NEW r \in RecorderType, Closed(st, closing) = State(S, l, r),
           JournalHolds(S), ~r.open, \A p \in DOMAIN S : p[1] # name
    PROVE  StateHolds(Started(st, name, closing, opening))
           /\ JournalKept(S, Started(st, name, closing, opening).j.segments)
<1> DEFINE closed == Closed(st, closing)
<1> DEFINE fresh == Afresh(closed, name)
<1>1. Started(st, name, closing, opening) = IF st.r.logging THEN Opened(fresh, opening) ELSE fresh
  BY DEF Started, Afresh
<1>2. closed = State(S, l, r)
  OBVIOUS
<1> HIDE DEF closed
<1>3. StateHolds(fresh) /\ fresh.j.segments = S /\ ~fresh.r.open
  BY <1>2, AnewHolds
<1> HIDE DEF fresh
<1>4. Follows(fresh, Opened(fresh, opening))
  BY <1>3, OpenedHolds
<1>5. Follows(fresh, fresh)
  BY <1>3, FollowsAsIs
<1> QED BY <1>1, <1>3, <1>4, <1>5 DEF Follows

-----------------------------------------------------------------------------
(* A capture line *)

RowsOf(st) == st.j.segments[Key(st.r)].rows

\* What a segment's rows held they still hold.
KeepsRows(st, next) ==
    \A f \in Streams : \A x : HasRow(RowsOf(st), f, x) => HasRow(RowsOf(next), f, x)

LEMMA RowHolds ==
    ASSUME NEW st, StateHolds(st), st.r.open, NEW f \in Streams, NEW x \in Items,
           f = "input" => HasRow(RowsOf(st), "csv", x.id) /\ HasRow(RowsOf(st), "raw", x.id)
    PROVE  /\ Follows(st, Row(st, f, x)) /\ Row(st, f, x).r = st.r
           /\ HasRow(RowsOf(Row(st, f, x)), f, x) /\ KeepsRows(st, Row(st, f, x))
<1> DEFINE S == st.j.segments
<1> DEFINE r == st.r
<1> DEFINE K == Key(r)
<1> DEFINE h == Filled(S[K], f, x)
<1> DEFINE next == Row(st, f, x)
<1>1. st = State(S, st.j.last, r) /\ r \in RecorderType /\ JournalHolds(S) /\ RecorderHolds(S, r)
  BY DEF StateHolds
<1>2. K \in DOMAIN S /\ Fine(S[K]) /\ ~S[K].closed /\ S[K].committed = r.committed
  BY <1>1, Own
<1>3. f = "input" => HasRow(S[K].rows, "csv", x.id) /\ HasRow(S[K].rows, "raw", x.id)
  BY DEF RowsOf
<1>4. /\ Fine(h) /\ SegmentKept(S[K], h) /\ ~h.closed
      /\ HasRow(h.rows, f, x)
      /\ \A s \in Streams : \A y : HasRow(S[K].rows, s, y) => HasRow(h.rows, s, y)
  BY <1>2, <1>3, FilledFine
<1>5. h.committed = r.committed
  BY <1>2, FilledFields DEF Fine
<1>6. next = State([S EXCEPT ![K] = h], st.j.last, r)
  <2>1. st = State(S, st.j.last, r) /\ Here(st) = K
    BY <1>1, HereIs DEF Key
  <2> DEFINE l == st.j.last
  <2> HIDE DEF S, r, K, l, h
  <2>2. st = State(S, l, r) /\ h = Filled(S[K], f, x)
    BY <2>1 DEF l, h
  <2>3. next = [st EXCEPT !.j.segments[K].rows[f] = Append(S[K].rows[f], x)]
    BY <2>1, <2>2 DEF Row, State
  <2>4. next = State([S EXCEPT ![K] = h], l, r)
    BY <2>2, <2>3 DEF State, Filled, Added
  <2> QED BY <2>4 DEF l
<1> HIDE DEF h, next
<1>7. /\ Follows(st, next) /\ next.r = r /\ next.j.segments[K] = h
  BY <1>1, <1>4, <1>5, <1>6, ChangeHolds
<1>8. RowsOf(next) = h.rows /\ RowsOf(st) = S[K].rows
  BY <1>7 DEF RowsOf
<1> QED BY <1>4, <1>7, <1>8 DEF KeepsRows, next

\* One write(): the row is there if the segment can take another.
LEMMA WriteHolds ==
    ASSUME NEW st, StateHolds(st), NEW f \in Streams, NEW x \in Items,
           NEW outcome \in {"ok", "error", "limit"},
           f = "input" /\ Active(st) => HasRow(RowsOf(st), "csv", x.id) /\ HasRow(RowsOf(st), "raw", x.id),
           NEW next, next = Write(st, f, x, outcome)
    PROVE  /\ Follows(st, next) /\ next.r.session = st.r.session
           /\ Active(next) => Active(st) /\ HasRow(RowsOf(next), f, x) /\ KeepsRows(st, next)
<1>1. CASE ~Active(st)
  <2>1. next = st
    BY <1>1 DEF Write
  <2> QED BY <1>1, <2>1, FollowsAsIs
<1>2. CASE Active(st) /\ outcome = "ok"
  <2>1. next = Row(st, f, x)
    BY <1>2 DEF Write
  <2>2. st.r.open
    BY <1>2 DEF Active
  <2> QED BY <1>2, <2>1, <2>2, RowHolds
<1>3. CASE Active(st) /\ outcome = "error"
  <2>1. next = Fail(st)
    BY <1>3 DEF Write
  <2> QED BY <2>1, FailHolds DEF Active
<1>4. CASE Active(st) /\ outcome = "limit"
  <2>1. next = Closed(st, "ok")
    BY <1>4 DEF Write
  <2>2. "ok" \in CloseOutcomes
    BY DEF CloseOutcomes
  <2> QED BY <2>1, <2>2, ClosedHolds DEF Active, Same
<1> QED BY <1>1, <1>2, <1>3, <1>4

Counted(r, counter) == [r EXCEPT ![counter] = r[counter] + 1]

LEMMA CountedFields ==
    ASSUME NEW r \in RecorderType, NEW counter \in {"storage_lost", "input_lost"}
    PROVE  /\ Counted(r, counter) \in RecorderType /\ Counted(r, counter).open = r.open
           /\ Counted(r, counter).session = r.session /\ Counted(r, counter).segment = r.segment
           /\ Counted(r, counter).committed = r.committed /\ Counted(r, counter).logging = r.logging
<1>1. CASE counter = "storage_lost"
  <2> DEFINE n == r.storage_lost + 1
  <2>1. n \in Nat
    BY DEF RecorderType
  <2>2. Counted(r, counter) = [r EXCEPT !.storage_lost = n]
    BY <1>1 DEF Counted
  <2> HIDE DEF n
  <2> QED BY <2>1, <2>2 DEF RecorderType
<1>2. CASE counter = "input_lost"
  <2> DEFINE n == r.input_lost + 1
  <2>1. n \in Nat
    BY DEF RecorderType
  <2>2. Counted(r, counter) = [r EXCEPT !.input_lost = n]
    BY <1>2 DEF Counted
  <2> HIDE DEF n
  <2> QED BY <2>1, <2>2 DEF RecorderType
<1> QED BY <1>1, <1>2

LEMMA CountHolds ==
    ASSUME NEW st, StateHolds(st), NEW counter \in {"storage_lost", "input_lost"},
           NEW next, next = Count(st, counter)
    PROVE  /\ Follows(st, next) /\ RowsOf(next) = RowsOf(st)
           /\ next.r.session = st.r.session /\ next.r.open = st.r.open /\ next.r.logging = st.r.logging
<1> DEFINE S == st.j.segments
<1> DEFINE r == st.r
<1> DEFINE q == Counted(r, counter)
<1>1. st = State(S, st.j.last, r) /\ st.j.last \in Nat /\ r \in RecorderType
      /\ JournalHolds(S) /\ RecorderHolds(S, r)
  BY DEF StateHolds
<1>2. /\ q \in RecorderType /\ q.open = r.open /\ q.session = r.session /\ q.segment = r.segment
      /\ q.committed = r.committed /\ q.logging = r.logging
  BY <1>1, CountedFields
<1>3. next = State(S, st.j.last, q)
  <2>1. next = [st EXCEPT !.r = q]
    BY DEF Count, Counted
  <2> HIDE DEF q
  <2> QED BY <1>1, <2>1 DEF State
<1> HIDE DEF q
<1>4. RecorderHolds(S, q)
  BY <1>1, <1>2 DEF RecorderHolds
<1>5. StateHolds(next) /\ next.j.segments = S /\ next.r = q
  BY <1>1, <1>2, <1>3, <1>4, HoldsBy
<1>6. JournalKept(S, S)
  BY <1>1, KeptAsIs
<1> QED BY <1>2, <1>5, <1>6 DEF Follows, RowsOf, Key

\* process() of a capture: an input is written only where its raw line and its CSV
\* row are, whichever of the writes fails.
LEMMA ReceivedHolds ==
    ASSUME NEW st, StateHolds(st), NEW id \in Nat, NEW failing, NEW outcome \in {"ok", "error", "limit"}
    PROVE  Follows(st, Received(st, id, failing, outcome))
<1> DEFINE Of(f)  == IF f = failing THEN outcome ELSE "ok"
<1> DEFINE raw    == Write(st, "raw", id, Of("raw"))
<1> DEFINE row    == Write(raw, "csv", id, Of("csv"))
<1> DEFINE stored == IF failing = "summary" /\ Active(row) THEN Fail(row) ELSE row
<1> DEFINE kept   == Active(raw) /\ Of("csv") = "ok"
<1> DEFINE told   == IF kept \/ ~st.r.logging THEN stored ELSE Count(stored, "storage_lost")
<1> DEFINE input  == [id |-> id, session |-> st.r.session, loss |-> <<told.r.storage_lost, told.r.input_lost>>]
<1> DEFINE done   == Write(told, "input", input, Of("input"))
<1>1. Received(st, id, failing, outcome)
        = IF Active(told) /\ Of("input") = "ok" THEN done ELSE Count(done, "input_lost")
  BY DEF Received
<1>2. \A f : Of(f) \in {"ok", "error", "limit"}
  OBVIOUS
<1>3. "raw" \in Streams /\ "csv" \in Streams /\ "input" \in Streams /\ id \in Items
  BY DEF Streams, Items
<1> HIDE DEF Of
<1>4. /\ Follows(st, raw) /\ raw.r.session = st.r.session
      /\ Active(raw) => HasRow(RowsOf(raw), "raw", id)
  <2>1. Of("raw") \in {"ok", "error", "limit"} /\ "raw" \in Streams /\ id \in Items /\ "raw" # "input"
    BY <1>2, <1>3
  <2> QED BY <2>1, WriteHolds
<1> HIDE DEF raw
<1>5. /\ Follows(raw, row)
      /\ Active(row) => Active(raw) /\ HasRow(RowsOf(row), "csv", id) /\ KeepsRows(raw, row)
  <2>1. StateHolds(raw)
    BY <1>4 DEF Follows
  <2>2. Of("csv") \in {"ok", "error", "limit"} /\ "csv" \in Streams /\ id \in Items /\ "csv" # "input"
    BY <1>2, <1>3
  <2> QED BY <2>1, <2>2, WriteHolds
<1> HIDE DEF row
<1>6. Active(row) => HasRow(RowsOf(row), "csv", id) /\ HasRow(RowsOf(row), "raw", id)
  BY <1>3, <1>4, <1>5 DEF KeepsRows
<1>7. /\ Follows(row, stored)
      /\ Active(stored) => HasRow(RowsOf(stored), "csv", id) /\ HasRow(RowsOf(stored), "raw", id)
  <2>1. StateHolds(row)
    BY <1>5 DEF Follows
  <2>2. CASE failing = "summary" /\ Active(row)
    <3>1. Follows(row, Fail(row)) /\ ~Fail(row).r.open
      BY <2>1, FailHolds
    <3> QED BY <2>2, <3>1 DEF Active
  <2>3. CASE ~(failing = "summary" /\ Active(row))
    BY <1>6, <2>1, <2>3, FollowsAsIs
  <2> QED BY <2>2, <2>3
<1> HIDE DEF stored
<1>8. /\ Follows(stored, told)
      /\ Active(told) => HasRow(RowsOf(told), "csv", id) /\ HasRow(RowsOf(told), "raw", id)
  <2>1. StateHolds(stored)
    BY <1>7 DEF Follows
  <2>2. CASE kept \/ ~st.r.logging
    BY <1>7, <2>1, <2>2, FollowsAsIs
  <2>3. CASE ~(kept \/ ~st.r.logging)
    <3> DEFINE c == Count(stored, "storage_lost")
    <3>1. /\ Follows(stored, c) /\ RowsOf(c) = RowsOf(stored)
          /\ c.r.open = stored.r.open /\ c.r.logging = stored.r.logging
      BY <2>1, CountHolds
    <3>2. told = c
      BY <2>3
    <3> HIDE DEF c, told
    <3> QED BY <1>7, <3>1, <3>2 DEF Active
  <2> QED BY <2>2, <2>3
<1> HIDE DEF told
<1>9. StateHolds(told)
  BY <1>8 DEF Follows
<1>10. input \in Items /\ input.id = id
  <2>1. told.r \in RecorderType
    BY <1>9 DEF StateHolds
  <2>2. told.r.storage_lost \in Nat /\ told.r.input_lost \in Nat
    BY <2>1 DEF RecorderType
  <2>3. st.r.session \in Nat
    BY DEF StateHolds, RecorderType
  <2> QED BY <2>2, <2>3 DEF Items, Inputs
<1> HIDE DEF input
<1>11. Follows(told, done)
  <2>1. Active(told) => HasRow(RowsOf(told), "csv", input.id) /\ HasRow(RowsOf(told), "raw", input.id)
    BY <1>8, <1>10
  <2>2. Of("input") \in {"ok", "error", "limit"} /\ "input" \in Streams /\ input \in Items
    BY <1>2, <1>3, <1>10
  <2> QED BY <1>9, <2>1, <2>2, WriteHolds
<1> HIDE DEF done
<1>12. Follows(done, Count(done, "input_lost"))
  <2>1. StateHolds(done)
    BY <1>11 DEF Follows
  <2> QED BY <2>1, CountHolds
<1>13. Follows(st, done)
  <2>1. Follows(st, row)
    BY <1>4, <1>5, FollowsOn
  <2>2. Follows(st, stored)
    BY <1>7, <2>1, FollowsOn
  <2>3. Follows(st, told)
    BY <1>8, <2>2, FollowsOn
  <2> QED BY <1>11, <2>3, FollowsOn
<1>14. Follows(st, Count(done, "input_lost"))
  BY <1>12, <1>13, FollowsOn
<1> QED BY <1>1, <1>13, <1>14

LEMMA ContractHolds ==
    ASSUME NEW st, StateHolds(st), st.r.open PROVE Follows(st, Published(st, FALSE))
<1> SUFFICES ASSUME NEW c \in BOOLEAN, c = FALSE PROVE Follows(st, Published(st, c))
  OBVIOUS
<1> DEFINE S == st.j.segments
<1> DEFINE r == st.r
<1> DEFINE K == Key(r)
<1> DEFINE h == Manifest(S[K], r.committed, c)
<1>1. st = State(S, st.j.last, r) /\ r \in RecorderType /\ JournalHolds(S) /\ RecorderHolds(S, r)
  BY DEF StateHolds
<1>2. K \in DOMAIN S /\ Fine(S[K]) /\ ~S[K].closed /\ S[K].committed = r.committed
  BY <1>1, Own
<1>3. Fine(h) /\ SegmentKept(S[K], h) /\ ~h.closed /\ h.committed = r.committed
  BY <1>2, ContractFine
<1>4. Published(st, c) = State([S EXCEPT ![K] = h], st.j.last, r)
  <2>1. S \in [DOMAIN S -> SegmentType]
    BY <1>1 DEF JournalHolds
  <2>2. K = <<r.session, r.segment>>
    BY DEF Key
  <2> DEFINE l == st.j.last
  <2>3. st = State(S, l, r) /\ K \in DOMAIN S
    BY <1>1, <1>2
  <2> HIDE DEF S, r, K, l
  <2>4. Published(st, c) = State([S EXCEPT ![K] = Manifest(S[K], r.committed, c)], l, r)
    BY <2>1, <2>2, <2>3, PublishedIs
  <2> QED BY <2>4 DEF l
<1> HIDE DEF h
<1> QED BY <1>1, <1>3, <1>4, ChangeHolds

-----------------------------------------------------------------------------
(* The actions *)

LEMMA NowHolds == ASSUME JournalInv, recorder.up PROVE StateHolds(Now) /\ Now.j = journal /\ Now.r = recorder
<1>1. Now.j = journal /\ Now.r = recorder
  BY DEF Now
<1>2. Now = State(journal.segments, journal.last, recorder)
  BY DEF Now, State, JournalInv
<1>3. JournalHolds(journal.segments) /\ recorder \in RecorderType /\ RecorderHolds(journal.segments, recorder)
      /\ journal.last \in Nat
  BY DEF JournalInv
<1> HIDE DEF JournalInv
<1> QED BY <1>1, <1>2, <1>3 DEF StateHolds

LEMMA KeptIsFinal ==
    ASSUME NEW S, JournalHolds(S), NEW T, JournalKept(S, T) PROVE Final(S, T)
<1> SUFFICES ASSUME NEW p \in DOMAIN S, NEW g, g = S[p], NEW h, h = T[p]
             PROVE  /\ \A f \in Streams : g.committed[f] <= h.committed[f]
                    /\ g.closed => [h EXCEPT !.gone = g.gone] = g
  BY DEF Final
<1>1. SegmentKept(g, h)
  BY DEF JournalKept
<1>2. g \in SegmentType
  BY DEF JournalHolds
<1>3. g.closed => h = g
  BY <1>1 DEF SegmentKept
<1>4. [g EXCEPT !.gone = g.gone] = g
  BY <1>2 DEF SegmentType
<1> QED BY <1>1, <1>3, <1>4 DEF SegmentKept

\* A step from one sound state of journal and recorder to another.
LEMMA StepHolds ==
    ASSUME JournalInv, NEW next, Becomes(next), StateHolds(next),
           JournalKept(journal.segments, next.j.segments), captured' \in Nat
    PROVE  JournalInv' /\ Final(journal.segments, journal'.segments)
<1>1. journal' = next.j /\ recorder' = next.r
  BY DEF Becomes
<1>2. /\ next.j = [segments |-> next.j.segments, last |-> next.j.last] /\ next.j.last \in Nat
      /\ JournalHolds(next.j.segments)
      /\ next.r \in RecorderType /\ RecorderHolds(next.j.segments, next.r)
  <2>1. next = State(next.j.segments, next.j.last, next.r)
    BY DEF StateHolds
  <2>2. next.j = [segments |-> next.j.segments, last |-> next.j.last]
    BY <2>1 DEF State
  <2> QED BY <2>2 DEF StateHolds
<1>3. JournalInv'
  BY <1>1, <1>2 DEF JournalInv
<1>4. JournalHolds(journal.segments)
  BY DEF JournalInv
<1> QED BY <1>1, <1>3, <1>4, KeptIsFinal

LEMMA FollowsStep ==
    ASSUME JournalInv, recorder.up, NEW next, Becomes(next), Follows(Now, next), captured' \in Nat
    PROVE  JournalInv' /\ Final(journal.segments, journal'.segments)
<1>1. Now.j = journal
  BY DEF Now
<1> QED BY <1>1, StepHolds DEF Follows

LEMMA FreshIs == Fresh \in RecorderType /\ ~Fresh.open
<1>1. Nothing \in Counts
  BY DEF Nothing, Counts
<1> QED BY <1>1 DEF Fresh, RecorderType, None

LEMMA ServiceStartSafe ==
    ASSUME JournalInv, NEW name \in UnusedNames, NEW opening \in OpenOutcomes, ServiceStart(name, opening)
    PROVE  JournalInv' /\ Final(journal.segments, journal'.segments)
<1> DEFINE st == [j |-> journal, r |-> Fresh]
<1> DEFINE next == Started(st, name, "ok", opening)
<1>1. Becomes(next) /\ captured' = captured
  BY DEF ServiceStart
<1>2. /\ journal.last \in Nat /\ JournalHolds(journal.segments) /\ captured \in Nat
      /\ journal = [segments |-> journal.segments, last |-> journal.last]
  BY DEF JournalInv
<1>3. name \in Nat /\ \A p \in DOMAIN journal.segments : p[1] # name
  BY DEF UnusedNames, UsedNames
<1>4. Closed(st, "ok") = State(journal.segments, journal.last, Fresh)
  <2>1. Closed(st, "ok") = st
    BY FreshIs DEF Closed
  <2> QED BY <1>2, <2>1 DEF State
<1>5. "ok" \in CloseOutcomes
  BY DEF CloseOutcomes
<1> HIDE DEF st
<1>6. StateHolds(next) /\ JournalKept(journal.segments, next.j.segments)
  BY <1>2, <1>3, <1>4, <1>5, FreshIs, StartedHolds
<1> HIDE DEF next
<1> QED BY <1>1, <1>2, <1>6, StepHolds

LEMMA RecoverSafe ==
    ASSUME JournalInv, NEW name \in UnusedNames, NEW closing \in CloseOutcomes, NEW opening \in OpenOutcomes,
           Recover(name, closing, opening)
    PROVE  JournalInv' /\ Final(journal.segments, journal'.segments)
<1> DEFINE next == Started(Now, name, closing, opening)
<1> DEFINE closed == Closed(Now, closing)
<1> DEFINE S == closed.j.segments
<1>1. recorder.up /\ Becomes(next) /\ captured' = captured
  BY DEF Recover
<1>2. StateHolds(Now) /\ Now.j = journal
  BY <1>1, NowHolds
<1>3. Follows(Now, closed) /\ Same(Now, closed) /\ ~closed.r.open
  BY <1>2, ClosedHolds
<1>4. closed = State(S, closed.j.last, closed.r) /\ closed.j.last \in Nat /\ closed.r \in RecorderType /\ JournalHolds(S)
  BY <1>3 DEF Follows, StateHolds
<1>5. name \in Nat /\ \A p \in DOMAIN journal.segments : p[1] # name
  BY DEF UnusedNames, UsedNames
<1>6. \A p \in DOMAIN S : p[1] # name
  BY <1>2, <1>3, <1>5 DEF Same
<1> HIDE DEF closed
<1>7. StateHolds(next) /\ JournalKept(S, next.j.segments)
  BY <1>3, <1>4, <1>5, <1>6, StartedHolds DEF closed
<1> HIDE DEF next
<1>8. Follows(closed, next)
  BY <1>7 DEF Follows
<1>9. Follows(Now, next)
  BY <1>2, <1>3, <1>8, FollowsOn
<1>10. captured' \in Nat
  BY <1>1 DEF JournalInv
<1> QED BY <1>1, <1>9, <1>10, FollowsStep

LEMMA ReceiveSafe ==
    ASSUME JournalInv, NEW failing, NEW outcome \in {"ok", "error", "limit"}, Receive(failing, outcome)
    PROVE  JournalInv' /\ Final(journal.segments, journal'.segments)
<1>1. recorder.up /\ captured' = captured + 1 /\ Becomes(Received(Now, captured', failing, outcome))
  BY DEF Receive
<1>2. captured' \in Nat
  BY <1>1 DEF JournalInv
<1>3. ASSUME NEW id \in Nat PROVE Follows(Now, Received(Now, id, failing, outcome))
  BY <1>1, NowHolds, ReceivedHolds
<1>4. Follows(Now, Received(Now, captured', failing, outcome))
  BY <1>2, <1>3
<1>5. ASSUME NEW id, id = captured' PROVE JournalInv' /\ Final(journal.segments, journal'.segments)
  BY <1>1, <1>2, <1>4, <1>5, FollowsStep
<1> QED BY <1>5

LEMMA SyncSafe ==
    ASSUME JournalInv, NEW outcome \in {"ok", "fsync", "manifest", "directory"}, Sync(outcome)
    PROVE  JournalInv' /\ Final(journal.segments, journal'.segments)
<1>1. recorder.up /\ Active(Now) /\ Becomes(Synced(Now, outcome)) /\ captured' = captured
  BY DEF Sync
<1>2. Now.r.open /\ captured' \in Nat
  BY <1>1 DEF Active, JournalInv
<1>3. Follows(Now, Synced(Now, outcome))
  BY <1>1, <1>2, NowHolds, SyncedHolds
<1> QED BY <1>1, <1>2, <1>3, FollowsStep

LEMMA SpaceLimitSafe ==
    ASSUME JournalInv, SpaceLimit PROVE JournalInv' /\ Final(journal.segments, journal'.segments)
<1>1. recorder.up /\ Becomes(Closed(Now, "ok")) /\ captured' = captured
  BY DEF SpaceLimit
<1>2. "ok" \in CloseOutcomes /\ captured' \in Nat
  BY <1>1 DEF CloseOutcomes, JournalInv
<1>3. Follows(Now, Closed(Now, "ok"))
  BY <1>1, <1>2, NowHolds, ClosedHolds
<1> QED BY <1>1, <1>2, <1>3, FollowsStep

LEMMA RotateSafe ==
    ASSUME JournalInv, NEW closing \in CloseOutcomes, NEW opening \in OpenOutcomes, Rotate(closing, opening)
    PROVE  JournalInv' /\ Final(journal.segments, journal'.segments)
<1> DEFINE closed == Closed(Now, closing)
<1>1. /\ recorder.up /\ captured' = captured
      /\ Becomes(IF closing = "ok" THEN Opened(closed, opening) ELSE closed)
  BY DEF Rotate
<1>2. StateHolds(Now) /\ captured' \in Nat
  BY <1>1, NowHolds DEF JournalInv
<1>3. Follows(Now, closed) /\ ~closed.r.open
  BY <1>2, ClosedHolds
<1> HIDE DEF closed
<1>4. Follows(closed, Opened(closed, opening))
  BY <1>3, OpenedHolds DEF Follows
<1>5. Follows(Now, Opened(closed, opening))
  BY <1>2, <1>3, <1>4, FollowsOn
<1>6. CASE closing = "ok"
  BY <1>1, <1>2, <1>5, <1>6, FollowsStep
<1>7. CASE closing # "ok"
  BY <1>1, <1>2, <1>3, <1>7, FollowsStep
<1> QED BY <1>6, <1>7

LEMMA ReopenSafe ==
    ASSUME JournalInv, NEW opening \in OpenOutcomes, Reopen(opening)
    PROVE  JournalInv' /\ Final(journal.segments, journal'.segments)
<1>1. recorder.up /\ ~recorder.open /\ Becomes(Opened(Now, opening)) /\ captured' = captured
  BY DEF Reopen
<1>2. StateHolds(Now) /\ ~Now.r.open /\ captured' \in Nat
  BY <1>1, NowHolds DEF JournalInv
<1>3. Follows(Now, Opened(Now, opening))
  BY <1>2, OpenedHolds
<1> QED BY <1>1, <1>2, <1>3, FollowsStep

LEMMA SetContractSafe ==
    ASSUME JournalInv, NEW outcome, SetContract(outcome)
    PROVE  JournalInv' /\ Final(journal.segments, journal'.segments)
<1>1. /\ recorder.up /\ Active(Now) /\ captured' = captured
      /\ Becomes(IF outcome = "ok" THEN Published(Now, FALSE) ELSE Fail(Now))
  BY DEF SetContract
<1>2. StateHolds(Now) /\ Now.r.open /\ captured' \in Nat
  BY <1>1, NowHolds DEF Active, JournalInv
<1>3. Follows(Now, Published(Now, FALSE)) /\ Follows(Now, Fail(Now))
  BY <1>2, ContractHolds, FailHolds
<1>4. CASE outcome = "ok"
  BY <1>1, <1>2, <1>3, <1>4, FollowsStep
<1>5. CASE outcome # "ok"
  BY <1>1, <1>2, <1>3, <1>5, FollowsStep
<1> QED BY <1>4, <1>5

LEMMA CloseDisabledSafe ==
    ASSUME JournalInv, NEW closing \in CloseOutcomes, CloseDisabled(closing)
    PROVE  JournalInv' /\ Final(journal.segments, journal'.segments)
<1>1. recorder.up /\ Becomes(Closed(Now, closing)) /\ captured' = captured
  BY DEF CloseDisabled
<1>2. captured' \in Nat
  BY <1>1 DEF JournalInv
<1>3. Follows(Now, Closed(Now, closing))
  BY <1>1, NowHolds, ClosedHolds
<1> QED BY <1>1, <1>2, <1>3, FollowsStep

LEMMA SameIsFinal == ASSUME JournalInv PROVE Final(journal.segments, journal.segments)
BY KeptAsIs, KeptIsFinal DEF JournalInv

LEMMA StopSafe ==
    ASSUME JournalInv, NEW closing \in CloseOutcomes, Stop(closing)
    PROVE  JournalInv' /\ Final(journal.segments, journal'.segments)
<1> DEFINE next == Closed(Now, closing)
<1>1. recorder.up /\ journal' = next.j /\ recorder' = Stopped /\ captured' = captured
  BY DEF Stop
<1>2. Follows(Now, next) /\ Now.j = journal /\ captured' \in Nat
  <2>1. StateHolds(Now) /\ Now.j = journal
    BY <1>1, NowHolds
  <2> QED BY <1>1, <2>1, ClosedHolds DEF JournalInv
<1> HIDE DEF next
<1>3. /\ next.j = [segments |-> next.j.segments, last |-> next.j.last] /\ next.j.last \in Nat
      /\ JournalHolds(next.j.segments) /\ JournalKept(journal.segments, next.j.segments)
  <2>1. next = State(next.j.segments, next.j.last, next.r)
    BY <1>2 DEF Follows, StateHolds
  <2>2. next.j = [segments |-> next.j.segments, last |-> next.j.last]
    BY <2>1 DEF State
  <2> QED BY <1>2, <2>2 DEF Follows, StateHolds
<1>4. JournalInv'
  BY <1>1, <1>2, <1>3 DEF JournalInv, Stopped
<1>5. JournalHolds(journal.segments)
  BY DEF JournalInv
<1> QED BY <1>1, <1>3, <1>4, <1>5, KeptIsFinal

LEMMA SwitchSafe ==
    ASSUME JournalInv, SetLogging \/ Kill \/ Missed
    PROVE  JournalInv' /\ Final(journal.segments, journal'.segments)
<1>1. journal' = journal /\ captured' \in Nat
  BY DEF JournalInv, SetLogging, Kill, Missed
<1>2. recorder'.up => recorder' \in RecorderType /\ RecorderHolds(journal.segments, recorder')
  <2>1. CASE SetLogging
    <3> DEFINE r == recorder
    <3> DEFINE q == [r EXCEPT !.logging = ~r.logging]
    <3>1. recorder' = q /\ r \in RecorderType /\ RecorderHolds(journal.segments, r)
      BY <2>1 DEF SetLogging, JournalInv
    <3>2. /\ q \in RecorderType /\ q.open = r.open /\ q.session = r.session /\ q.segment = r.segment
          /\ q.committed = r.committed
      BY <3>1 DEF RecorderType
    <3> HIDE DEF q, r
    <3>3. RecorderHolds(journal.segments, q)
      BY <3>1, <3>2 DEF RecorderHolds
    <3> QED BY <3>1, <3>2, <3>3
  <2>2. CASE Kill
    BY <2>2 DEF Kill, Stopped
  <2>3. CASE Missed
    BY <2>3 DEF Missed, JournalInv
  <2> QED BY <2>1, <2>2, <2>3
<1>3. JournalInv'
  BY <1>1, <1>2 DEF JournalInv
<1> QED BY <1>1, <1>3, SameIsFinal

LEMMA PowerLossSafe ==
    ASSUME JournalInv, PowerLoss PROVE JournalInv' /\ Final(journal.segments, journal'.segments)
<1> DEFINE S == journal.segments
<1> DEFINE T == [p \in DOMAIN S |-> Survivor(S[p])]
<1>1. journal' = [journal EXCEPT !.segments = T] /\ recorder' = Stopped /\ captured' = captured
  BY DEF PowerLoss
<1>2. journal = [segments |-> S, last |-> journal.last] /\ journal.last \in Nat /\ JournalHolds(S) /\ captured \in Nat
  BY DEF JournalInv
<1>3. journal' = [segments |-> T, last |-> journal.last]
  <2> HIDE DEF T, S
  <2> QED BY <1>1, <1>2
<1>4. \A p \in DOMAIN S : Fine(S[p]) /\ p \in Nat \X Nat
  BY <1>2 DEF JournalHolds, Fine
<1>5. \A p \in DOMAIN S : Fine(T[p]) /\ SegmentKept(S[p], T[p])
  BY <1>4, SurvivorFine
<1>6. DOMAIN T = DOMAIN S /\ T = [p \in DOMAIN T |-> T[p]]
  OBVIOUS
<1> HIDE DEF T, S
<1>7. JournalHolds(T) /\ JournalKept(S, T)
  BY <1>4, <1>5, <1>6 DEF JournalHolds, JournalKept, Fine
<1>8. JournalInv'
  BY <1>1, <1>2, <1>3, <1>7 DEF JournalInv, Stopped
<1>9. Final(S, T)
  BY <1>2, <1>7, KeptIsFinal
<1> QED BY <1>3, <1>8, <1>9 DEF S

Taken(g) == [g EXCEPT !.gone = TRUE]

LEMMA TakenFine ==
    ASSUME NEW g, Fine(g), g.closed
    PROVE  /\ Fine(Taken(g)) /\ Taken(g).committed = g.committed /\ [Taken(g) EXCEPT !.gone = g.gone] = g
           /\ Taken(g).closed
<1> DEFINE h == Taken(g)
<1>1. g \in SegmentType /\ SegmentHolds(g)
  BY DEF Fine
<1>2. /\ h \in SegmentType /\ h.rows = g.rows /\ h.durable = g.durable /\ h.committed = g.committed
      /\ h.closed = g.closed /\ [h EXCEPT !.gone = g.gone] = g
  BY <1>1 DEF Taken, SegmentType
<1> HIDE DEF h
<1>3. SegmentHolds(h)
  BY <1>1, <1>2 DEF SegmentHolds
<1> QED BY <1>2, <1>3 DEF Fine, h

LEMMA RetireSafe ==
    ASSUME JournalInv, NEW p \in DOMAIN journal.segments, Retire(p)
    PROVE  JournalInv' /\ Final(journal.segments, journal'.segments)
<1> DEFINE S == journal.segments
<1> DEFINE h == Taken(S[p])
<1> DEFINE T == [S EXCEPT ![p] = h]
<1>1. /\ journal' = [journal EXCEPT !.segments[p].gone = TRUE] /\ S[p].closed
      /\ captured' = captured /\ recorder' = recorder
  BY DEF Retire
<1>2. journal = [segments |-> S, last |-> journal.last] /\ journal.last \in Nat /\ JournalHolds(S) /\ captured \in Nat
  BY DEF JournalInv
<1>3. journal' = [segments |-> T, last |-> journal.last]
  <2>1. journal' = [journal EXCEPT !.segments = [S EXCEPT ![p] = Taken(S[p])]]
    BY <1>1, <1>2 DEF Taken
  <2> HIDE DEF T, S
  <2>2. journal' = [journal EXCEPT !.segments = T]
    BY <2>1 DEF T
  <2> QED BY <1>2, <2>2
<1>4. Fine(S[p])
  BY <1>2 DEF JournalHolds, Fine
<1>5. Fine(h) /\ h.committed = S[p].committed /\ [h EXCEPT !.gone = S[p].gone] = S[p] /\ h.closed
  BY <1>1, <1>4, TakenFine
<1>6. S \in [DOMAIN S -> SegmentType] /\ DOMAIN S \subseteq Nat \X Nat /\ p \in DOMAIN S
  BY <1>2 DEF JournalHolds
<1> HIDE DEF h
<1>7. /\ T \in [DOMAIN S -> SegmentType] /\ DOMAIN T = DOMAIN S /\ T[p] = h
      /\ \A q \in DOMAIN S : q # p => T[q] = S[q]
  BY <1>5, <1>6 DEF Fine
<1> HIDE DEF T, S
<1>8. JournalHolds(T)
  <2>1. \A q \in DOMAIN S : SegmentHolds(T[q])
    <3> SUFFICES ASSUME NEW q \in DOMAIN S PROVE SegmentHolds(T[q])
      OBVIOUS
    <3>1. CASE q = p
      BY <1>5, <1>7, <3>1 DEF Fine
    <3>2. CASE q # p
      BY <1>2, <1>7, <3>2 DEF JournalHolds
    <3> QED BY <3>1, <3>2
  <2> QED BY <1>6, <1>7, <2>1 DEF JournalHolds
<1>9. ASSUME recorder.up PROVE recorder \in RecorderType /\ RecorderHolds(T, recorder)
  <2>1. recorder \in RecorderType /\ RecorderHolds(S, recorder)
    BY <1>9 DEF JournalInv, S
  <2> SUFFICES ASSUME NEW r, r = recorder, r \in RecorderType, RecorderHolds(S, r) PROVE RecorderHolds(T, r)
    BY <2>1
  <2>2. r.open => <<r.session, r.segment>> # p
    BY <1>1 DEF RecorderHolds, S
  <2> QED BY <1>7, <2>2 DEF RecorderHolds
<1>10. JournalInv'
  <2>1. journal'.segments = T /\ journal'.last = journal.last
    BY <1>3
  <2>2. journal' = [segments |-> journal'.segments, last |-> journal'.last]
    BY <1>3, <2>1
  <2>3. recorder'.up => recorder' \in RecorderType /\ RecorderHolds(T, recorder')
    <3> HIDE DEF T
    <3> QED BY <1>1, <1>9
  <2> QED BY <1>1, <1>2, <1>8, <2>1, <2>2, <2>3 DEF JournalInv
<1>11. Final(S, T)
  <2>1. Final(S, S)
    BY <1>2, KeptAsIs, KeptIsFinal
  <2> SUFFICES ASSUME NEW q \in DOMAIN S
               PROVE  /\ \A f \in Streams : S[q].committed[f] <= T[q].committed[f]
                      /\ S[q].closed => [T[q] EXCEPT !.gone = S[q].gone] = S[q]
    BY DEF Final
  <2>2. \A f \in Streams : S[q].committed[f] <= S[q].committed[f]
    BY <2>1 DEF Final
  <2>3. CASE q = p
    BY <1>5, <1>7, <2>2, <2>3
  <2>4. CASE q # p
    BY <1>7, <2>1, <2>4 DEF Final
  <2> QED BY <2>3, <2>4
<1> QED BY <1>3, <1>10, <1>11 DEF S

LEMMA RecorderStepSafe ==
    ASSUME JournalInv, RecorderStep PROVE JournalInv' /\ Final(journal.segments, journal'.segments)
<1> USE DEF CloseOutcomes
<1>1. CASE \E name \in UnusedNames, opening \in OpenOutcomes : ServiceStart(name, opening)
  BY <1>1, ServiceStartSafe
<1>2. CASE \E name \in UnusedNames, closing \in CloseOutcomes, opening \in OpenOutcomes :
               Recover(name, closing, opening)
  BY <1>2, RecoverSafe
<1>3. CASE \/ Receive("nothing", "ok")
           \/ \E f \in Streams, outcome \in {"error", "limit"} : Receive(f, outcome)
           \/ Receive("summary", "error")
  <2>1. \E failing, outcome : outcome \in {"ok", "error", "limit"} /\ Receive(failing, outcome)
    BY <1>3
  <2> QED BY <2>1, ReceiveSafe
<1>4. CASE \E outcome \in {"ok", "fsync", "manifest", "directory"} : Sync(outcome)
  BY <1>4, SyncSafe
<1>5. CASE SpaceLimit
  BY <1>5, SpaceLimitSafe
<1>6. CASE \E closing \in CloseOutcomes, opening \in OpenOutcomes : Rotate(closing, opening)
  BY <1>6, RotateSafe
<1>7. CASE \E opening \in OpenOutcomes : Reopen(opening)
  BY <1>7, ReopenSafe
<1>8. CASE \E outcome \in {"ok", "manifest"} : SetContract(outcome)
  BY <1>8, SetContractSafe
<1>9. CASE SetLogging \/ Kill \/ Missed
  BY <1>9, SwitchSafe
<1>10. CASE \E closing \in CloseOutcomes : CloseDisabled(closing)
  BY <1>10, CloseDisabledSafe
<1>11. CASE \E closing \in CloseOutcomes : Stop(closing)
  BY <1>11, StopSafe
<1> QED
  BY <1>1, <1>2, <1>3, <1>4, <1>5, <1>6, <1>7, <1>8, <1>9, <1>10, <1>11 DEF RecorderStep

LEMMA NextSafe ==
    ASSUME JournalInv, [Next]_vars PROVE JournalInv' /\ Final(journal.segments, journal'.segments)
<1>1. ASSUME UNCHANGED <<captured, journal, recorder>>
      PROVE  JournalInv' /\ Final(journal.segments, journal'.segments)
  BY <1>1, SameIsFinal DEF JournalInv
<1>2. CASE RecorderStep
  BY <1>2, RecorderStepSafe
<1>3. CASE PowerLoss
  BY <1>3, PowerLossSafe
<1>4. CASE UNCHANGED <<captured, journal, recorder, faults>>
  BY <1>1, <1>4
<1>5. CASE UNCHANGED recVars
  BY <1>1, <1>5 DEF recVars
<1>6. CASE \E p \in DOMAIN journal.segments : Retire(p)
  BY <1>6, RetireSafe
<1>7. CASE UNCHANGED vars
  BY <1>1, <1>7 DEF vars
<1> QED BY <1>2, <1>3, <1>4, <1>5, <1>6, <1>7 DEF Next

LEMMA InitHolds == ASSUME Init PROVE JournalInv
<1>1. captured = 0 /\ journal = [segments |-> <<>>, last |-> None] /\ recorder = Stopped
  BY DEF Init
<1>2. journal.segments = <<>> /\ journal.last = 0 /\ ~recorder.up
  BY <1>1 DEF None, Stopped
<1>3. DOMAIN <<>> = {} /\ <<>> \in [{} -> SegmentType]
  OBVIOUS
<1>4. JournalHolds(<<>>)
  BY <1>3 DEF JournalHolds
<1> QED BY <1>1, <1>2, <1>4 DEF JournalInv, None

LEMMA AlwaysHolds == Spec => []JournalInv
<1>1. Init => JournalInv
  BY InitHolds
<1>2. JournalInv /\ [Next]_vars => JournalInv'
  BY NextSafe
<1> QED BY <1>1, <1>2, PTL DEF Spec

-----------------------------------------------------------------------------
(* What the journal promises its readers *)

LEMMA JournalIsDurable == JournalInv => FrontierIsDurable
<1> SUFFICES ASSUME JournalInv, NEW p \in DOMAIN journal.segments
             PROVE  \A f \in Streams : /\ journal.segments[p].committed[f] <= journal.segments[p].durable[f]
                                       /\ journal.segments[p].durable[f] <= Len(journal.segments[p].rows[f])
  BY DEF FrontierIsDurable, Segments
<1> QED BY DEF JournalInv, JournalHolds, SegmentHolds

LEMMA JournalHasRows == JournalInv => InputsAreRecorded
<1> SUFFICES ASSUME JournalInv, NEW p \in DOMAIN journal.segments, NEW g, g = journal.segments[p],
                    NEW i \in 1 .. g.committed["input"]
             PROVE  /\ g.rows["input"][i].id \in ToSet(Prefix(g.rows["csv"], g.committed["csv"]))
                    /\ g.rows["input"][i].id \in ToSet(Prefix(g.rows["raw"], g.committed["raw"]))
  BY DEF InputsAreRecorded, Segments
<1>1. Fine(g)
  BY DEF JournalInv, JournalHolds, Fine
<1>2. /\ \E k \in 1 .. g.committed["csv"] : g.rows["csv"][k] = g.rows["input"][i].id
      /\ \E k \in 1 .. g.committed["raw"] : g.rows["raw"][k] = g.rows["input"][i].id
  BY <1>1 DEF Fine, SegmentHolds, Covers
<1>3. ASSUME NEW f \in Streams, NEW k \in 1 .. g.committed[f]
      PROVE  g.rows[f][k] \in ToSet(Prefix(g.rows[f], g.committed[f]))
  <2>1. g.rows[f] \in Seq(Items) /\ g.committed[f] \in Nat /\ g.committed[f] <= Len(g.rows[f])
    BY <1>1, Ordered
  <2>2. ASSUME NEW s \in Seq(Items), NEW n \in Nat, n <= Len(s), NEW j \in 1 .. n
        PROVE  s[j] \in ToSet(SubSeq(s, 1, n))
    <3>1. Len(SubSeq(s, 1, n)) = n /\ SubSeq(s, 1, n)[j] = s[j] /\ DOMAIN SubSeq(s, 1, n) = 1 .. n
      BY <2>2
    <3> QED BY <3>1 DEF ToSet
  <2> QED BY <2>1, <2>2 DEF Prefix
<1>4. "csv" \in Streams /\ "raw" \in Streams
  BY DEF Streams
<1> QED BY <1>2, <1>3, <1>4

\* Published rows are durable, and durable ones written: the frontier of a manifest
\* (recording.py, sync) survives any failure, kill or power cut.
THEOREM PublishedIsDurable == Spec => []FrontierIsDurable
  BY JournalIsDurable, AlwaysHolds, PTL

\* A published analysis input has its CSV row and its raw line published beside it,
\* whichever write of whichever event failed (service.py, process).
THEOREM PublishedInputsHaveRows == Spec => []InputsAreRecorded
  BY JournalHasRows, AlwaysHolds, PTL

\* No step moves a published frontier back or changes a closed segment, but for the
\* storage worker that takes it away (storage.py relies on it).
THEOREM ClosedStaysAsItIs == Spec => ClosedIsFinal
<1>1. JournalInv /\ [Next]_vars =>
        [\A p \in DOMAIN journal.segments :
            LET g == journal.segments[p]
                h == journal'.segments[p]
            IN  /\ \A f \in Streams : g.committed[f] <= h.committed[f]
                /\ g.closed => [h EXCEPT !.gone = g.gone] = g]_vars
  BY NextSafe DEF Final
<1> QED BY <1>1, AlwaysHolds, PTL DEF Spec, ClosedIsFinal
=============================================================================
