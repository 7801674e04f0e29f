--------------------------- MODULE CaptureProofs ----------------------------
(***************************************************************************)
(* Proofs about CapturePipeline, for every ring size, budget and bound:    *)
(* first what the ring operations do to the queue a ring represents, for   *)
(* every item type, then the pipeline that is built on them.               *)
(***************************************************************************)
EXTENDS CapturePipeline, SequenceTheorems, FiniteSetTheorems, TLAPS

-----------------------------------------------------------------------------
(* The rings *)

\* A ring starts as a ring.
LEMMA EmptyRingType ==
    ASSUME NEW N \in Nat, N >= 2, NEW S, NEW v \in S
    PROVE  EmptyRing(N, v) \in Rings(N, S)
  BY DEF EmptyRing, Rings

\* Filling a slot and freeing one keep a ring a ring.
LEMMA RingTypes ==
    ASSUME NEW N \in Nat, N >= 2, NEW S, NEW r \in Rings(N, S), NEW v \in S
    PROVE  /\ RingPut(N, r, v) \in Rings(N, S)
           /\ RingDrop(N, r) \in Rings(N, S)
           /\ RingOldest(r) \in S
  BY DEF Rings, RingPut, RingDrop, RingOldest, RingNext

\* Head and tail tell the number of items exactly: empty is none, full is
\* N - 1, and there is nothing outside that range.
LEMMA RingCounts ==
    ASSUME NEW N \in Nat, N >= 2, NEW S, NEW r \in Rings(N, S)
    PROVE  /\ RingCount(N, r) \in 0 .. N-1
           /\ RingIsEmpty(r) <=> RingCount(N, r) = 0
           /\ RingIsFull(N, r) <=> RingCount(N, r) = N - 1
  BY DEF Rings, RingCount, RingIsEmpty, RingIsFull, RingNext

\* A put into a ring with room adds one item, a drop from a ring that is not
\* empty takes one away.
LEMMA RingCountSteps ==
    ASSUME NEW N \in Nat, N >= 2, NEW S, NEW r \in Rings(N, S), NEW v \in S
    PROVE  /\ ~RingIsFull(N, r) => RingCount(N, RingPut(N, r, v)) = RingCount(N, r) + 1
           /\ ~RingIsEmpty(r) => RingCount(N, RingDrop(N, r)) = RingCount(N, r) - 1
<1>1. ~RingIsFull(N, r) => RingCount(N, RingPut(N, r, v)) = RingCount(N, r) + 1
  BY DEF Rings, RingCount, RingIsFull, RingNext, RingPut
<1>2. ~RingIsEmpty(r) => RingCount(N, RingDrop(N, r)) = RingCount(N, r) - 1
  BY DEF Rings, RingCount, RingIsEmpty, RingNext, RingDrop
<1>. QED  BY <1>1, <1>2

\* The items of a ring are a sequence over S of RingCount elements.
LEMMA RingItemsType ==
    ASSUME NEW N \in Nat, N >= 2, NEW S, NEW r \in Rings(N, S)
    PROVE  /\ RingItems(N, r) \in Seq(S)
           /\ Len(RingItems(N, r)) = RingCount(N, r)
<1>1. RingCount(N, r) \in Nat
  BY RingCounts
<1>2. ASSUME NEW k \in 1 .. RingCount(N, r)
      PROVE  r.buf[RingSlot(N, r, k)] \in S
  BY DEF Rings, RingCount, RingSlot
<1>. QED  BY <1>1, <1>2 DEF RingItems

\* A put appends: the queued items keep their places and the new one is last.
LEMMA RingPutAppends ==
    ASSUME NEW N \in Nat, N >= 2, NEW S, NEW r \in Rings(N, S), NEW v \in S,
           ~RingIsFull(N, r)
    PROVE  /\ RingItems(N, RingPut(N, r, v))[RingCount(N, r) + 1] = v
           /\ \A k \in 1 .. RingCount(N, r) :
                 RingItems(N, RingPut(N, r, v))[k] = RingItems(N, r)[k]
<1>. DEFINE q == RingPut(N, r, v)
            c == RingCount(N, r)
<1>1. c \in Nat /\ RingCount(N, q) = c + 1
  BY RingCounts, RingCountSteps
<1>2. q.tail = r.tail /\ q.buf = [r.buf EXCEPT ![r.head] = v]
  BY DEF Rings, RingPut
<1>3. RingSlot(N, q, c + 1) = r.head
  BY <1>2 DEF Rings, RingCount, RingSlot
<1>4. ASSUME NEW k \in 1 .. c
      PROVE  RingSlot(N, q, k) = RingSlot(N, r, k) /\ RingSlot(N, r, k) # r.head
  BY <1>2 DEF Rings, RingCount, RingSlot
<1>5. q.buf[r.head] = v
  BY <1>2 DEF Rings
<1>6. ASSUME NEW k \in 1 .. c
      PROVE  q.buf[RingSlot(N, q, k)] = r.buf[RingSlot(N, r, k)]
  BY <1>2, <1>4 DEF Rings
<1>. QED  BY <1>1, <1>3, <1>5, <1>6 DEF RingItems

\* A drop removes the head of the queue, which is RingOldest.
LEMMA RingDropTakesHead ==
    ASSUME NEW N \in Nat, N >= 2, NEW S, NEW r \in Rings(N, S),
           ~RingIsEmpty(r)
    PROVE  /\ RingItems(N, r) # <<>>
           /\ RingOldest(r) = Head(RingItems(N, r))
           /\ RingItems(N, RingDrop(N, r)) = Tail(RingItems(N, r))
<1>. DEFINE q == RingDrop(N, r)
            c == RingCount(N, r)
<1>1. c \in Nat /\ c >= 1 /\ RingCount(N, q) = c - 1
  <2>1. PICK v : v \in S
    BY DEF Rings
  <2>. QED  BY <2>1, RingCounts, RingCountSteps
<1>2. RingItems(N, r) \in Seq(S) /\ Len(RingItems(N, r)) = c
  BY RingItemsType
<1>3. RingSlot(N, r, 1) = r.tail
  BY DEF Rings, RingSlot
<1>4. RingItems(N, r)[1] = RingOldest(r)
  BY <1>1, <1>3 DEF RingItems, RingOldest
<1>5. ASSUME NEW k \in 1 .. c - 1
      PROVE  RingSlot(N, q, k) = RingSlot(N, r, k + 1)
  BY SMTT(20) DEF Rings, RingCount, RingSlot, RingDrop, RingNext
<1>6. q.buf = r.buf
  BY DEF Rings, RingDrop
<1>7. \A k \in 1 .. c - 1 : RingItems(N, q)[k] = RingItems(N, r)[k + 1]
  BY <1>1, <1>5, <1>6 DEF RingItems
<1>8. RingItems(N, r) # <<>>
  BY <1>1, <1>2, EmptySeq
<1>9. RingItems(N, q) \in Seq(S) /\ Len(RingItems(N, q)) = c - 1
  <2>1. q \in Rings(N, S)
    BY DEF Rings, RingDrop, RingNext
  <2>. QED  BY <2>1, <1>1, RingItemsType
<1>10. /\ Tail(RingItems(N, r)) \in Seq(S)
       /\ Len(Tail(RingItems(N, r))) = c - 1
       /\ \A k \in 1 .. c - 1 : Tail(RingItems(N, r))[k] = RingItems(N, r)[k + 1]
  BY <1>2, <1>8, HeadTailProperties
<1>11. RingItems(N, q) = Tail(RingItems(N, r))
  BY <1>7, <1>9, <1>10, SeqEqual
<1>12. RingOldest(r) = Head(RingItems(N, r))
  BY <1>2, <1>4, <1>8
<1>. QED  BY <1>8, <1>11, <1>12

\* The same, item by item.
LEMMA RingDropShifts ==
    ASSUME NEW N \in Nat, N >= 2, NEW S, NEW r \in Rings(N, S),
           ~RingIsEmpty(r)
    PROVE  /\ Len(RingItems(N, r)) >= 1 /\ RingOldest(r) = RingItems(N, r)[1]
           /\ Len(RingItems(N, RingDrop(N, r))) = Len(RingItems(N, r)) - 1
           /\ \A k \in 1 .. Len(RingItems(N, r)) - 1 :
                 RingItems(N, RingDrop(N, r))[k] = RingItems(N, r)[k + 1]
<1>. DEFINE q == RingItems(N, r)
<1>1. q \in Seq(S)
  BY RingItemsType
<1>2. q # <<>> /\ RingOldest(r) = Head(q) /\ RingItems(N, RingDrop(N, r)) = Tail(q)
  BY RingDropTakesHead
<1>. HIDE DEF q
<1>3. Len(q) >= 1 /\ Head(q) = q[1]
  BY <1>1, <1>2
<1>4. Len(Tail(q)) = Len(q) - 1 /\ \A k \in 1 .. Len(q) - 1 : Tail(q)[k] = q[k + 1]
  BY <1>1, <1>2, HeadTailProperties
<1>. QED  BY <1>2, <1>3, <1>4 DEF q

\* A ring with head = tail holds nothing.
LEMMA RingEmptyItems ==
    ASSUME NEW N \in Nat, N >= 2, NEW S, NEW r \in Rings(N, S), RingIsEmpty(r)
    PROVE  RingItems(N, r) = <<>>
<1>1. RingItems(N, r) \in Seq(S) /\ Len(RingItems(N, r)) = 0
  BY RingItemsType, RingCounts
<1>. QED  BY <1>1, EmptySeq

\* A put into a ring with room, in the terms of the queue.
LEMMA RingPutAccepts ==
    ASSUME NEW N \in Nat, N >= 2, NEW S, NEW r \in Rings(N, S), NEW v \in S,
           ~RingIsFull(N, r)
    PROVE  /\ Len(RingItems(N, r)) < N - 1
           /\ RingItems(N, RingPut(N, r, v)) \in Seq(S)
           /\ Len(RingItems(N, RingPut(N, r, v))) = Len(RingItems(N, r)) + 1
           /\ \A k \in 1 .. Len(RingItems(N, r)) :
                 RingItems(N, RingPut(N, r, v))[k] = RingItems(N, r)[k]
<1>1. RingPut(N, r, v) \in Rings(N, S)
  BY RingTypes
<1>2. /\ Len(RingItems(N, r)) = RingCount(N, r)
      /\ RingItems(N, RingPut(N, r, v)) \in Seq(S)
      /\ Len(RingItems(N, RingPut(N, r, v))) = RingCount(N, RingPut(N, r, v))
  BY <1>1, RingItemsType
<1>3. RingCount(N, r) \in 0 .. N-1 /\ RingCount(N, r) # N - 1
  BY RingCounts
<1>4. RingCount(N, RingPut(N, r, v)) = RingCount(N, r) + 1
  BY RingCountSteps
<1>5. \A k \in 1 .. RingCount(N, r) :
         RingItems(N, RingPut(N, r, v))[k] = RingItems(N, r)[k]
  BY RingPutAppends
<1>. QED  BY <1>2, <1>3, <1>4, <1>5

\* A full ring holds N - 1 items.
LEMMA RingFullLength ==
    ASSUME NEW N \in Nat, N >= 2, NEW S, NEW r \in Rings(N, S), RingIsFull(N, r)
    PROVE  Len(RingItems(N, r)) = N - 1
  BY RingItemsType, RingCounts

-----------------------------------------------------------------------------
(* The pipeline *)

USE RingAssumption, BudgetAssumption, BoundAssumption

\* The rows the assembler builds are rows.
LEMMA RowTypes ==
    ASSUME NEW row \in Rows, NEW i \in 0 .. 4, NEW at \in Stamps, swingSeq \in Nat
    PROVE  WithEdge(row, i, at) \in Rows /\ StartRow(row, at) \in Rows
  BY DEF WithEdge, StartRow, Rows

\* The stamps of a row are stamps.
LEMMA RowStamps ==
    ASSUME NEW row \in Rows, NEW i \in 0 .. 4
    PROVE  /\ row.edge \in [0 .. 4 -> Stamps] /\ row.edge[i] \in Stamps
           /\ row.edge[i].tl \in Nat /\ row.edge[i].n \in Nat
<1>1. row.edge \in [0 .. 4 -> Stamps]
  BY DEF Rows
<1>2. row.edge[i] \in Stamps
  BY <1>1
<1>. QED  BY <1>1, <1>2 DEF Stamps

LEMMA InitTypes == Init => TypeOK
<1>1. ZeroStamp \in Stamps /\ ZeroRow \in Rows /\ ZeroEdge \in Edges
  BY DEF ZeroStamp, Stamps, ZeroRow, Rows, ZeroEdge, Edges, Tick
<1>2. 0 \in 0 .. MaxPps
  OBVIOUS
<1>3. EmptyRing(EdgeRing, ZeroEdge) \in Rings(EdgeRing, Edges)
  BY <1>1, EmptyRingType
<1>4. EmptyRing(PpsRing, 0) \in Rings(PpsRing, 0 .. MaxPps)
  BY <1>2, EmptyRingType
<1>5. EmptyRing(SwingRing, ZeroRow) \in Rings(SwingRing, Rows)
  BY <1>1, EmptyRingType
<1>6. NoSwing \in [row : Rows, dropIr : Nat]
  BY <1>1 DEF NoSwing
<1>7. SUFFICES ASSUME Init PROVE TypeOK
  OBVIOUS
<1>8. /\ csw \in [row : Rows, dropIr : Nat, dropPps : Nat, dropSwing : Nat]
      /\ cps \in [seq : 0 .. MaxPps, dropPps : Nat]
  <2>1. /\ csw = [row |-> ZeroRow, dropIr |-> 0, dropPps |-> 0, dropSwing |-> 0]
        /\ cps = [seq |-> 0, dropPps |-> 0]
    BY <1>7, Zenon DEF Init
  <2>. QED  BY <1>1, <1>2, <2>1
<1>9. /\ irRing \in Rings(EdgeRing, Edges)
      /\ ppsRing \in Rings(PpsRing, 0 .. MaxPps)
      /\ rowRing \in Rings(SwingRing, Rows)
  BY <1>3, <1>4, <1>5, <1>7, Zenon DEF Init
<1>10. ready \in BOOLEAN
  BY <1>7, Zenon DEF Init
<1>. QED  BY <1>1, <1>6, <1>7, <1>8, <1>9, <1>10 DEF Init, TypeOK, Tick

\* The types of the state are kept by every step: no ring index leaves its
\* ring, no slot ever holds something else than its kind of item.
LEMMA StepTypes == TypeOK /\ [Next]_vars => TypeOK'
<1>. SUFFICES ASSUME TypeOK, [Next]_vars PROVE TypeOK'
  OBVIOUS
<1>. USE DEF TypeOK
<1>1. CASE IrIsr
  <2>1. [at |-> [tl |-> timeline, n |-> irSeen], type |-> side] \in Edges
    BY <1>1 DEF IrIsr, Edges, Stamps
  <2>2. RingPut(EdgeRing, irRing, [at |-> [tl |-> timeline, n |-> irSeen], type |-> side])
            \in Rings(EdgeRing, Edges)
    BY <2>1, RingTypes
  <2>3. irRing' \in Rings(EdgeRing, Edges) /\ droppedIr' \in Nat /\ lost' \in SUBSET (0 .. MaxEdges)
    <3>1. CASE RingIsFull(EdgeRing, irRing)
      <4>1. lost' = lost \cup {irSeen} /\ irSeen \in 0 .. MaxEdges
        BY <1>1, <3>1 DEF IrIsr
      <4>2. lost' \in SUBSET (0 .. MaxEdges)
        BY <4>1
      <4>. QED  BY <1>1, <3>1, <4>2 DEF IrIsr, CountIrDrop
    <3>2. CASE ~RingIsFull(EdgeRing, irRing)
      BY <1>1, <2>2, <3>2 DEF IrIsr
    <3>. QED  BY <3>1, <3>2
  <2>. QED  BY <1>1, <2>3 DEF IrIsr, Tick, Tock, asmVars, loopVars, hostVars
<1>2. CASE PpsIsr
  <2>1. ppsRing' \in Rings(PpsRing, 0 .. MaxPps) /\ droppedPps' \in Nat /\ ppsSeen' \in 0 .. MaxPps
    <3>1. ppsSeen + 1 \in 0 .. MaxPps
      BY <1>2 DEF PpsIsr
    <3>2. RingPut(PpsRing, ppsRing, ppsSeen + 1) \in Rings(PpsRing, 0 .. MaxPps)
      BY <3>1, RingTypes
    <3>. QED  BY <1>2, <3>1, <3>2 DEF PpsIsr
  <2>. QED  BY <1>2, <2>1 DEF PpsIsr, asmVars, loopVars, hostVars, histVars
<1>3. CASE FinishSetup
  BY <1>3 DEF FinishSetup, captureVars, asmVars, hostVars, histVars
<1>4. CASE NoCommand
  BY <1>4 DEF NoCommand, captureVars, asmVars, hostVars, histVars
<1>5. CASE ResetDefaults
  <2>1. irRing' \in Rings(EdgeRing, Edges) /\ ppsRing' \in Rings(PpsRing, 0 .. MaxPps)
    BY SMTT(20), <1>5 DEF ResetDefaults, ResetRing, Rings
  <2>2. timeline' \in 0 .. MaxResets /\ ready' \in BOOLEAN /\ budget' \in Nat
    <3>1. ready' = FALSE /\ timeline' = timeline + 1 /\ timeline < MaxResets /\ budget' = PpsBudget
      BY <1>5 DEF ResetDefaults, WithdrawOutput
    <3>2. ready' \in BOOLEAN
      BY <3>1, Zenon
    <3>. QED  BY <3>1, <3>2
  <2>3. lost' \in SUBSET (0 .. MaxEdges) /\ irSeen' \in 0 .. MaxEdges /\ ppsSeen' \in 0 .. MaxPps
    BY <1>5 DEF ResetDefaults
  <2>. QED  BY <1>5, <2>1, <2>2, <2>3 DEF ResetDefaults, Tick, hostVars
<1>6. CASE PopPps
  <2>1. ppsRing' \in Rings(PpsRing, 0 .. MaxPps) /\ cap' \in 0 .. MaxPps
    BY <1>6, RingTypes DEF PopPps
  <2>. QED  BY <1>6, <2>1 DEF PopPps, asmVars, hostVars, histVars
<1>7. CASE SendCps
  BY SMTT(20), <1>7 DEF SendCps, captureVars, asmVars, histVars
<1>8. CASE PpsDone
  BY <1>8 DEF PpsDone, captureVars, asmVars, hostVars, histVars
<1>9. CASE AssembleEdge
  <2>1. irRing' \in Rings(EdgeRing, Edges) /\ e' \in Edges
    BY <1>9, RingTypes DEF AssembleEdge
  <2>2. e'.at \in Stamps
    BY <2>1 DEF Edges
  <2>3. \A i \in 0 .. 4 : WithEdge(curr, i, e'.at) \in Rows
    BY <2>2, RowTypes
  <2>4. StartRow(curr, e'.at) \in Rows /\ StartRow(WithEdge(curr, 4, e'.at), e'.at) \in Rows
    BY <2>2, <2>3, RowTypes
  <2>5. ASSUME NEW row \in Rows, PushRow(row)
        PROVE  rowRing' \in Rings(SwingRing, Rows) /\ rowDrops' \in Nat /\ droppedRows' \in Nat
    <3>1. RingPut(SwingRing, rowRing, row) \in Rings(SwingRing, Rows)
      BY RingTypes
    <3>. QED  BY SMTT(20), <2>5, <3>1 DEF PushRow, CountRowDrop
  <2>6. /\ swingState' \in 0 .. 4 /\ curr' \in Rows /\ swingSeq' \in Nat
        /\ rowRing' \in Rings(SwingRing, Rows) /\ rowDrops' \in Nat /\ droppedRows' \in Nat
    <3>1. CASE UNCHANGED asmVars
      BY <3>1 DEF asmVars
    <3>2. CASE e'.type = Wanted /\ swingState = 0
      BY <1>9, <2>4, <3>2 DEF AssembleEdge
    <3>3. CASE e'.type = Wanted /\ swingState \in 1 .. 3
      <4>1. swingState \in 0 .. 4 /\ swingState # 0 /\ swingState # 4
        BY <3>3
      <4>2. curr' = WithEdge(curr, swingState, e'.at) /\ swingState' = swingState + 1
            /\ UNCHANGED <<swingSeq, rowRing, droppedRows, rowDrops>>
        BY <1>9, <3>3, <4>1 DEF AssembleEdge
      <4>3. curr' \in Rows
        BY <2>3, <4>1, <4>2
      <4>4. swingState' \in 0 .. 4
        BY <4>1, <4>2
      <4>. QED  BY <4>2, <4>3, <4>4
    <3>4. CASE e'.type = Wanted /\ swingState = 4
      <4>1. PushRow(WithEdge(curr, 4, e'.at))
        BY <1>9, <3>4 DEF AssembleEdge
      <4>2. rowRing' \in Rings(SwingRing, Rows) /\ rowDrops' \in Nat /\ droppedRows' \in Nat
        BY <4>1, <2>3, <2>5
      <4>. QED  BY <1>9, <2>4, <3>4, <4>2 DEF AssembleEdge
    <3>. QED  BY <1>9, <3>1, <3>2, <3>3, <3>4 DEF AssembleEdge
  <2>. QED  BY <1>9, <2>1, <2>6 DEF AssembleEdge, hostVars, histVars
<1>10. CASE EdgesDone
  BY <1>10 DEF EdgesDone, captureVars, asmVars, hostVars, histVars
<1>11. CASE PeekRow
  <2>1. fs' \in [row : Rows, dropIr : Nat]
    BY <1>11, RingTypes DEF PeekRow
  <2>. QED  BY <1>11, <2>1 DEF PeekRow, captureVars, asmVars, hostVars, histVars
<1>12. CASE SendRow
  <2>1. rowRing' \in Rings(SwingRing, Rows)
    BY <1>12, RingTypes DEF SendRow
  <2>. QED  BY <1>12, <2>1 DEF SendRow, captureVars
<1>. DEFINE Swing == [row : Rows, dropIr : Nat]
<1>13. NoSwing \in Swing
  BY DEF NoSwing, ZeroRow, Rows, ZeroStamp, Stamps
<1>14. CASE SendRowFails
  BY <1>13, <1>14 DEF SendRowFails, captureVars, asmVars, hostVars, histVars
<1>15. CASE EmitDone
  BY <1>13, <1>15 DEF EmitDone, captureVars, asmVars, hostVars, histVars
<1>16. CASE UNCHANGED vars
  BY <1>16 DEF vars, captureVars, asmVars, loopVars, hostVars, histVars
<1>. QED
  BY <1>1, <1>2, <1>3, <1>4, <1>5, <1>6, <1>7, <1>8, <1>9, <1>10, <1>11, <1>12, <1>14,
     <1>15, <1>16 DEF Next, Interrupt, Foreground

\* The type invariant holds for rings of any size and any budget.
THEOREM TypeCorrect == Spec => []TypeOK
  BY InitTypes, StepTypes, PTL DEF Spec
-----------------------------------------------------------------------------
(* No row disappears *)

\* While a row is being sent it is still the oldest row of the ring: the
\* retirement that follows takes the row that was sent, and no other.
PeekedIsOldest ==
    pc = "send" => ~RingIsEmpty(rowRing) /\ fs.row = RingOldest(rowRing)

LEMMA InitPeeked == Init => PeekedIsOldest
  BY DEF Init, PeekedIsOldest

LEMMA StepPeeked == PeekedIsOldest /\ [Next]_vars => PeekedIsOldest'
<1>. SUFFICES ASSUME PeekedIsOldest, [Next]_vars PROVE PeekedIsOldest'
  OBVIOUS
<1>. USE DEF PeekedIsOldest
<1>1. CASE Interrupt
  BY <1>1 DEF Interrupt, IrIsr, PpsIsr, asmVars, loopVars
<1>2. CASE PeekRow
  BY <1>2 DEF PeekRow, asmVars
<1>3. CASE UNCHANGED vars
  BY <1>3 DEF vars, asmVars, loopVars
<1>4. CASE Foreground /\ ~PeekRow
  <2>. SUFFICES pc' # "send"
    OBVIOUS
  <2>. QED
    BY <1>4 DEF Foreground, FinishSetup, NoCommand, ResetDefaults, PopPps, SendCps, PpsDone,
         AssembleEdge, EdgesDone, SendRow, SendRowFails, EmitDone
<1>. QED  BY <1>1, <1>2, <1>3, <1>4 DEF Next

LEMMA InitConserved == Init => RowsConserved
  BY DEF Init, RowsConserved, RingCount, EmptyRing

\* Only three steps touch what RowsConserved counts: a row is begun, a row is
\* completed (queued or refused) and a row is retired after its emission.
LEMMA StepConserved ==
    TypeOK /\ TypeOK' /\ PeekedIsOldest /\ RowsConserved /\ [Next]_vars => RowsConserved'
<1>. SUFFICES ASSUME TypeOK, TypeOK', PeekedIsOldest, RowsConserved, [Next]_vars
              PROVE  RowsConserved'
  OBVIOUS
<1>. DEFINE n == RingCount(SwingRing, rowRing)
<1>1. /\ rowRing \in Rings(SwingRing, Rows) /\ rowRing' \in Rings(SwingRing, Rows)
      /\ swingSeq \in Nat /\ rowDrops \in Nat /\ sent \in Nat /\ swingState \in 0 .. 4
      /\ rowDrops' \in Nat
  BY DEF TypeOK
<1>2. n \in Nat /\ n' \in Nat
  BY <1>1, RingCounts
<1>3. swingSeq = sent + n + rowDrops + (IF swingState = 0 THEN 0 ELSE 1)
  BY DEF RowsConserved
<1>4. CASE UNCHANGED <<swingState, swingSeq, rowRing, rowDrops, sent>>
  BY <1>3, <1>4 DEF RowsConserved
<1>5. CASE AssembleEdge
  <2>1. sent' = sent
    BY <1>5 DEF AssembleEdge, histVars
  <2>2. CASE UNCHANGED asmVars
    BY <1>4, <2>1, <2>2 DEF asmVars
  <2>3. CASE swingState = 0 /\ swingSeq' = swingSeq + 1 /\ swingState' = 1
             /\ UNCHANGED <<rowRing, rowDrops>>
    BY <1>1, <1>2, <1>3, <2>1, <2>3 DEF RowsConserved
  <2>4. CASE swingState \in 1 .. 3 /\ swingState' = swingState + 1
             /\ UNCHANGED <<swingSeq, rowRing, rowDrops>>
    BY <1>1, <1>2, <1>3, <2>1, <2>4 DEF RowsConserved
  <2>5. CASE swingState = 4 /\ swingSeq' = swingSeq + 1 /\ swingState' = 1
             /\ PushRow(WithEdge(curr, 4, e'.at))
    <3>1. WithEdge(curr, 4, e'.at) \in Rows
      <4>1. curr \in Rows /\ e'.at \in Stamps
        BY DEF TypeOK, Edges
      <4>. QED  BY <1>1, <4>1, RowTypes
    <3>2. n' + rowDrops' = n + rowDrops + 1
      <4>1. CASE RingIsFull(SwingRing, rowRing)
        BY <1>1, <1>2, <2>5, <4>1 DEF PushRow, CountRowDrop
      <4>2. CASE ~RingIsFull(SwingRing, rowRing)
        <5>1. rowRing' = RingPut(SwingRing, rowRing, WithEdge(curr, 4, e'.at))
              /\ rowDrops' = rowDrops
          BY <2>5, <4>2 DEF PushRow
        <5>2. n' = n + 1
          BY <1>1, <3>1, <4>2, <5>1, RingCountSteps
        <5>. QED  BY <1>1, <1>2, <5>1, <5>2
      <4>. QED  BY <4>1, <4>2
    <3>. QED  BY <1>1, <1>2, <1>3, <2>1, <2>5, <3>2 DEF RowsConserved
  <2>. QED  BY <1>5, <2>2, <2>3, <2>4, <2>5 DEF AssembleEdge
<1>6. CASE SendRow
  <2>1. ~RingIsEmpty(rowRing) /\ rowRing' = RingDrop(SwingRing, rowRing) /\ sent' = sent + 1
        /\ UNCHANGED <<swingState, swingSeq, rowDrops>>
    BY <1>6 DEF SendRow, PeekedIsOldest
  <2>2. n' = n - 1
    <3>1. PICK row : row \in Rows
      BY DEF TypeOK
    <3>. QED  BY <1>1, <2>1, <3>1, RingCountSteps
  <2>. QED  BY <1>1, <1>2, <1>3, <2>1, <2>2 DEF RowsConserved
<1>7. CASE ResetDefaults
  BY <1>4, <1>7 DEF ResetDefaults
<1>8. CASE Next /\ ~AssembleEdge /\ ~SendRow /\ ~ResetDefaults
  <2>1. UNCHANGED asmVars /\ sent' = sent
    BY <1>8 DEF Next, Interrupt, Foreground, IrIsr, PpsIsr, FinishSetup, NoCommand, PopPps,
         SendCps, PpsDone, EdgesDone, PeekRow, SendRowFails, EmitDone, histVars
  <2>. QED  BY <1>4, <2>1 DEF asmVars
<1>9. CASE UNCHANGED vars
  BY <1>4, <1>9 DEF vars, asmVars, histVars
<1>. QED  BY <1>5, <1>6, <1>7, <1>8, <1>9

\* Every row number handed out is emitted, queued, counted as dropped or
\* being assembled, for rings and budgets of any size.
THEOREM RowsNeverVanish == Spec => []RowsConserved
<1>1. Init => TypeOK /\ PeekedIsOldest /\ RowsConserved
  BY InitTypes, InitPeeked, InitConserved
<1>2. TypeOK /\ PeekedIsOldest /\ RowsConserved /\ [Next]_vars
        => (TypeOK /\ PeekedIsOldest /\ RowsConserved)'
  BY StepTypes, StepPeeked, StepConserved
<1>. QED  BY <1>1, <1>2, PTL DEF Spec
-----------------------------------------------------------------------------
(***************************************************************************)
(* The three rings of CapturePipeline implement LossyFifo, for every ring  *)
(* size: the interrupts and the foreground, in any interleaving, never     *)
(* reorder, repeat or lose an item the ring accepted.                      *)
(***************************************************************************)

LEMMA InitRings ==
    Init => /\ RingItems(EdgeRing, irRing) = <<>>
            /\ RingItems(PpsRing, ppsRing) = <<>>
            /\ RingItems(SwingRing, rowRing) = <<>>
<1>. SUFFICES ASSUME Init
              PROVE  /\ RingItems(EdgeRing, irRing) = <<>>
                     /\ RingItems(PpsRing, ppsRing) = <<>>
                     /\ RingItems(SwingRing, rowRing) = <<>>
  OBVIOUS
<1>1. /\ irRing \in Rings(EdgeRing, Edges)
      /\ ppsRing \in Rings(PpsRing, 0 .. MaxPps)
      /\ rowRing \in Rings(SwingRing, Rows)
  BY InitTypes DEF TypeOK
<1>2. RingIsEmpty(irRing) /\ RingIsEmpty(ppsRing) /\ RingIsEmpty(rowRing)
  BY DEF Init, EmptyRing, RingIsEmpty
<1>. QED  BY <1>1, <1>2, RingEmptyItems
-----------------------------------------------------------------------------
(* IR edges *)

LEMMA EdgeFifoStep == TypeOK /\ [Next]_vars => [EdgeFifo!Next]_(EdgeFifo!fifoVars)
<1>. SUFFICES ASSUME TypeOK, [Next]_vars PROVE [EdgeFifo!Next]_(EdgeFifo!fifoVars)
  OBVIOUS
<1>. USE DEF EdgeFifo!Next, EdgeFifo!fifoVars
<1>1. irRing \in Rings(EdgeRing, Edges)
  BY DEF TypeOK
<1>2. CASE IrIsr
  <2>. DEFINE edge == [at |-> [tl |-> timeline, n |-> irSeen], type |-> side]
  <2>1. edge \in Edges
    BY DEF TypeOK, Edges, Stamps
  <2>2. e' = e /\ timeline' = timeline
    BY <1>2 DEF IrIsr, loopVars
  <2>3. CASE RingIsFull(EdgeRing, irRing)
    <3>1. Len(RingItems(EdgeRing, irRing)) = EdgeRing - 1
      BY <1>1, <2>3, RingFullLength
    <3>2. irRing' = irRing /\ droppedIr' = droppedIr + 1
      BY <1>2, <2>3 DEF IrIsr, CountIrDrop
    <3>. QED  BY <2>2, <3>1, <3>2 DEF EdgeFifo!Refuse
  <2>4. CASE ~RingIsFull(EdgeRing, irRing)
    <3>1. irRing' = RingPut(EdgeRing, irRing, edge) /\ droppedIr' = droppedIr
      BY <1>2, <2>4 DEF IrIsr
    <3>2. /\ Len(RingItems(EdgeRing, irRing)) < EdgeRing - 1
          /\ RingItems(EdgeRing, RingPut(EdgeRing, irRing, edge)) \in Seq(Edges)
          /\ Len(RingItems(EdgeRing, RingPut(EdgeRing, irRing, edge)))
                = Len(RingItems(EdgeRing, irRing)) + 1
          /\ \A k \in 1 .. Len(RingItems(EdgeRing, irRing)) :
                RingItems(EdgeRing, RingPut(EdgeRing, irRing, edge))[k]
                  = RingItems(EdgeRing, irRing)[k]
      BY <1>1, <2>1, <2>4, RingPutAccepts
    <3>3. EdgeFifo!Accept
      BY <2>2, <3>1, <3>2 DEF EdgeFifo!Accept
    <3>. QED  BY <3>3
  <2>. QED  BY <2>3, <2>4
<1>3. CASE AssembleEdge
  <2>1. /\ ~RingIsEmpty(irRing) /\ e' = RingOldest(irRing)
        /\ irRing' = RingDrop(EdgeRing, irRing) /\ droppedIr' = droppedIr
        /\ timeline' = timeline
    BY <1>3 DEF AssembleEdge, hostVars, histVars
  <2>. QED  BY <1>1, <2>1, RingDropTakesHead DEF EdgeFifo!Take
<1>4. CASE ResetDefaults
  <2>1. /\ irRing' = ResetRing(irRing) /\ droppedIr' = 0 /\ e' = e
        /\ timeline' = timeline + 1
    BY <1>4 DEF ResetDefaults
  <2>2. irRing' \in Rings(EdgeRing, Edges) /\ RingIsEmpty(irRing')
    BY <1>1, <2>1 DEF ResetRing, Rings, RingIsEmpty
  <2>. QED  BY <2>1, <2>2, RingEmptyItems DEF EdgeFifo!Reset
<1>5. CASE UNCHANGED <<irRing, e, droppedIr, timeline>>
  BY <1>5
<1>6. CASE UNCHANGED vars
  BY <1>5, <1>6 DEF vars, captureVars, loopVars, histVars
<1>7. CASE Next /\ ~IrIsr /\ ~AssembleEdge /\ ~ResetDefaults
  BY <1>5, <1>7 DEF Next, Interrupt, Foreground, PpsIsr, FinishSetup, NoCommand, PopPps, SendCps,
       PpsDone, EdgesDone, PeekRow, SendRow, SendRowFails, EmitDone, captureVars, loopVars, histVars
<1>. QED  BY <1>2, <1>3, <1>4, <1>6, <1>7

\* The ISR and the assembler share a lossy FIFO of EdgeRing - 1 edges.
THEOREM EdgesImplementFifo == Spec => EdgesAreFifo
<1>1. Init => EdgeFifo!Init
  BY InitRings, InitTypes DEF Init, TypeOK, EdgeFifo!Init
<1>. QED  BY <1>1, EdgeFifoStep, TypeCorrect, PTL DEF Spec, EdgesAreFifo, EdgeFifo!Spec
-----------------------------------------------------------------------------
(* PPS captures *)

LEMMA PpsFifoStep == TypeOK /\ [Next]_vars => [PpsFifo!Next]_(PpsFifo!fifoVars)
<1>. SUFFICES ASSUME TypeOK, [Next]_vars PROVE [PpsFifo!Next]_(PpsFifo!fifoVars)
  OBVIOUS
<1>. USE DEF PpsFifo!Next, PpsFifo!fifoVars
<1>1. ppsRing \in Rings(PpsRing, 0 .. MaxPps)
  BY DEF TypeOK
<1>2. CASE PpsIsr
  <2>1. ppsSeen + 1 \in 0 .. MaxPps /\ cap' = cap /\ timeline' = timeline
    BY <1>2 DEF PpsIsr, loopVars, histVars, TypeOK
  <2>2. CASE RingIsFull(PpsRing, ppsRing)
    <3>1. Len(RingItems(PpsRing, ppsRing)) = PpsRing - 1
      BY <1>1, <2>2, RingFullLength
    <3>2. ppsRing' = ppsRing /\ droppedPps' = droppedPps + 1
      BY <1>2, <2>2 DEF PpsIsr
    <3>. QED  BY <2>1, <3>1, <3>2 DEF PpsFifo!Refuse
  <2>3. CASE ~RingIsFull(PpsRing, ppsRing)
    <3>. DEFINE Pulses == 0 .. MaxPps
                pulse == ppsSeen + 1
    <3>1. ppsRing' = RingPut(PpsRing, ppsRing, pulse) /\ droppedPps' = droppedPps
      BY <1>2, <2>3 DEF PpsIsr
    <3>2. ppsRing \in Rings(PpsRing, Pulses) /\ pulse \in Pulses
      BY <1>1, <2>1
    <3>. HIDE DEF Pulses, pulse
    <3>3. /\ Len(RingItems(PpsRing, ppsRing)) < PpsRing - 1
          /\ RingItems(PpsRing, RingPut(PpsRing, ppsRing, pulse)) \in Seq(Pulses)
          /\ Len(RingItems(PpsRing, RingPut(PpsRing, ppsRing, pulse)))
                = Len(RingItems(PpsRing, ppsRing)) + 1
          /\ \A k \in 1 .. Len(RingItems(PpsRing, ppsRing)) :
                RingItems(PpsRing, RingPut(PpsRing, ppsRing, pulse))[k]
                  = RingItems(PpsRing, ppsRing)[k]
      BY <2>3, <3>2, RingPutAccepts
    <3>4. PpsFifo!Accept
      BY <2>1, <3>1, <3>3 DEF PpsFifo!Accept, Pulses
    <3>. QED  BY <3>4
  <2>. QED  BY <2>2, <2>3
<1>3. CASE PopPps
  <2>1. /\ ~RingIsEmpty(ppsRing) /\ cap' = RingOldest(ppsRing)
        /\ ppsRing' = RingDrop(PpsRing, ppsRing) /\ droppedPps' = droppedPps
        /\ timeline' = timeline
    BY <1>3 DEF PopPps, histVars
  <2>. QED  BY <1>1, <2>1, RingDropTakesHead DEF PpsFifo!Take
<1>4. CASE ResetDefaults
  <2>1. /\ ppsRing' = ResetRing(ppsRing) /\ droppedPps' = 0 /\ cap' = cap
        /\ timeline' = timeline + 1
    BY <1>4 DEF ResetDefaults
  <2>2. ppsRing' \in Rings(PpsRing, 0 .. MaxPps) /\ RingIsEmpty(ppsRing')
    BY <1>1, <2>1 DEF ResetRing, Rings, RingIsEmpty
  <2>. QED  BY <2>1, <2>2, RingEmptyItems DEF PpsFifo!Reset
<1>5. CASE UNCHANGED <<ppsRing, cap, droppedPps, timeline>>
  BY <1>5
<1>6. CASE UNCHANGED vars
  BY <1>5, <1>6 DEF vars, captureVars, loopVars, histVars
<1>7. CASE Next /\ ~PpsIsr /\ ~PopPps /\ ~ResetDefaults
  BY <1>5, <1>7 DEF Next, Interrupt, Foreground, IrIsr, FinishSetup, NoCommand, AssembleEdge,
       SendCps, PpsDone, EdgesDone, PeekRow, SendRow, SendRowFails, EmitDone, captureVars, loopVars, histVars
<1>. QED  BY <1>2, <1>3, <1>4, <1>6, <1>7

\* The ISR and process_pps share a lossy FIFO of PpsRing - 1 captures.
THEOREM PpsImplementFifo == Spec => PpsAreFifo
<1>1. Init => PpsFifo!Init
  BY InitRings, InitTypes DEF Init, TypeOK, PpsFifo!Init
<1>. QED  BY <1>1, PpsFifoStep, TypeCorrect, PTL DEF Spec, PpsAreFifo, PpsFifo!Spec
-----------------------------------------------------------------------------
(* Swing rows *)

LEMMA RowFifoStep ==
    TypeOK /\ TypeOK' /\ PeekedIsOldest /\ [Next]_vars => [RowFifo!Next]_(RowFifo!fifoVars)
<1>. SUFFICES ASSUME TypeOK, TypeOK', PeekedIsOldest, [Next]_vars
              PROVE  [RowFifo!Next]_(RowFifo!fifoVars)
  OBVIOUS
<1>. USE DEF RowFifo!Next, RowFifo!fifoVars
<1>1. rowRing \in Rings(SwingRing, Rows)
  BY DEF TypeOK
<1>2. CASE UNCHANGED <<rowRing, csw, rowDrops>>
  BY <1>2
<1>3. CASE AssembleEdge
  <2>. DEFINE row == WithEdge(curr, 4, e'.at)
  <2>1. csw' = csw
    BY <1>3 DEF AssembleEdge, hostVars
  <2>2. row \in Rows
    <3>1. curr \in Rows /\ e'.at \in Stamps /\ swingSeq \in Nat
      BY DEF TypeOK, Edges
    <3>. QED  BY <3>1, RowTypes
  <2>3. CASE PushRow(row) /\ RingIsFull(SwingRing, rowRing)
    <3>1. Len(RingItems(SwingRing, rowRing)) = SwingRing - 1
      BY <1>1, <2>3, RingFullLength
    <3>2. rowRing' = rowRing /\ rowDrops' = rowDrops + 1
      BY <2>3 DEF PushRow, CountRowDrop
    <3>. QED  BY <2>1, <3>1, <3>2 DEF RowFifo!Refuse
  <2>4. CASE PushRow(row) /\ ~RingIsFull(SwingRing, rowRing)
    <3>1. rowRing' = RingPut(SwingRing, rowRing, row) /\ rowDrops' = rowDrops
      BY <2>4 DEF PushRow
    <3>2. /\ Len(RingItems(SwingRing, rowRing)) < SwingRing - 1
          /\ RingItems(SwingRing, RingPut(SwingRing, rowRing, row)) \in Seq(Rows)
          /\ Len(RingItems(SwingRing, RingPut(SwingRing, rowRing, row)))
                = Len(RingItems(SwingRing, rowRing)) + 1
          /\ \A k \in 1 .. Len(RingItems(SwingRing, rowRing)) :
                RingItems(SwingRing, RingPut(SwingRing, rowRing, row))[k]
                  = RingItems(SwingRing, rowRing)[k]
      BY <1>1, <2>2, <2>4, RingPutAccepts
    <3>3. RowFifo!Accept
      BY <2>1, <3>1, <3>2 DEF RowFifo!Accept
    <3>. QED  BY <3>3
  <2>5. CASE UNCHANGED <<rowRing, rowDrops>>
    BY <1>2, <2>1, <2>5
  <2>. QED  BY <1>3, <2>3, <2>4, <2>5 DEF AssembleEdge, asmVars
<1>4. CASE SendRow
  <2>1. /\ ~RingIsEmpty(rowRing) /\ csw'.row = RingOldest(rowRing)
        /\ rowRing' = RingDrop(SwingRing, rowRing) /\ rowDrops' = rowDrops
    BY <1>4 DEF SendRow, PeekedIsOldest
  <2>. QED  BY <1>1, <2>1, RingDropTakesHead DEF RowFifo!Take
<1>5. CASE ResetDefaults
  BY <1>2, <1>5 DEF ResetDefaults, hostVars
<1>6. CASE UNCHANGED vars
  BY <1>2, <1>6 DEF vars, asmVars, hostVars
<1>7. CASE Next /\ ~AssembleEdge /\ ~SendRow /\ ~ResetDefaults /\ ~SendCps
  BY <1>2, <1>7 DEF Next, Interrupt, Foreground, IrIsr, PpsIsr, FinishSetup, NoCommand, PopPps,
       PpsDone, EdgesDone, PeekRow, SendRowFails, EmitDone, asmVars, hostVars
<1>8. CASE SendCps
  BY <1>2, <1>8 DEF SendCps, asmVars
<1>. QED  BY <1>3, <1>4, <1>5, <1>6, <1>7, <1>8

\* The host sees the rows of a lossy FIFO of SwingRing - 1 rows: retries of a
\* refused emission neither repeat nor reorder them.
THEOREM RowsImplementFifo == Spec => RowsAreFifo
<1>1. Init => RowFifo!Init
  <2>1. Init => csw.row \in Rows /\ rowDrops = 0
    BY InitTypes DEF Init, TypeOK
  <2>. QED  BY <2>1, InitRings DEF RowFifo!Init
<1>2. Init => PeekedIsOldest
  BY InitPeeked
<1>3. PeekedIsOldest /\ [Next]_vars => PeekedIsOldest'
  BY StepPeeked
<1>. QED  BY <1>1, <1>2, <1>3, RowFifoStep, TypeCorrect, PTL DEF Spec, RowsAreFifo, RowFifo!Spec
-----------------------------------------------------------------------------
(***************************************************************************)
(* Rows of consecutive edges.  Types are parities: the side alternates, so *)
(* an edge of the type the assembler does not wait for is behind a lost    *)
(* one.                                                                    *)
(***************************************************************************)

Queue == RingItems(EdgeRing, irRing)
Queued(x) == \E j \in 1 .. Len(Queue) : Queue[j].at.n = x
LostBetween(a, b) == \E x \in lost : a < x /\ x < b

\* Every edge since the oldest that waits has a place in the queue or was lost.
QueueIsCapture ==
    /\ side = irSeen % 2
    /\ \A x \in lost : x < irSeen
    /\ \A k \in 1 .. Len(Queue) :
           /\ Queue[k].at.tl = timeline /\ Queue[k].at.n < irSeen
           /\ Queue[k].type = Queue[k].at.n % 2
           /\ \A j \in 1 .. Len(Queue) : j < k => Queue[j].at.n < Queue[k].at.n
           /\ \A x \in 0 .. MaxEdges : (Queue[k].at.n < x /\ x < irSeen) => x \in lost \/ Queued(x)

\* The row being assembled, if it began in this timeline: what came after its
\* newest edge waits, was lost, or is behind a lost one.
Newest == curr.edge[swingState - 1].n
RowIsCapture ==
    (swingState > 0 /\ curr.edge[0].tl = timeline) =>
        /\ \A i \in 0 .. swingState - 1 : curr.edge[i].tl = timeline
        /\ Newest < irSeen /\ Newest % 2 = (swingState - 1) % 2
        /\ curr.edge[0].n <= Newest
        /\ LostBetween(curr.edge[0].n, Newest)
            \/ \A i \in 1 .. swingState - 1 : curr.edge[i].n = curr.edge[0].n + i
        /\ \A k \in 1 .. Len(Queue) : Newest < Queue[k].at.n
        /\ \A x \in 0 .. MaxEdges :
               (Newest < x /\ x < irSeen) => x \in lost \/ Queued(x) \/ LostBetween(Newest, x)

\* A complete row is of the past: no later loss falls between its edges.
Settled(row) ==
    /\ \A i \in 0 .. 4 : row.edge[i].tl <= timeline
    /\ row.edge[4].tl = timeline => row.edge[4].n < irSeen
    /\ Contiguous(row)

RowsAreSettled ==
    /\ \A i \in 0 .. 4 : curr.edge[i].tl <= timeline
    /\ \A k \in 1 .. Len(PendingRows) : Settled(PendingRows[k])
    /\ sent > 0 => Settled(csw.row)

ContiguityInv == QueueIsCapture /\ RowIsCapture /\ RowsAreSettled

\* The counter is the number of edges lost, and what was read of it covers
\* the losses before the row it was read for.
LostBefore(row) == {x \in lost : x < row.edge[4].n}
CountCovers ==
    /\ IsFiniteSet(lost) /\ droppedIr = Cardinality(lost)
    /\ (pc = "send" /\ fs.row.edge[4].tl = timeline) => fs.dropIr >= Cardinality(LostBefore(fs.row))
-----------------------------------------------------------------------------
LEMMA Parity ==
    ASSUME NEW n \in Nat
    PROVE  n % 2 \in {0, 1} /\ (n + 1) % 2 = 1 - (n % 2)
  OBVIOUS

LEMMA QueueTypes ==
    ASSUME TypeOK
    PROVE  /\ irRing \in Rings(EdgeRing, Edges) /\ rowRing \in Rings(SwingRing, Rows)
           /\ Queue \in Seq(Edges) /\ Len(Queue) \in Nat
           /\ \A k \in 1 .. Len(Queue) :
                 Queue[k] \in Edges /\ Queue[k].at \in Stamps /\ Queue[k].at.n \in 0 .. MaxEdges
<1>1. irRing \in Rings(EdgeRing, Edges) /\ rowRing \in Rings(SwingRing, Rows)
  BY DEF TypeOK
<1>2. Queue \in Seq(Edges) /\ Len(Queue) \in Nat
  BY <1>1, RingItemsType DEF Queue
<1>3. \A k \in 1 .. Len(Queue) : Queue[k] \in Edges
  BY <1>2
<1>4. \A edge \in Edges : edge.at \in Stamps /\ edge.at.n \in 0 .. MaxEdges
  BY DEF Edges, Stamps
<1>. QED  BY <1>1, <1>2, <1>3, <1>4

\* An edge is captured: it is appended or lost.
LEMMA CapturedEdge ==
    ASSUME TypeOK, IrIsr
    PROVE  /\ irSeen' = irSeen + 1 /\ side' = 1 - side /\ irSeen < MaxEdges
           /\ UNCHANGED <<timeline, swingState, curr, rowRing, csw, sent, pc, fs>>
           /\ \/ lost' = lost \cup {irSeen} /\ droppedIr' = droppedIr + 1 /\ Queue' = Queue
              \/ /\ lost' = lost /\ droppedIr' = droppedIr /\ Len(Queue') = Len(Queue) + 1
                 /\ Queue'[Len(Queue) + 1] = [at |-> [tl |-> timeline, n |-> irSeen], type |-> side]
                 /\ \A k \in 1 .. Len(Queue) : Queue'[k] = Queue[k]
<1>. DEFINE edge == [at |-> [tl |-> timeline, n |-> irSeen], type |-> side]
<1>1. /\ irSeen' = irSeen + 1 /\ side' = 1 - side /\ irSeen < MaxEdges
      /\ UNCHANGED <<timeline, swingState, curr, rowRing, csw, sent, pc, fs>>
  BY DEF IrIsr, asmVars, loopVars, hostVars
<1>2. CASE RingIsFull(EdgeRing, irRing)
  BY <1>1, <1>2 DEF IrIsr, CountIrDrop, Queue
<1>3. CASE ~RingIsFull(EdgeRing, irRing)
  <2>1. irRing' = RingPut(EdgeRing, irRing, edge) /\ droppedIr' = droppedIr /\ lost' = lost
    BY <1>3 DEF IrIsr
  <2>2. edge \in Edges
    BY DEF TypeOK, Edges, Stamps
  <2>3. irRing \in Rings(EdgeRing, Edges)
    BY DEF TypeOK
  <2>4. Len(Queue) = RingCount(EdgeRing, irRing)
    BY <2>3, RingItemsType DEF Queue
  <2>. HIDE DEF edge
  <2>5. /\ Queue'[Len(Queue) + 1] = edge
        /\ \A k \in 1 .. Len(Queue) : Queue'[k] = Queue[k]
    BY <1>3, <2>1, <2>2, <2>3, <2>4, RingPutAppends DEF Queue
  <2>6. Len(Queue') = Len(Queue) + 1
    BY <1>3, <2>1, <2>2, <2>3, RingPutAccepts DEF Queue
  <2>. QED  BY <1>1, <2>1, <2>5, <2>6 DEF edge
<1>. QED  BY <1>2, <1>3

\* The assembler takes the oldest edge that waits.
LEMMA PoppedEdge ==
    ASSUME TypeOK, AssembleEdge
    PROVE  /\ Len(Queue) >= 1 /\ e' = Queue[1] /\ Len(Queue') = Len(Queue) - 1
           /\ \A k \in 1 .. Len(Queue') : Queue'[k] = Queue[k + 1]
           /\ UNCHANGED <<side, irSeen, lost, timeline, droppedIr, csw, sent, pc, fs>>
<1>1. /\ ~RingIsEmpty(irRing) /\ e' = RingOldest(irRing) /\ irRing' = RingDrop(EdgeRing, irRing)
      /\ UNCHANGED <<side, irSeen, lost, timeline, droppedIr, csw, sent, pc, fs>>
  BY DEF AssembleEdge, hostVars, histVars
<1>2. irRing \in Rings(EdgeRing, Edges)
  BY DEF TypeOK
<1>. QED  BY <1>1, <1>2, RingDropShifts DEF Queue
\* A reset empties the queue, forgets the losses and begins a timeline.
LEMMA ResetQueue ==
    ASSUME TypeOK, ResetDefaults
    PROVE  /\ Len(Queue') = 0 /\ lost' = {} /\ irSeen' = 0 /\ side' = Tick /\ droppedIr' = 0
           /\ timeline' = timeline + 1 /\ timeline \in Nat /\ pc' = "pps"
           /\ UNCHANGED <<swingState, curr, rowRing, csw, sent, fs>>
<1>1. irRing' \in Rings(EdgeRing, Edges) /\ RingIsEmpty(irRing')
  BY DEF ResetDefaults, ResetRing, Rings, RingIsEmpty, TypeOK
<1>2. Len(Queue') = 0
  BY <1>1, RingItemsType, RingCounts DEF Queue
<1>. QED  BY <1>2 DEF ResetDefaults, hostVars, TypeOK

\* What the other steps leave alone.
LEMMA OtherSteps ==
    ASSUME [Next]_vars, ~IrIsr, ~AssembleEdge, ~ResetDefaults
    PROVE  /\ UNCHANGED <<side, irRing, droppedIr, swingState, curr, timeline, irSeen, lost>>
           /\ SendRow \/ UNCHANGED <<rowRing, csw, sent>>
           /\ PeekRow \/ pc' # "send" \/ UNCHANGED <<pc, fs>>
<1>1. CASE UNCHANGED vars
  BY <1>1 DEF vars, captureVars, asmVars, loopVars, hostVars, histVars
<1>2. CASE PpsIsr \/ FinishSetup \/ NoCommand \/ PopPps \/ SendCps \/ PpsDone \/ EdgesDone
  BY <1>2 DEF PpsIsr, FinishSetup, NoCommand, PopPps, SendCps, PpsDone, EdgesDone,
       captureVars, asmVars, loopVars, hostVars, histVars
<1>3. CASE PeekRow \/ SendRow \/ SendRowFails \/ EmitDone
  BY <1>3 DEF PeekRow, SendRow, SendRowFails, EmitDone, captureVars, asmVars, hostVars, histVars
<1>. QED  BY <1>1, <1>2, <1>3 DEF Next, Interrupt, Foreground

LEMMA QueueStep == TypeOK /\ QueueIsCapture /\ [Next]_vars => QueueIsCapture'
<1>. SUFFICES ASSUME TypeOK, QueueIsCapture, [Next]_vars PROVE QueueIsCapture'
  OBVIOUS
<1>1. /\ irSeen \in 0 .. MaxEdges /\ lost \in SUBSET (0 .. MaxEdges) /\ Len(Queue) \in Nat
      /\ \A k \in 1 .. Len(Queue) : Queue[k].at.n \in 0 .. MaxEdges
  BY QueueTypes DEF TypeOK
<1>2. CASE IrIsr
  <2>1. side' = irSeen' % 2
    BY <1>1, <1>2, CapturedEdge, Parity DEF QueueIsCapture
  <2>2. \A x \in lost' : x < irSeen'
    <3>1. lost' \subseteq lost \cup {irSeen} /\ irSeen' = irSeen + 1
      BY <1>2, CapturedEdge
    <3>. QED  BY <1>1, <3>1 DEF QueueIsCapture
  <2>3. CASE lost' = lost \cup {irSeen} /\ Queue' = Queue
    <3>1. \A x : Queued(x)' <=> Queued(x)
      BY <2>3 DEF Queued
    <3>2. irSeen' = irSeen + 1 /\ timeline' = timeline
      BY <1>2, CapturedEdge
    <3>3. ASSUME NEW k \in 1 .. Len(Queue), NEW x \in 0 .. MaxEdges, Queue[k].at.n < x, x < irSeen'
          PROVE  x \in lost' \/ Queued(x)'
      <4>1. x < irSeen \/ x = irSeen
        BY <1>1, <3>2, <3>3
      <4>. QED  BY <2>3, <3>1, <3>3, <4>1 DEF QueueIsCapture
    <3>4. \A k \in 1 .. Len(Queue) : Queue[k].at.n < irSeen'
      BY <1>1, <3>2 DEF QueueIsCapture
    <3>. QED  BY <2>1, <2>2, <2>3, <3>2, <3>3, <3>4 DEF QueueIsCapture
  <2>4. CASE /\ lost' = lost /\ Len(Queue') = Len(Queue) + 1
             /\ Queue'[Len(Queue) + 1] = [at |-> [tl |-> timeline, n |-> irSeen], type |-> side]
             /\ \A k \in 1 .. Len(Queue) : Queue'[k] = Queue[k]
    <3>1. irSeen' = irSeen + 1 /\ timeline' = timeline
      BY <1>2, CapturedEdge
    <3>2. /\ Queue'[Len(Queue) + 1].at.n = irSeen /\ Queue'[Len(Queue) + 1].at.tl = timeline
          /\ Queue'[Len(Queue) + 1].type = irSeen % 2
      BY <2>4 DEF QueueIsCapture
    <3>3. \A x : Queued(x) => Queued(x)'
      BY <1>1, <2>4 DEF Queued
    <3>4. ASSUME NEW x, x = irSeen PROVE Queued(x)'
      <4>1. Len(Queue) + 1 \in 1 .. Len(Queue')
        BY <1>1, <2>4
      <4>. QED  BY <3>2, <3>4, <4>1 DEF Queued
    <3>5. ASSUME NEW k \in 1 .. Len(Queue')
          PROVE  /\ Queue'[k].at.tl = timeline' /\ Queue'[k].at.n < irSeen'
                 /\ Queue'[k].type = Queue'[k].at.n % 2
                 /\ \A j \in 1 .. Len(Queue') : j < k => Queue'[j].at.n < Queue'[k].at.n
                 /\ \A x \in 0 .. MaxEdges :
                        (Queue'[k].at.n < x /\ x < irSeen') => x \in lost' \/ Queued(x)'
      <4>1. CASE k \in 1 .. Len(Queue)
        <5>1. Queue'[k] = Queue[k]
          BY <2>4, <4>1
        <5>2. \A j \in 1 .. Len(Queue') : j < k => j \in 1 .. Len(Queue) /\ Queue'[j] = Queue[j]
          BY <1>1, <2>4, <4>1
        <5>3. ASSUME NEW x \in 0 .. MaxEdges, Queue[k].at.n < x, x < irSeen'
              PROVE  x \in lost' \/ Queued(x)'
          <6>1. x < irSeen \/ x = irSeen
            BY <1>1, <3>1, <5>3
          <6>. QED  BY <2>4, <3>3, <3>4, <4>1, <5>3, <6>1 DEF QueueIsCapture
        <5>4. Queue[k].at.n < irSeen'
          BY <1>1, <3>1, <4>1 DEF QueueIsCapture
        <5>. QED  BY <3>1, <4>1, <5>1, <5>2, <5>3, <5>4 DEF QueueIsCapture
      <4>2. CASE k = Len(Queue) + 1
        <5>1. \A j \in 1 .. Len(Queue') : j < k => j \in 1 .. Len(Queue) /\ Queue'[j] = Queue[j]
          BY <1>1, <2>4, <4>2
        <5>2. /\ Queue'[k].at.tl = timeline' /\ Queue'[k].at.n = irSeen
              /\ Queue'[k].type = Queue'[k].at.n % 2
          BY <3>1, <3>2, <4>2
        <5>3. \A j \in 1 .. Len(Queue') : j < k => Queue'[j].at.n < Queue'[k].at.n
          BY <5>1, <5>2 DEF QueueIsCapture
        <5>4. irSeen \in Nat /\ irSeen' = irSeen + 1
          BY <1>1, <3>1
        <5>5. Queue'[k].at.n < irSeen'
          BY <5>2, <5>4
        <5>6. \A x \in 0 .. MaxEdges : ~(Queue'[k].at.n < x /\ x < irSeen')
          BY <5>2, <5>4
        <5>. QED  BY <5>2, <5>3, <5>5, <5>6
      <4>. QED  BY <1>1, <2>4, <4>1, <4>2
    <3>. QED  BY <2>1, <2>2, <3>5 DEF QueueIsCapture
  <2>. QED  BY <1>2, <2>3, <2>4, CapturedEdge
<1>3. CASE AssembleEdge
  <2>1. /\ Len(Queue) >= 1 /\ Len(Queue') = Len(Queue) - 1
        /\ \A k \in 1 .. Len(Queue') : Queue'[k] = Queue[k + 1]
        /\ UNCHANGED <<side, irSeen, lost, timeline>>
    BY <1>3, PoppedEdge
  <2>2. \A k \in 1 .. Len(Queue') : k + 1 \in 1 .. Len(Queue)
    BY <1>1, <2>1
  <2>3. ASSUME NEW k \in 1 .. Len(Queue'), NEW x \in 0 .. MaxEdges, Queue'[k].at.n < x, x < irSeen'
        PROVE  x \in lost' \/ Queued(x)'
    <3>1. x \in lost \/ Queued(x)
      BY <2>1, <2>2, <2>3 DEF QueueIsCapture
    <3>2. ASSUME NEW j \in 1 .. Len(Queue), Queue[j].at.n = x
          PROVE  j - 1 \in 1 .. Len(Queue') /\ Queue'[j - 1] = Queue[j]
      <4>1. 1 \in 1 .. Len(Queue) /\ Queue[1].at.n < Queue[k + 1].at.n
        BY <1>1, <2>1, <2>2 DEF QueueIsCapture
      <4>2. Queue[k + 1].at.n < x
        BY <2>1, <2>3
      <4>3. j # 1
        BY <1>1, <2>2, <3>2, <4>1, <4>2
      <4>. QED  BY SMTT(20), <1>1, <2>1, <4>3
    <3>. QED  BY <2>1, <3>1, <3>2 DEF Queued
  <2>4. ASSUME NEW k \in 1 .. Len(Queue')
        PROVE  /\ Queue'[k].at.tl = timeline' /\ Queue'[k].at.n < irSeen'
               /\ Queue'[k].type = Queue'[k].at.n % 2
               /\ \A j \in 1 .. Len(Queue') : j < k => Queue'[j].at.n < Queue'[k].at.n
    <3>1. \A j \in 1 .. Len(Queue') : j < k => j + 1 \in 1 .. Len(Queue) /\ j + 1 < k + 1
      BY <1>1, <2>1
    <3>. QED  BY <2>1, <2>2, <3>1 DEF QueueIsCapture
  <2>. QED  BY <2>1, <2>3, <2>4 DEF QueueIsCapture
<1>4. CASE ResetDefaults
  <2>1. Len(Queue') = 0 /\ lost' = {} /\ irSeen' = 0 /\ side' = Tick
    BY <1>4, ResetQueue
  <2>. QED  BY <2>1, Parity DEF QueueIsCapture, Tick
<1>5. CASE ~IrIsr /\ ~AssembleEdge /\ ~ResetDefaults
  <2>1. UNCHANGED <<side, irRing, timeline, irSeen, lost>>
    BY <1>5, OtherSteps
  <2>. QED  BY <2>1 DEF QueueIsCapture, Queue, Queued
<1>. QED  BY <1>2, <1>3, <1>4, <1>5
\* What came after the edge that was taken still waits or was lost.
LEMMA AfterTheHead ==
    ASSUME TypeOK, QueueIsCapture, AssembleEdge
    PROVE  /\ Queue[1] \in Edges /\ Queue[1].at.tl = timeline /\ Queue[1].at.n < irSeen
           /\ Queue[1].at.n \in 0 .. MaxEdges /\ Queue[1].type = Queue[1].at.n % 2
           /\ \A k \in 1 .. Len(Queue') : Queue[1].at.n < Queue'[k].at.n
           /\ \A x \in 0 .. MaxEdges : Queue[1].at.n < x /\ x < irSeen => x \in lost \/ Queued(x)'
           /\ \A x \in 0 .. MaxEdges : x # Queue[1].at.n /\ Queued(x) => Queued(x)'
<1>1. /\ Len(Queue) >= 1 /\ Len(Queue') = Len(Queue) - 1 /\ Len(Queue) \in Nat
      /\ \A k \in 1 .. Len(Queue') : Queue'[k] = Queue[k + 1]
  BY PoppedEdge, QueueTypes
<1>2. 1 \in 1 .. Len(Queue) /\ \A k \in 1 .. Len(Queue') : k + 1 \in 1 .. Len(Queue) /\ 1 < k + 1
  BY <1>1
<1>3. /\ Queue[1] \in Edges /\ Queue[1].at.tl = timeline /\ Queue[1].at.n < irSeen
      /\ Queue[1].at.n \in 0 .. MaxEdges /\ Queue[1].type = Queue[1].at.n % 2
  BY <1>2, QueueTypes DEF QueueIsCapture
<1>4. \A k \in 1 .. Len(Queue') : Queue[1].at.n < Queue'[k].at.n
  BY <1>1, <1>2 DEF QueueIsCapture
<1>5. ASSUME NEW x \in 0 .. MaxEdges, x # Queue[1].at.n, Queued(x) PROVE Queued(x)'
  <2>1. PICK j \in 1 .. Len(Queue) : Queue[j].at.n = x
    BY <1>5 DEF Queued
  <2>2. j - 1 \in 1 .. Len(Queue') /\ Queue'[j - 1] = Queue[j]
    BY <1>1, <1>5, <2>1
  <2>. QED  BY <2>1, <2>2 DEF Queued
<1>6. \A x \in 0 .. MaxEdges : Queue[1].at.n < x /\ x < irSeen => x \in lost \/ Queued(x)'
  BY <1>2, <1>3, <1>5 DEF QueueIsCapture
<1>. QED  BY <1>3, <1>4, <1>5, <1>6

LEMMA RowBegins ==
    ASSUME TypeOK, QueueIsCapture, AssembleEdge, Queue[1].type = Tick,
           swingState' = 1, curr'.edge[0] = Queue[1].at
    PROVE  RowIsCapture'
<1>1. /\ curr'.edge[0].n = Queue[1].at.n /\ Newest' = Queue[1].at.n
      /\ curr'.edge[0].tl = Queue[1].at.tl
  BY DEF Newest
<1>2. UNCHANGED <<irSeen, lost, timeline>>
  BY PoppedEdge
<1>3. Newest' % 2 = 0
  BY <1>1, AfterTheHead DEF Tick
<1>. QED
  BY <1>1, <1>2, <1>3, AfterTheHead, Parity DEF RowIsCapture

\* The row goes on with the edge it waits for.
LEMMA RowGoesOn ==
    ASSUME TypeOK, QueueIsCapture, RowIsCapture, AssembleEdge,
           swingState \in 1 .. 4, Queue[1].type = swingState % 2, curr.edge[0].tl = timeline
    PROVE  /\ Newest < Queue[1].at.n /\ curr.edge[0].n <= Newest
           /\ \A i \in 0 .. swingState - 1 : curr.edge[i].tl = timeline
           /\ \/ LostBetween(curr.edge[0].n, Queue[1].at.n)
              \/ /\ Queue[1].at.n = curr.edge[0].n + swingState
                 /\ \A i \in 1 .. swingState - 1 : curr.edge[i].n = curr.edge[0].n + i
<1>. DEFINE a == curr.edge[0].n
            q == Queue[1].at.n
<1>1. 1 \in 1 .. Len(Queue) /\ q \in 0 .. MaxEdges /\ q < irSeen /\ irSeen \in Nat
  <2>1. Len(Queue) >= 1 /\ Len(Queue) \in Nat
    BY PoppedEdge, QueueTypes
  <2>2. irSeen \in Nat
    BY DEF TypeOK
  <2>. QED  BY <2>1, <2>2, AfterTheHead
<1>2. a \in Nat /\ Newest \in Nat
  <2>1. curr.edge \in [0 .. 4 -> Stamps] /\ swingState - 1 \in 0 .. 4 /\ 0 \in 0 .. 4
    BY DEF TypeOK, Rows
  <2>2. curr.edge[0] \in Stamps /\ curr.edge[swingState - 1] \in Stamps
    BY <2>1
  <2>. QED  BY <2>2 DEF Stamps, Newest
<1>3. Newest < q /\ a <= Newest /\ \A i \in 0 .. swingState - 1 : curr.edge[i].tl = timeline
  BY <1>1 DEF RowIsCapture
<1>4. lost \subseteq Nat
  BY DEF TypeOK
<1>5. CASE LostBetween(a, Newest) \/ LostBetween(Newest, q)
  BY SMTT(20), <1>1, <1>2, <1>3, <1>4, <1>5 DEF LostBetween
<1>6. CASE ~LostBetween(a, Newest) /\ ~LostBetween(Newest, q)
  <2>1. \A i \in 1 .. swingState - 1 : curr.edge[i].n = a + i
    BY <1>6 DEF RowIsCapture
  <2>2. Newest = a + swingState - 1
    BY <1>2, <2>1 DEF Newest
  <2>3. q = Newest + 1
    <3>. SUFFICES ASSUME Newest + 1 < q PROVE FALSE
      BY <1>1, <1>2, <1>3
    <3>. DEFINE x == Newest + 1
    <3>1. x \in 0 .. MaxEdges /\ Newest < x /\ x < irSeen /\ x < q
      BY <1>1, <1>2
    <3>2. ~LostBetween(Newest, x) /\ x \notin lost
      BY <1>1, <1>2, <1>4, <1>6, <3>1 DEF LostBetween
    <3>3. Queued(x)
      BY <3>1, <3>2 DEF RowIsCapture
    <3>4. PICK j \in 1 .. Len(Queue) : Queue[j].at.n = x
      BY <3>3 DEF Queued
    <3>5. j = 1 \/ 1 < j
      BY <1>1
    <3>. QED  BY <1>1, <3>1, <3>4, <3>5, QueueTypes DEF QueueIsCapture
  <2>4. q = a + swingState
    BY <1>2, <2>2, <2>3
  <2>. QED  BY <1>3, <2>1, <2>4
<1>. QED  BY <1>3, <1>5, <1>6
LEMMA RowStep ==
    TypeOK /\ TypeOK' /\ ContiguityInv /\ [Next]_vars => RowIsCapture'
<1>. SUFFICES ASSUME TypeOK, TypeOK', QueueIsCapture, RowIsCapture, RowsAreSettled, [Next]_vars
              PROVE  RowIsCapture'
  BY DEF ContiguityInv
<1>1. irSeen \in 0 .. MaxEdges /\ lost \in SUBSET (0 .. MaxEdges) /\ Len(Queue) \in Nat
  BY QueueTypes DEF TypeOK
<1>2. CASE IrIsr
  <2>1. /\ irSeen' = irSeen + 1 /\ UNCHANGED <<timeline, swingState, curr>>
        /\ lost \subseteq lost' /\ lost' \subseteq lost \cup {irSeen}
    BY <1>2, CapturedEdge
  <2>2. Newest' = Newest
    BY <2>1 DEF Newest
  <2>. SUFFICES ASSUME swingState > 0, curr.edge[0].tl = timeline PROVE RowIsCapture'
    BY <2>1 DEF RowIsCapture
  <2>3. /\ \A i \in 0 .. swingState - 1 : curr.edge[i].tl = timeline
        /\ Newest < irSeen /\ Newest % 2 = (swingState - 1) % 2 /\ curr.edge[0].n <= Newest
    BY DEF RowIsCapture
  <2>4. Newest \in Nat /\ curr.edge[0].n \in Nat
    <3>1. curr.edge \in [0 .. 4 -> Stamps] /\ swingState - 1 \in 0 .. 4 /\ 0 \in 0 .. 4
      BY DEF TypeOK, Rows
    <3>2. curr.edge[0] \in Stamps /\ curr.edge[swingState - 1] \in Stamps
      BY <3>1
    <3>. QED  BY <3>2 DEF Stamps, Newest
  <2>5. ASSUME NEW a, NEW b, LostBetween(a, b) PROVE LostBetween(a, b)'
    BY <2>1, <2>5 DEF LostBetween
  <2>6. \A x : Queued(x) => Queued(x)'
    BY <1>1, <1>2, CapturedEdge DEF Queued
  <2>7. ASSUME NEW x, x = irSeen PROVE x \in lost' \/ Queued(x)'
    <3>1. CASE lost' = lost \cup {irSeen}
      BY <2>7, <3>1
    <3>2. CASE /\ Len(Queue') = Len(Queue) + 1
               /\ Queue'[Len(Queue) + 1] = [at |-> [tl |-> timeline, n |-> irSeen], type |-> side]
      <4>1. Len(Queue) + 1 \in 1 .. Len(Queue') /\ Queue'[Len(Queue) + 1].at.n = irSeen
        BY <1>1, <3>2
      <4>. QED  BY <2>7, <4>1 DEF Queued
    <3>. QED  BY <1>2, <3>1, <3>2, CapturedEdge
  <2>8. \A k \in 1 .. Len(Queue') : Newest < Queue'[k].at.n
    <3>1. CASE Queue' = Queue
      BY <3>1 DEF RowIsCapture
    <3>2. CASE /\ Len(Queue') = Len(Queue) + 1
               /\ Queue'[Len(Queue) + 1] = [at |-> [tl |-> timeline, n |-> irSeen], type |-> side]
               /\ \A k \in 1 .. Len(Queue) : Queue'[k] = Queue[k]
      <4>1. \A k \in 1 .. Len(Queue') : k \in 1 .. Len(Queue) \/ k = Len(Queue) + 1
        BY <1>1, <3>2
      <4>. QED  BY <2>3, <3>2, <4>1 DEF RowIsCapture
    <3>. QED  BY <1>2, <3>1, <3>2, CapturedEdge
  <2>9. ASSUME NEW x \in 0 .. MaxEdges, Newest < x, x < irSeen'
        PROVE  x \in lost' \/ Queued(x)' \/ LostBetween(Newest, x)'
    <3>1. x < irSeen \/ x = irSeen
      BY <1>1, <2>1, <2>9
    <3>2. CASE x < irSeen
      <4>1. x \in lost \/ Queued(x) \/ LostBetween(Newest, x)
        BY <2>9, <3>2 DEF RowIsCapture
      <4>2. LostBetween(Newest, x) => LostBetween(Newest, x)'
        BY <2>1, <2>2 DEF LostBetween
      <4>. QED  BY <2>1, <2>6, <4>1, <4>2
    <3>. QED  BY <2>7, <3>1, <3>2
  <2>10. LostBetween(curr.edge[0].n, Newest)'
         \/ \A i \in 1 .. swingState - 1 : curr.edge[i].n = curr.edge[0].n + i
    <3>1. LostBetween(curr.edge[0].n, Newest) => LostBetween(curr.edge[0].n, Newest)'
      BY <2>1, <2>2 DEF LostBetween
    <3>. QED  BY <3>1 DEF RowIsCapture
  <2>11. Newest < irSeen'
    BY <1>1, <2>1, <2>3, <2>4
  <2>. QED  BY <2>1, <2>2, <2>3, <2>8, <2>9, <2>10, <2>11 DEF RowIsCapture
<1>3. CASE AssembleEdge
  <2>. DEFINE q == Queue[1].at.n
  <2>1. /\ UNCHANGED <<irSeen, lost, timeline>> /\ e' = Queue[1]
        /\ q \in 0 .. MaxEdges /\ q < irSeen /\ Queue[1].type = q % 2 /\ Queue[1].at.tl = timeline
    BY <1>3, PoppedEdge, AfterTheHead
  <2>2. swingState \in 0 .. 4 /\ curr \in Rows /\ curr.edge \in [0 .. 4 -> Stamps]
    BY DEF TypeOK, Rows
  <2>3. CASE swingState \in {0, 4} /\ e'.type = Wanted /\ swingState' = 1
             /\ curr'.edge[0] = e'.at
    BY <1>3, <2>1, <2>3, RowBegins DEF Wanted
  <2>4. CASE swingState \in 1 .. 3 /\ e'.type = Wanted /\ swingState' = swingState + 1
             /\ curr' = WithEdge(curr, swingState, e'.at)
    <3>1. /\ \A i \in 0 .. 4 : i # swingState => curr'.edge[i] = curr.edge[i]
          /\ curr'.edge[swingState] = Queue[1].at
      BY <2>1, <2>2, <2>4 DEF WithEdge
    <3>2. Newest' = q /\ 0 # swingState /\ swingState \in 1 .. 4
      BY <2>4, <3>1 DEF Newest
    <3>. SUFFICES ASSUME curr.edge[0].tl = timeline PROVE RowIsCapture'
      BY <2>1, <2>2, <3>1, <3>2 DEF RowIsCapture
    <3>3. Queue[1].type = swingState % 2
      BY <2>1, <2>4, Parity DEF Wanted, Tick, Tock
    <3>4. /\ curr.edge[0].n <= Newest /\ Newest < q
          /\ \A i \in 0 .. swingState - 1 : curr.edge[i].tl = timeline
          /\ \/ LostBetween(curr.edge[0].n, q)
             \/ /\ q = curr.edge[0].n + swingState
                /\ \A i \in 1 .. swingState - 1 : curr.edge[i].n = curr.edge[0].n + i
      BY <1>3, <3>2, <3>3, RowGoesOn
    <3>5. /\ \A i \in 0 .. swingState' - 1 : i = swingState \/ i \in 0 .. swingState - 1
          /\ \A i \in 1 .. swingState' - 1 : i = swingState \/ i \in 1 .. swingState - 1
          /\ \A i \in 0 .. swingState - 1 : i # swingState /\ i \in 0 .. 4
      BY <2>4
    <3>6. \A i \in 0 .. swingState' - 1 : curr'.edge[i].tl = timeline'
      BY <2>1, <3>1, <3>4, <3>5
    <3>7. LostBetween(curr.edge[0].n, Newest)'
          \/ \A i \in 1 .. swingState' - 1 : curr'.edge[i].n = curr'.edge[0].n + i
      <4>1. CASE LostBetween(curr.edge[0].n, q)
        BY <2>1, <2>2, <3>1, <3>2, <4>1 DEF LostBetween
      <4>2. CASE q = curr.edge[0].n + swingState
                 /\ \A i \in 1 .. swingState - 1 : curr.edge[i].n = curr.edge[0].n + i
        BY <2>2, <3>1, <3>2, <3>5, <4>2
      <4>. QED  BY <3>4, <4>1, <4>2
    <3>8. curr'.edge[0].n <= Newest' /\ Newest' < irSeen' /\ Newest' % 2 = (swingState' - 1) % 2
      <4>1. curr.edge[0].n \in Nat /\ Newest \in Nat
        <5>1. curr.edge[0] \in Stamps /\ curr.edge[swingState - 1] \in Stamps
          BY <2>2, <2>4
        <5>. QED  BY <5>1 DEF Stamps, Newest
      <4>2. curr'.edge[0].n = curr.edge[0].n /\ swingState' - 1 = swingState
        BY <2>2, <2>4, <3>1
      <4>. QED  BY <2>1, <3>2, <3>3, <3>4, <4>1, <4>2
    <3>9. /\ \A k \in 1 .. Len(Queue') : Newest' < Queue'[k].at.n
          /\ \A x \in 0 .. MaxEdges : Newest' < x /\ x < irSeen' => x \in lost' \/ Queued(x)'
      BY <1>3, <2>1, <3>2, AfterTheHead
    <3>. QED  BY <3>6, <3>7, <3>8, <3>9 DEF RowIsCapture
  <2>5. CASE e'.type # Wanted /\ UNCHANGED asmVars
    <3>1. UNCHANGED <<curr, swingState>> /\ Newest' = Newest
      BY <2>5 DEF asmVars, Newest
    <3>. SUFFICES ASSUME swingState > 0, curr.edge[0].tl = timeline PROVE RowIsCapture'
      BY <2>1, <3>1 DEF RowIsCapture
    <3>2. Newest \in Nat /\ irSeen \in Nat
      <4>1. swingState - 1 \in 0 .. 4
        BY <2>2
      <4>2. curr.edge[swingState - 1] \in Stamps
        BY <2>2, <4>1
      <4>. QED  BY <1>1, <4>2 DEF Stamps, Newest
    <3>3. 1 \in 1 .. Len(Queue)
      BY <1>1, <1>3, PoppedEdge
    <3>4. Newest < q
      BY <3>3 DEF RowIsCapture
    \* The head is not the edge after the newest: that one has the type waited for.
    <3>5. q # Newest + 1
      <4>1. Newest % 2 = (swingState - 1) % 2
        BY DEF RowIsCapture
      <4>2. (Newest + 1) % 2 = swingState % 2
        BY <2>2, <3>2, <4>1, Parity
      <4>3. Wanted = swingState % 2
        BY <2>2, Parity DEF Wanted, Tick, Tock
      <4>. QED  BY <2>1, <2>5, <4>2, <4>3
    <3>6. LostBetween(Newest, q)
      <4>. DEFINE x == Newest + 1
      <4>1. x \in 0 .. MaxEdges /\ Newest < x /\ x < irSeen /\ x < q /\ ~LostBetween(Newest, x)
        BY <1>1, <2>1, <3>2, <3>4, <3>5 DEF LostBetween
      <4>2. x \in lost \/ Queued(x)
        BY <4>1 DEF RowIsCapture
      <4>3. ~Queued(x)
        <5>1. ASSUME NEW j \in 1 .. Len(Queue) PROVE q <= Queue[j].at.n
          <6>1. j = 1 \/ 1 < j
            BY <1>1
          <6>2. Queue[j].at.n \in 0 .. MaxEdges
            BY QueueTypes
          <6>. QED  BY SMTT(20), <2>1, <3>3, <6>1, <6>2 DEF QueueIsCapture
        <5>2. \A j \in 1 .. Len(Queue) : Queue[j].at.n \in 0 .. MaxEdges
          BY QueueTypes
        <5>. QED  BY <2>1, <3>2, <4>1, <5>1, <5>2 DEF Queued
      <4>. QED  BY <1>1, <3>2, <4>1, <4>2, <4>3 DEF LostBetween
    <3>7. ASSUME NEW x \in 0 .. MaxEdges, Newest < x, x < irSeen'
          PROVE  x \in lost' \/ Queued(x)' \/ LostBetween(Newest, x)'
      <4>1. x \in lost \/ Queued(x) \/ LostBetween(Newest, x)
        BY <2>1, <3>7 DEF RowIsCapture
      <4>2. LostBetween(Newest, x) => LostBetween(Newest, x)'
        BY <2>1, <3>1 DEF LostBetween
      <4>3. x = q => LostBetween(Newest, x)
        BY <3>6
      <4>4. x # q /\ Queued(x) => Queued(x)'
        BY <1>3, AfterTheHead
      <4>. QED  BY <2>1, <4>1, <4>2, <4>3, <4>4
    <3>8. \A k \in 1 .. Len(Queue') : Newest < Queue'[k].at.n
      <4>1. \A k \in 1 .. Len(Queue') : k + 1 \in 1 .. Len(Queue) /\ Queue'[k] = Queue[k + 1]
        BY <1>1, <1>3, PoppedEdge
      <4>. QED  BY <4>1 DEF RowIsCapture
    <3>9. LostBetween(curr.edge[0].n, Newest) => LostBetween(curr.edge[0].n, Newest)'
      BY <2>1, <3>1 DEF LostBetween
    <3>. QED  BY <2>1, <3>1, <3>7, <3>8, <3>9 DEF RowIsCapture
  <2>. QED
    <3>1. \A row, at : StartRow(row, at).edge[0] = at \/ 0 \notin DOMAIN row.edge
      BY DEF StartRow
    <3>2. WithEdge(curr, 4, e'.at) \in Rows /\ 0 \in DOMAIN curr.edge
      <4>1. e'.at \in Stamps /\ swingSeq \in Nat /\ 4 \in 0 .. 4 /\ 0 \in 0 .. 4
        BY DEF TypeOK, Edges
      <4>2. WithEdge(curr, 4, e'.at) \in Rows
        BY <2>2, <4>1, RowTypes
      <4>. QED  BY <2>2, <4>1, <4>2
    <3>. QED  BY <1>3, <2>2, <2>3, <2>4, <2>5, <3>1, <3>2 DEF AssembleEdge, Rows
<1>4. CASE ResetDefaults
  <2>1. timeline' = timeline + 1 /\ timeline \in Nat /\ curr' = curr
    BY <1>4, ResetQueue
  <2>2. curr \in Rows /\ 0 \in 0 .. 4
    BY DEF TypeOK
  <2>3. curr.edge[0].tl <= timeline /\ curr.edge[0].tl \in Nat
    BY <2>2, RowStamps DEF RowsAreSettled
  <2>. QED  BY <2>1, <2>3 DEF RowIsCapture
<1>5. CASE ~IrIsr /\ ~AssembleEdge /\ ~ResetDefaults
  <2>1. UNCHANGED <<irRing, swingState, curr, timeline, irSeen, lost>>
    BY <1>5, OtherSteps
  <2>. QED  BY <2>1 DEF RowIsCapture, Newest, LostBetween, Queue, Queued
<1>. QED  BY <1>2, <1>3, <1>4, <1>5
\* What is captured or lost later does not unsettle a row, and a reset ends its timeline.
LEMMA StaysSettled ==
    ASSUME TypeOK, NEW row \in Rows, Settled(row),
           \/ UNCHANGED <<timeline, irSeen, lost>>
           \/ /\ timeline' = timeline /\ irSeen' = irSeen + 1
              /\ lost' \in {lost, lost \cup {irSeen}}
           \/ timeline' = timeline + 1
    PROVE  Settled(row)'
<1>1. /\ irSeen \in Nat /\ timeline \in Nat /\ lost \subseteq Nat
      /\ \A i \in 0 .. 4 : row.edge[i].tl \in Nat /\ row.edge[i].n \in Nat
  BY RowStamps DEF TypeOK
<1>2. CASE UNCHANGED <<timeline, irSeen, lost>>
  BY <1>2 DEF Settled, Contiguous, SameTimeline, LostWithin
<1>3. CASE timeline' = timeline /\ irSeen' = irSeen + 1 /\ lost' \in {lost, lost \cup {irSeen}}
  <2>1. row.edge[4].tl = timeline => LostWithin(row)' = LostWithin(row)
    BY <1>1, <1>3 DEF Settled, LostWithin
  <2>2. SameTimeline(row) /\ row.edge[0].tl = timeline => row.edge[4].tl = timeline
    BY DEF SameTimeline
  <2>3. Contiguous(row)'
    BY <1>3, <2>1, <2>2 DEF Settled, Contiguous, SameTimeline
  <2>. QED  BY <1>1, <1>3, <2>3 DEF Settled
<1>4. CASE timeline' = timeline + 1
  <2>1. \A i \in 0 .. 4 : row.edge[i].tl < timeline'
    BY <1>1, <1>4 DEF Settled
  <2>. QED  BY <1>1, <2>1 DEF Settled, Contiguous
<1>. QED  BY <1>2, <1>3, <1>4

\* The fifth edge settles the row.
LEMMA RowSettles ==
    ASSUME TypeOK, ContiguityInv, AssembleEdge, swingState = 4, Queue[1].type = Tick,
           NEW row, row = WithEdge(curr, 4, Queue[1].at)
    PROVE  row \in Rows /\ Settled(row) /\ Settled(row)'
<1>. DEFINE q == Queue[1].at.n
<1>1. /\ UNCHANGED <<timeline, irSeen, lost>> /\ Queue[1].at.tl = timeline /\ q < irSeen
      /\ q \in 0 .. MaxEdges /\ Queue[1].at \in Stamps
  BY PoppedEdge, AfterTheHead DEF ContiguityInv, Edges
<1>2. curr \in Rows /\ curr.edge \in [0 .. 4 -> Stamps] /\ timeline \in Nat
  BY DEF TypeOK, Rows
<1>3. row.edge[4] = Queue[1].at /\ \A i \in 0 .. 3 : row.edge[i] = curr.edge[i]
  BY <1>2 DEF WithEdge
<1>4. \A i \in 0 .. 4 : row.edge[i].tl <= timeline
  <2>1. \A i \in 0 .. 3 : curr.edge[i].tl <= timeline
    BY DEF ContiguityInv, RowsAreSettled
  <2>2. \A i \in 0 .. 4 : i = 4 \/ i \in 0 .. 3
    OBVIOUS
  <2>. QED  BY <1>1, <1>2, <1>3, <2>1, <2>2
<1>5. Contiguous(row)
  <2>. SUFFICES ASSUME curr.edge[0].tl = timeline, LostWithin(row) = {}
                PROVE  \A i \in 1 .. 4 : row.edge[i].n = row.edge[0].n + i
    BY <1>3 DEF Contiguous
  <2>1. Queue[1].type = swingState % 2 /\ swingState \in 1 .. 4
    BY Parity DEF Tick
  <2>2. \/ LostBetween(curr.edge[0].n, q)
        \/ /\ q = curr.edge[0].n + 4
           /\ \A i \in 1 .. 3 : curr.edge[i].n = curr.edge[0].n + i
    BY <2>1, RowGoesOn DEF ContiguityInv
  <2>3. ~LostBetween(curr.edge[0].n, q)
    BY <1>3 DEF LostBetween, LostWithin
  <2>4. \A i \in 1 .. 4 : i = 4 \/ (i \in 1 .. 3 /\ i \in 0 .. 3)
    OBVIOUS
  <2>. QED  BY <1>3, <2>2, <2>3, <2>4
<1>6. Settled(row)
  BY <1>1, <1>3, <1>4, <1>5 DEF Settled
<1>7. row \in Rows
  BY <1>1, <1>2, RowTypes DEF TypeOK
<1>. QED  BY <1>1, <1>6, <1>7, StaysSettled

\* In every step a settled row stays settled.
LEMMA SettledRowsStay ==
    ASSUME TypeOK, [Next]_vars, NEW row \in Rows, Settled(row)
    PROVE  Settled(row)'
<1>1. CASE IrIsr
  BY <1>1, CapturedEdge, StaysSettled
<1>2. CASE AssembleEdge
  BY <1>2, PoppedEdge, StaysSettled
<1>3. CASE ResetDefaults
  BY <1>3, ResetQueue, StaysSettled
<1>4. CASE ~IrIsr /\ ~AssembleEdge /\ ~ResetDefaults
  BY <1>4, OtherSteps, StaysSettled
<1>. QED  BY <1>1, <1>2, <1>3, <1>4

\* The rows that wait are rows; the one being sent is the first of them.
LEMMA PendingTypes ==
    ASSUME TypeOK, PeekedIsOldest
    PROVE  /\ PendingRows \in Seq(Rows) /\ Len(PendingRows) \in Nat
           /\ \A k \in 1 .. Len(PendingRows) : PendingRows[k] \in Rows
           /\ pc = "send" => Len(PendingRows) >= 1 /\ fs.row = PendingRows[1]
<1>1. rowRing \in Rings(SwingRing, Rows)
  BY DEF TypeOK
<1>2. PendingRows \in Seq(Rows) /\ Len(PendingRows) \in Nat
  BY <1>1, RingItemsType DEF PendingRows
<1>3. \A k \in 1 .. Len(PendingRows) : PendingRows[k] \in Rows
  BY <1>2
<1>4. pc = "send" => Len(PendingRows) >= 1 /\ fs.row = PendingRows[1]
  BY <1>1, RingDropShifts DEF PeekedIsOldest, PendingRows
<1>. QED  BY <1>2, <1>3, <1>4

\* The rows that wait after a step waited before it, or are the completed one.
LEMMA RowsPending ==
    ASSUME TypeOK, ContiguityInv, PeekedIsOldest, [Next]_vars,
           NEW k \in 1 .. Len(PendingRows'), NEW row, row = PendingRows'[k]
    PROVE  row \in Rows /\ Settled(row)
<1>1. rowRing \in Rings(SwingRing, Rows) /\ Len(PendingRows) \in Nat
  BY PendingTypes DEF TypeOK
<1>2. ASSUME NEW j \in 1 .. Len(PendingRows), row = PendingRows[j]
      PROVE  row \in Rows /\ Settled(row)
  BY <1>2, PendingTypes DEF ContiguityInv, RowsAreSettled
<1>3. CASE rowRing' = rowRing
  <2>1. PendingRows' = PendingRows
    BY <1>3 DEF PendingRows
  <2>. QED  BY <1>2, <2>1
<1>4. CASE AssembleEdge /\ rowRing' # rowRing
  <2>. DEFINE new == WithEdge(curr, 4, e'.at)
  <2>1. /\ swingState = 4 /\ e'.type = Tick /\ ~RingIsFull(SwingRing, rowRing)
        /\ rowRing' = RingPut(SwingRing, rowRing, new)
    BY <1>4 DEF AssembleEdge, PushRow, Wanted, asmVars
  <2>2. new \in Rows /\ Settled(new)
    <3>1. \A r : r = new => r \in Rows /\ Settled(r)
      BY <1>4, <2>1, PoppedEdge, RowSettles
    <3>. QED  BY <3>1
  <2>. HIDE DEF new
  <2>3. /\ Len(PendingRows') = Len(PendingRows) + 1
        /\ \A j \in 1 .. Len(PendingRows) : PendingRows'[j] = PendingRows[j]
        /\ PendingRows'[Len(PendingRows) + 1] = new
    <3>1. Len(PendingRows) = RingCount(SwingRing, rowRing)
      BY <1>1, RingItemsType DEF PendingRows
    <3>2. /\ Len(PendingRows') = Len(PendingRows) + 1
          /\ \A j \in 1 .. Len(PendingRows) : PendingRows'[j] = PendingRows[j]
      BY <1>1, <2>1, <2>2, RingPutAccepts DEF PendingRows
    <3>3. PendingRows'[Len(PendingRows) + 1] = new
      BY <1>1, <2>1, <2>2, <3>1, RingPutAppends DEF PendingRows
    <3>. QED  BY <3>2, <3>3
  <2>4. k \in 1 .. Len(PendingRows) \/ k = Len(PendingRows) + 1
    BY <1>1, <2>3
  <2>. QED  BY <1>2, <2>2, <2>3, <2>4
<1>5. CASE SendRow
  <2>1. ~RingIsEmpty(rowRing) /\ rowRing' = RingDrop(SwingRing, rowRing)
    BY <1>5 DEF SendRow, PeekedIsOldest
  <2>2. /\ Len(PendingRows') = Len(PendingRows) - 1
        /\ \A j \in 1 .. Len(PendingRows) - 1 : PendingRows'[j] = PendingRows[j + 1]
    BY <1>1, <2>1, RingDropShifts DEF PendingRows
  <2>3. k + 1 \in 1 .. Len(PendingRows) /\ row = PendingRows[k + 1]
    BY <1>1, <2>2
  <2>. QED  BY <1>2, <2>3
<1>. QED  BY <1>3, <1>4, <1>5, CapturedEdge, ResetQueue, OtherSteps

LEMMA SettledStep ==
    TypeOK /\ ContiguityInv /\ PeekedIsOldest /\ [Next]_vars => RowsAreSettled'
<1>. SUFFICES ASSUME TypeOK, ContiguityInv, PeekedIsOldest, [Next]_vars
              PROVE  RowsAreSettled'
  OBVIOUS
<1>1. \A i \in 0 .. 4 : curr'.edge[i].tl <= timeline'
  <2>1. /\ curr.edge \in [0 .. 4 -> Stamps] /\ timeline \in Nat
        /\ \A i \in 0 .. 4 : curr.edge[i].tl \in Nat /\ curr.edge[i].tl <= timeline
    BY SMTT(20), RowStamps DEF TypeOK, Rows, ContiguityInv, RowsAreSettled
  <2>2. CASE AssembleEdge
    <3>1. timeline' = timeline /\ e'.at.tl = timeline
      BY <2>2, PoppedEdge, AfterTheHead DEF ContiguityInv
    <3>2. \A i \in 0 .. 4 : curr'.edge[i] = curr.edge[i] \/ curr'.edge[i] = e'.at
      BY <2>1, <2>2 DEF AssembleEdge, WithEdge, StartRow, asmVars
    <3>. QED  BY <2>1, <3>1, <3>2
  <2>3. CASE ~AssembleEdge
    <3>1. curr' = curr /\ timeline' \in Nat /\ timeline <= timeline'
      BY <2>1, <2>3, CapturedEdge, ResetQueue, OtherSteps
    <3>. QED  BY <2>1, <3>1
  <2>. QED  BY <2>2, <2>3
<1>2. ASSUME NEW k \in 1 .. Len(PendingRows'), NEW row, row = PendingRows'[k]
      PROVE  Settled(row)'
  BY <1>2, RowsPending, SettledRowsStay
<1>3. ASSUME sent' > 0, NEW row, row = csw'.row
      PROVE  Settled(row)'
  <2>1. CASE SendRow
    <3>1. csw'.row = fs.row /\ pc = "send"
      BY <2>1 DEF SendRow
    <3>2. 1 \in 1 .. Len(PendingRows) /\ row = PendingRows[1] /\ row \in Rows
      BY <1>3, <3>1, PendingTypes
    <3>3. Settled(row)
      BY <3>2 DEF ContiguityInv, RowsAreSettled
    <3>. QED  BY <3>2, <3>3, SettledRowsStay
  <2>2. CASE csw' = csw /\ sent' = sent
    <3>1. row \in Rows /\ Settled(row)
      BY <1>3, <2>2 DEF TypeOK, ContiguityInv, RowsAreSettled
    <3>. QED  BY <3>1, SettledRowsStay
  <2>. QED  BY <2>1, <2>2, CapturedEdge, PoppedEdge, ResetQueue, OtherSteps
<1>. QED
  BY SMTT(20), <1>1, <1>2, <1>3 DEF RowsAreSettled, Settled, Contiguous, SameTimeline, LostWithin

LEMMA InitContiguity == Init => ContiguityInv
<1>. SUFFICES ASSUME Init PROVE ContiguityInv
  OBVIOUS
<1>1. RingItems(EdgeRing, irRing) = <<>> /\ RingItems(SwingRing, rowRing) = <<>>
  BY InitRings
<1>2. Len(Queue) = 0 /\ Len(PendingRows) = 0
  BY <1>1 DEF Queue, PendingRows
<1>3. \A i \in 0 .. 4 : curr.edge[i].tl = 0
  BY DEF Init, ZeroRow, ZeroStamp
<1>. QED
  BY <1>2, <1>3 DEF Init, Tick, ContiguityInv, QueueIsCapture, RowIsCapture, RowsAreSettled

\* The rows swingAssemblerProcessEdges completes, queued or emitted, span five
\* consecutive edges of the sensor unless the ISR lost one of those between.
THEOREM RowsStayContiguous == Spec => []RowsAreContiguous
<1>1. ContiguityInv => RowsAreContiguous
  BY DEF ContiguityInv, RowsAreSettled, Settled, RowsAreContiguous
<1>2. TypeOK /\ TypeOK' /\ PeekedIsOldest /\ ContiguityInv /\ [Next]_vars => ContiguityInv'
  BY QueueStep, RowStep, SettledStep DEF ContiguityInv
<1>. QED
  BY <1>1, <1>2, InitPeeked, StepPeeked, InitContiguity, TypeCorrect, PTL DEF Spec
-----------------------------------------------------------------------------
(* The losses reported with a row *)

\* A loss of the future is after the row.
LEMMA LostBeforeStays ==
    ASSUME TypeOK, IrIsr, NEW row \in Rows, Settled(row), row.edge[4].tl = timeline
    PROVE  LostBefore(row)' = LostBefore(row)
<1>1. lost' \in {lost, lost \cup {irSeen}} /\ irSeen \in Nat
  BY CapturedEdge DEF TypeOK
<1>2. row.edge[4].n < irSeen /\ row.edge[4].n \in Nat
  BY DEF Settled, Rows, Stamps
<1>. QED  BY <1>1, <1>2 DEF LostBefore

LEMMA CountStep ==
    TypeOK /\ PeekedIsOldest /\ ContiguityInv /\ CountCovers /\ [Next]_vars => CountCovers'
<1>. SUFFICES ASSUME TypeOK, PeekedIsOldest, ContiguityInv, CountCovers, [Next]_vars
              PROVE  CountCovers'
  OBVIOUS
<1>1. CASE IrIsr
  <2>1. irSeen \notin lost
    BY DEF ContiguityInv, QueueIsCapture, TypeOK
  <2>2. IsFiniteSet(lost') /\ droppedIr' = Cardinality(lost')
    BY <1>1, <2>1, CapturedEdge, FS_AddElement DEF CountCovers
  <2>3. ASSUME pc = "send", fs.row.edge[4].tl = timeline
        PROVE  LostBefore(fs.row)' = LostBefore(fs.row)
    <3>1. fs.row \in Rows /\ Settled(fs.row)
      BY <2>3, PendingTypes DEF ContiguityInv, RowsAreSettled
    <3>2. \A row \in Rows : Settled(row) /\ row.edge[4].tl = timeline
                             => {x \in lost' : x < row.edge[4].n} = LostBefore(row)
      BY <1>1, LostBeforeStays DEF LostBefore
    <3>. QED  BY <1>1, <2>3, <3>1, <3>2, CapturedEdge DEF LostBefore
  <2>. QED  BY <1>1, <2>2, <2>3, CapturedEdge DEF CountCovers
<1>2. CASE PeekRow
  <2>1. /\ fs'.dropIr = droppedIr /\ UNCHANGED <<lost, droppedIr>>
    BY <1>2 DEF PeekRow, captureVars, histVars
  <2>2. \A s : s \subseteq lost => Cardinality(s) <= Cardinality(lost)
    BY FS_Subset DEF CountCovers
  <2>3. LostBefore(fs.row)' \subseteq lost
    BY <2>1 DEF LostBefore
  <2>. QED  BY <2>1, <2>2, <2>3 DEF CountCovers
<1>3. CASE ResetDefaults
  BY <1>3, ResetQueue, FS_EmptySet DEF CountCovers
<1>4. CASE AssembleEdge
  BY <1>4, PoppedEdge DEF CountCovers, LostBefore
<1>5. CASE ~IrIsr /\ ~PeekRow /\ ~ResetDefaults /\ ~AssembleEdge
  BY <1>5, OtherSteps DEF CountCovers, LostBefore
<1>. QED  BY <1>1, <1>2, <1>3, <1>4, <1>5

LEMMA CoverStep ==
    TypeOK /\ PeekedIsOldest /\ ContiguityInv /\ CountCovers /\ DropIrCoversRow /\ [Next]_vars
        => DropIrCoversRow'
<1>. SUFFICES ASSUME TypeOK, PeekedIsOldest, ContiguityInv, CountCovers, DropIrCoversRow,
                     [Next]_vars, sent' > 0, csw'.row.edge[4].tl = timeline'
              PROVE  csw'.dropIr >= Cardinality(LostBefore(csw.row)')
  BY DEF DropIrCoversRow, LostBefore
<1>1. CASE SendRow
  <2>1. /\ csw'.row = fs.row /\ csw'.dropIr = fs.dropIr /\ pc = "send"
        /\ UNCHANGED <<lost, timeline>>
    BY <1>1 DEF SendRow
  <2>. QED  BY <2>1 DEF CountCovers, LostBefore
<1>2. CASE IrIsr
  <2>1. UNCHANGED <<csw, sent, timeline>> /\ csw.row \in Rows
    BY <1>2, CapturedEdge DEF TypeOK
  <2>2. Settled(csw.row)
    BY <2>1 DEF ContiguityInv, RowsAreSettled
  <2>3. \A row \in Rows : Settled(row) /\ row.edge[4].tl = timeline
                           => {x \in lost' : x < row.edge[4].n} = LostBefore(row)
    BY <1>2, LostBeforeStays DEF LostBefore
  <2>4. LostBefore(csw.row)' = LostBefore(csw.row)
    BY <2>1, <2>2, <2>3 DEF LostBefore
  <2>. QED  BY <2>1, <2>4 DEF DropIrCoversRow, LostBefore
<1>3. CASE ResetDefaults
  <2>1. /\ timeline' = timeline + 1 /\ timeline \in Nat /\ UNCHANGED <<csw, sent>>
    BY <1>3, ResetQueue
  <2>2. csw.row.edge[4].tl <= timeline /\ csw.row.edge[4].tl \in Nat
    <3>1. csw.row \in Rows /\ 4 \in 0 .. 4
      BY DEF TypeOK
    <3>. QED  BY <2>1, <3>1, RowStamps DEF ContiguityInv, RowsAreSettled, Settled
  <2>. QED  BY <2>1, <2>2
<1>4. CASE ~SendRow /\ ~IrIsr /\ ~ResetDefaults
  <2>1. UNCHANGED <<csw, sent, lost, timeline>>
    BY <1>4, PoppedEdge, OtherSteps
  <2>. QED  BY <2>1 DEF DropIrCoversRow, LostBefore
<1>. QED  BY <1>1, <1>2, <1>3, <1>4

\* The drop_ir of an emitted row counts at least every edge the ISR lost before
\* the row's last one, although it is read only when the row is emitted.
THEOREM DropsAreCovered == Spec => []DropIrCoversRow
<1>1. Init => CountCovers /\ DropIrCoversRow
  BY FS_EmptySet DEF Init, CountCovers, DropIrCoversRow
<1>2. TypeOK /\ TypeOK' /\ PeekedIsOldest /\ ContiguityInv /\ [Next]_vars => ContiguityInv'
  BY QueueStep, RowStep, SettledStep DEF ContiguityInv
<1>. QED
  BY <1>1, <1>2, InitPeeked, StepPeeked, InitContiguity, CountStep, CoverStep, TypeCorrect, PTL
     DEF Spec
-----------------------------------------------------------------------------
(***************************************************************************)
(* What the host may conclude from the rows it gets.  A reset withdraws    *)
(* the output for good, so what is emitted was assembled in the first      *)
(* timeline; there rows ascend, and their numbers tell what is missing.    *)
(***************************************************************************)

OutputIsFirst == /\ (ready \/ pc = "setup") => timeline = 0
                 /\ pc = "send" => ready

CurrAscends == timeline = 0 => \A i \in 1 .. swingState - 1 : curr.edge[i-1].n < curr.edge[i].n

RowsAscend == timeline = 0 => \A k \in 1 .. Len(PendingRows) : Ascending(PendingRows[k])

OneTimelineInv == OutputIsFirst /\ CurrAscends /\ RowsAscend /\ EmittedRowIsOneTimeline

\* The k-th row that waits is numbered as if nothing but the refused rows was missing.
RowsAreNumbered ==
    /\ swingState > 0 => curr.seq = swingSeq
    /\ swingState = 0 => swingSeq = 0
    /\ timeline = 0 => droppedRows = rowDrops
    /\ \A k \in 1 .. Len(PendingRows) : PendingRows[k].seq <= sent + k + rowDrops

\* A row that waits or was emitted last.
Completed(row) == \/ \E k \in 1 .. Len(PendingRows) : row = PendingRows[k]
                  \/ sent > 0 /\ row = csw.row

\* A row begins with the edge that ended the one numbered before it.
Follows(b, a) == b.seq = a.seq + 1 => b.edge[0] = a.edge[4]

RowsFollow ==
    /\ \A a \in Rows : Completed(a) => swingState > 0 /\ a.seq < curr.seq /\ Follows(curr, a)
    /\ \A a, b \in Rows : Completed(a) /\ Completed(b) => Follows(b, a)

\* PPS captures wait in the order of their numbers, after the one processed last.
PpsQueue == RingItems(PpsRing, ppsRing)
PpsAscends ==
    timeline = 0 =>
        /\ cps.seq <= cap /\ cap <= ppsSeen
        /\ pc = "cps" => cps.seq < cap
        /\ \A k \in 1 .. Len(PpsQueue) :
               /\ cap < PpsQueue[k] /\ PpsQueue[k] <= ppsSeen
               /\ \A j \in 1 .. Len(PpsQueue) : j < k => PpsQueue[j] < PpsQueue[k]

\* What an edge does to the assembler: it is ignored, it begins a row, it goes
\* into the row, or it completes the row, which is queued or refused.
LEMMA AssemblerSteps ==
    ASSUME TypeOK, AssembleEdge
    PROVE  /\ UNCHANGED <<timeline, ready, pc, fs, csw, sent, cps>>
           /\ \/ UNCHANGED <<swingState, curr, swingSeq, rowRing, rowDrops, droppedRows>>
              \/ /\ swingState = 0 /\ swingState' = 1 /\ e'.type = Tick
                 /\ curr'.seq = swingSeq + 1 /\ swingSeq' = swingSeq + 1
                 /\ UNCHANGED <<rowRing, rowDrops, droppedRows>>
              \/ /\ swingState \in 1 .. 3 /\ swingState' = swingState + 1
                 /\ e'.type = swingState % 2
                 /\ curr'.edge[swingState] = e'.at
                 /\ \A i \in 0 .. swingState - 1 : curr'.edge[i] = curr.edge[i]
                 /\ curr'.seq = curr.seq
                 /\ UNCHANGED <<swingSeq, rowRing, rowDrops, droppedRows>>
              \/ /\ swingState = 4 /\ swingState' = 1 /\ e'.type = Tick
                 /\ curr'.seq = swingSeq + 1 /\ swingSeq' = swingSeq + 1
                 /\ curr'.edge[0] = e'.at
                 /\ \/ rowDrops' = rowDrops + 1 /\ droppedRows' = droppedRows + 1
                       /\ rowRing' = rowRing
                    \/ /\ UNCHANGED <<rowDrops, droppedRows>>
                       /\ ~RingIsFull(SwingRing, rowRing)
                       /\ rowRing' = RingPut(SwingRing, rowRing, WithEdge(curr, 4, e'.at))
<1>1. UNCHANGED <<timeline, ready, pc, fs, csw, sent, cps>>
  BY DEF AssembleEdge, hostVars, histVars
<1>2. /\ curr \in Rows /\ curr.edge \in [0 .. 4 -> Stamps] /\ swingState \in 0 .. 4
      /\ swingSeq \in Nat
  BY DEF TypeOK, Rows
<1>3. e'.at \in Stamps
  BY PoppedEdge, QueueTypes
<1>4. CASE e'.type # Wanted /\ UNCHANGED asmVars
  BY <1>1, <1>4 DEF asmVars
<1>5. CASE swingState = 0 /\ e'.type = Wanted
  BY <1>1, <1>5 DEF AssembleEdge, Wanted, StartRow, asmVars
<1>6. CASE swingState \in 1 .. 3 /\ e'.type = Wanted
  <2>1. /\ curr' = WithEdge(curr, swingState, e'.at) /\ swingState' = swingState + 1
        /\ UNCHANGED <<swingSeq, rowRing, droppedRows, rowDrops>>
    BY <1>6 DEF AssembleEdge, asmVars
  <2>2. e'.type = swingState % 2
    BY <1>6, Parity DEF Wanted, Tick, Tock
  <2>3. /\ curr'.edge[swingState] = e'.at /\ curr'.seq = curr.seq
        /\ \A i \in 0 .. swingState - 1 : curr'.edge[i] = curr.edge[i]
    BY <1>2, <1>6, <2>1 DEF WithEdge
  <2>. QED  BY <1>1, <1>6, <2>1, <2>2, <2>3
<1>7. CASE swingState = 4 /\ e'.type = Wanted
  <2>. DEFINE new == WithEdge(curr, 4, e'.at)
  <2>1. /\ PushRow(new) /\ curr' = StartRow(new, e'.at) /\ swingState' = 1
        /\ swingSeq' = swingSeq + 1
    BY <1>7 DEF AssembleEdge, asmVars
  <2>2. new.edge \in [0 .. 4 -> Stamps] /\ e'.type = Tick
    BY <1>2, <1>3, <1>7 DEF WithEdge, Wanted
  <2>3. curr'.edge[0] = e'.at /\ curr'.seq = swingSeq + 1
    BY <2>1, <2>2 DEF StartRow
  <2>. QED  BY <1>1, <1>7, <2>1, <2>2, <2>3 DEF PushRow, CountRowDrop
<1>. QED  BY <1>2, <1>4, <1>5, <1>6, <1>7 DEF AssembleEdge

\* The completed row is the last one that waits.
LEMMA QueuedRow ==
    ASSUME TypeOK, NEW new \in Rows, ~RingIsFull(SwingRing, rowRing),
           rowRing' = RingPut(SwingRing, rowRing, new)
    PROVE  /\ Len(PendingRows) \in Nat /\ Len(PendingRows') = Len(PendingRows) + 1
           /\ \A j \in 1 .. Len(PendingRows) : PendingRows'[j] = PendingRows[j]
           /\ PendingRows'[Len(PendingRows) + 1] = new
<1>1. rowRing \in Rings(SwingRing, Rows)
  BY DEF TypeOK
<1>2. Len(PendingRows) = RingCount(SwingRing, rowRing) /\ Len(PendingRows) \in Nat
  BY <1>1, RingItemsType, RingCounts DEF PendingRows
<1>3. /\ Len(PendingRows') = Len(PendingRows) + 1
      /\ \A j \in 1 .. Len(PendingRows) : PendingRows'[j] = PendingRows[j]
  BY <1>1, RingPutAccepts DEF PendingRows
<1>4. PendingRows'[Len(PendingRows) + 1] = new
  BY <1>1, <1>2, RingPutAppends DEF PendingRows
<1>. QED  BY <1>2, <1>3, <1>4

\* The row that is emitted is the first one that waits.
LEMMA SentRow ==
    ASSUME TypeOK, PeekedIsOldest, SendRow
    PROVE  /\ Len(PendingRows) \in Nat \ {0} /\ Len(PendingRows') = Len(PendingRows) - 1
           /\ \A k \in 1 .. Len(PendingRows) - 1 : PendingRows'[k] = PendingRows[k + 1]
           /\ csw'.row = PendingRows[1] /\ csw'.dropSwing = droppedRows
           /\ sent' = sent + 1 /\ pc = "send" /\ pc' = "emit"
           /\ UNCHANGED <<swingState, curr, swingSeq, droppedRows, rowDrops, timeline, ready, cps>>
<1>1. /\ rowRing \in Rings(SwingRing, Rows) /\ ~RingIsEmpty(rowRing)
      /\ fs.row = RingOldest(rowRing) /\ rowRing' = RingDrop(SwingRing, rowRing)
  BY DEF TypeOK, PeekedIsOldest, SendRow
<1>2. /\ Len(PendingRows) >= 1 /\ fs.row = PendingRows[1]
      /\ Len(PendingRows') = Len(PendingRows) - 1
      /\ \A k \in 1 .. Len(PendingRows) - 1 : PendingRows'[k] = PendingRows[k + 1]
  BY <1>1, RingDropShifts DEF PendingRows
<1>. QED  BY <1>2, PendingTypes DEF SendRow

\* The other steps leave the rows and their numbers alone.
LEMMA RowsRest ==
    ASSUME [Next]_vars, ~AssembleEdge, ~SendRow
    PROVE  /\ UNCHANGED <<swingState, curr, swingSeq, rowRing, rowDrops, csw, sent>>
           /\ ResetDefaults \/ UNCHANGED <<timeline, droppedRows>>
<1>1. CASE UNCHANGED vars
  BY <1>1 DEF vars, captureVars, asmVars, loopVars, hostVars, histVars
<1>2. CASE IrIsr \/ PpsIsr \/ FinishSetup \/ NoCommand \/ PopPps \/ SendCps \/ PpsDone \/ EdgesDone
  BY <1>2 DEF IrIsr, PpsIsr, FinishSetup, NoCommand, PopPps, SendCps, PpsDone, EdgesDone,
       captureVars, asmVars, loopVars, hostVars, histVars
<1>3. CASE PeekRow \/ SendRowFails \/ EmitDone
  BY <1>3 DEF PeekRow, SendRowFails, EmitDone, captureVars, asmVars, hostVars, histVars
<1>4. CASE ResetDefaults
  BY <1>4 DEF ResetDefaults, hostVars
<1>. QED  BY <1>1, <1>2, <1>3, <1>4 DEF Next, Interrupt, Foreground

\* Only pendulumSetup enables the output, and only a reset begins a timeline.
LEMMA OutputStep == TypeOK /\ OutputIsFirst /\ [Next]_vars => OutputIsFirst'
<1>. SUFFICES ASSUME TypeOK, OutputIsFirst, [Next]_vars PROVE OutputIsFirst'
  OBVIOUS
<1>. USE DEF OutputIsFirst
<1>1. CASE UNCHANGED vars
  BY <1>1 DEF vars, captureVars, asmVars, loopVars, hostVars, histVars
<1>2. CASE Interrupt
  BY <1>2 DEF Interrupt, IrIsr, PpsIsr, loopVars, histVars
<1>3. CASE ResetDefaults
  BY <1>3 DEF ResetDefaults, WithdrawOutput
<1>4. CASE Foreground /\ ~ResetDefaults
  BY <1>4 DEF Foreground, FinishSetup, NoCommand, PopPps, SendCps, PpsDone, AssembleEdge,
       EdgesDone, PeekRow, SendRow, SendRowFails, EmitDone, histVars
<1>. QED  BY <1>1, <1>2, <1>3, <1>4 DEF Next

\* In the first timeline every complete row is of it.
LEMMA FirstTimeline ==
    ASSUME timeline = 0, NEW row \in Rows, Settled(row)
    PROVE  SameTimeline(row)
<1>1. \A i \in 0 .. 4 : row.edge[i].tl \in Nat /\ row.edge[i].tl <= 0
  BY RowStamps DEF Settled
<1>2. \A i \in 0 .. 4 : row.edge[i].tl = 0
  BY <1>1
<1>3. 0 \in 0 .. 4 /\ \A i \in 1 .. 4 : i \in 0 .. 4
  OBVIOUS
<1>. QED  BY <1>2, <1>3 DEF SameTimeline

LEMMA OneTimelineStep ==
    TypeOK /\ TypeOK' /\ PeekedIsOldest /\ ContiguityInv /\ OneTimelineInv /\ [Next]_vars
        => OneTimelineInv'
<1>. SUFFICES ASSUME TypeOK, TypeOK', PeekedIsOldest, ContiguityInv, OneTimelineInv, [Next]_vars
              PROVE  OneTimelineInv'
  OBVIOUS
<1>1. OutputIsFirst'
  BY OutputStep DEF OneTimelineInv
<1>2. CASE AssembleEdge
  <2>1. EmittedRowIsOneTimeline'
    BY <1>2, AssemblerSteps DEF OneTimelineInv, EmittedRowIsOneTimeline, SameTimeline, Ascending
  <2>. SUFFICES ASSUME timeline = 0 PROVE CurrAscends' /\ RowsAscend'
    BY <1>1, <1>2, <2>1, AssemblerSteps DEF OneTimelineInv, CurrAscends, RowsAscend
  <2>. DEFINE q == Queue[1].at.n
  <2>2. /\ e' = Queue[1] /\ q \in 0 .. MaxEdges /\ curr \in Rows /\ swingState \in 0 .. 4
        /\ Queue[1].at \in Stamps
    BY <1>2, PoppedEdge, AfterTheHead DEF ContiguityInv, TypeOK, Edges
  <2>3. curr.edge[0].tl = timeline
    BY <2>2, RowStamps DEF ContiguityInv, RowsAreSettled
  <2>4. ASSUME swingState \in 1 .. 4, Queue[1].type = swingState % 2
        PROVE  curr.edge[swingState - 1].n < q
    BY <1>2, <2>3, <2>4, RowGoesOn DEF Newest, ContiguityInv
  <2>5. CASE UNCHANGED <<swingState, curr, rowRing>>
    BY <1>2, <2>5, AssemblerSteps DEF OneTimelineInv, CurrAscends, RowsAscend, PendingRows, Ascending
  <2>6. CASE swingState = 0 /\ swingState' = 1 /\ rowRing' = rowRing
    BY <2>6 DEF OneTimelineInv, CurrAscends, RowsAscend, PendingRows, Ascending
  <2>7. CASE /\ swingState \in 1 .. 3 /\ swingState' = swingState + 1
             /\ e'.type = swingState % 2 /\ curr'.edge[swingState] = e'.at
             /\ \A i \in 0 .. swingState - 1 : curr'.edge[i] = curr.edge[i]
             /\ rowRing' = rowRing
    <3>1. RowsAscend'
      BY <1>2, <2>7 DEF OneTimelineInv, RowsAscend, PendingRows, Ascending
    <3>2. ASSUME NEW i \in 1 .. swingState' - 1
          PROVE  curr'.edge[i-1].n < curr'.edge[i].n
      <4>1. CASE i = swingState
        BY <2>2, <2>4, <2>7, <4>1
      <4>2. CASE i # swingState
        <5>1. i \in 1 .. swingState - 1 /\ i \in 0 .. swingState - 1 /\ i - 1 \in 0 .. swingState - 1
          BY <2>7, <4>2
        <5>. QED  BY <2>7, <5>1 DEF OneTimelineInv, CurrAscends
      <4>. QED  BY <4>1, <4>2
    <3>. QED  BY <3>1, <3>2 DEF CurrAscends
  <2>8. CASE swingState = 4 /\ swingState' = 1 /\ e'.type = Tick /\ rowRing' = rowRing
    BY <2>8 DEF OneTimelineInv, CurrAscends, RowsAscend, PendingRows, Ascending
  <2>9. CASE /\ swingState = 4 /\ swingState' = 1 /\ e'.type = Tick
             /\ ~RingIsFull(SwingRing, rowRing)
             /\ rowRing' = RingPut(SwingRing, rowRing, WithEdge(curr, 4, e'.at))
    <3>. DEFINE new == WithEdge(curr, 4, e'.at)
    <3>1. 4 \in 0 .. 4 /\ swingSeq \in Nat
      BY DEF TypeOK
    <3>2. new \in Rows
      BY <2>2, <3>1, RowTypes
    <3>3. Ascending(new)
      <4>1. /\ new.edge[4].n = q
            /\ \A i \in 0 .. 3 : new.edge[i] = curr.edge[i]
        BY <2>2 DEF WithEdge, Rows
      <4>2. curr.edge[3].n < q
        BY <2>2, <2>4, <2>9, Parity DEF Tick
      <4>3. \A i \in 1 .. 4 : i = 4 \/ (i \in 1 .. 3 /\ i \in 0 .. 3 /\ i - 1 \in 0 .. 3)
        OBVIOUS
      <4>4. 3 \in 0 .. 3 /\ \A i \in 1 .. 3 : curr.edge[i-1].n < curr.edge[i].n
        BY <2>9 DEF OneTimelineInv, CurrAscends
      <4>. QED  BY <4>1, <4>2, <4>3, <4>4 DEF Ascending
    <3>. HIDE DEF new
    <3>4. /\ Len(PendingRows) \in Nat /\ Len(PendingRows') = Len(PendingRows) + 1
          /\ \A j \in 1 .. Len(PendingRows) : PendingRows'[j] = PendingRows[j]
          /\ PendingRows'[Len(PendingRows) + 1] = new
      BY <2>9, <3>2, QueuedRow DEF new
    <3>5. RowsAscend'
      <4>1. \A j \in 1 .. Len(PendingRows') : j \in 1 .. Len(PendingRows) \/ j = Len(PendingRows) + 1
        BY <3>4
      <4>. QED  BY <3>3, <3>4, <4>1 DEF OneTimelineInv, RowsAscend, Ascending
    <3>. QED  BY <2>9, <3>5 DEF CurrAscends
  <2>. QED  BY <1>2, <2>5, <2>6, <2>7, <2>8, <2>9, AssemblerSteps
<1>3. CASE SendRow
  <2>1. timeline = 0
    BY <1>3, SentRow DEF OneTimelineInv, OutputIsFirst
  <2>2. 1 \in 1 .. Len(PendingRows) /\ PendingRows[1] \in Rows
    BY <1>3, SentRow, PendingTypes
  <2>3. \A row : row = PendingRows[1] => SameTimeline(row) /\ Ascending(row)
    BY <2>1, <2>2, FirstTimeline DEF ContiguityInv, RowsAreSettled, OneTimelineInv, RowsAscend
  <2>4. EmittedRowIsOneTimeline'
    BY <1>3, <2>3, SentRow DEF EmittedRowIsOneTimeline, SameTimeline, Ascending
  <2>5. \A k \in 1 .. Len(PendingRows') :
           k + 1 \in 1 .. Len(PendingRows) /\ PendingRows'[k] = PendingRows[k + 1]
    BY <1>3, SentRow
  <2>6. RowsAscend' /\ CurrAscends'
    BY <1>3, <2>5, SentRow DEF OneTimelineInv, RowsAscend, CurrAscends, Ascending
  <2>. QED  BY <1>1, <2>4, <2>6 DEF OneTimelineInv
<1>4. CASE ~AssembleEdge /\ ~SendRow
  <2>1. /\ UNCHANGED <<swingState, curr, rowRing, csw, sent>>
        /\ timeline' = timeline \/ timeline' # 0
    BY <1>4, RowsRest, ResetQueue
  <2>. QED
    BY <1>1, <2>1 DEF OneTimelineInv, CurrAscends, RowsAscend, PendingRows, EmittedRowIsOneTimeline,
                      SameTimeline, Ascending
<1>. QED  BY <1>2, <1>3, <1>4

LEMMA InitOneTimeline == Init => OneTimelineInv
<1>. SUFFICES ASSUME Init PROVE OneTimelineInv
  OBVIOUS
<1>1. Len(PendingRows) = 0
  BY InitRings DEF PendingRows
<1>. QED
  BY <1>1 DEF Init, OneTimelineInv, OutputIsFirst, CurrAscends, RowsAscend, EmittedRowIsOneTimeline

\* An emitted row is of one run of the counter, its edges in ascending order:
\* the row that `reset defaults` finds half built is never emitted.
THEOREM EmittedRowsAreSound == Spec => []EmittedRowIsOneTimeline
<1>1. OneTimelineInv => EmittedRowIsOneTimeline
  BY DEF OneTimelineInv
<1>2. TypeOK /\ TypeOK' /\ PeekedIsOldest /\ ContiguityInv /\ [Next]_vars => ContiguityInv'
  BY QueueStep, RowStep, SettledStep DEF ContiguityInv
<1>. QED
  BY <1>1, <1>2, InitPeeked, StepPeeked, InitContiguity, InitOneTimeline, OneTimelineStep,
     TypeCorrect, PTL DEF Spec
-----------------------------------------------------------------------------
(* Numbers and boundaries of the rows *)

LEMMA NumberStep ==
    TypeOK /\ PeekedIsOldest /\ RowsConserved /\ RowsAreNumbered /\ DropSwingCoversGap /\ [Next]_vars
        => RowsAreNumbered' /\ DropSwingCoversGap'
<1>. SUFFICES ASSUME TypeOK, PeekedIsOldest, RowsConserved, RowsAreNumbered, DropSwingCoversGap,
                     [Next]_vars
              PROVE  RowsAreNumbered' /\ DropSwingCoversGap'
  OBVIOUS
<1>1. /\ Len(PendingRows) \in Nat /\ Len(PendingRows) = RingCount(SwingRing, rowRing)
      /\ \A k \in 1 .. Len(PendingRows) : PendingRows[k].seq \in Nat
  <2>1. rowRing \in Rings(SwingRing, Rows)
    BY DEF TypeOK
  <2>2. \A row \in Rows : row.seq \in Nat
    BY DEF Rows
  <2>. QED  BY <2>1, <2>2, RingItemsType, PendingTypes DEF PendingRows
<1>2. /\ {swingSeq, sent, rowDrops, droppedRows} \subseteq Nat /\ csw.row.seq \in Nat
      /\ csw.dropSwing \in Nat /\ swingState \in 0 .. 4 /\ timeline \in Nat /\ curr \in Rows
  BY DEF TypeOK, Rows
<1>3. CASE AssembleEdge
  <2>1. /\ timeline' = timeline /\ csw' = csw /\ sent' = sent
        /\ DropSwingCoversGap'
    BY <1>3, AssemblerSteps DEF DropSwingCoversGap
  <2>2. CASE UNCHANGED <<swingState, curr, swingSeq, rowRing, rowDrops, droppedRows>>
    BY <2>1, <2>2 DEF RowsAreNumbered, PendingRows
  <2>3. CASE /\ swingState' = 1 /\ curr'.seq = swingSeq + 1 /\ swingSeq' = swingSeq + 1
             /\ UNCHANGED <<rowRing, rowDrops, droppedRows>>
    BY <2>1, <2>3 DEF RowsAreNumbered, PendingRows
  <2>4. CASE /\ swingState \in 1 .. 3 /\ swingState' = swingState + 1 /\ curr'.seq = curr.seq
             /\ UNCHANGED <<swingSeq, rowRing, rowDrops, droppedRows>>
    BY <2>1, <2>4 DEF RowsAreNumbered, PendingRows
  <2>5. CASE /\ swingState = 4 /\ swingState' = 1
             /\ curr'.seq = swingSeq + 1 /\ swingSeq' = swingSeq + 1
             /\ rowDrops' = rowDrops + 1 /\ droppedRows' = droppedRows + 1 /\ rowRing' = rowRing
    BY SMTT(20), <1>1, <1>2, <2>1, <2>5 DEF RowsAreNumbered, PendingRows
  <2>6. CASE /\ swingState = 4 /\ swingState' = 1
             /\ curr'.seq = swingSeq + 1 /\ swingSeq' = swingSeq + 1
             /\ UNCHANGED <<rowDrops, droppedRows>> /\ ~RingIsFull(SwingRing, rowRing)
             /\ rowRing' = RingPut(SwingRing, rowRing, WithEdge(curr, 4, e'.at))
    <3>. DEFINE new == WithEdge(curr, 4, e'.at)
    <3>1. new.seq = swingSeq
      BY <2>6 DEF WithEdge, RowsAreNumbered
    <3>2. new \in Rows
      BY <1>2, <1>3, PoppedEdge, QueueTypes, RowTypes
    <3>. HIDE DEF new
    <3>3. /\ Len(PendingRows') = Len(PendingRows) + 1
          /\ \A j \in 1 .. Len(PendingRows) : PendingRows'[j] = PendingRows[j]
          /\ PendingRows'[Len(PendingRows) + 1] = new
      BY <2>6, <3>2, QueuedRow DEF new
    <3>4. swingSeq = sent + Len(PendingRows) + rowDrops + 1
      BY <1>1, <2>6 DEF RowsConserved
    <3>5. \A k \in 1 .. Len(PendingRows') : PendingRows'[k].seq <= sent + k + rowDrops
      <4>1. \A k \in 1 .. Len(PendingRows') : k \in 1 .. Len(PendingRows) \/ k = Len(PendingRows) + 1
        BY <1>1, <3>3
      <4>2. \A k \in 1 .. Len(PendingRows) : PendingRows'[k].seq <= sent + k + rowDrops
        BY <3>3 DEF RowsAreNumbered
      <4>3. PendingRows'[Len(PendingRows) + 1].seq <= sent + (Len(PendingRows) + 1) + rowDrops
        BY <1>1, <1>2, <3>1, <3>3, <3>4
      <4>. QED  BY <4>1, <4>2, <4>3
    <3>. QED  BY <2>1, <2>6, <3>5 DEF RowsAreNumbered
  <2>. QED  BY <1>3, <2>1, <2>2, <2>3, <2>4, <2>5, <2>6, AssemblerSteps
<1>4. CASE SendRow
  <2>1. 1 \in 1 .. Len(PendingRows) /\ csw'.row = PendingRows[1]
    BY <1>4, SentRow
  <2>2. csw'.row.seq <= sent + 1 + rowDrops
    BY <2>1 DEF RowsAreNumbered
  <2>3. DropSwingCoversGap'
    BY <1>1, <1>2, <1>4, <2>1, <2>2, SentRow DEF DropSwingCoversGap, RowsAreNumbered
  <2>4. ASSUME NEW k \in 1 .. Len(PendingRows')
        PROVE  PendingRows'[k].seq <= sent' + k + rowDrops'
    <3>1. k + 1 \in 1 .. Len(PendingRows) /\ PendingRows'[k] = PendingRows[k + 1]
      BY <1>4, SentRow
    <3>2. PendingRows[k + 1].seq <= sent + (k + 1) + rowDrops
      BY <3>1 DEF RowsAreNumbered
    <3>. QED  BY <1>1, <1>2, <1>4, <3>1, <3>2, SentRow
  <2>. QED  BY <1>4, <2>3, <2>4, SentRow DEF RowsAreNumbered
<1>5. CASE ~AssembleEdge /\ ~SendRow
  <2>1. /\ UNCHANGED <<swingState, curr, swingSeq, rowRing, rowDrops, csw, sent>>
        /\ UNCHANGED <<timeline, droppedRows>> \/ timeline' # 0
    BY <1>2, <1>5, RowsRest, ResetQueue
  <2>. QED  BY <2>1 DEF RowsAreNumbered, DropSwingCoversGap, PendingRows
<1>. QED  BY <1>3, <1>4, <1>5

\* The numbers missing on the wire up to a row are covered by the drop_swing
\* it reports.
THEOREM GapsAreCovered == Spec => []DropSwingCoversGap
<1>1. Init => RowsAreNumbered /\ DropSwingCoversGap
  <2>. SUFFICES ASSUME Init PROVE RowsAreNumbered /\ DropSwingCoversGap
    OBVIOUS
  <2>1. Len(PendingRows) = 0
    BY InitRings DEF PendingRows
  <2>. QED  BY <2>1 DEF Init, RowsAreNumbered, DropSwingCoversGap
<1>. QED
  BY <1>1, InitPeeked, StepPeeked, InitConserved, StepConserved, NumberStep, TypeCorrect, PTL DEF Spec

\* The completed rows before and after a step.
LEMMA CompletedRows ==
    ASSUME TypeOK, PeekedIsOldest, [Next]_vars, NEW row \in Rows,
           \/ \E k \in 1 .. Len(PendingRows') : row = PendingRows'[k]
           \/ sent' > 0 /\ row = csw'.row
    PROVE  \/ Completed(row)
           \/ /\ AssembleEdge /\ swingState = 4 /\ swingState' = 1
              /\ row.seq = curr.seq /\ row.edge[0] = curr.edge[0] /\ row.edge[4] = e'.at
<1>1. curr \in Rows /\ Len(PendingRows) \in Nat
  BY PendingTypes DEF TypeOK
<1>2. CASE AssembleEdge /\ UNCHANGED rowRing
  BY <1>2, AssemblerSteps DEF Completed, PendingRows
<1>3. CASE AssembleEdge /\ rowRing' # rowRing
  <2>. DEFINE new == WithEdge(curr, 4, e'.at)
  <2>1. /\ swingState = 4 /\ swingState' = 1 /\ ~RingIsFull(SwingRing, rowRing)
        /\ rowRing' = RingPut(SwingRing, rowRing, new) /\ csw' = csw /\ sent' = sent
    BY <1>3, AssemblerSteps
  <2>2. new \in Rows
    <3>1. e'.at \in Stamps /\ swingSeq \in Nat /\ 4 \in 0 .. 4
      BY SMTT(20), <1>3, PoppedEdge, QueueTypes DEF TypeOK
    <3>. QED  BY <1>1, <3>1, RowTypes
  <2>3. new.seq = curr.seq /\ new.edge[0] = curr.edge[0] /\ new.edge[4] = e'.at
    BY <1>1 DEF WithEdge, Rows
  <2>. HIDE DEF new
  <2>4. /\ Len(PendingRows') = Len(PendingRows) + 1
        /\ \A j \in 1 .. Len(PendingRows) : PendingRows'[j] = PendingRows[j]
        /\ PendingRows'[Len(PendingRows) + 1] = new
    BY <2>1, <2>2, QueuedRow
  <2>5. \A j \in 1 .. Len(PendingRows') : j \in 1 .. Len(PendingRows) \/ j = Len(PendingRows) + 1
    BY <1>1, <2>4
  <2>. QED  BY <1>3, <2>1, <2>3, <2>4, <2>5 DEF Completed
<1>4. CASE SendRow
  <2>1. 1 \in 1 .. Len(PendingRows) /\ csw'.row = PendingRows[1]
    BY <1>4, SentRow
  <2>2. \A k \in 1 .. Len(PendingRows') :
           k + 1 \in 1 .. Len(PendingRows) /\ PendingRows'[k] = PendingRows[k + 1]
    BY <1>4, SentRow
  <2>. QED  BY <2>1, <2>2 DEF Completed
<1>5. CASE ~AssembleEdge /\ ~SendRow
  BY <1>5, RowsRest DEF Completed, PendingRows
<1>. QED  BY <1>2, <1>3, <1>4, <1>5

LEMMA FollowStep ==
    TypeOK /\ TypeOK' /\ PeekedIsOldest /\ RowsAreNumbered /\ RowsFollow /\ [Next]_vars => RowsFollow'
<1>. SUFFICES ASSUME TypeOK, TypeOK', PeekedIsOldest, RowsAreNumbered, RowsFollow, [Next]_vars
              PROVE  RowsFollow'
  OBVIOUS
<1>1. /\ curr \in Rows /\ curr' \in Rows /\ swingState \in 0 .. 4 /\ swingSeq \in Nat
      /\ curr.seq \in Nat
      /\ \A row \in Rows : row.seq \in Nat /\ row.edge \in [0 .. 4 -> Stamps]
  BY DEF TypeOK, Rows
<1>. DEFINE New(row) == /\ AssembleEdge /\ swingState = 4 /\ swingState' = 1
                        /\ row.seq = curr.seq /\ row.edge[0] = curr.edge[0] /\ row.edge[4] = e'.at
<1>2. ASSUME NEW a \in Rows, Completed(a)' PROVE Completed(a) \/ New(a)
  BY <1>2, CompletedRows DEF Completed
<1>3. ASSUME NEW a \in Rows, Completed(a)
      PROVE  swingState > 0 /\ a.seq < curr.seq /\ Follows(curr, a) /\ curr.seq = swingSeq
  BY <1>3 DEF RowsFollow, RowsAreNumbered
<1>4. ASSUME NEW a \in Rows, NEW b \in Rows, Completed(a), Completed(b) PROVE Follows(b, a)
  BY <1>4 DEF RowsFollow
<1>5. ASSUME NEW a \in Rows, Completed(a)' PROVE swingState' > 0 /\ a.seq < curr'.seq /\ Follows(curr', a)
  <2>1. CASE AssembleEdge
    <3>1. CASE New(a)
      <4>1. curr'.seq = curr.seq + 1 /\ curr'.edge[0] = a.edge[4]
        BY <1>1, <2>1, <3>1, AssemblerSteps DEF RowsAreNumbered
      <4>. QED  BY <1>1, <3>1, <4>1 DEF Follows
    <3>2. CASE Completed(a) /\ UNCHANGED <<swingState, curr>>
      BY <1>3, <3>2 DEF Follows
    <3>3. CASE Completed(a) /\ swingState \in 1 .. 3 /\ swingState' = swingState + 1
               /\ curr'.seq = curr.seq /\ \A i \in 0 .. swingState - 1 : curr'.edge[i] = curr.edge[i]
      <4>1. curr'.edge[0] = curr.edge[0]
        BY <3>3
      <4>. QED  BY <1>3, <3>3, <4>1 DEF Follows
    <3>4. CASE Completed(a) /\ swingState = 4 /\ swingState' = 1 /\ curr'.seq = swingSeq + 1
      BY <1>1, <1>3, <3>4 DEF Follows
    <3>. QED  BY <1>2, <1>3, <1>5, <2>1, <3>1, <3>2, <3>3, <3>4, AssemblerSteps
  <2>2. CASE ~AssembleEdge
    <3>1. UNCHANGED <<swingState, curr>>
      BY <2>2, RowsRest, SentRow
    <3>. QED  BY <1>2, <1>3, <1>5, <2>2, <3>1 DEF Follows
  <2>. QED  BY <2>1, <2>2
<1>6. ASSUME NEW a \in Rows, NEW b \in Rows, Completed(a)', Completed(b)' PROVE Follows(b, a)
  <2>1. CASE Completed(a) /\ Completed(b)
    BY <1>4, <2>1
  <2>2. CASE Completed(a) /\ New(b)
    BY <1>3, <2>2 DEF Follows
  <2>3. CASE New(a)
    <3>1. b.seq <= curr.seq
      BY <1>1, <1>2, <1>3, <1>6
    <3>. QED  BY <1>1, <2>3, <3>1 DEF Follows
  <2>. QED  BY <1>2, <1>6, <2>1, <2>2, <2>3
<1>. HIDE DEF New
<1>. QED  BY <1>5, <1>6 DEF RowsFollow, Follows

\* Neighbouring rows on the wire share their boundary edge: the host's
\* continuity test fails only across a gap in the numbers.
THEOREM BoundariesAreShared == Spec => SharedBoundary
<1>1. Init => RowsAreNumbered /\ DropSwingCoversGap /\ RowsFollow
  <2>. SUFFICES ASSUME Init PROVE RowsAreNumbered /\ DropSwingCoversGap /\ RowsFollow
    OBVIOUS
  <2>1. Len(PendingRows) = 0
    BY InitRings DEF PendingRows
  <2>. QED  BY <2>1 DEF Init, RowsAreNumbered, DropSwingCoversGap, RowsFollow, Completed
<1>2. TypeOK /\ TypeOK' /\ PeekedIsOldest /\ RowsFollow /\ [Next]_vars => [SharesBoundary]_csw
  <2>. SUFFICES ASSUME TypeOK, PeekedIsOldest, RowsFollow, [Next]_vars, csw' # csw, sent > 0
                PROVE  SharesBoundary
    BY DEF SharesBoundary
  <2>1. SendRow
    BY AssemblerSteps, RowsRest
  <2>2. 1 \in 1 .. Len(PendingRows) /\ csw'.row = PendingRows[1]
    BY <2>1, SentRow
  <2>3. csw.row \in Rows /\ csw'.row \in Rows
    BY <2>2, PendingTypes DEF TypeOK
  <2>4. \A b : b = csw'.row => Completed(b)
    BY <2>2 DEF Completed
  <2>5. \A a : a = csw.row => Completed(a)
    BY DEF Completed
  <2>. QED  BY <2>3, <2>4, <2>5 DEF RowsFollow, Follows, SharesBoundary
<1>. QED
  BY <1>1, <1>2, InitPeeked, StepPeeked, InitConserved, StepConserved, NumberStep, FollowStep,
     TypeCorrect, PTL DEF Spec, SharedBoundary
-----------------------------------------------------------------------------
(* The CPS rows *)

LEMMA PpsStep ==
    TypeOK /\ TypeOK' /\ OutputIsFirst /\ PpsAscends /\ [Next]_vars
        => PpsAscends' /\ [NextCpsAscends]_cps
<1>. SUFFICES ASSUME TypeOK, TypeOK', OutputIsFirst, PpsAscends, [Next]_vars
              PROVE  PpsAscends' /\ [NextCpsAscends]_cps
  OBVIOUS
<1>1. /\ ppsRing \in Rings(PpsRing, 0 .. MaxPps) /\ {cap, ppsSeen, cps.seq} \subseteq Nat
      /\ Len(PpsQueue) \in Nat /\ Len(PpsQueue) = RingCount(PpsRing, ppsRing)
      /\ \A k \in 1 .. Len(PpsQueue) : PpsQueue[k] \in Nat
  <2>1. ppsRing \in Rings(PpsRing, 0 .. MaxPps) /\ {cap, ppsSeen, cps.seq} \subseteq Nat
    BY DEF TypeOK
  <2>2. PpsQueue \in Seq(0 .. MaxPps) /\ Len(PpsQueue) = RingCount(PpsRing, ppsRing)
    BY <2>1, RingItemsType DEF PpsQueue
  <2>3. \A k \in 1 .. Len(PpsQueue) : PpsQueue[k] \in Nat
    BY <2>2
  <2>. QED  BY <2>1, <2>2, <2>3
<1>2. CASE PpsIsr
  <2>1. /\ UNCHANGED <<cap, cps, pc, timeline>> /\ ppsSeen' = ppsSeen + 1 /\ ppsSeen + 1 \in 0 .. MaxPps
        /\ \/ ppsRing' = ppsRing
           \/ ~RingIsFull(PpsRing, ppsRing) /\ ppsRing' = RingPut(PpsRing, ppsRing, ppsSeen + 1)
    BY <1>2 DEF PpsIsr, loopVars, hostVars, histVars, TypeOK
  <2>. SUFFICES ASSUME timeline = 0 PROVE PpsAscends'
    BY <2>1 DEF PpsAscends
  <2>2. CASE ppsRing' = ppsRing
    BY <1>1, <2>1, <2>2 DEF PpsAscends, PpsQueue
  <2>3. CASE ~RingIsFull(PpsRing, ppsRing) /\ ppsRing' = RingPut(PpsRing, ppsRing, ppsSeen + 1)
    <3>1. /\ Len(PpsQueue') = Len(PpsQueue) + 1
          /\ \A k \in 1 .. Len(PpsQueue) : PpsQueue'[k] = PpsQueue[k]
      BY SMTT(20), <1>1, <2>1, <2>3, RingPutAccepts DEF PpsQueue
    <3>2. PpsQueue'[Len(PpsQueue) + 1] = ppsSeen + 1
      BY <1>1, <2>1, <2>3, RingPutAppends DEF PpsQueue
    <3>3. ASSUME NEW k \in 1 .. Len(PpsQueue')
          PROVE  /\ cap < PpsQueue'[k] /\ PpsQueue'[k] <= ppsSeen'
                 /\ \A j \in 1 .. Len(PpsQueue') : j < k => PpsQueue'[j] < PpsQueue'[k]
      <4>1. CASE k \in 1 .. Len(PpsQueue)
        <5>1. \A j \in 1 .. Len(PpsQueue') : j < k => j \in 1 .. Len(PpsQueue)
          BY <1>1, <3>1, <4>1
        <5>. QED  BY <1>1, <2>1, <3>1, <4>1, <5>1 DEF PpsAscends
      <4>2. CASE k = Len(PpsQueue) + 1
        <5>1. \A j \in 1 .. Len(PpsQueue') : j < k => j \in 1 .. Len(PpsQueue)
          BY <1>1, <3>1, <4>2
        <5>2. \A j \in 1 .. Len(PpsQueue) : PpsQueue[j] < ppsSeen + 1
          BY <1>1 DEF PpsAscends
        <5>. QED  BY <1>1, <2>1, <3>1, <3>2, <4>2, <5>1, <5>2 DEF PpsAscends
      <4>. QED  BY <1>1, <3>1, <4>1, <4>2
    <3>. QED  BY <1>1, <2>1, <3>3 DEF PpsAscends
  <2>. QED  BY <2>1, <2>2, <2>3
<1>3. CASE PopPps
  <2>1. /\ ~RingIsEmpty(ppsRing) /\ cap' = RingOldest(ppsRing) /\ pc' = "cps"
        /\ ppsRing' = RingDrop(PpsRing, ppsRing) /\ UNCHANGED <<ppsSeen, cps, timeline>>
    BY <1>3 DEF PopPps, hostVars, histVars
  <2>2. /\ Len(PpsQueue) >= 1 /\ cap' = PpsQueue[1] /\ Len(PpsQueue') = Len(PpsQueue) - 1
        /\ \A k \in 1 .. Len(PpsQueue) - 1 : PpsQueue'[k] = PpsQueue[k + 1]
    BY <1>1, <2>1, RingDropShifts DEF PpsQueue
  <2>3. 1 \in 1 .. Len(PpsQueue)
    BY <1>1, <2>2
  <2>4. ASSUME NEW k \in 1 .. Len(PpsQueue'), timeline = 0
        PROVE  /\ cap' < PpsQueue'[k] /\ PpsQueue'[k] <= ppsSeen
               /\ \A j \in 1 .. Len(PpsQueue') : j < k => PpsQueue'[j] < PpsQueue'[k]
    <3>1. k + 1 \in 1 .. Len(PpsQueue) /\ 1 < k + 1 /\ PpsQueue'[k] = PpsQueue[k + 1]
      BY <1>1, <2>2
    <3>2. \A j \in 1 .. Len(PpsQueue') : j < k =>
             j + 1 \in 1 .. Len(PpsQueue) /\ j + 1 < k + 1 /\ PpsQueue'[j] = PpsQueue[j + 1]
      BY <1>1, <2>2
    <3>. QED  BY <2>2, <2>3, <2>4, <3>1, <3>2 DEF PpsAscends
  <2>5. timeline = 0 => cps.seq < cap' /\ cap' <= ppsSeen
    BY <1>1, <2>2, <2>3 DEF PpsAscends
  <2>. QED  BY <1>1, <2>1, <2>2, <2>4, <2>5 DEF PpsAscends
<1>4. CASE SendCps
  <2>1. /\ pc = "cps" /\ pc' = "pps" /\ UNCHANGED <<cap, ppsSeen, ppsRing, timeline>>
        /\ cps' = cps \/ (ready /\ cps'.seq = cap)
    BY <1>4 DEF SendCps, captureVars, histVars
  <2>2. cps' = cps \/ (timeline = 0 /\ cps'.seq = cap /\ cps.seq < cap)
    BY <2>1 DEF OutputIsFirst, PpsAscends
  <2>. QED  BY <1>1, <2>1, <2>2 DEF PpsAscends, PpsQueue, NextCpsAscends
<1>5. CASE ResetDefaults
  BY <1>5, ResetQueue DEF ResetDefaults, hostVars, PpsAscends
<1>6. CASE ~PpsIsr /\ ~PopPps /\ ~SendCps /\ ~ResetDefaults
  <2>1. UNCHANGED <<cap, ppsSeen, ppsRing, timeline, cps>> /\ (pc' = "cps" => pc = "cps")
    <3>1. CASE UNCHANGED vars
      BY <3>1 DEF vars, captureVars, loopVars, hostVars, histVars
    <3>2. CASE IrIsr \/ FinishSetup \/ NoCommand \/ PpsDone \/ AssembleEdge \/ EdgesDone
      BY <3>2 DEF IrIsr, FinishSetup, NoCommand, PpsDone, AssembleEdge, EdgesDone,
           captureVars, loopVars, hostVars, histVars
    <3>3. CASE PeekRow \/ SendRow \/ SendRowFails \/ EmitDone
      BY <3>3 DEF PeekRow, SendRow, SendRowFails, EmitDone, captureVars, hostVars, histVars
    <3>. QED  BY <1>6, <3>1, <3>2, <3>3 DEF Next, Interrupt, Foreground
  <2>. QED  BY <2>1 DEF PpsAscends, PpsQueue
<1>. QED  BY <1>2, <1>3, <1>4, <1>5, <1>6

\* CPS rows reach the host in ascending sequence, so it never takes one for a
\* restart of the Nano: the captures of a new timeline are not emitted.
THEOREM PpsRowsAscend == Spec => CpsAscends
<1>1. Init => OutputIsFirst /\ PpsAscends
  <2>. SUFFICES ASSUME Init PROVE OutputIsFirst /\ PpsAscends
    OBVIOUS
  <2>1. Len(PpsQueue) = 0
    BY InitRings DEF PpsQueue
  <2>. QED  BY <2>1 DEF Init, OutputIsFirst, PpsAscends
<1>. QED  BY <1>1, OutputStep, PpsStep, TypeCorrect, PTL DEF Spec, CpsAscends
=============================================================================
