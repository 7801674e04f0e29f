-------------------------- MODULE CapturePipeline ---------------------------
(***************************************************************************)
(* The firmware's capture path, from the timer interrupts to the serial    *)
(* rows: the TCB1 ISR queues IR edges, the TCB2 ISR queues PPS captures,   *)
(* and pendulumLoop pops both, assembles swings of five edges and emits    *)
(* CPS and CSW rows.  The ISRs may run between any two foreground steps.   *)
(*                                                                         *)
(* An edge timestamp is represented by the timeline it belongs to (the     *)
(* shared counter restarts at every captureResetAndReinit) and its ordinal *)
(* in that timeline; how a timestamp is reconstructed is Timebase's topic. *)
(***************************************************************************)
EXTENDS Integers, Sequences, FiniteSets

CONSTANTS EdgeRing,    \* CAPTURE_EDGE_BUFFER_SIZE
          PpsRing,     \* CAPTURE_PPS_RING_SIZE
          SwingRing,   \* RING_SIZE_SWING_ROWS
          PpsBudget,   \* PPS_PROCESS_BUDGET_PER_LOOP
          SwingBudget, \* SWING_PROCESS_BUDGET_PER_LOOP
          MaxEdges,    \* bound: IR edges captured per timeline
          MaxPps,      \* bound: PPS pulses captured per timeline
          MaxResets    \* bound: `reset defaults` commands

\* The ring sizes are powers of two in the code; a ring of one slot could
\* hold nothing.  The budgets let a pass do some work.
ASSUME RingAssumption == /\ EdgeRing \in Nat /\ EdgeRing >= 2
                         /\ PpsRing \in Nat /\ PpsRing >= 2
                         /\ SwingRing \in Nat /\ SwingRing >= 2
ASSUME BudgetAssumption == /\ PpsBudget \in Nat \ {0}
                           /\ SwingBudget \in Nat \ {0}
ASSUME BoundAssumption == /\ MaxEdges \in Nat
                          /\ MaxPps \in Nat
                          /\ MaxResets \in Nat

-----------------------------------------------------------------------------
(* The power-of-two ring buffer the firmware uses three times: for IR edges, *)
(* for PPS captures and for assembled swing rows.  One slot always stays     *)
(* empty, so that head = tail means "empty" and a ring of N slots holds at   *)
(* most N - 1 items; the producer moves head only, the consumer tail only.   *)
(* The code masks the next index, (i + 1) & (N - 1), N a power of two: on    *)
(* 0..N-1 that is the wrapping successor written here.                       *)

\* The rings over values of S with N slots.
Rings(N, S) == [buf : [0 .. N-1 -> S], head : 0 .. N-1, tail : 0 .. N-1]

\* The state of a ring before its first item; v fills the slots, as the
\* program's zeroed static storage does.
EmptyRing(N, v) == [buf |-> [i \in 0 .. N-1 |-> v], head |-> 0, tail |-> 0]

\* Mutant: the mask is forgotten and the index runs off the buffer.
RingNextUnmasked(N, i) == i + 1

RingNext(N, i) == IF i + 1 = N THEN 0 ELSE i + 1

RingIsEmpty(r) == r.head = r.tail

\* Mutant: the slot kept empty is used too, so a full ring looks empty.
RingNeverFull(N, r) == FALSE

RingIsFull(N, r) == RingNext(N, r.head) = r.tail

\* The producer's half: fill the slot at head, then publish it.
RingPut(N, r, v) == [buf  |-> [r.buf EXCEPT ![r.head] = v],
                     head |-> RingNext(N, r.head),
                     tail |-> r.tail]

\* The consumer's half: the oldest item, and the ring without it.
RingOldest(r) == r.buf[r.tail]
RingDrop(N, r) == [buf |-> r.buf, head |-> r.head, tail |-> RingNext(N, r.tail)]

RingCount(N, r) ==
    IF r.head >= r.tail THEN r.head - r.tail ELSE r.head - r.tail + N

\* The slot of the k-th oldest item, 1 <= k <= RingCount.
RingSlot(N, r, k) ==
    IF r.tail + k - 1 < N THEN r.tail + k - 1 ELSE r.tail + k - 1 - N

\* What the ring holds, oldest first.
RingItems(N, r) == [k \in 1 .. RingCount(N, r) |-> r.buf[RingSlot(N, r, k)]]
-----------------------------------------------------------------------------
VARIABLES
    (* Capture state, written by the ISRs *)
    side,         \* tcb1CaptureSide: the type of the next edge
    irRing,       \* evbuf, ev_head, ev_tail
    droppedIr,    \* droppedIrEvents
    ppsSeen,      \* pps_seen
    ppsRing,      \* ppsBuffer, ppsHead, ppsTail
    droppedPps,   \* droppedPpsEvents
    (* Swing assembler *)
    swingState,   \* swing_state: edges the current row already has, capped
    curr,         \* curr: the row being assembled
    swingSeq,     \* swing_seq
    rowRing,      \* swing_buf, swing_head, swing_tail
    droppedRows,  \* droppedSwingRows, reset with the capture state
    rowDrops,     \* swing_transport_drops, never reset
    (* Foreground loop *)
    pc,           \* where pendulumLoop stands
    budget,       \* budget_remaining, then swing_budget
    ready,        \* startup_output_ready
    e,            \* the EdgeEvent popped last
    cap,          \* seq of the PpsCapture popped last
    fs,           \* the FullSwing being emitted, with the drop_ir read for it
    (* What the host sees: the last row of each kind *)
    csw, cps,
    (* History *)
    timeline,     \* how often the shared counter was restarted
    irSeen,       \* edges captured in this timeline
    lost,         \* ordinals of the edges the full IR ring refused
    sent          \* CSW rows emitted

captureVars == <<side, irRing, droppedIr, ppsSeen, ppsRing, droppedPps>>
asmVars     == <<swingState, curr, swingSeq, rowRing, droppedRows, rowDrops>>
loopVars    == <<pc, budget, ready, e, cap, fs>>
hostVars    == <<csw, cps>>
histVars    == <<timeline, irSeen, lost, sent>>
vars == <<captureVars, asmVars, loopVars, hostVars, histVars>>
-----------------------------------------------------------------------------
Tick == 0   \* edge type: beam opens; the side captured first after a reset
Tock == 1

Stamps == [tl : 0 .. MaxResets, n : 0 .. MaxEdges]
Edges  == [at : Stamps, type : {Tick, Tock}]
Rows   == [seq : Nat, edge : [0 .. 4 -> Stamps]]

ZeroStamp == [tl |-> 0, n |-> 0]
ZeroRow   == [seq |-> 0, edge |-> [i \in 0 .. 4 |-> ZeroStamp]]
ZeroEdge  == [at |-> ZeroStamp, type |-> Tick]

\* pendulumLoop's local FullSwing outside its emission loop.
NoSwing   == [row |-> ZeroRow, dropIr |-> 0]

\* The state when pendulumSetup enables interrupts: capture just reset, the
\* serial port settling, nothing emitted yet.
Init ==
    /\ side = Tick
    /\ irRing = EmptyRing(EdgeRing, ZeroEdge)
    /\ droppedIr = 0
    /\ ppsSeen = 0
    /\ ppsRing = EmptyRing(PpsRing, 0)
    /\ droppedPps = 0
    /\ swingState = 0
    /\ curr = ZeroRow
    /\ swingSeq = 0
    /\ rowRing = EmptyRing(SwingRing, ZeroRow)
    /\ droppedRows = 0
    /\ rowDrops = 0
    /\ pc = "setup"
    /\ budget = 0
    /\ ready = FALSE
    /\ e = ZeroEdge
    /\ cap = 0
    /\ fs = NoSwing
    /\ csw = [row |-> ZeroRow, dropIr |-> 0, dropPps |-> 0, dropSwing |-> 0]
    /\ cps = [seq |-> 0, dropPps |-> 0]
    /\ timeline = 0
    /\ irSeen = 0
    /\ lost = {}
    /\ sent = 0
-----------------------------------------------------------------------------
(* Interrupts *)

\* Mutant: the drop is not counted.
ForgetIrDrop == UNCHANGED droppedIr

\* droppedIrEvents_inc_isr
CountIrDrop == droppedIr' = droppedIr + 1

\* ISR(TCB1_INT_vect): queue the edge, or count it as dropped; either way
\* arm the opposite polarity.
IrIsr ==
    /\ irSeen < MaxEdges
    /\ IF RingIsFull(EdgeRing, irRing)
       THEN /\ CountIrDrop
            /\ lost' = lost \cup {irSeen}
            /\ UNCHANGED irRing
       ELSE /\ irRing' = RingPut(EdgeRing, irRing,
                    [at |-> [tl |-> timeline, n |-> irSeen], type |-> side])
            /\ UNCHANGED <<droppedIr, lost>>
    /\ side' = 1 - side
    /\ irSeen' = irSeen + 1
    /\ UNCHANGED <<ppsSeen, ppsRing, droppedPps, timeline, sent>>
    /\ UNCHANGED <<asmVars, loopVars, hostVars>>

\* ISR(TCB2_INT_vect) and ppsData_push_isr.
PpsIsr ==
    /\ ppsSeen < MaxPps
    /\ ppsSeen' = ppsSeen + 1
    /\ IF RingIsFull(PpsRing, ppsRing)
       THEN droppedPps' = droppedPps + 1 /\ UNCHANGED ppsRing
       ELSE ppsRing' = RingPut(PpsRing, ppsRing, ppsSeen + 1) /\ UNCHANGED droppedPps
    /\ UNCHANGED <<side, irRing, droppedIr>>
    /\ UNCHANGED <<asmVars, loopVars, hostVars, histVars>>
-----------------------------------------------------------------------------
(* Foreground: pendulumSetup's end, then passes of pendulumLoop *)

\* The settle delay is over; output starts and the loop is entered.
FinishSetup ==
    /\ pc = "setup"
    /\ ready' = TRUE
    /\ pc' = "commands"
    /\ UNCHANGED <<budget, e, cap, fs>>
    /\ UNCHANGED <<captureVars, asmVars, hostVars, histVars>>

\* processSerialCommands with nothing to do for the capture path.
NoCommand ==
    /\ pc = "commands"
    /\ pc' = "pps"
    /\ budget' = PpsBudget
    /\ UNCHANGED <<ready, e, cap, fs>>
    /\ UNCHANGED <<captureVars, asmVars, hostVars, histVars>>

ResetRing(r) == [buf |-> r.buf, head |-> 0, tail |-> 0]

\* Mutant: output goes on, and with it the half-built row.
KeepOutput == UNCHANGED ready

\* startup_output_ready is cleared; only pendulumSetup sets it.
WithdrawOutput == ready' = FALSE

\* `reset defaults`, saved successfully: resetRuntimeStateAfterTunablesChange
\* restarts the capture hardware and software state and withdraws output
\* readiness.  The assembler's row, sequence and ring are left as they are.
ResetDefaults ==
    /\ pc = "commands"
    /\ timeline < MaxResets
    /\ pc' = "pps"
    /\ budget' = PpsBudget
    /\ side' = Tick
    /\ irRing' = ResetRing(irRing)
    /\ droppedIr' = 0
    /\ ppsSeen' = 0
    /\ ppsRing' = ResetRing(ppsRing)
    /\ droppedPps' = 0
    /\ droppedRows' = 0
    /\ WithdrawOutput
    /\ timeline' = timeline + 1
    /\ irSeen' = 0
    /\ lost' = {}
    /\ UNCHANGED <<swingState, curr, swingSeq, rowRing, rowDrops>>
    /\ UNCHANGED <<e, cap, fs, hostVars, sent>>

\* One turn of process_pps's loop: captureTryPopPps within the budget.
PopPps ==
    /\ pc = "pps"
    /\ budget > 0
    /\ ~RingIsEmpty(ppsRing)
    /\ cap' = RingOldest(ppsRing)
    /\ ppsRing' = RingDrop(PpsRing, ppsRing)
    /\ budget' = budget - 1
    /\ pc' = "cps"
    /\ UNCHANGED <<side, irRing, droppedIr, ppsSeen, droppedPps>>
    /\ UNCHANGED <<ready, e, fs, asmVars, hostVars, histVars>>

\* sendCanonicalPpsSample: its result is discarded, a failed row is gone.
\* Classification of the capture follows (module PpsHealth).
SendCps ==
    /\ pc = "cps"
    /\ pc' = "pps"
    /\ \/ /\ ready
          /\ cps' = [seq |-> cap, dropPps |-> droppedPps]
       \/ UNCHANGED cps
    /\ UNCHANGED <<budget, ready, e, cap, fs, csw>>
    /\ UNCHANGED <<captureVars, asmVars, histVars>>

PpsDone ==
    /\ pc = "pps"
    /\ budget = 0 \/ RingIsEmpty(ppsRing)
    /\ pc' = "edges"
    /\ budget' = 0
    /\ UNCHANGED <<ready, e, cap, fs>>
    /\ UNCHANGED <<captureVars, asmVars, hostVars, histVars>>

\* Mutant: the row vanishes without swing_transport_drops.
CountRowDropHostOnly == droppedRows' = droppedRows + 1 /\ UNCHANGED rowDrops

CountRowDrop == rowDrops' = rowDrops + 1 /\ droppedRows' = droppedRows + 1

\* swing_push: the newest row is the one a full ring refuses.
PushRow(row) ==
    IF RingIsFull(SwingRing, rowRing)
    THEN CountRowDrop /\ UNCHANGED rowRing
    ELSE /\ rowRing' = RingPut(SwingRing, rowRing, row)
         /\ UNCHANGED <<rowDrops, droppedRows>>

WithEdge(row, i, at) == [seq |-> row.seq, edge |-> [row.edge EXCEPT ![i] = at]]

\* Mutant: case 2 waits for the wrong edge type.
WantedWrongAtTwo == IF swingState \in 1 .. 3 THEN Tock ELSE Tick

\* The edge type swing_state waits for; another type is ignored.
Wanted == IF swingState \in {1, 3} THEN Tock ELSE Tick

\* A row begins with a fresh sequence number.
StartRow(row, at) == [seq |-> swingSeq + 1, edge |-> [row.edge EXCEPT ![0] = at]]

\* One turn of swingAssemblerProcessEdges: pop an edge and offer it to the
\* assembler.  The fifth edge completes the row and begins the next one.
AssembleEdge ==
    /\ pc = "edges"
    /\ ~RingIsEmpty(irRing)
    /\ e' = RingOldest(irRing)
    /\ irRing' = RingDrop(EdgeRing, irRing)
    /\ \/ /\ e'.type # Wanted
          /\ UNCHANGED asmVars
       \/ /\ e'.type = Wanted
          /\ swingState = 0
          /\ curr' = StartRow(curr, e'.at)
          /\ swingSeq' = swingSeq + 1
          /\ swingState' = 1
          /\ UNCHANGED <<rowRing, droppedRows, rowDrops>>
       \/ /\ e'.type = Wanted
          /\ swingState \in 1 .. 3
          /\ curr' = WithEdge(curr, swingState, e'.at)
          /\ swingState' = swingState + 1
          /\ UNCHANGED <<swingSeq, rowRing, droppedRows, rowDrops>>
       \/ /\ e'.type = Wanted
          /\ swingState = 4
          /\ PushRow(WithEdge(curr, 4, e'.at))
          /\ curr' = StartRow(WithEdge(curr, 4, e'.at), e'.at)
          /\ swingSeq' = swingSeq + 1
          /\ swingState' = 1
    /\ UNCHANGED <<side, droppedIr, ppsSeen, ppsRing, droppedPps>>
    /\ UNCHANGED <<pc, budget, ready, cap, fs, hostVars, histVars>>

EdgesDone ==
    /\ pc = "edges"
    /\ RingIsEmpty(irRing)
    /\ pc' = "emit"
    /\ budget' = SwingBudget
    /\ UNCHANGED <<ready, e, cap, fs>>
    /\ UNCHANGED <<captureVars, asmVars, hostVars, histVars>>

\* swingAssemblerTryPeekOldest, then the first drop counter is read.
PeekRow ==
    /\ pc = "emit"
    /\ budget > 0
    /\ ~RingIsEmpty(rowRing)
    /\ ready
    /\ fs' = [row |-> RingOldest(rowRing), dropIr |-> droppedIr]
    /\ budget' = budget - 1
    /\ pc' = "send"
    /\ UNCHANGED <<ready, e, cap>>
    /\ UNCHANGED <<captureVars, asmVars, hostVars, histVars>>

\* sendCanonicalSwingSample succeeds and the row is retired.
SendRow ==
    /\ pc = "send"
    /\ csw' = [row |-> fs.row, dropIr |-> fs.dropIr,
               dropPps |-> droppedPps, dropSwing |-> droppedRows]
    /\ rowRing' = RingDrop(SwingRing, rowRing)
    /\ sent' = sent + 1
    /\ pc' = "emit"
    /\ UNCHANGED <<swingState, curr, swingSeq, droppedRows, rowDrops>>
    /\ UNCHANGED <<budget, ready, e, cap, fs, cps>>
    /\ UNCHANGED <<captureVars, timeline, irSeen, lost>>

\* Mutant: the row is retired although its send failed.
SendRowFailsRetiring ==
    /\ pc = "send"
    /\ pc' = "commands"
    /\ budget' = 0
    /\ fs' = NoSwing
    /\ UNCHANGED <<ready, e, cap>>
    /\ rowRing' = RingDrop(SwingRing, rowRing)
    /\ UNCHANGED <<swingState, curr, swingSeq, droppedRows, rowDrops>>
    /\ UNCHANGED <<captureVars, hostVars, histVars>>

\* The transmit buffer is short or busy: the row stays for a later pass.
SendRowFails ==
    /\ pc = "send"
    /\ pc' = "commands"
    /\ budget' = 0
    /\ fs' = NoSwing
    /\ UNCHANGED <<ready, e, cap>>
    /\ UNCHANGED <<captureVars, asmVars, hostVars, histVars>>

EmitDone ==
    /\ pc = "emit"
    /\ budget = 0 \/ RingIsEmpty(rowRing) \/ ~ready
    /\ pc' = "commands"
    /\ budget' = 0
    /\ fs' = NoSwing
    /\ UNCHANGED <<ready, e, cap>>
    /\ UNCHANGED <<captureVars, asmVars, hostVars, histVars>>
-----------------------------------------------------------------------------
Interrupt == IrIsr \/ PpsIsr

Foreground == \/ FinishSetup \/ NoCommand \/ ResetDefaults
              \/ PopPps \/ SendCps \/ PpsDone
              \/ AssembleEdge \/ EdgesDone
              \/ PeekRow \/ SendRow \/ SendRowFails \/ EmitDone

Next == Interrupt \/ Foreground

Spec == Init /\ [][Next]_vars

\* The foreground never stops, and a serial link that is drained accepts a
\* row at some later attempt, however often it refused before.
Fairness == /\ WF_vars(Foreground)
            /\ SF_vars(SendRow)

FairSpec == Spec /\ Fairness
-----------------------------------------------------------------------------
TypeOK ==
    /\ side \in {Tick, Tock}
    /\ irRing \in Rings(EdgeRing, Edges)
    /\ droppedIr \in Nat
    /\ ppsSeen \in 0 .. MaxPps
    /\ ppsRing \in Rings(PpsRing, 0 .. MaxPps)
    /\ droppedPps \in Nat
    /\ swingState \in 0 .. 4
    /\ curr \in Rows
    /\ swingSeq \in Nat
    /\ rowRing \in Rings(SwingRing, Rows)
    /\ droppedRows \in Nat
    /\ rowDrops \in Nat
    /\ pc \in {"setup", "commands", "pps", "cps", "edges", "emit", "send"}
    /\ budget \in Nat
    /\ ready \in BOOLEAN
    /\ e \in Edges
    /\ cap \in 0 .. MaxPps
    /\ fs \in [row : Rows, dropIr : Nat]
    /\ csw \in [row : Rows, dropIr : Nat, dropPps : Nat, dropSwing : Nat]
    /\ cps \in [seq : 0 .. MaxPps, dropPps : Nat]
    /\ timeline \in 0 .. MaxResets
    /\ irSeen \in 0 .. MaxEdges
    /\ lost \in SUBSET (0 .. MaxEdges)
    /\ sent \in Nat

-----------------------------------------------------------------------------
(* Each queue implements the abstract lossy FIFO *)

EdgeFifo == INSTANCE LossyFifo WITH
    Item <- Edges, Capacity <- EdgeRing - 1,
    queue <- RingItems(EdgeRing, irRing), out <- e, refused <- droppedIr,
    epoch <- timeline

PpsFifo == INSTANCE LossyFifo WITH
    Item <- 0 .. MaxPps, Capacity <- PpsRing - 1,
    queue <- RingItems(PpsRing, ppsRing), out <- cap, refused <- droppedPps,
    epoch <- timeline

RowFifo == INSTANCE LossyFifo WITH
    Item <- Rows, Capacity <- SwingRing - 1,
    queue <- RingItems(SwingRing, rowRing), out <- csw.row, refused <- rowDrops,
    epoch <- 0

\* The assembler receives the captured edges in capture order, each at most
\* once, whatever the ISR does meanwhile: evbuf with ev_head and ev_tail is
\* a lossy FIFO of CAPTURE_EDGE_BUFFER_SIZE - 1 edges.
EdgesAreFifo == EdgeFifo!Spec

\* The same for the PPS ring and process_pps.
PpsAreFifo == PpsFifo!Spec

\* The host receives the assembled rows in assembly order, each at most once
\* however often its emission is retried, and a full swing ring refuses the
\* newest row and keeps the pending ones.
RowsAreFifo == RowFifo!Spec
-----------------------------------------------------------------------------
(* Invariants *)

PendingRows == RingItems(SwingRing, rowRing)

\* Every sequence number swingAssemblerProcessEdges hands out is on the wire,
\* waiting in the swing ring, counted as dropped or on the row being
\* assembled: no row disappears without a trace.
RowsConserved ==
    swingSeq = sent + RingCount(SwingRing, rowRing) + rowDrops
               + (IF swingState = 0 THEN 0 ELSE 1)

SameTimeline(row) == \A i \in 1 .. 4 : row.edge[i].tl = row.edge[0].tl

Ascending(row) == \A i \in 1 .. 4 : row.edge[i-1].n < row.edge[i].n

LostWithin(row) == {x \in lost : row.edge[0].n < x /\ x < row.edge[4].n}

\* A row spans five consecutive edges of the sensor unless the ISR lost one
\* of the edges between its first and its last: resynchronising on the edge
\* type never skips an edge that was captured, and never splices.
Contiguous(row) ==
    (SameTimeline(row) /\ row.edge[0].tl = timeline /\ LostWithin(row) = {})
        => \A i \in 1 .. 4 : row.edge[i].n = row.edge[0].n + i

RowsAreContiguous ==
    /\ \A k \in 1 .. Len(PendingRows) : Contiguous(PendingRows[k])
    /\ sent > 0 => Contiguous(csw.row)

\* An emitted row comes from one run of the shared counter, in ascending
\* order: a host difference between two of its edges is a real interval.
\* (`reset defaults` keeps the half-built row of the old timeline.)
EmittedRowIsOneTimeline ==
    sent > 0 => SameTimeline(csw.row) /\ Ascending(csw.row)

\* The drop_ir of an emitted row counts at least every edge that was lost
\* before the row's last edge, although the counter is read only when the
\* row is emitted, with the ISR running.
DropIrCoversRow ==
    (sent > 0 /\ csw.row.edge[4].tl = timeline)
        => csw.dropIr >= Cardinality({x \in lost : x < csw.row.edge[4].n})

\* The sequence numbers missing on the wire up to a row are covered by the
\* drop_swing that row reports: a gap is never larger than the loss reported.
DropSwingCoversGap ==
    (sent > 0 /\ timeline = 0) => csw.row.seq - sent <= csw.dropSwing

-----------------------------------------------------------------------------
(* Action properties *)

\* Adjacent swings on the wire share their boundary edge: the host's
\* continuity test (edge0 equals the previous edge4) can only fail across a
\* sequence gap.
SharesBoundary ==
    (sent > 0 /\ csw'.row.seq = csw.row.seq + 1) => csw'.row.edge[0] = csw.row.edge[4]
SharedBoundary == [][SharesBoundary]_csw

\* CPS rows reach the host in ascending sequence: it never takes one for a
\* restart of the Nano, which would end its recording session.
NextCpsAscends == cps' = cps \/ cps'.seq > cps.seq
CpsAscends == [][NextCpsAscends]_cps
-----------------------------------------------------------------------------
(* Liveness *)

\* While output is enabled, a row that was queued is eventually emitted,
\* however often the serial port refused it; only a reset, which withdraws
\* the output, leaves it queued.
RowsAreDelivered ==
    \A k \in 1 .. MaxEdges :
        (ready /\ \E i \in 1 .. Len(PendingRows) : PendingRows[i].seq = k)
            ~> (~ready \/ csw.row.seq >= k)
=============================================================================
