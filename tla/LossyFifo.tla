----------------------------- MODULE LossyFifo ------------------------------
(***************************************************************************)
(* What each of the three firmware queues promises to its consumer: the    *)
(* items it accepts come out once each, in the order they went in, and an  *)
(* item it cannot accept because it is full is refused and counted, and    *)
(* disturbs nothing that is already queued.  Only a reset empties it.      *)
(***************************************************************************)
EXTENDS Integers, Sequences

CONSTANTS Item,      \* what may be offered
          Capacity   \* the most the queue holds

VARIABLES queue,     \* accepted and not yet taken, oldest first
          out,       \* the item taken last
          refused,   \* how many offers were refused
          epoch      \* how often it was reset

fifoVars == <<queue, out, refused, epoch>>

Init == /\ queue = <<>>
        /\ out \in Item
        /\ refused = 0
        /\ epoch = 0

\* An offer is accepted exactly when there is room.
Accept == /\ Len(queue) < Capacity
          /\ queue' \in Seq(Item)
          /\ Len(queue') = Len(queue) + 1
          /\ \A k \in 1 .. Len(queue) : queue'[k] = queue[k]
          /\ UNCHANGED <<out, refused, epoch>>

Refuse == /\ Len(queue) = Capacity
          /\ refused' = refused + 1
          /\ UNCHANGED <<queue, out, epoch>>

\* The consumer takes the oldest item, and no other.
Take == /\ queue # <<>>
        /\ out' = Head(queue)
        /\ queue' = Tail(queue)
        /\ UNCHANGED <<refused, epoch>>

Reset == /\ queue' = <<>>
         /\ refused' = 0
         /\ epoch' = epoch + 1
         /\ UNCHANGED out

Next == Accept \/ Refuse \/ Take \/ Reset

Spec == Init /\ [][Next]_fifoVars
=============================================================================
