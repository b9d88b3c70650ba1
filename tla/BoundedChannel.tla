-------------------------- MODULE BoundedChannel --------------------------
(***************************************************************************)
(* What a dswp_queue promises its two clients, with no memory, no indices  *)
(* and no waiting loops: a bounded FIFO channel between one sender and one *)
(* receiver that the sender closes once, after its last item.  The ghost   *)
(* history makes the promise easy to read: `sent' and `rcvd' only grow,    *)
(* and the receiver always takes the item that follows the ones it has.    *)
(***************************************************************************)
EXTENDS Naturals, Sequences

CONSTANTS Values,       \* the 64-bit payloads
          Capacity      \* how many items may be in flight

VARIABLES sent,         \* every item the sender's enqueues have delivered to the channel
          rcvd,         \* every item the receiver's dequeues have returned
          closed,       \* the sender has signalled end of stream
          ended         \* a dequeue has returned false

chanVars == <<sent, rcvd, closed, ended>>

Init ==
  /\ sent = <<>>
  /\ rcvd = <<>>
  /\ closed = FALSE
  /\ ended = FALSE

Send(v) ==
  /\ ~closed
  /\ Len(sent) - Len(rcvd) < Capacity
  /\ sent' = Append(sent, v)
  /\ UNCHANGED <<rcvd, closed, ended>>

Close ==
  /\ closed' = TRUE
  /\ UNCHANGED <<sent, rcvd, ended>>

Receive ==
  /\ Len(rcvd) < Len(sent)
  /\ rcvd' = Append(rcvd, sent[Len(rcvd) + 1])
  /\ UNCHANGED <<sent, closed, ended>>

(* The receiver may be told the stream has ended only when it really has.  *)
ReceiveEnd ==
  /\ closed
  /\ Len(rcvd) = Len(sent)
  /\ ended' = TRUE
  /\ UNCHANGED <<sent, rcvd, closed>>

Next ==
  \/ \E v \in Values : Send(v)
  \/ Close
  \/ Receive
  \/ ReceiveEnd

Spec == Init /\ [][Next]_chanVars
===========================================================================
