------------------------------ MODULE MsgFifo ------------------------------
(***************************************************************************)
(* What luos_mesh_msg_queue.h promises to its callers: a first-in          *)
(* first-out queue of at most Capacity messages.                           *)
(***************************************************************************)
EXTENDS Naturals, Sequences

CONSTANTS
  Msg,       \* the messages that can be queued
  Capacity   \* MSG_QUEUE_MAX_SIZE

VARIABLE pending   \* queued messages, oldest first

Init == pending = <<>>

Enqueue(m) ==
  /\ Len(pending) < Capacity
  /\ pending' = Append(pending, m)

Pop ==
  /\ pending # <<>>
  /\ pending' = Tail(pending)

Next == Pop \/ \E m \in Msg : Enqueue(m)

Spec == Init /\ [][Next]_pending
=============================================================================
