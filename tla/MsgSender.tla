------------------------------ MODULE MsgSender ------------------------------
(***************************************************************************)
(* What luos_mesh_msg_prepare promises to the models that send through it: *)
(* prepared messages go out in the order they were prepared, each of them  *)
(* once, one at a time, and every prepared message does go out. The only   *)
(* way out of this promise is to prepare more messages than the queue      *)
(* holds, which stops the node on an assertion.                            *)
(***************************************************************************)
EXTENDS Naturals, Sequences

CONSTANTS
  Msg,        \* the messages that can be prepared
  Capacity,   \* MSG_QUEUE_MAX_SIZE
  NoMsg       \* no message on the air

VARIABLES
  pending,    \* prepared messages not completely sent yet, oldest first
  on_air,     \* the message handed to the mesh stack, or NoMsg
  halted      \* an assertion failed

vars == <<pending, on_air, halted>>

Init ==
  /\ pending = <<>>
  /\ on_air = NoMsg
  /\ halted = FALSE

Accept(m) ==
  /\ ~halted
  /\ Len(pending) < Capacity
  /\ pending' = Append(pending, m)
  /\ UNCHANGED <<on_air, halted>>

\* Nothing else waits: the message goes out as soon as it is prepared.
AcceptAndSend(m) ==
  /\ ~halted
  /\ pending = <<>>
  /\ on_air = NoMsg
  /\ pending' = <<m>>
  /\ on_air' = m
  /\ UNCHANGED halted

Send ==
  /\ ~halted
  /\ on_air = NoMsg
  /\ pending # <<>>
  /\ on_air' = Head(pending)
  /\ UNCHANGED <<pending, halted>>

Complete ==
  /\ ~halted
  /\ on_air # NoMsg
  /\ pending' = Tail(pending)
  /\ on_air' = NoMsg
  /\ UNCHANGED halted

Overrun ==
  /\ Len(pending) = Capacity
  /\ halted' = TRUE
  /\ UNCHANGED <<pending, on_air>>

Next ==
  \/ Send
  \/ Complete
  \/ Overrun
  \/ \E m \in Msg : Accept(m) \/ AcceptAndSend(m)

SafeSpec == Init /\ [][Next]_vars

Fairness == WF_vars(Send) /\ WF_vars(Complete)

Spec == SafeSpec /\ Fairness
=============================================================================
