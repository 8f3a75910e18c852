----------------------------- MODULE MCMsgQueue -----------------------------
(* A ring of four slots and three distinguishable messages.                *)
EXTENDS MsgQueue
=============================================================================
