-------------------------- MODULE MCMsgQueueManager --------------------------
(***************************************************************************)
(* Instances of the queue manager. The ring has three or four slots, so    *)
(* that it wraps and overflows; two entries make a publication have a      *)
(* first and a last message.                                               *)
(***************************************************************************)
EXTENDS MsgQueueManager

MCThreadMsgs == {[cmd |-> "GET", idx |-> 0], [cmd |-> "SET", idx |-> 0], [cmd |-> "SET", idx |-> 1]}
MCOneSet     == {[cmd |-> "SET", idx |-> 0]}
MCMsg        == MCThreadMsgs \cup [cmd : {"STATUS", "STATUS_REPLY"}, idx : 0 .. MaxEntries - 1] \cup {Torn}
=============================================================================
