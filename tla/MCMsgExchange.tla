---------------------------- MODULE MCMsgExchange ----------------------------
(***************************************************************************)
(* Three networks. Network 1 has a Gate on a second board, network 3 a     *)
(* second board without one: with the limit of two entries, one of its     *)
(* containers is not exposed.                                              *)
(***************************************************************************)
EXTENDS MsgExchange, TLC

CONSTANTS n1, n2, n3, b1, b2, b3, a1, a2, a3, g1, c3, e3

MCBridgeBoard == n1 :> <<b1, a1>> @@ n2 :> <<b2, a2>> @@ n3 :> <<b3, a3>>
MCOtherBoard == n1 :> <<g1>> @@ n2 :> <<>> @@ n3 :> <<c3, e3>>

\* Each network initiates a procedure.
MCRounds == <<n1, n2, n3>>
=============================================================================
