---------------------------- MODULE MCGateRefresh ----------------------------
(* Two sensors on the same board, and the board of the Gate.                 *)
EXTENDS GateRefresh

CONSTANTS c1, c2

MCBoards == <<<<c1, c2>>>>
=============================================================================
