--------------------------- MODULE MCGateCommands ---------------------------
(* Three buffers, as in the code, and more commands than buffers.          *)
EXTENDS GateCommands
=============================================================================
