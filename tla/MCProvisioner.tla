---------------------------- MODULE MCProvisioner ----------------------------
(***************************************************************************)
(* Three devices, one of two elements, for a network of two nodes: the     *)
(* network fills up and the address after the larger device matters.       *)
(***************************************************************************)
EXTENDS Provisioner, TLC

CONSTANTS d1, d2, d3

MCTwoDevices == d1 :> 2 @@ d2 :> 1
MCThreeDevices == d1 :> 2 @@ d2 :> 1 @@ d3 :> 1
=============================================================================
