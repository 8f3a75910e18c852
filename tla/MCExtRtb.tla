------------------------------ MODULE MCExtRtb ------------------------------
\* Two or three nodes, what their networks expose and how often they engage.
EXTENDS ExtRtb

CONSTANTS n1, n2, n3

MCOwnOneOne   == n1 :> 1 @@ n2 :> 1
MCOwnThree    == n1 :> 2 @@ n2 :> 1 @@ n3 :> 1

MCTwiceOnce   == n1 :> 2 @@ n2 :> 1
MCTwoOfThree  == n1 :> 2 @@ n2 :> 2 @@ n3 :> 0

MCNoReset     == n1 :> 0 @@ n2 :> 0 @@ n3 :> 0
MCOneReset    == n1 :> 0 @@ n2 :> 1
=============================================================================
