----------------------------- MODULE Selections -----------------------------
(***************************************************************************)
(* What stays of a table, in its order, when only some of its positions    *)
(* are kept: the result of the loops that skip entries, or shift those     *)
(* that follow an erased one.                                              *)
(***************************************************************************)
EXTENDS Integers, FiniteSets, Sequences

\* The place that a position has among those that are kept
Rank(kept, i) == Cardinality({j \in kept : j <= i})

Selected(s, kept) ==
  [k \in 1 .. Cardinality(kept) |-> s[CHOOSE i \in kept : Rank(kept, i) = k]]
=============================================================================
