-------------------------- MODULE Selections_proofs --------------------------
(***************************************************************************)
(* A selection is the table at the kept positions, each once and in order. *)
(***************************************************************************)
EXTENDS Selections, FiniteSetTheorems, TLAPS

LEMMA KeptIsFinite ==
  ASSUME NEW n \in Nat, NEW kept \in SUBSET (1 .. n)
  PROVE  IsFiniteSet(kept) /\ Cardinality(kept) \in Nat /\ Cardinality(kept) <= n
<1>1. IsFiniteSet(1 .. n) /\ Cardinality(1 .. n) = n
  BY FS_Interval
<1>2. QED
  BY <1>1, FS_Subset, FS_CardinalityType

\* Ranks start with 1 and grow with the positions.
LEMMA RanksGrow ==
  ASSUME NEW n \in Nat, NEW kept \in SUBSET (1 .. n)
  PROVE  /\ \A i \in kept : Rank(kept, i) \in 1 .. Cardinality(kept)
         /\ \A i, j \in kept : i < j => Rank(kept, i) < Rank(kept, j)
<1>. DEFINE upto(i) == {j \in kept : j <= i}
<1>1. IsFiniteSet(kept) /\ Cardinality(kept) \in Nat
  BY KeptIsFinite
<1>2. \A i : /\ IsFiniteSet(upto(i)) /\ Cardinality(upto(i)) \in Nat
             /\ Cardinality(upto(i)) <= Cardinality(kept)
  BY <1>1, FS_Subset, FS_CardinalityType
<1>3. \A i \in kept : Rank(kept, i) \in 1 .. Cardinality(kept)
  <2>1. TAKE i \in kept
  <2>2. i \in upto(i)
    OBVIOUS
  <2>3. Cardinality(upto(i)) # 0
    BY <1>2, <2>2, FS_EmptySet
  <2>4. QED
    BY <1>1, <1>2, <2>3 DEF Rank
<1>4. \A i, j \in kept : i < j => Rank(kept, i) < Rank(kept, j)
  <2>. SUFFICES ASSUME NEW i \in kept, NEW j \in kept, i < j
                PROVE  Rank(kept, i) < Rank(kept, j)
    OBVIOUS
  <2>0. kept \subseteq Int /\ i \in Int /\ j \in Int
    OBVIOUS
  <2>1. upto(i) \subseteq upto(j) /\ j \in upto(j) /\ j \notin upto(i)
    <3>1. \A k \in kept : k <= i => k <= j
      BY <2>0
    <3>2. j <= j /\ ~(j <= i)
      BY <2>0
    <3>3. QED
      BY <3>1, <3>2
  <2>2. Cardinality(upto(i)) <= Cardinality(upto(j)) /\ Cardinality(upto(i)) # Cardinality(upto(j))
    BY <1>2, <2>1, FS_Subset
  <2>3. QED
    BY <1>2, <2>2 DEF Rank
<1>5. QED
  BY <1>3, <1>4

\* Every rank is that of one position.
LEMMA RanksAreTaken ==
  ASSUME NEW n \in Nat, NEW kept \in SUBSET (1 .. n), NEW k \in 1 .. Cardinality(kept)
  PROVE  \E i \in kept : Rank(kept, i) = k
<1>. DEFINE rank  == [i \in kept |-> Rank(kept, i)]
            ranks == 1 .. Cardinality(kept)
<1>1. IsFiniteSet(kept) /\ Cardinality(kept) \in Nat
  BY KeptIsFinite
<1>2. IsFiniteSet(ranks) /\ Cardinality(ranks) = Cardinality(kept)
  BY <1>1, FS_Interval
<1>. kept \subseteq Int
  OBVIOUS
<1>0. /\ \A i \in kept : Rank(kept, i) \in ranks
      /\ \A i, j \in kept : i < j => Rank(kept, i) < Rank(kept, j)
  BY RanksGrow
<1>3. rank \in Injection(kept, ranks)
  <2>1. rank \in [kept -> ranks]
    BY <1>0
  <2>2. ASSUME NEW i \in kept, NEW j \in kept, rank[i] = rank[j]
        PROVE  i = j
    <3>1. Rank(kept, i) = Rank(kept, j) /\ Rank(kept, i) \in Int
      BY <2>2, <1>0, <1>1
    <3>2. i \in Int /\ j \in Int
      OBVIOUS
    <3>3. ~(i < j) /\ ~(j < i)
      BY <3>1, <1>0
    <3>4. QED
      BY <3>2, <3>3
  <2>3. QED
    BY <2>1, <2>2 DEF Injection, IsInjective
<1>4. rank \in Surjection(kept, ranks)
  <2>. HIDE DEF rank, ranks
  <2>1. QED
    BY <1>2, <1>3, FS_Injection
<1>5. QED
  BY <1>4 DEF Surjection

\* A selection holds the entries at the kept positions, each once, in their
\* order.
LEMMA SelectedPositions ==
  ASSUME NEW S, NEW s \in Seq(S), NEW kept \in SUBSET (1 .. Len(s))
  PROVE  /\ Selected(s, kept) \in Seq(S)
         /\ Len(Selected(s, kept)) = Cardinality(kept)
         /\ Cardinality(kept) \in Nat /\ Cardinality(kept) <= Len(s)
         /\ \E pos \in [1 .. Cardinality(kept) -> kept] :
              /\ \A k, l \in 1 .. Cardinality(kept) : k < l => pos[k] < pos[l]
              /\ \A i \in kept : \E k \in 1 .. Cardinality(kept) : pos[k] = i
              /\ \A k \in 1 .. Cardinality(kept) : Rank(kept, pos[k]) = k
              /\ \A k \in 1 .. Cardinality(kept) : Selected(s, kept)[k] = s[pos[k]]
<1>. DEFINE ranks == 1 .. Cardinality(kept)
            pos   == [k \in ranks |-> CHOOSE i \in kept : Rank(kept, i) = k]
<1>1. Len(s) \in Nat /\ \A i \in 1 .. Len(s) : s[i] \in S
  OBVIOUS
<1>2. Cardinality(kept) \in Nat /\ Cardinality(kept) <= Len(s)
  BY <1>1, KeptIsFinite
<1>. kept \subseteq Nat
  BY <1>1
<1>0. /\ \A i \in kept : Rank(kept, i) \in ranks
      /\ \A i, j \in kept : i < j => Rank(kept, i) < Rank(kept, j)
  BY <1>1, RanksGrow
<1>3. \A k \in ranks : pos[k] \in kept /\ Rank(kept, pos[k]) = k
  <2>1. TAKE k \in ranks
  <2>2. \E i \in kept : Rank(kept, i) = k
    BY <1>1, RanksAreTaken
  <2>3. QED
    BY <2>2
<1>4. pos \in [ranks -> kept]
  BY <1>3
<1>5. \A k \in ranks : Selected(s, kept)[k] = s[pos[k]] /\ Selected(s, kept)[k] \in S
  BY <1>1, <1>3 DEF Selected
<1>6. Selected(s, kept) \in Seq(S) /\ Len(Selected(s, kept)) = Cardinality(kept)
  <2>1. Selected(s, kept) \in [1 .. Cardinality(kept) -> S]
    BY <1>5 DEF Selected
  <2>2. QED
    BY <1>2, <2>1
<1>7. \A k, l \in ranks : k < l => pos[k] < pos[l]
  <2>. SUFFICES ASSUME NEW k \in ranks, NEW l \in ranks, k < l, ~(pos[k] < pos[l])
                PROVE  FALSE
    OBVIOUS
  <2>1. pos[k] \in kept /\ pos[l] \in kept
    BY <1>3
  <2>2. Rank(kept, pos[k]) = k /\ Rank(kept, pos[l]) = l
    BY <1>3
  <2>. HIDE DEF pos
  <2>3. pos[l] = pos[k] \/ pos[l] < pos[k]
    <3>1. pos[k] \in Nat /\ pos[l] \in Nat
      BY <2>1
    <3>2. QED
      BY <3>1
  <2>4. CASE pos[l] = pos[k]
    BY <2>2, <2>4, <1>2
  <2>5. CASE pos[l] < pos[k]
    <3>1. Rank(kept, pos[l]) < Rank(kept, pos[k])
      BY <2>1, <2>5, <1>0
    <3>2. QED
      BY <3>1, <2>2, <1>2
  <2>6. QED
    BY <2>3, <2>4, <2>5
<1>8. \A i \in kept : \E k \in ranks : pos[k] = i
  <2>. SUFFICES ASSUME NEW i \in kept PROVE pos[Rank(kept, i)] = i /\ Rank(kept, i) \in ranks
    OBVIOUS
  <2>1. Rank(kept, i) \in ranks
    BY <1>0
  <2>. DEFINE j == pos[Rank(kept, i)]
  <2>2. j \in kept /\ Rank(kept, j) = Rank(kept, i)
    BY <1>3, <2>1
  <2>. HIDE DEF j
  <2>3. i \in Nat /\ j \in Nat /\ Rank(kept, i) \in Int
    BY <2>2, <2>1
  <2>4. ~(i < j) /\ ~(j < i)
    BY <2>2, <2>3, <1>0
  <2>5. i = j
    BY <2>3, <2>4
  <2>6. QED
    BY <2>1, <2>5 DEF j
<1>9. QED
  <2>. HIDE DEF pos
  <2>1. QED
    BY <1>2, <1>3, <1>4, <1>5, <1>6, <1>7, <1>8
=============================================================================
