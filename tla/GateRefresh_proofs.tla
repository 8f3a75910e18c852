------------------------- MODULE GateRefresh_proofs -------------------------
(***************************************************************************)
(* Proofs about the JSON of the Gate, for any containers, boards and       *)
(* bounds: its types, that readings are kept, and that the line is JSON    *)
(* when a single container was heard between two expiries. What is proved  *)
(* of readings and of the buffer also holds of the model after a text was  *)
(* too long for its buffer, but there it says nothing about the code.      *)
(*                                                                         *)
(* A text is a join of pieces, so what holds for it is an induction over   *)
(* the pieces. Induction is stated about sets of numbers, and a recursive  *)
(* definition is shown to be the course of a function (Joins for           *)
(* FlattenSeq, Reads for Nesting).                                         *)
(***************************************************************************)
EXTENDS GateRefresh, Selections_proofs, SequenceTheorems

\* A set of numbers that holds 0 and the successor of each of its members
\* holds them all.
LEMMA Induction ==
  ASSUME NEW S, 0 \in S, \A n \in Nat : n \in S => n + 1 \in S
  PROVE  Nat \subseteq S
<1>. SUFFICES ASSUME NEW n \in Nat, n \notin S PROVE FALSE
  OBVIOUS
<1>. DEFINE missing == {i \in 0 .. n : i \notin S}
<1>1. missing \in SUBSET (0 .. n) /\ n \in missing
  OBVIOUS
<1>2. \E first \in missing : \A i \in missing : first <= i
  <2>. DEFINE shifted == {i \in 1 .. n + 1 : i - 1 \in missing}
  <2>1. shifted \in SUBSET (1 .. n + 1) /\ n + 1 \in shifted /\ n + 1 \in Nat
    BY <1>1
  <2>2. Cardinality(shifted) \in Nat /\ IsFiniteSet(shifted)
    BY <2>1, KeptIsFinite
  <2>3. Cardinality(shifted) # 0
    <3>. HIDE DEF shifted
    <3>1. QED
      BY <2>1, <2>2, FS_EmptySet
  <2>4. 1 \in 1 .. Cardinality(shifted)
    BY <2>2, <2>3
  <2>5. PICK s \in shifted : Rank(shifted, s) = 1
    <3>. HIDE DEF shifted
    <3>1. QED
      BY <2>1, <2>4, RanksAreTaken
  <2>6. \A i \in shifted : s <= i
    <3>. SUFFICES ASSUME NEW i \in shifted, ~(s <= i) PROVE FALSE
      OBVIOUS
    <3>1. i < s
      BY <2>1
    <3>2. Rank(shifted, i) \in 1 .. Cardinality(shifted) /\ Rank(shifted, i) < Rank(shifted, s)
      <4>. HIDE DEF shifted
      <4>1. QED
        BY <2>1, <3>1, RanksGrow
    <3>. HIDE DEF shifted
    <3>3. QED
      BY <2>2, <2>5, <3>2
  <2>7. s - 1 \in missing
    OBVIOUS
  <2>8. \A i \in missing : i + 1 \in shifted /\ i \in Int
    OBVIOUS
  <2>9. \A i \in missing : s - 1 <= i
    <3>. HIDE DEF missing
    <3>1. TAKE i \in missing
    <3>2. s <= i + 1 /\ i \in Int /\ s \in Int
      BY <2>1, <2>6, <2>8
    <3>3. QED
      BY <3>2
  <2>10. QED
    BY <2>7, <2>9
<1>3. PICK first \in missing : \A i \in missing : first <= i
  BY <1>2
<1>4. first \in Nat /\ first # 0 /\ first \notin S /\ first \in 0 .. n
  OBVIOUS
<1>5. first - 1 \in Nat /\ first - 1 \in 0 .. n
  BY <1>4
<1>6. first - 1 \notin missing
  <2>1. ~(first <= first - 1)
    BY <1>4
  <2>2. QED
    BY <1>3, <2>1
<1>7. first - 1 \in S
  BY <1>5, <1>6
<1>8. (first - 1) + 1 \in S
  BY <1>5, <1>7
<1>9. QED
  BY <1>4, <1>8

\* Two functions that start with the same and go on in the same way are equal.
Alike(n, f, g) == f[0] = g[0] /\ \A i \in 1 .. n : f[i - 1] = g[i - 1] => f[i] = g[i]

LEMMA SameCourse ==
  ASSUME NEW n \in Nat, NEW f, NEW g, Alike(n, f, g)
  PROVE  \A i \in 0 .. n : f[i] = g[i]
<1>. DEFINE S == {i \in Nat : i <= n => f[i] = g[i]}
<1>0. f[0] = g[0] /\ \A i \in 1 .. n : f[i - 1] = g[i - 1] => f[i] = g[i]
  BY DEF Alike
<1>1. 0 \in S
  BY <1>0
<1>2. \A i \in Nat : i \in S => i + 1 \in S
  <2>. SUFFICES ASSUME NEW i \in Nat, i \in S, i + 1 <= n PROVE f[i + 1] = g[i + 1]
    OBVIOUS
  <2>1. f[i] = g[i] /\ i + 1 \in 1 .. n /\ (i + 1) - 1 = i
    OBVIOUS
  <2>2. QED
    BY <2>1, <1>0
<1>3. Nat \subseteq S
  <2>. HIDE DEF S
  <2>1. QED
    BY <1>1, <1>2, Induction
<1>4. QED
  BY <1>3

LEMMA FunctionIsSeq ==
  ASSUME NEW S, NEW n \in Nat, NEW f \in [1 .. n -> S]
  PROVE  f \in Seq(S) /\ Len(f) = n
OBVIOUS

-----------------------------------------------------------------------------
\* FlattenSeq

\* f[i] is what the first i sequences of ss make
Joins(ss, S, f) ==
  /\ f \in [0 .. Len(ss) -> Seq(S)] /\ f[0] = <<>>
  /\ \A i \in 1 .. Len(ss) : f[i] = f[i - 1] \o ss[i]

\* The sequences are joined one behind the other.
LEMMA FlattenIs ==
  ASSUME NEW S, NEW ss \in Seq(Seq(S)), NEW f, Joins(ss, S, f)
  PROVE  FlattenSeq(ss) = f[Len(ss)]
<1>. DEFINE n == Len(ss)
<1>0. n \in Nat /\ \A i \in 1 .. n : ss[i] \in Seq(S)
  OBVIOUS
<1>a. f[0] = <<>> /\ \A i \in 1 .. n : f[i] = f[i - 1] \o ss[i]
  BY DEF Joins
<1>b. 1 - 1 = 0
  OBVIOUS
<1>1. CASE n = 0
  BY <1>1 DEF FlattenSeq, Joins
<1>2. CASE n # 0
  <2>1. 1 \in 1 .. n
    BY <1>0, <1>2
  <2>2. \E g : g = [i \in 1 .. n |-> IF i = 1 THEN ss[i] ELSE g[i - 1] \o ss[i]]
    <3>. DEFINE h == [i \in 1 .. n |-> f[i]]
    <3>1. \A i \in 1 .. n : h[i] = IF i = 1 THEN ss[i] ELSE h[i - 1] \o ss[i]
      <4>1. TAKE i \in 1 .. n
      <4>2. CASE i = 1
        <5>1. f[1] = f[1 - 1] \o ss[1] /\ ss[1] \in Seq(S)
          BY <1>0, <1>a, <2>1
        <5>2. f[1] = ss[1]
          BY <5>1, <1>a, <1>b, ConcatEmptySeq
        <5>3. QED
          BY <5>2, <4>2
      <4>3. CASE i # 1
        <5>1. i - 1 \in 1 .. n
          BY <4>3, <1>0
        <5>2. QED
          BY <5>1, <4>3, <1>a
      <4>4. QED
        BY <4>2, <4>3
    <3>2. h = [i \in 1 .. n |-> IF i = 1 THEN ss[i] ELSE h[i - 1] \o ss[i]]
      BY <3>1
    <3>. HIDE DEF h
    <3>3. QED
      BY <3>2
  <2>3. \E g : /\ g = [i \in 1 .. n |-> IF i = 1 THEN ss[i] ELSE g[i - 1] \o ss[i]]
               /\ FlattenSeq(ss) = g[n]
    BY <2>2, <1>2 DEF FlattenSeq
  <2>4. PICK g : /\ g = [i \in 1 .. n |-> IF i = 1 THEN ss[i] ELSE g[i - 1] \o ss[i]]
                 /\ FlattenSeq(ss) = g[n]
    BY <2>3
  <2>5. \A i \in 1 .. n : g[i] = IF i = 1 THEN ss[i] ELSE g[i - 1] \o ss[i]
    BY <2>4
  <2>. DEFINE e == [i \in 0 .. n |-> IF i = 0 THEN <<>> ELSE g[i]]
  <2>6. f[0] = e[0]
    BY <1>0, <1>a
  <2>7. \A i \in 1 .. n : f[i - 1] = e[i - 1] => f[i] = e[i]
    <3>. SUFFICES ASSUME NEW i \in 1 .. n, f[i - 1] = e[i - 1] PROVE f[i] = e[i]
      OBVIOUS
    <3>0. f[i] = f[i - 1] \o ss[i] /\ ss[i] \in Seq(S)
      BY <1>0, <1>a
    <3>a. e[i] = g[i]
      BY <1>0
    <3>1. CASE i = 1
      <4>1. f[1] = f[1 - 1] \o ss[1] /\ ss[1] \in Seq(S)
        BY <3>0, <3>1
      <4>2. f[1] = ss[1]
        BY <4>1, <1>a, <1>b, ConcatEmptySeq
      <4>3. g[1] = ss[1]
        BY <2>1, <2>5
      <4>4. QED
        BY <4>2, <4>3, <3>1, <3>a
    <3>2. CASE i # 1
      <4>1. e[i - 1] = g[i - 1]
        BY <1>0, <3>2
      <4>2. g[i] = g[i - 1] \o ss[i]
        BY <3>2, <2>5
      <4>3. QED
        BY <4>1, <4>2, <3>0, <3>a
    <3>3. QED
      BY <3>1, <3>2
  <2>8. \A i \in 0 .. n : f[i] = e[i]
    <3>1. n \in Nat
      BY <1>0
    <3>. HIDE DEF e, n
    <3>2. Alike(n, f, e)
      BY <2>6, <2>7 DEF Alike
    <3>3. QED
      BY <3>1, <3>2, SameCourse
  <2>9. f[n] = e[n] /\ e[n] = g[n]
    BY <2>8, <1>0, <1>2
  <2>10. QED
    BY <2>4, <2>9
<1>3. QED
  BY <1>1, <1>2

LEMMA FlattenJoins ==
  ASSUME NEW S, NEW ss \in Seq(Seq(S))
  PROVE  \E f : Joins(ss, S, f)
<1>. DEFINE n == Len(ss)
            upto(k, f) == /\ f \in [0 .. k -> Seq(S)] /\ f[0] = <<>>
                          /\ \A i \in 1 .. k : f[i] = f[i - 1] \o ss[i]
            holds(k) == \E f : upto(k, f)
            N == {k \in Nat : k <= n => holds(k)}
<1>0. n \in Nat /\ \A i \in 1 .. n : ss[i] \in Seq(S)
  OBVIOUS
<1>1. 0 \in N
  <2>1. upto(0, [i \in 0 .. 0 |-> <<>>])
    OBVIOUS
  <2>. HIDE DEF upto
  <2>2. QED
    BY <2>1
<1>2. \A k \in Nat : k \in N => k + 1 \in N
  <2>a. SUFFICES ASSUME NEW k \in Nat, k \in N, k + 1 <= n PROVE holds(k + 1)
    <3>. HIDE DEF holds
    <3>1. QED
      OBVIOUS
  <2>b. k <= n
    BY <1>0, <2>a
  <2>1. PICK f : upto(k, f)
    <3>. HIDE DEF upto
    <3>1. QED
      BY <2>a, <2>b
  <2>. DEFINE g == [i \in 0 .. k + 1 |-> IF i <= k THEN f[i] ELSE f[k] \o ss[i]]
  <2>2. k + 1 \in 1 .. n /\ f[k] \in Seq(S) /\ \A i \in 0 .. k : f[i] \in Seq(S)
    <3>1. f \in [0 .. k -> Seq(S)] /\ k \in 0 .. k
      BY <2>1
    <3>2. k + 1 \in 1 .. n
      BY <1>0, <2>a
    <3>3. QED
      BY <3>1, <3>2
  <2>3. ss[k + 1] \in Seq(S)
    BY <1>0, <2>2
  <2>4. \A i \in 0 .. k + 1 : g[i] \in Seq(S)
    <3>1. TAKE i \in 0 .. k + 1
    <3>2. CASE i <= k
      BY <2>2, <3>2
    <3>3. CASE ~(i <= k)
      <4>1. i = k + 1
        BY <3>3
      <4>2. g[i] = f[k] \o ss[k + 1]
        BY <4>1, <3>3
      <4>3. QED
        BY <4>2, <2>2, <2>3, ConcatProperties
    <3>4. QED
      BY <3>2, <3>3
  <2>5. g \in [0 .. k + 1 -> Seq(S)]
    BY <2>4
  <2>6. g[0] = <<>>
    BY <2>1
  <2>7. \A i \in 1 .. k + 1 : g[i] = g[i - 1] \o ss[i]
    <3>1. TAKE i \in 1 .. k + 1
    <3>2. CASE i <= k
      <4>1. i \in 1 .. k /\ i - 1 \in 0 .. k + 1 /\ i - 1 <= k
        BY <3>2
      <4>2. f[i] = f[i - 1] \o ss[i]
        BY <4>1, <2>1
      <4>3. g[i] = f[i]
        BY <3>2
      <4>4. g[i - 1] = f[i - 1]
        BY <4>1
      <4>5. QED
        BY <4>2, <4>3, <4>4
    <3>3. CASE ~(i <= k)
      <4>1. i = k + 1 /\ i - 1 = k /\ k \in 0 .. k + 1
        BY <3>3
      <4>2. g[k] = f[k]
        BY <4>1
      <4>3. g[k + 1] = f[k] \o ss[k + 1]
        <5>1. k + 1 \in 0 .. k + 1 /\ ~(k + 1 <= k)
          OBVIOUS
        <5>2. QED
          BY <5>1
      <4>4. QED
        BY <4>1, <4>2, <4>3
    <3>4. QED
      BY <3>2, <3>3
  <2>8. upto(k + 1, g)
    <3>. HIDE DEF g
    <3>1. QED
      BY <2>5, <2>6, <2>7
  <2>. HIDE DEF upto
  <2>9. QED
    BY <2>8
<1>3. n \in N
  <2>. HIDE DEF N
  <2>1. QED
    BY <1>0, <1>1, <1>2, Induction
<1>4. \E f : upto(n, f)
  <2>. HIDE DEF upto
  <2>1. QED
    BY <1>3, <1>0
<1>5. QED
  BY <1>4 DEF Joins

LEMMA FlattenType ==
  ASSUME NEW S, NEW ss \in Seq(Seq(S))
  PROVE  FlattenSeq(ss) \in Seq(S)
<1>1. PICK f : Joins(ss, S, f)
  BY FlattenJoins
<1>2. FlattenSeq(ss) = f[Len(ss)]
  BY <1>1, FlattenIs
<1>3. Len(ss) \in 0 .. Len(ss)
  OBVIOUS
<1>4. QED
  BY <1>1, <1>2, <1>3 DEF Joins

LEMMA FlattenOne ==
  ASSUME NEW S, NEW s \in Seq(S)
  PROVE  FlattenSeq(<<s>>) = s
<1>. DEFINE f == [i \in 0 .. 1 |-> IF i = 0 THEN <<>> ELSE s]
<1>1. <<s>> \in Seq(Seq(S)) /\ Len(<<s>>) = 1
  OBVIOUS
<1>2. <<>> \o s = s /\ <<>> \in Seq(S)
  OBVIOUS
<1>3. Joins(<<s>>, S, f)
  BY <1>1, <1>2 DEF Joins
<1>4. f[1] = s
  OBVIOUS
<1>. HIDE DEF f
<1>5. QED
  BY <1>1, <1>3, <1>4, FlattenIs

LEMMA FlattenConcat ==
  ASSUME NEW S, NEW ss \in Seq(Seq(S)), NEW tt \in Seq(Seq(S))
  PROVE  FlattenSeq(ss \o tt) = FlattenSeq(ss) \o FlattenSeq(tt)
<1>. DEFINE m == Len(ss)
            n == Len(tt)
<1>0. m \in Nat /\ n \in Nat
  OBVIOUS
<1>1. PICK f : Joins(ss, S, f)
  BY FlattenJoins
<1>2. PICK g : Joins(tt, S, g)
  BY FlattenJoins
<1>3. FlattenSeq(ss) = f[m] /\ FlattenSeq(tt) = g[n]
  BY <1>1, <1>2, FlattenIs
<1>4. /\ ss \o tt \in Seq(Seq(S)) /\ Len(ss \o tt) = m + n
      /\ \A i \in 1 .. m + n : (ss \o tt)[i] = IF i <= m THEN ss[i] ELSE tt[i - m]
  BY ConcatProperties
<1>5. /\ f \in [0 .. m -> Seq(S)] /\ f[0] = <<>> /\ \A i \in 1 .. m : f[i] = f[i - 1] \o ss[i]
      /\ g \in [0 .. n -> Seq(S)] /\ g[0] = <<>> /\ \A i \in 1 .. n : g[i] = g[i - 1] \o tt[i]
  BY <1>1, <1>2 DEF Joins
<1>6. /\ f[m] \in Seq(S)
      /\ \A i \in 0 .. m : f[i] \in Seq(S)
      /\ \A i \in 0 .. n : g[i] \in Seq(S)
  <2>1. m \in 0 .. m
    BY <1>0
  <2>2. QED
    BY <2>1, <1>5
<1>7. \A i \in 1 .. n : tt[i] \in Seq(S)
  OBVIOUS
<1>. DEFINE h == [i \in 0 .. m + n |-> IF i <= m THEN f[i] ELSE f[m] \o g[i - m]]
<1>8. h \in [0 .. m + n -> Seq(S)]
  <2>1. ASSUME NEW i \in 0 .. m + n PROVE h[i] \in Seq(S)
    <3>1. CASE i <= m
      <4>1. i \in 0 .. m /\ h[i] = f[i]
        BY <3>1, <1>0
      <4>2. QED
        BY <4>1, <1>6
    <3>2. CASE ~(i <= m)
      <4>1. i - m \in 0 .. n
        BY <3>2, <1>0
      <4>2. g[i - m] \in Seq(S)
        BY <4>1, <1>6
      <4>3. f[m] \o g[i - m] \in Seq(S)
        BY <4>2, <1>6, ConcatProperties
      <4>4. QED
        BY <4>3, <3>2
    <3>3. QED
      BY <3>1, <3>2
  <2>2. QED
    BY <2>1
<1>9. h[0] = <<>>
  BY <1>0, <1>5
<1>10. \A i \in 1 .. m + n : h[i] = h[i - 1] \o (ss \o tt)[i]
  <2>1. TAKE i \in 1 .. m + n
  <2>2. CASE i <= m
    <3>1. i \in 1 .. m /\ i - 1 \in 0 .. m + n /\ i - 1 <= m
      BY <2>2, <1>0
    <3>2. h[i] = f[i] /\ h[i - 1] = f[i - 1] /\ (ss \o tt)[i] = ss[i]
      BY <3>1, <2>2, <1>4
    <3>3. QED
      BY <3>1, <3>2, <1>5
  <2>3. CASE i = m + 1
    <3>1. i - 1 = m /\ i - m = 1 /\ ~(i <= m) /\ 1 \in 1 .. n /\ m \in 0 .. m + n
      BY <2>3, <1>0
    <3>2. g[1] = g[1 - 1] \o tt[1] /\ tt[1] \in Seq(S)
      BY <3>1, <1>5, <1>7
    <3>3. g[1] = tt[1]
      <4>1. g[1 - 1] = <<>>
        BY <1>5
      <4>2. QED
        BY <4>1, <3>2, ConcatEmptySeq
    <3>4. h[i] = f[m] \o g[1]
      <4>1. h[i] = f[m] \o g[i - m]
        <5>1. i \in 0 .. m + n /\ ~(i <= m)
          BY <3>1, <1>0
        <5>2. QED
          BY <5>1
      <4>2. QED
        BY <4>1, <3>1
    <3>5. h[i - 1] = f[m]
      BY <3>1, <1>0
    <3>6. (ss \o tt)[i] = tt[1]
      BY <3>1, <1>4
    <3>7. QED
      BY <3>3, <3>4, <3>5, <3>6
  <2>4. CASE i > m + 1
    <3>1. i - m \in 1 .. n /\ i - 1 \in 0 .. m + n /\ ~(i <= m) /\ ~(i - 1 <= m) /\ (i - 1) - m = (i - m) - 1
          /\ (i - m) - 1 \in 0 .. n
      BY <2>4, <1>0
    <3>a. h[i] = f[m] \o g[i - m]
      <4>1. i \in 0 .. m + n
        BY <1>0
      <4>2. QED
        BY <4>1, <3>1
    <3>b. h[i - 1] = f[m] \o g[(i - m) - 1]
      BY <3>1
    <3>2. h[i] = f[m] \o g[i - m] /\ h[i - 1] = f[m] \o g[(i - m) - 1] /\ (ss \o tt)[i] = tt[i - m]
      BY <3>1, <3>a, <3>b, <1>4
    <3>3. g[i - m] = g[(i - m) - 1] \o tt[i - m]
      BY <3>1, <1>5
    <3>4. g[(i - m) - 1] \in Seq(S) /\ tt[i - m] \in Seq(S)
      BY <3>1, <1>6, <1>7
    <3>. DEFINE x == f[m]
                y == g[(i - m) - 1]
                z == tt[i - m]
    <3>c. x \in Seq(S) /\ y \in Seq(S) /\ z \in Seq(S)
      BY <3>4, <1>6
    <3>. HIDE DEF x, y, z, h, m, n
    <3>5. (x \o y) \o z = x \o (y \o z)
      BY <3>c, ConcatAssociative, SMTT(30)
    <3>. USE DEF x, y, z, m, n
    <3>6. QED
      BY <3>2, <3>3, <3>5
  <2>5. i <= m \/ i = m + 1 \/ i > m + 1
    BY <1>0
  <2>6. QED
    <3>. HIDE DEF h
    <3>1. QED
      BY <2>2, <2>3, <2>4, <2>5
<1>11. Joins(ss \o tt, S, h)
  <2>. HIDE DEF h
  <2>1. QED
    BY <1>4, <1>8, <1>9, <1>10 DEF Joins
<1>12. h[m + n] = f[m] \o g[n]
  <2>1. CASE n = 0
    <3>1. h[m + n] = f[m] /\ g[n] = <<>>
      BY <2>1, <1>0, <1>5
    <3>2. QED
      BY <3>1, <1>6, ConcatEmptySeq
  <2>2. CASE n # 0
    <3>1. ~(m + n <= m) /\ (m + n) - m = n /\ m + n \in 0 .. m + n
      BY <2>2, <1>0
    <3>2. QED
      BY <3>1
  <2>3. QED
    BY <2>1, <2>2
<1>13. QED
  <2>. HIDE DEF h
  <2>1. FlattenSeq(ss \o tt) = h[Len(ss \o tt)]
    BY <1>4, <1>11, FlattenIs
  <2>2. QED
    BY <2>1, <1>3, <1>4, <1>12

-----------------------------------------------------------------------------
\* Texts and messages

Name == Nat \cup Container \cup {"assert", "containers", "routing_table", "dead_container", "node", "port_table", "gate"}

Token == {Open, Close, List, End, Comma, Number} \cup {Key(k) : k \in Name} \cup {Field(k) : k \in Name}

Text == Seq(Token)

MessageType == [source : Container, kind : {"reading", "assert", "other"}, rank : Nat]

LEMMA Tokens ==
  /\ Open \in Token /\ Close \in Token /\ List \in Token /\ End \in Token /\ Comma \in Token
  /\ Number \in Token
  /\ \A k \in Name : Key(k) \in Token /\ Field(k) \in Token
BY DEF Token

LEMMA TokenKinds ==
  ASSUME NEW t \in Token
  PROVE  /\ t.token \in {"open", "close", "list", "end", "comma", "number", "key", "field"}
         /\ t.token = "field" => t.of \in Name
BY DEF Token, Open, Close, List, End, Comma, Number, Key, Field

\* Texts of a few tokens
LEMMA Joined ==
  ASSUME NEW S, NEW s \in Seq(S), NEW t \in S, NEW u \in Seq(S),
         Len(u) = Len(s) + 1, u[Len(s) + 1] = t, \A i \in 1 .. Len(s) : u[i] = s[i]
  PROVE  s \o <<t>> = u
<1>1. <<t>> \in Seq(S) /\ Len(<<t>>) = 1 /\ <<t>>[1] = t
  OBVIOUS
<1>2. /\ s \o <<t>> \in Seq(S) /\ Len(s \o <<t>>) = Len(s) + 1
      /\ \A i \in 1 .. Len(s) + 1 : (s \o <<t>>)[i] = IF i <= Len(s) THEN s[i] ELSE <<t>>[i - Len(s)]
  BY <1>1, ConcatProperties
<1>3. \A i \in 1 .. Len(s) + 1 : (s \o <<t>>)[i] = u[i]
  <2>1. TAKE i \in 1 .. Len(s) + 1
  <2>2. CASE i <= Len(s)
    BY <2>2, <1>2
  <2>3. CASE ~(i <= Len(s))
    <3>1. i = Len(s) + 1 /\ i - Len(s) = 1
      BY <2>3
    <3>2. QED
      BY <2>3, <3>1, <1>1, <1>2
  <2>4. QED
    BY <2>2, <2>3
<1>. DEFINE v == s \o <<t>>
<1>4. v \in Seq(S) /\ Len(v) = Len(u) /\ \A i \in 1 .. Len(v) : v[i] = u[i]
  BY <1>2, <1>3
<1>. HIDE DEF v
<1>5. v = u
  BY <1>4, SeqEqual
<1>6. QED
  BY <1>5 DEF v

LEMMA JoinedTokens ==
  ASSUME NEW a \in Token, NEW b \in Token, NEW c \in Token
  PROVE  /\ <<a>> \in Text /\ <<a, b>> \in Text
         /\ <<a>> \o <<b>> = <<a, b>>
         /\ <<a, b>> \o <<c>> = <<a, b, c>>
<1>1. <<a>> \o <<b>> = <<a, b>>
  <2>1. /\ <<a>> \in Seq(Token) /\ Len(<<a>>) = 1 /\ <<a, b>> \in Seq(Token) /\ Len(<<a, b>>) = 1 + 1
        /\ <<a, b>>[1 + 1] = b /\ \A i \in 1 .. 1 : <<a, b>>[i] = <<a>>[i]
    OBVIOUS
  <2>2. QED
    BY <2>1, Joined
<1>2. <<a, b>> \o <<c>> = <<a, b, c>>
  <2>1. /\ <<a, b>> \in Seq(Token) /\ Len(<<a, b>>) = 2 /\ <<a, b, c>> \in Seq(Token) /\ Len(<<a, b, c>>) = 2 + 1
        /\ <<a, b, c>>[2 + 1] = c /\ \A i \in 1 .. 2 : <<a, b, c>>[i] = <<a, b>>[i]
    OBVIOUS
  <2>2. QED
    BY <2>1, Joined
<1>3. <<a>> \in Text /\ <<a, b>> \in Text
  BY DEF Text
<1>4. QED
  BY <1>1, <1>2, <1>3

LEMMA TextAssociative ==
  ASSUME NEW s \in Text, NEW t \in Text, NEW u \in Text
  PROVE  (s \o t) \o u = s \o (t \o u)
BY ConcatAssociative DEF Text

LEMMA FrontOfConcat ==
  ASSUME NEW S, NEW s \in Seq(S), NEW t \in S
  PROVE  Front(s \o <<t>>) = s /\ Last(s \o <<t>>) = t /\ s \o <<t>> # <<>>
<1>1. <<t>> \in Seq(S) /\ Len(<<t>>) = 1 /\ <<t>>[1] = t
  OBVIOUS
<1>2. /\ s \o <<t>> \in Seq(S) /\ Len(s \o <<t>>) = Len(s) + 1
      /\ \A i \in 1 .. Len(s) + 1 : (s \o <<t>>)[i] = IF i <= Len(s) THEN s[i] ELSE <<t>>[i - Len(s)]
  BY <1>1, ConcatProperties
<1>3. Len(s) \in Nat
  OBVIOUS
<1>4. Last(s \o <<t>>) = t
  <2>1. Len(s) + 1 \in 1 .. Len(s) + 1 /\ ~(Len(s) + 1 <= Len(s)) /\ Len(s) + 1 - Len(s) = 1
    BY <1>3
  <2>2. QED
    BY <1>1, <1>2, <2>1 DEF Last
<1>5. Front(s \o <<t>>) = SubSeq(s \o <<t>>, 1, Len(s))
  BY <1>2, <1>3 DEF Front
<1>6. SubSeq(s \o <<t>>, 1, Len(s)) = s
  <2>1. CASE Len(s) = 0
    BY <2>1, SubSeqEmpty
  <2>2. CASE Len(s) # 0
    <3>1. 1 \in 1 .. Len(s) /\ Len(s) \in 1 .. Len(s)
      BY <1>3, <2>2
    <3>2. SubSeq(s \o <<t>>, 1, Len(s)) = SubSeq(s, 1, Len(s))
      BY <1>1, <3>1, SubSeqOfConcat1
    <3>3. QED
      BY <3>2, SubSeqFull
  <2>3. QED
    BY <2>1, <2>2
<1>7. s \o <<t>> # <<>>
  BY <1>2, <1>3
<1>8. QED
  BY <1>4, <1>5, <1>6, <1>7

\* A text that is not empty is its front and its last token.
LEMMA FrontAndLast ==
  ASSUME NEW S, NEW s \in Seq(S), s # <<>>
  PROVE  Front(s) \in Seq(S) /\ Last(s) \in S /\ s = Front(s) \o <<Last(s)>> /\ Len(Front(s)) = Len(s) - 1
<1>1. Len(s) \in Nat /\ Len(s) # 0
  OBVIOUS
<1>2. 1 \in 1 .. Len(s) /\ Len(s) \in 1 .. Len(s)
  BY <1>1
<1>3. SubSeq(s, 1, Len(s)) = SubSeq(s, 1, Len(s) - 1) \o <<s[Len(s)]>>
  BY <1>2, SubSeqRecursiveSecond
<1>4. SubSeq(s, 1, Len(s)) = s
  BY SubSeqFull
<1>5. SubSeq(s, 1, Len(s) - 1) \in Seq(S) /\ Len(SubSeq(s, 1, Len(s) - 1)) = Len(s) - 1
  <2>1. 1 \in Int /\ Len(s) - 1 \in Int /\ \A i \in 1 .. Len(s) - 1 : s[i] \in S
    BY <1>1
  <2>2. /\ SubSeq(s, 1, Len(s) - 1) \in Seq(S)
        /\ Len(SubSeq(s, 1, Len(s) - 1)) = IF 1 <= Len(s) - 1 THEN (Len(s) - 1) - 1 + 1 ELSE 0
    BY <2>1, SubSeqProperties
  <2>3. CASE 1 <= Len(s) - 1
    BY <2>2, <2>3, <1>1
  <2>4. CASE ~(1 <= Len(s) - 1)
    <3>1. Len(s) - 1 = 0
      <4>. DEFINE n == Len(s)
      <4>1. n \in Nat /\ n # 0 /\ ~(1 <= n - 1)
        BY <1>1, <2>4
      <4>. HIDE DEF n
      <4>2. n - 1 = 0
        BY <4>1
      <4>3. QED
        BY <4>2 DEF n
    <3>2. QED
      BY <2>2, <2>4, <3>1
  <2>5. QED
    BY <2>3, <2>4
<1>6. s[Len(s)] \in S
  BY <1>2
<1>7. QED
  BY <1>3, <1>4, <1>5, <1>6 DEF Front, Last

-----------------------------------------------------------------------------
\* Readings of a text

LEMMA RankItems ==
  ASSUME NEW json \in Text
  PROVE  /\ [i \in DOMAIN json |-> RankOf(json[i])] \in Seq(Seq(Name))
         /\ Len([i \in DOMAIN json |-> RankOf(json[i])]) = Len(json)
<1>1. DOMAIN json = 1 .. Len(json) /\ Len(json) \in Nat /\ \A i \in DOMAIN json : json[i] \in Token
  BY DEF Text
<1>2. ASSUME NEW i \in DOMAIN json PROVE RankOf(json[i]) \in Seq(Name)
  <2>1. json[i].token = "field" => json[i].of \in Name
    BY <1>1, TokenKinds
  <2>2. QED
    BY <2>1 DEF RankOf
<1>3. [i \in DOMAIN json |-> RankOf(json[i])] \in [1 .. Len(json) -> Seq(Name)]
  BY <1>1, <1>2
<1>4. QED
  BY <1>1, <1>3

LEMMA RanksType ==
  ASSUME NEW json \in Text
  PROVE  RanksIn(json) \in Seq(Name)
BY RankItems, FlattenType DEF RanksIn

LEMMA RanksConcat ==
  ASSUME NEW s \in Text, NEW t \in Text
  PROVE  s \o t \in Text /\ RanksIn(s \o t) = RanksIn(s) \o RanksIn(t)
<1>. DEFINE a == [i \in DOMAIN s |-> RankOf(s[i])]
            b == [i \in DOMAIN t |-> RankOf(t[i])]
            c == [i \in DOMAIN (s \o t) |-> RankOf((s \o t)[i])]
<1>1. /\ s \o t \in Text /\ Len(s \o t) = Len(s) + Len(t)
      /\ \A i \in 1 .. Len(s) + Len(t) : (s \o t)[i] = IF i <= Len(s) THEN s[i] ELSE t[i - Len(s)]
  BY ConcatProperties DEF Text
<1>2. /\ DOMAIN s = 1 .. Len(s) /\ DOMAIN t = 1 .. Len(t) /\ DOMAIN (s \o t) = 1 .. Len(s) + Len(t)
      /\ Len(s) \in Nat /\ Len(t) \in Nat
  BY <1>1 DEF Text
<1>3. a \in Seq(Seq(Name)) /\ Len(a) = Len(s)
  BY RankItems
<1>4. b \in Seq(Seq(Name)) /\ Len(b) = Len(t)
  BY RankItems
<1>5. c \in Seq(Seq(Name)) /\ Len(c) = Len(s) + Len(t)
  BY RankItems, <1>1
<1>6. /\ a \o b \in Seq(Seq(Name)) /\ Len(a \o b) = Len(s) + Len(t)
      /\ \A i \in 1 .. Len(s) + Len(t) : (a \o b)[i] = IF i <= Len(s) THEN a[i] ELSE b[i - Len(s)]
  <2>. HIDE DEF a, b
  <2>1. /\ a \o b \in Seq(Seq(Name)) /\ Len(a \o b) = Len(a) + Len(b)
        /\ \A i \in 1 .. Len(a) + Len(b) : (a \o b)[i] = IF i <= Len(a) THEN a[i] ELSE b[i - Len(a)]
    BY <1>3, <1>4, ConcatProperties
  <2>2. QED
    BY <2>1, <1>3, <1>4
<1>7. \A i \in 1 .. Len(s) + Len(t) : c[i] = (a \o b)[i]
  <2>1. TAKE i \in 1 .. Len(s) + Len(t)
  <2>2. CASE i <= Len(s)
    <3>1. i \in DOMAIN s /\ i \in DOMAIN (s \o t)
      BY <1>2, <2>2
    <3>2. c[i] = RankOf((s \o t)[i]) /\ a[i] = RankOf(s[i])
      BY <3>1
    <3>. HIDE DEF a, b, c
    <3>3. QED
      BY <1>1, <1>6, <2>2, <3>2
  <2>3. CASE ~(i <= Len(s))
    <3>1. i - Len(s) \in DOMAIN t /\ i \in DOMAIN (s \o t)
      BY <1>2, <2>3
    <3>2. c[i] = RankOf((s \o t)[i]) /\ b[i - Len(s)] = RankOf(t[i - Len(s)])
      BY <3>1
    <3>. HIDE DEF a, b, c
    <3>3. QED
      BY <1>1, <1>6, <2>3, <3>2
  <2>4. QED
    BY <2>2, <2>3
<1>. HIDE DEF a, b, c
<1>8. c = a \o b
  BY <1>5, <1>6, <1>7, SeqEqual
<1>9. FlattenSeq(a \o b) = FlattenSeq(a) \o FlattenSeq(b)
  BY <1>3, <1>4, FlattenConcat
<1>10. QED
  BY <1>1, <1>8, <1>9 DEF RanksIn, a, b, c

LEMMA RanksOne ==
  ASSUME NEW t \in Token
  PROVE  RanksIn(<<t>>) = RankOf(t)
<1>1. RankOf(t) \in Seq(Name)
  BY TokenKinds DEF RankOf
<1>2. [i \in DOMAIN <<t>> |-> RankOf(<<t>>[i])] = <<RankOf(t)>>
  OBVIOUS
<1>3. QED
  BY <1>1, <1>2, FlattenOne DEF RanksIn

LEMMA RanksEmpty == RanksIn(<<>>) = <<>>
<1>1. Len([i \in DOMAIN <<>> |-> RankOf(<<>>[i])]) = 0 /\ [i \in DOMAIN <<>> |-> RankOf(<<>>[i])] = <<>>
  OBVIOUS
<1>2. QED
  BY <1>1 DEF RanksIn, FlattenSeq

\* A token that is no field adds no reading, in front or behind.
LEMMA RanksSilent ==
  ASSUME NEW s \in Text, NEW t \in Token, t.token # "field"
  PROVE  /\ <<t>> \o s \in Text /\ RanksIn(<<t>> \o s) = RanksIn(s)
         /\ s \o <<t>> \in Text /\ RanksIn(s \o <<t>>) = RanksIn(s)
<1>1. <<t>> \in Text
  BY DEF Text
<1>2. RanksIn(<<t>>) = <<>>
  BY RanksOne DEF RankOf
<1>3. RanksIn(s) \in Seq(Name)
  BY RanksType
<1>4. /\ <<t>> \o s \in Text /\ RanksIn(<<t>> \o s) = RanksIn(<<t>>) \o RanksIn(s)
  BY <1>1, RanksConcat
<1>5. /\ s \o <<t>> \in Text /\ RanksIn(s \o <<t>>) = RanksIn(s) \o RanksIn(<<t>>)
  BY <1>1, RanksConcat
<1>6. QED
  BY <1>2, <1>3, <1>4, <1>5, ConcatEmptySeq

LEMMA TrimType ==
  ASSUME NEW s \in Text, s # <<>>
  PROVE  TrimComma(s) \in Text /\ RanksIn(TrimComma(s)) = RanksIn(s)
<1>1. CASE Last(s) = Comma
  <2>1. Front(s) \in Text /\ s = Front(s) \o <<Comma>>
    BY <1>1, FrontAndLast DEF Text
  <2>2. Comma \in Token /\ Comma.token # "field"
    BY Tokens DEF Comma
  <2>3. RanksIn(Front(s) \o <<Comma>>) = RanksIn(Front(s))
    BY <2>1, <2>2, RanksSilent
  <2>4. QED
    BY <2>1, <2>3, <1>1 DEF TrimComma
<1>2. CASE Last(s) # Comma
  BY <1>2 DEF TrimComma
<1>3. QED
  BY <1>1, <1>2

-----------------------------------------------------------------------------
\* Sections and the readings in them

FieldsOf(msgs) == [i \in DOMAIN msgs |-> Fields(msgs[i])]
Body(msgs) == FlattenSeq(FieldsOf(msgs))

LEMMA FieldsType ==
  ASSUME NEW msg \in MessageType
  PROVE  /\ Fields(msg) \in Text /\ ReadingOf(msg) \in Seq(Nat)
         /\ RanksIn(Fields(msg)) = ReadingOf(msg)
<1>1. msg.rank \in Nat /\ msg.rank \in Name
  BY DEF MessageType, Name
<1>2. Field(msg.rank) \in Token /\ Comma \in Token
  BY <1>1, Tokens
<1>3. CASE msg.kind = "reading"
  <2>1. Fields(msg) = <<Field(msg.rank)>> \o <<Comma>> /\ ReadingOf(msg) = <<msg.rank>>
    BY <1>3 DEF Fields, ReadingOf
  <2>2. <<Field(msg.rank)>> \in Text /\ RankOf(Field(msg.rank)) = <<msg.rank>> /\ Comma.token # "field"
    BY <1>2 DEF Text, RankOf, Field, Comma
  <2>3. RanksIn(<<Field(msg.rank)>>) = <<msg.rank>>
    BY <1>2, <2>2, RanksOne
  <2>4. /\ <<Field(msg.rank)>> \o <<Comma>> \in Text
        /\ RanksIn(<<Field(msg.rank)>> \o <<Comma>>) = RanksIn(<<Field(msg.rank)>>)
    BY <1>2, <2>2, RanksSilent
  <2>5. QED
    BY <1>1, <2>1, <2>3, <2>4
<1>4. CASE msg.kind # "reading"
  <2>1. Fields(msg) = <<>> /\ ReadingOf(msg) = <<>>
    BY <1>4 DEF Fields, ReadingOf
  <2>2. QED
    BY <2>1, RanksEmpty DEF Text
<1>5. QED
  BY <1>3, <1>4

LEMMA MessageItems ==
  ASSUME NEW msgs \in Seq(MessageType)
  PROVE  /\ Len(msgs) \in Nat /\ DOMAIN msgs = 1 .. Len(msgs)
         /\ \A i \in DOMAIN msgs : msgs[i] \in MessageType
         /\ FieldsOf(msgs) \in Seq(Text) /\ Len(FieldsOf(msgs)) = Len(msgs)
         /\ \A i \in 1 .. Len(msgs) : FieldsOf(msgs)[i] = Fields(msgs[i])
         /\ [i \in DOMAIN msgs |-> ReadingOf(msgs[i])] \in Seq(Seq(Nat))
         /\ Len([i \in DOMAIN msgs |-> ReadingOf(msgs[i])]) = Len(msgs)
<1>1. Len(msgs) \in Nat /\ DOMAIN msgs = 1 .. Len(msgs) /\ \A i \in DOMAIN msgs : msgs[i] \in MessageType
  OBVIOUS
<1>2. \A i \in DOMAIN msgs : Fields(msgs[i]) \in Text /\ ReadingOf(msgs[i]) \in Seq(Nat)
  BY <1>1, FieldsType
<1>3. FieldsOf(msgs) \in [1 .. Len(msgs) -> Text]
  BY <1>1, <1>2 DEF FieldsOf
<1>4. [i \in DOMAIN msgs |-> ReadingOf(msgs[i])] \in [1 .. Len(msgs) -> Seq(Nat)]
  BY <1>1, <1>2
<1>5. FieldsOf(msgs) \in Seq(Text) /\ Len(FieldsOf(msgs)) = Len(msgs)
  BY <1>1, <1>3
<1>6. /\ [i \in DOMAIN msgs |-> ReadingOf(msgs[i])] \in Seq(Seq(Nat))
      /\ Len([i \in DOMAIN msgs |-> ReadingOf(msgs[i])]) = Len(msgs)
  BY <1>1, <1>4
<1>7. \A i \in 1 .. Len(msgs) : FieldsOf(msgs)[i] = Fields(msgs[i])
  BY <1>1 DEF FieldsOf
<1>8. QED
  BY <1>1, <1>5, <1>6, <1>7

LEMMA BodyRanks ==
  ASSUME NEW msgs \in Seq(MessageType)
  PROVE  /\ Body(msgs) \in Text /\ Readings(msgs) \in Seq(Nat)
         /\ RanksIn(Body(msgs)) = Readings(msgs)
<1>. DEFINE n == Len(msgs)
            items == [i \in DOMAIN msgs |-> ReadingOf(msgs[i])]
<1>1. /\ n \in Nat /\ DOMAIN msgs = 1 .. n /\ \A i \in DOMAIN msgs : msgs[i] \in MessageType
      /\ FieldsOf(msgs) \in Seq(Seq(Token)) /\ Len(FieldsOf(msgs)) = n
      /\ \A i \in 1 .. n : FieldsOf(msgs)[i] = Fields(msgs[i])
      /\ items \in Seq(Seq(Nat)) /\ Len(items) = n
  BY MessageItems DEF Text
<1>2. PICK f : Joins(FieldsOf(msgs), Token, f)
  BY <1>1, FlattenJoins
<1>3. Body(msgs) = f[n] /\ Body(msgs) \in Text
  BY <1>1, <1>2, FlattenIs, FlattenType DEF Body, Text
<1>4. Readings(msgs) = FlattenSeq(items) /\ Readings(msgs) \in Seq(Nat)
  BY <1>1, FlattenType DEF Readings
<1>5. /\ f \in [0 .. n -> Text] /\ f[0] = <<>>
      /\ \A i \in 1 .. n : f[i] = f[i - 1] \o Fields(msgs[i])
  BY <1>1, <1>2 DEF Joins, Text
<1>6. \A i \in 0 .. n : f[i] \in Text
  BY <1>5
<1>. DEFINE g == [i \in 0 .. n |-> RanksIn(f[i])]
<1>7. items \in Seq(Seq(Name)) /\ \A i \in 1 .. n : items[i] = ReadingOf(msgs[i])
  <2>1. \A i \in 1 .. n : items[i] = ReadingOf(msgs[i]) /\ ReadingOf(msgs[i]) \in Seq(Nat)
    BY <1>1, FieldsType
  <2>2. Seq(Nat) \subseteq Seq(Name)
    BY SeqMonotonic DEF Name
  <2>3. items \in [1 .. n -> Seq(Name)]
    <3>1. \A i \in 1 .. n : items[i] \in Seq(Name)
      BY <2>1, <2>2
    <3>2. DOMAIN items = 1 .. n
      BY <1>1
    <3>3. QED
      BY <3>1, <3>2
  <2>4. QED
    BY <1>1, <2>1, <2>3
<1>8. \A i \in 0 .. n : g[i] \in Seq(Name)
  BY <1>6, RanksType
<1>9. g[0] = <<>>
  BY <1>1, <1>5, RanksEmpty
<1>10. \A i \in 1 .. n : g[i] = g[i - 1] \o items[i]
  <2>1. TAKE i \in 1 .. n
  <2>2. i - 1 \in 0 .. n /\ i \in 0 .. n /\ i \in DOMAIN msgs
    BY <1>1
  <2>3. Fields(msgs[i]) \in Text /\ RanksIn(Fields(msgs[i])) = ReadingOf(msgs[i])
    BY <1>1, <2>2, FieldsType
  <2>4. f[i - 1] \in Text
    BY <1>6, <2>2
  <2>5. RanksIn(f[i - 1] \o Fields(msgs[i])) = RanksIn(f[i - 1]) \o RanksIn(Fields(msgs[i]))
    BY <2>3, <2>4, RanksConcat
  <2>6. RanksIn(f[i]) = RanksIn(f[i - 1]) \o items[i]
    BY <1>5, <1>7, <2>3, <2>5
  <2>7. QED
    BY <2>2, <2>6
<1>11. Joins(items, Name, g)
  <2>1. g \in [0 .. n -> Seq(Name)]
    BY <1>8
  <2>. HIDE DEF g, items
  <2>2. QED
    BY <1>1, <1>9, <1>10, <2>1 DEF Joins
<1>12. FlattenSeq(items) = g[n]
  <2>. HIDE DEF g, items
  <2>1. QED
    BY <1>1, <1>7, <1>11, FlattenIs
<1>13. g[n] = RanksIn(f[n])
  BY <1>1
<1>14. QED
  BY <1>3, <1>4, <1>12, <1>13

\* The text of a section up to its last comma
SectionHead(c) == (<<Open>> \o <<Key(c)>>) \o <<Open>>

LEMMA SectionSplit ==
  ASSUME NEW c \in Container, NEW msgs \in Seq(MessageType)
  PROVE  /\ SectionHead(c) \in Text /\ SectionHead(c) \o Body(msgs) \in Text
         /\ SectionHead(c) \o Body(msgs) # <<>>
         /\ TrimComma(SectionHead(c) \o Body(msgs)) \in Text
         /\ Section(c, msgs) = (TrimComma(SectionHead(c) \o Body(msgs)) \o <<Close>>) \o <<Comma>>
<1>1. c \in Name /\ Open \in Token /\ Key(c) \in Token /\ Close \in Token /\ Comma \in Token
  BY Tokens DEF Name
<1>2. SectionHead(c) = <<Open, Key(c), Open>> /\ SectionHead(c) \in Text /\ Len(SectionHead(c)) = 3
  <2>1. SectionHead(c) = <<Open, Key(c), Open>>
    <3>1. <<Open>> \o <<Key(c)>> = <<Open, Key(c)>>
      BY <1>1, JoinedTokens
    <3>2. <<Open, Key(c)>> \o <<Open>> = <<Open, Key(c), Open>>
      BY <1>1, JoinedTokens
    <3>3. QED
      BY <3>1, <3>2 DEF SectionHead
  <2>2. <<Open, Key(c), Open>> \in Seq(Token)
    BY <1>1
  <2>3. QED
    BY <2>1, <2>2 DEF Text
<1>3. Body(msgs) \in Text
  BY BodyRanks
<1>4. SectionHead(c) \o Body(msgs) \in Text /\ Len(SectionHead(c) \o Body(msgs)) = 3 + Len(Body(msgs))
  BY <1>2, <1>3, ConcatProperties DEF Text
<1>5. SectionHead(c) \o Body(msgs) # <<>>
  <2>1. Len(Body(msgs)) \in Nat
    BY <1>3 DEF Text
  <2>2. Len(SectionHead(c) \o Body(msgs)) # 0
    BY <1>4, <2>1
  <2>3. QED
    BY <2>2
<1>6. TrimComma(SectionHead(c) \o Body(msgs)) \in Text
  BY <1>4, <1>5, TrimType
<1>7. Section(c, msgs) = TrimComma(SectionHead(c) \o Body(msgs)) \o <<Close, Comma>>
  BY <1>2 DEF Section, Body, FieldsOf
<1>8. <<Close, Comma>> = <<Close>> \o <<Comma>> /\ <<Close>> \in Text /\ <<Comma>> \in Text
  BY <1>1 DEF Text
<1>. DEFINE text == TrimComma(SectionHead(c) \o Body(msgs))
<1>9. text \o (<<Close>> \o <<Comma>>) = (text \o <<Close>>) \o <<Comma>>
  <2>1. text \in Text /\ <<Close>> \in Text /\ <<Comma>> \in Text
    BY <1>6, <1>8
  <2>. HIDE DEF text
  <2>2. QED
    BY <2>1, TextAssociative
<1>10. QED
  BY <1>2, <1>4, <1>5, <1>6, <1>7, <1>8, <1>9

LEMMA SectionRanks ==
  ASSUME NEW c \in Container, NEW msgs \in Seq(MessageType)
  PROVE  Section(c, msgs) \in Text /\ RanksIn(Section(c, msgs)) = Readings(msgs)
<1>. DEFINE head == SectionHead(c)
            text == TrimComma(head \o Body(msgs))
<1>1. /\ head \in Text /\ head \o Body(msgs) \in Text /\ head \o Body(msgs) # <<>>
      /\ text \in Text /\ Section(c, msgs) = (text \o <<Close>>) \o <<Comma>>
  BY SectionSplit
<1>2. /\ Open \in Token /\ Key(c) \in Token /\ Close \in Token /\ Comma \in Token
      /\ Open.token # "field" /\ Key(c).token # "field" /\ Close.token # "field" /\ Comma.token # "field"
  BY Tokens DEF Name, Open, Key, Close, Comma
<1>3. RanksIn(head) = <<>>
  <2>1. <<>> \in Text /\ <<>> \o <<Open>> = <<Open>>
    BY DEF Text
  <2>2. <<Open>> \in Text /\ RanksIn(<<Open>>) = <<>>
    BY <1>2, <2>1, RanksSilent, RanksEmpty
  <2>3. <<Open>> \o <<Key(c)>> \in Text /\ RanksIn(<<Open>> \o <<Key(c)>>) = <<>>
    BY <1>2, <2>2, RanksSilent
  <2>4. QED
    BY <1>2, <2>3, RanksSilent DEF SectionHead
<1>4. Body(msgs) \in Text /\ RanksIn(Body(msgs)) = Readings(msgs) /\ Readings(msgs) \in Seq(Nat)
  BY BodyRanks
<1>5. RanksIn(head \o Body(msgs)) = RanksIn(head) \o RanksIn(Body(msgs))
  BY <1>1, <1>4, RanksConcat
<1>6. RanksIn(text) = Readings(msgs)
  <2>1. RanksIn(text) = RanksIn(head \o Body(msgs))
    BY <1>1, TrimType
  <2>2. QED
    BY <2>1, <1>3, <1>4, <1>5, ConcatEmptySeq
<1>. HIDE DEF text
<1>7. text \o <<Close>> \in Text /\ RanksIn(text \o <<Close>>) = Readings(msgs)
  BY <1>1, <1>2, <1>6, RanksSilent
<1>8. /\ (text \o <<Close>>) \o <<Comma>> \in Text
      /\ RanksIn((text \o <<Close>>) \o <<Comma>>) = Readings(msgs)
  BY <1>2, <1>7, RanksSilent
<1>9. QED
  BY <1>1, <1>8

\* The readings of messages are ranks of theirs, each once when no two of them
\* have the same.
Reports(msgs, i) == msgs[i].kind = "reading"

Distinct(msgs) ==
  \A i, j \in DOMAIN msgs : Reports(msgs, i) /\ Reports(msgs, j) /\ msgs[i].rank = msgs[j].rank => i = j

FromFirst(msgs, k, ranks) ==
  /\ \A j \in DOMAIN ranks : \E i \in 1 .. k : Reports(msgs, i) /\ msgs[i].rank = ranks[j]
  /\ IsInjective(ranks)

LEMMA ReadingsInjective ==
  ASSUME NEW msgs \in Seq(MessageType), Distinct(msgs)
  PROVE  FromFirst(msgs, Len(msgs), Readings(msgs))
<1>. DEFINE n == Len(msgs)
            items == [i \in DOMAIN msgs |-> ReadingOf(msgs[i])]
<1>1. /\ n \in Nat /\ DOMAIN msgs = 1 .. n /\ \A i \in DOMAIN msgs : msgs[i] \in MessageType
      /\ items \in Seq(Seq(Nat)) /\ Len(items) = n
  BY MessageItems
<1>2. PICK f : Joins(items, Nat, f)
  BY <1>1, FlattenJoins
<1>3. Readings(msgs) = f[n]
  BY <1>1, <1>2, FlattenIs DEF Readings
<1>4. /\ f \in [0 .. n -> Seq(Nat)] /\ f[0] = <<>>
      /\ \A i \in 1 .. n : f[i] = f[i - 1] \o ReadingOf(msgs[i])
  BY <1>1, <1>2 DEF Joins
<1>. DEFINE N == {k \in Nat : k <= n => FromFirst(msgs, k, f[k])}
<1>5. 0 \in N
  <2>1. FromFirst(msgs, 0, <<>>)
    BY DEF FromFirst, IsInjective
  <2>2. QED
    BY <1>4, <2>1
<1>6. \A k \in Nat : k \in N => k + 1 \in N
  <2>. SUFFICES ASSUME NEW k \in Nat, k \in N, k + 1 <= n PROVE FromFirst(msgs, k + 1, f[k + 1])
    OBVIOUS
  <2>1. k <= n /\ k \in 0 .. n /\ k + 1 \in 1 .. n /\ (k + 1) - 1 = k /\ k + 1 \in DOMAIN msgs
    BY <1>1
  <2>2. FromFirst(msgs, k, f[k]) /\ f[k] \in Seq(Nat)
    BY <1>4, <2>1
  <2>3. f[k + 1] = f[k] \o ReadingOf(msgs[k + 1])
    BY <1>4, <2>1
  <2>. DEFINE s == f[k]
  <2>4. /\ s \in Seq(Nat) /\ IsInjective(s)
        /\ \A j \in DOMAIN s : \E i \in 1 .. k : Reports(msgs, i) /\ msgs[i].rank = s[j]
    BY <2>2 DEF FromFirst
  <2>. HIDE DEF s
  <2>5. CASE ~Reports(msgs, k + 1)
    <3>1. s \o ReadingOf(msgs[k + 1]) = s
      BY <2>4, <2>5, ConcatEmptySeq DEF ReadingOf, Reports
    <3>2. \A i \in 1 .. k : i \in 1 .. k + 1
      OBVIOUS
    <3>3. FromFirst(msgs, k + 1, s)
      BY <2>4, <3>2 DEF FromFirst
    <3>4. QED
      BY <2>3, <3>1, <3>3 DEF s
  <2>6. CASE Reports(msgs, k + 1)
    <3>. DEFINE r == msgs[k + 1].rank
                t == s \o <<r>>
    <3>1. r \in Nat
      BY <1>1, <2>1 DEF MessageType
    <3>2. f[k + 1] = t
      BY <2>3, <2>6 DEF ReadingOf, Reports, s
    <3>. HIDE DEF r
    <3>3. /\ Len(s) \in Nat /\ DOMAIN s = 1 .. Len(s) /\ DOMAIN t = 1 .. Len(s) + 1
          /\ t[Len(s) + 1] = r /\ \A j \in 1 .. Len(s) : t[j] = s[j]
      BY <2>4, <3>1
    <3>. HIDE DEF t
    <3>4. \A j \in 1 .. Len(s) : s[j] # r
      <4>. SUFFICES ASSUME NEW j \in 1 .. Len(s), s[j] = r PROVE FALSE
        OBVIOUS
      <4>1. PICK i \in 1 .. k : Reports(msgs, i) /\ msgs[i].rank = r
        BY <2>4, <3>3
      <4>2. i \in DOMAIN msgs /\ i # k + 1
        BY <1>1, <2>1
      <4>3. QED
        BY <4>1, <4>2, <2>1, <2>6 DEF Distinct, r
    <3>5. IsInjective(t)
      <4>1. SUFFICES ASSUME NEW a \in DOMAIN t, NEW b \in DOMAIN t, t[a] = t[b] PROVE a = b
        BY DEF IsInjective
      <4>2. CASE a = Len(s) + 1 \/ b = Len(s) + 1
        <5>1. a \in 1 .. Len(s) \/ a = Len(s) + 1
          BY <3>3
        <5>2. b \in 1 .. Len(s) \/ b = Len(s) + 1
          BY <3>3
        <5>3. QED
          BY <4>1, <4>2, <5>1, <5>2, <3>3, <3>4
      <4>3. CASE ~(a = Len(s) + 1 \/ b = Len(s) + 1)
        <5>1. a \in DOMAIN s /\ b \in DOMAIN s
          BY <3>3, <4>3
        <5>2. s[a] = s[b]
          BY <5>1, <4>1, <3>3
        <5>3. QED
          BY <5>1, <5>2, <2>4 DEF IsInjective
      <4>4. QED
        BY <4>2, <4>3
    <3>6. \A j \in DOMAIN t : \E i \in 1 .. k + 1 : Reports(msgs, i) /\ msgs[i].rank = t[j]
      <4>1. TAKE j \in DOMAIN t
      <4>2. CASE j = Len(s) + 1
        BY <4>2, <3>3, <2>6 DEF r
      <4>3. CASE j # Len(s) + 1
        <5>1. j \in DOMAIN s /\ t[j] = s[j]
          BY <3>3, <4>3
        <5>2. PICK i \in 1 .. k : Reports(msgs, i) /\ msgs[i].rank = s[j]
          BY <5>1, <2>4
        <5>3. i \in 1 .. k + 1
          OBVIOUS
        <5>4. QED
          BY <5>1, <5>2, <5>3
      <4>4. QED
        BY <4>2, <4>3
    <3>7. QED
      BY <3>2, <3>5, <3>6 DEF FromFirst
  <2>7. QED
    BY <2>5, <2>6
<1>7. n \in N
  <2>. HIDE DEF N
  <2>1. QED
    BY <1>1, <1>5, <1>6, Induction
<1>8. QED
  BY <1>1, <1>3, <1>7

-----------------------------------------------------------------------------
\* Messages taken from others

Taken(msgs, from) ==
  \E pos \in [DOMAIN msgs -> DOMAIN from] :
    /\ IsInjective(pos)
    /\ \A k \in DOMAIN msgs : msgs[k] = from[pos[k]]

LEMMA SelectedMessages ==
  ASSUME NEW msgs \in Seq(MessageType), NEW kept \in SUBSET (DOMAIN msgs)
  PROVE  /\ Selected(msgs, kept) \in Seq(MessageType)
         /\ \A k \in DOMAIN Selected(msgs, kept) : \E i \in kept : Selected(msgs, kept)[k] = msgs[i]
         /\ Taken(Selected(msgs, kept), msgs)
<1>. DEFINE n == Cardinality(kept)
            sel == Selected(msgs, kept)
<1>0. DOMAIN msgs = 1 .. Len(msgs)
  OBVIOUS
<1>1. kept \in SUBSET (1 .. Len(msgs))
  BY <1>0
<1>2. sel \in Seq(MessageType) /\ Len(sel) = n /\ n \in Nat
  BY <1>1, SelectedPositions
<1>3. PICK pos \in [1 .. n -> kept] :
        /\ \A k, l \in 1 .. n : k < l => pos[k] < pos[l]
        /\ \A k \in 1 .. n : sel[k] = msgs[pos[k]]
  BY <1>1, SelectedPositions
<1>. HIDE DEF sel
<1>4. DOMAIN sel = 1 .. n
  BY <1>2
<1>. HIDE DEF n
<1>5. pos \in [DOMAIN sel -> DOMAIN msgs]
  BY <1>3, <1>4
<1>6. IsInjective(pos)
  <2>1. SUFFICES ASSUME NEW k \in 1 .. n, NEW l \in 1 .. n, pos[k] = pos[l], k # l PROVE FALSE
    BY <1>3 DEF IsInjective
  <2>2. k < l \/ l < k
    BY <1>2, <2>1
  <2>3. pos[k] < pos[l] \/ pos[l] < pos[k]
    BY <1>3, <2>2
  <2>4. pos[k] \in Nat /\ pos[l] \in Nat
    BY <1>1, <1>3
  <2>5. QED
    BY <2>1, <2>3, <2>4
<1>7. \A k \in DOMAIN sel : sel[k] = msgs[pos[k]] /\ pos[k] \in kept
  BY <1>3, <1>4
<1>8. Taken(sel, msgs)
  BY <1>5, <1>6, <1>7 DEF Taken
<1>9. QED
  BY <1>2, <1>7, <1>8 DEF sel

LEMMA TailOfMessages ==
  ASSUME NEW msgs \in Seq(MessageType), msgs # <<>>
  PROVE  /\ Head(msgs) \in MessageType /\ Tail(msgs) \in Seq(MessageType)
         /\ Taken(Tail(msgs), msgs)
<1>1. Head(msgs) \in MessageType /\ Tail(msgs) \in Seq(MessageType)
  BY HeadTailProperties
<1>2. /\ Len(msgs) \in Nat /\ DOMAIN msgs = 1 .. Len(msgs) /\ DOMAIN Tail(msgs) = 1 .. Len(msgs) - 1
      /\ \A i \in 1 .. Len(msgs) - 1 : Tail(msgs)[i] = msgs[i + 1]
  OBVIOUS
<1>. DEFINE pos == [k \in DOMAIN Tail(msgs) |-> k + 1]
<1>3. pos \in [DOMAIN Tail(msgs) -> DOMAIN msgs]
  BY <1>2
<1>4. IsInjective(pos)
  BY <1>2 DEF IsInjective
<1>5. \A k \in DOMAIN Tail(msgs) : Tail(msgs)[k] = msgs[pos[k]]
  BY <1>2
<1>. HIDE DEF pos
<1>6. QED
  BY <1>1, <1>3, <1>4, <1>5 DEF Taken

\* Each reading in the inbox is a new one.
NotYet(msgs, done, count) ==
  \A i \in DOMAIN msgs :
    Reports(msgs, i) => msgs[i].rank <= count /\ \A j \in DOMAIN done : done[j] # msgs[i].rank

LEMMA TakenStaysNew ==
  ASSUME NEW from, NEW msgs, NEW done, NEW count, Taken(msgs, from), Distinct(from), NotYet(from, done, count)
  PROVE  Distinct(msgs) /\ NotYet(msgs, done, count)
<1>1. PICK pos \in [DOMAIN msgs -> DOMAIN from] :
        IsInjective(pos) /\ \A k \in DOMAIN msgs : msgs[k] = from[pos[k]]
  BY DEF Taken
<1>2. \A k \in DOMAIN msgs : pos[k] \in DOMAIN from /\ msgs[k] = from[pos[k]]
  BY <1>1
<1>3. Distinct(msgs)
  <2>1. SUFFICES ASSUME NEW k \in DOMAIN msgs, NEW l \in DOMAIN msgs,
                        Reports(msgs, k), Reports(msgs, l), msgs[k].rank = msgs[l].rank
                 PROVE  k = l
    BY DEF Distinct
  <2>2. Reports(from, pos[k]) /\ Reports(from, pos[l]) /\ from[pos[k]].rank = from[pos[l]].rank
    BY <1>2, <2>1 DEF Reports
  <2>3. pos[k] = pos[l]
    BY <1>2, <2>2 DEF Distinct
  <2>4. QED
    BY <1>1, <2>3 DEF IsInjective
<1>4. NotYet(msgs, done, count)
  BY <1>2 DEF NotYet, Reports
<1>5. QED
  BY <1>3, <1>4

-----------------------------------------------------------------------------
\* Types

Threads == [pc : {"start", "loop", "format", "test", "seek", "write"}, json : Text, at : Nat]

RefreshTypes ==
  /\ known \subseteq Container /\ asked \subseteq Sensor
  /\ inbox \in Seq(MessageType)
  /\ thread \in Threads
  /\ refresh_json \in Text
  /\ keep_alive \in 0 .. MaxKeepAlive + 1
  /\ collided \in BOOLEAN /\ readings \in 0 .. MaxReadings /\ others \in 0 .. MaxOthers
  /\ printing \in BOOLEAN /\ mixed \in BOOLEAN /\ overrun \in BOOLEAN
  /\ printed \in Seq(Name) /\ read \in Seq(Nat)
  /\ thread.pc \in {"start", "loop"} => thread.json = <<>>

LEMMA TypesImply == RefreshTypes => RefreshTypeOK
<1>. SUFFICES ASSUME RefreshTypes PROVE RefreshTypeOK
  OBVIOUS
<1>1. \A i \in DOMAIN inbox : inbox[i].source \in Container
  <2>1. \A i \in DOMAIN inbox : inbox[i] \in MessageType
    BY DEF RefreshTypes
  <2>2. QED
    BY <2>1 DEF MessageType
<1>2. thread.pc \in {"start", "loop", "format", "test", "seek", "write"} /\ thread.at \in Nat
  BY DEF RefreshTypes, Threads
<1>3. QED
  BY <1>1, <1>2 DEF RefreshTypes, RefreshTypeOK

LEMMA ThreadTypes ==
  ASSUME NEW pc \in {"start", "loop", "format", "test", "seek", "write"}, NEW json \in Text
  PROVE  At(pc, json) \in Threads /\ At(pc, json).pc = pc /\ At(pc, json).json = json /\ At(pc, json).at = 0
BY DEF At, Threads

LEMMA TypesInit == Init => RefreshTypes
<1>. SUFFICES ASSUME Init PROVE RefreshTypes
  OBVIOUS
<1>1. <<>> \in Text /\ <<>> \in Seq(MessageType) /\ <<>> \in Seq(Name) /\ <<>> \in Seq(Nat)
  BY DEF Text
<1>2. thread \in Threads /\ thread.json = <<>>
  BY <1>1, ThreadTypes DEF Init
<1>3. MaxKeepAlive \in Nat /\ MaxReadings \in Nat /\ MaxOthers \in Nat
  BY RefreshAssumption
<1>4. 0 \in 0 .. MaxKeepAlive + 1 /\ 0 \in 0 .. MaxReadings /\ 0 \in 0 .. MaxOthers
  BY <1>3
<1>5. inbox \in Seq(MessageType) /\ refresh_json \in Text /\ printed \in Seq(Name) /\ read \in Seq(Nat)
  BY <1>1 DEF Init
<1>6. /\ known \subseteq Container /\ asked \subseteq Sensor /\ collided \in BOOLEAN
      /\ printing \in BOOLEAN /\ mixed \in BOOLEAN /\ overrun \in BOOLEAN
      /\ keep_alive = 0 /\ readings = 0 /\ others = 0
  BY DEF Init
<1>7. QED
  BY <1>2, <1>4, <1>5, <1>6 DEF RefreshTypes

\* What the formatting of a section does
LEMMA SectionFormatted ==
  ASSUME RefreshTypes, FormatSection
  PROVE  \E c \in Container : \E msgs \in Seq(MessageType) :
           /\ Taken(msgs, inbox) /\ Taken(inbox', inbox) /\ inbox' \in Seq(MessageType)
           /\ \A k \in DOMAIN msgs : msgs[k].source = c
           /\ \A k \in DOMAIN inbox' : inbox'[k].source # c
           /\ \A k \in DOMAIN msgs : \E i \in DOMAIN inbox : msgs[k] = inbox[i]
           /\ thread' = [thread EXCEPT !.json = @ \o Section(c, msgs)]
           /\ read' = read \o Readings(msgs)
<1>. DEFINE c == Head(inbox).source
            mine == {i \in DOMAIN inbox : inbox[i].source = c}
            rest == {i \in DOMAIN inbox : inbox[i].source # c}
            msgs == Selected(inbox, mine)
            left == Selected(inbox, rest)
<1>1. inbox \in Seq(MessageType) /\ inbox # <<>>
  BY DEF RefreshTypes, FormatSection, Runs
<1>2. c \in Container
  BY <1>1, TailOfMessages DEF MessageType
<1>3. /\ thread' = [thread EXCEPT !.json = @ \o Section(c, msgs)]
      /\ read' = read \o Readings(msgs) /\ inbox' = left
  BY DEF FormatSection, Unread, Runs
<1>4. /\ mine \in SUBSET (DOMAIN inbox) /\ rest \in SUBSET (DOMAIN inbox)
      /\ \A i \in mine : inbox[i].source = c
      /\ \A i \in rest : inbox[i].source # c
  OBVIOUS
<1>. HIDE DEF c, mine, rest
<1>5. /\ msgs \in Seq(MessageType) /\ Taken(msgs, inbox)
      /\ \A k \in DOMAIN msgs : \E i \in mine : msgs[k] = inbox[i]
  BY <1>1, <1>4, SelectedMessages
<1>6. /\ left \in Seq(MessageType) /\ Taken(left, inbox)
      /\ \A k \in DOMAIN left : \E i \in rest : left[k] = inbox[i]
  BY <1>1, <1>4, SelectedMessages
<1>. HIDE DEF msgs, left
<1>7. /\ \A k \in DOMAIN msgs : msgs[k].source = c
      /\ \A k \in DOMAIN left : left[k].source # c
      /\ \A k \in DOMAIN msgs : \E i \in DOMAIN inbox : msgs[k] = inbox[i]
  BY <1>4, <1>5, <1>6
<1>8. QED
  BY <1>2, <1>3, <1>5, <1>6, <1>7

\* The values that the steps give to the thread
LEMMA Texts ==
  /\ Open \in Token /\ Close \in Token /\ Comma \in Token /\ Key("containers") \in Token
  /\ <<>> \in Text /\ <<Open>> \in Text /\ <<Close>> \in Text /\ <<Comma>> \in Text
  /\ <<Open, Key("containers")>> \in Text
<1>1. Open \in Token /\ Close \in Token /\ Comma \in Token /\ Key("containers") \in Token
  BY Tokens DEF Name
<1>2. QED
  BY <1>1 DEF Text

\* The text that the end of the formatting leaves for the buffer
LEMMA ClosedType ==
  ASSUME NEW json \in Text, json # <<>>
  PROVE  /\ TrimComma(json) \o <<Close>> \in Text
         /\ RanksIn(TrimComma(json) \o <<Close>>) = RanksIn(json)
<1>1. TrimComma(json) \in Text /\ RanksIn(TrimComma(json)) = RanksIn(json)
  BY TrimType
<1>2. Close \in Token /\ Close.token # "field"
  BY Texts DEF Close
<1>3. QED
  BY <1>1, <1>2, RanksSilent

LEMMA PrefixType ==
  ASSUME NEW json \in Text
  PROVE  /\ <<Open, Key("containers")>> \o json \in Text /\ <<Comma>> \o json \in Text
         /\ RanksIn(<<Open, Key("containers")>> \o json) = RanksIn(json)
         /\ RanksIn(<<Comma>> \o json) = RanksIn(json)
<1>1. /\ Open \in Token /\ Key("containers") \in Token /\ Comma \in Token
      /\ Open.token # "field" /\ Key("containers").token # "field" /\ Comma.token # "field"
  BY Texts DEF Open, Key, Comma
<1>2. <<Key("containers")>> \o json \in Text /\ RanksIn(<<Key("containers")>> \o json) = RanksIn(json)
  BY <1>1, RanksSilent
<1>. DEFINE t == <<Key("containers")>> \o json
<1>3. <<Open>> \o t \in Text /\ RanksIn(<<Open>> \o t) = RanksIn(t)
  <2>1. t \in Text
    BY <1>2
  <2>. HIDE DEF t
  <2>2. QED
    BY <1>1, <2>1, RanksSilent
<1>4. <<Open>> \o t = <<Open, Key("containers")>> \o json
  <2>1. <<Open>> \in Text /\ <<Key("containers")>> \in Text
    BY <1>1 DEF Text
  <2>2. (<<Open>> \o <<Key("containers")>>) \o json = <<Open>> \o t
    BY <2>1, TextAssociative
  <2>3. <<Open>> \o <<Key("containers")>> = <<Open, Key("containers")>>
    BY <1>1, JoinedTokens
  <2>4. QED
    BY <2>2, <2>3
<1>5. <<Comma>> \o json \in Text /\ RanksIn(<<Comma>> \o json) = RanksIn(json)
  BY <1>1, RanksSilent
<1>6. QED
  BY <1>2, <1>3, <1>4, <1>5

\* The pieces of a text that is copied
LEMMA Pieces ==
  ASSUME NEW json \in Text, NEW k \in {(Len(json) + 1) \div 2, Len(json)}
  PROVE  /\ Len(json) \in Nat /\ k \in Nat /\ k <= Len(json)
         /\ SubSeq(json, 1, k) \in Text /\ Len(SubSeq(json, 1, k)) = k
         /\ SubSeq(json, k + 1, Len(json)) \in Text
         /\ SubSeq(json, 1, k) \o SubSeq(json, k + 1, Len(json)) = json
         /\ k = Len(json) => SubSeq(json, 1, k) = json
<1>1. Len(json) \in Nat /\ json \in Seq(Token) /\ \A i \in 1 .. Len(json) : json[i] \in Token
  BY DEF Text
<1>2. k \in Nat /\ k <= Len(json)
  <2>. DEFINE n == Len(json)
  <2>1. n \in Nat /\ k \in {(n + 1) \div 2, n}
    BY <1>1
  <2>. HIDE DEF n
  <2>2. k \in Nat /\ k <= n
    BY <2>1
  <2>3. QED
    BY <2>2 DEF n
<1>3. SubSeq(json, 1, k) \in Text /\ Len(SubSeq(json, 1, k)) = k
  <2>1. 1 \in Int /\ k \in Int /\ \A i \in 1 .. k : json[i] \in Token
    BY <1>1, <1>2
  <2>2. /\ SubSeq(json, 1, k) \in Seq(Token)
        /\ Len(SubSeq(json, 1, k)) = IF 1 <= k THEN k - 1 + 1 ELSE 0
    BY <2>1, SubSeqProperties
  <2>3. QED
    BY <2>2, <1>2 DEF Text
<1>4. SubSeq(json, k + 1, Len(json)) \in Text
  <2>1. k + 1 \in Int /\ Len(json) \in Int /\ \A i \in k + 1 .. Len(json) : json[i] \in Token
    BY <1>1, <1>2
  <2>2. QED
    BY <2>1, SubSeqProperties DEF Text
<1>5. SubSeq(json, 1, k) \o SubSeq(json, k + 1, Len(json)) = SubSeq(json, 1, Len(json))
  <2>1. /\ 1 \in 1 .. Len(json) + 1 /\ k \in 1 - 1 .. Len(json) /\ Len(json) \in k .. Len(json)
    BY <1>1, <1>2
  <2>2. QED
    BY <1>1, <2>1, ConcatAdjacentSubSeq
<1>6. SubSeq(json, 1, Len(json)) = json
  BY <1>1, SubSeqFull
<1>7. QED
  BY <1>1, <1>2, <1>3, <1>4, <1>5, <1>6

\* What stays typed without a look at the containers and messages
LEMMA TypesOfContext ==
  ASSUME RefreshTypes,
         UNCHANGED <<asked, readings, others, collided, printed, keep_alive>>,
         known' \subseteq known, inbox' \in Seq(MessageType), read' \in Seq(Nat),
         thread' \in Threads, refresh_json' \in Text,
         printing' \in BOOLEAN, mixed' \in BOOLEAN, overrun' \in BOOLEAN,
         thread'.pc \in {"start", "loop"} => thread'.json = <<>>
  PROVE  RefreshTypes'
BY DEF RefreshTypes

\* The flags of the printing and of the buffers
LEMMA FlagsStep ==
  ASSUME RefreshTypes, [Next]_vars
  PROVE  printing' \in BOOLEAN /\ mixed' \in BOOLEAN /\ overrun' \in BOOLEAN
<1>0. printing \in BOOLEAN /\ mixed \in BOOLEAN /\ overrun \in BOOLEAN
  BY DEF RefreshTypes
<1>1. ASSUME NEW c \in Container, Publish(c) \/ \E kind \in {"assert", "other"} : SendOther(c, kind)
      PROVE  UNCHANGED <<printing, mixed, overrun>>
  BY <1>1 DEF Publish, SendOther, line_vars, aux_vars
<1>2. ASSUME StartLoop
      PROVE  printing' \in BOOLEAN /\ mixed' \in BOOLEAN /\ overrun' = overrun
  BY <1>0, <1>2 DEF StartLoop, Exclude, StartPrint, line_vars, aux_vars
<1>3. ASSUME FormatAssert
      PROVE  printing' \in BOOLEAN /\ mixed' \in BOOLEAN /\ overrun' = overrun
  BY <1>3 DEF FormatAssert, StartPrint, aux_vars
<1>4. ASSUME PrintEnds
      PROVE  printing' = FALSE /\ mixed' = mixed /\ overrun' = overrun
  BY <1>4 DEF PrintEnds, aux_vars
<1>5. ASSUME FormatUnknown \/ FormatEnd \/ TestBuffer \/ SeekEnd \/ UNCHANGED vars
      PROVE  UNCHANGED <<printing, mixed, overrun>>
  BY <1>5 DEF FormatUnknown, FormatEnd, TestBuffer, SeekEnd, vars, line_vars, aux_vars
<1>6. ASSUME FormatSection
      PROVE  UNCHANGED <<printing, mixed>> /\ overrun' \in BOOLEAN
  BY <1>6 DEF FormatSection, line_vars
<1>7. ASSUME WriteText
      PROVE  UNCHANGED <<printing, mixed>> /\ overrun' \in BOOLEAN
  BY <1>7 DEF WriteText, line_vars
<1>8. ASSUME PrintTable
      PROVE  printing' \in BOOLEAN /\ mixed' \in BOOLEAN /\ overrun' \in BOOLEAN
  BY <1>8 DEF PrintTable, StartPrint
<1>9. ASSUME Refresh
      PROVE  printing' = printing /\ mixed' \in BOOLEAN /\ overrun' \in BOOLEAN
  <2>1. CASE refresh_json # <<>>
    BY <1>0, <1>9, <2>1 DEF Refresh, PrintWithin
  <2>2. CASE refresh_json = <<>>
    BY <1>0, <1>9, <2>2 DEF Refresh, PrintWithin
  <2>3. QED
    BY <2>1, <2>2
<1>10. QED
  BY <1>0, <1>1, <1>2, <1>3, <1>4, <1>5, <1>6, <1>7, <1>8, <1>9 DEF Next, Loop

LEMMA TypesStep == RefreshTypes /\ [Next]_vars => RefreshTypes'
<1>. SUFFICES ASSUME RefreshTypes, [Next]_vars PROVE RefreshTypes'
  OBVIOUS
<1>f. printing' \in BOOLEAN /\ mixed' \in BOOLEAN /\ overrun' \in BOOLEAN
  BY FlagsStep
<1>0. /\ known \subseteq Container /\ asked \subseteq Sensor /\ inbox \in Seq(MessageType)
      /\ thread \in Threads /\ refresh_json \in Text /\ read \in Seq(Nat) /\ printed \in Seq(Name)
      /\ readings \in 0 .. MaxReadings /\ others \in 0 .. MaxOthers /\ keep_alive \in 0 .. MaxKeepAlive + 1
      /\ thread.pc \in {"start", "loop"} => thread.json = <<>>
  BY DEF RefreshTypes
<1>a. thread.json \in Text /\ thread.at \in Nat
  BY <1>0 DEF Threads
<1>b. <<>> \in Text
  BY Texts
<1>c. MaxKeepAlive \in Nat /\ MaxReadings \in Nat /\ MaxOthers \in Nat
  BY RefreshAssumption
<1>1. ASSUME NEW c \in Container, Publish(c) PROVE RefreshTypes'
  <2>1. readings' = readings + 1 /\ readings < MaxReadings /\ readings' \in 0 .. MaxReadings /\ readings' \in Nat
    BY <1>0, <1>1, <1>c DEF Publish
  <2>2. Message(c, "reading", readings') \in MessageType
    BY <2>1 DEF Message, MessageType
  <2>3. inbox' \in Seq(MessageType) /\ asked' \subseteq Sensor
    BY <1>0, <1>1, <2>2, AppendProperties DEF Publish
  <2>4. QED
    BY <1>f, <1>1, <2>1, <2>3 DEF Publish, RefreshTypes, ctx_vars, aux_vars, line_vars
<1>2. ASSUME NEW c \in Container, NEW kind \in {"assert", "other"}, SendOther(c, kind) PROVE RefreshTypes'
  <2>1. others' = others + 1 /\ others' \in 0 .. MaxOthers
    BY <1>0, <1>2, <1>c DEF SendOther
  <2>2. Message(c, kind, 0) \in MessageType
    BY DEF Message, MessageType
  <2>3. inbox' \in Seq(MessageType)
    BY <1>0, <1>2, <2>2, AppendProperties DEF SendOther
  <2>4. QED
    BY <1>f, <1>2, <2>1, <2>3 DEF SendOther, RefreshTypes, ctx_vars, aux_vars, line_vars
<1>3. CASE StartLoop
  <2>1. known' \subseteq known
    BY <1>3 DEF StartLoop, Exclude, Runs, StartPrint
  <2>2. thread' \in Threads /\ thread'.pc = "format"
    BY <1>3, <1>b, ThreadTypes DEF StartLoop, Runs
  <2>3. QED
    BY <1>0, <1>3, <2>1, <2>2, <1>f, TypesOfContext DEF StartLoop, msg_vars, ctx_vars, aux_vars, line_vars, Runs
<1>4. CASE FormatAssert \/ FormatUnknown
  <2>1. inbox # <<>> /\ inbox' = Tail(inbox) /\ UNCHANGED <<known, asked, readings, others, thread, ctx_vars, aux_vars>>
    BY <1>4 DEF FormatAssert, FormatUnknown, Runs, StartPrint
  <2>2. inbox' \in Seq(MessageType)
    BY <1>0, <2>1, TailOfMessages
  <2>3. QED
    BY <1>0, <2>1, <2>2, <1>f, TypesOfContext DEF ctx_vars, aux_vars, line_vars
<1>5. CASE FormatSection
  <2>1. PICK c \in Container, msgs \in Seq(MessageType) :
           /\ inbox' \in Seq(MessageType)
           /\ thread' = [thread EXCEPT !.json = @ \o Section(c, msgs)]
           /\ read' = read \o Readings(msgs)
    BY <1>5, SectionFormatted
  <2>2. Section(c, msgs) \in Text /\ Readings(msgs) \in Seq(Nat)
    BY SectionRanks, BodyRanks
  <2>3. thread.json \o Section(c, msgs) \in Text /\ read' \in Seq(Nat)
    BY <1>0, <1>a, <2>1, <2>2, ConcatProperties DEF Text
  <2>4. thread' \in Threads /\ thread'.pc = "format"
    BY <1>0, <1>5, <2>1, <2>3 DEF Threads, FormatSection, Runs
  <2>5. QED
    BY <1>0, <1>5, <2>1, <2>3, <2>4, <1>f, TypesOfContext DEF FormatSection, ctx_vars, line_vars, Runs
<1>6. CASE FormatEnd
  <2>1. thread' \in Threads /\ (thread'.pc \in {"start", "loop"} => thread'.json = <<>>)
    <3>1. CASE thread.json = <<>>
      BY <1>6, <1>b, <3>1, ThreadTypes DEF FormatEnd, Runs
    <3>2. CASE thread.json # <<>>
      <4>1. TrimComma(thread.json) \o <<Close>> \in Text
        BY <1>a, <3>2, ClosedType
      <4>2. thread' = At("test", TrimComma(thread.json) \o <<Close>>)
        BY <1>6, <3>2 DEF FormatEnd, Runs
      <4>3. thread' \in Threads /\ thread'.pc = "test"
        BY <4>1, <4>2, ThreadTypes
      <4>4. QED
        BY <4>3
    <3>3. QED
      BY <3>1, <3>2
  <2>2. QED
    BY <1>0, <1>6, <2>1, <1>f, TypesOfContext DEF FormatEnd, msg_vars, ctx_vars, aux_vars, line_vars, Runs
<1>7. CASE TestBuffer
  <2>1. <<Open, Key("containers")>> \o thread.json \in Text /\ <<Comma>> \o thread.json \in Text
    BY <1>a, PrefixType
  <2>2. thread' \in Threads /\ thread'.pc \in {"write", "seek"}
    <3>1. CASE refresh_json = <<>>
      <4>1. thread' = At("write", <<Open, Key("containers")>> \o thread.json)
        BY <1>7, <3>1 DEF TestBuffer, Runs
      <4>2. QED
        BY <4>1, <2>1, ThreadTypes
    <3>2. CASE refresh_json # <<>>
      <4>1. thread' = At("seek", <<Comma>> \o thread.json)
        BY <1>7, <3>2 DEF TestBuffer, Runs
      <4>2. QED
        BY <4>1, <2>1, ThreadTypes
    <3>3. QED
      BY <3>1, <3>2
  <2>3. QED
    BY <1>0, <1>7, <2>2, <1>f, TypesOfContext DEF TestBuffer, msg_vars, ctx_vars, aux_vars, line_vars, Runs
<1>8. CASE SeekEnd
  <2>1. Len(refresh_json) \in Nat
    BY <1>0 DEF Text
  <2>2. thread' \in Threads /\ thread'.pc = "write"
    BY <1>0, <1>8, <2>1 DEF SeekEnd, Threads, Runs
  <2>3. QED
    BY <1>0, <1>8, <2>2, <1>f, TypesOfContext DEF SeekEnd, msg_vars, ctx_vars, aux_vars, line_vars, Runs
<1>9. CASE WriteText
  <2>1. PICK k \in {(Len(thread.json) + 1) \div 2, Len(thread.json)} :
       /\ refresh_json' = IF thread.at = Len(refresh_json)
                          THEN refresh_json \o SubSeq(thread.json, 1, k)
                          ELSE refresh_json
       /\ thread' = IF k = Len(thread.json) THEN At("loop", <<>>)
                    ELSE [thread EXCEPT !.json = SubSeq(@, k + 1, Len(@)), !.at = @ + k]
    BY <1>9 DEF WriteText, Runs, line_vars
  <2>2. /\ k \in Nat /\ SubSeq(thread.json, 1, k) \in Text
        /\ SubSeq(thread.json, k + 1, Len(thread.json)) \in Text
    BY <1>a, Pieces
  <2>3. refresh_json' \in Text
    <3>1. refresh_json \o SubSeq(thread.json, 1, k) \in Text
      BY <1>0, <2>2, ConcatProperties DEF Text
    <3>2. QED
      BY <1>0, <2>1, <3>1
  <2>4. thread' \in Threads /\ (thread'.pc \in {"start", "loop"} => thread'.json = <<>>)
    <3>1. CASE k = Len(thread.json)
      BY <1>b, <2>1, <3>1, ThreadTypes
    <3>2. CASE k # Len(thread.json)
      <4>1. thread.pc = "write" /\ thread.at + k \in Nat
        BY <1>9, <1>a, <2>2 DEF WriteText, Runs, line_vars
      <4>2. thread' = [thread EXCEPT !.json = SubSeq(@, k + 1, Len(@)), !.at = @ + k]
        BY <2>1, <3>2
      <4>3. thread' \in Threads /\ thread'.pc = "write"
        BY <1>0, <2>2, <4>1, <4>2 DEF Threads
      <4>4. QED
        BY <4>3
    <3>3. QED
      BY <3>1, <3>2
  <2>5. QED
    BY <1>0, <1>9, <2>3, <2>4, <1>f, TypesOfContext DEF WriteText, msg_vars, aux_vars, Runs, line_vars
<1>10. CASE PrintTable
  <2>1. thread' \in Threads /\ thread'.json = <<>>
    BY <1>10, <1>b, ThreadTypes DEF PrintTable
  <2>2. QED
    BY <1>0, <1>10, <1>f, <2>1, TypesOfContext DEF PrintTable, msg_vars, ctx_vars, aux_vars, line_vars, Runs, StartPrint
<1>11. CASE Refresh
  <2>1. asked' \subseteq Sensor /\ collided' \in BOOLEAN /\ refresh_json' \in Text
    BY <1>11, <1>b DEF Refresh, Collect, PrintWithin
  <2>2. keep_alive' \in 0 .. MaxKeepAlive + 1
    <3>1. CASE refresh_json # <<>>
      BY <1>11, <1>c, <3>1 DEF Refresh, PrintWithin
    <3>2. CASE refresh_json = <<>> /\ LongQuiet
      BY <1>0, <1>11, <3>2 DEF Refresh, PrintWithin
    <3>3. CASE refresh_json = <<>> /\ ~LongQuiet
      BY <1>0, <1>c, <1>11, <3>3 DEF Refresh, LongQuiet, PrintWithin
    <3>4. QED
      BY <3>1, <3>2, <3>3
  <2>3. printed' \in Seq(Name)
    <3>1. CASE refresh_json # <<>>
      <4>1. RanksIn(refresh_json) \in Seq(Name)
        BY <1>0, RanksType
      <4>2. printed' = printed \o RanksIn(refresh_json)
        BY <1>11, <3>1 DEF Refresh, PrintWithin
      <4>3. QED
        BY <1>0, <4>1, <4>2, ConcatProperties
    <3>2. CASE refresh_json = <<>>
      BY <1>0, <1>11, <3>2 DEF Refresh, PrintWithin
    <3>3. QED
      BY <3>1, <3>2
  <2>4. UNCHANGED <<known, inbox, thread, read, readings, others>>
    BY <1>11 DEF Refresh, PrintWithin
  <2>5. QED
    BY <1>f, <1>0, <2>1, <2>2, <2>3, <2>4 DEF RefreshTypes
<1>12. CASE PrintEnds \/ UNCHANGED vars
  BY <1>f, <1>12 DEF PrintEnds, vars, msg_vars, ctx_vars, aux_vars, RefreshTypes, line_vars
<1>13. QED
  BY <1>1, <1>2, <1>3, <1>4, <1>5, <1>6, <1>7, <1>8, <1>9, <1>10, <1>11, <1>12 DEF Next, Loop

LEMMA TypesAlways == Spec => []RefreshTypes
BY TypesInit, TypesStep, PTL DEF Spec

\* The state of the refresh keeps its types; the keep-alive counter of
\* Gate_TimerEventHandler stops behind its maximum.
THEOREM RefreshTypeCorrect == Spec => []RefreshTypeOK
BY TypesAlways, TypesImply, PTL

-----------------------------------------------------------------------------
\* Readings are kept

\* The readings that were printed, are in the buffer, and are in the text of the
\* loop
Together == (printed \o RanksIn(refresh_json)) \o RanksIn(thread.json)

\* The ranks of readings in the inbox are distinct, and new to those taken.
ReadingsNew ==
  /\ Distinct(inbox) /\ NotYet(inbox, read, readings)
  /\ \A j \in DOMAIN read : read[j] <= readings
  /\ IsInjective(read)

\* Without a collision, they are those taken from the inbox, and the loop writes
\* at the end of the buffer.
InPlace ==
  \/ collided
  \/ /\ Together = read
     /\ thread.pc = "write" => thread.at = Len(refresh_json)

KeptInv == RefreshTypes /\ ReadingsNew /\ InPlace

LEMMA NamesAssociative ==
  ASSUME NEW s \in Seq(Name), NEW t \in Seq(Name), NEW u \in Seq(Name)
  PROVE  (s \o t) \o u = s \o (t \o u)
BY ConcatAssociative

LEMMA KeptImplies == KeptInv => ReadingsKept
BY DEF KeptInv, ReadingsNew, InPlace, Together, ReadingsKept

LEMMA KeptInit == Init => KeptInv
<1>. SUFFICES ASSUME Init PROVE KeptInv
  OBVIOUS
<1>1. inbox = <<>> /\ read = <<>> /\ printed = <<>> /\ refresh_json = <<>> /\ thread.json = <<>> /\ thread.pc = "start"
  BY DEF Init, At
<1>2. ReadingsNew
  BY <1>1 DEF ReadingsNew, Distinct, NotYet, IsInjective
<1>3. Together = read
  <2>1. (<<>> \o <<>>) \o <<>> = <<>>
    OBVIOUS
  <2>2. QED
    BY <1>1, <2>1, RanksEmpty DEF Together
<1>4. QED
  BY <1>1, <1>2, <1>3, TypesInit DEF KeptInv, InPlace

\* Readings are taken from new messages.
LEMMA NewAreTaken ==
  ASSUME NEW from \in Seq(MessageType), NEW msgs \in Seq(MessageType), NEW left \in Seq(MessageType),
         NEW done \in Seq(Nat), NEW count \in Nat, NEW c,
         Taken(msgs, from), Taken(left, from), Distinct(from), NotYet(from, done, count),
         \A j \in DOMAIN done : done[j] <= count, IsInjective(done),
         \A k \in DOMAIN msgs : msgs[k].source = c,
         \A k \in DOMAIN left : left[k].source # c
  PROVE  /\ Distinct(left) /\ NotYet(left, done \o Readings(msgs), count)
         /\ \A j \in DOMAIN (done \o Readings(msgs)) : (done \o Readings(msgs))[j] <= count
         /\ IsInjective(done \o Readings(msgs))
<1>. DEFINE new == Readings(msgs)
            all == done \o new
<1>1. /\ Distinct(msgs) /\ NotYet(msgs, done, count)
      /\ Distinct(left) /\ NotYet(left, done, count)
  BY TakenStaysNew
<1>2. new \in Seq(Nat) /\ FromFirst(msgs, Len(msgs), new)
  BY <1>1, BodyRanks, ReadingsInjective
<1>3. DOMAIN msgs = 1 .. Len(msgs)
  OBVIOUS
<1>. HIDE DEF new
<1>4. /\ IsInjective(new)
      /\ \A j \in DOMAIN new : \E i \in DOMAIN msgs : Reports(msgs, i) /\ msgs[i].rank = new[j]
  BY <1>2, <1>3 DEF FromFirst
<1>5. /\ Len(done) \in Nat /\ DOMAIN done = 1 .. Len(done) /\ Len(new) \in Nat /\ DOMAIN new = 1 .. Len(new)
      /\ all \in Seq(Nat) /\ Len(all) = Len(done) + Len(new) /\ DOMAIN all = 1 .. Len(done) + Len(new)
      /\ \A i \in 1 .. Len(done) + Len(new) : all[i] = IF i <= Len(done) THEN done[i] ELSE new[i - Len(done)]
  BY <1>2, ConcatProperties
<1>. HIDE DEF all
<1>6. ASSUME NEW j \in DOMAIN all
      PROVE  (j \in DOMAIN done /\ all[j] = done[j])
             \/ (j - Len(done) \in DOMAIN new /\ j > Len(done) /\ all[j] = new[j - Len(done)])
  <2>1. CASE j <= Len(done)
    BY <1>5, <2>1
  <2>2. CASE ~(j <= Len(done))
    BY <1>5, <2>2, SMTT(30)
  <2>3. QED
    BY <2>1, <2>2
<1>7. \A j \in DOMAIN new : new[j] <= count /\ \A k \in DOMAIN done : done[k] # new[j]
  <2>1. TAKE j \in DOMAIN new
  <2>2. PICK i \in DOMAIN msgs : Reports(msgs, i) /\ msgs[i].rank = new[j]
    BY <1>4
  <2>3. QED
    BY <1>1, <2>2 DEF NotYet
<1>8. \A j \in DOMAIN all : all[j] <= count
  BY <1>6, <1>7
<1>9. IsInjective(all)
  <2>1. SUFFICES ASSUME NEW a \in DOMAIN all, NEW b \in DOMAIN all, all[a] = all[b] PROVE a = b
    BY DEF IsInjective
  <2>2. CASE a \in DOMAIN done /\ all[a] = done[a] /\ b \in DOMAIN done /\ all[b] = done[b]
    BY <2>1, <2>2 DEF IsInjective
  <2>3. CASE /\ a - Len(done) \in DOMAIN new /\ all[a] = new[a - Len(done)]
             /\ b - Len(done) \in DOMAIN new /\ all[b] = new[b - Len(done)]
    <3>1. a - Len(done) = b - Len(done)
      BY <2>1, <2>3, <1>4 DEF IsInjective
    <3>2. a \in Int /\ b \in Int /\ Len(done) \in Int
      BY <1>5
    <3>3. QED
      BY <3>1, <3>2
  <2>4. QED
    BY <1>6, <1>7, <2>1, <2>2, <2>3
<1>10. NotYet(left, all, count)
  <2>1. SUFFICES ASSUME NEW i \in DOMAIN left, Reports(left, i)
                 PROVE  left[i].rank <= count /\ \A j \in DOMAIN all : all[j] # left[i].rank
    BY DEF NotYet
  <2>2. left[i].rank <= count /\ \A j \in DOMAIN done : done[j] # left[i].rank
    BY <1>1, <2>1 DEF NotYet
  <2>3. \A j \in DOMAIN new : new[j] # left[i].rank
    <3>1. SUFFICES ASSUME NEW j \in DOMAIN new, new[j] = left[i].rank PROVE FALSE
      OBVIOUS
    <3>2. PICK k \in DOMAIN msgs : Reports(msgs, k) /\ msgs[k].rank = new[j]
      BY <1>4
    <3>3. PICK p \in [DOMAIN msgs -> DOMAIN from] : \A x \in DOMAIN msgs : msgs[x] = from[p[x]]
      BY DEF Taken
    <3>4. PICK q \in [DOMAIN left -> DOMAIN from] : \A x \in DOMAIN left : left[x] = from[q[x]]
      BY DEF Taken
    <3>5. /\ p[k] \in DOMAIN from /\ q[i] \in DOMAIN from
          /\ msgs[k] = from[p[k]] /\ left[i] = from[q[i]]
      BY <3>3, <3>4
    <3>6. Reports(from, p[k]) /\ Reports(from, q[i]) /\ from[p[k]].rank = from[q[i]].rank
      BY <3>1, <3>2, <3>5, <2>1 DEF Reports
    <3>7. p[k] = q[i]
      BY <3>5, <3>6 DEF Distinct
    <3>8. msgs[k] = left[i]
      BY <3>5, <3>7
    <3>9. QED
      BY <3>8
  <2>4. QED
    BY <2>2, <2>3, <1>6
<1>11. QED
  BY <1>1, <1>8, <1>9, <1>10 DEF all, new

LEMMA NewStep == RefreshTypes /\ ReadingsNew /\ [Next]_vars => ReadingsNew'
<1>. SUFFICES ASSUME RefreshTypes, ReadingsNew, [Next]_vars PROVE ReadingsNew'
  OBVIOUS
<1>0. /\ inbox \in Seq(MessageType) /\ read \in Seq(Nat) /\ readings \in Nat
      /\ Distinct(inbox) /\ NotYet(inbox, read, readings)
      /\ \A j \in DOMAIN read : read[j] <= readings /\ read[j] \in Nat
      /\ IsInjective(read)
  BY RefreshAssumption, SMTT(30) DEF RefreshTypes, ReadingsNew
<1>1. CASE UNCHANGED <<inbox, read, readings>>
  BY <1>1 DEF ReadingsNew
<1>2. ASSUME NEW msg \in MessageType, inbox' = Append(inbox, msg), UNCHANGED read,
             readings' \in Nat, readings' >= readings,
             msg.kind = "reading" => msg.rank = readings' /\ readings' = readings + 1
      PROVE  ReadingsNew'
  <2>1. /\ Len(inbox) \in Nat /\ DOMAIN inbox = 1 .. Len(inbox) /\ DOMAIN inbox' = 1 .. Len(inbox) + 1
        /\ inbox'[Len(inbox) + 1] = msg /\ \A i \in 1 .. Len(inbox) : inbox'[i] = inbox[i]
    BY <1>0, <1>2
  <2>2. \A i \in DOMAIN inbox : Reports(inbox, i) => inbox[i].rank \in Nat /\ inbox[i].rank <= readings
    <3>1. \A i \in DOMAIN inbox : inbox[i] \in MessageType
      BY <1>0
    <3>2. QED
      BY <1>0, <3>1 DEF NotYet, MessageType
  <2>3. Distinct(inbox')
    <3>1. SUFFICES ASSUME NEW i \in DOMAIN inbox', NEW j \in DOMAIN inbox',
                          Reports(inbox', i), Reports(inbox', j), inbox'[i].rank = inbox'[j].rank, i # j
                   PROVE  FALSE
      BY DEF Distinct
    <3>2. CASE i \in DOMAIN inbox /\ j \in DOMAIN inbox
      <4>1. Reports(inbox, i) /\ Reports(inbox, j) /\ inbox[i].rank = inbox[j].rank
        BY <2>1, <3>1, <3>2 DEF Reports
      <4>2. QED
        BY <1>0, <3>1, <3>2, <4>1 DEF Distinct
    <3>3. CASE i = Len(inbox) + 1 /\ j \in DOMAIN inbox
      <4>1. Reports(inbox, j) /\ inbox[j].rank = readings + 1
        BY <1>2, <2>1, <3>1, <3>3 DEF Reports
      <4>2. QED
        BY <1>0, <2>2, <3>3, <4>1
    <3>4. CASE j = Len(inbox) + 1 /\ i \in DOMAIN inbox
      <4>1. Reports(inbox, i) /\ inbox[i].rank = readings + 1
        BY <1>2, <2>1, <3>1, <3>4 DEF Reports
      <4>2. QED
        BY <1>0, <2>2, <3>4, <4>1
    <3>5. QED
      BY <2>1, <3>1, <3>2, <3>3, <3>4
  <2>4. NotYet(inbox', read, readings')
    <3>1. SUFFICES ASSUME NEW i \in DOMAIN inbox', Reports(inbox', i)
                   PROVE  inbox'[i].rank <= readings' /\ \A j \in DOMAIN read : read[j] # inbox'[i].rank
      BY DEF NotYet
    <3>2. CASE i \in DOMAIN inbox
      <4>1. Reports(inbox, i) /\ inbox'[i] = inbox[i]
        BY <2>1, <3>1, <3>2 DEF Reports
      <4>2. inbox[i].rank <= readings /\ inbox[i].rank \in Nat /\ \A j \in DOMAIN read : read[j] # inbox[i].rank
        BY <1>0, <2>2, <3>2, <4>1 DEF NotYet
      <4>3. QED
        BY <1>0, <1>2, <4>1, <4>2
    <3>3. CASE i = Len(inbox) + 1
      <4>1. inbox'[i].rank = readings' /\ readings' = readings + 1
        BY <1>2, <2>1, <3>1, <3>3 DEF Reports
      <4>2. QED
        BY <1>0, <4>1
    <3>4. QED
      BY <2>1, <3>2, <3>3
  <2>5. \A j \in DOMAIN read : read[j] <= readings'
    BY <1>0, <1>2
  <2>6. QED
    BY <1>0, <1>2, <2>3, <2>4, <2>5 DEF ReadingsNew
<1>3. ASSUME NEW c \in Container, Publish(c) PROVE ReadingsNew'
  <2>1. readings' = readings + 1 /\ readings' \in Nat
    BY <1>0, <1>3 DEF Publish
  <2>. DEFINE msg == Message(c, "reading", readings')
  <2>2. msg \in MessageType /\ msg.rank = readings'
    BY <2>1 DEF Message, MessageType
  <2>3. inbox' = Append(inbox, msg) /\ UNCHANGED read
    BY <1>3 DEF Publish, aux_vars
  <2>4. readings' >= readings
    BY <1>0, <2>1
  <2>. HIDE DEF msg
  <2>5. QED
    BY <1>2, <2>1, <2>2, <2>3, <2>4
<1>4. ASSUME NEW c \in Container, NEW kind \in {"assert", "other"}, SendOther(c, kind) PROVE ReadingsNew'
  <2>. DEFINE msg == Message(c, kind, 0)
  <2>1. msg \in MessageType /\ msg.kind # "reading"
    BY DEF Message, MessageType
  <2>2. inbox' = Append(inbox, msg) /\ UNCHANGED read /\ readings' = readings
    BY <1>4 DEF SendOther, aux_vars
  <2>3. readings' \in Nat /\ readings' >= readings
    BY <1>0, <2>2
  <2>. HIDE DEF msg
  <2>4. QED
    BY <1>2, <2>1, <2>2, <2>3
<1>5. CASE FormatAssert \/ FormatUnknown
  <2>1. inbox # <<>> /\ inbox' = Tail(inbox) /\ UNCHANGED <<read, readings>>
    BY <1>5 DEF FormatAssert, FormatUnknown, aux_vars, Runs, StartPrint
  <2>2. Distinct(inbox') /\ NotYet(inbox', read, readings)
    BY <1>0, <2>1, TailOfMessages, TakenStaysNew
  <2>3. QED
    BY <1>0, <2>1, <2>2 DEF ReadingsNew
<1>6. CASE FormatSection
  <2>1. PICK c \in Container, msgs \in Seq(MessageType) :
           /\ Taken(msgs, inbox) /\ Taken(inbox', inbox) /\ inbox' \in Seq(MessageType)
           /\ \A k \in DOMAIN msgs : msgs[k].source = c
           /\ \A k \in DOMAIN inbox' : inbox'[k].source # c
           /\ read' = read \o Readings(msgs)
    BY <1>6, SectionFormatted
  <2>2. readings' = readings
    BY <1>6 DEF FormatSection, Runs
  <2>3. /\ Distinct(inbox') /\ NotYet(inbox', read \o Readings(msgs), readings)
        /\ \A j \in DOMAIN (read \o Readings(msgs)) : (read \o Readings(msgs))[j] <= readings
        /\ IsInjective(read \o Readings(msgs))
    BY <1>0, <2>1, NewAreTaken
  <2>4. QED
    BY <2>1, <2>2, <2>3 DEF ReadingsNew
<1>7. CASE StartLoop \/ FormatEnd \/ TestBuffer \/ SeekEnd \/ WriteText \/ PrintTable \/ Refresh \/ PrintEnds \/ UNCHANGED vars
  BY <1>1, <1>7 DEF PrintEnds, StartLoop, FormatEnd, TestBuffer, SeekEnd, WriteText, PrintTable, Refresh, vars, msg_vars, aux_vars, Runs, StartPrint, PrintWithin, line_vars
<1>8. QED
  BY <1>3, <1>4, <1>5, <1>6, <1>7 DEF Next, Loop

LEMMA InPlaceStep == RefreshTypes /\ InPlace /\ [Next]_vars => InPlace'
<1>. SUFFICES ASSUME RefreshTypes, InPlace, [Next]_vars PROVE InPlace'
  OBVIOUS
<1>0. /\ thread \in Threads /\ refresh_json \in Text /\ thread.json \in Text /\ printed \in Seq(Name)
      /\ RanksIn(refresh_json) \in Seq(Name) /\ RanksIn(thread.json) \in Seq(Name)
      /\ Len(refresh_json) \in Nat /\ thread.at \in Nat
      /\ thread.pc \in {"start", "loop"} => thread.json = <<>>
  <2>1. thread \in Threads /\ refresh_json \in Text /\ printed \in Seq(Name) /\ (thread.pc \in {"start", "loop"} => thread.json = <<>>)
    BY DEF RefreshTypes
  <2>2. thread.json \in Text /\ thread.at \in Nat
    BY <2>1 DEF Threads
  <2>3. QED
    BY <2>1, <2>2, RanksType DEF Text
<1>. DEFINE before == printed \o RanksIn(refresh_json)
<1>a. before \in Seq(Name)
  BY <1>0, ConcatProperties
<1>1. CASE collided'
  BY <1>1 DEF InPlace
<1>2. ASSUME ~collided' PROVE ~collided
  BY <1>2 DEF Next, Loop, vars, msg_vars, ctx_vars, aux_vars, Publish, SendOther, StartLoop, FormatAssert,
     FormatUnknown, FormatSection, FormatEnd, TestBuffer, SeekEnd, WriteText, PrintTable, Refresh, line_vars, Runs, StartPrint, PrintWithin, Exclude, PrintEnds
<1>3. CASE ~collided'
  <2>0. /\ before \o RanksIn(thread.json) = read
        /\ thread.pc = "write" => thread.at = Len(refresh_json)
    BY <1>2, <1>3 DEF InPlace, Together
  <2>1. CASE UNCHANGED <<thread, refresh_json, printed, read>>
    BY <2>0, <2>1 DEF InPlace, Together
  <2>2. ASSUME UNCHANGED <<refresh_json, printed, read>>, RanksIn(thread'.json) = RanksIn(thread.json),
               thread'.pc = "write" => thread'.at = Len(refresh_json)
        PROVE  InPlace'
    BY <2>0, <2>2 DEF InPlace, Together
  <2>3. CASE StartLoop
    <3>1. thread' = At("format", <<>>) /\ thread.json = <<>> /\ UNCHANGED <<refresh_json, printed, read>>
      BY <1>0, <2>3 DEF StartLoop, ctx_vars, aux_vars, line_vars, Runs
    <3>2. thread'.json = <<>> /\ thread'.pc = "format"
      BY <3>1 DEF At
    <3>3. QED
      BY <2>2, <3>1, <3>2
  <2>4. CASE FormatSection
    <3>1. PICK c \in Container, msgs \in Seq(MessageType) :
             /\ thread' = [thread EXCEPT !.json = @ \o Section(c, msgs)]
             /\ read' = read \o Readings(msgs)
      BY <2>4, SectionFormatted
    <3>2. thread'.json = thread.json \o Section(c, msgs) /\ thread'.pc = "format"
      BY <1>0, <2>4, <3>1 DEF Threads, FormatSection, Runs
    <3>3. /\ Section(c, msgs) \in Text /\ RanksIn(Section(c, msgs)) = Readings(msgs)
          /\ Readings(msgs) \in Seq(Nat)
      BY SectionRanks, BodyRanks
    <3>4. RanksIn(thread'.json) = RanksIn(thread.json) \o Readings(msgs)
      BY <1>0, <3>2, <3>3, RanksConcat
    <3>5. Readings(msgs) \in Seq(Name)
      BY <3>3, RanksType
    <3>6. before \o (RanksIn(thread.json) \o Readings(msgs)) = (before \o RanksIn(thread.json)) \o Readings(msgs)
      <4>. DEFINE x == RanksIn(thread.json)
                  y == Readings(msgs)
      <4>1. x \in Seq(Name) /\ y \in Seq(Name)
        BY <1>0, <3>5
      <4>. HIDE DEF x, y, before
      <4>2. QED
        BY <1>a, <4>1, NamesAssociative, SMTT(30)
    <3>7. before' = before
      BY <2>4 DEF FormatSection, ctx_vars, line_vars, Runs
    <3>. HIDE DEF before
    <3>8. before' \o RanksIn(thread'.json) = read'
      BY <2>0, <3>1, <3>4, <3>6, <3>7
    <3>9. QED
      BY <3>2, <3>8 DEF InPlace, Together, before
  <2>5. CASE FormatEnd
    <3>0. UNCHANGED <<refresh_json, printed, read>>
      BY <2>5 DEF FormatEnd, ctx_vars, aux_vars, line_vars, Runs
    <3>1. CASE thread.json = <<>>
      <4>1. thread' = At("loop", <<>>)
        BY <2>5, <3>1 DEF FormatEnd, Runs
      <4>2. thread'.json = <<>> /\ thread'.pc = "loop"
        BY <4>1 DEF At
      <4>3. QED
        BY <2>2, <3>0, <3>1, <4>2
    <3>2. CASE thread.json # <<>>
      <4>1. thread' = At("test", TrimComma(thread.json) \o <<Close>>)
        BY <2>5, <3>2 DEF FormatEnd, Runs
      <4>2. thread'.json = TrimComma(thread.json) \o <<Close>> /\ thread'.pc = "test"
        BY <4>1 DEF At
      <4>3. RanksIn(TrimComma(thread.json) \o <<Close>>) = RanksIn(thread.json)
        BY <1>0, <3>2, ClosedType
      <4>4. QED
        BY <2>2, <3>0, <4>2, <4>3
    <3>3. QED
      BY <3>1, <3>2
  <2>6. CASE TestBuffer
    <3>0. UNCHANGED <<refresh_json, printed, read>>
      BY <2>6 DEF TestBuffer, ctx_vars, aux_vars, line_vars, Runs
    <3>a. /\ RanksIn(<<Open, Key("containers")>> \o thread.json) = RanksIn(thread.json)
          /\ RanksIn(<<Comma>> \o thread.json) = RanksIn(thread.json)
      BY <1>0, PrefixType
    <3>1. CASE refresh_json = <<>>
      <4>1. thread' = At("write", <<Open, Key("containers")>> \o thread.json)
        BY <2>6, <3>1 DEF TestBuffer, Runs
      <4>2. thread'.json = <<Open, Key("containers")>> \o thread.json /\ thread'.at = 0
        BY <4>1 DEF At
      <4>3. Len(refresh_json) = 0
        BY <3>1
      <4>4. QED
        BY <2>2, <3>0, <3>a, <4>2, <4>3
    <3>2. CASE refresh_json # <<>>
      <4>1. thread' = At("seek", <<Comma>> \o thread.json)
        BY <2>6, <3>2 DEF TestBuffer, Runs
      <4>2. thread'.json = <<Comma>> \o thread.json /\ thread'.pc = "seek"
        BY <4>1 DEF At
      <4>3. QED
        BY <2>2, <3>0, <3>a, <4>2
    <3>3. QED
      BY <3>1, <3>2
  <2>7. CASE SeekEnd
    <3>1. UNCHANGED <<refresh_json, printed, read>>
      BY <2>7 DEF SeekEnd, ctx_vars, aux_vars, line_vars, Runs
    <3>2. thread'.json = thread.json /\ thread'.at = Len(refresh_json)
      BY <1>0, <2>7 DEF SeekEnd, Threads, Runs
    <3>3. QED
      BY <2>2, <3>1, <3>2
  <2>8. CASE WriteText
    <3>1. PICK k \in {(Len(thread.json) + 1) \div 2, Len(thread.json)} :
         /\ refresh_json' = IF thread.at = Len(refresh_json)
                            THEN refresh_json \o SubSeq(thread.json, 1, k)
                            ELSE refresh_json
         /\ thread' = IF k = Len(thread.json) THEN At("loop", <<>>)
                      ELSE [thread EXCEPT !.json = SubSeq(@, k + 1, Len(@)), !.at = @ + k]
      BY <2>8 DEF WriteText, Runs, line_vars
    <3>. DEFINE one == SubSeq(thread.json, 1, k)
                two == SubSeq(thread.json, k + 1, Len(thread.json))
    <3>2. /\ k \in Nat /\ one \in Text /\ Len(one) = k /\ two \in Text /\ one \o two = thread.json
          /\ k = Len(thread.json) => one = thread.json
      <4>1. thread.json \in Text
        BY <1>0
      <4>2. QED
        BY <4>1, Pieces
    <3>3. thread.pc = "write" /\ UNCHANGED <<printed, read>>
      BY <2>8 DEF WriteText, aux_vars, Runs, line_vars
    <3>4. refresh_json' = refresh_json \o one
      BY <2>0, <3>1, <3>3
    <3>5. thread' = IF k = Len(thread.json) THEN At("loop", <<>>)
                    ELSE [thread EXCEPT !.json = two, !.at = @ + k]
      BY <3>1
    <3>. HIDE DEF one, two
    <3>6. RanksIn(refresh_json') = RanksIn(refresh_json) \o RanksIn(one) /\ RanksIn(one) \in Seq(Name)
      BY <1>0, <3>2, <3>4, RanksConcat, RanksType
    <3>7. Len(refresh_json') = Len(refresh_json) + k
      BY <1>0, <3>2, <3>4, ConcatProperties DEF Text
    <3>. DEFINE a == printed
                b == RanksIn(refresh_json)
                c == RanksIn(one)
    <3>8. a \in Seq(Name) /\ b \in Seq(Name) /\ c \in Seq(Name)
      BY <1>0, <3>6
    <3>9. a \o (b \o c) = before \o c
      <4>1. before = a \o b
        OBVIOUS
      <4>. HIDE DEF a, b, c, before
      <4>2. QED
        BY <3>8, <4>1, NamesAssociative
    <3>10. printed' \o RanksIn(refresh_json') = before \o c
      <4>1. printed' = a /\ RanksIn(refresh_json') = b \o c
        BY <3>3, <3>6
      <4>. HIDE DEF a, b, c, before
      <4>2. QED
        BY <3>9, <4>1
    <3>11. CASE k = Len(thread.json)
      <4>1. thread'.json = <<>> /\ thread'.pc = "loop"
        BY <3>5, <3>11 DEF At
      <4>2. one = thread.json
        BY <3>2, <3>11
      <4>3. before \o c = read
        BY <2>0, <4>2
      <4>4. read \in Seq(Name)
        BY <1>a, <3>8, <4>3, ConcatProperties
      <4>5. (before \o c) \o RanksIn(<<>>) = read
        <5>1. read \o <<>> = read
          BY <4>4, ConcatEmptySeq
        <5>2. QED
          BY <4>3, <5>1, RanksEmpty
      <4>6. Together' = (before \o c) \o RanksIn(<<>>)
        BY <3>10, <4>1 DEF Together
      <4>7. QED
        BY <3>3, <4>1, <4>5, <4>6 DEF InPlace
    <3>12. CASE k # Len(thread.json)
      <4>1. thread'.json = two /\ thread'.at = thread.at + k
        BY <1>0, <3>5, <3>12 DEF Threads
      <4>2. RanksIn(thread.json) = c \o RanksIn(two) /\ RanksIn(two) \in Seq(Name)
        BY <3>2, RanksConcat, RanksType
      <4>. DEFINE d == RanksIn(two)
      <4>3. (before \o c) \o d = before \o (c \o d)
        <5>1. d \in Seq(Name)
          BY <4>2
        <5>. HIDE DEF a, b, c, d, before
        <5>2. QED
          BY <1>a, <3>8, <5>1, NamesAssociative, ZenonT(30)
      <4>4. Together' = (before \o c) \o d
        BY <3>10, <4>1 DEF Together
      <4>5. Together' = read
        <5>1. RanksIn(thread.json) = c \o d
          BY <4>2
        <5>. HIDE DEF a, b, c, d, before
        <5>2. QED
          BY <2>0, <4>3, <4>4, <5>1
      <4>6. thread'.at = Len(refresh_json')
        BY <2>0, <3>3, <3>7, <4>1
      <4>7. QED
        BY <3>3, <4>5, <4>6 DEF InPlace
    <3>13. QED
      BY <3>11, <3>12
  <2>9. CASE Refresh
    <3>1. UNCHANGED <<thread, read>> /\ refresh_json' = <<>>
      BY <2>9 DEF Refresh, PrintWithin
    <3>2. CASE refresh_json = <<>>
      <4>1. printed' = printed /\ refresh_json' = refresh_json
        BY <2>9, <3>2 DEF Refresh, PrintWithin
      <4>2. QED
        BY <2>1, <3>1, <4>1
    <3>3. CASE refresh_json # <<>>
      <4>1. thread.pc # "write" /\ printed' = before
        BY <1>3, <2>9, <3>3 DEF Refresh, PrintWithin
      <4>2. printed' \o RanksIn(refresh_json') = before
        <5>1. before \o <<>> = before
          BY <1>a, ConcatEmptySeq
        <5>2. QED
          BY <3>1, <4>1, <5>1, RanksEmpty
      <4>3. Together' = before \o RanksIn(thread.json)
        BY <3>1, <4>2 DEF Together
      <4>4. QED
        BY <2>0, <3>1, <4>1, <4>3 DEF InPlace
    <3>4. QED
      BY <3>2, <3>3
  <2>10. ASSUME NEW c \in Container, Publish(c) PROVE InPlace'
    BY <2>1, <2>10 DEF Publish, ctx_vars, aux_vars, line_vars
  <2>11. ASSUME NEW c \in Container, NEW kind \in {"assert", "other"}, SendOther(c, kind) PROVE InPlace'
    BY <2>1, <2>11 DEF SendOther, ctx_vars, aux_vars, line_vars
  <2>12. CASE FormatAssert \/ FormatUnknown \/ PrintEnds \/ UNCHANGED vars
    BY <2>1, <2>12 DEF FormatAssert, FormatUnknown, PrintEnds, vars, msg_vars, ctx_vars, aux_vars, line_vars
  <2>13. CASE PrintTable
    <3>1. thread' = At("start", <<>>) /\ thread.json = <<>> /\ UNCHANGED <<refresh_json, printed, read>>
      BY <1>0, <2>13 DEF PrintTable, ctx_vars, Runs
    <3>2. thread'.json = <<>> /\ thread'.pc = "start"
      BY <3>1 DEF At
    <3>3. QED
      BY <2>2, <3>1, <3>2
  <2>14. QED
    BY <2>3, <2>4, <2>5, <2>6, <2>7, <2>8, <2>9, <2>10, <2>11, <2>12, <2>13 DEF Next, Loop
<1>4. QED
  BY <1>1, <1>3

\* Every reading that format_data took from the inbox is printed, waits in the
\* buffer or is in the hands of Gate_Loop, once and in order, as long as the
\* timer does not expire during an update of the buffer and no text is written
\* behind the end of its buffer.
THEOREM ReadingsStayKept == Spec => []ReadingsKept
<1>1. Init => KeptInv
  BY KeptInit
<1>2. KeptInv /\ [Next]_vars => KeptInv'
  BY TypesStep, NewStep, InPlaceStep DEF KeptInv
<1>3. QED
  BY <1>1, <1>2, KeptImplies, PTL DEF Spec

-----------------------------------------------------------------------------
\* Texts between brackets

Stack == Seq({"open", "list"})

\* A text of JSON tokens that starts within the brackets a and ends within b
Reads(a, text, b) ==
  \E run \in [0 .. Len(text) -> Stack] :
    /\ run[0] = a /\ run[Len(text)] = b
    /\ \A i \in 1 .. Len(text) : run[i] = After(run[i - 1], text[i])
    /\ \A i \in 1 .. Len(text) - 1 : run[i] # <<>> /\ MayFollow(text[i], text[i + 1], Last(run[i]))

\* ... with the kinds of its first and its last token
Phrase(a, text, b, first, final) ==
  /\ text \in Text /\ text # <<>> /\ a \in Stack /\ b \in Stack
  /\ text[1].token = first /\ Last(text).token = final
  /\ Reads(a, text, b)

MayCome(kind, next, inside) == MayFollow([token |-> kind], [token |-> next], inside)

LEMMA Kinds ==
  ASSUME NEW t, NEW u, NEW inside
  PROVE  MayFollow(t, u, inside) = MayCome(t.token, u.token, inside)
BY DEF MayFollow, MayCome

LEMMA Stacks ==
  ASSUME NEW u \in Stack, NEW x \in {"open", "list"}
  PROVE  /\ Append(u, x) \in Stack /\ Append(u, x) # <<>>
         /\ Last(Append(u, x)) = x /\ Front(Append(u, x)) = u
<1>1. u \in Seq({"open", "list"})
  BY DEF Stack
<1>2. Append(u, x) = u \o <<x>> /\ Append(u, x) \in Seq({"open", "list"})
  BY <1>1, AppendIsConcat, AppendProperties
<1>3. Front(u \o <<x>>) = u /\ Last(u \o <<x>>) = x /\ u \o <<x>> # <<>>
  BY <1>1, FrontOfConcat
<1>4. QED
  BY <1>2, <1>3 DEF Stack

\* A text of a single token
LEMMA PhraseOne ==
  ASSUME NEW a \in Stack, NEW t \in Token, NEW b \in Stack, b = After(a, t)
  PROVE  Phrase(a, <<t>>, b, t.token, t.token)
<1>. DEFINE run == [i \in 0 .. 1 |-> IF i = 0 THEN a ELSE b]
<1>1. Len(<<t>>) = 1 /\ <<t>>[1] = t /\ <<t>> \in Text /\ <<t>> # <<>>
  BY DEF Text
<1>2. Last(<<t>>) = t
  BY <1>1 DEF Last
<1>3. run \in [0 .. 1 -> Stack] /\ run[0] = a /\ run[1] = b
  OBVIOUS
<1>. HIDE DEF run
<1>4. \A i \in 1 .. 1 : run[i] = After(run[i - 1], <<t>>[i])
  <2>1. TAKE i \in 1 .. 1
  <2>2. i = 1 /\ i - 1 = 0
    OBVIOUS
  <2>3. QED
    BY <1>1, <1>3, <2>2
<1>5. \A i \in 1 .. 1 - 1 : run[i] # <<>> /\ MayFollow(<<t>>[i], <<t>>[i + 1], Last(run[i]))
  OBVIOUS
<1>6. Reads(a, <<t>>, b)
  BY <1>1, <1>3, <1>4, <1>5 DEF Reads
<1>7. QED
  BY <1>1, <1>2, <1>6 DEF Phrase

LEMMA OpensAndCloses ==
  ASSUME NEW u \in Stack, NEW x \in {"open", "list"}
  PROVE  /\ Phrase(u, <<Open>>, Append(u, "open"), "open", "open")
         /\ Phrase(u, <<List>>, Append(u, "list"), "list", "list")
         /\ Phrase(Append(u, x), <<Close>>, u, "close", "close")
         /\ Phrase(Append(u, x), <<End>>, u, "end", "end")
<1>1. Open \in Token /\ Close \in Token /\ List \in Token /\ End \in Token
  BY Tokens
<1>2. Open.token = "open" /\ Close.token = "close" /\ List.token = "list" /\ End.token = "end"
  BY DEF Open, Close, List, End
<1>3. /\ Append(u, x) \in Stack /\ Append(u, x) # <<>> /\ Front(Append(u, x)) = u
      /\ Append(u, "open") \in Stack /\ Append(u, "list") \in Stack
  BY Stacks
<1>4. After(u, Open) = Append(u, "open") /\ After(u, List) = Append(u, "list")
  BY <1>2 DEF After
<1>5. After(Append(u, x), Close) = u /\ After(Append(u, x), End) = u
  BY <1>2, <1>3 DEF After
<1>6. QED
  BY <1>1, <1>2, <1>3, <1>4, <1>5, PhraseOne

LEMMA PlainToken ==
  ASSUME NEW u \in Stack, NEW t \in Token, t.token \in {"comma", "number", "key", "field"}
  PROVE  Phrase(u, <<t>>, u, t.token, t.token)
<1>1. After(u, t) = u
  BY DEF After
<1>2. QED
  BY <1>1, PhraseOne

\* One text behind another
LEMMA PhraseConcat ==
  ASSUME NEW a, NEW s, NEW b, NEW t, NEW c, NEW k1, NEW k2, NEW k3, NEW k4,
         Phrase(a, s, b, k1, k2), Phrase(b, t, c, k3, k4), b # <<>>, MayCome(k2, k3, Last(b))
  PROVE  Phrase(a, s \o t, c, k1, k4)
<1>. DEFINE m == Len(s)
            n == Len(t)
            st == s \o t
<1>1. /\ s \in Text /\ s # <<>> /\ t \in Text /\ t # <<>> /\ a \in Stack /\ b \in Stack /\ c \in Stack
      /\ s[1].token = k1 /\ Last(s).token = k2 /\ t[1].token = k3 /\ Last(t).token = k4
      /\ Reads(a, s, b) /\ Reads(b, t, c)
  BY DEF Phrase
<1>2. m \in Nat /\ n \in Nat /\ m # 0 /\ n # 0
  BY <1>1 DEF Text
<1>3. /\ st \in Text /\ Len(st) = m + n
      /\ \A i \in 1 .. m + n : st[i] = IF i <= m THEN s[i] ELSE t[i - m]
  BY <1>1, ConcatProperties DEF Text
<1>4. PICK f \in [0 .. m -> Stack] :
        /\ f[0] = a /\ f[m] = b
        /\ \A i \in 1 .. m : f[i] = After(f[i - 1], s[i])
        /\ \A i \in 1 .. m - 1 : f[i] # <<>> /\ MayFollow(s[i], s[i + 1], Last(f[i]))
  BY <1>1 DEF Reads
<1>5. PICK g \in [0 .. n -> Stack] :
        /\ g[0] = b /\ g[n] = c
        /\ \A i \in 1 .. n : g[i] = After(g[i - 1], t[i])
        /\ \A i \in 1 .. n - 1 : g[i] # <<>> /\ MayFollow(t[i], t[i + 1], Last(g[i]))
  BY <1>1 DEF Reads
<1>. DEFINE run == [i \in 0 .. m + n |-> IF i <= m THEN f[i] ELSE g[i - m]]
<1>. HIDE DEF st
<1>6. /\ \A i \in 0 .. m : run[i] = f[i]
      /\ \A i \in 1 .. n : run[m + i] = g[i]
  <2>1. ASSUME NEW i \in 0 .. m PROVE run[i] = f[i]
    BY <1>2
  <2>2. ASSUME NEW i \in 1 .. n PROVE run[m + i] = g[i]
    <3>1. m + i \in 0 .. m + n /\ ~(m + i <= m) /\ (m + i) - m = i
      BY <1>2
    <3>2. QED
      BY <3>1
  <2>3. QED
    BY <2>1, <2>2
<1>7. run \in [0 .. m + n -> Stack]
  <2>1. ASSUME NEW i \in 0 .. m + n PROVE run[i] \in Stack
    <3>1. CASE i <= m
      <4>1. i \in 0 .. m
        BY <1>2, <3>1
      <4>2. QED
        BY <4>1, <3>1
    <3>2. CASE ~(i <= m)
      <4>1. i - m \in 0 .. n
        BY <1>2, <3>2
      <4>2. QED
        BY <4>1, <3>2
    <3>3. QED
      BY <3>1, <3>2
  <2>2. QED
    BY <2>1
<1>. HIDE DEF run
<1>8. /\ \A i \in 1 .. m : st[i] = s[i]
      /\ \A i \in 1 .. n : st[m + i] = t[i]
  <2>1. ASSUME NEW i \in 1 .. m PROVE st[i] = s[i]
    BY <1>2, <1>3
  <2>2. ASSUME NEW i \in 1 .. n PROVE st[m + i] = t[i]
    <3>1. m + i \in 1 .. m + n /\ ~(m + i <= m) /\ (m + i) - m = i
      BY <1>2
    <3>2. QED
      BY <1>3, <3>1
  <2>3. QED
    BY <2>1, <2>2
<1>9. \A i \in 1 .. m + n : run[i] = After(run[i - 1], st[i])
  <2>1. TAKE i \in 1 .. m + n
  <2>2. CASE i <= m
    <3>1. i \in 1 .. m /\ i \in 0 .. m /\ i - 1 \in 0 .. m
      BY <1>2, <2>2
    <3>2. QED
      BY <3>1, <1>4, <1>6, <1>8
  <2>3. CASE i = m + 1
    <3>1. 1 \in 1 .. n /\ m \in 0 .. m /\ i - 1 = m /\ 1 - 1 = 0
      BY <1>2, <2>3
    <3>2. g[1] = After(g[0], t[1])
      BY <3>1, <1>5
    <3>3. run[i] = g[1] /\ run[i - 1] = b /\ st[i] = t[1]
      BY <3>1, <2>3, <1>4, <1>6, <1>8
    <3>4. QED
      BY <3>2, <3>3, <1>5
  <2>4. CASE i > m + 1
    <3>. DEFINE j == i - m
    <3>1. j \in 1 .. n /\ j - 1 \in 1 .. n /\ i = m + j /\ i - 1 = m + (j - 1)
      BY <1>2, <2>4
    <3>. HIDE DEF j
    <3>2. g[j] = After(g[j - 1], t[j])
      BY <3>1, <1>5
    <3>3. run[m + j] = g[j] /\ run[m + (j - 1)] = g[j - 1] /\ st[m + j] = t[j]
      BY <3>1, <1>6, <1>8
    <3>4. QED
      BY <3>1, <3>2, <3>3
  <2>5. i <= m \/ i = m + 1 \/ i > m + 1
    BY <1>2
  <2>6. QED
    BY <2>2, <2>3, <2>4, <2>5
<1>10. Last(s) = s[m] /\ Last(t) = t[n]
  BY DEF Last
<1>11. \A i \in 1 .. (m + n) - 1 : run[i] # <<>> /\ MayFollow(st[i], st[i + 1], Last(run[i]))
  <2>1. TAKE i \in 1 .. (m + n) - 1
  <2>2. CASE i < m
    <3>1. i \in 1 .. m - 1 /\ i \in 1 .. m /\ i + 1 \in 1 .. m /\ i \in 0 .. m
      BY <1>2, <2>2
    <3>2. QED
      BY <3>1, <1>4, <1>6, <1>8
  <2>3. CASE i = m
    <3>1. m \in 1 .. m /\ 1 \in 1 .. n /\ m \in 0 .. m
      BY <1>2
    <3>2. run[i] = b /\ st[i] = Last(s) /\ st[i + 1] = t[1]
      BY <3>1, <2>3, <1>4, <1>6, <1>8, <1>10
    <3>3. MayFollow(Last(s), t[1], Last(b))
      BY <1>1, Kinds
    <3>4. QED
      BY <3>2, <3>3
  <2>4. CASE i > m
    <3>. DEFINE j == i - m
    <3>1. j \in 1 .. n /\ j + 1 \in 1 .. n /\ j \in 1 .. n - 1 /\ i = m + j /\ i + 1 = m + (j + 1)
      BY <1>2, <2>4
    <3>. HIDE DEF j
    <3>2. g[j] # <<>> /\ MayFollow(t[j], t[j + 1], Last(g[j]))
      BY <3>1, <1>5
    <3>3. run[m + j] = g[j] /\ st[m + j] = t[j] /\ st[m + (j + 1)] = t[j + 1]
      BY <3>1, <1>6, <1>8
    <3>4. QED
      BY <3>1, <3>2, <3>3
  <2>5. i < m \/ i = m \/ i > m
    BY <1>2
  <2>6. QED
    BY <2>2, <2>3, <2>4, <2>5
<1>12. run[0] = a /\ run[m + n] = c
  <2>1. 0 \in 0 .. m /\ n \in 1 .. n
    BY <1>2
  <2>2. QED
    BY <2>1, <1>4, <1>5, <1>6
<1>13. Reads(a, st, c)
  BY <1>3, <1>7, <1>9, <1>11, <1>12 DEF Reads
<1>14. st[1] = s[1] /\ Last(st) = Last(t) /\ st # <<>>
  <2>1. 1 \in 1 .. m /\ n \in 1 .. n
    BY <1>2
  <2>2. Last(st) = st[m + n]
    BY <1>3 DEF Last
  <2>3. Len(st) # 0
    BY <1>2, <1>3
  <2>4. st # <<>>
    BY <2>3
  <2>5. QED
    BY <2>1, <2>2, <2>4, <1>8, <1>10
<1>15. Phrase(a, st, c, k1, k4)
  BY <1>1, <1>3, <1>13, <1>14 DEF Phrase
<1>16. QED
  BY <1>15 DEF st

\* The brackets that are open follow from one another.
LEMMA NestingSteps ==
  ASSUME NEW json \in Text, NEW run \in [0 .. Len(json) -> Stack],
         run[0] = <<>>, \A i \in 1 .. Len(json) : run[i] = After(run[i - 1], json[i])
  PROVE  \A i \in 0 .. Len(json) : Nesting(json)[i] = run[i]
<1>0. Len(json) \in Nat
  BY DEF Text
<1>1. \E g : g = [i \in 0 .. Len(json) |-> IF i = 0 THEN <<>> ELSE After(g[i - 1], json[i])]
  <2>. DEFINE h == [i \in 0 .. Len(json) |-> run[i]]
  <2>1. \A i \in 0 .. Len(json) : h[i] = IF i = 0 THEN <<>> ELSE After(h[i - 1], json[i])
    <3>1. TAKE i \in 0 .. Len(json)
    <3>2. CASE i = 0
      BY <3>2
    <3>3. CASE i # 0
      <4>1. i \in 1 .. Len(json) /\ i - 1 \in 0 .. Len(json)
        BY <1>0, <3>3
      <4>2. h[i] = run[i] /\ h[i - 1] = run[i - 1]
        BY <4>1
      <4>3. QED
        BY <4>1, <4>2, <3>3
    <3>4. QED
      BY <3>2, <3>3
  <2>2. h = [i \in 0 .. Len(json) |-> IF i = 0 THEN <<>> ELSE After(h[i - 1], json[i])]
    BY <2>1
  <2>. HIDE DEF h
  <2>3. QED
    BY <2>2
<1>2. Nesting(json) = [i \in 0 .. Len(json) |-> IF i = 0 THEN <<>> ELSE After(Nesting(json)[i - 1], json[i])]
  BY <1>1 DEF Nesting
<1>. DEFINE open == Nesting(json)
<1>. HIDE DEF open
<1>3. open = [i \in 0 .. Len(json) |-> IF i = 0 THEN <<>> ELSE After(open[i - 1], json[i])]
  BY <1>2 DEF open
<1>4. open[0] = run[0]
  <2>1. 0 \in 0 .. Len(json)
    BY <1>0
  <2>2. QED
    BY <2>1, <1>3
<1>5. \A i \in 1 .. Len(json) : open[i - 1] = run[i - 1] => open[i] = run[i]
  <2>1. SUFFICES ASSUME NEW i \in 1 .. Len(json), open[i - 1] = run[i - 1] PROVE open[i] = run[i]
    OBVIOUS
  <2>2. i \in 0 .. Len(json) /\ i # 0
    BY <1>0
  <2>3. open[i] = After(open[i - 1], json[i])
    BY <2>2, <1>3
  <2>4. QED
    BY <2>1, <2>3
<1>6. \A i \in 0 .. Len(json) : open[i] = run[i]
  <2>1. Alike(Len(json), open, run)
    BY <1>4, <1>5 DEF Alike
  <2>2. QED
    BY <1>0, <2>1, SameCourse
<1>7. QED
  BY <1>6 DEF open

\* JSON is a text that opens an object and leaves nothing open.
LEMMA PhraseIsJson ==
  ASSUME NEW json, NEW final, Phrase(<<>>, json, <<>>, "open", final)
  PROVE  IsJson(json)
<1>1. json \in Text /\ json # <<>> /\ json[1].token = "open" /\ Reads(<<>>, json, <<>>)
  BY DEF Phrase
<1>2. Len(json) \in Nat /\ Len(json) # 0 /\ 1 \in 1 .. Len(json) /\ json[1] \in Token
  <2>1. Len(json) \in Nat /\ Len(json) # 0 /\ \A i \in 1 .. Len(json) : json[i] \in Token
    BY <1>1 DEF Text
  <2>2. QED
    BY <2>1
<1>3. json[1] = Open
  BY <1>1, <1>2 DEF Token, Open, Close, List, End, Comma, Number, Key, Field
<1>4. PICK run \in [0 .. Len(json) -> Stack] :
        /\ run[0] = <<>> /\ run[Len(json)] = <<>>
        /\ \A i \in 1 .. Len(json) : run[i] = After(run[i - 1], json[i])
        /\ \A i \in 1 .. Len(json) - 1 : run[i] # <<>> /\ MayFollow(json[i], json[i + 1], Last(run[i]))
  BY <1>1 DEF Reads
<1>5. \A i \in 0 .. Len(json) : Nesting(json)[i] = run[i]
  BY <1>1, <1>4, NestingSteps
<1>6. /\ Len(json) \in 0 .. Len(json)
      /\ \A i \in 1 .. Len(json) - 1 : i \in 0 .. Len(json)
  BY <1>2
<1>7. QED
  BY <1>3, <1>4, <1>5, <1>6 DEF IsJson

-----------------------------------------------------------------------------
\* Items of an object or a list, each with a comma behind it

Item(u, text, first, final) == \E body : text = body \o <<Comma>> /\ Phrase(u, body, u, first, final)

\* The items make a text that ends with a comma.
LEMMA ItemsRead ==
  ASSUME NEW items \in Seq(Text), NEW u \in Stack, u # <<>>, NEW first, NEW final,
         MayCome(final, "comma", Last(u)), MayCome("comma", first, Last(u)),
         \A i \in 1 .. Len(items) : items[i] = <<>> \/ Item(u, items[i], first, final)
  PROVE  /\ FlattenSeq(items) = <<>> \/ Item(u, FlattenSeq(items), first, final)
         /\ FlattenSeq(items) = <<>> => \A i \in 1 .. Len(items) : items[i] = <<>>
<1>. DEFINE n == Len(items)
            holds(k, text) == /\ text = <<>> \/ Item(u, text, first, final)
                              /\ text = <<>> => \A i \in 1 .. k : items[i] = <<>>
<1>0. n \in Nat /\ items \in Seq(Seq(Token)) /\ \A i \in 1 .. n : items[i] \in Text
  BY DEF Text
<1>1. PICK f : Joins(items, Token, f)
  BY <1>0, FlattenJoins
<1>2. FlattenSeq(items) = f[n]
  BY <1>0, <1>1, FlattenIs
<1>3. /\ f \in [0 .. n -> Text] /\ f[0] = <<>>
      /\ \A i \in 1 .. n : f[i] = f[i - 1] \o items[i]
  BY <1>1 DEF Joins, Text
<1>. DEFINE N == {k \in Nat : k <= n => holds(k, f[k])}
<1>4. 0 \in N
  <2>1. holds(0, <<>>)
    OBVIOUS
  <2>. HIDE DEF holds
  <2>2. QED
    BY <1>3, <2>1
<1>5. Comma \in Token /\ Comma.token = "comma" /\ <<Comma>> \in Text
  BY Texts DEF Comma
<1>6. ASSUME NEW text, Item(u, text, first, final) PROVE text # <<>>
  <2>1. PICK body : text = body \o <<Comma>> /\ Phrase(u, body, u, first, final)
    BY <1>6 DEF Item
  <2>2. body \in Text
    BY <2>1 DEF Phrase
  <2>3. QED
    BY <1>5, <2>1, <2>2, FrontOfConcat DEF Text
<1>7. \A k \in Nat : k \in N => k + 1 \in N
  <2>. SUFFICES ASSUME NEW k \in Nat, k \in N, k + 1 <= n PROVE holds(k + 1, f[k + 1])
    <3>. HIDE DEF holds
    <3>1. QED
      OBVIOUS
  <2>1. k <= n /\ k \in 0 .. n /\ k + 1 \in 1 .. n /\ (k + 1) - 1 = k
    BY <1>0
  <2>. DEFINE s == f[k]
              t == items[k + 1]
  <2>2. s \in Text /\ t \in Text /\ f[k + 1] = s \o t
    BY <1>0, <1>3, <2>1
  <2>3. (s = <<>> \/ Item(u, s, first, final)) /\ (s = <<>> => \A i \in 1 .. k : items[i] = <<>>)
    BY <2>1
  <2>4. t = <<>> \/ Item(u, t, first, final)
    BY <2>1
  <2>5. \A i \in 1 .. k + 1 : i \in 1 .. k \/ i = k + 1
    OBVIOUS
  <2>a. t = items[k + 1]
    OBVIOUS
  <2>. HIDE DEF s, t
  <2>6. CASE t = <<>>
    <3>1. s \o t = s
      BY <2>2, <2>6, ConcatEmptySeq DEF Text
    <3>2. holds(k + 1, s)
      BY <2>3, <2>5, <2>6, <2>a
    <3>. HIDE DEF holds
    <3>3. QED
      BY <2>2, <3>1, <3>2
  <2>7. CASE s = <<>> /\ t # <<>>
    <3>1. s \o t = t
      BY <2>2, <2>7, ConcatEmptySeq DEF Text
    <3>2. holds(k + 1, t)
      BY <2>4, <2>7
    <3>. HIDE DEF holds
    <3>3. QED
      BY <2>2, <3>1, <3>2
  <2>8. CASE s # <<>> /\ t # <<>>
    <3>1. PICK x : s = x \o <<Comma>> /\ Phrase(u, x, u, first, final)
      BY <2>3, <2>8 DEF Item
    <3>2. PICK y : t = y \o <<Comma>> /\ Phrase(u, y, u, first, final)
      BY <2>4, <2>8 DEF Item
    <3>3. Phrase(u, <<Comma>>, u, "comma", "comma")
      BY <1>5, PlainToken
    <3>4. Phrase(u, x \o <<Comma>>, u, first, "comma")
      BY <3>1, <3>3, PhraseConcat
    <3>5. Phrase(u, (x \o <<Comma>>) \o y, u, first, final)
      BY <3>2, <3>4, PhraseConcat
    <3>6. s \o t = ((x \o <<Comma>>) \o y) \o <<Comma>>
      <4>1. s \in Text /\ y \in Text /\ <<Comma>> \in Text
        BY <1>5, <2>2, <3>2 DEF Phrase
      <4>2. (s \o y) \o <<Comma>> = s \o (y \o <<Comma>>)
        BY <4>1, TextAssociative
      <4>3. QED
        BY <3>1, <3>2, <4>2
    <3>7. Item(u, s \o t, first, final)
      BY <3>5, <3>6 DEF Item
    <3>8. holds(k + 1, s \o t)
      BY <1>6, <3>7
    <3>. HIDE DEF holds
    <3>9. QED
      BY <2>2, <3>8
  <2>9. QED
    <3>. HIDE DEF holds
    <3>1. QED
      BY <2>6, <2>7, <2>8
<1>8. n \in N
  <2>. HIDE DEF N
  <2>1. QED
    BY <1>0, <1>4, <1>7, Induction
<1>9. holds(n, f[n])
  <2>. HIDE DEF holds
  <2>1. QED
    BY <1>0, <1>8
<1>10. QED
  BY <1>2, <1>9

-----------------------------------------------------------------------------
\* Sections of a text

\* The key of a container starts its section.
IsSection(t) == t.token = "key" /\ t.of \in Container

HasOne(json) == \E i \in DOMAIN json : IsSection(json[i])

HasMany(json) == \E i, j \in DOMAIN json : i # j /\ IsSection(json[i]) /\ IsSection(json[j])

LEMMA ManyCounted ==
  ASSUME NEW json \in Text, HasMany(json)
  PROVE  Cardinality(Sections(json)) > 1
<1>1. PICK i \in DOMAIN json, j \in DOMAIN json : i # j /\ IsSection(json[i]) /\ IsSection(json[j])
  BY DEF HasMany
<1>. DEFINE all == Sections(json)
<1>2. DOMAIN json = 1 .. Len(json) /\ Len(json) \in Nat
  BY DEF Text
<1>3. i \in all /\ j \in all /\ all \subseteq 1 .. Len(json)
  BY <1>1, <1>2 DEF Sections, IsSection
<1>. HIDE DEF all
<1>4. IsFiniteSet(all) /\ Cardinality(all) \in Nat
  BY <1>2, <1>3, KeptIsFinite
<1>5. Cardinality({i, j}) = 2 /\ {i, j} \subseteq all
  <2>1. IsFiniteSet({i}) /\ Cardinality({i}) = 1 /\ j \notin {i}
    BY <1>1, FS_Singleton
  <2>2. Cardinality({i} \cup {j}) = Cardinality({i}) + 1
    BY <2>1, FS_AddElement
  <2>3. {i, j} = {i} \cup {j}
    OBVIOUS
  <2>4. Cardinality({i, j}) = 2
    BY <2>1, <2>2, <2>3
  <2>5. {i, j} \subseteq all
    BY <1>3
  <2>6. QED
    BY <2>4, <2>5
<1>6. Cardinality({i, j}) <= Cardinality(all)
  BY <1>4, <1>5, FS_Subset
<1>7. Cardinality(all) > 1
  BY <1>4, <1>5, <1>6
<1>8. QED
  BY <1>7 DEF all

LEMMA SectionsConcat ==
  ASSUME NEW s \in Text, NEW t \in Text
  PROVE  /\ HasOne(s) \/ HasOne(t) => HasOne(s \o t)
         /\ HasMany(s) \/ HasMany(t) \/ (HasOne(s) /\ HasOne(t)) => HasMany(s \o t)
<1>. DEFINE m == Len(s)
            n == Len(t)
            st == s \o t
<1>1. /\ m \in Nat /\ n \in Nat /\ DOMAIN s = 1 .. m /\ DOMAIN t = 1 .. n
      /\ DOMAIN st = 1 .. m + n
      /\ \A i \in 1 .. m + n : st[i] = IF i <= m THEN s[i] ELSE t[i - m]
  BY ConcatProperties DEF Text
<1>. HIDE DEF st, m, n
<1>2. ASSUME NEW i \in DOMAIN s PROVE i \in DOMAIN st /\ st[i] = s[i]
  BY <1>1
<1>3. ASSUME NEW i \in DOMAIN t PROVE m + i \in DOMAIN st /\ st[m + i] = t[i] /\ m + i \notin DOMAIN s
  <2>1. m + i \in 1 .. m + n /\ ~(m + i <= m) /\ (m + i) - m = i
    BY <1>1
  <2>2. QED
    BY <1>1, <2>1
<1>4. ASSUME HasOne(s) \/ HasOne(t) PROVE HasOne(st)
  BY <1>2, <1>3, <1>4 DEF HasOne
<1>5. ASSUME HasMany(s) PROVE HasMany(st)
  BY <1>2, <1>5 DEF HasMany
<1>6. ASSUME HasMany(t) PROVE HasMany(st)
  <2>1. PICK i \in DOMAIN t, j \in DOMAIN t : i # j /\ IsSection(t[i]) /\ IsSection(t[j])
    BY <1>6 DEF HasMany
  <2>2. m + i # m + j
    BY <1>1, <2>1
  <2>3. QED
    BY <1>3, <2>1, <2>2 DEF HasMany
<1>7. ASSUME HasOne(s), HasOne(t) PROVE HasMany(st)
  <2>1. PICK i \in DOMAIN s : IsSection(s[i])
    BY <1>7 DEF HasOne
  <2>2. PICK j \in DOMAIN t : IsSection(t[j])
    BY <1>7 DEF HasOne
  <2>3. i # m + j
    BY <1>3
  <2>4. QED
    BY <1>2, <1>3, <2>1, <2>2, <2>3 DEF HasMany
<1>8. QED
  BY <1>4, <1>5, <1>6, <1>7 DEF st

LEMMA ManyHasOne ==
  ASSUME NEW json, HasMany(json)
  PROVE  HasOne(json)
BY DEF HasMany, HasOne

LEMMA SectionsTrim ==
  ASSUME NEW s \in Text, s # <<>>, HasMany(s)
  PROVE  HasMany(TrimComma(s))
<1>1. CASE Last(s) # Comma
  BY <1>1 DEF TrimComma
<1>2. CASE Last(s) = Comma
  <2>. DEFINE f == Front(s)
  <2>1. f \in Text /\ s = f \o <<Comma>> /\ TrimComma(s) = f
    BY <1>2, FrontAndLast DEF Text, TrimComma
  <2>. HIDE DEF f
  <2>2. /\ Len(f) \in Nat /\ DOMAIN f = 1 .. Len(f) /\ DOMAIN s = 1 .. Len(f) + 1
        /\ s[Len(f) + 1] = Comma /\ \A i \in 1 .. Len(f) : s[i] = f[i]
    BY <2>1, Texts DEF Text
  <2>3. ~IsSection(Comma)
    BY DEF IsSection, Comma
  <2>4. \A i \in DOMAIN s : IsSection(s[i]) => i \in DOMAIN f /\ f[i] = s[i]
    <3>1. SUFFICES ASSUME NEW i \in DOMAIN s, IsSection(s[i]) PROVE i \in DOMAIN f /\ f[i] = s[i]
      OBVIOUS
    <3>2. i # Len(f) + 1
      BY <2>2, <2>3, <3>1
    <3>3. QED
      BY <2>2, <3>2
  <2>5. HasMany(f)
    BY <2>4 DEF HasMany
  <2>6. QED
    BY <2>1, <2>5
<1>3. QED
  BY <1>1, <1>2

-----------------------------------------------------------------------------
\* Sections as texts

O1 == Append(<<>>, "open")
O2 == Append(O1, "open")
O3 == Append(O2, "open")

LEMMA OpenStacks ==
  /\ <<>> \in Stack /\ O1 \in Stack /\ O2 \in Stack /\ O3 \in Stack
  /\ O1 # <<>> /\ O2 # <<>> /\ O3 # <<>>
  /\ Last(O1) = "open" /\ Last(O2) = "open" /\ Last(O3) = "open"
<1>1. <<>> \in Stack
  BY DEF Stack
<1>2. O1 \in Stack /\ O1 # <<>> /\ Last(O1) = "open"
  BY <1>1, Stacks DEF O1
<1>3. O2 \in Stack /\ O2 # <<>> /\ Last(O2) = "open"
  BY <1>2, Stacks DEF O2
<1>4. O3 \in Stack /\ O3 # <<>> /\ Last(O3) = "open"
  BY <1>3, Stacks DEF O3
<1>5. QED
  BY <1>1, <1>2, <1>3, <1>4

\* What may come in an object and in a list
LEMMA Grammar ==
  /\ MayCome("open", "key", "open") /\ MayCome("open", "field", "open") /\ MayCome("open", "close", "open")
  /\ MayCome("key", "open", "open") /\ MayCome("key", "list", "open")
  /\ MayCome("field", "comma", "open") /\ MayCome("field", "close", "open")
  /\ MayCome("comma", "field", "open") /\ MayCome("comma", "key", "open")
  /\ MayCome("close", "close", "open") /\ MayCome("end", "close", "open")
  /\ MayCome("list", "open", "list") /\ MayCome("close", "comma", "list")
  /\ MayCome("comma", "open", "list") /\ MayCome("close", "end", "list")
  /\ MayCome("list", "number", "list") /\ MayCome("number", "comma", "list")
  /\ MayCome("comma", "number", "list") /\ MayCome("number", "end", "list")
  /\ MayCome("end", "comma", "open")
BY DEF MayCome, MayFollow

LEMMA SectionTokens ==
  ASSUME NEW k \in Name
  PROVE  /\ Key(k) \in Token /\ Key(k).token = "key"
         /\ Field(k) \in Token /\ Field(k).token = "field"
BY Tokens DEF Key, Field

LEMMA CommaText == Comma \in Token /\ Comma.token = "comma" /\ <<Comma>> \in Text
BY Texts DEF Comma

LEMMA JoinedThree ==
  ASSUME NEW a \in Token, NEW b \in Token, NEW c \in Token
  PROVE  (<<a>> \o <<b>>) \o <<c>> = <<a, b, c>>
<1>1. <<a>> \o <<b>> = <<a, b>> /\ <<a, b>> \o <<c>> = <<a, b, c>>
  BY JoinedTokens
<1>2. QED
  BY <1>1

LEMMA HeadPhrase ==
  ASSUME NEW c \in Container
  PROVE  Phrase(O1, SectionHead(c), O3, "open", "open") /\ HasOne(SectionHead(c))
<1>1. c \in Name /\ Key(c) \in Token /\ Key(c).token = "key"
  BY SectionTokens DEF Name
<1>2. Phrase(O1, <<Open>>, O2, "open", "open") /\ Phrase(O2, <<Open>>, O3, "open", "open")
  BY OpenStacks, OpensAndCloses DEF O2, O3
<1>3. Phrase(O2, <<Key(c)>>, O2, "key", "key")
  BY <1>1, OpenStacks, PlainToken
<1>4. Phrase(O1, <<Open>> \o <<Key(c)>>, O2, "open", "key")
  BY <1>2, <1>3, OpenStacks, Grammar, PhraseConcat
<1>5. Phrase(O1, SectionHead(c), O3, "open", "open")
  <2>1. Phrase(O1, (<<Open>> \o <<Key(c)>>) \o <<Open>>, O3, "open", "open")
    BY <1>2, <1>4, OpenStacks, Grammar, PhraseConcat
  <2>2. QED
    BY <2>1 DEF SectionHead
<1>6. HasOne(<<Key(c)>>)
  <2>1. DOMAIN <<Key(c)>> = 1 .. 1 /\ <<Key(c)>>[1] = Key(c) /\ IsSection(Key(c))
    BY DEF IsSection, Key
  <2>2. QED
    BY <2>1 DEF HasOne
<1>7. <<Open>> \in Text /\ <<Key(c)>> \in Text /\ <<Open>> \o <<Key(c)>> \in Text
  BY <1>2, <1>3, <1>4 DEF Phrase
<1>8. HasOne(<<Open>> \o <<Key(c)>>)
  BY <1>6, <1>7, SectionsConcat
<1>9. HasOne(SectionHead(c))
  BY <1>7, <1>8, SectionsConcat DEF SectionHead
<1>10. QED
  BY <1>5, <1>9

LEMMA BodyPhrase ==
  ASSUME NEW msgs \in Seq(MessageType)
  PROVE  Body(msgs) = <<>> \/ Item(O3, Body(msgs), "field", "field")
<1>1. FieldsOf(msgs) \in Seq(Text) /\ Len(FieldsOf(msgs)) = Len(msgs) /\ DOMAIN msgs = 1 .. Len(msgs)
  BY MessageItems
<1>2. ASSUME NEW i \in 1 .. Len(msgs)
      PROVE  FieldsOf(msgs)[i] = <<>> \/ Item(O3, FieldsOf(msgs)[i], "field", "field")
  <2>1. FieldsOf(msgs)[i] = Fields(msgs[i]) /\ msgs[i] \in MessageType
    BY MessageItems
  <2>2. CASE msgs[i].kind # "reading"
    BY <2>1, <2>2 DEF Fields
  <2>3. CASE msgs[i].kind = "reading"
    <3>. DEFINE r == msgs[i].rank
    <3>1. r \in Name
      BY <2>1 DEF MessageType, Name
    <3>2. FieldsOf(msgs)[i] = <<Field(r), Comma>>
      BY <2>1, <2>3 DEF Fields
    <3>. HIDE DEF r
    <3>3. Field(r) \in Token /\ Field(r).token = "field" /\ Comma \in Token
      BY <3>1, SectionTokens, CommaText
    <3>4. <<Field(r)>> \o <<Comma>> = <<Field(r), Comma>>
      BY <3>3, JoinedTokens
    <3>5. Phrase(O3, <<Field(r)>>, O3, "field", "field")
      BY <3>3, OpenStacks, PlainToken
    <3>6. QED
      BY <3>2, <3>4, <3>5 DEF Item
  <2>4. QED
    BY <2>2, <2>3
<1>3. /\ O3 \in Stack /\ O3 # <<>> /\ MayCome("field", "comma", Last(O3)) /\ MayCome("comma", "field", Last(O3))
  BY OpenStacks, Grammar
<1>4. FlattenSeq(FieldsOf(msgs)) = <<>> \/ Item(O3, FlattenSeq(FieldsOf(msgs)), "field", "field")
  BY <1>1, <1>2, <1>3, ItemsRead
<1>5. QED
  BY <1>4 DEF Body

\* The section of a container, as format_data leaves it: its object opens a
\* second bracket that stays open.
OneSection(json) ==
  \E body : json = body \o <<Comma>> /\ Phrase(O1, body, O2, "open", "close") /\ HasOne(body)

LEMMA SectionPhrase ==
  ASSUME NEW c \in Container, NEW msgs \in Seq(MessageType)
  PROVE  OneSection(Section(c, msgs))
<1>. DEFINE head == SectionHead(c)
            text == TrimComma(head \o Body(msgs))
<1>1. /\ head \in Text /\ Body(msgs) \in Text /\ text \in Text
      /\ Section(c, msgs) = (text \o <<Close>>) \o <<Comma>>
  BY SectionSplit, BodyRanks
<1>2. Phrase(O1, head, O3, "open", "open") /\ HasOne(head)
  BY HeadPhrase
<1>3. Phrase(O3, <<Close>>, O2, "close", "close") /\ <<Close>> \in Text
  <2>1. Phrase(O3, <<Close>>, O2, "close", "close")
    BY OpenStacks, OpensAndCloses DEF O3
  <2>2. QED
    BY <2>1 DEF Phrase
<1>4. CASE Body(msgs) = <<>>
  <2>1. head \o Body(msgs) = head
    BY <1>1, <1>4, ConcatEmptySeq DEF Text
  <2>2. Last(head).token = "open"
    BY <1>2 DEF Phrase
  <2>3. Last(head) # Comma
    BY <2>2 DEF Comma
  <2>4. text = head
    BY <2>1, <2>3 DEF TrimComma
  <2>. HIDE DEF text, head
  <2>5. Phrase(O1, text \o <<Close>>, O2, "open", "close")
    BY <1>2, <1>3, <2>4, OpenStacks, Grammar, PhraseConcat
  <2>6. HasOne(text \o <<Close>>)
    BY <1>1, <1>2, <1>3, <2>4, SectionsConcat
  <2>7. QED
    BY <1>1, <2>5, <2>6 DEF OneSection
<1>5. CASE Body(msgs) # <<>>
  <2>1. PICK body : Body(msgs) = body \o <<Comma>> /\ Phrase(O3, body, O3, "field", "field")
    BY <1>5, BodyPhrase DEF Item
  <2>2. body \in Text
    BY <2>1 DEF Phrase
  <2>3. (head \o body) \o <<Comma>> = head \o (body \o <<Comma>>)
    BY <1>1, <2>2, CommaText, TextAssociative
  <2>4. Phrase(O1, head \o body, O3, "open", "field") /\ head \o body \in Text
    <3>1. Phrase(O1, head \o body, O3, "open", "field")
      BY <1>2, <2>1, OpenStacks, Grammar, PhraseConcat
    <3>2. QED
      BY <3>1 DEF Phrase
  <2>. DEFINE hb == head \o body
  <2>5. head \o Body(msgs) = hb \o <<Comma>>
    BY <2>1, <2>3
  <2>6. Last(hb \o <<Comma>>) = Comma /\ Front(hb \o <<Comma>>) = hb
    <3>1. hb \in Seq(Token)
      BY <2>4 DEF Text
    <3>. HIDE DEF hb
    <3>2. QED
      BY <3>1, CommaText, FrontOfConcat
  <2>7. text = hb
    BY <2>5, <2>6 DEF TrimComma
  <2>8. HasOne(hb) /\ hb \in Text
    BY <1>1, <1>2, <2>2, <2>4, SectionsConcat
  <2>9. Phrase(O1, hb, O3, "open", "field")
    BY <2>4
  <2>. HIDE DEF hb, text, head
  <2>10. Phrase(O1, hb \o <<Close>>, O2, "open", "close")
    BY <1>3, <2>9, OpenStacks, Grammar, PhraseConcat
  <2>11. HasOne(hb \o <<Close>>)
    BY <1>3, <2>8, SectionsConcat
  <2>12. QED
    BY <1>1, <2>7, <2>10, <2>11 DEF OneSection
<1>6. QED
  BY <1>4, <1>5

-----------------------------------------------------------------------------
\* Lines that are printed by themselves

LEMMA EmptyObject == IsJson(<<Open, Close>>)
<1>1. Phrase(<<>>, <<Open>>, O1, "open", "open") /\ Phrase(O1, <<Close>>, <<>>, "close", "close")
  BY OpenStacks, OpensAndCloses DEF O1
<1>2. Phrase(<<>>, <<Open>> \o <<Close>>, <<>>, "open", "close")
  BY <1>1, OpenStacks, Grammar, PhraseConcat
<1>3. <<Open>> \o <<Close>> = <<Open, Close>>
  BY Texts, JoinedTokens
<1>4. QED
  BY <1>2, <1>3, PhraseIsJson

LEMMA DeadJson == IsJson(<<Open, Field("dead_container"), Close>>)
<1>. DEFINE t == Field("dead_container")
<1>1. t \in Token /\ t.token = "field"
  BY SectionTokens DEF Name
<1>. HIDE DEF t
<1>2. Phrase(<<>>, <<Open>>, O1, "open", "open") /\ Phrase(O1, <<Close>>, <<>>, "close", "close")
  BY OpenStacks, OpensAndCloses DEF O1
<1>3. Phrase(O1, <<t>>, O1, "field", "field")
  BY <1>1, OpenStacks, PlainToken
<1>4. Phrase(<<>>, <<Open>> \o <<t>>, O1, "open", "field")
  BY <1>2, <1>3, OpenStacks, Grammar, PhraseConcat
<1>5. Phrase(<<>>, (<<Open>> \o <<t>>) \o <<Close>>, <<>>, "open", "close")
  BY <1>2, <1>4, OpenStacks, Grammar, PhraseConcat
<1>6. (<<Open>> \o <<t>>) \o <<Close>> = <<Open, t, Close>>
  BY <1>1, Texts, JoinedThree
<1>7. IsJson(<<Open, t, Close>>)
  BY <1>5, <1>6, PhraseIsJson
<1>8. QED
  BY <1>7 DEF t

LEMMA AssertJson ==
  ASSUME NEW c \in Container
  PROVE  IsJson(<<Open, Key("assert"), Open, Field(c), Close, Close>>)
<1>. DEFINE k == Key("assert")
            t == Field(c)
<1>1. k \in Token /\ k.token = "key" /\ t \in Token /\ t.token = "field"
  BY SectionTokens DEF Name
<1>. HIDE DEF k, t
<1>2. /\ Phrase(<<>>, <<Open>>, O1, "open", "open") /\ Phrase(O1, <<Close>>, <<>>, "close", "close")
      /\ Phrase(O1, <<Open>>, O2, "open", "open") /\ Phrase(O2, <<Close>>, O1, "close", "close")
  BY OpenStacks, OpensAndCloses DEF O1, O2
<1>3. Phrase(O1, <<k>>, O1, "key", "key") /\ Phrase(O2, <<t>>, O2, "field", "field")
  BY <1>1, OpenStacks, PlainToken
<1>4. Phrase(<<>>, <<Open>> \o <<k>>, O1, "open", "key")
  BY <1>2, <1>3, OpenStacks, Grammar, PhraseConcat
<1>5. Phrase(<<>>, (<<Open>> \o <<k>>) \o <<Open>>, O2, "open", "open")
  BY <1>2, <1>4, OpenStacks, Grammar, PhraseConcat
<1>6. Phrase(O2, <<t>> \o <<Close>>, O1, "field", "close")
  BY <1>2, <1>3, OpenStacks, Grammar, PhraseConcat
<1>7. Phrase(O2, (<<t>> \o <<Close>>) \o <<Close>>, <<>>, "field", "close")
  BY <1>2, <1>6, OpenStacks, Grammar, PhraseConcat
<1>8. Phrase(<<>>, ((<<Open>> \o <<k>>) \o <<Open>>) \o ((<<t>> \o <<Close>>) \o <<Close>>), <<>>, "open", "close")
  BY <1>5, <1>7, OpenStacks, Grammar, PhraseConcat
<1>9. /\ (<<Open>> \o <<k>>) \o <<Open>> = <<Open, k, Open>>
      /\ (<<t>> \o <<Close>>) \o <<Close>> = <<t, Close, Close>>
  <2>1. (<<Open>> \o <<k>>) \o <<Open>> = <<Open, k, Open>>
    BY <1>1, Texts, JoinedThree
  <2>2. (<<t>> \o <<Close>>) \o <<Close>> = <<t, Close, Close>>
    BY <1>1, Texts, JoinedThree
  <2>3. QED
    BY <2>1, <2>2
<1>10. <<Open, k, Open>> \o <<t, Close, Close>> = <<Open, k, Open, t, Close, Close>>
  <2>. DEFINE x == <<Open, k, Open>>
              y == <<t, Close, Close>>
              z == <<Open, k, Open, t, Close, Close>>
  <2>0. Open \in Token /\ Close \in Token
    BY Texts
  <2>1. x \in Seq(Token) /\ y \in Seq(Token) /\ z \in Seq(Token) /\ Len(x) = 3 /\ Len(y) = 3 /\ Len(z) = 6
    BY <1>1, <2>0
  <2>2. /\ x \o y \in Seq(Token) /\ Len(x \o y) = Len(x) + Len(y)
        /\ \A i \in 1 .. Len(x) + Len(y) : (x \o y)[i] = IF i <= Len(x) THEN x[i] ELSE y[i - Len(x)]
    <3>. HIDE DEF x, y
    <3>1. QED
      BY <2>1, ConcatProperties
  <2>3. /\ \A i \in 1 .. 3 : x[i] = z[i]
        /\ \A i \in 4 .. 6 : y[i - 3] = z[i]
    OBVIOUS
  <2>4. \A i \in 1 .. 6 : (x \o y)[i] = z[i]
    <3>. HIDE DEF x, y, z
    <3>1. TAKE i \in 1 .. 6
    <3>2. CASE i <= 3
      <4>1. i \in 1 .. 3
        BY <3>2
      <4>2. QED
        BY <2>1, <2>2, <2>3, <3>2, <4>1
    <3>3. CASE ~(i <= 3)
      <4>1. i \in 4 .. 6
        BY <3>3
      <4>2. QED
        BY <2>1, <2>2, <2>3, <3>3, <4>1
    <3>4. QED
      BY <3>2, <3>3
  <2>5. QED
    <3>. HIDE DEF x, y, z
    <3>1. x \o y = z
      <4>. DEFINE v == x \o y
      <4>1. v \in Seq(Token) /\ Len(v) = Len(z) /\ \A i \in 1 .. Len(v) : v[i] = z[i]
        BY <2>1, <2>2, <2>4
      <4>. HIDE DEF v
      <4>2. v = z
        BY <2>1, <4>1, SeqEqual
      <4>3. QED
        BY <4>2 DEF v
    <3>2. QED
      BY <3>1 DEF x, y, z
<1>11. IsJson(<<Open, k, Open, t, Close, Close>>)
  BY <1>8, <1>9, <1>10, PhraseIsJson
<1>12. QED
  BY <1>11 DEF k, t

-----------------------------------------------------------------------------
\* The routing table

L2 == Append(O1, "list")
N3 == Append(L2, "open")
N4 == Append(N3, "list")
N5 == Append(N4, "open")

LEMMA TableStacks ==
  /\ L2 \in Stack /\ N3 \in Stack /\ N4 \in Stack /\ N5 \in Stack
  /\ L2 # <<>> /\ N3 # <<>> /\ N4 # <<>> /\ N5 # <<>>
  /\ Last(L2) = "list" /\ Last(N3) = "open" /\ Last(N4) = "list" /\ Last(N5) = "open"
<1>1. L2 \in Stack /\ L2 # <<>> /\ Last(L2) = "list"
  BY OpenStacks, Stacks DEF L2
<1>2. N3 \in Stack /\ N3 # <<>> /\ Last(N3) = "open"
  BY <1>1, Stacks DEF N3
<1>3. N4 \in Stack /\ N4 # <<>> /\ Last(N4) = "list"
  BY <1>2, Stacks DEF N4
<1>4. N5 \in Stack /\ N5 # <<>> /\ Last(N5) = "open"
  BY <1>3, Stacks DEF N5
<1>5. QED
  BY <1>1, <1>2, <1>3, <1>4

LEMMA JoinedFour ==
  ASSUME NEW a \in Token, NEW b \in Token, NEW c \in Token, NEW d \in Token
  PROVE  <<a, b, c>> \o <<d>> = <<a, b, c, d>>
<1>1. /\ <<a, b, c>> \in Seq(Token) /\ Len(<<a, b, c>>) = 3
      /\ <<a, b, c, d>> \in Seq(Token) /\ Len(<<a, b, c, d>>) = 3 + 1
      /\ <<a, b, c, d>>[3 + 1] = d /\ \A i \in 1 .. 3 : <<a, b, c, d>>[i] = <<a, b, c>>[i]
  OBVIOUS
<1>2. QED
  BY <1>1, Joined

ContainersOf(containers) == [i \in DOMAIN containers |-> <<Open, Field(containers[i]), Close, Comma>>]

LEMMA ContainerItem ==
  ASSUME NEW k \in Name
  PROVE  <<Open, Field(k), Close, Comma>> \in Text /\ Item(N4, <<Open, Field(k), Close, Comma>>, "open", "close")
<1>. DEFINE t == Field(k)
<1>1. t \in Token /\ t.token = "field" /\ Open \in Token /\ Close \in Token /\ Comma \in Token
  BY SectionTokens, Texts
<1>. HIDE DEF t
<1>2. Phrase(N4, <<Open>>, N5, "open", "open") /\ Phrase(N5, <<Close>>, N4, "close", "close")
  BY TableStacks, OpensAndCloses DEF N5
<1>3. Phrase(N5, <<t>>, N5, "field", "field")
  BY <1>1, TableStacks, PlainToken
<1>4. Phrase(N4, <<Open>> \o <<t>>, N5, "open", "field")
  BY <1>2, <1>3, TableStacks, Grammar, PhraseConcat
<1>5. Phrase(N4, (<<Open>> \o <<t>>) \o <<Close>>, N4, "open", "close")
  BY <1>2, <1>4, TableStacks, Grammar, PhraseConcat
<1>6. (<<Open>> \o <<t>>) \o <<Close>> = <<Open, t, Close>>
  BY <1>1, JoinedThree
<1>7. <<Open, t, Close>> \o <<Comma>> = <<Open, t, Close, Comma>>
  BY <1>1, JoinedFour
<1>8. Item(N4, <<Open, t, Close, Comma>>, "open", "close")
  BY <1>5, <1>6, <1>7 DEF Item
<1>9. <<Open, t, Close, Comma>> \in Text
  BY <1>1 DEF Text
<1>10. QED
  BY <1>8, <1>9 DEF t

NodeHead == <<Open, Field("node"), Comma, Key("port_table")>>

LEMMA NodeHeadPhrase == Phrase(L2, NodeHead, N3, "open", "key")
<1>. DEFINE t == Field("node")
            k == Key("port_table")
<1>1. /\ t \in Token /\ t.token = "field" /\ k \in Token /\ k.token = "key"
      /\ Open \in Token /\ Comma \in Token /\ Comma.token = "comma"
  BY SectionTokens, Tokens, CommaText DEF Name
<1>. HIDE DEF t, k
<1>2. Phrase(L2, <<Open>>, N3, "open", "open")
  BY TableStacks, OpensAndCloses DEF N3
<1>3. /\ Phrase(N3, <<t>>, N3, "field", "field") /\ Phrase(N3, <<k>>, N3, "key", "key")
      /\ Phrase(N3, <<Comma>>, N3, "comma", "comma")
  BY <1>1, TableStacks, PlainToken
<1>4. Phrase(L2, <<Open>> \o <<t>>, N3, "open", "field")
  BY <1>2, <1>3, TableStacks, Grammar, PhraseConcat
<1>5. Phrase(L2, (<<Open>> \o <<t>>) \o <<Comma>>, N3, "open", "comma")
  BY <1>3, <1>4, TableStacks, Grammar, PhraseConcat
<1>6. (<<Open>> \o <<t>>) \o <<Comma>> = <<Open, t, Comma>>
  BY <1>1, JoinedThree
<1>7. Phrase(L2, <<Open, t, Comma>> \o <<k>>, N3, "open", "key")
  BY <1>3, <1>5, <1>6, TableStacks, Grammar, PhraseConcat
<1>8. <<Open, t, Comma>> \o <<k>> = <<Open, t, Comma, k>>
  BY <1>1, JoinedFour
<1>9. QED
  BY <1>7, <1>8 DEF NodeHead, t, k

\* What stands between the lists of a node
NodeMiddle == <<End, Comma, Key("containers"), List>>

LEMMA NodeMiddlePhrase == Phrase(N4, NodeMiddle, N4, "end", "list")
<1>. DEFINE k == Key("containers")
<1>1. /\ k \in Token /\ k.token = "key" /\ End \in Token /\ List \in Token
      /\ Comma \in Token /\ Comma.token = "comma"
  BY SectionTokens, Tokens, CommaText DEF Name
<1>. HIDE DEF k
<1>2. Phrase(N4, <<End>>, N3, "end", "end") /\ Phrase(N3, <<List>>, N4, "list", "list")
  BY TableStacks, OpensAndCloses DEF N4
<1>3. /\ Phrase(N3, <<k>>, N3, "key", "key")
      /\ Phrase(N3, <<Comma>>, N3, "comma", "comma")
  BY <1>1, TableStacks, PlainToken
<1>4. Phrase(N4, <<End>> \o <<Comma>>, N3, "end", "comma")
  BY <1>2, <1>3, TableStacks, Grammar, PhraseConcat
<1>5. Phrase(N4, (<<End>> \o <<Comma>>) \o <<k>>, N3, "end", "key")
  BY <1>3, <1>4, TableStacks, Grammar, PhraseConcat
<1>6. (<<End>> \o <<Comma>>) \o <<k>> = <<End, Comma, k>>
  BY <1>1, JoinedThree
<1>7. Phrase(N4, <<End, Comma, k>> \o <<List>>, N4, "end", "list")
  BY <1>2, <1>5, <1>6, TableStacks, Grammar, PhraseConcat, ZenonT(30)
<1>8. <<End, Comma, k>> \o <<List>> = <<End, Comma, k, List>>
  BY <1>1, JoinedFour
<1>9. QED
  BY <1>7, <1>8 DEF NodeMiddle, k

\* Items behind a text, without their last comma
LEMMA WithoutComma ==
  ASSUME NEW a, NEW head, NEW u \in Stack, u # <<>>, NEW k1, NEW k2, NEW text, NEW first, NEW final,
         Phrase(a, head, u, k1, k2), Item(u, text, first, final), MayCome(k2, first, Last(u))
  PROVE  Phrase(a, Front(head \o text), u, k1, final)
<1>1. PICK body : text = body \o <<Comma>> /\ Phrase(u, body, u, first, final)
  BY DEF Item
<1>2. head \in Text /\ body \in Text
  BY <1>1 DEF Phrase
<1>3. Phrase(a, head \o body, u, k1, final)
  BY <1>1, PhraseConcat
<1>4. (head \o body) \o <<Comma>> = head \o (body \o <<Comma>>)
  BY <1>2, CommaText, TextAssociative
<1>. DEFINE hb == head \o body
<1>5. hb \in Text
  BY <1>3 DEF Phrase
<1>6. Front(hb \o <<Comma>>) = hb
  <2>. HIDE DEF hb
  <2>1. QED
    BY <1>5, CommaText, FrontOfConcat DEF Text
<1>7. Front(head \o text) = hb
  BY <1>1, <1>4, <1>6
<1>8. QED
  BY <1>3, <1>7

PortsOf(ports) == [p \in 1 .. ports |-> <<Number, Comma>>]

\* The list of the ports, up to its bracket, when one to three have a neighbour
LEMMA PortPhrase ==
  ASSUME NEW ports \in 1 .. 3
  PROVE  Phrase(N3, PortList(ports), N4, "list", "number")
<1>. DEFINE items == PortsOf(ports)
            flat  == FlattenSeq(items)
<1>1. Number \in Token /\ Number.token = "number" /\ Comma \in Token
  BY Tokens DEF Number
<1>2. Phrase(N4, <<Number>>, N4, "number", "number")
  BY <1>1, TableStacks, PlainToken
<1>3. <<Number>> \o <<Comma>> = <<Number, Comma>> /\ <<Number, Comma>> \in Text
  BY <1>1, JoinedTokens
<1>4. Item(N4, <<Number, Comma>>, "number", "number")
  BY <1>2, <1>3 DEF Item
<1>5. items \in [1 .. ports -> Text] /\ \A i \in 1 .. ports : items[i] = <<Number, Comma>>
  BY <1>3 DEF PortsOf
<1>. HIDE DEF items
<1>6. items \in Seq(Text) /\ Len(items) = ports
  <2>1. ports \in Nat
    OBVIOUS
  <2>2. QED
    BY <1>5, <2>1, FunctionIsSeq
<1>7. /\ N4 \in Stack /\ N4 # <<>> /\ MayCome("number", "comma", Last(N4)) /\ MayCome("comma", "number", Last(N4))
  BY TableStacks, Grammar
<1>8. \A i \in 1 .. Len(items) : items[i] = <<>> \/ Item(N4, items[i], "number", "number")
  BY <1>4, <1>5, <1>6
<1>9. /\ flat = <<>> \/ Item(N4, flat, "number", "number")
      /\ flat = <<>> => \A i \in 1 .. Len(items) : items[i] = <<>>
  BY <1>6, <1>7, <1>8, ItemsRead
<1>10. 1 \in 1 .. Len(items) /\ items[1] # <<>>
  <2>1. 1 \in 1 .. ports
    OBVIOUS
  <2>2. items[1] = <<Number, Comma>>
    BY <1>5, <2>1
  <2>3. QED
    BY <1>6, <2>1, <2>2
<1>. HIDE DEF flat
<1>11. Item(N4, flat, "number", "number")
  BY <1>9, <1>10
<1>12. Phrase(N3, <<List>>, N4, "list", "list")
  BY TableStacks, OpensAndCloses DEF N4
<1>13. Phrase(N3, Front(<<List>> \o flat), N4, "list", "number")
  BY <1>7, <1>11, <1>12, TableStacks, Grammar, WithoutComma
<1>14. PortList(ports) = Front(<<List>> \o flat)
  BY DEF PortList, flat, items, PortsOf
<1>15. QED
  BY <1>13, <1>14

\* A node up to its containers
NodeStart(ports) == (NodeHead \o PortList(ports)) \o NodeMiddle

LEMMA NodeStartPhrase ==
  ASSUME NEW ports \in 1 .. 3
  PROVE  Phrase(L2, NodeStart(ports), N4, "open", "list")
<1>. DEFINE list == PortList(ports)
<1>1. Phrase(N3, list, N4, "list", "number")
  BY PortPhrase
<1>. HIDE DEF list
<1>2. Phrase(L2, NodeHead \o list, N4, "open", "number")
  BY <1>1, NodeHeadPhrase, TableStacks, Grammar, PhraseConcat
<1>3. Phrase(L2, (NodeHead \o list) \o NodeMiddle, N4, "open", "list")
  BY <1>2, NodeMiddlePhrase, TableStacks, Grammar, PhraseConcat
<1>4. QED
  BY <1>3 DEF NodeStart, list

LEMMA NodePhrase ==
  ASSUME NEW containers \in Seq(Name), containers # <<>>, NEW ports \in 1 .. 3
  PROVE  NodeJson(containers, ports) \in Text /\ NodeJson(containers, ports) # <<>>
         /\ Item(L2, NodeJson(containers, ports), "open", "close")
<1>. DEFINE items == ContainersOf(containers)
            flat  == FlattenSeq(items)
            start == NodeStart(ports)
            front == Front(start \o flat)
<1>1. Len(containers) \in Nat /\ Len(containers) # 0 /\ DOMAIN containers = 1 .. Len(containers)
      /\ \A i \in 1 .. Len(containers) : containers[i] \in Name
  OBVIOUS
<1>2. \A i \in 1 .. Len(containers) :
        items[i] \in Text /\ Item(N4, items[i], "open", "close")
  BY <1>1, ContainerItem DEF ContainersOf
<1>3. items \in Seq(Text) /\ Len(items) = Len(containers)
  <2>1. items \in [1 .. Len(containers) -> Text]
    BY <1>1, <1>2 DEF ContainersOf
  <2>2. QED
    BY <1>1, <2>1
<1>. HIDE DEF items
<1>4. /\ N4 \in Stack /\ N4 # <<>> /\ MayCome("close", "comma", Last(N4)) /\ MayCome("comma", "open", Last(N4))
  BY TableStacks, Grammar
<1>5. /\ flat = <<>> \/ Item(N4, flat, "open", "close")
      /\ flat = <<>> => \A i \in 1 .. Len(items) : items[i] = <<>>
  BY <1>2, <1>3, <1>4, ItemsRead
<1>6. items[1] # <<>>
  <2>1. items[1] = <<Open, Field(containers[1]), Close, Comma>>
    BY <1>1 DEF items, ContainersOf
  <2>2. QED
    BY <2>1
<1>7. Item(N4, flat, "open", "close")
  BY <1>1, <1>3, <1>5, <1>6
<1>8. Phrase(L2, front, N4, "open", "close")
  <2>1. Phrase(L2, start, N4, "open", "list")
    BY NodeStartPhrase
  <2>. HIDE DEF flat, start
  <2>2. QED
    BY <1>4, <1>7, <2>1, TableStacks, Grammar, WithoutComma
<1>. HIDE DEF front, flat, start
<1>9. Phrase(N4, <<End>>, N3, "end", "end") /\ Phrase(N3, <<Close>>, L2, "close", "close")
  BY TableStacks, OpensAndCloses DEF N3, N4
<1>10. Phrase(L2, front \o <<End>>, N3, "open", "end")
  BY <1>8, <1>9, TableStacks, Grammar, PhraseConcat
<1>11. Phrase(L2, (front \o <<End>>) \o <<Close>>, L2, "open", "close")
  BY <1>9, <1>10, TableStacks, Grammar, PhraseConcat
<1>12. NodeJson(containers, ports) = ((front \o <<End>>) \o <<Close>>) \o <<Comma>>
  <2>1. NodeJson(containers, ports) = front \o <<End, Close, Comma>>
    BY DEF NodeJson, front, flat, items, start, ContainersOf, NodeStart, NodeHead, NodeMiddle
  <2>2. End \in Token /\ Close \in Token /\ Comma \in Token
    BY Tokens
  <2>3. (<<End>> \o <<Close>>) \o <<Comma>> = <<End, Close, Comma>>
    BY <2>2, JoinedThree
  <2>4. front \in Text /\ <<End>> \in Text /\ <<Close>> \in Text /\ <<Comma>> \in Text
        /\ <<End>> \o <<Close>> \in Text
    BY <1>8, <2>2, RanksConcat DEF Phrase, Text
  <2>5. (front \o (<<End>> \o <<Close>>)) \o <<Comma>> = front \o ((<<End>> \o <<Close>>) \o <<Comma>>)
    BY <2>4, TextAssociative
  <2>6. (front \o <<End>>) \o <<Close>> = front \o (<<End>> \o <<Close>>)
    BY <2>4, TextAssociative
  <2>7. QED
    BY <2>1, <2>3, <2>5, <2>6
<1>. DEFINE body == (front \o <<End>>) \o <<Close>>
<1>13. body \in Text /\ Item(L2, NodeJson(containers, ports), "open", "close")
  BY <1>11, <1>12 DEF Phrase, Item
<1>14. body \o <<Comma>> \in Text /\ body \o <<Comma>> # <<>>
  <2>1. body \in Text
    BY <1>13
  <2>. HIDE DEF body
  <2>2. QED
    BY <2>1, CommaText, RanksConcat, FrontOfConcat DEF Text
<1>15. QED
  BY <1>12, <1>13, <1>14

TableHead == <<Open, Key("routing_table"), List>>

LEMMA TableHeadPhrase == Phrase(<<>>, TableHead, L2, "open", "list")
<1>. DEFINE k == Key("routing_table")
<1>1. k \in Token /\ k.token = "key" /\ Open \in Token /\ List \in Token
  BY SectionTokens, Tokens DEF Name
<1>. HIDE DEF k
<1>2. Phrase(<<>>, <<Open>>, O1, "open", "open") /\ Phrase(O1, <<List>>, L2, "list", "list")
  BY OpenStacks, OpensAndCloses DEF O1, L2
<1>3. Phrase(O1, <<k>>, O1, "key", "key")
  BY <1>1, OpenStacks, PlainToken
<1>4. Phrase(<<>>, <<Open>> \o <<k>>, O1, "open", "key")
  BY <1>2, <1>3, OpenStacks, Grammar, PhraseConcat
<1>5. Phrase(<<>>, (<<Open>> \o <<k>>) \o <<List>>, L2, "open", "list")
  BY <1>2, <1>4, OpenStacks, Grammar, PhraseConcat
<1>6. (<<Open>> \o <<k>>) \o <<List>> = <<Open, k, List>>
  BY <1>1, JoinedThree
<1>7. QED
  BY <1>5, <1>6 DEF TableHead, k

NodesOf(nodes, ports) == [i \in DOMAIN nodes |-> NodeJson(nodes[i], ports[i])]

LEMMA TableIsJson ==
  ASSUME NEW nodes \in Seq(Seq(Name)), nodes # <<>>, \A i \in DOMAIN nodes : nodes[i] # <<>>,
         NEW ports, \A i \in DOMAIN nodes : ports[i] \in 1 .. 3
  PROVE  IsJson(RoutingTableJson(nodes, ports))
<1>. DEFINE items == NodesOf(nodes, ports)
            flat  == FlattenSeq(items)
            front == Front(TableHead \o flat)
<1>1. Len(nodes) \in Nat /\ Len(nodes) # 0 /\ DOMAIN nodes = 1 .. Len(nodes)
      /\ \A i \in 1 .. Len(nodes) : nodes[i] \in Seq(Name) /\ nodes[i] # <<>> /\ ports[i] \in 1 .. 3
  OBVIOUS
<1>2. \A i \in 1 .. Len(nodes) :
        items[i] \in Text /\ items[i] # <<>> /\ Item(L2, items[i], "open", "close")
  BY <1>1, NodePhrase DEF NodesOf
<1>3. items \in Seq(Text) /\ Len(items) = Len(nodes)
  <2>1. items \in [1 .. Len(nodes) -> Text]
    BY <1>1, <1>2 DEF NodesOf
  <2>. DEFINE n == Len(nodes)
  <2>2. n \in Nat
    BY <1>1
  <2>. HIDE DEF items, n
  <2>3. items \in Seq(Text) /\ Len(items) = n
    BY <2>1, <2>2, FunctionIsSeq DEF n
  <2>4. QED
    BY <2>3 DEF n
<1>. HIDE DEF items
<1>4. /\ L2 \in Stack /\ L2 # <<>> /\ MayCome("close", "comma", Last(L2)) /\ MayCome("comma", "open", Last(L2))
  BY TableStacks, Grammar
<1>5. /\ flat = <<>> \/ Item(L2, flat, "open", "close")
      /\ flat = <<>> => \A i \in 1 .. Len(items) : items[i] = <<>>
  BY <1>2, <1>3, <1>4, ItemsRead
<1>6. Item(L2, flat, "open", "close")
  BY <1>1, <1>2, <1>3, <1>5
<1>7. Phrase(<<>>, front, L2, "open", "close")
  <2>. HIDE DEF flat
  <2>1. QED
    BY <1>4, <1>6, TableHeadPhrase, TableStacks, Grammar, WithoutComma
<1>. HIDE DEF front, flat
<1>8. Phrase(L2, <<End>>, O1, "end", "end") /\ Phrase(O1, <<Close>>, <<>>, "close", "close")
  BY OpenStacks, OpensAndCloses DEF O1, L2
<1>9. Phrase(L2, <<End>> \o <<Close>>, <<>>, "end", "close")
  BY <1>8, OpenStacks, Grammar, PhraseConcat
<1>10. Phrase(<<>>, front \o (<<End>> \o <<Close>>), <<>>, "open", "close")
  BY <1>7, <1>9, TableStacks, Grammar, PhraseConcat
<1>11. <<End>> \o <<Close>> = <<End, Close>>
  BY Tokens, JoinedTokens
<1>12. RoutingTableJson(nodes, ports) = front \o <<End, Close>>
  BY DEF RoutingTableJson, front, flat, items, NodesOf, TableHead
<1>13. QED
  BY <1>10, <1>11, <1>12, PhraseIsJson

LEMMA NodesType ==
  /\ Nodes \in Seq(Seq(Name)) /\ Nodes # <<>>
  /\ \A i \in DOMAIN Nodes : Nodes[i] # <<>>
<1>. DEFINE alive == [i \in DOMAIN Boards |-> Alive(Boards[i])]
            kept  == {i \in DOMAIN alive : alive[i] # <<>>}
            heard == Selected(alive, kept)
            gate  == <<<<"gate">>>>
<1>1. Boards \in Seq(Seq(Container))
  BY RefreshAssumption
<1>2. ASSUME NEW board \in Seq(Container) PROVE Alive(board) \in Seq(Container)
  <2>. DEFINE up == {i \in DOMAIN board : board[i] \in known}
  <2>1. up \in SUBSET (1 .. Len(board))
    OBVIOUS
  <2>. HIDE DEF up
  <2>2. Selected(board, up) \in Seq(Container)
    BY <2>1, SelectedPositions
  <2>3. QED
    BY <2>2 DEF Alive, up
<1>3. alive \in Seq(Seq(Container)) /\ DOMAIN alive = 1 .. Len(alive)
  <2>1. DOMAIN Boards = 1 .. Len(Boards) /\ Len(Boards) \in Nat /\ \A i \in DOMAIN Boards : Boards[i] \in Seq(Container)
    BY <1>1
  <2>2. alive \in [1 .. Len(Boards) -> Seq(Container)]
    BY <1>2, <2>1
  <2>3. QED
    BY <2>1, <2>2
<1>4. kept \in SUBSET (1 .. Len(alive)) /\ \A i \in kept : alive[i] # <<>>
  BY <1>3
<1>. HIDE DEF alive, kept
<1>5. heard \in Seq(Seq(Container)) /\ Len(heard) = Cardinality(kept)
  BY <1>3, <1>4, SelectedPositions
<1>6. \A k \in 1 .. Len(heard) : heard[k] # <<>>
  <2>. DEFINE n == Cardinality(kept)
  <2>1. \E pos \in [1 .. n -> kept] :
          /\ \A k, l \in 1 .. n : k < l => pos[k] < pos[l]
          /\ \A i \in kept : \E k \in 1 .. n : pos[k] = i
          /\ \A k \in 1 .. n : Rank(kept, pos[k]) = k
          /\ \A k \in 1 .. n : heard[k] = alive[pos[k]]
    BY <1>3, <1>4, SelectedPositions, ZenonT(30)
  <2>. HIDE DEF heard
  <2>2. PICK pos \in [1 .. n -> kept] : \A k \in 1 .. n : heard[k] = alive[pos[k]]
    <3>. HIDE DEF n
    <3>1. QED
      BY <2>1
  <2>3. Len(heard) = n
    BY <1>5
  <2>. HIDE DEF n
  <2>4. QED
    BY <1>4, <2>2, <2>3
<1>. HIDE DEF heard
<1>7. gate \in Seq(Seq(Name)) /\ Len(gate) = 1 /\ gate[1] = <<"gate">> /\ <<"gate">> # <<>>
  BY DEF Name
<1>8. heard \in Seq(Seq(Name))
  <2>1. Seq(Container) \subseteq Seq(Name)
    BY SeqMonotonic DEF Name
  <2>2. Seq(Seq(Container)) \subseteq Seq(Seq(Name))
    BY <2>1, SeqMonotonic
  <2>3. QED
    BY <1>5, <2>2
<1>. HIDE DEF gate
<1>9. /\ gate \o heard \in Seq(Seq(Name)) /\ Len(gate \o heard) = 1 + Len(heard)
      /\ \A i \in 1 .. 1 + Len(heard) : (gate \o heard)[i] = IF i <= 1 THEN gate[i] ELSE heard[i - 1]
  <2>1. /\ gate \o heard \in Seq(Seq(Name)) /\ Len(gate \o heard) = Len(gate) + Len(heard)
        /\ \A i \in 1 .. Len(gate) + Len(heard) :
             (gate \o heard)[i] = IF i <= Len(gate) THEN gate[i] ELSE heard[i - Len(gate)]
    BY <1>7, <1>8, ConcatProperties
  <2>2. Len(gate) = 1
    BY <1>7
  <2>3. QED
    BY <2>1, <2>2
<1>10. Nodes = gate \o heard
  BY DEF Nodes, alive, kept, heard, gate
<1>11. Len(heard) \in Nat
  BY <1>8
<1>. DEFINE all == gate \o heard
<1>. HIDE DEF all
<1>12. /\ all \in Seq(Seq(Name)) /\ Len(all) = 1 + Len(heard) /\ DOMAIN all = 1 .. 1 + Len(heard)
       /\ \A i \in 1 .. 1 + Len(heard) : all[i] = IF i <= 1 THEN gate[i] ELSE heard[i - 1]
  <2>1. all \in Seq(Seq(Name)) /\ Len(all) = 1 + Len(heard)
        /\ \A i \in 1 .. 1 + Len(heard) : all[i] = IF i <= 1 THEN gate[i] ELSE heard[i - 1]
    BY <1>9 DEF all
  <2>2. QED
    BY <2>1
<1>13. \A i \in DOMAIN all : all[i] # <<>>
  <2>1. TAKE i \in DOMAIN all
  <2>2. CASE i <= 1
    <3>1. i = 1
      BY <1>11, <1>12, <2>2
    <3>2. QED
      BY <1>7, <1>12, <2>2, <3>1
  <2>3. CASE ~(i <= 1)
    <3>1. i - 1 \in 1 .. Len(heard)
      BY <1>11, <1>12, <2>3
    <3>2. QED
      BY <1>6, <1>12, <2>3, <3>1
  <2>4. QED
    BY <2>2, <2>3
<1>14. all # <<>>
  BY <1>11, <1>12
<1>15. Nodes = all
  BY <1>10 DEF all
<1>16. QED
  BY <1>12, <1>13, <1>14, <1>15

-----------------------------------------------------------------------------
\* The lines are JSON

\* A single section, when format_data has closed it
Closed(json) == Phrase(O1, json, O1, "open", "close") /\ HasOne(json)

\* The object of the buffer with a single section, which lacks its last bracket;
\* or several sections
Sound(json) == HasMany(json) \/ (Phrase(<<>>, json, O1, "open", "close") /\ HasOne(json))

GoodLine(json) == IsJson(json) \/ (json \in Text /\ HasMany(json))

GoodBuffer(json) == json = <<>> \/ Sound(json)

\* What the loop is about to add to the buffer
GoodThread(pc, json, buffer) ==
  /\ pc = "format" => json = <<>> \/ HasMany(json) \/ OneSection(json)
  /\ pc = "test" => HasMany(json) \/ Closed(json)
  /\ pc = "seek" => HasMany(buffer \o json)
  /\ pc = "write" => Sound(buffer \o json)
  /\ pc # "write" => GoodBuffer(buffer)

\* The buffer is an object that lacks its last bracket, also with the text that
\* is being written; or it has sections of two containers or turns, and nothing
\* is said of it.
LinesShaped ==
  collided \/ ((mixed \/ GoodLine(line)) /\ GoodThread(thread.pc, thread.json, refresh_json))

JsonInv == KeptInv /\ LinesShaped

LEMMA JsonImplies == JsonInv => LoneSectionsAreJson
<1>. SUFFICES ASSUME JsonInv, ~collided, ~mixed, ~IsJson(line) PROVE Cardinality(Sections(line)) > 1
  BY DEF LoneSectionsAreJson, Disturbed
<1>1. line \in Text /\ HasMany(line)
  BY DEF JsonInv, LinesShaped, GoodLine
<1>2. QED
  BY <1>1, ManyCounted

LEMMA JsonInit == Init => JsonInv
<1>. SUFFICES ASSUME Init PROVE JsonInv
  OBVIOUS
<1>1. line = <<Open, Close>> /\ thread.pc = "start" /\ refresh_json = <<>>
  BY DEF Init, At
<1>2. IsJson(line)
  BY <1>1, EmptyObject
<1>3. QED
  BY <1>1, <1>2, KeptInit DEF JsonInv, LinesShaped, GoodLine, GoodThread, GoodBuffer

LEMMA SoundHasOne ==
  ASSUME NEW json, Sound(json)
  PROVE  HasOne(json)
BY ManyHasOne DEF Sound

\* Sections are added to those of the same turn.
LEMMA SectionAdded ==
  ASSUME NEW json \in Text, NEW c \in Container, NEW msgs \in Seq(MessageType),
         json = <<>> \/ HasMany(json) \/ OneSection(json)
  PROVE  HasMany(json \o Section(c, msgs)) \/ OneSection(json \o Section(c, msgs))
<1>. DEFINE new == Section(c, msgs)
<1>1. new \in Text /\ OneSection(new)
  BY SectionRanks, SectionPhrase
<1>2. ASSUME NEW text, OneSection(text) PROVE HasOne(text)
  <2>1. PICK body : text = body \o <<Comma>> /\ Phrase(O1, body, O2, "open", "close") /\ HasOne(body)
    BY <1>2 DEF OneSection
  <2>2. body \in Text
    BY <2>1 DEF Phrase
  <2>3. QED
    BY <2>1, <2>2, CommaText, SectionsConcat
<1>. HIDE DEF new
<1>3. CASE json = <<>>
  <2>1. json \o new = new
    BY <1>1, <1>3, ConcatEmptySeq DEF Text
  <2>2. QED
    BY <1>1, <2>1 DEF new
<1>4. CASE HasMany(json)
  BY <1>1, <1>4, SectionsConcat DEF new
<1>5. CASE OneSection(json)
  <2>1. HasOne(json) /\ HasOne(new)
    BY <1>1, <1>2, <1>5
  <2>2. QED
    BY <1>1, <2>1, SectionsConcat DEF new
<1>6. QED
  BY <1>3, <1>4, <1>5

\* The end of the formatting closes the last section.
LEMMA SectionsClosed ==
  ASSUME NEW json \in Text, json # <<>>, HasMany(json) \/ OneSection(json)
  PROVE  HasMany(TrimComma(json) \o <<Close>>) \/ Closed(TrimComma(json) \o <<Close>>)
<1>1. <<Close>> \in Text
  BY Texts
<1>2. CASE HasMany(json)
  <2>1. TrimComma(json) \in Text /\ HasMany(TrimComma(json))
    BY <1>2, TrimType, SectionsTrim
  <2>2. QED
    BY <1>1, <2>1, SectionsConcat
<1>3. CASE OneSection(json)
  <2>1. PICK body : json = body \o <<Comma>> /\ Phrase(O1, body, O2, "open", "close") /\ HasOne(body)
    BY <1>3 DEF OneSection
  <2>2. body \in Text
    BY <2>1 DEF Phrase
  <2>3. TrimComma(json) = body
    <3>1. Front(body \o <<Comma>>) = body /\ Last(body \o <<Comma>>) = Comma
      BY <2>2, CommaText, FrontOfConcat DEF Text
    <3>2. QED
      BY <2>1, <3>1 DEF TrimComma
  <2>4. Phrase(O2, <<Close>>, O1, "close", "close")
    BY OpenStacks, OpensAndCloses DEF O2
  <2>5. Phrase(O1, body \o <<Close>>, O1, "open", "close")
    BY <2>1, <2>4, OpenStacks, Grammar, PhraseConcat
  <2>6. HasOne(body \o <<Close>>)
    BY <1>1, <2>1, <2>2, SectionsConcat
  <2>7. QED
    BY <2>3, <2>5, <2>6 DEF Closed
<1>4. QED
  BY <1>2, <1>3

\* A closed text starts the buffer, or makes a second section behind the first.
LEMMA BufferStarted ==
  ASSUME NEW json \in Text, HasMany(json) \/ Closed(json)
  PROVE  Sound(<<>> \o (<<Open, Key("containers")>> \o json))
<1>. DEFINE k == Key("containers")
            head == <<Open>> \o <<k>>
<1>1. k \in Token /\ k.token = "key"
  BY SectionTokens DEF Name
<1>. HIDE DEF k
<1>2. Phrase(<<>>, <<Open>>, O1, "open", "open")
  BY OpenStacks, OpensAndCloses DEF O1
<1>3. Phrase(O1, <<k>>, O1, "key", "key")
  BY <1>1, OpenStacks, PlainToken
<1>4. Phrase(<<>>, head, O1, "open", "key")
  BY <1>2, <1>3, OpenStacks, Grammar, PhraseConcat
<1>5. head = <<Open, k>> /\ head \in Text
  <2>1. head = <<Open, k>>
    BY <1>1, Texts, JoinedTokens
  <2>2. QED
    BY <1>4, <2>1 DEF Phrase
<1>. HIDE DEF head
<1>6. Sound(head \o json) /\ head \o json \in Text
  <2>1. head \o json \in Text
    BY <1>5, RanksConcat
  <2>2. CASE HasMany(json)
    BY <1>5, <2>1, <2>2, SectionsConcat DEF Sound
  <2>3. CASE Closed(json)
    <3>1. Phrase(<<>>, head \o json, O1, "open", "close")
      BY <1>4, <2>3, OpenStacks, Grammar, PhraseConcat DEF Closed
    <3>2. HasOne(head \o json)
      BY <1>5, <2>3, SectionsConcat DEF Closed
    <3>3. QED
      BY <2>1, <3>1, <3>2 DEF Sound
  <2>4. QED
    BY <2>1, <2>2, <2>3
<1>. DEFINE text == head \o json
<1>7. <<>> \o text = text
  <2>1. text \in Seq(Token)
    BY <1>6 DEF Text
  <2>. HIDE DEF text
  <2>2. QED
    BY <2>1, ConcatEmptySeq
<1>8. QED
  BY <1>5, <1>6, <1>7 DEF k

LEMMA BufferContinued ==
  ASSUME NEW buffer \in Text, NEW json \in Text, Sound(buffer), HasMany(json) \/ Closed(json)
  PROVE  HasMany(buffer \o (<<Comma>> \o json))
<1>1. HasOne(buffer) /\ HasOne(json)
  BY SoundHasOne, ManyHasOne DEF Closed
<1>2. <<Comma>> \o json \in Text /\ HasOne(<<Comma>> \o json)
  BY <1>1, CommaText, RanksConcat, SectionsConcat
<1>3. QED
  BY <1>1, <1>2, SectionsConcat

\* What is printed is closed.
LEMMA BufferPrinted ==
  ASSUME NEW buffer \in Text, Sound(buffer)
  PROVE  GoodLine(buffer \o <<Close>>)
<1>1. <<Close>> \in Text
  BY Texts
<1>2. CASE HasMany(buffer)
  <2>1. buffer \o <<Close>> \in Text /\ HasMany(buffer \o <<Close>>)
    BY <1>1, <1>2, RanksConcat, SectionsConcat
  <2>2. QED
    BY <2>1 DEF GoodLine
<1>3. CASE ~HasMany(buffer)
  <2>1. Phrase(<<>>, buffer, O1, "open", "close")
    BY <1>3 DEF Sound
  <2>2. Phrase(O1, <<Close>>, <<>>, "close", "close")
    BY OpenStacks, OpensAndCloses DEF O1
  <2>3. Phrase(<<>>, buffer \o <<Close>>, <<>>, "open", "close")
    BY <2>1, <2>2, OpenStacks, Grammar, PhraseConcat
  <2>4. QED
    BY <2>3, PhraseIsJson DEF GoodLine
<1>4. QED
  BY <1>2, <1>3

LEMMA ShapeStep ==
  ASSUME PortsListed, RefreshTypes, InPlace, LinesShaped, [Next]_vars
  PROVE  LinesShaped'
<1>0. /\ thread \in Threads /\ refresh_json \in Text /\ thread.json \in Text /\ inbox \in Seq(MessageType)
  <2>1. thread \in Threads /\ refresh_json \in Text /\ inbox \in Seq(MessageType)
    BY DEF RefreshTypes
  <2>2. QED
    BY <2>1 DEF Threads
<1>1. CASE collided'
  BY <1>1 DEF LinesShaped
<1>2. ASSUME ~collided' PROVE ~collided
  BY <1>2 DEF Next, Loop, vars, msg_vars, ctx_vars, aux_vars, Publish, SendOther, StartLoop, FormatAssert,
     FormatUnknown, FormatSection, FormatEnd, TestBuffer, SeekEnd, WriteText, PrintTable, Refresh, line_vars, Runs, StartPrint, PrintWithin, Exclude, PrintEnds
<1>3. CASE ~collided'
  <2>0. /\ (mixed \/ GoodLine(line)) /\ GoodThread(thread.pc, thread.json, refresh_json)
        /\ thread.pc = "write" => thread.at = Len(refresh_json)
    BY <1>2, <1>3 DEF InPlace, LinesShaped
  <2>a. /\ thread.pc = "format" => thread.json = <<>> \/ HasMany(thread.json) \/ OneSection(thread.json)
        /\ thread.pc = "test" => HasMany(thread.json) \/ Closed(thread.json)
        /\ thread.pc = "seek" => HasMany(refresh_json \o thread.json)
        /\ thread.pc = "write" => Sound(refresh_json \o thread.json)
        /\ thread.pc # "write" => GoodBuffer(refresh_json)
    BY <2>0 DEF GoodThread
  <2>1. ASSUME GoodLine(line'), UNCHANGED <<thread, refresh_json>> PROVE LinesShaped'
    BY <2>0, <2>1 DEF LinesShaped
  <2>2. ASSUME UNCHANGED <<line, mixed>>, GoodThread(thread'.pc, thread'.json, refresh_json') PROVE LinesShaped'
    BY <2>0, <2>2 DEF LinesShaped
  <2>3. CASE StartLoop
    <3>1. thread.pc \in {"start", "loop"} /\ thread' = At("format", <<>>) /\ UNCHANGED refresh_json
      BY <2>3 DEF StartLoop, ctx_vars, line_vars, Runs
    <3>2. thread'.json = <<>> /\ thread'.pc = "format"
      BY <3>1 DEF At
    <3>3. GoodThread(thread'.pc, thread'.json, refresh_json')
      BY <2>a, <3>1, <3>2 DEF GoodThread
    <3>4. mixed' \/ GoodLine(line')
      BY <2>0, <2>3, DeadJson DEF StartLoop, Exclude, GoodLine, StartPrint, line_vars
    <3>5. QED
      BY <3>3, <3>4 DEF LinesShaped
  <2>4. CASE FormatAssert
    <3>1. inbox # <<>> /\ UNCHANGED <<thread, refresh_json>>
          /\ line' = <<Open, Key("assert"), Open, Field(Head(inbox).source), Close, Close>>
      BY <2>4 DEF FormatAssert, ctx_vars, line_vars, Runs, StartPrint
    <3>2. Head(inbox).source \in Container
      BY <1>0, <3>1, TailOfMessages DEF MessageType
    <3>3. GoodLine(line')
      BY <3>1, <3>2, AssertJson DEF GoodLine
    <3>4. QED
      BY <2>1, <3>1, <3>3
  <2>5. CASE FormatSection
    <3>1. PICK c \in Container, msgs \in Seq(MessageType) :
             thread' = [thread EXCEPT !.json = @ \o Section(c, msgs)]
      BY <2>5, SectionFormatted
    <3>2. thread'.json = thread.json \o Section(c, msgs) /\ thread'.pc = "format" /\ thread.pc = "format"
      BY <1>0, <2>5, <3>1 DEF Threads, FormatSection, Runs
    <3>3. HasMany(thread'.json) \/ OneSection(thread'.json)
      BY <1>0, <2>a, <3>2, SectionAdded
    <3>4. UNCHANGED <<line, mixed, refresh_json>>
      BY <2>5 DEF FormatSection, ctx_vars, line_vars, Runs
    <3>5. GoodThread(thread'.pc, thread'.json, refresh_json')
      BY <2>a, <3>2, <3>3, <3>4 DEF GoodThread
    <3>6. QED
      BY <2>2, <3>4, <3>5
  <2>6. CASE FormatEnd
    <3>0. UNCHANGED <<line, mixed, refresh_json>> /\ thread.pc = "format"
      BY <2>6 DEF FormatEnd, ctx_vars, line_vars, Runs
    <3>1. CASE thread.json = <<>>
      <4>1. thread' = At("loop", <<>>)
        BY <2>6, <3>1 DEF FormatEnd, Runs
      <4>2. thread'.pc = "loop"
        BY <4>1 DEF At
      <4>3. GoodThread(thread'.pc, thread'.json, refresh_json')
        BY <2>a, <3>0, <4>2 DEF GoodThread
      <4>4. QED
        BY <2>2, <3>0, <4>3
    <3>2. CASE thread.json # <<>>
      <4>1. thread' = At("test", TrimComma(thread.json) \o <<Close>>)
        BY <2>6, <3>2 DEF FormatEnd, Runs
      <4>2. thread'.json = TrimComma(thread.json) \o <<Close>> /\ thread'.pc = "test"
        BY <4>1 DEF At
      <4>3. HasMany(thread'.json) \/ Closed(thread'.json)
        BY <1>0, <2>a, <3>0, <3>2, <4>2, SectionsClosed
      <4>4. GoodThread(thread'.pc, thread'.json, refresh_json')
        BY <2>a, <3>0, <4>2, <4>3 DEF GoodThread
      <4>5. QED
        BY <2>2, <3>0, <4>4
    <3>3. QED
      BY <3>1, <3>2
  <2>7. CASE TestBuffer
    <3>0. UNCHANGED <<line, mixed, refresh_json>> /\ thread.pc = "test"
      BY <2>7 DEF TestBuffer, ctx_vars, line_vars, Runs
    <3>a. HasMany(thread.json) \/ Closed(thread.json)
      BY <2>a, <3>0
    <3>1. CASE refresh_json = <<>>
      <4>1. thread' = At("write", <<Open, Key("containers")>> \o thread.json)
        BY <2>7, <3>1 DEF TestBuffer, Runs
      <4>2. thread'.json = <<Open, Key("containers")>> \o thread.json /\ thread'.pc = "write"
        BY <4>1 DEF At
      <4>3. Sound(refresh_json' \o thread'.json)
        BY <1>0, <3>0, <3>a, <3>1, <4>2, BufferStarted
      <4>4. GoodThread(thread'.pc, thread'.json, refresh_json')
        BY <4>2, <4>3 DEF GoodThread
      <4>5. QED
        BY <2>2, <3>0, <4>4
    <3>2. CASE refresh_json # <<>>
      <4>1. thread' = At("seek", <<Comma>> \o thread.json)
        BY <2>7, <3>2 DEF TestBuffer, Runs
      <4>2. thread'.json = <<Comma>> \o thread.json /\ thread'.pc = "seek"
        BY <4>1 DEF At
      <4>3. Sound(refresh_json)
        BY <2>a, <3>0, <3>2 DEF GoodBuffer
      <4>4. HasMany(refresh_json' \o thread'.json)
        BY <1>0, <3>0, <3>a, <4>2, <4>3, BufferContinued
      <4>5. GoodThread(thread'.pc, thread'.json, refresh_json')
        BY <3>0, <4>2, <4>3, <4>4 DEF GoodThread, GoodBuffer
      <4>6. QED
        BY <2>2, <3>0, <4>5
    <3>3. QED
      BY <3>1, <3>2
  <2>8. CASE SeekEnd
    <3>1. UNCHANGED <<line, mixed, refresh_json>> /\ thread.pc = "seek"
      BY <2>8 DEF SeekEnd, ctx_vars, line_vars, Runs
    <3>2. thread'.json = thread.json /\ thread'.pc = "write"
      BY <1>0, <2>8 DEF SeekEnd, Threads, Runs
    <3>3. GoodThread(thread'.pc, thread'.json, refresh_json')
      BY <2>a, <3>1, <3>2 DEF GoodThread, Sound
    <3>4. QED
      BY <2>2, <3>1, <3>3
  <2>9. CASE WriteText
    <3>1. PICK k \in {(Len(thread.json) + 1) \div 2, Len(thread.json)} :
         /\ refresh_json' = IF thread.at = Len(refresh_json)
                            THEN refresh_json \o SubSeq(thread.json, 1, k)
                            ELSE refresh_json
         /\ thread' = IF k = Len(thread.json) THEN At("loop", <<>>)
                      ELSE [thread EXCEPT !.json = SubSeq(@, k + 1, Len(@)), !.at = @ + k]
      BY <2>9 DEF WriteText, Runs, line_vars
    <3>. DEFINE one == SubSeq(thread.json, 1, k)
                two == SubSeq(thread.json, k + 1, Len(thread.json))
    <3>2. /\ k \in Nat /\ one \in Text /\ Len(one) = k /\ two \in Text /\ one \o two = thread.json
          /\ k = Len(thread.json) => one = thread.json
      <4>1. thread.json \in Text
        BY <1>0
      <4>2. QED
        BY <4>1, Pieces
    <3>3. thread.pc = "write" /\ UNCHANGED <<line, mixed>>
      BY <2>9 DEF WriteText, Runs, line_vars
    <3>4. refresh_json' = refresh_json \o one
      BY <2>0, <3>1, <3>3
    <3>5. thread' = IF k = Len(thread.json) THEN At("loop", <<>>)
                    ELSE [thread EXCEPT !.json = two, !.at = @ + k]
      BY <3>1
    <3>. HIDE DEF one, two
    <3>6. Sound(refresh_json \o thread.json)
      BY <2>a, <3>3
    <3>7. CASE k = Len(thread.json)
      <4>1. thread'.pc = "loop"
        BY <3>5, <3>7 DEF At
      <4>2. one = thread.json
        BY <3>2, <3>7
      <4>3. Sound(refresh_json')
        BY <3>4, <3>6, <4>2
      <4>4. GoodThread(thread'.pc, thread'.json, refresh_json')
        BY <4>1, <4>3 DEF GoodThread, GoodBuffer
      <4>5. QED
        BY <2>2, <3>3, <4>4
    <3>8. CASE k # Len(thread.json)
      <4>1. thread'.json = two /\ thread'.pc = "write"
        BY <1>0, <3>3, <3>5, <3>8 DEF Threads
      <4>2. (refresh_json \o one) \o two = refresh_json \o (one \o two)
        BY <1>0, <3>2, TextAssociative
      <4>3. Sound(refresh_json' \o thread'.json)
        BY <3>2, <3>4, <3>6, <4>1, <4>2
      <4>4. GoodThread(thread'.pc, thread'.json, refresh_json')
        BY <4>1, <4>3 DEF GoodThread
      <4>5. QED
        BY <2>2, <3>3, <4>4
    <3>9. QED
      BY <3>7, <3>8
  <2>10. CASE PrintTable
    <3>1. PICK ports \in [DOMAIN Nodes -> Ports] : line' = RoutingTableJson(Nodes, ports)
      BY <2>10 DEF PrintTable, StartPrint
    <3>2. \A i \in DOMAIN Nodes : ports[i] \in 1 .. 3
      BY DEF PortsListed
    <3>3. GoodLine(line')
      BY <3>1, <3>2, NodesType, TableIsJson DEF GoodLine
    <3>4. thread.pc = "loop" /\ thread' = At("start", <<>>) /\ UNCHANGED refresh_json
      BY <2>10 DEF PrintTable, Runs, ctx_vars
    <3>5. thread'.pc = "start"
      BY <3>4 DEF At
    <3>6. GoodThread(thread'.pc, thread'.json, refresh_json')
      BY <2>a, <3>4, <3>5 DEF GoodThread
    <3>7. QED
      BY <3>3, <3>6 DEF LinesShaped
  <2>11. CASE Refresh
    <3>0. UNCHANGED thread /\ refresh_json' = <<>>
      BY <2>11 DEF Refresh, PrintWithin
    <3>1. CASE refresh_json = <<>>
      <4>1. line' = <<Open, Close>> \/ UNCHANGED <<line, mixed>>
        BY <2>11, <3>1 DEF Refresh, PrintWithin
      <4>2. mixed' \/ GoodLine(line')
        BY <2>0, <4>1, EmptyObject DEF GoodLine
      <4>3. UNCHANGED refresh_json
        BY <3>0, <3>1
      <4>4. QED
        BY <2>0, <3>0, <4>2, <4>3 DEF LinesShaped
    <3>2. CASE refresh_json # <<>>
      <4>1. thread.pc \notin {"seek", "write"} /\ line' = refresh_json \o <<Close>>
        BY <1>3, <2>11, <3>2 DEF Refresh, PrintWithin
      <4>2. Sound(refresh_json)
        BY <2>a, <3>2, <4>1 DEF GoodBuffer
      <4>3. GoodLine(line')
        BY <1>0, <4>1, <4>2, BufferPrinted
      <4>4. GoodThread(thread'.pc, thread'.json, refresh_json')
        BY <2>a, <3>0, <4>1 DEF GoodThread, GoodBuffer
      <4>5. QED
        BY <4>3, <4>4 DEF LinesShaped
    <3>3. QED
      BY <3>1, <3>2
  <2>12. ASSUME NEW c \in Container, Publish(c) PROVE LinesShaped'
    BY <2>0, <2>12 DEF LinesShaped, Publish, ctx_vars, line_vars
  <2>13. ASSUME NEW c \in Container, NEW kind \in {"assert", "other"}, SendOther(c, kind) PROVE LinesShaped'
    BY <2>0, <2>13 DEF LinesShaped, SendOther, ctx_vars, line_vars
  <2>14. CASE FormatUnknown \/ PrintEnds \/ UNCHANGED vars
    <3>1. UNCHANGED <<line, mixed, thread, refresh_json>>
      BY <2>14 DEF FormatUnknown, PrintEnds, vars, ctx_vars, line_vars
    <3>2. QED
      BY <2>0, <3>1 DEF LinesShaped
  <2>15. QED
    BY <2>3, <2>4, <2>5, <2>6, <2>7, <2>8, <2>9, <2>10, <2>11, <2>12, <2>13, <2>14 DEF Next, Loop
<1>4. QED
  BY <1>1, <1>3

\* What Gate_Loop and Gate_TimerEventHandler print is JSON, unless the line has
\* the sections of two containers or turns, when every board has one to three
\* neighbours on its first ports: as long as the timer does not expire during an
\* update of the buffer and no buffer is too small, for every line that is not
\* printed within another.
THEOREM LoneSectionsStayJson ==
  ASSUME PortsListed
  PROVE  Spec => []LoneSectionsAreJson
<1>1. Init => JsonInv
  BY JsonInit
<1>2. JsonInv /\ [Next]_vars => JsonInv'
  BY TypesStep, NewStep, InPlaceStep, ShapeStep DEF JsonInv, KeptInv
<1>3. QED
  BY <1>1, <1>2, JsonImplies, PTL DEF Spec
=============================================================================
