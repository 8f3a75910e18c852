------------------------- MODULE MsgExchange_proofs -------------------------
(***************************************************************************)
(* For any networks, procedures and messages: the entries of the tables of *)
(* a network at rest hold the local IDs of the last detection, what is     *)
(* sent to the instance of a remote container reaches that container, and  *)
(* no node ignores a SET for an identifier that it should have followed.   *)
(*                                                                         *)
(* A local container table is not filled again once it is full: what the   *)
(* code would write then is behind the end of the table.                   *)
(***************************************************************************)
EXTENDS MsgExchange, Selections_proofs, SequenceTheorems, TLAPS

-----------------------------------------------------------------------------
\* Types

Instance    == Net \X Nat
LocalEntry  == [local_id : Nat, id : Nat, container : Container]
RemoteEntry == [node_addr : Net, id : Nat, container : Container, local_id : Int,
                local_instance : Instance]

TablesTypes ==
  /\ rtb \in [Net -> Seq(Container \cup Instance)]
  /\ local_table \in [Net -> Seq(LocalEntry)]
  /\ remote_table \in [Net -> Seq(RemoteEntry)]
  /\ nb_local \in [Net -> Nat]
  /\ state \in [Net -> {"IDLE", "PUBLISHING", "REPLYING", "RECEIVING", "RECEIVED"}]
  /\ todo \subseteq Net
  /\ gate \in [Net -> {"idle", "complete", "update", "detect"}]
  /\ round \in 0 .. Len(Rounds) /\ clears \in 0 .. MaxClears

-----------------------------------------------------------------------------
\* The course of a procedure: who has received what, until all are idle again.

Begun == round > 0

Course ==
  /\ ~Begun =>
       /\ todo = {}
       /\ \A n \in Net : state[n] = "IDLE" /\ gate[n] = "idle" /\ remote_table[n] = <<>>
  /\ Begun =>
       /\ Initiator \notin todo
       /\ state[Initiator] \in {"PUBLISHING", "IDLE"}
       /\ todo # {} => state[Initiator] = "PUBLISHING"
       /\ \A n \in Net \ {Initiator} :
            /\ n \in todo => state[n] \in {"IDLE", "REPLYING"} /\ gate[n] = "idle"
            /\ n \notin todo => state[n] \in {"RECEIVING", "RECEIVED", "IDLE"}
            /\ state[n] = "RECEIVING" => state[Initiator] = "PUBLISHING"
  /\ \A n \in Net : state[n] # "IDLE" => gate[n] = "idle"
  /\ \A n \in Net : gate[n] # "idle" => n \in Gates

-----------------------------------------------------------------------------
\* What the tables of one network hold

BridgeLen(n) == Len(BridgeBoard[n])

\* The routing table that the local IDs are those of
Numbering(n) == IF gate[n] = "detect" THEN DetectedFromOther(n) ELSE rtb[n]

\* The containers of its boards
Owned(n) == Range(BridgeBoard[n]) \cup Range(OtherBoard[n])

LocalForm(n) ==
  /\ Len(local_table[n]) <= MaxEntries
  /\ \A k \in DOMAIN local_table[n] :
       /\ local_table[n][k].id = k - 1 /\ local_table[n][k].container \in Owned(n)
       /\ local_table[n][k].local_id \in DOMAIN Numbering(n)
       /\ Numbering(n)[local_table[n][k].local_id] = local_table[n][k].container

\* The board of the Mesh Bridge, with its instances, is in a row, and so is the
\* other board: how many containers are in front of each.
BoardsAt(n, table, bridge, other) ==
  /\ \A k \in 1 .. BridgeLen(n) :
       bridge + k \in DOMAIN table /\ table[bridge + k] = BridgeBoard[n][k]
  /\ \A k \in 1 .. Len(OtherBoard[n]) :
       other + k \in DOMAIN table /\ table[other + k] = OtherBoard[n][k]
  /\ \A p \in DOMAIN table :
       table[p] \in Container => \/ \E k \in 1 .. BridgeLen(n) : p = bridge + k
                                 \/ \E k \in 1 .. Len(OtherBoard[n]) : p = other + k
  /\ FirstID(n, table, TRUE) = bridge + 1
  /\ OtherBoard[n] # <<>> => FirstID(n, table, FALSE) = other + 1

\* ... whatever destroyed instances a routing table still has
RtbPlaces(n) == \E bridge, other \in Nat : BoardsAt(n, rtb[n], bridge, other)

\* The Gate has had the tables of the network updated.
Updated(n) == n \in Gates /\ state[n] = "IDLE" /\ gate[n] \in {"idle", "detect"}

\* Entries are numbered behind the board of the Mesh Bridge, which an update for
\* a detection by the Gate moves behind the other board.
Bridged(n) == IF Updated(n) THEN Len(OtherBoard[n]) + BridgeLen(n) ELSE BridgeLen(n)
InOrder(n) == \A k \in DOMAIN remote_table[n] : remote_table[n][k].local_id = Bridged(n) + k

Stands(n, e) == e.node_addr # n /\ e.local_instance = <<e.node_addr, e.id>> /\ e.id < MaxEntries

RemoteForm(n) ==
  /\ \A k \in DOMAIN remote_table[n] : Stands(n, remote_table[n][k])
  /\ InOrder(n)

\* No entry is there twice.
Single(n) ==
  \A k, l \in DOMAIN remote_table[n] :
    remote_table[n][k].local_instance = remote_table[n][l].local_instance => k = l

\* The last detection, of a network that has ended its procedures
RtbForm(n) ==
  state[n] = "IDLE" =>
    rtb[n] = IF n \in Gates /\ gate[n] = "idle" THEN DetectedFromOther(n) ELSE DetectedFromBridge(n)

\* The local containers are counted before the first entry is stored.
Counted(n) ==
  /\ nb_local[n] \in {0, BridgeLen(n)}
  /\ nb_local[n] = 0 =>
       /\ remote_table[n] = <<>>
       /\ rtb[n] \in {BridgeBoard[n] \o OtherBoard[n], OtherBoard[n] \o BridgeBoard[n]}

NetworkForm(n) ==
  LocalForm(n) /\ RemoteForm(n) /\ Single(n) /\ RtbForm(n) /\ RtbPlaces(n) /\ Counted(n)

\* What the procedure is going to add is not there.
Cleared(n) ==
  Begun => \A k \in DOMAIN remote_table[n] :
             /\ n = Initiator => remote_table[n][k].node_addr \notin todo
             /\ state[n] \in {"REPLYING", "RECEIVING"} => remote_table[n][k].node_addr # Initiator

TablesInv == TablesTypes /\ Course /\ \A n \in Net : NetworkForm(n) /\ Cleared(n)

-----------------------------------------------------------------------------
LEMMA TablesAssumptionUsed ==
  /\ IsFiniteSet(Net) /\ Gates \subseteq Net
  /\ Len(Rounds) \in Nat /\ DOMAIN Rounds = 1 .. Len(Rounds)
  /\ \A k \in 1 .. Len(Rounds) : Rounds[k] \in Net
  /\ MaxEntries \in Nat \ {0} /\ MaxClears \in Nat
  /\ \A n \in Net : /\ BridgeBoard[n] \in Seq(Container) /\ OtherBoard[n] \in Seq(Container)
                    /\ BridgeLen(n) \in Nat \ {0}
<1>1. \A n \in Net : BridgeBoard[n] \in Seq(Container) /\ OtherBoard[n] \in Seq(Container)
  BY TablesAssumption
<1>2. ASSUME NEW n \in Net PROVE BridgeLen(n) \in Nat \ {0}
  <2>1. Len(BridgeBoard[n]) >= 2 /\ Len(BridgeBoard[n]) \in Nat
    BY <1>1, TablesAssumption
  <2>2. QED
    BY <2>1 DEF BridgeLen
<1>3. Len(Rounds) \in Nat /\ DOMAIN Rounds = 1 .. Len(Rounds)
      /\ \A k \in 1 .. Len(Rounds) : Rounds[k] \in Net
  BY TablesAssumption
<1>4. QED
  BY <1>1, <1>2, <1>3, TablesAssumption

\* Where the parts of a joined sequence are
Joined(s, t, u) == s \o t \o u

LEMMA JoinedParts ==
  ASSUME NEW S, NEW s \in Seq(S), NEW t \in Seq(S), NEW u \in Seq(S)
  PROVE  /\ Joined(s, t, u) \in Seq(S) /\ Len(Joined(s, t, u)) = Len(s) + Len(t) + Len(u)
         /\ \A k \in 1 .. Len(s) : Joined(s, t, u)[k] = s[k]
         /\ \A k \in 1 .. Len(t) : Joined(s, t, u)[Len(s) + k] = t[k]
         /\ \A k \in 1 .. Len(u) : Joined(s, t, u)[Len(s) + Len(t) + k] = u[k]
<1>1. /\ s \o t \in Seq(S) /\ Len(s \o t) = Len(s) + Len(t)
      /\ \A k \in 1 .. Len(s) : (s \o t)[k] = s[k]
      /\ \A k \in 1 .. Len(t) : (s \o t)[Len(s) + k] = t[k]
  OBVIOUS
<1>. DEFINE v == s \o t
<1>. HIDE DEF v
<1>2. /\ v \o u \in Seq(S) /\ Len(v \o u) = Len(v) + Len(u)
      /\ \A k \in 1 .. Len(v) : (v \o u)[k] = v[k]
      /\ \A k \in 1 .. Len(u) : (v \o u)[Len(v) + k] = u[k]
  BY <1>1 DEF v
<1>3. Len(v) = Len(s) + Len(t) /\ Len(s) \in Nat /\ Len(t) \in Nat /\ Len(u) \in Nat
  BY <1>1 DEF v
<1>4. ASSUME NEW k \in 1 .. Len(s) PROVE (v \o u)[k] = s[k]
  <2>1. k \in 1 .. Len(v)
    BY <1>3
  <2>2. QED
    BY <1>1, <1>2, <2>1 DEF v
<1>5. ASSUME NEW k \in 1 .. Len(t) PROVE (v \o u)[Len(s) + k] = t[k]
  <2>1. Len(s) + k \in 1 .. Len(v)
    BY <1>3
  <2>2. v[Len(s) + k] = t[k]
    BY <1>1 DEF v
  <2>3. QED
    BY <1>2, <2>1, <2>2
<1>6. ASSUME NEW k \in 1 .. Len(u) PROVE (v \o u)[Len(s) + Len(t) + k] = u[k]
  BY <1>2, <1>3
<1>7. QED
  BY <1>2, <1>3, <1>4, <1>5, <1>6 DEF v, Joined

\* The first of the positions that are found is one of them.
LEMMA FirstPosition ==
  ASSUME NEW l \in Nat, NEW I \in SUBSET (1 .. l), I # {}
  PROVE  Min(I) \in I
<1>1. IsFiniteSet(I) /\ Cardinality(I) \in Nat
  BY KeptIsFinite
<1>2. 1 \in 1 .. Cardinality(I)
  <2>1. Cardinality(I) # 0
    BY <1>1, FS_EmptySet
  <2>2. QED
    BY <1>1, <2>1
<1>3. PICK i \in I : Rank(I, i) = 1
  BY <1>2, RanksAreTaken
<1>4. \A j \in I : i <= j
  <2>. SUFFICES ASSUME NEW j \in I, ~(i <= j) PROVE FALSE
    OBVIOUS
  <2>1. i \in Nat /\ j \in Nat
    OBVIOUS
  <2>2. j < i
    BY <2>1
  <2>3. Rank(I, j) < Rank(I, i) /\ Rank(I, j) \in 1 .. Cardinality(I)
    BY <2>2, RanksGrow
  <2>4. QED
    BY <1>1, <1>3, <2>3
<1>5. QED
  BY <1>4 DEF Min

LEMMA FirstIs ==
  ASSUME NEW l \in Nat, NEW I \in SUBSET (1 .. l), NEW i \in I, \A j \in I : i <= j
  PROVE  Min(I) = i
<1>1. \A j \in I : (\A h \in I : j <= h) => j = i
  OBVIOUS
<1>2. QED
  BY <1>1 DEF Min

LEMMA InstancesAreTyped ==
  ASSUME TablesTypes, NEW n \in Net
  PROVE  /\ Instances(n) \in Seq(Instance) /\ Len(Instances(n)) = Len(remote_table[n])
         /\ \A k \in 1 .. Len(remote_table[n]) : Instances(n)[k] = remote_table[n][k].local_instance
<1>1. remote_table[n] \in Seq(RemoteEntry)
  BY DEF TablesTypes
<1>2. /\ DOMAIN remote_table[n] = 1 .. Len(remote_table[n]) /\ Len(remote_table[n]) \in Nat
      /\ \A k \in 1 .. Len(remote_table[n]) : remote_table[n][k] \in RemoteEntry
  BY <1>1
<1>3. \A k \in 1 .. Len(remote_table[n]) : remote_table[n][k].local_instance \in Instance
  BY <1>2 DEF RemoteEntry
<1>4. QED
  BY <1>2, <1>3 DEF Instances


\* The parts of the routing table after the next detection
LEMMA PartsAreTyped ==
  ASSUME TablesTypes, NEW n \in Net
  PROVE  /\ BridgeBoard[n] \in Seq(Container \cup Instance)
         /\ OtherBoard[n] \in Seq(Container \cup Instance)
         /\ Instances(n) \in Seq(Container \cup Instance)
         /\ Len(BridgeBoard[n]) = BridgeLen(n) /\ Len(OtherBoard[n]) \in Nat
         /\ BridgeLen(n) \in Nat /\ Len(remote_table[n]) \in Nat
         /\ Len(Instances(n)) = Len(remote_table[n])
<1>1. \A S, T : S \subseteq T => Seq(S) \subseteq Seq(T)
  OBVIOUS
<1>2. /\ BridgeBoard[n] \in Seq(Container) /\ OtherBoard[n] \in Seq(Container)
      /\ Instances(n) \in Seq(Instance) /\ Len(Instances(n)) = Len(remote_table[n])
      /\ BridgeLen(n) \in Nat
  BY TablesAssumptionUsed, InstancesAreTyped
<1>3. Len(OtherBoard[n]) \in Nat /\ Len(Instances(n)) \in Nat
  BY <1>2
<1>4. QED
  BY <1>1, <1>2, <1>3 DEF BridgeLen

LEMMA BridgeParts ==
  ASSUME TablesTypes, NEW n \in Net
  PROVE  /\ DetectedFromBridge(n) \in Seq(Container \cup Instance)
         /\ DOMAIN DetectedFromBridge(n) =
              1 .. BridgeLen(n) + Len(remote_table[n]) + Len(OtherBoard[n])
         /\ \A k \in 1 .. BridgeLen(n) : DetectedFromBridge(n)[k] = BridgeBoard[n][k]
         /\ \A k \in 1 .. Len(remote_table[n]) :
              DetectedFromBridge(n)[BridgeLen(n) + k] = remote_table[n][k].local_instance
         /\ \A k \in 1 .. Len(OtherBoard[n]) :
              DetectedFromBridge(n)[BridgeLen(n) + Len(remote_table[n]) + k] = OtherBoard[n][k]
<1>. DEFINE s == BridgeBoard[n]  t == Instances(n)  u == OtherBoard[n]
            S == Container \cup Instance
<1>. HIDE DEF s, t, u, S
<1>0. s \in Seq(S) /\ t \in Seq(S) /\ u \in Seq(S)
  BY PartsAreTyped DEF s, t, u, S
<1>1. /\ Len(s) = BridgeLen(n) /\ Len(t) = Len(remote_table[n]) /\ Len(u) = Len(OtherBoard[n])
  BY PartsAreTyped DEF s, t, u, S
<1>2. /\ Joined(s, t, u) \in Seq(S) /\ Len(Joined(s, t, u)) = Len(s) + Len(t) + Len(u)
      /\ \A k \in 1 .. Len(s) : Joined(s, t, u)[k] = s[k]
      /\ \A k \in 1 .. Len(t) : Joined(s, t, u)[Len(s) + k] = t[k]
      /\ \A k \in 1 .. Len(u) : Joined(s, t, u)[Len(s) + Len(t) + k] = u[k]
  <2>1. Joined(s, t, u) \in Seq(S)
    BY <1>0, JoinedParts
  <2>2. Len(Joined(s, t, u)) = Len(s) + Len(t) + Len(u)
    BY <1>0, JoinedParts
  <2>3. \A k \in 1 .. Len(s) : Joined(s, t, u)[k] = s[k]
    BY <1>0, JoinedParts
  <2>4. \A k \in 1 .. Len(t) : Joined(s, t, u)[Len(s) + k] = t[k]
    BY <1>0, JoinedParts
  <2>5. \A k \in 1 .. Len(u) : Joined(s, t, u)[Len(s) + Len(t) + k] = u[k]
    BY <1>0, JoinedParts
  <2>6. QED
    BY <2>1, <2>2, <2>3, <2>4, <2>5
<1>3. DetectedFromBridge(n) = Joined(s, t, u)
  BY DEF Joined, DetectedFromBridge, s, t, u
<1>4. \A k \in 1 .. Len(remote_table[n]) : t[k] = remote_table[n][k].local_instance
  BY InstancesAreTyped DEF t
<1>. DEFINE d == Joined(s, t, u)
<1>5. DOMAIN d = 1 .. Len(d)
  BY <1>2
<1>6. QED
  BY <1>0, <1>1, <1>2, <1>3, <1>4, <1>5 DEF s, u, S

LEMMA OtherParts ==
  ASSUME TablesTypes, NEW n \in Net
  PROVE  /\ DetectedFromOther(n) \in Seq(Container \cup Instance)
         /\ DOMAIN DetectedFromOther(n) =
              1 .. Len(OtherBoard[n]) + BridgeLen(n) + Len(remote_table[n])
         /\ \A k \in 1 .. Len(OtherBoard[n]) : DetectedFromOther(n)[k] = OtherBoard[n][k]
         /\ \A k \in 1 .. BridgeLen(n) :
              DetectedFromOther(n)[Len(OtherBoard[n]) + k] = BridgeBoard[n][k]
         /\ \A k \in 1 .. Len(remote_table[n]) :
              DetectedFromOther(n)[Len(OtherBoard[n]) + BridgeLen(n) + k]
                = remote_table[n][k].local_instance
<1>. DEFINE s == OtherBoard[n]  t == BridgeBoard[n]  u == Instances(n)
            S == Container \cup Instance
<1>. HIDE DEF s, t, u, S
<1>0. s \in Seq(S) /\ t \in Seq(S) /\ u \in Seq(S)
  BY PartsAreTyped DEF s, t, u, S
<1>1. /\ Len(t) = BridgeLen(n) /\ Len(u) = Len(remote_table[n]) /\ Len(s) = Len(OtherBoard[n])
  BY PartsAreTyped DEF s, t, u, S
<1>2. /\ Joined(s, t, u) \in Seq(S) /\ Len(Joined(s, t, u)) = Len(s) + Len(t) + Len(u)
      /\ \A k \in 1 .. Len(s) : Joined(s, t, u)[k] = s[k]
      /\ \A k \in 1 .. Len(t) : Joined(s, t, u)[Len(s) + k] = t[k]
      /\ \A k \in 1 .. Len(u) : Joined(s, t, u)[Len(s) + Len(t) + k] = u[k]
  <2>1. Joined(s, t, u) \in Seq(S)
    BY <1>0, JoinedParts
  <2>2. Len(Joined(s, t, u)) = Len(s) + Len(t) + Len(u)
    BY <1>0, JoinedParts
  <2>3. \A k \in 1 .. Len(s) : Joined(s, t, u)[k] = s[k]
    BY <1>0, JoinedParts
  <2>4. \A k \in 1 .. Len(t) : Joined(s, t, u)[Len(s) + k] = t[k]
    BY <1>0, JoinedParts
  <2>5. \A k \in 1 .. Len(u) : Joined(s, t, u)[Len(s) + Len(t) + k] = u[k]
    BY <1>0, JoinedParts
  <2>6. QED
    BY <2>1, <2>2, <2>3, <2>4, <2>5
<1>3. DetectedFromOther(n) = Joined(s, t, u)
  BY DEF Joined, DetectedFromOther, s, t, u
<1>4. \A k \in 1 .. Len(remote_table[n]) : u[k] = remote_table[n][k].local_instance
  BY InstancesAreTyped DEF u
<1>. DEFINE d == Joined(s, t, u)
<1>5. DOMAIN d = 1 .. Len(d)
  BY <1>2
<1>6. QED
  BY <1>0, <1>1, <1>2, <1>3, <1>4, <1>5 DEF s, t, S

\* A container is of one of the boards, or an instance.
LEMMA BoardsApart ==
  ASSUME NEW n \in Net
  PROVE  /\ \A k \in 1 .. BridgeLen(n) : OnBridgeBoard(n, BridgeBoard[n][k])
         /\ \A k \in 1 .. Len(OtherBoard[n]) :
              OtherBoard[n][k] \in Container /\ ~OnBridgeBoard(n, OtherBoard[n][k])
         /\ \A i \in Instance : OnBridgeBoard(n, i) /\ i \notin Container
<1>. DEFINE s == BridgeBoard[n]  t == OtherBoard[n]  b == Len(s)  o == Len(t)
<1>1. /\ s \in Seq(Container) /\ t \in Seq(Container) /\ b \in Nat /\ o \in Nat
      /\ DOMAIN s = 1 .. b /\ DOMAIN t = 1 .. o /\ b = BridgeLen(n)
  BY TablesAssumptionUsed DEF BridgeLen
<1>2. IsInjective(s \o t) /\ Container \cap Instance = {}
  BY TablesAssumption DEF Instance
<1>3. \A k \in 1 .. b : OnBridgeBoard(n, s[k])
  BY <1>1 DEF OnBridgeBoard, Range
<1>4. \A i \in Instance : OnBridgeBoard(n, i) /\ i \notin Container
  BY <1>2 DEF OnBridgeBoard, Instance
<1>5. ASSUME NEW j \in 1 .. o PROVE t[j] \in Container /\ ~OnBridgeBoard(n, t[j])
  <2>1. t[j] \in Container /\ t[j] \notin Instance
    BY <1>1, <1>2
  <2>2. ASSUME NEW i \in 1 .. b, s[i] = t[j] PROVE FALSE
    <3>. DEFINE joined == s \o t
    <3>0. s \in Seq(Container) /\ t \in Seq(Container) /\ b \in Nat /\ o \in Nat
      BY <1>1
    <3>. HIDE DEF s, t, b, o, joined
    <3>1. /\ DOMAIN joined = 1 .. b + o
          /\ \A k \in 1 .. b + o : joined[k] = IF k <= b THEN s[k] ELSE t[k - b]
      BY <3>0 DEF joined, b, o
    <3>2. PICK p \in 1 .. b + o : p = b + j
      BY <3>0
    <3>3. i \in 1 .. b + o /\ i <= b /\ ~(p <= b) /\ p - b = j /\ i # p
      BY <3>0, <3>2
    <3>4. joined[i] = s[i]
      BY <3>1, <3>3
    <3>5. joined[p] = t[j]
      BY <3>1, <3>3
    <3>6. IsInjective(joined)
      BY <1>2 DEF joined
    <3>7. QED
      BY <2>2, <3>1, <3>2, <3>3, <3>4, <3>5, <3>6 DEF IsInjective
  <2>3. t[j] \notin Range(s)
    BY <1>1, <2>2 DEF Range
  <2>4. QED
    BY <2>1, <2>3 DEF OnBridgeBoard, Instance
<1>6. QED
  BY <1>1, <1>3, <1>4, <1>5

\* The first container of a board is the one behind those of the other.
LEMMA FirstOfBoard ==
  ASSUME NEW n, NEW S, NEW table \in Seq(S), NEW on_bridge \in BOOLEAN, NEW p \in DOMAIN table,
         OnBridgeBoard(n, table[p]) <=> on_bridge,
         \A k \in DOMAIN table : k < p => ~(OnBridgeBoard(n, table[k]) <=> on_bridge)
  PROVE  FirstID(n, table, on_bridge) = p
<1>. DEFINE I == {k \in 1 .. Len(table) : OnBridgeBoard(n, table[k]) = on_bridge}
<1>1. DOMAIN table = 1 .. Len(table) /\ Len(table) \in Nat
  OBVIOUS
<1>2. \A k \in DOMAIN table : OnBridgeBoard(n, table[k]) \in BOOLEAN
  BY DEF OnBridgeBoard
<1>3. p \in I
  BY <1>1, <1>2
<1>4. \A k \in I : ~(k < p)
  BY <1>1, <1>2
<1>5. FirstID(n, table, on_bridge) = Min(I)
  BY <1>3 DEF FirstID, SelectInSeq
<1>6. I \in SUBSET (1 .. Len(table))
  OBVIOUS
<1>. HIDE DEF I
<1>7. \A k \in I : p <= k
  BY <1>1, <1>4, <1>6
<1>8. QED
  BY <1>1, <1>3, <1>5, <1>6, <1>7, FirstIs

LEMMA BridgePlaces ==
  ASSUME TablesTypes, NEW n \in Net
  PROVE  BoardsAt(n, DetectedFromBridge(n), 0, BridgeLen(n) + Len(remote_table[n]))
<1>. DEFINE d == DetectedFromBridge(n)
<1>1. PICK b \in Nat \ {0} : b = BridgeLen(n)
  BY TablesAssumptionUsed
<1>2. PICK o \in Nat : o = Len(OtherBoard[n])
  BY PartsAreTyped
<1>3. PICK l \in Nat : l = Len(remote_table[n])
  BY PartsAreTyped
<1>4. /\ d \in Seq(Container \cup Instance) /\ DOMAIN d = 1 .. b + l + o
      /\ \A k \in 1 .. b : d[k] = BridgeBoard[n][k]
      /\ \A k \in 1 .. l : d[b + k] = remote_table[n][k].local_instance
      /\ \A k \in 1 .. o : d[b + l + k] = OtherBoard[n][k]
  BY <1>1, <1>2, <1>3, BridgeParts
<1>5. \A k \in 1 .. l : remote_table[n][k].local_instance \in Instance
  <2>1. /\ Instances(n) \in Seq(Instance) /\ Len(Instances(n)) = l
        /\ \A k \in 1 .. l : Instances(n)[k] = remote_table[n][k].local_instance
    BY <1>3, InstancesAreTyped
  <2>2. QED
    BY <2>1
<1>6. /\ \A k \in 1 .. b : OnBridgeBoard(n, BridgeBoard[n][k])
      /\ \A k \in 1 .. o : OtherBoard[n][k] \in Container /\ ~OnBridgeBoard(n, OtherBoard[n][k])
      /\ \A i \in Instance : OnBridgeBoard(n, i) /\ i \notin Container
  BY <1>1, <1>2, BoardsApart
<1>. HIDE DEF d
<1>7. ASSUME NEW p \in 1 .. b + l + o
      PROVE  \/ p \in 1 .. b /\ OnBridgeBoard(n, d[p])
             \/ /\ p \in b + 1 .. b + l /\ OnBridgeBoard(n, d[p]) /\ d[p] \notin Container
             \/ \E k \in 1 .. o : p = b + l + k
  <2>1. CASE p <= b
    <3>1. p \in 1 .. b /\ d[p] = BridgeBoard[n][p]
      BY <1>4, <2>1
    <3>2. QED
      BY <1>6, <3>1
  <2>2. CASE p > b /\ p <= b + l
    <3>1. PICK k \in 1 .. l : p = b + k
      <4>1. p - b \in 1 .. l /\ p = b + (p - b)
        BY <2>2
      <4>2. QED
        BY <4>1
    <3>2. d[p] \in Instance
      BY <1>4, <1>5, <3>1
    <3>3. QED
      BY <1>6, <2>2, <3>2
  <2>3. CASE p > b + l
    <3>1. p - (b + l) \in 1 .. o /\ p = b + l + (p - (b + l))
      BY <2>3
    <3>2. QED
      BY <3>1
  <2>4. QED
    BY <2>1, <2>2, <2>3
<1>z. PICK z \in Nat : z = 0
  OBVIOUS
<1>8. \A k \in 1 .. b : z + k \in DOMAIN d /\ d[z + k] = BridgeBoard[n][k]
  BY <1>4, <1>z
<1>9. \A k \in 1 .. o : b + l + k \in DOMAIN d /\ d[b + l + k] = OtherBoard[n][k]
  BY <1>4
<1>10. ASSUME NEW p \in DOMAIN d, d[p] \in Container
       PROVE  (\E k \in 1 .. b : p = z + k) \/ \E k \in 1 .. o : p = b + l + k
  <2>1. p \in 1 .. b \/ \E k \in 1 .. o : p = b + l + k
    BY <1>4, <1>7, <1>10
  <2>2. p \in 1 .. b => p = z + p
    BY <1>z
  <2>3. QED
    BY <2>1, <2>2
<1>11. FirstID(n, d, TRUE) = z + 1
  <2>1. z + 1 \in DOMAIN d /\ z + 1 \in 1 .. b /\ d[z + 1] = BridgeBoard[n][z + 1]
    BY <1>4, <1>z
  <2>2. OnBridgeBoard(n, d[z + 1])
    BY <1>6, <2>1
  <2>3. \A k \in DOMAIN d : k < z + 1 => ~OnBridgeBoard(n, d[k])
    BY <1>4, <1>z
  <2>4. QED
    BY <1>4, <2>1, <2>2, <2>3, FirstOfBoard
<1>12. ASSUME OtherBoard[n] # <<>> PROVE FirstID(n, d, FALSE) = b + l + 1
  <2>1. o # 0
    BY <1>2, <1>12, TablesAssumptionUsed
  <2>2. b + l + 1 \in DOMAIN d /\ d[b + l + 1] = OtherBoard[n][1] /\ 1 \in 1 .. o
    BY <1>4, <2>1
  <2>3. ~OnBridgeBoard(n, d[b + l + 1])
    BY <1>6, <2>2
  <2>4. \A k \in DOMAIN d : k < b + l + 1 => OnBridgeBoard(n, d[k])
    BY <1>4, <1>7
  <2>5. QED
    BY <1>4, <2>2, <2>3, <2>4, FirstOfBoard
<1>13. BoardsAt(n, d, z, b + l)
  BY <1>1, <1>2, <1>8, <1>9, <1>10, <1>11, <1>12 DEF BoardsAt
<1>14. QED
  BY <1>1, <1>3, <1>z, <1>13 DEF d

LEMMA OtherPlaces ==
  ASSUME TablesTypes, NEW n \in Net
  PROVE  BoardsAt(n, DetectedFromOther(n), Len(OtherBoard[n]), 0)
<1>. DEFINE d == DetectedFromOther(n)
<1>1. PICK b \in Nat \ {0} : b = BridgeLen(n)
  BY TablesAssumptionUsed
<1>2. PICK o \in Nat : o = Len(OtherBoard[n])
  BY PartsAreTyped
<1>3. PICK l \in Nat : l = Len(remote_table[n])
  BY PartsAreTyped
<1>4. /\ d \in Seq(Container \cup Instance) /\ DOMAIN d = 1 .. o + b + l
      /\ \A k \in 1 .. o : d[k] = OtherBoard[n][k]
      /\ \A k \in 1 .. b : d[o + k] = BridgeBoard[n][k]
      /\ \A k \in 1 .. l : d[o + b + k] = remote_table[n][k].local_instance
  BY <1>1, <1>2, <1>3, OtherParts
<1>5. \A k \in 1 .. l : remote_table[n][k].local_instance \in Instance
  <2>1. /\ Instances(n) \in Seq(Instance) /\ Len(Instances(n)) = l
        /\ \A k \in 1 .. l : Instances(n)[k] = remote_table[n][k].local_instance
    BY <1>3, InstancesAreTyped
  <2>2. QED
    BY <2>1
<1>6. /\ \A k \in 1 .. b : OnBridgeBoard(n, BridgeBoard[n][k])
      /\ \A k \in 1 .. o : OtherBoard[n][k] \in Container /\ ~OnBridgeBoard(n, OtherBoard[n][k])
      /\ \A i \in Instance : OnBridgeBoard(n, i) /\ i \notin Container
  BY <1>1, <1>2, BoardsApart
<1>. HIDE DEF d
<1>7. ASSUME NEW p \in 1 .. o + b + l
      PROVE  \/ p \in 1 .. o /\ ~OnBridgeBoard(n, d[p])
             \/ \E k \in 1 .. b : p = o + k
             \/ p \in o + b + 1 .. o + b + l /\ d[p] \notin Container
  <2>1. CASE p <= o
    <3>1. p \in 1 .. o /\ d[p] = OtherBoard[n][p]
      BY <1>4, <2>1
    <3>2. QED
      BY <1>6, <3>1
  <2>2. CASE p > o /\ p <= o + b
    <3>1. p - o \in 1 .. b /\ p = o + (p - o)
      BY <2>2
    <3>2. QED
      BY <3>1
  <2>3. CASE p > o + b
    <3>1. PICK k \in 1 .. l : p = o + b + k
      <4>1. p - (o + b) \in 1 .. l /\ p = o + b + (p - (o + b))
        BY <2>3
      <4>2. QED
        BY <4>1
    <3>2. d[p] \in Instance
      BY <1>4, <1>5, <3>1
    <3>3. QED
      BY <1>6, <2>3, <3>2
  <2>4. QED
    BY <2>1, <2>2, <2>3
<1>8. \A k \in 1 .. b : o + k \in DOMAIN d /\ d[o + k] = BridgeBoard[n][k]
  BY <1>4
<1>z. PICK z \in Nat : z = 0
  OBVIOUS
<1>9. \A k \in 1 .. o : z + k \in DOMAIN d /\ d[z + k] = OtherBoard[n][k]
  BY <1>4, <1>z
<1>10. ASSUME NEW p \in DOMAIN d, d[p] \in Container
       PROVE  (\E k \in 1 .. b : p = o + k) \/ \E k \in 1 .. o : p = z + k
  <2>1. p \in 1 .. o \/ \E k \in 1 .. b : p = o + k
    BY <1>4, <1>7, <1>10
  <2>2. p \in 1 .. o => p = z + p
    BY <1>z
  <2>3. QED
    BY <2>1, <2>2
<1>11. FirstID(n, d, TRUE) = o + 1
  <2>1. o + 1 \in DOMAIN d /\ d[o + 1] = BridgeBoard[n][1] /\ 1 \in 1 .. b
    BY <1>4
  <2>2. OnBridgeBoard(n, d[o + 1])
    BY <1>6, <2>1
  <2>3. \A k \in DOMAIN d : k < o + 1 => ~OnBridgeBoard(n, d[k])
    BY <1>4, <1>7
  <2>4. QED
    BY <1>4, <2>1, <2>2, <2>3, FirstOfBoard
<1>12. ASSUME OtherBoard[n] # <<>> PROVE FirstID(n, d, FALSE) = z + 1
  <2>1. o # 0
    BY <1>2, <1>12, TablesAssumptionUsed
  <2>2. z + 1 \in DOMAIN d /\ z + 1 \in 1 .. o /\ d[z + 1] = OtherBoard[n][z + 1]
    BY <1>4, <1>z, <2>1
  <2>3. ~OnBridgeBoard(n, d[z + 1])
    BY <1>6, <2>2
  <2>4. \A k \in DOMAIN d : k < z + 1 => OnBridgeBoard(n, d[k])
    BY <1>4, <1>z
  <2>5. QED
    BY <1>4, <2>2, <2>3, <2>4, FirstOfBoard
<1>13. BoardsAt(n, d, o, z)
  BY <1>1, <1>2, <1>8, <1>9, <1>10, <1>11, <1>12 DEF BoardsAt
<1>14. QED
  BY <1>2, <1>z, <1>13 DEF d

LEMMA OwnedAreContainers ==
  ASSUME NEW n \in Net
  PROVE  Owned(n) \subseteq Container
<1>1. BridgeBoard[n] \in Seq(Container) /\ OtherBoard[n] \in Seq(Container)
  BY TablesAssumptionUsed
<1>2. QED
  BY <1>1 DEF Owned, Range

\* RoutingTB_FindFutureContainerID: the boards move as a whole.
LEMMA FutureMoves ==
  ASSUME NEW n \in Net, NEW b \in Nat, NEW o \in Nat, BoardsAt(n, rtb[n], b, o),
         NEW detected, NEW b2 \in Nat, NEW o2 \in Nat, BoardsAt(n, detected, b2, o2),
         NEW id \in DOMAIN rtb[n], id \in Nat
  PROVE  /\ OnBridgeBoard(n, rtb[n][id]) => FutureID(n, id, detected) = id - b + b2
         /\ ~OnBridgeBoard(n, rtb[n][id]) /\ OtherBoard[n] # <<>> =>
              FutureID(n, id, detected) = id - o + o2
<1>1. FirstID(n, rtb[n], TRUE) = b + 1 /\ FirstID(n, detected, TRUE) = b2 + 1
  BY DEF BoardsAt
<1>2. ASSUME OtherBoard[n] # <<>>
      PROVE  FirstID(n, rtb[n], FALSE) = o + 1 /\ FirstID(n, detected, FALSE) = o2 + 1
  BY <1>2 DEF BoardsAt
<1>3. ASSUME OnBridgeBoard(n, rtb[n][id]) PROVE FutureID(n, id, detected) = id - b + b2
  <2>1. OnBridgeBoard(n, rtb[n][id]) = TRUE
    BY <1>3 DEF OnBridgeBoard
  <2>2. FutureID(n, id, detected) = id - (b + 1) + (b2 + 1)
    BY <1>1, <2>1 DEF FutureID
  <2>3. QED
    BY <2>2
<1>4. ASSUME ~OnBridgeBoard(n, rtb[n][id]), OtherBoard[n] # <<>>
      PROVE  FutureID(n, id, detected) = id - o + o2
  <2>1. OnBridgeBoard(n, rtb[n][id]) = FALSE
    BY <1>4 DEF OnBridgeBoard
  <2>2. FutureID(n, id, detected) = id - (o + 1) + (o2 + 1)
    BY <1>2, <1>4, <2>1 DEF FutureID
  <2>3. QED
    BY <2>2
<1>5. QED
  BY <1>3, <1>4

\* ... and a container of theirs is found in the detection to come.
LEMMA OwnedFound ==
  ASSUME NEW n \in Net, NEW b \in Nat, NEW o \in Nat, BoardsAt(n, rtb[n], b, o),
         NEW detected, NEW b2 \in Nat, NEW o2 \in Nat, BoardsAt(n, detected, b2, o2),
         NEW id \in DOMAIN rtb[n], rtb[n][id] \in Owned(n)
  PROVE  /\ FutureID(n, id, detected) \in DOMAIN detected
         /\ detected[FutureID(n, id, detected)] = rtb[n][id]
<1>1. rtb[n][id] \in Container
  BY OwnedAreContainers
<1>2. /\ \A k \in 1 .. BridgeLen(n) : OnBridgeBoard(n, BridgeBoard[n][k])
      /\ \A k \in 1 .. Len(OtherBoard[n]) : ~OnBridgeBoard(n, OtherBoard[n][k])
  BY BoardsApart
<1>3. BridgeLen(n) \in Nat /\ Len(OtherBoard[n]) \in Nat /\ OtherBoard[n] \in Seq(Container)
  <2>1. OtherBoard[n] \in Seq(Container) /\ BridgeLen(n) \in Nat
    BY TablesAssumptionUsed
  <2>2. QED
    BY <2>1
<1>4. CASE \E k \in 1 .. BridgeLen(n) : id = b + k
  <2>1. PICK k \in 1 .. BridgeLen(n) : id = b + k
    BY <1>4
  <2>2. rtb[n][id] = BridgeBoard[n][k] /\ id \in Nat
    BY <2>1, <1>3 DEF BoardsAt
  <2>3. OnBridgeBoard(n, rtb[n][id])
    BY <1>2, <2>2
  <2>4. FutureID(n, id, detected) = id - b + b2
    BY <2>2, <2>3, FutureMoves
  <2>5. id - b + b2 = b2 + k
    BY <2>1, <1>3
  <2>6. b2 + k \in DOMAIN detected /\ detected[b2 + k] = BridgeBoard[n][k]
    BY DEF BoardsAt
  <2>7. QED
    BY <2>2, <2>4, <2>5, <2>6
<1>5. CASE \E k \in 1 .. Len(OtherBoard[n]) : id = o + k
  <2>1. PICK k \in 1 .. Len(OtherBoard[n]) : id = o + k
    BY <1>5
  <2>2. rtb[n][id] = OtherBoard[n][k] /\ id \in Nat
    BY <2>1, <1>3 DEF BoardsAt
  <2>3. ~OnBridgeBoard(n, rtb[n][id]) /\ OtherBoard[n] # <<>>
    BY <1>2, <1>3, <2>2
  <2>4. FutureID(n, id, detected) = id - o + o2
    BY <2>2, <2>3, FutureMoves
  <2>5. id - o + o2 = o2 + k
    BY <2>1, <1>3
  <2>6. o2 + k \in DOMAIN detected /\ detected[o2 + k] = OtherBoard[n][k]
    BY DEF BoardsAt
  <2>7. QED
    BY <2>2, <2>4, <2>5, <2>6
<1>6. QED
  BY <1>1, <1>4, <1>5 DEF BoardsAt

\* Without instances there is nothing else.
LEMMA OnlyOwned ==
  ASSUME TablesTypes, NEW n \in Net, remote_table[n] = <<>>
  PROVE  /\ DetectedFromBridge(n) = BridgeBoard[n] \o OtherBoard[n]
         /\ DetectedFromOther(n) = OtherBoard[n] \o BridgeBoard[n]
         /\ \A p \in DOMAIN DetectedFromBridge(n) : DetectedFromBridge(n)[p] \in Owned(n)
         /\ \A p \in DOMAIN DetectedFromOther(n) : DetectedFromOther(n)[p] \in Owned(n)
<1>1. BridgeBoard[n] \in Seq(Container) /\ OtherBoard[n] \in Seq(Container)
  BY TablesAssumptionUsed
<1>2. Instances(n) = <<>>
  <2>1. Instances(n) \in Seq(Instance) /\ Len(Instances(n)) = Len(remote_table[n])
    BY InstancesAreTyped
  <2>2. QED
    BY <2>1
<1>3. /\ DetectedFromBridge(n) = BridgeBoard[n] \o OtherBoard[n]
      /\ DetectedFromOther(n) = OtherBoard[n] \o BridgeBoard[n]
  <2>1. BridgeBoard[n] \o <<>> = BridgeBoard[n]
    BY <1>1, ConcatEmptySeq
  <2>2. (OtherBoard[n] \o BridgeBoard[n]) \o <<>> = OtherBoard[n] \o BridgeBoard[n]
    BY <1>1, ConcatEmptySeq, ConcatProperties
  <2>3. QED
    BY <1>2, <2>1, <2>2 DEF DetectedFromBridge, DetectedFromOther
<1>4. ASSUME NEW s \in Seq(Container), NEW t \in Seq(Container), NEW p \in DOMAIN (s \o t)
      PROVE  (s \o t)[p] \in Range(s) \cup Range(t)
  <2>1. /\ Len(s \o t) = Len(s) + Len(t) /\ Len(s) \in Nat /\ Len(t) \in Nat
        /\ p \in 1 .. Len(s) + Len(t) /\ DOMAIN s = 1 .. Len(s) /\ DOMAIN t = 1 .. Len(t)
        /\ (s \o t)[p] = IF p <= Len(s) THEN s[p] ELSE t[p - Len(s)]
    BY <1>4
  <2>2. CASE p <= Len(s)
    BY <2>1, <2>2 DEF Range
  <2>3. CASE ~(p <= Len(s))
    <3>1. p - Len(s) \in DOMAIN t
      BY <2>1, <2>3
    <3>2. QED
      BY <2>1, <2>3, <3>1 DEF Range
  <2>4. QED
    BY <2>2, <2>3
<1>5. QED
  BY <1>1, <1>3, <1>4 DEF Owned

\* get_nb_local_containers_in_mesh_bridge_node counts the containers of the
\* board of the Mesh Bridge as long as there are no instances.
LEMMA BoardIsCounted ==
  ASSUME TablesTypes, NEW n \in Net, remote_table[n] = <<>>,
         rtb[n] \in {BridgeBoard[n] \o OtherBoard[n], OtherBoard[n] \o BridgeBoard[n]}
  PROVE  NbContainersInBridgeNode(n) = BridgeLen(n)
<1>. DEFINE s == BridgeBoard[n]  t == OtherBoard[n]  b == Len(s)  o == Len(t)
<1>1. /\ s \in Seq(Container) /\ t \in Seq(Container) /\ b \in Nat /\ o \in Nat
      /\ DOMAIN s = 1 .. b /\ DOMAIN t = 1 .. o
  BY TablesAssumptionUsed
<1>2. IsInjective(s \o t)
  BY TablesAssumption
<1>3. NbContainersInBridgeNode(n) = Cardinality({id \in DOMAIN rtb[n] : rtb[n][id] \in Range(s)})
  <2>1. Instances(n) = <<>>
    <3>1. Instances(n) \in Seq(Instance) /\ Len(Instances(n)) = Len(remote_table[n])
      BY InstancesAreTyped
    <3>2. QED
      BY <3>1
  <2>2. s \o <<>> = s
    BY <1>1, ConcatEmptySeq
  <2>3. QED
    BY <2>1, <2>2 DEF NbContainersInBridgeNode
<1>4. \A i \in 1 .. b : \A j \in 1 .. o : s[i] # t[j]
  <2>. SUFFICES ASSUME NEW i \in 1 .. b, NEW j \in 1 .. o, s[i] = t[j] PROVE FALSE
    OBVIOUS
  <2>. DEFINE joined == s \o t
  <2>. HIDE DEF s, t, b, o, joined
  <2>1. /\ DOMAIN joined = 1 .. b + o
        /\ \A k \in 1 .. b + o : joined[k] = IF k <= b THEN s[k] ELSE t[k - b]
    BY <1>1 DEF joined, b, o
  <2>2. PICK p \in 1 .. b + o : p = b + j
    BY <1>1
  <2>3. i \in 1 .. b + o /\ i <= b /\ ~(p <= b) /\ p - b = j /\ i # p
    BY <1>1, <2>2
  <2>4. joined[i] = s[i]
    BY <2>1, <2>3
  <2>5. joined[p] = t[j]
    BY <2>1, <2>3
  <2>6. IsInjective(joined)
    BY <1>2 DEF joined
  <2>7. QED
    BY <2>1, <2>2, <2>3, <2>4, <2>5, <2>6 DEF IsInjective
<1>. HIDE DEF s, t, b, o
<1>5. CASE rtb[n] = s \o t
  <2>1. DOMAIN (s \o t) = 1 .. b + o /\ \A k \in 1 .. b + o : (s \o t)[k] = IF k <= b THEN s[k] ELSE t[k - b]
    BY <1>1 DEF b, o
  <2>2. ASSUME NEW k \in 1 .. b + o PROVE (s \o t)[k] \in Range(s) <=> k \in 1 .. b
    <3>1. CASE k <= b
      <4>1. k \in 1 .. b /\ (s \o t)[k] = s[k]
        BY <1>1, <2>1, <3>1
      <4>2. QED
        BY <1>1, <4>1 DEF Range
    <3>2. CASE ~(k <= b)
      <4>1. k - b \in 1 .. o /\ (s \o t)[k] = t[k - b]
        BY <1>1, <2>1, <3>2
      <4>2. QED
        BY <1>1, <1>4, <3>2, <4>1 DEF Range
    <3>3. QED
      BY <3>1, <3>2
  <2>3. {id \in DOMAIN rtb[n] : rtb[n][id] \in Range(s)} = 1 .. b
    <3>1. 1 .. b \subseteq 1 .. b + o
      BY <1>1
    <3>2. QED
      BY <1>5, <2>1, <2>2, <3>1
  <2>4. Cardinality(1 .. b) = b
    BY <1>1, FS_Interval
  <2>5. QED
    BY <1>3, <2>3, <2>4 DEF BridgeLen, b, s
<1>6. CASE rtb[n] = t \o s
  <2>1. DOMAIN (t \o s) = 1 .. o + b /\ \A k \in 1 .. o + b : (t \o s)[k] = IF k <= o THEN t[k] ELSE s[k - o]
    BY <1>1 DEF b, o
  <2>2. ASSUME NEW k \in 1 .. o + b PROVE (t \o s)[k] \in Range(s) <=> k \in o + 1 .. o + b
    <3>1. CASE k <= o
      <4>1. k \in 1 .. o /\ (t \o s)[k] = t[k]
        BY <1>1, <2>1, <3>1
      <4>2. QED
        BY <1>1, <1>4, <3>1, <4>1 DEF Range
    <3>2. CASE ~(k <= o)
      <4>1. k - o \in DOMAIN s /\ (t \o s)[k] = s[k - o] /\ k \in o + 1 .. o + b
        BY <1>1, <2>1, <3>2
      <4>2. QED
        BY <4>1 DEF Range
    <3>3. QED
      BY <3>1, <3>2
  <2>3. {id \in DOMAIN rtb[n] : rtb[n][id] \in Range(s)} = o + 1 .. o + b
    <3>1. o + 1 .. o + b \subseteq 1 .. o + b
      BY <1>1
    <3>2. QED
      BY <1>6, <2>1, <2>2, <3>1
  <2>4. Cardinality(o + 1 .. o + b) = b
    BY <1>1, FS_Interval
  <2>5. QED
    BY <1>3, <2>3, <2>4 DEF BridgeLen, b, s
<1>7. QED
  BY <1>5, <1>6 DEF s, t

-----------------------------------------------------------------------------
\* The entries before a position are those that are kept and those that are not.
LEMMA NotKeptBefore ==
  ASSUME NEW l \in Nat, NEW gone \in SUBSET (1 .. l), NEW i \in (1 .. l) \ gone
  PROVE  Cardinality({j \in 1 .. i - 1 : j \in gone}) = i - Rank((1 .. l) \ gone, i)
<1>. DEFINE removed == {j \in 1 .. i - 1 : j \in gone}
            stays   == {j \in (1 .. l) \ gone : j <= i}
<1>1. IsFiniteSet(1 .. i) /\ Cardinality(1 .. i) = i
  BY FS_Interval
<1>2. removed \subseteq 1 .. i /\ stays \subseteq 1 .. i
  OBVIOUS
<1>3. IsFiniteSet(removed) /\ IsFiniteSet(stays)
  BY <1>1, <1>2, FS_Subset
<1>4. removed \cap stays = {} /\ removed \cup stays = 1 .. i
  OBVIOUS
<1>. HIDE DEF removed, stays
<1>5. Cardinality(removed \cup stays) = Cardinality(removed) + Cardinality(stays) - Cardinality(removed \cap stays)
  BY <1>3, FS_Union
<1>6. Cardinality(removed \cap stays) = 0
  BY <1>4, FS_EmptySet
<1>7. Cardinality(removed) \in Nat /\ Cardinality(stays) \in Nat
  BY <1>3, FS_CardinalityType
<1>8. Cardinality(removed) = i - Cardinality(stays)
  <2>1. Cardinality(removed \cup stays) = i
    BY <1>1, <1>4
  <2>2. QED
    BY <1>5, <1>6, <1>7, <2>1
<1>9. QED
  BY <1>8 DEF Rank, removed, stays

LEMMA KeptPositions ==
  ASSUME NEW S, NEW s \in Seq(S), NEW kept \in SUBSET (1 .. Len(s))
  PROVE  \E pos \in [1 .. Cardinality(kept) -> kept] :
           /\ \A k, l \in 1 .. Cardinality(kept) : k < l => pos[k] < pos[l]
           /\ \A i \in kept : \E k \in 1 .. Cardinality(kept) : pos[k] = i
           /\ \A k \in 1 .. Cardinality(kept) : Rank(kept, pos[k]) = k
           /\ \A k \in 1 .. Cardinality(kept) : Selected(s, kept)[k] = s[pos[k]]
  BY SelectedPositions

\* remote_container_table_clear_address keeps the entries of the other nodes, in
\* their order, and lowers the local ID of an entry by what it is shifted.
KeptAt(table, addr, c, pos) ==
  /\ pos \in [DOMAIN c -> DOMAIN table]
  /\ \A k, l \in DOMAIN c : k < l => pos[k] < pos[l]
  /\ \A i \in DOMAIN table : table[i].node_addr # addr => \E k \in DOMAIN c : pos[k] = i
  /\ \A k \in DOMAIN c : /\ table[pos[k]].node_addr # addr
                         /\ c[k] = [table[pos[k]] EXCEPT !.local_id = @ - (pos[k] - k)]

LEMMA AddressIsCleared ==
  ASSUME NEW table \in Seq(RemoteEntry), NEW addr
  PROVE  /\ ClearedAddress(table, addr) \in Seq(RemoteEntry)
         /\ Len(ClearedAddress(table, addr)) <= Len(table)
         /\ \E pos : KeptAt(table, addr, ClearedAddress(table, addr), pos)
<1>. DEFINE kept == {i \in DOMAIN table : table[i].node_addr # addr}
            gone == {i \in DOMAIN table : table[i].node_addr = addr}
            before(i) == Cardinality({j \in 1 .. i - 1 : table[j].node_addr = addr})
            shifted == [i \in DOMAIN table |-> [table[i] EXCEPT !.local_id = @ - before(i)]]
            cleared == ClearedAddress(table, addr)
<1>0. DOMAIN table = 1 .. Len(table) /\ Len(table) \in Nat
      /\ \A i \in 1 .. Len(table) : table[i] \in RemoteEntry
  OBVIOUS
<1>1. cleared = Selected(shifted, kept)
  BY DEF ClearedAddress
<1>2. kept \in SUBSET (1 .. Len(table)) /\ gone \in SUBSET (1 .. Len(table))
      /\ kept = (1 .. Len(table)) \ gone
  BY <1>0
<1>3. \A i \in kept : before(i) = i - Rank(kept, i)
  <2>1. TAKE i \in kept
  <2>2. {j \in 1 .. i - 1 : table[j].node_addr = addr} = {j \in 1 .. i - 1 : j \in gone}
    BY <1>0
  <2>3. i \in (1 .. Len(table)) \ gone
    BY <1>2
  <2>. HIDE DEF kept, gone
  <2>4. Cardinality({j \in 1 .. i - 1 : j \in gone}) = i - Rank((1 .. Len(table)) \ gone, i)
    BY <1>0, <1>2, <2>3, NotKeptBefore
  <2>5. QED
    BY <1>2, <2>2, <2>4
<1>4. \A i \in 1 .. Len(table) : before(i) \in Nat
  <2>1. TAKE i \in 1 .. Len(table)
  <2>2. IsFiniteSet(1 .. i - 1)
    BY FS_Interval
  <2>3. IsFiniteSet({j \in 1 .. i - 1 : table[j].node_addr = addr})
    BY <2>2, FS_Subset
  <2>4. QED
    BY <2>3, FS_CardinalityType
<1>5. shifted \in Seq(RemoteEntry) /\ Len(shifted) = Len(table)
  <2>. HIDE DEF before
  <2>1. ASSUME NEW i \in 1 .. Len(table) PROVE shifted[i] \in RemoteEntry
    <3>1. PICK b \in Nat : b = before(i)
      BY <1>4
    <3>2. shifted[i] = [table[i] EXCEPT !.local_id = @ - b]
      BY <1>0, <3>1
    <3>. HIDE DEF shifted
    <3>3. PICK e \in RemoteEntry : e = table[i]
      BY <1>0
    <3>4. [e EXCEPT !.local_id = @ - b] \in RemoteEntry
      <4>1. PICK v \in Int : v = e.local_id - b
        BY DEF RemoteEntry
      <4>2. [e EXCEPT !.local_id = v] \in RemoteEntry
        BY DEF RemoteEntry
      <4>3. QED
        BY <4>1, <4>2
    <3>5. QED
      BY <3>2, <3>3, <3>4
  <2>2. shifted \in [1 .. Len(table) -> RemoteEntry]
    BY <1>0, <2>1
  <2>3. QED
    BY <1>0, <2>2
<1>. HIDE DEF kept, gone, before, shifted, cleared
<1>6. /\ cleared \in Seq(RemoteEntry) /\ Len(cleared) = Cardinality(kept)
      /\ Cardinality(kept) \in Nat
  BY <1>1, <1>2, <1>5, SelectedPositions
<1>7. DOMAIN cleared = 1 .. Cardinality(kept)
  BY <1>6
<1>8. PICK pos \in [1 .. Cardinality(kept) -> kept] :
        /\ \A k, l \in 1 .. Cardinality(kept) : k < l => pos[k] < pos[l]
        /\ \A i \in kept : \E k \in 1 .. Cardinality(kept) : pos[k] = i
        /\ \A k \in 1 .. Cardinality(kept) : Rank(kept, pos[k]) = k
        /\ \A k \in 1 .. Cardinality(kept) : cleared[k] = shifted[pos[k]]
  <2>1. shifted \in Seq(RemoteEntry)
    BY <1>5
  <2>2. kept \in SUBSET (1 .. Len(shifted))
    BY <1>2, <1>5
  <2>3. \E pos \in [1 .. Cardinality(kept) -> kept] :
          /\ \A k, l \in 1 .. Cardinality(kept) : k < l => pos[k] < pos[l]
          /\ \A i \in kept : \E k \in 1 .. Cardinality(kept) : pos[k] = i
          /\ \A k \in 1 .. Cardinality(kept) : Rank(kept, pos[k]) = k
          /\ \A k \in 1 .. Cardinality(kept) : Selected(shifted, kept)[k] = shifted[pos[k]]
    BY <2>1, <2>2, KeptPositions
  <2>4. QED
    BY <1>1, <2>3
<1>9. pos \in [DOMAIN cleared -> DOMAIN table]
  BY <1>0, <1>2, <1>7, <1>8
<1>10. ASSUME NEW k \in DOMAIN cleared
       PROVE  /\ table[pos[k]].node_addr # addr
              /\ cleared[k] = [table[pos[k]] EXCEPT !.local_id = @ - (pos[k] - k)]
  <2>1. pos[k] \in kept /\ Rank(kept, pos[k]) = k /\ cleared[k] = shifted[pos[k]]
    BY <1>7, <1>8
  <2>2. PICK i \in kept : i = pos[k]
    BY <2>1
  <2>3. before(i) = i - k
    BY <1>3, <2>1, <2>2
  <2>4. i \in DOMAIN table
    BY <2>2 DEF kept
  <2>5. shifted[i] = [table[i] EXCEPT !.local_id = @ - before(i)]
    BY <2>4 DEF shifted
  <2>6. table[i].node_addr # addr
    BY <2>2 DEF kept
  <2>7. QED
    BY <2>1, <2>2, <2>3, <2>5, <2>6
<1>11. \A i \in DOMAIN table :
         table[i].node_addr # addr => \E k \in DOMAIN cleared : pos[k] = i
  BY <1>7, <1>8 DEF kept
<1>12. \A k, l \in DOMAIN cleared : k < l => pos[k] < pos[l]
  BY <1>7, <1>8
<1>13. KeptAt(table, addr, cleared, pos)
  BY <1>9, <1>10, <1>11, <1>12 DEF KeptAt
<1>14. Cardinality(kept) <= Len(table)
  <2>1. IsFiniteSet(1 .. Len(table)) /\ Cardinality(1 .. Len(table)) = Len(table)
    BY <1>0, FS_Interval
  <2>2. kept \subseteq 1 .. Len(table)
    BY <1>2
  <2>3. Cardinality(kept) <= Cardinality(1 .. Len(table))
    BY <2>1, <2>2, FS_Subset
  <2>4. QED
    BY <2>1, <2>3
<1>15. Len(cleared) <= Len(table)
  BY <1>6, <1>14
<1>16. QED
  BY <1>6, <1>13, <1>15 DEF cleared

\* What the new entries of a table have in common
LEMMA AddedAreTyped ==
  ASSUME NEW n \in Net, NEW from \in Net, local_table[from] \in Seq(LocalEntry),
         NbLocal(n) \in Nat, Len(remote_table[n]) \in Nat
  PROVE  /\ AddedEntries(n, from) \in Seq(RemoteEntry)
         /\ Len(AddedEntries(n, from)) = Len(local_table[from])
         /\ \A i \in 1 .. Len(local_table[from]) :
              LET e == AddedEntries(n, from)[i]
              IN /\ e.node_addr = from /\ e.id = local_table[from][i].id
                 /\ e.container = local_table[from][i].container
                 /\ e.local_id = NbLocal(n) + Len(remote_table[n]) + i
                 /\ e.local_instance = <<from, local_table[from][i].id>>
<1>. DEFINE l == Len(local_table[from])  added == AddedEntries(n, from)
<1>1. DOMAIN local_table[from] = 1 .. l /\ l \in Nat
      /\ \A i \in 1 .. l : local_table[from][i] \in LocalEntry
  OBVIOUS
<1>2. ASSUME NEW i \in 1 .. l
      PROVE  /\ added[i] \in RemoteEntry
             /\ added[i].node_addr = from /\ added[i].id = local_table[from][i].id
             /\ added[i].container = local_table[from][i].container
             /\ added[i].local_id = NbLocal(n) + Len(remote_table[n]) + i
             /\ added[i].local_instance = <<from, local_table[from][i].id>>
  <2>1. added[i] = [node_addr |-> from, id |-> local_table[from][i].id,
                    container |-> local_table[from][i].container,
                    local_id |-> NbLocal(n) + 1 + Len(remote_table[n]) + i - 1,
                    local_instance |-> <<from, local_table[from][i].id>>]
    BY <1>1 DEF AddedEntries
  <2>2. local_table[from][i].id \in Nat /\ local_table[from][i].container \in Container
    BY <1>1 DEF LocalEntry
  <2>3. NbLocal(n) + 1 + Len(remote_table[n]) + i - 1 = NbLocal(n) + Len(remote_table[n]) + i
        /\ NbLocal(n) + Len(remote_table[n]) + i \in Int
    <3>. HIDE DEF l, added
    <3>1. PICK nb \in Nat : nb = NbLocal(n)
      OBVIOUS
    <3>2. PICK r \in Nat : r = Len(remote_table[n])
      OBVIOUS
    <3>3. i \in Nat
      BY <1>1
    <3>4. nb + 1 + r + i - 1 = nb + r + i /\ nb + r + i \in Int
      BY <3>3
    <3>5. QED
      BY <3>1, <3>2, <3>4
  <2>. HIDE DEF added, l
  <2>4. <<from, local_table[from][i].id>> \in Instance
    BY <2>2 DEF Instance
  <2>5. QED
    BY <2>1, <2>2, <2>3, <2>4 DEF RemoteEntry
<1>3. added \in [1 .. l -> RemoteEntry]
  BY <1>1, <1>2 DEF AddedEntries
<1>. HIDE DEF added
<1>4. added \in Seq(RemoteEntry) /\ Len(added) = l
  BY <1>1, <1>3
<1>5. QED
  BY <1>2, <1>4 DEF added

-----------------------------------------------------------------------------
\* The entries of a table keep leading to what they led to.
LocalRenumbered(n, detected, old, new) ==
  /\ DOMAIN new = DOMAIN old /\ Len(new) = Len(old)
  /\ \A k \in DOMAIN old :
       /\ new[k].id = old[k].id /\ new[k].container = old[k].container
       /\ new[k].local_id \in DOMAIN detected
       /\ detected[new[k].local_id] = rtb[n][old[k].local_id]

\* The entries of a table move as a whole.
RemoteMoved(base, old, new) ==
  /\ DOMAIN new = DOMAIN old /\ Len(new) = Len(old)
  /\ \A k \in DOMAIN old :
       /\ new[k].node_addr = old[k].node_addr /\ new[k].id = old[k].id
       /\ new[k].container = old[k].container /\ new[k].local_instance = old[k].local_instance
       /\ new[k].local_id = base + k

\* An update finds the container of an entry in the detection to come.
Found(n, id, detected) ==
  /\ FutureID(n, id, detected) \in DOMAIN detected
  /\ detected[FutureID(n, id, detected)] = rtb[n][id]

LEMMA LocalIsUpdated ==
  ASSUME NEW n \in Net, NEW S, NEW detected \in Seq(S), NEW table \in Seq(LocalEntry),
         \A k \in DOMAIN table : Found(n, table[k].local_id, detected)
  PROVE  /\ UpdatedIDs(n, table, detected) \in Seq(LocalEntry)
         /\ LocalRenumbered(n, detected, table, UpdatedIDs(n, table, detected))
<1>. DEFINE u == UpdatedIDs(n, table, detected)
<1>1. /\ DOMAIN table = 1 .. Len(table) /\ Len(table) \in Nat
      /\ \A k \in 1 .. Len(table) : table[k] \in LocalEntry
      /\ DOMAIN detected \subseteq Nat
  OBVIOUS
<1>2. DOMAIN u = DOMAIN table /\ u = [k \in 1 .. Len(table) |-> u[k]]
  BY <1>1 DEF UpdatedIDs
<1>3. ASSUME NEW k \in DOMAIN table
      PROVE  /\ u[k] \in LocalEntry
             /\ u[k].id = table[k].id /\ u[k].container = table[k].container
             /\ u[k].local_id \in DOMAIN detected
             /\ detected[u[k].local_id] = rtb[n][table[k].local_id]
  <2>1. PICK id \in DOMAIN detected : /\ detected[id] = rtb[n][table[k].local_id]
                                      /\ u[k] = [table[k] EXCEPT !.local_id = id]
    <3>1. u[k] = [table[k] EXCEPT !.local_id = FutureID(n, table[k].local_id, detected)]
      BY <1>3 DEF UpdatedIDs
    <3>2. Found(n, table[k].local_id, detected)
      BY <1>3
    <3>3. QED
      BY <3>1, <3>2 DEF Found
  <2>2. PICK e \in LocalEntry : e = table[k]
    BY <1>1
  <2>3. id \in Nat
    BY <1>1
  <2>. HIDE DEF u
  <2>4. u[k] = [e EXCEPT !.local_id = id]
    BY <2>1, <2>2
  <2>5. u[k] \in LocalEntry /\ u[k].id = e.id /\ u[k].container = e.container /\ u[k].local_id = id
    BY <2>3, <2>4 DEF LocalEntry
  <2>6. QED
    BY <2>1, <2>2, <2>5
<1>. HIDE DEF u
<1>4. u \in [1 .. Len(table) -> LocalEntry]
  BY <1>1, <1>2, <1>3
<1>5. u \in Seq(LocalEntry) /\ Len(u) = Len(table)
  BY <1>1, <1>4
<1>6. QED
  BY <1>1, <1>2, <1>3, <1>5 DEF u, LocalRenumbered

LEMMA RemoteIsUpdated ==
  ASSUME NEW n \in Net, NEW detected, NEW table \in Seq(RemoteEntry), NEW base \in Nat,
         \A k \in DOMAIN table : FutureID(n, table[k].local_id, detected) = base + k
  PROVE  /\ UpdatedIDs(n, table, detected) \in Seq(RemoteEntry)
         /\ RemoteMoved(base, table, UpdatedIDs(n, table, detected))
<1>. DEFINE u == UpdatedIDs(n, table, detected)
<1>1. /\ DOMAIN table = 1 .. Len(table) /\ Len(table) \in Nat
      /\ \A k \in 1 .. Len(table) : table[k] \in RemoteEntry
  OBVIOUS
<1>2. DOMAIN u = DOMAIN table /\ u = [k \in 1 .. Len(table) |-> u[k]]
  BY <1>1 DEF UpdatedIDs
<1>3. ASSUME NEW k \in DOMAIN table
      PROVE  /\ u[k] \in RemoteEntry
             /\ u[k].node_addr = table[k].node_addr /\ u[k].id = table[k].id
             /\ u[k].container = table[k].container
             /\ u[k].local_instance = table[k].local_instance
             /\ u[k].local_id = base + k
  <2>1. u[k] = [table[k] EXCEPT !.local_id = FutureID(n, table[k].local_id, detected)]
    BY <1>3 DEF UpdatedIDs
  <2>2. PICK id \in Int : id = base + k
    BY <1>1
  <2>3. PICK e \in RemoteEntry : e = table[k]
    BY <1>1
  <2>4. FutureID(n, table[k].local_id, detected) = id
    BY <2>2
  <2>. HIDE DEF u
  <2>5. u[k] = [e EXCEPT !.local_id = id]
    BY <2>1, <2>3, <2>4
  <2>6. /\ u[k] \in RemoteEntry /\ u[k].node_addr = e.node_addr /\ u[k].id = e.id
        /\ u[k].container = e.container /\ u[k].local_instance = e.local_instance
        /\ u[k].local_id = id
    BY <2>2, <2>5 DEF RemoteEntry
  <2>7. QED
    BY <2>2, <2>3, <2>6
<1>. HIDE DEF u
<1>4. u \in [1 .. Len(table) -> RemoteEntry]
  BY <1>1, <1>2, <1>3
<1>5. u \in Seq(RemoteEntry) /\ Len(u) = Len(table)
  BY <1>1, <1>4
<1>6. QED
  BY <1>1, <1>2, <1>3, <1>5 DEF u, RemoteMoved

-----------------------------------------------------------------------------
\* A network that takes no part in a step

TablesKept(m) ==
  /\ rtb'[m] = rtb[m] /\ local_table'[m] = local_table[m] /\ remote_table'[m] = remote_table[m]
  /\ nb_local'[m] = nb_local[m] /\ gate'[m] = gate[m]

LEMMA KeptRest ==
  ASSUME NEW m \in Net, rtb'[m] = rtb[m], remote_table'[m] = remote_table[m],
         nb_local'[m] = nb_local[m], gate'[m] = gate[m], state'[m] = state[m],
         NetworkForm(m), LocalForm(m)'
  PROVE  NetworkForm(m)'
<1>1. Instances(m)' = Instances(m)
  BY DEF Instances
<1>2. /\ DetectedFromBridge(m)' = DetectedFromBridge(m)
      /\ DetectedFromOther(m)' = DetectedFromOther(m)
  BY <1>1 DEF DetectedFromBridge, DetectedFromOther
<1>3. Updated(m)' = Updated(m)
  BY DEF Updated
<1>4. RemoteForm(m)'
  BY <1>3 DEF NetworkForm, RemoteForm, Stands, Bridged, InOrder, BridgeLen
<1>5. Single(m)'
  BY DEF NetworkForm, Single
<1>6. RtbForm(m)'
  BY <1>2 DEF NetworkForm, RtbForm
<1>7. Counted(m)' /\ RtbPlaces(m)'
  BY DEF NetworkForm, Counted, BridgeLen, RtbPlaces
<1>8. QED
  BY <1>4, <1>5, <1>6, <1>7 DEF NetworkForm

LEMMA KeptForm ==
  ASSUME NEW m \in Net, TablesKept(m), state'[m] = state[m], NetworkForm(m)
  PROVE  NetworkForm(m)'
<1>1. Instances(m)' = Instances(m)
  BY DEF TablesKept, Instances
<1>2. Numbering(m)' = Numbering(m)
  BY <1>1 DEF TablesKept, Numbering, DetectedFromOther
<1>3. LocalForm(m)'
  BY <1>2 DEF NetworkForm, LocalForm, TablesKept, Owned
<1>4. QED
  BY <1>3, KeptRest DEF TablesKept

-----------------------------------------------------------------------------
\* remote_container_table_add_entry, for all entries of a network that the table
\* has none of

Appended(m, from) == remote_table[m] \o AddedEntries(m, from)

LEMMA CountIsBoard ==
  ASSUME TablesTypes, NEW m \in Net, Counted(m)
  PROVE  NbLocal(m) = BridgeLen(m)
<1>1. CASE nb_local[m] = 0
  BY <1>1, BoardIsCounted DEF Counted, NbLocal
<1>2. CASE nb_local[m] # 0
  BY <1>2 DEF Counted, NbLocal
<1>3. QED
  BY <1>1, <1>2

LEMMA AppendedEntries ==
  ASSUME TablesTypes, NEW m \in Net, NEW from \in Net, m # from,
         LocalForm(from), RemoteForm(m), Single(m), Counted(m), ~Updated(m),
         \A k \in DOMAIN remote_table[m] : remote_table[m][k].node_addr # from
  PROVE  /\ Appended(m, from) \in Seq(RemoteEntry)
         /\ Len(Appended(m, from)) = Len(remote_table[m]) + Len(local_table[from])
         /\ \A k \in DOMAIN Appended(m, from) :
              LET e == Appended(m, from)[k]
              IN /\ Stands(m, e) /\ e.local_id = BridgeLen(m) + k
                 /\ \/ e.node_addr = from
                    \/ \E l \in DOMAIN remote_table[m] : e.node_addr = remote_table[m][l].node_addr
         /\ \A k, l \in DOMAIN Appended(m, from) :
              Appended(m, from)[k].local_instance = Appended(m, from)[l].local_instance => k = l
<1>. DEFINE old == remote_table[m]  new == AddedEntries(m, from)  all == Appended(m, from)
            o == Len(remote_table[m])  l == Len(local_table[from])  b == BridgeLen(m)
<1>1. /\ remote_table[m] \in Seq(RemoteEntry) /\ local_table[from] \in Seq(LocalEntry)
      /\ o \in Nat /\ l \in Nat
      /\ DOMAIN local_table[from] = 1 .. l /\ DOMAIN old = 1 .. o
  BY DEF TablesTypes
<1>2. NbLocal(m) = b /\ b \in Nat
  BY CountIsBoard, TablesAssumptionUsed
<1>3. /\ new \in Seq(RemoteEntry) /\ Len(new) = l
      /\ \A i \in 1 .. l :
           /\ new[i].node_addr = from /\ new[i].id = local_table[from][i].id
           /\ new[i].local_id = b + o + i
           /\ new[i].local_instance = <<from, local_table[from][i].id>>
  <2>. HIDE DEF b
  <2>0. NbLocal(m) \in Nat /\ Len(remote_table[m]) \in Nat
    BY <1>1, <1>2
  <2>1. new \in Seq(RemoteEntry) /\ Len(new) = l
    BY <1>1, <2>0, AddedAreTyped
  <2>2. \A i \in 1 .. Len(local_table[from]) :
              LET e == AddedEntries(m, from)[i]
              IN /\ e.node_addr = from /\ e.id = local_table[from][i].id
                 /\ e.container = local_table[from][i].container
                 /\ e.local_id = NbLocal(m) + Len(remote_table[m]) + i
                 /\ e.local_instance = <<from, local_table[from][i].id>>
    BY <1>1, <2>0, AddedAreTyped
  <2>3. QED
    BY <1>2, <2>1, <2>2
<1>4. \A i \in 1 .. l : local_table[from][i].id = i - 1 /\ l <= MaxEntries
  BY <1>1 DEF LocalForm
<1>5. \A k \in 1 .. o : Stands(m, old[k]) /\ old[k].local_id = b + k
  BY <1>1 DEF RemoteForm, InOrder, Bridged
<1>6. \A k, j \in 1 .. o : old[k].local_instance = old[j].local_instance => k = j
  BY <1>1 DEF Single
<1>7. /\ all \in Seq(RemoteEntry) /\ Len(all) = o + l
      /\ \A k \in 1 .. o : all[k] = old[k]
      /\ \A i \in 1 .. l : all[o + i] = new[i]
  <2>1. all = old \o new /\ old \in Seq(RemoteEntry) /\ new \in Seq(RemoteEntry)
    BY <1>1, <1>3 DEF Appended
  <2>. HIDE DEF all, old, new
  <2>2. Len(old) = o /\ Len(new) = l
    BY <1>3 DEF old
  <2>. HIDE DEF o, l
  <2>3. all \in Seq(RemoteEntry) /\ Len(all) = Len(old) + Len(new)
    BY <2>1
  <2>4. \A k \in 1 .. Len(old) : all[k] = old[k]
    BY <2>1
  <2>5. \A i \in 1 .. Len(new) : all[Len(old) + i] = new[i]
    BY <2>1
  <2>6. QED
    BY <2>2, <2>3, <2>4, <2>5
<1>8. DOMAIN all = 1 .. o + l
  BY <1>7
<1>. HIDE DEF old, new, all, o, l, b
\* An entry of the whole table is an old one or a new one.
<1>9. ASSUME NEW k \in 1 .. o + l
      PROVE  \/ k \in 1 .. o /\ all[k] = old[k]
             \/ \E i \in 1 .. l : k = o + i /\ all[k] = new[i]
  <2>1. CASE k <= o
    <3>1. k \in 1 .. o
      BY <2>1, <1>1
    <3>2. QED
      BY <3>1, <1>7
  <2>2. CASE ~(k <= o)
    <3>1. PICK i \in 1 .. l : i = k - o
      BY <2>2, <1>1
    <3>2. k = o + i
      BY <3>1, <1>1
    <3>3. QED
      BY <3>2, <1>7
  <2>3. QED
    BY <2>1, <2>2
<1>10. ASSUME NEW i \in 1 .. l
       PROVE  Stands(m, new[i]) /\ new[i].local_instance = <<from, i - 1>>
  <2>1. new[i].id = i - 1 /\ new[i].node_addr = from /\ new[i].local_instance = <<from, i - 1>>
    BY <1>3, <1>4
  <2>2. i - 1 < MaxEntries
    BY <1>1, <1>4, TablesAssumptionUsed
  <2>3. QED
    BY <2>1, <2>2 DEF Stands
<1>11. ASSUME NEW k \in 1 .. o + l
       PROVE  /\ Stands(m, all[k]) /\ all[k].local_id = b + k
              /\ \/ all[k].node_addr = from
                 \/ \E j \in DOMAIN old : all[k].node_addr = old[j].node_addr
  <2>1. CASE k \in 1 .. o /\ all[k] = old[k]
    BY <2>1, <1>1, <1>5
  <2>2. CASE \E i \in 1 .. l : k = o + i /\ all[k] = new[i]
    <3>1. PICK i \in 1 .. l : k = o + i /\ all[k] = new[i]
      BY <2>2
    <3>2. new[i].node_addr = from /\ new[i].local_id = b + o + i
      BY <1>3
    <3>3. b + o + i = b + k
      BY <3>1, <1>1, <1>2
    <3>4. QED
      BY <3>1, <3>2, <3>3, <1>10
  <2>3. QED
    BY <1>9, <2>1, <2>2
<1>12. ASSUME NEW k \in 1 .. o, NEW i \in 1 .. l PROVE old[k].local_instance # new[i].local_instance
  <2>1. old[k].local_instance = <<old[k].node_addr, old[k].id>> /\ old[k].node_addr # from
    BY <1>1, <1>5 DEF Stands, old
  <2>2. new[i].local_instance = <<from, i - 1>>
    BY <1>10
  <2>3. QED
    BY <2>1, <2>2
<1>13. ASSUME NEW i \in 1 .. l, NEW j \in 1 .. l, new[i].local_instance = new[j].local_instance
       PROVE  i = j
  <2>1. <<from, i - 1>> = <<from, j - 1>>
    BY <1>10, <1>13
  <2>2. i - 1 = j - 1
    BY <2>1
  <2>3. QED
    BY <2>2, <1>1
<1>14. ASSUME NEW k \in 1 .. o + l, NEW j \in 1 .. o + l,
              all[k].local_instance = all[j].local_instance
       PROVE  k = j
  <2>1. CASE k \in 1 .. o /\ all[k] = old[k]
    <3>1. CASE j \in 1 .. o /\ all[j] = old[j]
      BY <1>6, <1>14, <2>1, <3>1
    <3>2. CASE \E i \in 1 .. l : j = o + i /\ all[j] = new[i]
      BY <1>12, <1>14, <2>1, <3>2
    <3>3. QED
      BY <1>9, <3>1, <3>2
  <2>2. CASE \E i \in 1 .. l : k = o + i /\ all[k] = new[i]
    <3>1. PICK i \in 1 .. l : k = o + i /\ all[k] = new[i]
      BY <2>2
    <3>2. CASE j \in 1 .. o /\ all[j] = old[j]
      BY <1>12, <1>14, <3>1, <3>2
    <3>3. CASE \E h \in 1 .. l : j = o + h /\ all[j] = new[h]
      BY <1>13, <1>14, <3>1, <3>3
    <3>4. QED
      BY <1>9, <3>2, <3>3
  <2>3. QED
    BY <1>9, <2>1, <2>2
<1>15. QED
  BY <1>7, <1>8, <1>11, <1>14 DEF all, old, o, l, b

-----------------------------------------------------------------------------
\* MESH_BRIDGE_FILL_LOCAL_CONTAINER_TABLE

LEMMA StoredAreIDs ==
  ASSUME TablesTypes, NEW n \in Net
  PROVE  IDsToStore(n) \in Seq(DOMAIN rtb[n])
<1>. DEFINE ids == [id \in DOMAIN rtb[n] |-> id]
            kept == {id \in DOMAIN rtb[n] : IsEntryToStore(n, rtb[n][id])}
<1>1. DOMAIN rtb[n] = 1 .. Len(rtb[n]) /\ Len(rtb[n]) \in Nat
  BY DEF TablesTypes
<1>2. ids \in Seq(DOMAIN rtb[n])
  BY <1>1
<1>3. kept \in SUBSET (1 .. Len(ids))
  BY <1>1
<1>4. IDsToStore(n) = Selected(ids, kept)
  BY DEF IDsToStore
<1>. HIDE DEF ids, kept
<1>5. QED
  BY <1>2, <1>3, <1>4, SelectedPositions

LEMMA TableIsFilled ==
  ASSUME TablesTypes, NEW n \in Net, LocalForm(n), Len(local_table[n]) < MaxEntries,
         Numbering(n) = rtb[n], \A p \in DOMAIN rtb[n] : rtb[n][p] \in Owned(n)
  PROVE  /\ FilledTable(n) \in Seq(LocalEntry) /\ Len(FilledTable(n)) <= MaxEntries
         /\ \A k \in DOMAIN FilledTable(n) :
              LET e == FilledTable(n)[k]
              IN /\ e.id = k - 1 /\ e.container \in Owned(n)
                 /\ e.local_id \in DOMAIN rtb[n] /\ rtb[n][e.local_id] = e.container
<1>. DEFINE ids == IDsToStore(n)  h == Len(local_table[n])
            room == IF h < MaxEntries THEN MaxEntries - h ELSE 1
            l == IF Len(ids) < room THEN Len(ids) ELSE room
            stored == SubSeq(ids, 1, l)
            new == [i \in DOMAIN stored |->
                      [local_id |-> stored[i], id |-> h + i - 1, container |-> rtb[n][stored[i]]]]
            old == local_table[n]
<1>1. /\ old \in Seq(LocalEntry) /\ DOMAIN old = 1 .. h /\ h \in Nat
      /\ DOMAIN rtb[n] \subseteq Nat
  BY DEF TablesTypes
<1>2. ids \in Seq(DOMAIN rtb[n])
  BY StoredAreIDs
<1>3. l \in Nat /\ l <= Len(ids) /\ h + l <= MaxEntries
  <2>1. Len(ids) \in Nat /\ MaxEntries \in Nat
    BY <1>2, TablesAssumptionUsed
  <2>2. h \in Nat /\ h < MaxEntries
    BY <1>1
  <2>. HIDE DEF ids, h
  <2>a. room = MaxEntries - h
    BY <2>2
  <2>. HIDE DEF room
  <2>3. CASE Len(ids) < MaxEntries - h
    BY <2>1, <2>2, <2>3, <2>a
  <2>4. CASE ~(Len(ids) < MaxEntries - h)
    BY <2>1, <2>2, <2>4, <2>a
  <2>5. QED
    BY <2>3, <2>4
<1>4. FilledTable(n) = old \o new
  BY DEF FilledTable
<1>. HIDE DEF ids, l
<1>5. DOMAIN stored = 1 .. l /\ \A i \in 1 .. l : stored[i] \in DOMAIN rtb[n]
  BY <1>2, <1>3
<1>. HIDE DEF stored, old, h
<1>6. ASSUME NEW i \in 1 .. l
      PROVE  /\ new[i] \in LocalEntry
             /\ new[i].id = h + i - 1 /\ new[i].container \in Owned(n)
             /\ new[i].local_id \in DOMAIN rtb[n]
             /\ rtb[n][new[i].local_id] = new[i].container
  <2>1. new[i] = [local_id |-> stored[i], id |-> h + i - 1, container |-> rtb[n][stored[i]]]
    BY <1>5
  <2>2. stored[i] \in DOMAIN rtb[n] /\ stored[i] \in Nat /\ rtb[n][stored[i]] \in Owned(n)
        /\ rtb[n][stored[i]] \in Container
    BY <1>1, <1>5, OwnedAreContainers
  <2>3. h + i - 1 \in Nat
    BY <1>1
  <2>. HIDE DEF new
  <2>4. QED
    BY <2>1, <2>2, <2>3 DEF LocalEntry
<1>7. new \in Seq(LocalEntry) /\ Len(new) = l
  <2>1. new \in [1 .. l -> LocalEntry]
    BY <1>5, <1>6
  <2>. HIDE DEF new
  <2>2. QED
    BY <1>3, <2>1
<1>. HIDE DEF new
<1>8. ASSUME NEW k \in 1 .. h
      PROVE  /\ old[k].id = k - 1 /\ old[k].container \in Owned(n)
             /\ old[k].local_id \in DOMAIN rtb[n] /\ rtb[n][old[k].local_id] = old[k].container
  BY <1>1 DEF LocalForm, old, h
<1>. DEFINE all == old \o new
<1>9. /\ all \in Seq(LocalEntry) /\ Len(all) = h + l
      /\ \A k \in 1 .. h : all[k] = old[k]
      /\ \A i \in 1 .. l : all[h + i] = new[i]
  BY <1>1, <1>7 DEF h
<1>. HIDE DEF all
<1>10. DOMAIN all = 1 .. h + l
  BY <1>9
<1>11. ASSUME NEW k \in 1 .. h + l
       PROVE  /\ all[k].id = k - 1 /\ all[k].container \in Owned(n)
              /\ all[k].local_id \in DOMAIN rtb[n] /\ rtb[n][all[k].local_id] = all[k].container
  <2>1. CASE k <= h
    <3>1. k \in 1 .. h
      BY <2>1, <1>1
    <3>2. QED
      BY <3>1, <1>8, <1>9
  <2>2. CASE ~(k <= h)
    <3>1. PICK i \in 1 .. l : i = k - h
      BY <2>2, <1>1, <1>3
    <3>2. h + i = k /\ h + i - 1 = k - 1
      BY <3>1, <1>1
    <3>3. all[k] = new[i]
      BY <3>2, <1>9
    <3>4. QED
      BY <3>2, <3>3, <1>6
  <2>3. QED
    BY <2>1, <2>2
<1>12. QED
  BY <1>3, <1>4, <1>9, <1>10, <1>11 DEF all

-----------------------------------------------------------------------------
\* Before the first procedure

LEMMA BeforeProcedures ==
  ASSUME TablesInv, round = 0, NEW n \in Net
  PROVE  /\ ~Begun /\ todo = {} /\ state[n] = "IDLE" /\ gate[n] = "idle"
         /\ remote_table[n] = <<>> /\ Numbering(n) = rtb[n]
         /\ \A p \in DOMAIN rtb[n] : rtb[n][p] \in Owned(n)
<1>1. ~Begun
  BY DEF Begun
<1>2. todo = {} /\ state[n] = "IDLE" /\ gate[n] = "idle" /\ remote_table[n] = <<>>
  BY <1>1 DEF TablesInv, Course
<1>3. Numbering(n) = rtb[n]
  BY <1>2 DEF Numbering
<1>4. rtb[n] = DetectedFromOther(n) \/ rtb[n] = DetectedFromBridge(n)
  BY <1>2 DEF TablesInv, NetworkForm, RtbForm
<1>5. \A p \in DOMAIN rtb[n] : rtb[n][p] \in Owned(n)
  BY <1>2, <1>4, OnlyOwned DEF TablesInv
<1>6. QED
  BY <1>1, <1>2, <1>3, <1>5

LEMMA FillKeeps ==
  ASSUME TablesInv, ~FillsFull, NEW n \in Net, Fill(n)
  PROVE  TablesInv'
<1>. USE DEF Fill
<1>1. TablesTypes /\ Course /\ \A m \in Net : NetworkForm(m) /\ Cleared(m)
  BY DEF TablesInv
<1>2. /\ FilledTable(n) \in Seq(LocalEntry) /\ Len(FilledTable(n)) <= MaxEntries
      /\ \A k \in DOMAIN FilledTable(n) :
              LET e == FilledTable(n)[k]
              IN /\ e.id = k - 1 /\ e.container \in Owned(n)
                 /\ e.local_id \in DOMAIN rtb[n] /\ rtb[n][e.local_id] = e.container
  BY <1>1, BeforeProcedures, TableIsFilled DEF NetworkForm
<1>3. local_table'[n] = FilledTable(n) /\ \A m \in Net \ {n} : local_table'[m] = local_table[m]
  BY <1>1 DEF TablesTypes
<1>4. TablesTypes'
  BY <1>1, <1>2 DEF TablesTypes
<1>5. Course'
  BY <1>1 DEF Course, Begun, Initiator
<1>6. ASSUME NEW m \in Net PROVE Cleared(m)'
  BY <1>1 DEF Cleared, Begun, Initiator
<1>7. ASSUME NEW m \in Net \ {n} PROVE NetworkForm(m)'
  <2>1. TablesKept(m)
    BY <1>3 DEF TablesKept
  <2>2. QED
    BY <1>1, <2>1, KeptForm
<1>8. NetworkForm(n)'
  <2>1. LocalForm(n)'
    <3>1. Numbering(n)' = rtb[n]
      BY BeforeProcedures DEF Numbering
    <3>2. QED
      BY <1>2, <1>3, <3>1 DEF LocalForm, Owned
  <2>2. QED
    BY <1>1, <2>1, KeptRest
<1>9. QED
  BY <1>4, <1>5, <1>6, <1>7, <1>8 DEF TablesInv

\* MESH_BRIDGE_CLEAR_INTERNAL_TABLES: there was no remote entry yet.
LEMMA ClearKeeps ==
  ASSUME TablesInv, NEW n \in Net, Clear(n)
  PROVE  TablesInv'
<1>. USE DEF Clear
<1>1. TablesTypes /\ Course /\ \A m \in Net : NetworkForm(m) /\ Cleared(m)
  BY DEF TablesInv
<1>2. local_table'[n] = <<>> /\ \A m \in Net \ {n} : local_table'[m] = local_table[m]
  BY <1>1 DEF TablesTypes
<1>3. remote_table' = remote_table
  BY <1>1, BeforeProcedures DEF TablesTypes
<1>4. TablesTypes'
  <2>1. clears' \in 0 .. MaxClears
    BY <1>1, TablesAssumptionUsed DEF TablesTypes
  <2>2. local_table' \in [Net -> Seq(LocalEntry)]
    BY <1>1 DEF TablesTypes
  <2>3. QED
    BY <1>1, <1>3, <2>1, <2>2 DEF TablesTypes
<1>5. Course'
  BY <1>1, <1>3 DEF Course, Begun, Initiator
<1>6. ASSUME NEW m \in Net PROVE Cleared(m)'
  BY <1>1, <1>3 DEF Cleared, Begun, Initiator
<1>7. ASSUME NEW m \in Net \ {n} PROVE NetworkForm(m)'
  <2>1. TablesKept(m)
    BY <1>2, <1>3 DEF TablesKept
  <2>2. QED
    BY <1>1, <2>1, KeptForm
<1>8. NetworkForm(n)'
  <2>1. LocalForm(n)'
    <3>1. Len(local_table[n])' = 0 /\ DOMAIN local_table'[n] = {}
      BY <1>2
    <3>2. QED
      BY <3>1, TablesAssumptionUsed DEF LocalForm
  <2>2. QED
    BY <1>1, <1>3, <2>1, KeptRest
<1>9. QED
  BY <1>4, <1>5, <1>6, <1>7, <1>8 DEF TablesInv

-----------------------------------------------------------------------------
\* A procedure starts when all networks are idle.

LEMMA EngageKeeps ==
  ASSUME TablesInv, Engage
  PROVE  TablesInv'
<1>1. TablesTypes /\ Course /\ \A m \in Net : NetworkForm(m) /\ Cleared(m)
  BY DEF TablesInv
<1>0. round \in Nat /\ round + 1 \in 1 .. Len(Rounds) /\ Rounds[round + 1] \in Net
  <2>1. round \in Nat /\ round < Len(Rounds) /\ Len(Rounds) \in Nat
    BY TablesAssumptionUsed, <1>1 DEF Engage, TablesTypes
  <2>2. round + 1 \in 1 .. Len(Rounds)
    BY <2>1
  <2>3. QED
    BY <2>1, <2>2, TablesAssumptionUsed
<1>3. PICK n \in Net : n = Rounds[round + 1]
  BY <1>0
<1>2. /\ \A m \in Net : state[m] = "IDLE" /\ gate[m] = "idle"
      /\ remote_table' = [remote_table EXCEPT ![n] = <<>>]
      /\ state' = [state EXCEPT ![n] = "PUBLISHING"]
      /\ todo' = Net \ {n} /\ round' = round + 1
      /\ UNCHANGED <<rtb, local_table, nb_local, gate, clears>>
  BY <1>3 DEF Engage, InProgress
<1>4. Begun' /\ Initiator' = n
  BY <1>0, <1>2, <1>3 DEF Begun, Initiator
<1>5. todo = {}
  <2>1. CASE Begun
    <3>1. Initiator \in Net
      BY <2>1, <1>1, TablesAssumptionUsed DEF Begun, Initiator, TablesTypes
    <3>2. QED
      BY <2>1, <3>1, <1>1, <1>2 DEF Course
  <2>2. CASE ~Begun
    BY <2>2, <1>1 DEF Course
  <2>3. QED
    BY <2>1, <2>2
<1>6. /\ state'[n] = "PUBLISHING" /\ \A m \in Net \ {n} : state'[m] = "IDLE"
      /\ remote_table'[n] = <<>> /\ \A m \in Net \ {n} : remote_table'[m] = remote_table[m]
  BY <1>1, <1>2, <1>3 DEF TablesTypes
<1>7. TablesTypes'
  <2>1. remote_table' \in [Net -> Seq(RemoteEntry)]
    BY <1>1, <1>2 DEF TablesTypes
  <2>2. state' \in [Net -> {"IDLE", "PUBLISHING", "REPLYING", "RECEIVING", "RECEIVED"}]
    BY <1>1, <1>2 DEF TablesTypes
  <2>3. round' \in 0 .. Len(Rounds) /\ todo' \subseteq Net
    BY <1>0, <1>2, TablesAssumptionUsed
  <2>4. QED
    BY <1>1, <1>2, <2>1, <2>2, <2>3 DEF TablesTypes
<1>8. Course'
  BY <1>1, <1>2, <1>3, <1>4, <1>6 DEF Course
<1>9. ASSUME NEW m \in Net PROVE Cleared(m)'
  <2>1. CASE m = n
    BY <2>1, <1>6 DEF Cleared
  <2>2. CASE m # n
    <3>1. state'[m] = "IDLE"
      BY <2>2, <1>6
    <3>2. QED
      BY <2>2, <3>1, <1>4 DEF Cleared
  <2>3. QED
    BY <2>1, <2>2
<1>10. ASSUME NEW m \in Net \ {n} PROVE NetworkForm(m)'
  <2>1. TablesKept(m)
    BY <1>2, <1>6 DEF TablesKept
  <2>2. QED
    BY <1>1, <1>2, <1>6, <2>1, KeptForm
<1>11. NetworkForm(n)'
  <2>1. LocalForm(n)'
    <3>1. Numbering(n)' = Numbering(n)
      BY <1>2, <1>3 DEF Numbering
    <3>2. QED
      BY <1>1, <1>2, <1>3, <3>1 DEF NetworkForm, LocalForm, Owned
  <2>2. DOMAIN remote_table'[n] = {}
    BY <1>6
  <2>3. RemoteForm(n)'
    BY <1>6, <2>2 DEF RemoteForm, Updated, InOrder
  <2>4. Single(n)'
    BY <2>2 DEF Single
  <2>5. RtbForm(n)' /\ RtbPlaces(n)'
    BY <1>1, <1>2, <1>6 DEF NetworkForm, RtbForm, RtbPlaces
  <2>6. Counted(n)'
    BY <1>1, <1>2, <1>3, <1>6 DEF NetworkForm, Counted, BridgeLen
  <2>7. QED
    BY <2>1, <2>3, <2>4, <2>5, <2>6 DEF NetworkForm
<1>12. QED
  BY <1>7, <1>8, <1>9, <1>10, <1>11 DEF TablesInv

-----------------------------------------------------------------------------
\* In a procedure

LEMMA InitiatorTyped ==
  ASSUME TablesTypes, Begun
  PROVE  Initiator \in Net /\ round \in 1 .. Len(Rounds)
  BY TablesAssumptionUsed DEF Begun, Initiator, TablesTypes

\* The entries that are left behind after the erasure of those of a network
LEMMA ClearedForm ==
  ASSUME NEW n \in Net, RemoteForm(n), Single(n), remote_table[n] \in Seq(RemoteEntry), NEW addr
  PROVE  LET c == ClearedAddress(remote_table[n], addr)
         IN /\ c \in Seq(RemoteEntry) /\ Len(c) <= Len(remote_table[n])
            /\ \A k \in DOMAIN c :
                 /\ Stands(n, c[k]) /\ c[k].local_id = Bridged(n) + k /\ c[k].node_addr # addr
                 /\ \E l \in DOMAIN remote_table[n] : c[k].node_addr = remote_table[n][l].node_addr
            /\ \A k, l \in DOMAIN c : c[k].local_instance = c[l].local_instance => k = l
            /\ remote_table[n] = <<>> => c = <<>>
<1>. DEFINE table == remote_table[n]  c == ClearedAddress(remote_table[n], addr)
<1>1. /\ DOMAIN table = 1 .. Len(table) /\ Len(table) \in Nat
      /\ \A k \in DOMAIN table : table[k] \in RemoteEntry
  OBVIOUS
<1>2. c \in Seq(RemoteEntry) /\ Len(c) <= Len(table)
  BY AddressIsCleared
<1>a. PICK pos : KeptAt(table, addr, c, pos)
  BY AddressIsCleared
<1>3. /\ pos \in [DOMAIN c -> DOMAIN table]
      /\ \A k, l \in DOMAIN c : k < l => pos[k] < pos[l]
      /\ \A i \in DOMAIN table : table[i].node_addr # addr => \E k \in DOMAIN c : pos[k] = i
      /\ \A k \in DOMAIN c : /\ table[pos[k]].node_addr # addr
                             /\ c[k] = [table[pos[k]] EXCEPT !.local_id = @ - (pos[k] - k)]
  BY <1>a DEF KeptAt
<1>4. DOMAIN c = 1 .. Len(c) /\ Len(c) \in Nat
  BY <1>2
<1>5. Bridged(n) \in Nat
  <2>1. OtherBoard[n] \in Seq(Container) /\ BridgeLen(n) \in Nat
    BY TablesAssumptionUsed
  <2>2. Len(OtherBoard[n]) \in Nat
    BY <2>1
  <2>3. QED
    BY <2>1, <2>2 DEF Bridged
<1>6. \A k \in DOMAIN table : Stands(n, table[k])
  BY DEF RemoteForm
<1>7. InOrder(n)
  BY DEF RemoteForm
<1>8. \A i, j \in DOMAIN table : table[i].local_instance = table[j].local_instance => i = j
  BY DEF Single
<1>9. ASSUME NEW k \in DOMAIN c PROVE table[pos[k]].local_id = Bridged(n) + pos[k]
  BY <1>7, <1>3 DEF InOrder
<1>. HIDE DEF table, c
<1>10. ASSUME NEW k \in DOMAIN c
       PROVE  /\ Stands(n, c[k]) /\ c[k].local_id = Bridged(n) + k /\ c[k].node_addr # addr
              /\ c[k].local_instance = table[pos[k]].local_instance
              /\ c[k].node_addr = table[pos[k]].node_addr
  <2>1. PICK p \in DOMAIN table : p = pos[k]
    BY <1>3
  <2>2. PICK e \in RemoteEntry : e = table[p]
    BY <1>1
  <2>3. e.node_addr # addr /\ Stands(n, e) /\ e.local_id = Bridged(n) + p
    BY <1>3, <1>6, <1>9, <2>1, <2>2
  <2>4. c[k] = [e EXCEPT !.local_id = @ - (p - k)]
    BY <1>3, <2>1, <2>2
  <2>5. p \in Nat /\ k \in Nat
    BY <1>1, <1>4
  <2>6. c[k].local_id = e.local_id - (p - k)
    BY <2>4 DEF RemoteEntry
  <2>7. e.local_id - (p - k) = Bridged(n) + k
    BY <2>3, <2>5, <1>5
  <2>8. /\ c[k].node_addr = e.node_addr /\ c[k].id = e.id /\ c[k].local_instance = e.local_instance
    BY <2>4 DEF RemoteEntry
  <2>9. Stands(n, c[k])
    BY <2>3, <2>8 DEF Stands
  <2>10. QED
    BY <2>1, <2>2, <2>3, <2>6, <2>7, <2>8, <2>9
<1>11. ASSUME NEW k \in DOMAIN c, NEW l \in DOMAIN c, c[k].local_instance = c[l].local_instance
       PROVE  k = l
  <2>1. pos[k] \in DOMAIN table /\ pos[l] \in DOMAIN table
    BY <1>3
  <2>2. pos[k] = pos[l]
    BY <1>8, <1>10, <1>11, <2>1
  <2>3. ~(k < l) /\ ~(l < k)
    <3>1. PICK p \in Nat : p = pos[k]
      BY <2>1, <1>1
    <3>2. ~(p < p)
      BY <3>1
    <3>3. QED
      BY <1>3, <2>2, <3>1, <3>2
  <2>4. QED
    BY <2>3, <1>4
<1>12. ASSUME table = <<>> PROVE c = <<>>
  <2>1. DOMAIN table = {}
    BY <1>12
  <2>2. DOMAIN c = {}
    BY <1>3, <2>1
  <2>3. Len(c) = 0
    BY <1>4, <2>2
  <2>4. QED
    BY <1>2, <2>3
<1>13. \A k \in DOMAIN c : pos[k] \in DOMAIN table
  BY <1>3
<1>14. QED
  BY <1>2, <1>10, <1>11, <1>12, <1>13 DEF table, c

-----------------------------------------------------------------------------
\* The instances move with the board of the Mesh Bridge.
LEMMA InstancesMove ==
  ASSUME TablesTypes, NEW n \in Net, NEW k \in 1 .. Len(remote_table[n])
  PROVE  /\ rtb[n] = DetectedFromBridge(n) =>
              /\ FutureID(n, BridgeLen(n) + k, DetectedFromBridge(n)) = BridgeLen(n) + k
              /\ FutureID(n, BridgeLen(n) + k, DetectedFromOther(n))
                   = Len(OtherBoard[n]) + BridgeLen(n) + k
         /\ rtb[n] = DetectedFromOther(n) =>
              FutureID(n, Len(OtherBoard[n]) + BridgeLen(n) + k, DetectedFromBridge(n))
                = BridgeLen(n) + k
<1>. DEFINE inst == remote_table[n][k].local_instance
<1>1. PICK b \in Nat \ {0} : b = BridgeLen(n)
  BY TablesAssumptionUsed
<1>2. PICK o \in Nat : o = Len(OtherBoard[n])
  BY PartsAreTyped
<1>3. PICK l \in Nat : l = Len(remote_table[n])
  BY PartsAreTyped
<1>4. k \in Nat /\ k \in 1 .. l
  BY <1>3
<1>5. inst \in Instance
  <2>1. /\ Instances(n) \in Seq(Instance) /\ Len(Instances(n)) = l
        /\ Instances(n)[k] = inst
    BY <1>3, InstancesAreTyped
  <2>2. QED
    BY <1>4, <2>1
<1>6. OnBridgeBoard(n, inst)
  BY <1>5, BoardsApart
<1>. DEFINE x == DetectedFromBridge(n)  y == DetectedFromOther(n)
<1>7. DOMAIN x = 1 .. b + l + o /\ x[b + k] = inst
  BY <1>1, <1>2, <1>3, BridgeParts
<1>8. DOMAIN y = 1 .. o + b + l /\ y[o + b + k] = inst
  BY <1>1, <1>2, <1>3, OtherParts
<1>9. BoardsAt(n, x, 0, b + l) /\ BoardsAt(n, y, o, 0) /\ b + l \in Nat /\ 0 \in Nat
  <2>1. BoardsAt(n, x, 0, b + l)
    BY <1>1, <1>3, BridgePlaces
  <2>2. BoardsAt(n, y, o, 0)
    BY <1>2, OtherPlaces
  <2>3. QED
    BY <2>1, <2>2
<1>. HIDE DEF x, y, inst
<1>10. /\ b + k \in DOMAIN x /\ b + k \in Nat
       /\ o + b + k \in DOMAIN y /\ o + b + k \in Nat
  BY <1>4, <1>7, <1>8
<1>11. ASSUME rtb[n] = x
       PROVE  FutureID(n, b + k, x) = b + k /\ FutureID(n, b + k, y) = o + b + k
  <2>1. BoardsAt(n, rtb[n], 0, b + l) /\ b + k \in DOMAIN rtb[n] /\ OnBridgeBoard(n, rtb[n][b + k])
    BY <1>6, <1>7, <1>9, <1>10, <1>11
  <2>2. FutureID(n, b + k, x) = (b + k) - 0 + 0
    BY <1>9, <1>10, <2>1, FutureMoves
  <2>3. FutureID(n, b + k, y) = (b + k) - 0 + o
    BY <1>9, <1>10, <2>1, FutureMoves
  <2>4. QED
    BY <1>4, <2>2, <2>3
<1>12. ASSUME rtb[n] = y PROVE FutureID(n, o + b + k, x) = b + k
  <2>1. /\ BoardsAt(n, rtb[n], o, 0) /\ o + b + k \in DOMAIN rtb[n]
        /\ OnBridgeBoard(n, rtb[n][o + b + k])
    BY <1>6, <1>8, <1>9, <1>10, <1>12
  <2>2. FutureID(n, o + b + k, x) = (o + b + k) - o + 0
    BY <1>9, <1>10, <2>1, FutureMoves
  <2>3. QED
    BY <1>4, <2>2
<1>13. QED
  BY <1>1, <1>2, <1>11, <1>12 DEF x, y

LEMMA ReceiveGetKeeps ==
  ASSUME TablesInv, NEW n \in Net, ReceiveGet(n)
  PROVE  TablesInv'
<1>1. TablesTypes /\ Course /\ \A m \in Net : NetworkForm(m) /\ Cleared(m)
  BY DEF TablesInv
<1>2. /\ n \in todo /\ state[n] = "IDLE"
      /\ remote_table' = [remote_table EXCEPT ![n] = UpdatedIDs(n, ClearedAddress(@, Initiator),
                                                                     DetectedFromBridge(n))]
      /\ state' = [state EXCEPT ![n] = "REPLYING"]
      /\ UNCHANGED <<rtb, local_table, nb_local, todo, gate, round, clears>>
  BY DEF ReceiveGet
<1>3. Begun
  BY <1>1, <1>2 DEF Course
<1>4. PICK i \in Net : i = Initiator
  BY <1>1, <1>3, InitiatorTyped
<1>5. n # i /\ gate[n] = "idle" /\ Begun' /\ Initiator' = i
  <2>1. n # i
    BY <1>1, <1>2, <1>3, <1>4 DEF Course
  <2>2. gate[n] = "idle"
    BY <2>1, <1>1, <1>2, <1>3, <1>4 DEF Course
  <2>3. QED
    BY <2>1, <2>2, <1>2, <1>3, <1>4 DEF Begun, Initiator
<1>6. round \in 1 .. Len(Rounds) /\ round \in Nat
  BY <1>1, <1>3, InitiatorTyped DEF TablesTypes
<1>7. remote_table[n] \in Seq(RemoteEntry)
  BY <1>1 DEF TablesTypes
\* What is left is numbered for the detection to come.
<1>. DEFINE left == ClearedAddress(remote_table[n], i)
            c == UpdatedIDs(n, left, DetectedFromBridge(n))
<1>8. /\ left \in Seq(RemoteEntry) /\ Len(left) <= Len(remote_table[n])
      /\ \A k \in DOMAIN left :
           /\ Stands(n, left[k]) /\ left[k].local_id = Bridged(n) + k /\ left[k].node_addr # i
           /\ \E l \in DOMAIN remote_table[n] : left[k].node_addr = remote_table[n][l].node_addr
      /\ \A k, l \in DOMAIN left : left[k].local_instance = left[l].local_instance => k = l
      /\ remote_table[n] = <<>> => left = <<>>
  BY <1>1, <1>7, ClearedForm DEF NetworkForm
<1>. HIDE DEF left
<1>a. ASSUME NEW k \in DOMAIN left
      PROVE  FutureID(n, left[k].local_id, DetectedFromBridge(n)) = BridgeLen(n) + k
  <2>1. k \in 1 .. Len(remote_table[n])
    <3>1. DOMAIN left = 1 .. Len(left) /\ Len(left) \in Nat /\ Len(remote_table[n]) \in Nat
      BY <1>7, <1>8
    <3>2. QED
      BY <1>8, <3>1
  <2>2. left[k].local_id = Bridged(n) + k
    BY <1>8
  <2>3. RtbForm(n)
    BY <1>1 DEF NetworkForm
  <2>4. CASE n \in Gates
    <3>1. rtb[n] = DetectedFromOther(n) /\ Bridged(n) = Len(OtherBoard[n]) + BridgeLen(n)
      BY <1>2, <1>5, <2>3, <2>4 DEF RtbForm, Bridged, Updated
    <3>2. QED
      BY <1>1, <2>1, <2>2, <3>1, InstancesMove
  <2>5. CASE n \notin Gates
    <3>1. rtb[n] = DetectedFromBridge(n) /\ Bridged(n) = BridgeLen(n)
      BY <1>2, <2>3, <2>5 DEF RtbForm, Bridged, Updated
    <3>2. QED
      BY <1>1, <2>1, <2>2, <3>1, InstancesMove
  <2>6. QED
    BY <2>4, <2>5
<1>b. c \in Seq(RemoteEntry) /\ RemoteMoved(BridgeLen(n), left, c)
  <2>1. BridgeLen(n) \in Nat /\ left \in Seq(RemoteEntry)
    BY <1>8, TablesAssumptionUsed
  <2>2. QED
    BY <1>a, <2>1, RemoteIsUpdated
<1>. HIDE DEF c
<1>9. /\ c \in Seq(RemoteEntry)
      /\ \A k \in DOMAIN c :
           /\ Stands(n, c[k]) /\ c[k].local_id = BridgeLen(n) + k /\ c[k].node_addr # i
           /\ \E l \in DOMAIN remote_table[n] : c[k].node_addr = remote_table[n][l].node_addr
      /\ \A k, l \in DOMAIN c : c[k].local_instance = c[l].local_instance => k = l
      /\ remote_table[n] = <<>> => c = <<>>
  <2>1. /\ DOMAIN c = DOMAIN left /\ Len(c) = Len(left)
        /\ \A k \in DOMAIN left :
             /\ c[k].node_addr = left[k].node_addr /\ c[k].id = left[k].id
             /\ c[k].local_instance = left[k].local_instance
             /\ c[k].local_id = BridgeLen(n) + k
    BY <1>b DEF RemoteMoved
  <2>2. left = <<>> => c = <<>>
    BY <1>b, <2>1
  <2>3. ASSUME NEW k \in DOMAIN c
        PROVE  /\ Stands(n, c[k]) /\ c[k].local_id = BridgeLen(n) + k /\ c[k].node_addr # i
               /\ \E l \in DOMAIN remote_table[n] : c[k].node_addr = remote_table[n][l].node_addr
    <3>1. /\ Stands(n, left[k]) /\ left[k].node_addr # i
          /\ \E l \in DOMAIN remote_table[n] : left[k].node_addr = remote_table[n][l].node_addr
      BY <1>8, <2>1, <2>3
    <3>2. QED
      BY <2>1, <2>3, <3>1 DEF Stands
  <2>4. \A k, l \in DOMAIN c : c[k].local_instance = c[l].local_instance => k = l
    BY <1>8, <2>1
  <2>5. remote_table[n] = <<>> => c = <<>>
    BY <1>8, <2>2
  <2>6. QED
    BY <1>b, <2>3, <2>4, <2>5
<1>10. /\ state'[n] = "REPLYING" /\ \A m \in Net \ {n} : state'[m] = state[m]
       /\ remote_table'[n] = c /\ \A m \in Net \ {n} : remote_table'[m] = remote_table[m]
  BY <1>1, <1>2, <1>4 DEF TablesTypes, c, left
<1>11. TablesTypes'
  <2>1. remote_table' = [remote_table EXCEPT ![n] = c]
    BY <1>2, <1>4 DEF c, left
  <2>2. remote_table' \in [Net -> Seq(RemoteEntry)]
    BY <1>1, <1>9, <2>1 DEF TablesTypes
  <2>3. state' \in [Net -> {"IDLE", "PUBLISHING", "REPLYING", "RECEIVING", "RECEIVED"}]
    BY <1>1, <1>2 DEF TablesTypes
  <2>4. QED
    BY <1>1, <1>2, <2>2, <2>3 DEF TablesTypes
<1>12. Course'
  <2>1. state'[i] = "PUBLISHING" /\ i \notin todo
    BY <1>1, <1>2, <1>3, <1>4, <1>5, <1>10 DEF Course
  <2>2. ASSUME NEW m \in Net \ {i}
        PROVE  /\ m \in todo' => state'[m] \in {"IDLE", "REPLYING"} /\ gate'[m] = "idle"
               /\ m \notin todo' => state'[m] \in {"RECEIVING", "RECEIVED", "IDLE"}
    BY <1>1, <1>2, <1>3, <1>4, <1>5, <1>10 DEF Course
  <2>3. ASSUME NEW m \in Net
        PROVE  /\ state'[m] # "IDLE" => gate'[m] = "idle"
               /\ gate'[m] # "idle" => m \in Gates
    BY <1>1, <1>2, <1>5, <1>10 DEF Course
  <2>4. QED
    BY <1>2, <1>5, <2>1, <2>2, <2>3 DEF Course
<1>13. ASSUME NEW m \in Net PROVE Cleared(m)'
  <2>1. CASE m = n
    BY <2>1, <1>2, <1>5, <1>9, <1>10 DEF Cleared
  <2>2. CASE m # n
    BY <2>2, <1>1, <1>2, <1>3, <1>4, <1>5, <1>10 DEF Cleared
  <2>3. QED
    BY <2>1, <2>2
<1>14. ASSUME NEW m \in Net \ {n} PROVE NetworkForm(m)'
  <2>1. TablesKept(m)
    BY <1>2, <1>10 DEF TablesKept
  <2>2. QED
    BY <1>1, <1>10, <2>1, KeptForm
<1>15. NetworkForm(n)'
  <2>1. LocalForm(n)'
    <3>1. Numbering(n)' = Numbering(n)
      BY <1>2, <1>5 DEF Numbering
    <3>2. QED
      BY <1>1, <1>2, <3>1 DEF NetworkForm, LocalForm, Owned
  <2>2. RemoteForm(n)'
    <3>1. ~Updated(n)'
      BY <1>10 DEF Updated
    <3>2. InOrder(n)'
      BY <1>9, <1>10, <3>1 DEF InOrder, Bridged, BridgeLen
    <3>3. \A k \in DOMAIN remote_table'[n] : Stands(n, remote_table'[n][k])
      BY <1>9, <1>10
    <3>4. QED
      BY <3>1, <3>2, <3>3 DEF RemoteForm, Stands
  <2>3. Single(n)'
    BY <1>9, <1>10 DEF Single
  <2>4. RtbForm(n)'
    BY <1>10 DEF RtbForm
  <2>5. RtbPlaces(n)'
    BY <1>1, <1>2 DEF NetworkForm, RtbPlaces
  <2>6. Counted(n)'
    BY <1>1, <1>2, <1>9, <1>10 DEF NetworkForm, Counted, BridgeLen
  <2>7. QED
    BY <2>1, <2>2, <2>3, <2>4, <2>5, <2>6 DEF NetworkForm
<1>16. QED
  BY <1>11, <1>12, <1>13, <1>14, <1>15 DEF TablesInv

-----------------------------------------------------------------------------
\* A network adds the entries of another, one of the two being the initiator.

LEMMA AddedForm ==
  ASSUME TablesInv, Begun, NEW m \in Net, NEW from \in Net, m # from, Initiator \in {m, from},
         AddEntries(m, from), ~Updated(m), state'[m] # "IDLE", state[m] # "IDLE",
         gate' = gate, rtb' = rtb, local_table' = local_table, round' = round,
         \A k \in DOMAIN remote_table[m] : remote_table[m][k].node_addr # from
  PROVE  /\ NetworkForm(m)'
         /\ remote_table' \in [Net -> Seq(RemoteEntry)] /\ nb_local' \in [Net -> Nat]
         /\ \A l \in Net \ {m} : remote_table'[l] = remote_table[l] /\ nb_local'[l] = nb_local[l]
         /\ \A k \in DOMAIN remote_table'[m] :
              \/ remote_table'[m][k].node_addr = from
              \/ \E l \in DOMAIN remote_table[m] :
                   remote_table'[m][k].node_addr = remote_table[m][l].node_addr
<1>1. TablesTypes /\ Course /\ NetworkForm(m) /\ LocalForm(from)
  BY DEF TablesInv, NetworkForm
<1>2. RemoteForm(m) /\ Single(m) /\ Counted(m)
  BY <1>1 DEF NetworkForm
<1>. DEFINE a == Appended(m, from)
<1>3. /\ a \in Seq(RemoteEntry)
      /\ Len(a) = Len(remote_table[m]) + Len(local_table[from])
      /\ \A k \in DOMAIN a :
           /\ Stands(m, a[k]) /\ a[k].local_id = BridgeLen(m) + k
           /\ \/ a[k].node_addr = from
              \/ \E l \in DOMAIN remote_table[m] : a[k].node_addr = remote_table[m][l].node_addr
      /\ \A k, l \in DOMAIN a : a[k].local_instance = a[l].local_instance => k = l
  BY <1>1, <1>2, AppendedEntries
<1>4. /\ remote_table' = [remote_table EXCEPT ![m] = a]
      /\ nb_local' = IF local_table[from] = <<>> THEN nb_local
                     ELSE [nb_local EXCEPT ![m] = NbLocal(m)]
  BY DEF AddEntries, Appended
<1>. HIDE DEF a
<1>5. NbLocal(m) = BridgeLen(m) /\ BridgeLen(m) \in Nat \ {0}
  BY <1>1, <1>2, CountIsBoard, TablesAssumptionUsed
<1>6. remote_table' \in [Net -> Seq(RemoteEntry)] /\ nb_local' \in [Net -> Nat]
  <2>1. remote_table' \in [Net -> Seq(RemoteEntry)]
    BY <1>1, <1>3, <1>4 DEF TablesTypes
  <2>2. nb_local' \in [Net -> Nat]
    BY <1>1, <1>4, <1>5 DEF TablesTypes
  <2>3. QED
    BY <2>1, <2>2
<1>7. /\ remote_table'[m] = a
      /\ \A l \in Net \ {m} : remote_table'[l] = remote_table[l] /\ nb_local'[l] = nb_local[l]
  BY <1>1, <1>4 DEF TablesTypes
<1>8. LocalForm(m)'
  <2>1. gate[m] = "idle"
    BY <1>1 DEF Course
  <2>2. Numbering(m)' = Numbering(m)
    BY <2>1 DEF Numbering
  <2>3. QED
    BY <1>1, <2>2 DEF NetworkForm, LocalForm, Owned
<1>9. RemoteForm(m)'
  <2>1. ~Updated(m)'
    BY DEF Updated
  <2>2. InOrder(m)'
    BY <1>3, <1>7, <2>1 DEF InOrder, Bridged, BridgeLen
  <2>3. \A k \in DOMAIN remote_table'[m] : Stands(m, remote_table'[m][k])
    BY <1>3, <1>7
  <2>4. QED
    BY <2>1, <2>2, <2>3 DEF RemoteForm, Stands
<1>10. Single(m)'
  BY <1>3, <1>7 DEF Single
<1>11. RtbPlaces(m)'
  BY <1>1 DEF NetworkForm, RtbPlaces
<1>12. RtbForm(m)'
  BY DEF RtbForm
<1>13. Counted(m)'
  <2>1. CASE local_table[from] = <<>>
    <3>1. remote_table[m] = <<>> => a = <<>>
      <4>1. ASSUME remote_table[m] = <<>> PROVE Len(a) = 0
        BY <1>3, <2>1, <4>1
      <4>2. QED
        BY <1>3, <4>1
    <3>2. QED
      BY <1>2, <1>4, <1>7, <2>1, <3>1 DEF Counted, BridgeLen
  <2>2. CASE local_table[from] # <<>>
    <3>1. nb_local'[m] = BridgeLen(m) /\ BridgeLen(m) # 0
      BY <1>1, <1>4, <1>5, <2>2 DEF TablesTypes
    <3>2. QED
      BY <3>1 DEF Counted, BridgeLen
  <2>3. QED
    BY <2>1, <2>2
<1>14. NetworkForm(m)'
  BY <1>8, <1>9, <1>10, <1>11, <1>12, <1>13 DEF NetworkForm
<1>15. \A k \in DOMAIN remote_table'[m] :
         \/ remote_table'[m][k].node_addr = from
         \/ \E l \in DOMAIN remote_table[m] :
              remote_table'[m][k].node_addr = remote_table[m][l].node_addr
  BY <1>3, <1>7
<1>16. QED
  BY <1>6, <1>7, <1>14, <1>15

-----------------------------------------------------------------------------
LEMMA ReceiveRepliesKeeps ==
  ASSUME TablesInv, NEW n \in Net, ReceiveReplies(n)
  PROVE  TablesInv'
<1>1. TablesTypes /\ Course /\ \A m \in Net : NetworkForm(m) /\ Cleared(m)
  BY DEF TablesInv
<1>2. /\ n \in todo /\ state[n] = "REPLYING"
      /\ state' = [state EXCEPT ![n] = "RECEIVING"]
      /\ todo' = todo \ {n}
      /\ UNCHANGED <<rtb, local_table, gate, round, clears>>
  BY DEF ReceiveReplies
<1>3. Begun
  BY <1>1, <1>2 DEF Course
<1>4. PICK i \in Net : i = Initiator
  BY <1>1, <1>3, InitiatorTyped
<1>5. n # i /\ state[i] = "PUBLISHING" /\ Begun' /\ Initiator' = i
  BY <1>1, <1>2, <1>3, <1>4 DEF Begun, Initiator, Course
<1>6. AddEntries(i, n)
  BY <1>4 DEF ReceiveReplies
<1>7. state'[n] = "RECEIVING" /\ \A m \in Net \ {n} : state'[m] = state[m]
  BY <1>1, <1>2 DEF TablesTypes
<1>8. \A k \in DOMAIN remote_table[i] : remote_table[i][k].node_addr # n
  BY <1>1, <1>2, <1>3, <1>4 DEF Cleared
<1>9. /\ NetworkForm(i)'
      /\ remote_table' \in [Net -> Seq(RemoteEntry)] /\ nb_local' \in [Net -> Nat]
      /\ \A l \in Net \ {i} : remote_table'[l] = remote_table[l] /\ nb_local'[l] = nb_local[l]
      /\ \A k \in DOMAIN remote_table'[i] :
           \/ remote_table'[i][k].node_addr = n
           \/ \E l \in DOMAIN remote_table[i] :
                remote_table'[i][k].node_addr = remote_table[i][l].node_addr
  <2>1. ~Updated(i)
    BY <1>5 DEF Updated
  <2>2. state[i] # "IDLE" /\ state'[i] # "IDLE"
    BY <1>5, <1>7
  <2>3. /\ gate' = gate /\ rtb' = rtb /\ local_table' = local_table /\ round' = round
    BY <1>2
  <2>4. QED
    BY <1>3, <1>4, <1>5, <1>6, <1>8, <2>1, <2>2, <2>3, AddedForm
<1>10. TablesTypes'
  <2>1. state' \in [Net -> {"IDLE", "PUBLISHING", "REPLYING", "RECEIVING", "RECEIVED"}]
    BY <1>1, <1>2 DEF TablesTypes
  <2>2. QED
    BY <1>1, <1>2, <1>9, <2>1 DEF TablesTypes
<1>11. Course'
  <2>1. state'[i] = "PUBLISHING" /\ i \notin todo'
    BY <1>1, <1>2, <1>3, <1>4, <1>5, <1>7 DEF Course
  <2>2. ASSUME NEW m \in Net \ {i}
        PROVE  /\ m \in todo' => state'[m] \in {"IDLE", "REPLYING"} /\ gate'[m] = "idle"
               /\ m \notin todo' => state'[m] \in {"RECEIVING", "RECEIVED", "IDLE"}
    BY <1>1, <1>2, <1>3, <1>4, <1>5, <1>7 DEF Course
  <2>3. ASSUME NEW m \in Net
        PROVE  /\ state'[m] # "IDLE" => gate'[m] = "idle"
               /\ gate'[m] # "idle" => m \in Gates
    BY <1>1, <1>2, <1>5, <1>7 DEF Course
  <2>4. QED
    BY <1>2, <1>5, <2>1, <2>2, <2>3 DEF Course
<1>12. ASSUME NEW m \in Net PROVE Cleared(m)'
  <2>1. CASE m = i
    <3>1. \A k \in DOMAIN remote_table[i] : remote_table[i][k].node_addr \notin todo
      BY <1>1, <1>3, <1>4 DEF Cleared
    <3>2. \A k \in DOMAIN remote_table'[i] : remote_table'[i][k].node_addr \notin todo'
      BY <1>2, <1>9, <3>1
    <3>3. state'[i] = "PUBLISHING"
      BY <1>5, <1>7
    <3>4. QED
      BY <2>1, <3>2, <3>3 DEF Cleared
  <2>2. CASE m # i
    <3>1. state'[m] \in {"REPLYING", "RECEIVING"} => state[m] \in {"REPLYING", "RECEIVING"}
      BY <1>2, <1>7
    <3>2. remote_table'[m] = remote_table[m]
      BY <2>2, <1>9
    <3>3. state[m] \in {"REPLYING", "RECEIVING"} =>
            \A k \in DOMAIN remote_table[m] : remote_table[m][k].node_addr # i
      BY <1>1, <1>3, <1>4 DEF Cleared
    <3>4. QED
      BY <2>2, <3>1, <3>2, <3>3, <1>5 DEF Cleared
  <2>3. QED
    BY <2>1, <2>2
<1>13. ASSUME NEW m \in Net \ {i} PROVE NetworkForm(m)'
  <2>1. CASE m # n
    <3>1. TablesKept(m)
      BY <1>2, <1>9 DEF TablesKept
    <3>2. QED
      BY <1>1, <1>7, <2>1, <3>1, KeptForm
  <2>2. CASE m = n
    <3>0. /\ rtb' = rtb /\ local_table' = local_table /\ gate' = gate
          /\ remote_table'[n] = remote_table[n] /\ nb_local'[n] = nb_local[n]
      BY <1>2, <1>5, <1>9
    <3>1. gate[n] = "idle" /\ ~Updated(n) /\ ~Updated(n)'
      BY <1>1, <1>2, <1>7 DEF Course, Updated
    <3>2. LocalForm(n)'
      <4>1. Numbering(n)' = Numbering(n)
        BY <3>0, <3>1 DEF Numbering
      <4>2. QED
        BY <1>1, <3>0, <4>1 DEF NetworkForm, LocalForm, Owned
    <3>3. RemoteForm(n)'
      <4>1. RemoteForm(n)
        BY <1>1 DEF NetworkForm
      <4>2. InOrder(n)' = InOrder(n)
        BY <3>0, <3>1 DEF InOrder, Bridged, BridgeLen
      <4>3. \A k \in DOMAIN remote_table'[n] : Stands(n, remote_table'[n][k])
        BY <3>0, <4>1 DEF RemoteForm
      <4>4. QED
        BY <4>1, <4>2, <4>3 DEF RemoteForm, Stands
    <3>4. Single(n)'
      BY <1>1, <3>0 DEF NetworkForm, Single
    <3>5. RtbForm(n)'
      BY <1>7 DEF RtbForm
    <3>6. Counted(n)' /\ RtbPlaces(n)'
      BY <1>1, <3>0 DEF NetworkForm, Counted, BridgeLen, RtbPlaces
    <3>7. QED
      BY <2>2, <3>2, <3>3, <3>4, <3>5, <3>6 DEF NetworkForm
  <2>3. QED
    BY <2>1, <2>2
<1>14. QED
  BY <1>9, <1>10, <1>11, <1>12, <1>13 DEF TablesInv

LEMMA ReceiveEntriesKeeps ==
  ASSUME TablesInv, NEW n \in Net, ReceiveEntries(n)
  PROVE  TablesInv'
<1>1. TablesTypes /\ Course /\ \A m \in Net : NetworkForm(m) /\ Cleared(m)
  BY DEF TablesInv
<1>2. /\ todo = {} /\ state[n] = "RECEIVING"
      /\ state' = [state EXCEPT ![n] = "RECEIVED"]
      /\ UNCHANGED <<rtb, local_table, todo, gate, round, clears>>
  BY DEF ReceiveEntries
<1>3. Begun
  BY <1>1, <1>2 DEF Course
<1>4. PICK i \in Net : i = Initiator
  BY <1>1, <1>3, InitiatorTyped
<1>5. n # i /\ state[i] = "PUBLISHING" /\ Begun' /\ Initiator' = i
  BY <1>1, <1>2, <1>3, <1>4 DEF Begun, Initiator, Course
<1>6. AddEntries(n, i)
  BY <1>4 DEF ReceiveEntries
<1>7. state'[n] = "RECEIVED" /\ \A m \in Net \ {n} : state'[m] = state[m]
  BY <1>1, <1>2 DEF TablesTypes
<1>8. \A k \in DOMAIN remote_table[n] : remote_table[n][k].node_addr # i
  BY <1>1, <1>2, <1>3, <1>4 DEF Cleared
<1>9. /\ NetworkForm(n)'
      /\ remote_table' \in [Net -> Seq(RemoteEntry)] /\ nb_local' \in [Net -> Nat]
      /\ \A l \in Net \ {n} : remote_table'[l] = remote_table[l] /\ nb_local'[l] = nb_local[l]
  <2>1. ~Updated(n)
    BY <1>2 DEF Updated
  <2>2. state[n] # "IDLE" /\ state'[n] # "IDLE"
    BY <1>2, <1>7
  <2>3. /\ gate' = gate /\ rtb' = rtb /\ local_table' = local_table /\ round' = round
    BY <1>2
  <2>4. QED
    BY <1>3, <1>4, <1>5, <1>6, <1>8, <2>1, <2>2, <2>3, AddedForm
<1>10. TablesTypes'
  <2>1. state' \in [Net -> {"IDLE", "PUBLISHING", "REPLYING", "RECEIVING", "RECEIVED"}]
    BY <1>1, <1>2 DEF TablesTypes
  <2>2. QED
    BY <1>1, <1>2, <1>9, <2>1 DEF TablesTypes
<1>11. Course'
  <2>1. state'[i] = "PUBLISHING"
    BY <1>5, <1>7
  <2>2. ASSUME NEW m \in Net \ {i} PROVE state'[m] \in {"RECEIVING", "RECEIVED", "IDLE"}
    BY <1>1, <1>2, <1>3, <1>4, <1>7 DEF Course
  <2>3. ASSUME NEW m \in Net
        PROVE  /\ state'[m] # "IDLE" => gate'[m] = "idle"
               /\ gate'[m] # "idle" => m \in Gates
    BY <1>1, <1>2, <1>7 DEF Course
  <2>4. QED
    BY <1>2, <1>5, <2>1, <2>2, <2>3 DEF Course
<1>12. ASSUME NEW m \in Net PROVE Cleared(m)'
  <2>1. CASE m = n
    BY <2>1, <1>5, <1>7 DEF Cleared
  <2>2. CASE m # n
    BY <2>2, <1>1, <1>2, <1>3, <1>4, <1>5, <1>7, <1>9 DEF Cleared
  <2>3. QED
    BY <2>1, <2>2
<1>13. ASSUME NEW m \in Net \ {n} PROVE NetworkForm(m)'
  <2>1. TablesKept(m)
    BY <1>2, <1>9 DEF TablesKept
  <2>2. QED
    BY <1>1, <1>7, <2>1, KeptForm
<1>14. QED
  BY <1>9, <1>10, <1>11, <1>12, <1>13 DEF TablesInv

-----------------------------------------------------------------------------
\* The end of a procedure in a network: a detection from its Mesh Bridge

LEMMA CompleteKeeps ==
  ASSUME TablesInv, NEW n \in Net, Complete(n)
  PROVE  TablesInv'
<1>1. TablesTypes /\ Course /\ \A m \in Net : NetworkForm(m) /\ Cleared(m)
  BY DEF TablesInv
<1>. DEFINE d == DetectedFromBridge(n)  u == UpdatedIDs(n, local_table[n], d)
<1>2. /\ state[n] = "RECEIVED" \/ state[n] = "PUBLISHING"
      /\ state[n] = "PUBLISHING" => todo = {} /\ \A m \in Net : state[m] # "RECEIVING"
      /\ local_table' = [local_table EXCEPT ![n] = u]
      /\ rtb' = [rtb EXCEPT ![n] = d]
      /\ state' = [state EXCEPT ![n] = "IDLE"]
      /\ gate' = IF n \in Gates THEN [gate EXCEPT ![n] = "complete"] ELSE gate
      /\ UNCHANGED <<remote_table, nb_local, todo, round, clears>>
  BY DEF Complete, ExtRtbComplete
<1>3. Begun
  BY <1>1, <1>2 DEF Course
<1>4. PICK i \in Net : i = Initiator
  BY <1>1, <1>3, InitiatorTyped
<1>5. /\ gate[n] = "idle" /\ n \notin todo /\ Begun' /\ Initiator' = i
      /\ n = i <=> state[n] = "PUBLISHING"
  BY <1>1, <1>2, <1>3, <1>4 DEF Begun, Initiator, Course
<1>6. d \in Seq(Container \cup Instance)
  BY <1>1, BridgeParts
<1>7. LocalForm(n) /\ Numbering(n) = rtb[n]
  BY <1>1, <1>5 DEF NetworkForm, Numbering
<1>a. RtbPlaces(n) /\ BoardsAt(n, d, 0, BridgeLen(n) + Len(remote_table[n]))
      /\ BridgeLen(n) + Len(remote_table[n]) \in Nat
  <2>1. BridgeLen(n) \in Nat /\ Len(remote_table[n]) \in Nat
    BY <1>1, PartsAreTyped
  <2>2. QED
    BY <1>1, <2>1, BridgePlaces DEF NetworkForm
<1>. HIDE DEF d
<1>8. \A k \in DOMAIN local_table[n] : Found(n, local_table[n][k].local_id, d)
  <2>1. TAKE k \in DOMAIN local_table[n]
  <2>2. /\ local_table[n][k].local_id \in DOMAIN rtb[n]
        /\ rtb[n][local_table[n][k].local_id] \in Owned(n)
    BY <1>7 DEF LocalForm
  <2>3. PICK b \in Nat, o \in Nat : BoardsAt(n, rtb[n], b, o)
    BY <1>a DEF RtbPlaces
  <2>4. PICK z \in Nat, l \in Nat : z = 0 /\ l = BridgeLen(n) + Len(remote_table[n])
    BY <1>a
  <2>5. BoardsAt(n, d, z, l)
    BY <1>a, <2>4
  <2>6. QED
    BY <2>2, <2>3, <2>5, OwnedFound DEF Found
<1>9. local_table[n] \in Seq(LocalEntry)
  BY <1>1 DEF TablesTypes
<1>10. /\ u \in Seq(LocalEntry) /\ DOMAIN u = DOMAIN local_table[n] /\ Len(u) = Len(local_table[n])
       /\ \A k \in DOMAIN local_table[n] :
            /\ u[k].id = local_table[n][k].id /\ u[k].container = local_table[n][k].container
            /\ u[k].local_id \in DOMAIN d
            /\ d[u[k].local_id] = rtb[n][local_table[n][k].local_id]
  <2>1. u \in Seq(LocalEntry)
    BY <1>1, <1>6, <1>8, <1>9, LocalIsUpdated
  <2>2. LocalRenumbered(n, d, local_table[n], u)
    BY <1>1, <1>6, <1>8, <1>9, LocalIsUpdated
  <2>3. QED
    BY <2>1, <2>2 DEF LocalRenumbered
<1>. HIDE DEF u
<1>11. /\ state'[n] = "IDLE" /\ \A m \in Net \ {n} : state'[m] = state[m]
       /\ rtb'[n] = d /\ \A m \in Net \ {n} : rtb'[m] = rtb[m]
       /\ local_table'[n] = u /\ \A m \in Net \ {n} : local_table'[m] = local_table[m]
       /\ gate'[n] = (IF n \in Gates THEN "complete" ELSE "idle")
       /\ \A m \in Net \ {n} : gate'[m] = gate[m]
  BY <1>1, <1>2, <1>5 DEF TablesTypes
<1>12. TablesTypes'
  <2>1. state' \in [Net -> {"IDLE", "PUBLISHING", "REPLYING", "RECEIVING", "RECEIVED"}]
    BY <1>1, <1>2 DEF TablesTypes
  <2>2. rtb' \in [Net -> Seq(Container \cup Instance)]
    BY <1>1, <1>2, <1>6 DEF TablesTypes
  <2>3. local_table' \in [Net -> Seq(LocalEntry)]
    BY <1>1, <1>2, <1>10 DEF TablesTypes
  <2>4. gate' \in [Net -> {"idle", "complete", "update", "detect"}]
    BY <1>1, <1>2 DEF TablesTypes
  <2>5. QED
    BY <1>1, <1>2, <2>1, <2>2, <2>3, <2>4 DEF TablesTypes
<1>13. Course'
  <2>1. /\ i \notin todo' /\ state'[i] \in {"PUBLISHING", "IDLE"}
        /\ todo' # {} => state'[i] = "PUBLISHING"
    BY <1>1, <1>2, <1>3, <1>4, <1>5, <1>11 DEF Course
  <2>2. ASSUME NEW m \in Net \ {i}
        PROVE  /\ m \in todo' => state'[m] \in {"IDLE", "REPLYING"} /\ gate'[m] = "idle"
               /\ m \notin todo' => state'[m] \in {"RECEIVING", "RECEIVED", "IDLE"}
               /\ state'[m] = "RECEIVING" => state'[i] = "PUBLISHING"
    BY <1>1, <1>2, <1>3, <1>4, <1>5, <1>11 DEF Course
  <2>3. ASSUME NEW m \in Net
        PROVE  /\ state'[m] # "IDLE" => gate'[m] = "idle"
               /\ gate'[m] # "idle" => m \in Gates
    BY <1>1, <1>2, <1>5, <1>11 DEF Course
  <2>4. QED
    BY <1>2, <1>5, <2>1, <2>2, <2>3 DEF Course
<1>14. ASSUME NEW m \in Net PROVE Cleared(m)'
  BY <1>1, <1>2, <1>3, <1>4, <1>5, <1>11 DEF Cleared
<1>16. ASSUME NEW m \in Net \ {n} PROVE NetworkForm(m)'
  <2>1. TablesKept(m)
    BY <1>2, <1>11 DEF TablesKept
  <2>2. QED
    BY <1>1, <1>11, <2>1, KeptForm
<1>17. NetworkForm(n)'
  <2>1. DetectedFromBridge(n)' = d
    <3>1. Instances(n)' = Instances(n)
      BY <1>2 DEF Instances
    <3>2. QED
      BY <3>1 DEF DetectedFromBridge, d
  <2>2. LocalForm(n)'
    <3>1. Numbering(n)' = d
      BY <1>11 DEF Numbering
    <3>2. /\ Len(u) <= MaxEntries
          /\ \A k \in DOMAIN u : /\ u[k].id = k - 1 /\ u[k].container \in Owned(n)
                                 /\ u[k].local_id \in DOMAIN d /\ d[u[k].local_id] = u[k].container
      BY <1>7, <1>10 DEF LocalForm
    <3>3. QED
      BY <1>11, <3>1, <3>2 DEF LocalForm, Owned
  <2>3. RemoteForm(n)'
    <3>1. ~Updated(n) /\ ~Updated(n)'
      BY <1>2, <1>11 DEF Updated
    <3>2. QED
      BY <1>1, <1>2, <3>1 DEF NetworkForm, RemoteForm, Stands, InOrder, Bridged, BridgeLen
  <2>4. Single(n)'
    BY <1>1, <1>2 DEF NetworkForm, Single
  <2>5. RtbForm(n)'
    BY <1>11, <2>1 DEF RtbForm
  <2>6. Counted(n)'
    <3>1. nb_local[n] = 0 => d = BridgeBoard[n] \o OtherBoard[n]
      BY <1>1, OnlyOwned DEF NetworkForm, Counted, d
    <3>2. QED
      BY <1>1, <1>2, <1>11, <3>1 DEF NetworkForm, Counted, BridgeLen
  <2>7. RtbPlaces(n)'
    <3>1. 0 \in Nat
      OBVIOUS
    <3>2. \E b, o \in Nat : BoardsAt(n, rtb'[n], b, o)
      BY <1>a, <1>11, <3>1
    <3>3. QED
      BY <3>2 DEF RtbPlaces
  <2>8. QED
    BY <2>2, <2>3, <2>4, <2>5, <2>6, <2>7 DEF NetworkForm
<1>18. QED
  BY <1>12, <1>13, <1>14, <1>16, <1>17 DEF TablesInv

-----------------------------------------------------------------------------
\* The update handshake of the Gate, in a network that is in no procedure

\* What holds of the other networks, and of the course of the procedure, when
\* only the Gate of a network acts.
LEMMA GateActs ==
  ASSUME TablesInv, NEW n \in Net, gate[n] # "idle",
         NEW g \in {"idle", "update", "detect"}, gate' = [gate EXCEPT ![n] = g],
         \A m \in Net \ {n} : /\ rtb'[m] = rtb[m] /\ local_table'[m] = local_table[m]
                              /\ remote_table'[m] = remote_table[m],
         DOMAIN remote_table'[n] = DOMAIN remote_table[n],
         \A k \in DOMAIN remote_table[n] :
           remote_table'[n][k].node_addr = remote_table[n][k].node_addr,
         UNCHANGED <<nb_local, state, todo, round, clears>>
  PROVE  /\ state[n] = "IDLE" /\ n \in Gates /\ gate'[n] = g
         /\ Course' /\ (\A m \in Net : Cleared(m)')
         /\ \A m \in Net \ {n} : NetworkForm(m)'
<1>1. TablesTypes /\ Course /\ \A m \in Net : NetworkForm(m) /\ Cleared(m)
  BY DEF TablesInv
<1>2. state[n] = "IDLE" /\ n \in Gates
  BY <1>1 DEF Course
<1>3. gate'[n] = g /\ \A m \in Net \ {n} : gate'[m] = gate[m]
  BY <1>1 DEF TablesTypes
<1>4. Begun /\ n \notin todo
  BY <1>1 DEF Course
<1>5. PICK i \in Net : i = Initiator
  BY <1>1, <1>4, InitiatorTyped
<1>6. Begun' /\ Initiator' = i
  BY <1>4, <1>5 DEF Begun, Initiator
<1>7. Course'
  BY <1>1, <1>2, <1>3, <1>4, <1>5, <1>6 DEF Course
<1>8. ASSUME NEW m \in Net PROVE Cleared(m)'
  <2>1. CASE m = n
    BY <2>1, <1>1, <1>2, <1>4, <1>5, <1>6 DEF Cleared
  <2>2. CASE m # n
    BY <2>2, <1>1, <1>4, <1>5, <1>6 DEF Cleared
  <2>3. QED
    BY <2>1, <2>2
<1>11. ASSUME NEW m \in Net \ {n} PROVE NetworkForm(m)'
  <2>1. TablesKept(m)
    BY <1>3 DEF TablesKept
  <2>2. QED
    BY <1>1, <2>1, KeptForm
<1>12. QED
  BY <1>2, <1>3, <1>7, <1>8, <1>11

LEMMA GateCompleteKeeps ==
  ASSUME TablesInv, NEW n \in Net, GateComplete(n)
  PROVE  TablesInv'
<1>1. TablesTypes /\ NetworkForm(n)
  BY DEF TablesInv
<1>2. /\ gate[n] = "complete" /\ gate' = [gate EXCEPT ![n] = "update"]
      /\ UNCHANGED <<rtb, local_table, remote_table, nb_local, state, todo, round, clears>>
  BY DEF GateComplete
<1>3. /\ state[n] = "IDLE" /\ n \in Gates /\ gate'[n] = "update"
      /\ Course' /\ (\A m \in Net : Cleared(m)')
      /\ \A m \in Net \ {n} : NetworkForm(m)'
  BY <1>2, GateActs
<1>4. TablesTypes'
  BY <1>1, <1>2 DEF TablesTypes
<1>5. NetworkForm(n)'
  <2>1. Instances(n)' = Instances(n)
    BY <1>2 DEF Instances
  <2>2. DetectedFromBridge(n)' = DetectedFromBridge(n)
    BY <2>1 DEF DetectedFromBridge
  <2>3. LocalForm(n)'
    <3>1. Numbering(n)' = Numbering(n)
      BY <1>2, <1>3 DEF Numbering
    <3>2. QED
      BY <1>1, <1>2, <3>1 DEF NetworkForm, LocalForm, Owned
  <2>4. RemoteForm(n)'
    <3>1. ~Updated(n) /\ ~Updated(n)'
      BY <1>2, <1>3 DEF Updated
    <3>2. QED
      BY <1>1, <1>2, <3>1 DEF NetworkForm, RemoteForm, Stands, InOrder, Bridged, BridgeLen
  <2>5. Single(n)'
    BY <1>1, <1>2 DEF NetworkForm, Single
  <2>6. RtbForm(n)'
    BY <1>1, <1>2, <1>3, <2>2 DEF NetworkForm, RtbForm
  <2>7. Counted(n)'
    BY <1>1, <1>2 DEF NetworkForm, Counted, BridgeLen
  <2>8. RtbPlaces(n)'
    BY <1>1, <1>2 DEF NetworkForm, RtbPlaces
  <2>9. QED
    BY <2>3, <2>4, <2>5, <2>6, <2>7, <2>8 DEF NetworkForm
<1>6. QED
  BY <1>3, <1>4, <1>5 DEF TablesInv

\* The entries of both tables get the local IDs of the detection to come.
LEMMA UpdateTablesKeeps ==
  ASSUME TablesInv, NEW n \in Net, UpdateTables(n)
  PROVE  TablesInv'
<1>1. TablesTypes /\ NetworkForm(n) /\ Course
  BY DEF TablesInv
<1>. DEFINE d == DetectedFromOther(n)
            u == UpdatedIDs(n, local_table[n], d)  r == UpdatedIDs(n, remote_table[n], d)
<1>2. /\ gate[n] = "update" /\ gate' = [gate EXCEPT ![n] = "detect"]
      /\ local_table' = [local_table EXCEPT ![n] = u]
      /\ remote_table' = [remote_table EXCEPT ![n] = r]
      /\ UNCHANGED <<rtb, nb_local, state, todo, round, clears>>
  BY DEF UpdateTables
<1>3. local_table[n] \in Seq(LocalEntry) /\ remote_table[n] \in Seq(RemoteEntry)
  BY <1>1 DEF TablesTypes
<1>4. d \in Seq(Container \cup Instance)
  BY <1>1, OtherParts
<1>5. state[n] = "IDLE" /\ ~Updated(n)
  BY <1>1, <1>2 DEF Course, Updated
<1>6. LocalForm(n) /\ RemoteForm(n) /\ Numbering(n) = rtb[n] 
      /\ \A k \in DOMAIN remote_table[n] : remote_table[n][k].local_id = BridgeLen(n) + k
  BY <1>1, <1>2, <1>5 DEF NetworkForm, Numbering, RemoteForm, InOrder, Bridged
<1>7. rtb[n] = DetectedFromBridge(n)
  BY <1>1, <1>2, <1>5 DEF NetworkForm, RtbForm
<1>a. BoardsAt(n, d, Len(OtherBoard[n]), 0) /\ RtbPlaces(n)
  BY <1>1, OtherPlaces DEF NetworkForm
<1>b. Len(OtherBoard[n]) \in Nat /\ BridgeLen(n) \in Nat
  BY <1>1, PartsAreTyped
<1>9. \A k \in DOMAIN remote_table[n] :
        FutureID(n, remote_table[n][k].local_id, d) = Len(OtherBoard[n]) + BridgeLen(n) + k
  <2>1. TAKE k \in DOMAIN remote_table[n]
  <2>2. k \in 1 .. Len(remote_table[n])
    BY <1>3
  <2>3. remote_table[n][k].local_id = BridgeLen(n) + k
    BY <1>6
  <2>4. QED
    BY <1>1, <1>7, <2>2, <2>3, InstancesMove
<1>. HIDE DEF d
<1>8. \A k \in DOMAIN local_table[n] : Found(n, local_table[n][k].local_id, d)
  <2>1. TAKE k \in DOMAIN local_table[n]
  <2>2. /\ local_table[n][k].local_id \in DOMAIN rtb[n]
        /\ rtb[n][local_table[n][k].local_id] \in Owned(n)
    BY <1>6 DEF LocalForm
  <2>3. PICK b \in Nat, o \in Nat : BoardsAt(n, rtb[n], b, o)
    BY <1>a DEF RtbPlaces
  <2>4. 0 \in Nat
    OBVIOUS
  <2>5. QED
    BY <1>a, <1>b, <2>2, <2>3, <2>4, OwnedFound DEF Found
<1>11. /\ u \in Seq(LocalEntry) /\ DOMAIN u = DOMAIN local_table[n] /\ Len(u) = Len(local_table[n])
       /\ \A k \in DOMAIN local_table[n] :
            /\ u[k].id = local_table[n][k].id /\ u[k].container = local_table[n][k].container
            /\ u[k].local_id \in DOMAIN d
            /\ d[u[k].local_id] = rtb[n][local_table[n][k].local_id]
  <2>1. u \in Seq(LocalEntry)
    BY <1>4, <1>8, <1>3, LocalIsUpdated
  <2>2. LocalRenumbered(n, d, local_table[n], u)
    BY <1>4, <1>8, <1>3, LocalIsUpdated
  <2>3. QED
    BY <2>1, <2>2 DEF LocalRenumbered
<1>12. /\ r \in Seq(RemoteEntry) /\ DOMAIN r = DOMAIN remote_table[n]
       /\ \A k \in DOMAIN remote_table[n] :
            /\ r[k].node_addr = remote_table[n][k].node_addr /\ r[k].id = remote_table[n][k].id
            /\ r[k].container = remote_table[n][k].container
            /\ r[k].local_instance = remote_table[n][k].local_instance
            /\ r[k].local_id = Len(OtherBoard[n]) + BridgeLen(n) + k
  <2>1. Len(OtherBoard[n]) + BridgeLen(n) \in Nat
    BY <1>b
  <2>2. r \in Seq(RemoteEntry)
    BY <1>3, <1>9, <2>1, RemoteIsUpdated
  <2>3. RemoteMoved(Len(OtherBoard[n]) + BridgeLen(n), remote_table[n], r)
    BY <1>3, <1>9, <2>1, RemoteIsUpdated
  <2>4. QED
    BY <2>2, <2>3 DEF RemoteMoved
<1>. HIDE DEF u, r
<1>13. /\ local_table'[n] = u /\ \A m \in Net \ {n} : local_table'[m] = local_table[m]
       /\ remote_table'[n] = r /\ \A m \in Net \ {n} : remote_table'[m] = remote_table[m]
  BY <1>1, <1>2 DEF TablesTypes
<1>14. /\ n \in Gates /\ gate'[n] = "detect"
       /\ Course' /\ (\A m \in Net : Cleared(m)')
       /\ \A m \in Net \ {n} : NetworkForm(m)'
  <2>1. /\ DOMAIN remote_table'[n] = DOMAIN remote_table[n]
        /\ \A k \in DOMAIN remote_table[n] :
             remote_table'[n][k].node_addr = remote_table[n][k].node_addr
    BY <1>12, <1>13
  <2>2. \A m \in Net \ {n} : /\ rtb'[m] = rtb[m] /\ local_table'[m] = local_table[m]
                             /\ remote_table'[m] = remote_table[m]
    BY <1>2, <1>13
  <2>3. gate[n] # "idle" /\ gate' = [gate EXCEPT ![n] = "detect"]
        /\ UNCHANGED <<nb_local, state, todo, round, clears>>
    BY <1>2
  <2>4. QED
    BY <2>1, <2>2, <2>3, GateActs
<1>15. TablesTypes'
  <2>1. local_table' \in [Net -> Seq(LocalEntry)]
    BY <1>1, <1>2, <1>11 DEF TablesTypes
  <2>2. remote_table' \in [Net -> Seq(RemoteEntry)]
    BY <1>1, <1>2, <1>12 DEF TablesTypes
  <2>3. gate' \in [Net -> {"idle", "complete", "update", "detect"}]
    BY <1>1, <1>2 DEF TablesTypes
  <2>4. QED
    BY <1>1, <1>2, <2>1, <2>2, <2>3 DEF TablesTypes
<1>16. NetworkForm(n)'
  <2>1. Instances(n)' = Instances(n)
    BY <1>12, <1>13 DEF Instances
  <2>2. DetectedFromOther(n)' = d /\ DetectedFromBridge(n)' = DetectedFromBridge(n)
    BY <2>1 DEF DetectedFromOther, DetectedFromBridge, d
  <2>3. LocalForm(n)'
    <3>1. Numbering(n)' = d
      BY <1>14, <2>2 DEF Numbering
    <3>2. /\ Len(u) <= MaxEntries
          /\ \A k \in DOMAIN u : /\ u[k].id = k - 1 /\ u[k].container \in Owned(n)
                                 /\ u[k].local_id \in DOMAIN d /\ d[u[k].local_id] = u[k].container
      BY <1>6, <1>11 DEF LocalForm
    <3>3. QED
      BY <1>13, <3>1, <3>2 DEF LocalForm, Owned
  <2>4. RemoteForm(n)'
    <3>1. Updated(n)'
      BY <1>2, <1>5, <1>14 DEF Updated
    <3>2. \A k \in DOMAIN r : Stands(n, r[k])
      BY <1>6, <1>12 DEF RemoteForm, Stands
    <3>4. InOrder(n)'
      BY <1>12, <1>13, <3>1 DEF InOrder, Bridged, BridgeLen
    <3>5. QED
      BY <1>13, <3>1, <3>2, <3>4 DEF RemoteForm, Stands
  <2>5. Single(n)'
    BY <1>1, <1>12, <1>13 DEF NetworkForm, Single
  <2>6. RtbForm(n)'
    BY <1>1, <1>2, <1>7, <1>14, <2>2 DEF RtbForm
  <2>7. Counted(n)'
    <3>1. remote_table[n] = <<>> => r = <<>>
      <4>1. ASSUME remote_table[n] = <<>> PROVE DOMAIN r = {} /\ r \in Seq(RemoteEntry)
        BY <1>12, <4>1
      <4>2. QED
        BY <4>1
    <3>2. QED
      BY <1>1, <1>2, <1>13, <3>1 DEF NetworkForm, Counted, BridgeLen
  <2>8. RtbPlaces(n)'
    BY <1>2, <1>a DEF RtbPlaces
  <2>9. QED
    BY <2>3, <2>4, <2>5, <2>6, <2>7, <2>8 DEF NetworkForm
<1>17. QED
  BY <1>14, <1>15, <1>16 DEF TablesInv

LEMMA GateDetectKeeps ==
  ASSUME TablesInv, NEW n \in Net, GateDetect(n)
  PROVE  TablesInv'
<1>1. TablesTypes /\ NetworkForm(n) /\ Course
  BY DEF TablesInv
<1>. DEFINE d == DetectedFromOther(n)
<1>2. /\ gate[n] = "detect" /\ gate' = [gate EXCEPT ![n] = "idle"]
      /\ rtb' = [rtb EXCEPT ![n] = d]
      /\ UNCHANGED <<local_table, remote_table, nb_local, state, todo, round, clears>>
  BY DEF GateDetect
<1>3. d \in Seq(Container \cup Instance)
  BY <1>1, OtherParts
<1>a. BoardsAt(n, d, Len(OtherBoard[n]), 0) /\ Len(OtherBoard[n]) \in Nat
  BY <1>1, OtherPlaces, PartsAreTyped
<1>. HIDE DEF d
<1>4. rtb'[n] = d /\ \A m \in Net \ {n} : rtb'[m] = rtb[m]
  BY <1>1, <1>2 DEF TablesTypes
<1>5. /\ state[n] = "IDLE" /\ n \in Gates /\ gate'[n] = "idle"
      /\ Course' /\ (\A m \in Net : Cleared(m)')
      /\ \A m \in Net \ {n} : NetworkForm(m)'
  BY <1>2, <1>4, GateActs
<1>6. TablesTypes'
  <2>1. rtb' \in [Net -> Seq(Container \cup Instance)]
    BY <1>1, <1>2, <1>3 DEF TablesTypes
  <2>2. gate' \in [Net -> {"idle", "complete", "update", "detect"}]
    BY <1>1, <1>2 DEF TablesTypes
  <2>3. QED
    BY <1>1, <1>2, <2>1, <2>2 DEF TablesTypes
<1>7. NetworkForm(n)'
  <2>1. Instances(n)' = Instances(n)
    BY <1>2 DEF Instances
  <2>2. DetectedFromOther(n)' = d
    BY <2>1 DEF DetectedFromOther, d
  <2>3. LocalForm(n)'
    <3>1. Numbering(n)' = d /\ Numbering(n) = d
      BY <1>2, <1>4, <1>5 DEF Numbering, d
    <3>2. QED
      BY <1>1, <1>2, <3>1 DEF NetworkForm, LocalForm, Owned
  <2>4. RemoteForm(n)'
    <3>1. Updated(n) /\ Updated(n)'
      BY <1>2, <1>5 DEF Updated
    <3>2. InOrder(n) /\ \A k \in DOMAIN remote_table[n] : Stands(n, remote_table[n][k])
      BY <1>1 DEF NetworkForm, RemoteForm
    <3>3. InOrder(n)'
      BY <1>2, <3>1, <3>2 DEF InOrder, Bridged, BridgeLen
    <3>4. QED
      BY <1>2, <3>1, <3>2, <3>3 DEF RemoteForm, Stands
  <2>5. Single(n)'
    BY <1>1, <1>2 DEF NetworkForm, Single
  <2>6. RtbForm(n)'
    BY <1>4, <1>5, <2>2 DEF RtbForm
  <2>7. Counted(n)'
    <3>1. nb_local[n] = 0 => d = OtherBoard[n] \o BridgeBoard[n]
      BY <1>1, OnlyOwned DEF NetworkForm, Counted, d
    <3>2. QED
      BY <1>1, <1>2, <1>4, <3>1 DEF NetworkForm, Counted, BridgeLen
  <2>8. RtbPlaces(n)'
    <3>1. 0 \in Nat
      OBVIOUS
    <3>2. \E b, o \in Nat : BoardsAt(n, rtb'[n], b, o)
      BY <1>a, <1>4, <3>1
    <3>3. QED
      BY <3>2 DEF RtbPlaces
  <2>9. QED
    BY <2>3, <2>4, <2>5, <2>6, <2>7, <2>8 DEF NetworkForm
<1>8. QED
  BY <1>5, <1>6, <1>7 DEF TablesInv

-----------------------------------------------------------------------------
LEMMA InitTablesInv ==
  ASSUME Init
  PROVE  TablesInv
<1>. USE DEF Init
<1>1. TablesTypes
  <2>1. ASSUME NEW n \in Net PROVE rtb[n] \in Seq(Container \cup Instance)
    <3>1. \A s, t : s \in Seq(Container) /\ t \in Seq(Container) => s \o t \in Seq(Container \cup Instance)
      OBVIOUS
    <3>2. BridgeBoard[n] \in Seq(Container) /\ OtherBoard[n] \in Seq(Container)
      BY TablesAssumptionUsed
    <3>3. QED
      BY <3>1, <3>2
  <2>2. rtb \in [Net -> Seq(Container \cup Instance)]
    BY <2>1
  <2>3. 0 \in 0 .. Len(Rounds) /\ 0 \in 0 .. MaxClears
    BY TablesAssumptionUsed
  <2>4. <<>> \in Seq(LocalEntry) /\ <<>> \in Seq(RemoteEntry)
    OBVIOUS
  <2>5. /\ local_table \in [Net -> Seq(LocalEntry)] /\ remote_table \in [Net -> Seq(RemoteEntry)]
        /\ nb_local \in [Net -> Nat] /\ todo \subseteq Net
        /\ state \in [Net -> {"IDLE", "PUBLISHING", "REPLYING", "RECEIVING", "RECEIVED"}]
        /\ gate \in [Net -> {"idle", "complete", "update", "detect"}]
    BY <2>4
  <2>6. QED
    BY <2>2, <2>3, <2>5 DEF TablesTypes
<1>2. ~Begun
  BY DEF Begun
<1>3. Course
  BY <1>2 DEF Course
<1>4. ASSUME NEW n \in Net PROVE NetworkForm(n) /\ Cleared(n)
  <2>1. /\ local_table[n] = <<>> /\ remote_table[n] = <<>> /\ state[n] = "IDLE" /\ gate[n] = "idle"
        /\ nb_local[n] = 0
        /\ rtb[n] = IF n \in Gates THEN OtherBoard[n] \o BridgeBoard[n]
                                   ELSE BridgeBoard[n] \o OtherBoard[n]
    OBVIOUS
  <2>. HIDE DEF Init
  <2>2. DOMAIN local_table[n] = {} /\ DOMAIN remote_table[n] = {} /\ Len(local_table[n]) = 0
    BY <2>1
  <2>3. LocalForm(n)
    BY <2>2, TablesAssumptionUsed DEF LocalForm
  <2>4. RemoteForm(n) /\ Single(n)
    BY <2>2 DEF RemoteForm, InOrder, Single
  <2>5. RtbForm(n)
    BY <1>1, <2>1, OnlyOwned DEF RtbForm
  <2>6. Counted(n)
    BY <2>1 DEF Counted
  <2>7. RtbPlaces(n)
    <3>1. rtb[n] = DetectedFromOther(n) \/ rtb[n] = DetectedFromBridge(n)
      BY <1>1, <2>1, OnlyOwned
    <3>2. 0 \in Nat /\ Len(OtherBoard[n]) \in Nat /\ BridgeLen(n) + Len(remote_table[n]) \in Nat
      <4>1. BridgeLen(n) \in Nat /\ Len(remote_table[n]) \in Nat /\ Len(OtherBoard[n]) \in Nat
        BY <1>1, PartsAreTyped
      <4>2. QED
        BY <4>1
    <3>3. \/ BoardsAt(n, rtb[n], Len(OtherBoard[n]), 0)
          \/ BoardsAt(n, rtb[n], 0, BridgeLen(n) + Len(remote_table[n]))
      BY <1>1, <3>1, BridgePlaces, OtherPlaces
    <3>4. QED
      BY <3>2, <3>3 DEF RtbPlaces
  <2>8. QED
    BY <1>2, <2>3, <2>4, <2>5, <2>6, <2>7 DEF NetworkForm, Cleared
<1>5. QED
  BY <1>1, <1>3, <1>4 DEF TablesInv

LEMMA TablesStepKeeps ==
  ASSUME TablesInv, ~FillsFull, [Next]_vars
  PROVE  TablesInv'
<1>1. CASE UNCHANGED tables_vars
  <2>. USE <1>1 DEF tables_vars
  <2>1. TablesTypes' /\ Course'
    BY DEF TablesInv, TablesTypes, Course, Begun, Initiator
  <2>2. ASSUME NEW n \in Net PROVE NetworkForm(n)' /\ Cleared(n)'
    <3>1. Cleared(n)'
      BY DEF TablesInv, Cleared, Begun, Initiator
    <3>2. TablesKept(n)
      BY DEF TablesKept
    <3>3. QED
      BY <3>1, <3>2, KeptForm DEF TablesInv
  <2>3. QED
    BY <2>1, <2>2 DEF TablesInv
<1>2. CASE TablesNext
  <2>1. CASE Engage
    BY <2>1, EngageKeeps
  <2>2. CASE \E n \in Net : Fill(n) \/ Clear(n)
    BY <2>2, FillKeeps, ClearKeeps
  <2>3. CASE \E n \in Net : ReceiveGet(n) \/ ReceiveReplies(n) \/ ReceiveEntries(n) \/ Complete(n)
    BY <2>3, ReceiveGetKeeps, ReceiveRepliesKeeps, ReceiveEntriesKeeps, CompleteKeeps
  <2>4. CASE \E n \in Net : GateComplete(n) \/ UpdateTables(n) \/ GateDetect(n)
    BY <2>4, GateCompleteKeeps, UpdateTablesKeeps, GateDetectKeeps
  <2>5. QED
    BY <1>2, <2>1, <2>2, <2>3, <2>4 DEF TablesNext
<1>3. ASSUME NEW n \in Net, Send(n) PROVE UNCHANGED tables_vars
  BY <1>3 DEF Send
<1>4. ASSUME NEW n \in Net, NEW from \in Net,
             ReceiveSet(n, from) \/ OverhearSet(n, from) \/ IgnoreSet(n, from) \/ LoseSet(n, from)
      PROVE  UNCHANGED tables_vars
  BY <1>4 DEF ReceiveSet, OverhearSet, IgnoreSet, LoseSet
<1>5. QED
  BY <1>1, <1>2, <1>3, <1>4 DEF Next, TablesStep, vars

LEMMA TablesInvariance ==
  ASSUME ~FillsFull
  PROVE  Spec => []TablesInv
<1>1. ExchangeInit => TablesInv
  BY InitTablesInv DEF ExchangeInit
<1>2. TablesInv /\ [Next]_vars => TablesInv'
  BY TablesStepKeeps
<1>3. QED
  BY <1>1, <1>2, PTL DEF Spec

\* The entries of a network at rest hold the local IDs of the last detection.
LEMMA AtRestResolved == TablesInv => TablesResolve
<1>. SUFFICES ASSUME TablesInv, NEW n \in Net, AtRest(n)
              PROVE  /\ \A k \in DOMAIN local_table[n] :
                          /\ local_table[n][k].local_id \in DOMAIN rtb[n]
                          /\ rtb[n][local_table[n][k].local_id] = local_table[n][k].container
                     /\ \A k \in DOMAIN remote_table[n] :
                          /\ remote_table[n][k].local_id \in DOMAIN rtb[n]
                          /\ rtb[n][remote_table[n][k].local_id] = remote_table[n][k].local_instance
  BY DEF TablesResolve
<1>1. state[n] = "IDLE" /\ gate[n] = "idle" /\ TablesTypes /\ NetworkForm(n)
  BY DEF AtRest, TablesInv
<1>2. ASSUME NEW k \in DOMAIN local_table[n]
      PROVE  /\ local_table[n][k].local_id \in DOMAIN rtb[n]
             /\ rtb[n][local_table[n][k].local_id] = local_table[n][k].container
  BY <1>1 DEF NetworkForm, LocalForm, Numbering
<1>3. ASSUME NEW k \in DOMAIN remote_table[n]
      PROVE  /\ remote_table[n][k].local_id \in DOMAIN rtb[n]
             /\ rtb[n][remote_table[n][k].local_id] = remote_table[n][k].local_instance
  <2>1. CASE n \in Gates
    <3>1. /\ rtb[n] = DetectedFromOther(n)
          /\ remote_table[n][k].local_id = Len(OtherBoard[n]) + BridgeLen(n) + k
      BY <1>1, <2>1 DEF NetworkForm, RemoteForm, Updated, RtbForm, InOrder, Bridged
    <3>2. remote_table[n] \in Seq(RemoteEntry)
      BY <1>1 DEF TablesTypes
    <3>3. k \in 1 .. Len(remote_table[n]) /\ Len(remote_table[n]) \in Nat
      BY <3>2
    <3>4. DetectedFromOther(n)[Len(OtherBoard[n]) + BridgeLen(n) + k]
            = remote_table[n][k].local_instance
      BY <1>1, <3>3, OtherParts
    <3>5. DOMAIN DetectedFromOther(n) =
            1 .. Len(OtherBoard[n]) + BridgeLen(n) + Len(remote_table[n])
      BY <1>1, OtherParts
    <3>6. BridgeLen(n) \in Nat /\ Len(OtherBoard[n]) \in Nat
      BY <1>1, PartsAreTyped
    <3>7. Len(OtherBoard[n]) + BridgeLen(n) + k \in DOMAIN DetectedFromOther(n)
      <4>1. PICK b \in Nat : b = BridgeLen(n)
        BY <3>6
      <4>2. PICK o \in Nat : o = Len(OtherBoard[n])
        BY <3>6
      <4>3. PICK l \in Nat : l = Len(remote_table[n])
        BY <3>3
      <4>4. k \in 1 .. l
        BY <3>3, <4>3
      <4>5. o + b + k \in 1 .. o + b + l
        BY <4>4
      <4>6. QED
        BY <3>5, <4>1, <4>2, <4>3, <4>5
    <3>8. QED
      BY <3>1, <3>4, <3>7
  <2>2. CASE n \notin Gates
    <3>1. /\ rtb[n] = DetectedFromBridge(n)
          /\ remote_table[n][k].local_id = BridgeLen(n) + k
      BY <1>1, <2>2 DEF NetworkForm, RemoteForm, Updated, RtbForm, InOrder, Bridged
    <3>2. remote_table[n] \in Seq(RemoteEntry)
      BY <1>1 DEF TablesTypes
    <3>3. k \in 1 .. Len(remote_table[n]) /\ Len(remote_table[n]) \in Nat
      BY <3>2
    <3>4. DetectedFromBridge(n)[BridgeLen(n) + k] = remote_table[n][k].local_instance
      BY <1>1, <3>3, BridgeParts
    <3>5. DOMAIN DetectedFromBridge(n) =
            1 .. BridgeLen(n) + Len(remote_table[n]) + Len(OtherBoard[n])
      BY <1>1, BridgeParts
    <3>6. BridgeLen(n) \in Nat /\ Len(OtherBoard[n]) \in Nat
      BY <1>1, PartsAreTyped
    <3>7. BridgeLen(n) + k \in DOMAIN DetectedFromBridge(n)
      <4>1. PICK b \in Nat : b = BridgeLen(n)
        BY <3>6
      <4>2. PICK o \in Nat : o = Len(OtherBoard[n])
        BY <3>6
      <4>3. PICK l \in Nat : l = Len(remote_table[n])
        BY <3>3
      <4>4. b + k \in 1 .. b + l + o
        BY <3>3, <4>3
      <4>5. QED
        BY <3>5, <4>1, <4>2, <4>3, <4>4
    <3>8. QED
      BY <3>1, <3>4, <3>7
  <2>3. QED
    BY <2>1, <2>2
<1>4. QED
  BY <1>2, <1>3

\* Whatever networks, boards and procedures there are, an entry of a table of a
\* network at rest holds the local ID that its container, or instance, has in the
\* routing table (local_container_table.h, remote_container_table.h).
THEOREM TablesStayResolved ==
  ASSUME ~FillsFull
  PROVE  Spec => []TablesResolve
  BY AtRestResolved, TablesInvariance, PTL

\* A table without entries that are there twice has room for MaxEntries entries
\* of each other network.
LEMMA RemoteIsBounded ==
  ASSUME TablesTypes, NEW n \in Net, RemoteForm(n), Single(n)
  PROVE  Len(remote_table[n]) <= (Cardinality(Net) - 1) * MaxEntries
<1>. DEFINE table == remote_table[n]  l == Len(remote_table[n])
            ids == 0 .. MaxEntries - 1  others == Net \ {n}
            f == [k \in 1 .. l |-> table[k].local_instance]
<1>1. /\ table \in Seq(RemoteEntry) /\ l \in Nat /\ DOMAIN table = 1 .. l
      /\ \A k \in 1 .. l : table[k] \in RemoteEntry
  BY DEF TablesTypes
<1>2. IsFiniteSet(ids) /\ Cardinality(ids) = MaxEntries
  <2>1. MaxEntries \in Nat \ {0}
    BY TablesAssumptionUsed
  <2>2. PICK e \in Nat : e = MaxEntries - 1
    BY <2>1
  <2>3. IsFiniteSet(0 .. e) /\ Cardinality(0 .. e) = e + 1
    BY FS_Interval
  <2>4. QED
    BY <2>1, <2>2, <2>3
<1>3. IsFiniteSet(others) /\ Cardinality(others) = Cardinality(Net) - 1
  BY FS_RemoveElement, TablesAssumptionUsed
<1>4. IsFiniteSet(others \X ids)
      /\ Cardinality(others \X ids) = (Cardinality(Net) - 1) * MaxEntries
  <2>. HIDE DEF others, ids
  <2>1. IsFiniteSet(others \X ids) /\ Cardinality(others \X ids) = Cardinality(others) * Cardinality(ids)
    BY <1>2, <1>3, FS_Product
  <2>2. QED
    BY <1>2, <1>3, <2>1
<1>5. ASSUME NEW k \in 1 .. l PROVE table[k].local_instance \in others \X ids
  <2>1. Stands(n, table[k])
    BY <1>1 DEF RemoteForm
  <2>2. table[k].node_addr \in others /\ table[k].id \in Nat
    BY <1>1, <2>1 DEF Stands, RemoteEntry
  <2>3. table[k].id \in ids
    BY <2>1, <2>2, TablesAssumptionUsed DEF Stands
  <2>. HIDE DEF table, others, ids
  <2>4. QED
    BY <2>1, <2>2, <2>3 DEF Stands
<1>6. \A j, k \in 1 .. l : f[j] = f[k] => j = k
  BY <1>1 DEF Single
<1>7. f \in Injection(1 .. l, others \X ids)
  <2>1. f \in [1 .. l -> others \X ids]
    BY <1>5
  <2>2. QED
    BY <1>6, <2>1 DEF Injection, IsInjective
<1>8. Cardinality(1 .. l) <= Cardinality(others \X ids)
  <2>. HIDE DEF f, others, ids, l
  <2>1. QED
    BY <1>4, <1>7, FS_Injection
<1>9. Cardinality(1 .. l) = l
  BY <1>1, FS_Interval
<1>10. QED
  BY <1>4, <1>8, <1>9

\* Types: local IDs are never negative, and no table outgrows its array
\* (LUOS_RTB_MODEL_MAX_RTB_ENTRY entries of each network).
THEOREM TablesTypeCorrect ==
  ASSUME ~FillsFull
  PROVE  Spec => []TablesTypeOK
<1>1. TablesInv => TablesTypeOK
  <2>. SUFFICES ASSUME TablesInv PROVE TablesTypeOK
    OBVIOUS
  <2>1. TablesTypes /\ \A n \in Net : NetworkForm(n)
    BY DEF TablesInv
  <2>2. ASSUME NEW n \in Net
        PROVE  /\ Len(local_table[n]) <= MaxEntries
               /\ Len(remote_table[n]) <= (Cardinality(Net) - 1) * MaxEntries
    BY <2>1, RemoteIsBounded DEF NetworkForm, LocalForm
  <2>3. ASSUME NEW n \in Net, NEW k \in DOMAIN local_table[n]
        PROVE  local_table[n][k].local_id \in Nat
    <3>1. local_table[n] \in Seq(LocalEntry)
      BY <2>1 DEF TablesTypes
    <3>2. local_table[n][k] \in LocalEntry
      BY <3>1
    <3>3. QED
      BY <3>2 DEF LocalEntry
  <2>4. ASSUME NEW n \in Net, NEW k \in DOMAIN remote_table[n]
        PROVE  /\ remote_table[n][k].local_id \in Nat
               /\ remote_table[n][k].node_addr \in Net \ {n}
    <3>1. remote_table[n] \in Seq(RemoteEntry)
      BY <2>1 DEF TablesTypes
    <3>2. remote_table[n][k] \in RemoteEntry /\ k \in Nat
      BY <3>1
    <3>3. remote_table[n][k].node_addr \in Net \ {n}
      BY <2>1, <3>2 DEF NetworkForm, RemoteForm, Stands, RemoteEntry
    <3>4. remote_table[n][k].local_id = Bridged(n) + k
      BY <2>1, <3>2 DEF NetworkForm, RemoteForm, InOrder
    <3>5. BridgeLen(n) \in Nat /\ Len(OtherBoard[n]) \in Nat
      BY <2>1, PartsAreTyped
    <3>6. Bridged(n) \in Nat
      BY <3>5 DEF Bridged
    <3>7. QED
      BY <3>2, <3>3, <3>4, <3>6
  <2>5. QED
    BY <2>1, <2>2, <2>3, <2>4 DEF TablesTypeOK, TablesTypes
<1>2. QED
  BY <1>1, TablesInvariance, PTL

-----------------------------------------------------------------------------
\* What the networks know of one another: the entries that a network has of
\* others, and those that it exposes to them.

Held(n) ==
  {<<remote_table[n][k].node_addr, remote_table[n][k].id, remote_table[n][k].container>> :
     k \in DOMAIN remote_table[n]}
Exposes(n) == {<<n, k - 1, local_table[n][k].container>> : k \in DOMAIN local_table[n]}

KnowsOf(n, m) == \E h \in Held(n) : h[1] = m
Knows(n, m)   == Exposes(m) \subseteq Held(n)

\* Entries are those of the local container table of their network.
Genuine == \A n \in Net : \A h \in Held(n) : h \in Exposes(h[1])

Aside(n) == Begun => n # Initiator

\* Two networks that are not initiating know all of one another or nothing, and
\* those that have exchanged entries with the initiator know all of one another.
Acquainted ==
  /\ \A n, m \in Net : Aside(n) /\ Aside(m) /\ KnowsOf(n, m) => Knows(m, n)
  /\ Begun => \A n \in Net \ (todo \cup {Initiator}) :
                /\ Knows(Initiator, n)
                /\ state[n] # "RECEIVING" => Knows(n, Initiator)

KnowledgeInv == Genuine /\ Acquainted

\* A step that leaves what is held and exposed, and in which procedures go on
LEMMA KnowledgeKept ==
  ASSUME KnowledgeInv, \A n \in Net : Held(n)' = Held(n) /\ Exposes(n)' = Exposes(n),
         UNCHANGED <<todo, round>>, TablesTypes,
         \A n \in Net : state'[n] # "RECEIVING" => state[n] # "RECEIVING"
  PROVE  KnowledgeInv'
<1>1. Begun' = Begun /\ Initiator' = Initiator
  BY DEF Begun, Initiator
<1>2. \A n \in Net : Held(n)' = Held(n) /\ Exposes(n)' = Exposes(n)
  OBVIOUS
<1>3. Genuine'
  <2>1. ASSUME NEW n \in Net, NEW h \in Held(n)' PROVE h \in Exposes(h[1])'
    <3>1. h \in Held(n) /\ h \in Exposes(h[1])
      BY <1>2 DEF KnowledgeInv, Genuine
    <3>2. h[1] \in Net
      <4>1. PICK k \in DOMAIN remote_table[n] : h[1] = remote_table[n][k].node_addr
        BY <3>1 DEF Held
      <4>2. remote_table[n] \in Seq(RemoteEntry)
        BY DEF TablesTypes
      <4>3. remote_table[n][k] \in RemoteEntry
        BY <4>2
      <4>4. QED
        BY <4>1, <4>3 DEF RemoteEntry
    <3>3. PICK m \in Net : m = h[1]
      BY <3>2
    <3>4. h \in Exposes(m)'
      BY <1>2, <3>1, <3>3
    <3>5. QED
      BY <3>3, <3>4
  <2>2. QED
    BY <2>1 DEF Genuine
<1>4. Acquainted'
  <2>1. ASSUME NEW n \in Net, NEW m \in Net
        PROVE  (KnowsOf(n, m)' => KnowsOf(n, m)) /\ (Knows(n, m) => Knows(n, m)')
    BY <1>2 DEF KnowsOf, Knows
  <2>2. ASSUME NEW n \in Net PROVE Aside(n)' => Aside(n)
    BY <1>1 DEF Aside
  <2>3. \A n, m \in Net : Aside(n)' /\ Aside(m)' /\ KnowsOf(n, m)' => Knows(m, n)'
    BY <2>1, <2>2 DEF KnowledgeInv, Acquainted
  <2>4. ASSUME Begun', NEW n \in Net \ (todo' \cup {Initiator'})
        PROVE  /\ Knows(Initiator, n)'
               /\ state'[n] # "RECEIVING" => Knows(n, Initiator)'
    <3>1. PICK i \in Net : i = Initiator /\ i = Initiator'
      BY <1>1, <2>4, InitiatorTyped
    <3>2. Knows(i, n) /\ (state'[n] # "RECEIVING" => Knows(n, i))
      BY <1>1, <2>4, <3>1 DEF KnowledgeInv, Acquainted
    <3>3. Knows(i, n)' /\ (state'[n] # "RECEIVING" => Knows(n, i)')
      BY <2>1, <3>2
    <3>4. QED
      BY <3>1, <3>3 DEF Knows
  <2>5. QED
    BY <2>3, <2>4 DEF Acquainted
<1>5. QED
  BY <1>3, <1>4 DEF KnowledgeInv

-----------------------------------------------------------------------------
LEMMA HeldAreOthers ==
  ASSUME TablesInv, NEW n \in Net, NEW h \in Held(n)
  PROVE  h[1] \in Net \ {n}
<1>1. PICK k \in DOMAIN remote_table[n] : h[1] = remote_table[n][k].node_addr
  BY DEF Held
<1>2. remote_table[n] \in Seq(RemoteEntry) /\ RemoteForm(n)
  BY DEF TablesInv, TablesTypes, NetworkForm
<1>3. remote_table[n][k] \in RemoteEntry /\ Stands(n, remote_table[n][k])
  BY <1>2 DEF RemoteForm
<1>4. QED
  BY <1>1, <1>3 DEF RemoteEntry, Stands

LEMMA HeldKept ==
  ASSUME NEW n, remote_table'[n] = remote_table[n]
  PROVE  Held(n)' = Held(n)
  BY DEF Held

LEMMA ExposedKept ==
  ASSUME NEW n, local_table'[n] = local_table[n]
  PROVE  Exposes(n)' = Exposes(n)
  BY DEF Exposes

\* An update of local IDs changes nothing that is exposed or held.
LEMMA ExposedUpdated ==
  ASSUME TablesTypes, NEW n \in Net, NEW d, local_table'[n] = UpdatedIDs(n, local_table[n], d)
  PROVE  Exposes(n)' = Exposes(n)
<1>1. local_table[n] \in Seq(LocalEntry)
  BY DEF TablesTypes
<1>2. DOMAIN local_table'[n] = DOMAIN local_table[n]
  BY DEF UpdatedIDs
<1>3. ASSUME NEW k \in DOMAIN local_table[n]
      PROVE  local_table'[n][k].container = local_table[n][k].container
  <2>1. PICK e \in LocalEntry : e = local_table[n][k]
    BY <1>1
  <2>2. PICK id : local_table'[n][k] = [e EXCEPT !.local_id = id]
    BY <2>1 DEF UpdatedIDs
  <2>3. QED
    BY <2>1, <2>2 DEF LocalEntry
<1>4. QED
  BY <1>2, <1>3 DEF Exposes

LEMMA HeldUpdated ==
  ASSUME TablesTypes, NEW n \in Net, NEW d, remote_table'[n] = UpdatedIDs(n, remote_table[n], d)
  PROVE  Held(n)' = Held(n)
<1>1. remote_table[n] \in Seq(RemoteEntry)
  BY DEF TablesTypes
<1>2. DOMAIN remote_table'[n] = DOMAIN remote_table[n]
  BY DEF UpdatedIDs
<1>3. ASSUME NEW k \in DOMAIN remote_table[n]
      PROVE  /\ remote_table'[n][k].container = remote_table[n][k].container
             /\ remote_table'[n][k].node_addr = remote_table[n][k].node_addr
             /\ remote_table'[n][k].id = remote_table[n][k].id
  <2>1. PICK e \in RemoteEntry : e = remote_table[n][k]
    BY <1>1
  <2>2. PICK id : remote_table'[n][k] = [e EXCEPT !.local_id = id]
    BY <2>1 DEF UpdatedIDs
  <2>3. QED
    BY <2>1, <2>2 DEF RemoteEntry
<1>4. QED
  BY <1>2, <1>3 DEF Held

\* What entries are about
Triples(table) == {<<table[k].node_addr, table[k].id, table[k].container>> : k \in DOMAIN table}

LEMMA TriplesCleared ==
  ASSUME NEW table \in Seq(RemoteEntry), NEW addr
  PROVE  Triples(ClearedAddress(table, addr)) = {h \in Triples(table) : h[1] # addr}
<1>. DEFINE c == ClearedAddress(table, addr)
<1>1. PICK pos : KeptAt(table, addr, c, pos)
  BY AddressIsCleared
<1>2. /\ pos \in [DOMAIN c -> DOMAIN table]
      /\ \A i \in DOMAIN table : table[i].node_addr # addr => \E k \in DOMAIN c : pos[k] = i
      /\ \A k \in DOMAIN c : /\ table[pos[k]].node_addr # addr
                             /\ c[k] = [table[pos[k]] EXCEPT !.local_id = @ - (pos[k] - k)]
  BY <1>1 DEF KeptAt
<1>. HIDE DEF c
<1>4. ASSUME NEW k \in DOMAIN c
      PROVE  /\ c[k].node_addr = table[pos[k]].node_addr /\ c[k].id = table[pos[k]].id
             /\ c[k].container = table[pos[k]].container /\ table[pos[k]].node_addr # addr
             /\ pos[k] \in DOMAIN table
  <2>0. pos[k] \in DOMAIN table
    BY <1>2
  <2>1. PICK e \in RemoteEntry : e = table[pos[k]]
    BY <2>0
  <2>2. PICK id : c[k] = [e EXCEPT !.local_id = id]
    BY <1>2, <2>1
  <2>3. QED
    BY <1>2, <2>0, <2>1, <2>2 DEF RemoteEntry
<1>6. ASSUME NEW h \in Triples(c) PROVE h \in Triples(table) /\ h[1] # addr
  <2>1. PICK k \in DOMAIN c : h = <<c[k].node_addr, c[k].id, c[k].container>>
    BY DEF Triples
  <2>2. PICK p \in DOMAIN table : p = pos[k]
    BY <1>4
  <2>3. h = <<table[p].node_addr, table[p].id, table[p].container>> /\ table[p].node_addr # addr
    BY <1>4, <2>1, <2>2
  <2>4. QED
    BY <2>3 DEF Triples
<1>7. ASSUME NEW h \in Triples(table), h[1] # addr PROVE h \in Triples(c)
  <2>1. PICK p \in DOMAIN table : h = <<table[p].node_addr, table[p].id, table[p].container>>
    BY DEF Triples
  <2>2. table[p].node_addr # addr
    BY <1>7, <2>1
  <2>3. PICK k \in DOMAIN c : pos[k] = p
    BY <1>2, <2>2
  <2>4. h = <<c[k].node_addr, c[k].id, c[k].container>>
    BY <1>4, <2>1, <2>3
  <2>5. QED
    BY <2>4 DEF Triples
<1>8. Triples(c) = {h \in Triples(table) : h[1] # addr}
  BY <1>6, <1>7
<1>9. QED
  BY <1>8 DEF c

LEMMA TriplesUpdated ==
  ASSUME NEW n \in Net, NEW d, NEW table \in Seq(RemoteEntry)
  PROVE  Triples(UpdatedIDs(n, table, d)) = Triples(table)
<1>. DEFINE u == UpdatedIDs(n, table, d)
<1>1. DOMAIN u = DOMAIN table
  BY DEF UpdatedIDs
<1>2. ASSUME NEW k \in DOMAIN table
      PROVE  /\ u[k].container = table[k].container
             /\ u[k].node_addr = table[k].node_addr /\ u[k].id = table[k].id
  <2>1. PICK e \in RemoteEntry : e = table[k]
    OBVIOUS
  <2>2. PICK id : u[k] = [e EXCEPT !.local_id = id]
    BY <2>1 DEF UpdatedIDs
  <2>. HIDE DEF u
  <2>3. QED
    BY <2>1, <2>2 DEF RemoteEntry
<1>. HIDE DEF u
<1>3. Triples(u) = Triples(table)
  BY <1>1, <1>2 DEF Triples
<1>4. QED
  BY <1>3 DEF u

LEMMA HeldCleared ==
  ASSUME TablesTypes, NEW n \in Net, NEW addr, NEW d,
         remote_table'[n] = UpdatedIDs(n, ClearedAddress(remote_table[n], addr), d)
  PROVE  Held(n)' = {h \in Held(n) : h[1] # addr}
<1>1. /\ remote_table[n] \in Seq(RemoteEntry)
      /\ ClearedAddress(remote_table[n], addr) \in Seq(RemoteEntry)
  BY AddressIsCleared DEF TablesTypes
<1>2. Triples(ClearedAddress(remote_table[n], addr)) = {h \in Triples(remote_table[n]) : h[1] # addr}
  BY <1>1, TriplesCleared
<1>3. Held(n) = Triples(remote_table[n]) /\ Held(n)' = Triples(remote_table'[n])
  BY DEF Held, Triples
<1>4. Triples(remote_table'[n]) = Triples(ClearedAddress(remote_table[n], addr))
  BY <1>1, TriplesUpdated
<1>5. QED
  BY <1>2, <1>3, <1>4

LEMMA HeldAdded ==
  ASSUME TablesInv, NEW m \in Net, NEW from \in Net, remote_table'[m] = Appended(m, from)
  PROVE  Held(m)' = Held(m) \cup Exposes(from)
<1>. DEFINE old == remote_table[m]  new == AddedEntries(m, from)  all == Appended(m, from)
            o == Len(remote_table[m])  l == Len(local_table[from])
<1>1. /\ remote_table[m] \in Seq(RemoteEntry) /\ local_table[from] \in Seq(LocalEntry)
      /\ o \in Nat /\ l \in Nat
      /\ DOMAIN local_table[from] = 1 .. l /\ DOMAIN old = 1 .. o
  BY DEF TablesInv, TablesTypes
<1>2. NbLocal(m) \in Nat /\ Len(remote_table[m]) \in Nat
  BY <1>1, CountIsBoard, TablesAssumptionUsed DEF TablesInv, NetworkForm
<1>3. new \in Seq(RemoteEntry) /\ Len(new) = l
  <2>1. local_table[from] \in Seq(LocalEntry) /\ NbLocal(m) \in Nat /\ Len(remote_table[m]) \in Nat
    BY <1>1, <1>2
  <2>2. AddedEntries(m, from) \in Seq(RemoteEntry)
    BY <2>1, AddedAreTyped
  <2>3. Len(AddedEntries(m, from)) = Len(local_table[from])
    BY <2>1, AddedAreTyped
  <2>4. QED
    BY <2>2, <2>3
<1>4. ASSUME NEW i \in 1 .. l
      PROVE  <<new[i].node_addr, new[i].id, new[i].container>>
               = <<from, i - 1, local_table[from][i].container>>
  <2>1. /\ new[i].node_addr = from /\ new[i].id = local_table[from][i].id
        /\ new[i].container = local_table[from][i].container
    BY <1>1 DEF AddedEntries
  <2>2. local_table[from][i].id = i - 1
    BY <1>1 DEF TablesInv, NetworkForm, LocalForm
  <2>3. QED
    BY <2>1, <2>2
<1>5. /\ all \in Seq(RemoteEntry) /\ Len(all) = o + l
      /\ \A k \in 1 .. o : all[k] = old[k]
      /\ \A i \in 1 .. l : all[o + i] = new[i]
  <2>1. all = old \o new /\ old \in Seq(RemoteEntry) /\ new \in Seq(RemoteEntry)
    BY <1>1, <1>3 DEF Appended
  <2>. HIDE DEF all, old, new
  <2>2. Len(old) = o /\ Len(new) = l
    BY <1>3 DEF old
  <2>. HIDE DEF o, l
  <2>3. all \in Seq(RemoteEntry) /\ Len(all) = Len(old) + Len(new)
    BY <2>1
  <2>4. \A k \in 1 .. Len(old) : all[k] = old[k]
    BY <2>1
  <2>5. \A i \in 1 .. Len(new) : all[Len(old) + i] = new[i]
    BY <2>1
  <2>6. QED
    BY <2>2, <2>3, <2>4, <2>5
<1>6. DOMAIN all = 1 .. o + l /\ remote_table'[m] = all
  BY <1>5
<1>. HIDE DEF old, new, all, o, l
<1>7. /\ Held(m) = {<<old[k].node_addr, old[k].id, old[k].container>> : k \in 1 .. o}
      /\ Held(m)' = {<<all[k].node_addr, all[k].id, all[k].container>> : k \in 1 .. o + l}
      /\ Exposes(from) = {<<from, i - 1, local_table[from][i].container>> : i \in 1 .. l}
  BY <1>1, <1>6 DEF Held, Exposes, old
<1>8. ASSUME NEW h \in Held(m)' PROVE h \in Held(m) \cup Exposes(from)
  <2>1. PICK k \in 1 .. o + l : h = <<all[k].node_addr, all[k].id, all[k].container>>
    BY <1>7
  <2>2. CASE k <= o
    <3>1. k \in 1 .. o
      BY <2>2, <1>1
    <3>2. QED
      BY <3>1, <2>1, <1>5, <1>7
  <2>3. CASE ~(k <= o)
    <3>1. PICK i \in 1 .. l : i = k - o
      BY <2>3, <1>1
    <3>2. o + i = k
      BY <3>1, <1>1
    <3>3. all[k] = new[i]
      BY <3>2, <1>5
    <3>4. h = <<from, i - 1, local_table[from][i].container>>
      BY <2>1, <3>3, <1>4
    <3>5. QED
      BY <3>4, <1>7
  <2>4. QED
    BY <2>2, <2>3
<1>9. ASSUME NEW h \in Held(m) PROVE h \in Held(m)'
  <2>1. PICK k \in 1 .. o : h = <<old[k].node_addr, old[k].id, old[k].container>>
    BY <1>7
  <2>2. k \in 1 .. o + l /\ all[k] = old[k]
    BY <1>1, <1>5
  <2>3. QED
    BY <2>1, <2>2, <1>7
<1>10. ASSUME NEW h \in Exposes(from) PROVE h \in Held(m)'
  <2>1. PICK i \in 1 .. l : h = <<from, i - 1, local_table[from][i].container>>
    BY <1>7
  <2>2. PICK k \in 1 .. o + l : k = o + i
    BY <1>1
  <2>3. all[k] = new[i]
    BY <2>2, <1>5
  <2>4. h = <<all[k].node_addr, all[k].id, all[k].container>>
    BY <2>1, <2>3, <1>4
  <2>5. QED
    BY <2>4, <1>7
<1>11. QED
  BY <1>8, <1>9, <1>10

-----------------------------------------------------------------------------
\* Once a procedure has ended, whoever has entries of another network is known
\* to it.
LEMMA KnownAtRest ==
  ASSUME TablesInv, KnowledgeInv, \A n \in Net : state[n] = "IDLE",
         NEW n \in Net, NEW m \in Net, KnowsOf(n, m)
  PROVE  n # m /\ Knows(m, n)
<1>1. Course /\ TablesTypes
  BY DEF TablesInv
<1>2. n # m
  BY HeldAreOthers DEF KnowsOf
<1>3. CASE Aside(n) /\ Aside(m)
  BY <1>2, <1>3 DEF KnowledgeInv, Acquainted
<1>4. CASE ~(Aside(n) /\ Aside(m))
  <2>1. Begun /\ (n = Initiator \/ m = Initiator)
    BY <1>4 DEF Aside
  <2>2. PICK i \in Net : i = Initiator
    BY <1>1, <2>1, InitiatorTyped
  <2>3. todo = {}
    BY <1>1, <2>1, <2>2 DEF Course
  <2>4. \A k \in Net \ {i} : Knows(i, k) /\ Knows(k, i)
    BY <2>1, <2>2, <2>3 DEF KnowledgeInv, Acquainted
  <2>5. n = i \/ m = i
    BY <2>1, <2>2
  <2>6. QED
    BY <1>2, <2>4, <2>5
<1>5. QED
  BY <1>2, <1>3, <1>4

LEMMA KnowledgeEmpty ==
  ASSUME \A n \in Net : remote_table'[n] = <<>>, round' = 0
  PROVE  KnowledgeInv'
<1>1. \A n \in Net : Held(n)' = {}
  BY DEF Held
<1>2. ~Begun'
  BY DEF Begun
<1>3. \A n, m \in Net : ~KnowsOf(n, m)'
  BY <1>1 DEF KnowsOf
<1>4. QED
  BY <1>1, <1>2, <1>3 DEF KnowledgeInv, Genuine, Acquainted

\* Before the first procedure nothing is known.
LEMMA FillTeaches ==
  ASSUME TablesInv, NEW n \in Net, Fill(n) \/ Clear(n)
  PROVE  KnowledgeInv'
<1>1. round = 0 /\ round' = 0
  BY DEF Fill, Clear
<1>2. \A m \in Net : remote_table[m] = <<>>
  BY <1>1, BeforeProcedures
<1>3. remote_table \in [Net -> Seq(RemoteEntry)]
  BY DEF TablesInv, TablesTypes
<1>4. remote_table' = remote_table \/ remote_table' = [remote_table EXCEPT ![n] = <<>>]
  BY DEF Fill, Clear
<1>5. \A m \in Net : remote_table'[m] = <<>>
  BY <1>2, <1>3, <1>4
<1>6. QED
  BY <1>1, <1>5, KnowledgeEmpty

\* The initiator forgets what it knew.
LEMMA EngageTeaches ==
  ASSUME TablesInv, KnowledgeInv, Engage
  PROVE  KnowledgeInv'
<1>1. TablesTypes
  BY DEF TablesInv
<1>2. /\ \A n \in Net : state[n] = "IDLE"
      /\ round < Len(Rounds)
      /\ round' = round + 1
      /\ UNCHANGED <<local_table, rtb>>
  BY DEF Engage, InProgress
<1>3. Rounds[round + 1] \in Net /\ round \in Nat
  BY <1>1, <1>2, TablesAssumptionUsed DEF TablesTypes
<1>4. PICK i \in Net : i = Rounds[round + 1]
  BY <1>3
<1>5. /\ remote_table' = [remote_table EXCEPT ![i] = <<>>]
      /\ todo' = Net \ {i}
  BY <1>4 DEF Engage
<1>6. Begun' /\ Initiator' = i
  BY <1>2, <1>3, <1>4 DEF Begun, Initiator
<1>7. remote_table \in [Net -> Seq(RemoteEntry)]
  BY <1>1 DEF TablesTypes
<1>8. Held(i)' = {}
  <2>1. remote_table'[i] = <<>>
    BY <1>5, <1>7
  <2>2. QED
    BY <2>1 DEF Held
<1>9. ASSUME NEW n \in Net \ {i} PROVE Held(n)' = Held(n)
  <2>1. remote_table'[n] = remote_table[n]
    BY <1>5, <1>7
  <2>2. QED
    BY <2>1, HeldKept
<1>10. \A n \in Net : Exposes(n)' = Exposes(n)
  BY <1>2, ExposedKept
<1>11. Genuine'
  <2>1. ASSUME NEW n \in Net, NEW h \in Held(n)' PROVE h \in Exposes(h[1])'
    <3>1. h \in Held(n)
      BY <1>8, <1>9
    <3>2. PICK m \in Net : m = h[1]
      BY <3>1, HeldAreOthers
    <3>3. h \in Exposes(m)
      BY <3>1, <3>2 DEF KnowledgeInv, Genuine
    <3>4. h \in Exposes(m)'
      BY <3>3, <1>10
    <3>5. QED
      BY <3>2, <3>4
  <2>2. QED
    BY <2>1 DEF Genuine
<1>12. ASSUME NEW n \in Net \ {i}, NEW m \in Net \ {i}, KnowsOf(n, m)'
       PROVE  Knows(m, n)'
  <2>1. KnowsOf(n, m)
    BY <1>9, <1>12 DEF KnowsOf
  <2>2. Knows(m, n)
    BY <1>2, <2>1, KnownAtRest
  <2>3. QED
    BY <2>2, <1>9, <1>10 DEF Knows
<1>13. ASSUME NEW n \in Net, Aside(n)' PROVE n \in Net \ {i}
  BY <1>6, <1>13 DEF Aside
<1>14. \A n, m \in Net : Aside(n)' /\ Aside(m)' /\ KnowsOf(n, m)' => Knows(m, n)'
  BY <1>12, <1>13
<1>15. Net \ (todo' \cup {Initiator'}) = {}
  BY <1>5, <1>6
<1>16. Acquainted'
  BY <1>14, <1>15 DEF Acquainted
<1>17. QED
  BY <1>11, <1>16 DEF KnowledgeInv

-----------------------------------------------------------------------------
\* A step in which a network forgets or learns the entries of another.
LEMMA KnowledgeMoved ==
  ASSUME TablesInv, Begun, NEW i \in Net, i = Initiator, UNCHANGED <<round, local_table>>,
         NEW n \in Net, \A m \in Net \ {n} : Held(m)' = Held(m),
         Held(n)' \subseteq Held(n) \/ \E m \in Net : Held(n)' = Held(n) \cup Exposes(m),
         Genuine
  PROVE  /\ Begun' /\ Initiator' = i
         /\ \A m \in Net : Exposes(m)' = Exposes(m)
         /\ Genuine'
<1>1. Begun' /\ Initiator' = i
  BY DEF Begun, Initiator
<1>2. \A m \in Net : Exposes(m)' = Exposes(m)
  BY ExposedKept
<1>3. ASSUME NEW m \in Net, NEW h \in Held(m)' PROVE h \in Exposes(h[1])'
  <2>1. h \in Held(m) \/ \E k \in Net : h \in Exposes(k)
    BY <1>3
  <2>2. CASE h \in Held(m)
    <3>1. PICK k \in Net : k = h[1]
      BY <2>2, HeldAreOthers
    <3>2. h \in Exposes(k)
      BY <2>2, <3>1 DEF Genuine
    <3>3. h \in Exposes(k)'
      BY <3>2, <1>2
    <3>4. QED
      BY <3>1, <3>3
  <2>3. CASE \E k \in Net : h \in Exposes(k)
    <3>1. PICK k \in Net : h \in Exposes(k)
      BY <2>3
    <3>2. h[1] = k
      BY <3>1 DEF Exposes
    <3>3. h \in Exposes(k)'
      BY <3>1, <1>2
    <3>4. QED
      BY <3>2, <3>3
  <2>4. QED
    BY <2>1, <2>2, <2>3
<1>4. Genuine'
  BY <1>3 DEF Genuine
<1>5. QED
  BY <1>1, <1>2, <1>4

LEMMA ReceiveGetTeaches ==
  ASSUME TablesInv, KnowledgeInv, NEW n \in Net, ReceiveGet(n)
  PROVE  KnowledgeInv'
<1>1. TablesTypes /\ Course
  BY DEF TablesInv
<1>2. /\ n \in todo /\ state[n] = "IDLE"
      /\ state' = [state EXCEPT ![n] = "REPLYING"]
      /\ remote_table' = [remote_table EXCEPT
           ![n] = UpdatedIDs(n, ClearedAddress(@, Initiator), DetectedFromBridge(n))]
      /\ UNCHANGED <<todo, round, local_table>>
  BY DEF ReceiveGet
<1>3. Begun
  BY <1>1, <1>2 DEF Course
<1>4. PICK i \in Net : i = Initiator
  BY <1>1, <1>3, InitiatorTyped
<1>5. n # i
  BY <1>1, <1>2, <1>3, <1>4 DEF Course
<1>6. remote_table \in [Net -> Seq(RemoteEntry)] /\ DOMAIN state = Net
  BY <1>1 DEF TablesTypes
<1>7. remote_table'[n] = UpdatedIDs(n, ClearedAddress(remote_table[n], i), DetectedFromBridge(n))
  BY <1>2, <1>4, <1>6
<1>8. Held(n)' = {h \in Held(n) : h[1] # i}
  <2>1. PICK d : d = DetectedFromBridge(n)
    OBVIOUS
  <2>2. remote_table'[n] = UpdatedIDs(n, ClearedAddress(remote_table[n], i), d)
    BY <1>7, <2>1
  <2>3. QED
    BY <1>1, <2>2, HeldCleared
<1>9. ASSUME NEW m \in Net \ {n} PROVE Held(m)' = Held(m)
  <2>1. remote_table'[m] = remote_table[m]
    BY <1>2, <1>6
  <2>2. QED
    BY <2>1, HeldKept
<1>10. /\ Begun' /\ Initiator' = i
       /\ \A m \in Net : Exposes(m)' = Exposes(m)
       /\ Genuine'
  <2>1. Held(n)' \subseteq Held(n)
    BY <1>8
  <2>2. QED
    BY <1>2, <1>3, <1>4, <1>9, <2>1, KnowledgeMoved DEF KnowledgeInv
<1>11. ASSUME NEW a \in Net \ {i}, NEW b \in Net \ {i}, KnowsOf(a, b)'
       PROVE  Knows(b, a)'
  <2>1. KnowsOf(a, b)
    BY <1>8, <1>9, <1>11 DEF KnowsOf
  <2>2. Knows(b, a)
    BY <1>4, <2>1 DEF KnowledgeInv, Acquainted, Aside
  <2>3. ASSUME NEW h \in Exposes(a) PROVE h \in Held(b)'
    <3>1. h \in Held(b) /\ h[1] # i
      BY <2>2, <2>3 DEF Knows, Exposes
    <3>2. QED
      BY <3>1, <1>8, <1>9
  <2>4. QED
    BY <2>3, <1>10 DEF Knows
<1>12. ASSUME NEW k \in Net \ (todo \cup {i})
       PROVE  Knows(i, k)' /\ (state'[k] # "RECEIVING" => Knows(k, i)')
  <2>1. Knows(i, k) /\ (state[k] # "RECEIVING" => Knows(k, i))
    BY <1>3, <1>4 DEF KnowledgeInv, Acquainted
  <2>2. k # n /\ state'[k] = state[k]
    BY <1>2, <1>6
  <2>3. QED
    BY <2>1, <2>2, <1>5, <1>9, <1>10 DEF Knows
<1>13. Acquainted'
  <2>1. \A a \in Net : Aside(a)' => a \in Net \ {i}
    BY <1>10 DEF Aside
  <2>2. \A a, b \in Net : Aside(a)' /\ Aside(b)' /\ KnowsOf(a, b)' => Knows(b, a)'
    BY <2>1, <1>11
  <2>3. \A k \in Net \ (todo' \cup {Initiator'}) :
          Knows(Initiator, k)' /\ (state'[k] # "RECEIVING" => Knows(k, Initiator)')
    BY <1>2, <1>10, <1>12 DEF Knows
  <2>4. QED
    BY <2>2, <2>3 DEF Acquainted
<1>14. QED
  BY <1>10, <1>13 DEF KnowledgeInv

LEMMA ReceiveRepliesTeaches ==
  ASSUME TablesInv, KnowledgeInv, NEW n \in Net, ReceiveReplies(n)
  PROVE  KnowledgeInv'
<1>1. TablesTypes /\ Course
  BY DEF TablesInv
<1>2. /\ n \in todo /\ state[n] = "REPLYING"
      /\ state' = [state EXCEPT ![n] = "RECEIVING"]
      /\ todo' = todo \ {n}
      /\ UNCHANGED <<round, local_table>>
  BY DEF ReceiveReplies
<1>3. Begun
  BY <1>1, <1>2 DEF Course
<1>4. PICK i \in Net : i = Initiator
  BY <1>1, <1>3, InitiatorTyped
<1>5. n # i
  BY <1>1, <1>2, <1>3, <1>4 DEF Course
<1>6. remote_table \in [Net -> Seq(RemoteEntry)] /\ DOMAIN state = Net
  BY <1>1 DEF TablesTypes
<1>7. remote_table' = [remote_table EXCEPT ![i] = Appended(i, n)]
  BY <1>4, <1>6 DEF ReceiveReplies, AddEntries, Appended
<1>8. Held(i)' = Held(i) \cup Exposes(n)
  <2>1. remote_table'[i] = Appended(i, n)
    BY <1>6, <1>7
  <2>2. QED
    BY <2>1, HeldAdded
<1>9. ASSUME NEW m \in Net \ {i} PROVE Held(m)' = Held(m)
  <2>1. remote_table'[m] = remote_table[m]
    BY <1>6, <1>7
  <2>2. QED
    BY <2>1, HeldKept
<1>10. /\ Begun' /\ Initiator' = i
       /\ \A m \in Net : Exposes(m)' = Exposes(m)
       /\ Genuine'
  BY <1>2, <1>3, <1>4, <1>8, <1>9, KnowledgeMoved DEF KnowledgeInv
<1>11. ASSUME NEW a \in Net \ {i}, NEW b \in Net \ {i}, KnowsOf(a, b)'
       PROVE  Knows(b, a)'
  <2>1. KnowsOf(a, b)
    BY <1>9, <1>11 DEF KnowsOf
  <2>2. Knows(b, a)
    BY <1>4, <2>1 DEF KnowledgeInv, Acquainted, Aside
  <2>3. QED
    BY <2>2, <1>9, <1>10 DEF Knows
<1>12. ASSUME NEW k \in Net \ (todo' \cup {i})
       PROVE  Knows(i, k)' /\ (state'[k] # "RECEIVING" => Knows(k, i)')
  <2>1. CASE k = n
    <3>1. state'[k] = "RECEIVING"
      BY <2>1, <1>2, <1>6
    <3>2. Knows(i, k)'
      BY <2>1, <1>8, <1>10 DEF Knows
    <3>3. QED
      BY <3>1, <3>2
  <2>2. CASE k # n
    <3>1. k \notin todo /\ state'[k] = state[k]
      BY <2>2, <1>2, <1>6
    <3>2. Knows(i, k) /\ (state[k] # "RECEIVING" => Knows(k, i))
      BY <3>1, <1>3, <1>4 DEF KnowledgeInv, Acquainted
    <3>3. Knows(i, k)'
      BY <3>2, <1>8, <1>10 DEF Knows
    <3>4. Knows(k, i) => Knows(k, i)'
      BY <1>9, <1>10 DEF Knows
    <3>5. QED
      BY <3>1, <3>2, <3>3, <3>4
  <2>3. QED
    BY <2>1, <2>2
<1>13. Acquainted'
  <2>1. \A a \in Net : Aside(a)' => a \in Net \ {i}
    BY <1>10 DEF Aside
  <2>2. \A a, b \in Net : Aside(a)' /\ Aside(b)' /\ KnowsOf(a, b)' => Knows(b, a)'
    BY <2>1, <1>11
  <2>3. \A k \in Net \ (todo' \cup {Initiator'}) :
          Knows(Initiator, k)' /\ (state'[k] # "RECEIVING" => Knows(k, Initiator)')
    BY <1>10, <1>12 DEF Knows
  <2>4. QED
    BY <2>2, <2>3 DEF Acquainted
<1>14. QED
  BY <1>10, <1>13 DEF KnowledgeInv

LEMMA ReceiveEntriesTeaches ==
  ASSUME TablesInv, KnowledgeInv, NEW n \in Net, ReceiveEntries(n)
  PROVE  KnowledgeInv'
<1>1. TablesTypes /\ Course
  BY DEF TablesInv
<1>2. /\ todo = {} /\ state[n] = "RECEIVING"
      /\ state' = [state EXCEPT ![n] = "RECEIVED"]
      /\ UNCHANGED <<todo, round, local_table>>
  BY DEF ReceiveEntries
<1>3. Begun
  BY <1>1, <1>2 DEF Course
<1>4. PICK i \in Net : i = Initiator
  BY <1>1, <1>3, InitiatorTyped
<1>5. n # i
  BY <1>1, <1>2, <1>3, <1>4 DEF Course
<1>6. remote_table \in [Net -> Seq(RemoteEntry)] /\ DOMAIN state = Net
  BY <1>1 DEF TablesTypes
<1>7. remote_table' = [remote_table EXCEPT ![n] = Appended(n, i)]
  BY <1>4, <1>6 DEF ReceiveEntries, AddEntries, Appended
<1>8. Held(n)' = Held(n) \cup Exposes(i)
  <2>1. remote_table'[n] = Appended(n, i)
    BY <1>6, <1>7
  <2>2. QED
    BY <2>1, HeldAdded
<1>9. ASSUME NEW m \in Net \ {n} PROVE Held(m)' = Held(m)
  <2>1. remote_table'[m] = remote_table[m]
    BY <1>6, <1>7
  <2>2. QED
    BY <2>1, HeldKept
<1>10. /\ Begun' /\ Initiator' = i
       /\ \A m \in Net : Exposes(m)' = Exposes(m)
       /\ Genuine'
  BY <1>2, <1>3, <1>4, <1>8, <1>9, KnowledgeMoved DEF KnowledgeInv
<1>11. ASSUME NEW a \in Net \ {i}, NEW b \in Net \ {i}, KnowsOf(a, b)'
       PROVE  Knows(b, a)'
  <2>1. PICK h \in Held(a)' : h[1] = b
    BY <1>11 DEF KnowsOf
  <2>2. h \notin Exposes(i)
    BY <2>1 DEF Exposes
  <2>3. h \in Held(a)
    BY <2>1, <2>2, <1>8, <1>9
  <2>4. KnowsOf(a, b)
    BY <2>1, <2>3 DEF KnowsOf
  <2>5. Knows(b, a)
    BY <1>4, <2>4 DEF KnowledgeInv, Acquainted, Aside
  <2>6. Held(b) \subseteq Held(b)'
    BY <1>8, <1>9
  <2>7. QED
    BY <2>5, <2>6, <1>10 DEF Knows
<1>12. ASSUME NEW k \in Net \ (todo \cup {i})
       PROVE  Knows(i, k)' /\ (state'[k] # "RECEIVING" => Knows(k, i)')
  <2>1. Knows(i, k) /\ (state[k] # "RECEIVING" => Knows(k, i))
    BY <1>3, <1>4 DEF KnowledgeInv, Acquainted
  <2>2. Knows(i, k)'
    BY <2>1, <1>5, <1>9, <1>10 DEF Knows
  <2>3. CASE k = n
    <3>1. Knows(k, i)'
      BY <2>3, <1>8, <1>10 DEF Knows
    <3>2. QED
      BY <2>2, <3>1
  <2>4. CASE k # n
    <3>1. state'[k] = state[k]
      BY <2>4, <1>2, <1>6
    <3>2. Knows(k, i) => Knows(k, i)'
      BY <2>4, <1>9, <1>10 DEF Knows
    <3>3. QED
      BY <2>1, <2>2, <3>1, <3>2
  <2>5. QED
    BY <2>3, <2>4
<1>13. Acquainted'
  <2>1. \A a \in Net : Aside(a)' => a \in Net \ {i}
    BY <1>10 DEF Aside
  <2>2. \A a, b \in Net : Aside(a)' /\ Aside(b)' /\ KnowsOf(a, b)' => Knows(b, a)'
    BY <2>1, <1>11
  <2>3. \A k \in Net \ (todo' \cup {Initiator'}) :
          Knows(Initiator, k)' /\ (state'[k] # "RECEIVING" => Knows(k, Initiator)')
    BY <1>2, <1>10, <1>12 DEF Knows
  <2>4. QED
    BY <2>2, <2>3 DEF Acquainted
<1>14. QED
  BY <1>10, <1>13 DEF KnowledgeInv

-----------------------------------------------------------------------------
\* Local IDs change, what is known does not.
LEMMA UpdateTeaches ==
  ASSUME TablesInv, KnowledgeInv, NEW n \in Net,
         Complete(n) \/ GateComplete(n) \/ UpdateTables(n) \/ GateDetect(n)
  PROVE  KnowledgeInv'
<1>1. TablesTypes
  BY DEF TablesInv
<1>2. /\ local_table \in [Net -> Seq(LocalEntry)] /\ remote_table \in [Net -> Seq(RemoteEntry)]
      /\ DOMAIN state = Net
  BY <1>1 DEF TablesTypes
<1>3. UNCHANGED <<todo, round>>
  BY DEF Complete, GateComplete, UpdateTables, GateDetect
<1>4. \/ local_table' = local_table
      \/ \E d : local_table' = [local_table EXCEPT ![n] = UpdatedIDs(n, @, d)]
  BY DEF Complete, ExtRtbComplete, GateComplete, UpdateTables, GateDetect
<1>5. \/ remote_table' = remote_table
      \/ \E d : remote_table' = [remote_table EXCEPT ![n] = UpdatedIDs(n, @, d)]
  BY DEF Complete, GateComplete, UpdateTables, GateDetect
<1>6. ASSUME NEW m \in Net PROVE Exposes(m)' = Exposes(m)
  <2>1. CASE local_table'[m] = local_table[m]
    BY <2>1, ExposedKept
  <2>2. CASE local_table'[m] # local_table[m]
    <3>1. PICK d : local_table' = [local_table EXCEPT ![n] = UpdatedIDs(n, @, d)]
      BY <2>2, <1>4
    <3>2. m = n /\ local_table'[n] = UpdatedIDs(n, local_table[n], d)
      BY <2>2, <3>1, <1>2
    <3>3. Exposes(n)' = Exposes(n)
      BY <1>1, <3>2, ExposedUpdated
    <3>4. QED
      BY <3>2, <3>3
  <2>3. QED
    BY <2>1, <2>2
<1>7. ASSUME NEW m \in Net PROVE Held(m)' = Held(m)
  <2>1. CASE remote_table'[m] = remote_table[m]
    BY <2>1, HeldKept
  <2>2. CASE remote_table'[m] # remote_table[m]
    <3>1. PICK d : remote_table' = [remote_table EXCEPT ![n] = UpdatedIDs(n, @, d)]
      BY <2>2, <1>5
    <3>2. m = n /\ remote_table'[n] = UpdatedIDs(n, remote_table[n], d)
      BY <2>2, <3>1, <1>2
    <3>3. Held(n)' = Held(n)
      BY <1>1, <3>2, HeldUpdated
    <3>4. QED
      BY <3>2, <3>3
  <2>3. QED
    BY <2>1, <2>2
<1>8. ASSUME NEW m \in Net, state'[m] # "RECEIVING" PROVE state[m] # "RECEIVING"
  <2>1. state' = state \/ Complete(n)
    BY DEF GateComplete, UpdateTables, GateDetect
  <2>2. CASE Complete(n)
    <3>1. state[n] # "RECEIVING" /\ state' = [state EXCEPT ![n] = "IDLE"]
      BY <2>2 DEF Complete
    <3>2. QED
      BY <3>1, <1>2, <1>8
  <2>3. QED
    BY <1>8, <2>1, <2>2
<1>9. \A m \in Net : Held(m)' = Held(m) /\ Exposes(m)' = Exposes(m)
  BY <1>6, <1>7
<1>10. \A m \in Net : state'[m] # "RECEIVING" => state[m] # "RECEIVING"
  BY <1>8
<1>11. QED
  BY <1>1, <1>3, <1>9, <1>10, KnowledgeKept

\* Steps of messages change no table.
LEMMA MessageSteps ==
  ASSUME Next, ~TablesStep
  PROVE  UNCHANGED tables_vars
<1>1. ASSUME NEW n \in Net, Send(n) PROVE UNCHANGED tables_vars
  BY <1>1 DEF Send
<1>2. ASSUME NEW n \in Net, NEW from \in Net,
             ReceiveSet(n, from) \/ OverhearSet(n, from) \/ IgnoreSet(n, from) \/ LoseSet(n, from)
      PROVE  UNCHANGED tables_vars
  BY <1>2 DEF ReceiveSet, OverhearSet, IgnoreSet, LoseSet
<1>3. QED
  BY <1>1, <1>2 DEF Next

LEMMA KnowledgeStepKeeps ==
  ASSUME TablesInv, KnowledgeInv, [Next]_vars
  PROVE  KnowledgeInv'
<1>1. CASE UNCHANGED tables_vars
  <2>1. \A n \in Net : Held(n)' = Held(n) /\ Exposes(n)' = Exposes(n)
    BY <1>1 DEF tables_vars, Held, Exposes
  <2>2. UNCHANGED <<todo, round, state>> /\ TablesTypes
    BY <1>1 DEF tables_vars, TablesInv
  <2>3. QED
    BY <2>1, <2>2, KnowledgeKept
<1>2. CASE TablesNext
  <2>1. CASE Engage
    BY <2>1, EngageTeaches
  <2>2. CASE \E n \in Net : Fill(n) \/ Clear(n)
    BY <2>2, FillTeaches
  <2>3. CASE \E n \in Net : ReceiveGet(n) \/ ReceiveReplies(n) \/ ReceiveEntries(n)
    BY <2>3, ReceiveGetTeaches, ReceiveRepliesTeaches, ReceiveEntriesTeaches
  <2>4. CASE \E n \in Net : Complete(n) \/ GateComplete(n) \/ UpdateTables(n) \/ GateDetect(n)
    BY <2>4, UpdateTeaches
  <2>5. QED
    BY <1>2, <2>1, <2>2, <2>3, <2>4 DEF TablesNext
<1>3. QED
  BY <1>1, <1>2, MessageSteps DEF TablesStep, vars

LEMMA KnowledgeInvariance ==
  ASSUME ~FillsFull
  PROVE  Spec => [](TablesInv /\ KnowledgeInv)
<1>1. ExchangeInit => KnowledgeInv
  <2>. SUFFICES ASSUME ExchangeInit PROVE KnowledgeInv
    OBVIOUS
  <2>1. round = 0 /\ \A n \in Net : remote_table[n] = <<>>
    BY DEF ExchangeInit, Init
  <2>2. ~Begun /\ \A n \in Net : Held(n) = {}
    BY <2>1 DEF Begun, Held
  <2>3. QED
    BY <2>2 DEF KnowledgeInv, Genuine, Acquainted, KnowsOf
<1>2. TablesInv /\ KnowledgeInv /\ [Next]_vars => KnowledgeInv'
  BY KnowledgeStepKeeps
<1>3. QED
  BY <1>1, <1>2, TablesInvariance, PTL DEF Spec

-----------------------------------------------------------------------------
\* What is on the air, as far as transactions go

AirTypes ==
  /\ txn \in [Net -> Nat] /\ lost \in Nat
  /\ \E S : /\ air \in [Net -> [Net -> Seq(S)]]
            /\ \A set \in S : set.transaction_id \in Nat

\* Every node has followed the transactions, but for the SET on the air.
Followed(t) == NothingOnAir /\ \A n \in Net : txn[n] = t

Sending(s, t) ==
  /\ txn[s] = t + 1 /\ air[s][s] = <<>>
  /\ \A n, m \in Net : n # s => air[n][m] = <<>>
  /\ \A m \in Net \ {s} :
       \/ air[s][m] = <<>> /\ txn[m] = t + 1
       \/ txn[m] = t /\ \E set : air[s][m] = <<set>> /\ set.transaction_id = t + 1

TransactionsInv ==
  lost = 0 /\ ~Wrapped =>
    \E t \in Nat : Followed(t) \/ \E s \in Net : Sending(s, t)

\* The SETs that a message becomes
SendsSet(n) ==
  \E set : /\ set.transaction_id = (txn[n] + 1) % TxnModulo
           /\ air' = [air EXCEPT ![n] = [m \in Net |-> IF m = n THEN air[n][m]
                                                               ELSE Append(air[n][m], set)]]
           /\ txn' = [txn EXCEPT ![n] = txn[n] + 1]

LEMMA SendForms ==
  ASSUME AirTypes, NEW n \in Net, Send(n)
  PROVE  SendsSet(n) \/ UNCHANGED <<txn, air>>
<1>1. PICK local, remote, ends :
        IF local = 0 \/ remote = 0
        THEN UNCHANGED <<txn, air>>
        ELSE LET entry == remote_table[n][remote]
                 msg   == MeshMsg(local_table[n][local].id, entry.id, ends)
             IN /\ txn' = [txn EXCEPT ![n] = NextTransaction(n)]
                /\ SetSend(n, SetCommand(n, entry.node_addr, msg))
                /\ UNCHANGED asserted
  BY DEF Send
<1>2. CASE local = 0 \/ remote = 0
  BY <1>1, <1>2
<1>3. CASE ~(local = 0 \/ remote = 0)
  <2>1. PICK set : /\ set = SetCommand(n, remote_table[n][remote].node_addr,
                                      MeshMsg(local_table[n][local].id, remote_table[n][remote].id, ends))
                   /\ txn' = [txn EXCEPT ![n] = NextTransaction(n)] /\ SetSend(n, set)
    BY <1>1, <1>3
  <2>2. set.transaction_id = (txn[n] + 1) % TxnModulo
    BY <2>1 DEF SetCommand, NextTransaction
  <2>3. air' = [air EXCEPT ![n] = [m \in Net |-> IF m = n THEN air[n][m]
                                                        ELSE Append(air[n][m], set)]]
    BY <2>1 DEF SetSend, AirTypes
  <2>4. txn' = [txn EXCEPT ![n] = txn[n] + 1]
    BY <2>1 DEF NextTransaction
  <2>5. QED
    BY <2>2, <2>3, <2>4 DEF SendsSet
<1>4. QED
  BY <1>2, <1>3

LEMMA Remainders ==
  ASSUME NEW t \in Nat
  PROVE  t % TxnModulo \in Nat /\ (t < TxnModulo => t % TxnModulo = t)
<1>1. TxnModulo \in Nat \ {0}
  BY ExchangeAssumption
<1>2. PICK k \in Nat \ {0} : k = TxnModulo
  BY <1>1
<1>3. t % k \in Nat /\ (t < k => t % k = t)
  OBVIOUS
<1>4. QED
  BY <1>2, <1>3

\* A SET is taken from the air, and its identifier kept if it is higher.
Hears(n, from) ==
  /\ Take(n, from)
  /\ \/ UNCHANGED txn
     \/ /\ txn' = [txn EXCEPT ![n] = Heard(n, from).transaction_id]
        /\ Heard(n, from).transaction_id > txn[n]

LEMMA HearForms ==
  ASSUME NEW n \in Net, NEW from \in Net,
         ReceiveSet(n, from) \/ OverhearSet(n, from) \/ IgnoreSet(n, from) \/ LoseSet(n, from)
  PROVE  Hears(n, from)
<1>1. CASE ReceiveSet(n, from) \/ OverhearSet(n, from)
  BY <1>1 DEF ReceiveSet, OverhearSet, Hears, IsNewTransaction, KeptTransaction
<1>2. CASE IgnoreSet(n, from) \/ LoseSet(n, from)
  BY <1>2 DEF IgnoreSet, LoseSet, Hears
<1>3. QED
  BY <1>1, <1>2

LEMMA LostGrows ==
  ASSUME Next
  PROVE  lost' = lost \/ (lost' = lost + 1 /\ \E n, from \in Net : LoseSet(n, from))
<1>1. CASE TablesStep
  BY <1>1 DEF TablesStep, msg_vars
<1>2. ASSUME NEW n \in Net, Send(n) PROVE lost' = lost
  BY <1>2 DEF Send
<1>3. ASSUME NEW n \in Net, NEW from \in Net,
             ReceiveSet(n, from) \/ OverhearSet(n, from) \/ IgnoreSet(n, from)
      PROVE  lost' = lost
  BY <1>3 DEF ReceiveSet, OverhearSet, IgnoreSet
<1>4. ASSUME NEW n \in Net, NEW from \in Net, LoseSet(n, from) PROVE lost' = lost + 1
  BY <1>4 DEF LoseSet
<1>5. QED
  BY <1>1, <1>2, <1>3, <1>4 DEF Next

LEMMA TakenForm ==
  ASSUME AirTypes, NEW n \in Net, NEW from \in Net, Take(n, from)
  PROVE  /\ air'[from][n] = Tail(air[from][n])
         /\ \A a, b \in Net : a # from \/ b # n => air'[a][b] = air[a][b]
         /\ \E S : /\ air \in [Net -> [Net -> Seq(S)]] /\ air' \in [Net -> [Net -> Seq(S)]]
                   /\ \A set \in S : set.transaction_id \in Nat
                   /\ Heard(n, from) \in S
<1>1. PICK S : air \in [Net -> [Net -> Seq(S)]] /\ \A set \in S : set.transaction_id \in Nat
  BY DEF AirTypes
<1>2. air[from][n] # <<>> /\ air' = [air EXCEPT ![from][n] = Tail(@)]
  BY DEF Take
<1>3. air[from][n] \in Seq(S)
  BY <1>1
<1>4. PICK q \in Seq(S) : q = air[from][n]
  BY <1>3
<1>5. q # <<>> /\ Tail(q) \in Seq(S) /\ Head(q) \in S
  BY <1>2, <1>4
<1>6. /\ air'[from][n] = Tail(q)
      /\ \A a, b \in Net : a # from \/ b # n => air'[a][b] = air[a][b]
      /\ air' \in [Net -> [Net -> Seq(S)]]
  BY <1>1, <1>2, <1>4, <1>5
<1>7. Heard(n, from) \in S
  BY <1>4, <1>5 DEF Heard
<1>8. QED
  BY <1>1, <1>4, <1>6, <1>7

-----------------------------------------------------------------------------
LEMMA SentForm ==
  ASSUME AirTypes, NEW n \in Net, SendsSet(n)
  PROVE  /\ \E set : /\ set.transaction_id = (txn[n] + 1) % TxnModulo
                     /\ \A m \in Net \ {n} : air'[n][m] = Append(air[n][m], set)
         /\ air'[n][n] = air[n][n]
         /\ \A a \in Net \ {n} : air'[a] = air[a]
         /\ txn' \in [Net -> Nat] /\ txn'[n] = txn[n] + 1
         /\ \A a \in Net \ {n} : txn'[a] = txn[a]
         /\ \E S : /\ air' \in [Net -> [Net -> Seq(S)]]
                   /\ \A s \in S : s.transaction_id \in Nat
<1>1. PICK S : air \in [Net -> [Net -> Seq(S)]] /\ \A set \in S : set.transaction_id \in Nat
  BY DEF AirTypes
<1>2. PICK set : /\ set.transaction_id = (txn[n] + 1) % TxnModulo
                 /\ air' = [air EXCEPT ![n] = [m \in Net |-> IF m = n THEN air[n][m]
                                                                     ELSE Append(air[n][m], set)]]
                 /\ txn' = [txn EXCEPT ![n] = txn[n] + 1]
  BY DEF SendsSet
<1>3. txn \in [Net -> Nat]
  BY DEF AirTypes
<1>4. txn' \in [Net -> Nat] /\ txn'[n] = txn[n] + 1 /\ \A a \in Net \ {n} : txn'[a] = txn[a]
  BY <1>2, <1>3
<1>5. /\ air'[n] = [m \in Net |-> IF m = n THEN air[n][m] ELSE Append(air[n][m], set)]
      /\ \A a \in Net \ {n} : air'[a] = air[a]
      /\ DOMAIN air' = Net
  BY <1>1, <1>2
<1>6. /\ \A m \in Net \ {n} : air'[n][m] = Append(air[n][m], set)
      /\ air'[n][n] = air[n][n]
  BY <1>5
<1>7. PICK R : R = S \cup {set}
  OBVIOUS
<1>8. \A s \in R : s.transaction_id \in Nat
  <2>1. txn[n] + 1 \in Nat
    BY <1>3
  <2>2. set.transaction_id \in Nat
    BY <1>2, <2>1, Remainders
  <2>3. QED
    BY <1>1, <1>7, <2>2
<1>9. air' \in [Net -> [Net -> Seq(R)]]
  <2>1. \A q \in Seq(S) : q \in Seq(R) /\ Append(q, set) \in Seq(R)
    BY <1>7
  <2>2. ASSUME NEW m \in Net PROVE air[n][m] \in Seq(S)
    BY <1>1
  <2>3. [m \in Net |-> IF m = n THEN air[n][m] ELSE Append(air[n][m], set)] \in [Net -> Seq(R)]
    BY <2>1, <2>2
  <2>4. ASSUME NEW a \in Net \ {n} PROVE air'[a] \in [Net -> Seq(R)]
    <3>1. air'[a] = air[a] /\ air[a] \in [Net -> Seq(S)]
      BY <1>1, <1>5
    <3>2. QED
      BY <3>1, <2>1
  <2>5. ASSUME NEW a \in Net PROVE air'[a] \in [Net -> Seq(R)]
    BY <1>5, <2>3, <2>4
  <2>6. air' = [a \in Net |-> air'[a]]
    BY <1>1, <1>2
  <2>7. QED
    BY <2>5, <2>6
<1>10. QED
  BY <1>2, <1>4, <1>5, <1>6, <1>8, <1>9

LEMMA AirStepKeeps ==
  ASSUME AirTypes, [Next]_vars
  PROVE  AirTypes' /\ lost <= lost' /\ \A n \in Net : txn[n] <= txn'[n]
<1>1. lost \in Nat /\ txn \in [Net -> Nat]
  BY DEF AirTypes
<1>2. ASSUME UNCHANGED <<txn, air, lost>>
      PROVE  AirTypes' /\ lost <= lost' /\ \A n \in Net : txn[n] <= txn'[n]
  <2>1. AirTypes'
    BY <1>2 DEF AirTypes
  <2>2. lost <= lost' /\ \A n \in Net : txn[n] <= txn'[n]
    BY <1>1, <1>2
  <2>3. QED
    BY <2>1, <2>2
<1>3. ASSUME Next PROVE lost' \in Nat /\ lost <= lost'
  BY <1>1, <1>3, LostGrows
<1>4. ASSUME NEW n \in Net, Next, SendsSet(n)
      PROVE  AirTypes' /\ lost <= lost' /\ \A m \in Net : txn[m] <= txn'[m]
  <2>1. AirTypes'
    BY <1>3, <1>4, SentForm DEF AirTypes
  <2>2. \A m \in Net : txn[m] <= txn'[m]
    <3>1. txn'[n] = txn[n] + 1
      BY <1>4, SentForm
    <3>2. \A m \in Net \ {n} : txn'[m] = txn[m]
      BY <1>4, SentForm
    <3>3. QED
      BY <1>1, <3>1, <3>2
  <2>3. QED
    BY <1>3, <1>4, <2>1, <2>2
<1>5. ASSUME NEW n \in Net, NEW from \in Net, Next, Hears(n, from)
      PROVE  AirTypes' /\ lost <= lost' /\ \A m \in Net : txn[m] <= txn'[m]
  <2>1. PICK S : /\ air' \in [Net -> [Net -> Seq(S)]]
                 /\ \A set \in S : set.transaction_id \in Nat
                 /\ Heard(n, from) \in S
    BY <1>5, TakenForm DEF Hears
  <2>2. PICK id \in Nat : id = Heard(n, from).transaction_id
    BY <2>1
  <2>3. UNCHANGED txn \/ (txn' = [txn EXCEPT ![n] = id] /\ id > txn[n])
    BY <1>5, <2>2 DEF Hears
  <2>4. txn' \in [Net -> Nat] /\ \A m \in Net : txn[m] <= txn'[m]
    BY <1>1, <2>3
  <2>5. AirTypes'
    BY <1>3, <1>5, <2>1, <2>4 DEF AirTypes
  <2>6. QED
    BY <1>3, <1>5, <2>4, <2>5
<1>6. CASE TablesStep
  BY <1>2, <1>6 DEF TablesStep, msg_vars
<1>7. ASSUME Next, NEW n \in Net, Send(n)
      PROVE  AirTypes' /\ lost <= lost' /\ \A m \in Net : txn[m] <= txn'[m]
  <2>1. lost' = lost
    BY <1>7 DEF Send
  <2>2. QED
    BY <1>2, <1>4, <1>7, <2>1, SendForms
<1>8. CASE UNCHANGED vars
  BY <1>2, <1>8 DEF vars, msg_vars
<1>9. CASE Next
  <2>1. CASE TablesStep
    BY <1>6, <2>1
  <2>2. CASE \E n \in Net : Send(n)
    BY <1>7, <1>9, <2>2
  <2>3. CASE \E n, from \in Net :
               ReceiveSet(n, from) \/ OverhearSet(n, from) \/ IgnoreSet(n, from) \/ LoseSet(n, from)
    <3>1. PICK n \in Net, from \in Net : Hears(n, from)
      BY <2>3, HearForms
    <3>2. QED
      BY <1>5, <1>9, <3>1
  <2>4. QED
    BY <1>9, <2>1, <2>2, <2>3 DEF Next
<1>10. QED
  BY <1>8, <1>9

-----------------------------------------------------------------------------
\* The node that sends takes the next identifier, of which the others have all
\* the earlier ones.
LEMMA SendFollows ==
  ASSUME AirTypes, ~Wrapped', NEW t \in Nat, Followed(t), NEW n \in Net, SendsSet(n)
  PROVE  Sending(n, t)'
<1>1. txn'[n] = txn[n] + 1 /\ txn' \in [Net -> Nat] /\ txn[n] = t
  <2>1. txn'[n] = txn[n] + 1
    BY SentForm
  <2>2. txn' \in [Net -> Nat]
    BY SentForm
  <2>3. QED
    BY <2>1, <2>2 DEF Followed
<1>2. t + 1 < TxnModulo
  <2>1. ~(txn'[n] >= TxnModulo)
    BY DEF Wrapped
  <2>2. TxnModulo \in Nat
    BY ExchangeAssumption
  <2>3. QED
    BY <1>1, <2>1, <2>2
<1>3. (txn[n] + 1) % TxnModulo = t + 1
  BY <1>1, <1>2, Remainders
<1>4. \A a, b \in Net : air[a][b] = <<>>
  BY DEF Followed, NothingOnAir
<1>5. PICK set : /\ set.transaction_id = t + 1
                 /\ \A m \in Net \ {n} : air'[n][m] = Append(air[n][m], set)
  <2>1. \E set : /\ set.transaction_id = (txn[n] + 1) % TxnModulo
                 /\ \A m \in Net \ {n} : air'[n][m] = Append(air[n][m], set)
    BY SentForm
  <2>2. QED
    BY <1>3, <2>1
<1>6. air'[n][n] = <<>>
  BY <1>4, SentForm
<1>7. \A a, b \in Net : a # n => air'[a][b] = <<>>
  <2>1. \A a \in Net \ {n} : air'[a] = air[a]
    BY SentForm
  <2>2. QED
    BY <1>4, <2>1
<1>8. ASSUME NEW m \in Net \ {n}
      PROVE  txn'[m] = t /\ \E s : air'[n][m] = <<s>> /\ s.transaction_id = t + 1
  <2>1. txn'[m] = txn[m]
    BY SentForm
  <2>2. Append(<<>>, set) = <<set>>
    OBVIOUS
  <2>3. air'[n][m] = <<set>>
    BY <1>4, <1>5, <2>2
  <2>4. QED
    BY <1>5, <2>1, <2>3 DEF Followed
<1>9. QED
  BY <1>1, <1>6, <1>7, <1>8 DEF Sending

\* While a SET is on the air, whoever takes it follows.
LEMMA HearFollows ==
  ASSUME AirTypes, NEW t \in Nat, NEW s \in Net, Sending(s, t), NEW n \in Net, NEW from \in Net,
         Take(n, from)
  PROVE  /\ from = s /\ n # s /\ txn[n] = t /\ Heard(n, from).transaction_id = t + 1
         /\ txn' = [txn EXCEPT ![n] = t + 1] => Sending(s, t)'
<1>1. air[from][n] # <<>>
  BY DEF Take
<1>2. from = s /\ n # s
  BY <1>1 DEF Sending
<1>3. txn[n] = t /\ \E set : air[s][n] = <<set>> /\ set.transaction_id = t + 1
  BY <1>1, <1>2 DEF Sending
<1>4. PICK set : air[s][n] = <<set>> /\ set.transaction_id = t + 1
  BY <1>3
<1>5. Head(<<set>>) = set /\ Tail(<<set>>) = <<>>
  OBVIOUS
<1>6. Heard(n, from) = set
  BY <1>2, <1>4, <1>5 DEF Heard
<1>7. air'[s][n] = <<>> /\ \A a, b \in Net : a # s \/ b # n => air'[a][b] = air[a][b]
  <2>1. air'[from][n] = Tail(air[from][n])
    BY TakenForm
  <2>2. \A a, b \in Net : a # from \/ b # n => air'[a][b] = air[a][b]
    BY TakenForm
  <2>3. QED
    BY <1>2, <1>4, <1>5, <2>1, <2>2
<1>8. ASSUME txn' = [txn EXCEPT ![n] = t + 1] PROVE Sending(s, t)'
  <2>1. txn'[n] = t + 1 /\ \A m \in Net \ {n} : txn'[m] = txn[m]
    BY <1>8 DEF AirTypes
  <2>2. txn'[s] = t + 1 /\ air'[s][s] = <<>>
    BY <1>2, <1>7, <2>1 DEF Sending
  <2>3. \A a, b \in Net : a # s => air'[a][b] = <<>>
    BY <1>7 DEF Sending
  <2>4. ASSUME NEW m \in Net \ {s}
        PROVE  \/ air'[s][m] = <<>> /\ txn'[m] = t + 1
               \/ txn'[m] = t /\ \E x : air'[s][m] = <<x>> /\ x.transaction_id = t + 1
    <3>1. CASE m = n
      BY <3>1, <1>7, <2>1
    <3>2. CASE m # n
      <4>1. air'[s][m] = air[s][m] /\ txn'[m] = txn[m]
        BY <3>2, <1>7, <2>1
      <4>2. QED
        BY <4>1 DEF Sending
    <3>3. QED
      BY <3>1, <3>2
  <2>5. QED
    BY <2>2, <2>3, <2>4 DEF Sending
<1>9. QED
  BY <1>2, <1>3, <1>4, <1>6, <1>8

\* No SET is heard that is not new.
LEMMA NothingIgnored ==
  ASSUME AirTypes, TransactionsInv, lost = 0, ~Wrapped, NEW n \in Net, NEW from \in Net
  PROVE  ~IgnoreSet(n, from)
<1>. SUFFICES ASSUME IgnoreSet(n, from) PROVE FALSE
  OBVIOUS
<1>1. PICK t \in Nat : Followed(t) \/ \E s \in Net : Sending(s, t)
  BY DEF TransactionsInv
<1>2. Take(n, from) /\ ~(Heard(n, from).transaction_id > txn[n])
  BY DEF IgnoreSet, IsNewTransaction
<1>3. air[from][n] # <<>>
  BY <1>2 DEF Take
<1>4. PICK s \in Net : Sending(s, t)
  BY <1>1, <1>3 DEF Followed, NothingOnAir
<1>5. txn[n] = t /\ Heard(n, from).transaction_id = t + 1
  BY <1>2, <1>4, HearFollows
<1>6. t + 1 > t
  OBVIOUS
<1>7. QED
  BY <1>2, <1>5, <1>6

LEMMA TransactionsStepKeeps ==
  ASSUME Quiet, AirTypes, TransactionsInv, [Next]_vars
  PROVE  TransactionsInv'
<1>. SUFFICES ASSUME lost' = 0, ~Wrapped'
              PROVE  \E t \in Nat : Followed(t)' \/ \E s \in Net : Sending(s, t)'
  BY DEF TransactionsInv
<1>1. lost = 0 /\ lost \in Nat
  <2>1. lost \in Nat /\ lost <= lost'
    BY AirStepKeeps DEF AirTypes
  <2>2. QED
    BY <2>1
<1>2. ~Wrapped
  <2>1. ASSUME NEW n \in Net, txn[n] >= TxnModulo PROVE FALSE
    <3>1. txn[n] \in Nat /\ txn'[n] \in Nat /\ txn[n] <= txn'[n] /\ TxnModulo \in Nat
      BY AirStepKeeps, ExchangeAssumption DEF AirTypes
    <3>2. txn'[n] >= TxnModulo
      BY <2>1, <3>1
    <3>3. QED
      BY <3>2 DEF Wrapped
  <2>2. QED
    BY <2>1 DEF Wrapped
<1>3. PICK t \in Nat : Followed(t) \/ \E s \in Net : Sending(s, t)
  BY <1>1, <1>2 DEF TransactionsInv
<1>4. CASE UNCHANGED <<txn, air>>
  BY <1>3, <1>4 DEF Followed, NothingOnAir, Sending
<1>5. ASSUME NEW n \in Net, Send(n), SendsSet(n)
      PROVE  \E u \in Nat : Sending(n, u)'
  <2>1. NothingOnAir
    BY <1>5 DEF Send
  <2>2. PICK u \in Nat : Followed(u)
    <3>1. CASE Followed(t)
      BY <3>1
    <3>2. ASSUME NEW s \in Net, Sending(s, t) PROVE Followed(t + 1)
      <4>1. ASSUME NEW m \in Net PROVE txn[m] = t + 1
        <5>1. \A set : <<>> # <<set>>
          OBVIOUS
        <5>2. air[s][m] = <<>>
          BY <2>1 DEF NothingOnAir
        <5>3. QED
          BY <3>2, <5>1, <5>2 DEF Sending
      <4>2. QED
        BY <2>1, <4>1 DEF Followed
    <3>3. t + 1 \in Nat
      OBVIOUS
    <3>4. QED
      BY <1>3, <3>1, <3>2, <3>3
  <2>3. QED
    BY <1>5, <2>2, SendFollows
<1>7. ASSUME NEW n \in Net, NEW from \in Net, ReceiveSet(n, from) \/ OverhearSet(n, from)
      PROVE  \E s \in Net : Sending(s, t)'
  <2>1. Take(n, from) /\ txn' = [txn EXCEPT ![n] = Heard(n, from).transaction_id]
    BY <1>7 DEF ReceiveSet, OverhearSet, KeptTransaction
  <2>2. air[from][n] # <<>>
    BY <2>1 DEF Take
  <2>3. PICK s \in Net : Sending(s, t)
    BY <1>3, <2>2 DEF Followed, NothingOnAir
  <2>4. Heard(n, from).transaction_id = t + 1
    BY <2>1, <2>3, HearFollows
  <2>5. txn' = [txn EXCEPT ![n] = t + 1]
    BY <2>1, <2>4
  <2>6. Sending(s, t)'
    BY <2>1, <2>3, <2>5, HearFollows
  <2>7. QED
    BY <2>6
<1>8. ASSUME NEW n \in Net, NEW from \in Net, LoseSet(n, from) PROVE FALSE
  <2>1. lost' = lost + 1
    BY <1>8 DEF LoseSet
  <2>2. QED
    BY <1>1, <2>1
<1>9. CASE Next
  <2>1. CASE TablesStep
    BY <1>4, <2>1 DEF TablesStep, msg_vars
  <2>2. ASSUME NEW n \in Net, Send(n)
        PROVE  \E u \in Nat : Followed(u)' \/ \E s \in Net : Sending(s, u)'
    BY <1>4, <1>5, <2>2, SendForms
  <2>3. ASSUME NEW n \in Net, NEW from \in Net, ReceiveSet(n, from) \/ OverhearSet(n, from)
        PROVE  \E u \in Nat : Followed(u)' \/ \E s \in Net : Sending(s, u)'
    BY <1>7, <2>3
  <2>4. ASSUME NEW n \in Net, NEW from \in Net, IgnoreSet(n, from) \/ LoseSet(n, from) PROVE FALSE
    BY <1>1, <1>2, <1>8, <2>4, NothingIgnored
  <2>5. QED
    BY <1>9, <2>1, <2>2, <2>3, <2>4 DEF Next
<1>10. CASE UNCHANGED vars
  BY <1>4, <1>10 DEF vars, msg_vars
<1>11. QED
  BY <1>9, <1>10

\* If messages are sent one at a time, then as long as no SET was lost and no
\* identifier wrapped, no node ignores a SET that is meant for it: each follows
\* the one sequence of identifiers that all nodes share, as it keeps also those of
\* messages for others (luos_msg_model_set_cb).
THEOREM IdentifiersStayAccepted ==
  ASSUME Quiet
  PROVE  Spec => MessagesAccepted
<1>1. ExchangeInit => AirTypes /\ TransactionsInv
  <2>. SUFFICES ASSUME ExchangeInit PROVE AirTypes /\ TransactionsInv
    OBVIOUS
  <2>1. /\ txn = [n \in Net |-> 0] /\ air = [n \in Net |-> [m \in Net |-> <<>>]] /\ lost = 0
    BY DEF ExchangeInit
  <2>2. air \in [Net -> [Net -> Seq({})]]
    BY <2>1
  <2>3. AirTypes
    <3>1. \E S : air \in [Net -> [Net -> Seq(S)]] /\ \A set \in S : set.transaction_id \in Nat
      <4>1. \A set \in {} : set.transaction_id \in Nat
        OBVIOUS
      <4>2. QED
        BY <2>2, <4>1
    <3>2. txn \in [Net -> Nat] /\ lost \in Nat
      BY <2>1
    <3>3. QED
      BY <3>1, <3>2 DEF AirTypes
  <2>4. Followed(0)
    BY <2>1 DEF Followed, NothingOnAir
  <2>5. QED
    BY <2>3, <2>4 DEF TransactionsInv
<1>2. AirTypes /\ TransactionsInv /\ [Next]_vars => (AirTypes /\ TransactionsInv)'
  BY AirStepKeeps, TransactionsStepKeeps
<1>3. ASSUME AirTypes, TransactionsInv, NEW n \in Net, NEW from \in Net,
             IgnoreSet(n, from), lost = 0, ~Wrapped
      PROVE  Heard(n, from).dst_addr # n
  BY <1>3, NothingIgnored
<1>4. AirTypes /\ TransactionsInv /\ [Next]_vars
        => [\A n, from \in Net :
              IgnoreSet(n, from) /\ lost = 0 /\ ~Wrapped => Heard(n, from).dst_addr # n]_vars
  BY <1>3
<1>5. QED
  BY <1>1, <1>2, <1>4, PTL DEF Spec, MessagesAccepted

-----------------------------------------------------------------------------
\* No container or instance has two local IDs in a network at rest.

LEMMA JoinedDistinct ==
  ASSUME NEW S, NEW s \in Seq(S), NEW t \in Seq(S), IsInjective(s), IsInjective(t),
         \A i \in DOMAIN s : \A j \in DOMAIN t : s[i] # t[j]
  PROVE  IsInjective(s \o t)
<1>. DEFINE b == Len(s)  o == Len(t)  joined == s \o t
<1>1. /\ b \in Nat /\ o \in Nat /\ DOMAIN s = 1 .. b /\ DOMAIN t = 1 .. o
      /\ DOMAIN joined = 1 .. b + o
  OBVIOUS
<1>2. ASSUME NEW k \in 1 .. b PROVE joined[k] = s[k]
  OBVIOUS
<1>3. ASSUME NEW k \in 1 .. b + o, ~(k <= b) PROVE joined[k] = t[k - b] /\ k - b \in 1 .. o
  BY <1>1, <1>3
<1>. HIDE DEF joined, b, o
<1>4. ASSUME NEW i \in 1 .. b + o, NEW j \in 1 .. b + o, joined[i] = joined[j] PROVE i = j
  <2>1. CASE i <= b /\ j <= b
    <3>1. i \in 1 .. b /\ j \in 1 .. b
      BY <2>1, <1>1
    <3>2. s[i] = s[j]
      BY <3>1, <1>2, <1>4
    <3>3. QED
      BY <3>1, <3>2, <1>1 DEF IsInjective
  <2>2. CASE ~(i <= b) /\ ~(j <= b)
    <3>1. t[i - b] = t[j - b] /\ i - b \in 1 .. o /\ j - b \in 1 .. o
      BY <2>2, <1>3, <1>4
    <3>2. i - b = j - b
      BY <3>1, <1>1 DEF IsInjective
    <3>3. QED
      BY <3>2, <1>1
  <2>3. CASE i <= b /\ ~(j <= b)
    <3>1. i \in 1 .. b /\ j - b \in 1 .. o
      BY <2>3, <1>1, <1>3
    <3>2. s[i] = t[j - b]
      BY <2>3, <3>1, <1>2, <1>3, <1>4
    <3>3. QED
      BY <3>1, <3>2, <1>1
  <2>4. CASE ~(i <= b) /\ j <= b
    <3>1. j \in 1 .. b /\ i - b \in 1 .. o
      BY <2>4, <1>1, <1>3
    <3>2. s[j] = t[i - b]
      BY <2>4, <3>1, <1>2, <1>3, <1>4
    <3>3. QED
      BY <3>1, <3>2, <1>1
  <2>5. QED
    BY <2>1, <2>2, <2>3, <2>4
<1>5. QED
  BY <1>1, <1>4 DEF IsInjective, joined

\* The boards of a network have no container in common.
LEMMA BoardsAreDistinct ==
  ASSUME NEW n \in Net
  PROVE  /\ IsInjective(BridgeBoard[n]) /\ IsInjective(OtherBoard[n])
         /\ \A i \in DOMAIN BridgeBoard[n] : \A j \in DOMAIN OtherBoard[n] :
              BridgeBoard[n][i] # OtherBoard[n][j]
<1>. DEFINE s == BridgeBoard[n]  t == OtherBoard[n]  b == Len(s)  o == Len(t)  joined == s \o t
<1>1. /\ s \in Seq(Container) /\ t \in Seq(Container) /\ b \in Nat /\ o \in Nat
      /\ DOMAIN s = 1 .. b /\ DOMAIN t = 1 .. o
  BY TablesAssumptionUsed
<1>2. IsInjective(joined)
  BY TablesAssumption
<1>. HIDE DEF s, t
<1>3. /\ DOMAIN joined = 1 .. b + o
      /\ \A k \in 1 .. b : joined[k] = s[k]
      /\ \A k \in 1 .. o : joined[b + k] = t[k]
  BY <1>1
<1>. HIDE DEF b, o, joined
<1>4. \A k \in 1 .. b : k \in 1 .. b + o
  BY <1>1
<1>5. \A k \in 1 .. o : b + k \in 1 .. b + o
  BY <1>1
<1>6. IsInjective(s)
  BY <1>1, <1>2, <1>3, <1>4 DEF IsInjective
<1>7. ASSUME NEW i \in 1 .. o, NEW j \in 1 .. o, t[i] = t[j] PROVE i = j
  <2>1. joined[b + i] = joined[b + j]
    BY <1>3, <1>7
  <2>2. b + i = b + j
    BY <2>1, <1>2, <1>3, <1>5 DEF IsInjective
  <2>3. QED
    BY <2>2, <1>1
<1>8. ASSUME NEW i \in 1 .. b, NEW j \in 1 .. o PROVE s[i] # t[j]
  <2>1. i # b + j
    BY <1>1
  <2>2. joined[i] # joined[b + j]
    BY <2>1, <1>2, <1>3, <1>4, <1>5 DEF IsInjective
  <2>3. QED
    BY <2>2, <1>3
<1>9. IsInjective(t)
  BY <1>1, <1>7 DEF IsInjective
<1>10. QED
  BY <1>1, <1>6, <1>8, <1>9 DEF s, t

LEMMA DetectedDistinct ==
  ASSUME TablesTypes, NEW n \in Net, Single(n)
  PROVE  IsInjective(DetectedFromBridge(n)) /\ IsInjective(DetectedFromOther(n))
<1>. DEFINE s == BridgeBoard[n]  t == OtherBoard[n]  u == Instances(n)  All == Container \cup Instance
<1>1. s \in Seq(Container) /\ t \in Seq(Container)
  BY TablesAssumptionUsed
<1>2. /\ u \in Seq(Instance) /\ Len(u) = Len(remote_table[n])
      /\ \A k \in 1 .. Len(remote_table[n]) : u[k] = remote_table[n][k].local_instance
  BY InstancesAreTyped
<1>3. remote_table[n] \in Seq(RemoteEntry)
  BY DEF TablesTypes
<1>4. DOMAIN u = 1 .. Len(remote_table[n]) /\ DOMAIN remote_table[n] = 1 .. Len(remote_table[n])
  BY <1>2, <1>3
<1>5. IsInjective(u)
  BY <1>2, <1>4 DEF Single, IsInjective
<1>6. IsInjective(s) /\ IsInjective(t) /\ \A i \in DOMAIN s : \A j \in DOMAIN t : s[i] # t[j]
  BY BoardsAreDistinct
<1>7. Container \cap Instance = {}
  BY TablesAssumption DEF Instance
<1>8. DetectedFromBridge(n) = (s \o u) \o t /\ DetectedFromOther(n) = (t \o s) \o u
  BY DEF DetectedFromBridge, DetectedFromOther
<1>. HIDE DEF s, t, u
<1>9. /\ \A i \in DOMAIN s : s[i] \in Container
      /\ \A i \in DOMAIN t : t[i] \in Container
      /\ \A i \in DOMAIN u : u[i] \in Instance
  BY <1>1, <1>2
<1>10. s \in Seq(All) /\ t \in Seq(All) /\ u \in Seq(All)
  BY <1>1, <1>2
<1>. HIDE DEF All
<1>11. s \o u \in Seq(All) /\ t \o s \in Seq(All)
  BY <1>10
<1>12. IsInjective(s \o u) /\ IsInjective(t \o s)
  <2>1. \A i \in DOMAIN s : \A j \in DOMAIN u : s[i] # u[j]
    BY <1>7, <1>9
  <2>2. \A i \in DOMAIN t : \A j \in DOMAIN s : t[i] # s[j]
    BY <1>6
  <2>3. IsInjective(s \o u)
    BY <1>5, <1>6, <1>10, <2>1, JoinedDistinct
  <2>4. IsInjective(t \o s)
    BY <1>6, <1>10, <2>2, JoinedDistinct
  <2>5. QED
    BY <2>3, <2>4
<1>13. \A i \in DOMAIN (s \o u) : (\E k \in DOMAIN s : (s \o u)[i] = s[k]) \/ (s \o u)[i] \in Instance
  <2>1. TAKE i \in DOMAIN (s \o u)
  <2>2. i \in 1 .. Len(s) + Len(u) /\ Len(s) \in Nat /\ Len(u) \in Nat
    BY <1>10
  <2>3. CASE i <= Len(s)
    BY <1>10, <2>2, <2>3
  <2>4. CASE ~(i <= Len(s))
    <3>1. i - Len(s) \in DOMAIN u /\ (s \o u)[i] = u[i - Len(s)]
      BY <1>10, <2>2, <2>4
    <3>2. QED
      BY <1>9, <3>1
  <2>5. QED
    BY <2>3, <2>4
<1>14. \A i \in DOMAIN (t \o s) : (t \o s)[i] \in Container
  <2>1. t \o s \in Seq(Container)
    BY <1>1 DEF s, t
  <2>2. QED
    BY <2>1
<1>15. \A i \in DOMAIN (s \o u) : \A j \in DOMAIN t : (s \o u)[i] # t[j]
  BY <1>6, <1>7, <1>9, <1>13
<1>16. \A i \in DOMAIN (t \o s) : \A j \in DOMAIN u : (t \o s)[i] # u[j]
  BY <1>7, <1>9, <1>14
<1>17. IsInjective((s \o u) \o t)
  BY <1>6, <1>10, <1>11, <1>12, <1>15, JoinedDistinct
<1>18. IsInjective((t \o s) \o u)
  BY <1>5, <1>10, <1>11, <1>12, <1>16, JoinedDistinct
<1>19. QED
  BY <1>8, <1>17, <1>18

LEMMA LocalIDsDistinct ==
  ASSUME TablesInv, NEW n \in Net, state[n] = "IDLE"
  PROVE  IsInjective(rtb[n])
<1>1. rtb[n] = DetectedFromBridge(n) \/ rtb[n] = DetectedFromOther(n)
  BY DEF TablesInv, NetworkForm, RtbForm
<1>2. IsInjective(DetectedFromBridge(n)) /\ IsInjective(DetectedFromOther(n))
  BY DetectedDistinct DEF TablesInv, NetworkForm
<1>3. QED
  BY <1>1, <1>2

-----------------------------------------------------------------------------
\* A look-up finds an entry if there is one that matches.
LEMMA FirstFound ==
  ASSUME NEW l \in Nat, NEW I \in SUBSET (1 .. l), NEW k \in I
  PROVE  (IF I # {} THEN Min(I) ELSE 0) \in I
  BY FirstPosition

LEMMA LocalFound ==
  ASSUME NEW n \in Net, local_table[n] \in Seq(LocalEntry), NEW id,
         NEW k \in DOMAIN local_table[n], local_table[n][k].local_id = id
  PROVE  /\ LocalIndex(n, id) \in DOMAIN local_table[n]
         /\ local_table[n][LocalIndex(n, id)].local_id = id
<1>. DEFINE I == {i \in 1 .. Len(local_table[n]) : local_table[n][i].local_id = id}
<1>1. LocalIndex(n, id) = IF I # {} THEN Min(I) ELSE 0
  BY DEF LocalIndex, SelectInSeq
<1>2. I \in SUBSET (1 .. Len(local_table[n])) /\ k \in I
      /\ Len(local_table[n]) \in Nat /\ DOMAIN local_table[n] = 1 .. Len(local_table[n])
  OBVIOUS
<1>. HIDE DEF I
<1>3. LocalIndex(n, id) \in I
  BY <1>1, <1>2, FirstFound
<1>4. QED
  BY <1>2, <1>3 DEF I

LEMMA ExposedFound ==
  ASSUME NEW n \in Net, local_table[n] \in Seq(LocalEntry), NEW id,
         NEW k \in DOMAIN local_table[n], local_table[n][k].id = id
  PROVE  /\ ExposedIndex(n, id) \in DOMAIN local_table[n]
         /\ local_table[n][ExposedIndex(n, id)].id = id
<1>. DEFINE I == {i \in 1 .. Len(local_table[n]) : local_table[n][i].id = id}
<1>1. ExposedIndex(n, id) = IF I # {} THEN Min(I) ELSE 0
  BY DEF ExposedIndex, SelectInSeq
<1>2. I \in SUBSET (1 .. Len(local_table[n])) /\ k \in I
      /\ Len(local_table[n]) \in Nat /\ DOMAIN local_table[n] = 1 .. Len(local_table[n])
  OBVIOUS
<1>. HIDE DEF I
<1>3. ExposedIndex(n, id) \in I
  BY <1>1, <1>2, FirstFound
<1>4. QED
  BY <1>2, <1>3 DEF I

LEMMA RemoteFound ==
  ASSUME NEW n \in Net, remote_table[n] \in Seq(RemoteEntry), NEW id,
         NEW k \in DOMAIN remote_table[n], remote_table[n][k].local_id = id
  PROVE  /\ RemoteIndex(n, id) \in DOMAIN remote_table[n]
         /\ remote_table[n][RemoteIndex(n, id)].local_id = id
<1>. DEFINE I == {i \in 1 .. Len(remote_table[n]) : remote_table[n][i].local_id = id}
<1>1. RemoteIndex(n, id) = IF I # {} THEN Min(I) ELSE 0
  BY DEF RemoteIndex, SelectInSeq
<1>2. I \in SUBSET (1 .. Len(remote_table[n])) /\ k \in I
      /\ Len(remote_table[n]) \in Nat /\ DOMAIN remote_table[n] = 1 .. Len(remote_table[n])
  OBVIOUS
<1>. HIDE DEF I
<1>3. RemoteIndex(n, id) \in I
  BY <1>1, <1>2, FirstFound
<1>4. QED
  BY <1>2, <1>3 DEF I

LEMMA SourceFound ==
  ASSUME NEW n \in Net, remote_table[n] \in Seq(RemoteEntry), NEW addr, NEW id,
         NEW k \in DOMAIN remote_table[n], remote_table[n][k].node_addr = addr /\ remote_table[n][k].id = id
  PROVE  /\ SourceIndex(n, addr, id) \in DOMAIN remote_table[n]
         /\ remote_table[n][SourceIndex(n, addr, id)].node_addr = addr /\ remote_table[n][SourceIndex(n, addr, id)].id = id
<1>. DEFINE I == {i \in 1 .. Len(remote_table[n]) : remote_table[n][i].node_addr = addr /\ remote_table[n][i].id = id}
<1>1. SourceIndex(n, addr, id) = IF I # {} THEN Min(I) ELSE 0
  BY DEF SourceIndex, SelectInSeq
<1>2. I \in SUBSET (1 .. Len(remote_table[n])) /\ k \in I
      /\ Len(remote_table[n]) \in Nat /\ DOMAIN remote_table[n] = 1 .. Len(remote_table[n])
  OBVIOUS
<1>. HIDE DEF I
<1>3. SourceIndex(n, addr, id) \in I
  BY <1>1, <1>2, FirstFound
<1>4. QED
  BY <1>2, <1>3 DEF I

\* The remote container behind an instance is that of its only entry.
LEMMA BehindFound ==
  ASSUME NEW n \in Net, remote_table[n] \in Seq(RemoteEntry), Single(n),
         NEW k \in DOMAIN remote_table[n]
  PROVE  Behind(n, remote_table[n][k].local_instance) = remote_table[n][k].container
<1>. DEFINE I == {i \in 1 .. Len(remote_table[n]) :
                    remote_table[n][i].local_instance = remote_table[n][k].local_instance}
            b == IF I # {} THEN Min(I) ELSE 0
<1>1. Behind(n, remote_table[n][k].local_instance) = remote_table[n][b].container
  BY DEF Behind, SelectInSeq
<1>2. I \in SUBSET (1 .. Len(remote_table[n])) /\ k \in I
      /\ Len(remote_table[n]) \in Nat /\ DOMAIN remote_table[n] = 1 .. Len(remote_table[n])
  OBVIOUS
<1>3. \A i \in I : i = k
  BY <1>2 DEF Single
<1>. HIDE DEF I
<1>4. b \in I
  BY <1>2, FirstFound
<1>5. QED
  BY <1>1, <1>3, <1>4

-----------------------------------------------------------------------------
\* The receiver of a SET has its source among the entries of the sender and
\* its target among its own.
SetGood(n, set) ==
  LET d == set.dst_addr
  IN /\ d \in Net
     /\ \E s, t : /\ set.msg.ends = [source |-> s, target |-> t]
                  /\ <<n, set.msg.source, s>> \in Held(d)
                  /\ <<d, set.msg.target, t>> \in Exposes(d)

MessagesInv ==
  /\ asserted # "not_found" /\ arrived.sent = arrived.got
  /\ NothingOnAir \/ \A n \in Net : AtRest(n)
  /\ \A n, m \in Net : \A k \in DOMAIN air[n][m] : SetGood(n, air[n][m][k])

\* Both look-ups of a sender find an entry, and the right one.
LEMMA SourceIsExposed ==
  ASSUME TablesInv, NEW n \in Net, AtRest(n), NEW id \in DOMAIN rtb[n],
         rtb[n][id] \in {local_table[n][i].container : i \in DOMAIN local_table[n]}
  PROVE  /\ LocalIndex(n, id) \in DOMAIN local_table[n]
         /\ <<n, local_table[n][LocalIndex(n, id)].id, rtb[n][id]>> \in Exposes(n)
<1>1. /\ local_table[n] \in Seq(LocalEntry) /\ LocalForm(n)
      /\ state[n] = "IDLE"
  BY DEF TablesInv, TablesTypes, NetworkForm, AtRest
<1>2. \A i \in DOMAIN local_table[n] :
        /\ local_table[n][i].local_id \in DOMAIN rtb[n]
        /\ rtb[n][local_table[n][i].local_id] = local_table[n][i].container
  BY AtRestResolved DEF TablesResolve
<1>3. IsInjective(rtb[n])
  BY <1>1, LocalIDsDistinct
<1>4. PICK i \in DOMAIN local_table[n] : local_table[n][i].container = rtb[n][id]
  OBVIOUS
<1>5. local_table[n][i].local_id = id
  BY <1>2, <1>3, <1>4 DEF IsInjective
<1>6. /\ LocalIndex(n, id) \in DOMAIN local_table[n]
      /\ local_table[n][LocalIndex(n, id)].local_id = id
  BY <1>1, <1>5, LocalFound
<1>7. PICK l \in DOMAIN local_table[n] : l = LocalIndex(n, id)
  BY <1>6
<1>8. local_table[n][l].container = rtb[n][id] /\ local_table[n][l].id = l - 1
  BY <1>1, <1>2, <1>6, <1>7 DEF LocalForm
<1>9. <<n, local_table[n][l].id, rtb[n][id]>> \in Exposes(n)
  BY <1>8 DEF Exposes
<1>10. QED
  BY <1>7, <1>9

LEMMA TargetIsHeld ==
  ASSUME TablesInv, NEW n \in Net, AtRest(n), NEW id \in DOMAIN rtb[n],
         rtb[n][id] \in Range(Instances(n))
  PROVE  /\ RemoteIndex(n, id) \in DOMAIN remote_table[n]
         /\ <<remote_table[n][RemoteIndex(n, id)].node_addr,
              remote_table[n][RemoteIndex(n, id)].id, Behind(n, rtb[n][id])>> \in Held(n)
<1>1. /\ remote_table[n] \in Seq(RemoteEntry) /\ Single(n)
      /\ state[n] = "IDLE"
  BY DEF TablesInv, TablesTypes, NetworkForm, AtRest
<1>2. \A k \in DOMAIN remote_table[n] :
        /\ remote_table[n][k].local_id \in DOMAIN rtb[n]
        /\ rtb[n][remote_table[n][k].local_id] = remote_table[n][k].local_instance
  BY AtRestResolved DEF TablesResolve
<1>3. IsInjective(rtb[n])
  BY <1>1, LocalIDsDistinct
<1>4. PICK k \in DOMAIN remote_table[n] : remote_table[n][k].local_instance = rtb[n][id]
  BY DEF Range, Instances
<1>5. remote_table[n][k].local_id = id
  BY <1>2, <1>3, <1>4 DEF IsInjective
<1>6. /\ RemoteIndex(n, id) \in DOMAIN remote_table[n]
      /\ remote_table[n][RemoteIndex(n, id)].local_id = id
  BY <1>1, <1>5, RemoteFound
<1>7. PICK r \in DOMAIN remote_table[n] : r = RemoteIndex(n, id)
  BY <1>6
<1>8. remote_table[n][r].local_instance = rtb[n][id]
  BY <1>2, <1>6, <1>7
<1>9. Behind(n, rtb[n][id]) = remote_table[n][r].container
  <2>1. Behind(n, remote_table[n][r].local_instance) = remote_table[n][r].container
    BY <1>1, BehindFound
  <2>2. QED
    BY <1>8, <2>1
<1>10. <<remote_table[n][r].node_addr, remote_table[n][r].id, Behind(n, rtb[n][id])>> \in Held(n)
  BY <1>9 DEF Held
<1>11. QED
  BY <1>7, <1>10

\* Who has an entry of a network is known to it, with all it exposes.
LEMMA SetIsGood ==
  ASSUME TablesInv, KnowledgeInv, \A m \in Net : AtRest(m), NEW n \in Net,
         NEW set, NEW s, NEW t, set.msg.ends = [source |-> s, target |-> t],
         <<n, set.msg.source, s>> \in Exposes(n),
         <<set.dst_addr, set.msg.target, t>> \in Held(n)
  PROVE  SetGood(n, set)
<1>1. \A m \in Net : state[m] = "IDLE"
  BY DEF AtRest
<1>2. PICK h \in Held(n) : h = <<set.dst_addr, set.msg.target, t>>
  OBVIOUS
<1>3. h[1] = set.dst_addr /\ h[1] \in Net
  BY <1>2, HeldAreOthers
<1>4. PICK d \in Net : d = set.dst_addr /\ d = h[1]
  BY <1>3
<1>5. h \in Exposes(d)
  BY <1>4 DEF KnowledgeInv, Genuine
<1>6. KnowsOf(n, d)
  BY <1>4 DEF KnowsOf
<1>7. Knows(d, n)
  BY <1>1, <1>6, KnownAtRest
<1>8. <<n, set.msg.source, s>> \in Held(d)
  BY <1>7 DEF Knows
<1>9. QED
  BY <1>2, <1>4, <1>5, <1>8 DEF SetGood

-----------------------------------------------------------------------------
SendsGood(n) ==
  \E set : /\ SetGood(n, set)
           /\ air' = [air EXCEPT ![n] = [m \in Net |-> IF m = n THEN air[n][m]
                                                               ELSE Append(air[n][m], set)]]

\* A container that is not exposed has no entry.
LEMMA SourceIsMissing ==
  ASSUME TablesInv, NEW n \in Net, AtRest(n), NEW id \in DOMAIN rtb[n],
         rtb[n][id] \notin Exposed(n)
  PROVE  LocalIndex(n, id) = 0
<1>1. \A k \in DOMAIN local_table[n] :
        rtb[n][local_table[n][k].local_id] = local_table[n][k].container
  BY AtRestResolved DEF TablesResolve
<1>2. \A k \in DOMAIN local_table[n] : local_table[n][k].local_id # id
  BY <1>1 DEF Exposed
<1>3. local_table[n] \in Seq(LocalEntry)
  BY DEF TablesInv, TablesTypes
<1>4. DOMAIN local_table[n] = 1 .. Len(local_table[n])
  BY <1>3
<1>5. QED
  BY <1>2, <1>4 DEF LocalIndex, SelectInSeq

\* What a sender does, with the containers at both ends.
SendsFrom(n, s, t, local, remote) ==
  IF local = 0 \/ remote = 0
  THEN /\ asserted' = IF local = 0 /\ s \notin Exposed(n) THEN "not_exposed" ELSE "not_found"
       /\ UNCHANGED <<txn, air>>
  ELSE /\ SetSend(n, SetCommand(n, remote_table[n][remote].node_addr,
                       MeshMsg(local_table[n][local].id, remote_table[n][remote].id,
                               [source |-> s, target |-> t])))
       /\ UNCHANGED asserted

LEMMA SendIsGood ==
  ASSUME TablesInv, KnowledgeInv, Quiet, NEW n \in Net, Send(n)
  PROVE  \/ SendsGood(n) /\ asserted' = asserted
         \/ UNCHANGED air /\ asserted' = "not_exposed"
<1>1. \A m \in Net : AtRest(m)
  BY DEF Send
<1>2. PICK src_id \in DOMAIN rtb[n], target_id \in DOMAIN rtb[n] :
        /\ rtb[n][target_id] \in Range(Instances(n))
        /\ SendsFrom(n, rtb[n][src_id], Behind(n, rtb[n][target_id]),
                     LocalIndex(n, src_id), RemoteIndex(n, target_id))
  BY DEF Send, SendsFrom
<1>3. PICK s : s = rtb[n][src_id]
  OBVIOUS
<1>4. PICK t : t = Behind(n, rtb[n][target_id])
  OBVIOUS
<1>5. CASE s \notin Exposed(n)
  <2>1. LocalIndex(n, src_id) = 0
    BY <1>1, <1>3, <1>5, SourceIsMissing
  <2>2. QED
    BY <1>2, <1>3, <1>5, <2>1 DEF SendsFrom
<1>6. CASE s \in Exposed(n)
  <2>1. /\ LocalIndex(n, src_id) \in DOMAIN local_table[n]
        /\ <<n, local_table[n][LocalIndex(n, src_id)].id, s>> \in Exposes(n)
    BY <1>1, <1>3, <1>6, SourceIsExposed DEF Exposed
  <2>2. /\ RemoteIndex(n, target_id) \in DOMAIN remote_table[n]
        /\ <<remote_table[n][RemoteIndex(n, target_id)].node_addr,
             remote_table[n][RemoteIndex(n, target_id)].id, t>> \in Held(n)
    BY <1>1, <1>2, <1>4, TargetIsHeld
  <2>3. local_table[n] \in Seq(LocalEntry) /\ remote_table[n] \in Seq(RemoteEntry)
    BY DEF TablesInv, TablesTypes
  <2>4. PICK l \in DOMAIN local_table[n] : l = LocalIndex(n, src_id)
    BY <2>1
  <2>5. PICK r \in DOMAIN remote_table[n] : r = RemoteIndex(n, target_id)
    BY <2>2
  <2>6. l # 0 /\ r # 0
    BY <2>3
  <2>7. PICK set : set = SetCommand(n, remote_table[n][r].node_addr,
                          MeshMsg(local_table[n][l].id, remote_table[n][r].id,
                                  [source |-> s, target |-> t]))
    OBVIOUS
  <2>8. SetSend(n, set) /\ UNCHANGED asserted
    BY <1>2, <1>3, <1>4, <2>4, <2>5, <2>6, <2>7 DEF SendsFrom
  <2>9. /\ set.dst_addr = remote_table[n][r].node_addr
        /\ set.msg.source = local_table[n][l].id /\ set.msg.target = remote_table[n][r].id
        /\ set.msg.ends = [source |-> s, target |-> t]
    BY <2>7 DEF SetCommand, MeshMsg
  <2>10. SetGood(n, set)
    BY <1>1, <2>1, <2>2, <2>4, <2>5, <2>9, SetIsGood
  <2>11. air' = [air EXCEPT ![n] = [m \in Net |-> IF m = n THEN air[n][m]
                                                          ELSE Append(air[n][m], set)]]
    BY <2>8 DEF SetSend
  <2>12. QED
    BY <2>8, <2>10, <2>11 DEF SendsGood
<1>7. QED
  BY <1>5, <1>6

\* A receiver finds both containers and the message reaches the right one.
LEMMA ReceiveIsGood ==
  ASSUME TablesInv, \A m \in Net : AtRest(m), NEW n \in Net, NEW from \in Net, ReceiveSet(n, from),
         SetGood(from, Heard(n, from))
  PROVE  asserted' = asserted /\ arrived'.sent = arrived'.got
<1>1. PICK set : set = Heard(n, from)
  OBVIOUS
<1>2. set.dst_addr = n
  BY <1>1 DEF ReceiveSet
<1>3. PICK s, t : /\ set.msg.ends = [source |-> s, target |-> t]
                  /\ <<from, set.msg.source, s>> \in Held(n)
                  /\ <<n, set.msg.target, t>> \in Exposes(n)
  BY <1>1, <1>2 DEF SetGood
<1>4. /\ local_table[n] \in Seq(LocalEntry) /\ LocalForm(n)
      /\ remote_table[n] \in Seq(RemoteEntry) /\ RemoteForm(n) /\ Single(n)
  BY DEF TablesInv, TablesTypes, NetworkForm
<1>5. PICK k \in DOMAIN remote_table[n] :
        /\ remote_table[n][k].node_addr = from /\ remote_table[n][k].id = set.msg.source
        /\ remote_table[n][k].container = s
  BY <1>3 DEF Held
<1>6. PICK j \in DOMAIN local_table[n] : j - 1 = set.msg.target /\ local_table[n][j].container = t
  BY <1>3 DEF Exposes
<1>7. local_table[n][j].id = set.msg.target
  BY <1>4, <1>6 DEF LocalForm
<1>8. /\ SourceIndex(n, from, set.msg.source) \in DOMAIN remote_table[n]
      /\ remote_table[n][SourceIndex(n, from, set.msg.source)].node_addr = from
      /\ remote_table[n][SourceIndex(n, from, set.msg.source)].id = set.msg.source
  BY <1>4, <1>5, SourceFound
<1>9. /\ ExposedIndex(n, set.msg.target) \in DOMAIN local_table[n]
      /\ local_table[n][ExposedIndex(n, set.msg.target)].id = set.msg.target
  BY <1>4, <1>7, ExposedFound
<1>10. PICK p \in DOMAIN remote_table[n] : p = SourceIndex(n, from, set.msg.source)
  BY <1>8
<1>11. PICK q \in DOMAIN local_table[n] : q = ExposedIndex(n, set.msg.target)
  BY <1>9
<1>12. p = k
  <2>1. \A e \in DOMAIN remote_table[n] :
          remote_table[n][e].local_instance = <<remote_table[n][e].node_addr, remote_table[n][e].id>>
    BY <1>4 DEF RemoteForm, Stands
  <2>2. remote_table[n][p].local_instance = remote_table[n][k].local_instance
    BY <2>1, <1>5, <1>8, <1>10
  <2>3. QED
    BY <2>2, <1>4 DEF Single
<1>13. q = j
  <2>1. q - 1 = j - 1
    BY <1>4, <1>6, <1>9, <1>11 DEF LocalForm
  <2>2. q \in Int /\ j \in Int
    BY <1>4
  <2>3. QED
    BY <2>1, <2>2
<1>14. p # 0 /\ q # 0
  BY <1>4
<1>15. rtb[n][local_table[n][q].local_id] = t
  <2>1. rtb[n][local_table[n][q].local_id] = local_table[n][q].container
    BY AtRestResolved DEF TablesResolve
  <2>2. QED
    BY <2>1, <1>6, <1>13
<1>16. Delivered(n, remote_table[n][p], local_table[n][q].local_id) = [source |-> s, target |-> t]
  BY <1>5, <1>12, <1>15 DEF Delivered
<1>17. /\ arrived' = [sent |-> set.msg.ends,
                      got |-> Delivered(n, remote_table[n][p], local_table[n][q].local_id)]
       /\ UNCHANGED asserted
  BY <1>1, <1>10, <1>11, <1>14 DEF ReceiveSet
<1>18. QED
  BY <1>3, <1>16, <1>17

-----------------------------------------------------------------------------
\* SETs stay good while the tables do.
LEMMA GoodStays ==
  ASSUME UNCHANGED tables_vars, NEW n \in Net, NEW set, SetGood(n, set)
  PROVE  SetGood(n, set)'
<1>0. PICK d \in Net : d = set.dst_addr
  BY DEF SetGood
<1>1. PICK s, t : /\ set.msg.ends = [source |-> s, target |-> t]
                  /\ <<n, set.msg.source, s>> \in Held(d)
                  /\ <<d, set.msg.target, t>> \in Exposes(d)
  BY <1>0 DEF SetGood
<1>2. Held(d)' = Held(d) /\ Exposes(d)' = Exposes(d)
  BY DEF tables_vars, Held, Exposes
<1>3. QED
  BY <1>0, <1>1, <1>2 DEF SetGood

\* All that is on the air is good, if each SET that is there is.
LEMMA AllGood ==
  ASSUME asserted' # "not_found", arrived'.sent = arrived'.got, UNCHANGED tables_vars,
         \A n \in Net : AtRest(n),
         \A n, m \in Net : \A k \in DOMAIN air'[n][m] : \E set : set = air'[n][m][k] /\ SetGood(n, set)
  PROVE  MessagesInv'
<1>1. \A n \in Net : AtRest(n)'
  BY DEF tables_vars, AtRest
<1>2. ASSUME NEW n \in Net, NEW m \in Net, NEW k \in DOMAIN air'[n][m]
      PROVE  SetGood(n, air[n][m][k])'
  <2>1. PICK set : set = air'[n][m][k] /\ SetGood(n, set)
    OBVIOUS
  <2>2. SetGood(n, set)'
    BY <2>1, GoodStays
  <2>3. QED
    BY <2>1, <2>2 DEF SetGood
<1>3. QED
  BY <1>1, <1>2 DEF MessagesInv

LEMMA SendKeepsGood ==
  ASSUME TablesInv, KnowledgeInv, AirTypes, MessagesInv, Quiet, NEW n \in Net, Send(n)
  PROVE  MessagesInv'
<1>1. PICK S : air \in [Net -> [Net -> Seq(S)]]
  BY DEF AirTypes
<1>2. /\ UNCHANGED tables_vars /\ UNCHANGED arrived
      /\ \A m \in Net : AtRest(m)
  BY DEF Send
<1>3. CASE UNCHANGED air /\ asserted' = "not_exposed"
  <2>1. \A a, m \in Net : \A k \in DOMAIN air'[a][m] : \E s : s = air'[a][m][k] /\ SetGood(a, s)
    BY <1>3 DEF MessagesInv
  <2>2. asserted' # "not_found" /\ arrived'.sent = arrived'.got
    BY <1>2, <1>3 DEF MessagesInv
  <2>3. QED
    BY <1>2, <2>1, <2>2, AllGood
<1>4. CASE SendsGood(n) /\ asserted' = asserted
  <2>1. PICK set : /\ SetGood(n, set)
                   /\ air' = [air EXCEPT ![n] = [m \in Net |-> IF m = n THEN air[n][m]
                                                                       ELSE Append(air[n][m], set)]]
    BY <1>4 DEF SendsGood
  <2>2. ASSUME NEW a \in Net, NEW m \in Net, NEW k \in DOMAIN air'[a][m]
        PROVE  \E s : s = air'[a][m][k] /\ SetGood(a, s)
    <3>1. CASE a = n /\ m # n
      <4>1. air'[a][m] = Append(air[a][m], set)
        BY <1>1, <2>1, <3>1
      <4>2. air[a][m] \in Seq(S)
        BY <1>1
      <4>3. \/ k \in DOMAIN air[a][m] /\ air'[a][m][k] = air[a][m][k]
            \/ air'[a][m][k] = set
        BY <4>1, <4>2
      <4>4. CASE k \in DOMAIN air[a][m] /\ air'[a][m][k] = air[a][m][k]
        BY <4>4 DEF MessagesInv
      <4>5. QED
        BY <2>1, <3>1, <4>3, <4>4
    <3>2. CASE ~(a = n /\ m # n)
      <4>1. air'[a][m] = air[a][m]
        BY <1>1, <2>1, <3>2
      <4>2. QED
        BY <4>1 DEF MessagesInv
    <3>3. QED
      BY <3>1, <3>2
  <2>3. asserted' # "not_found" /\ arrived'.sent = arrived'.got
    BY <1>2, <1>4 DEF MessagesInv
  <2>4. QED
    BY <1>2, <2>2, <2>3, AllGood
<1>5. QED
  BY <1>3, <1>4, SendIsGood

LEMMA TakeKeepsGood ==
  ASSUME TablesInv, AirTypes, MessagesInv, NEW n \in Net, NEW from \in Net,
         ReceiveSet(n, from) \/ OverhearSet(n, from) \/ IgnoreSet(n, from) \/ LoseSet(n, from)
  PROVE  MessagesInv'
<1>1. PICK S : air \in [Net -> [Net -> Seq(S)]]
  BY DEF AirTypes
<1>2. Take(n, from) /\ UNCHANGED tables_vars
  BY DEF ReceiveSet, OverhearSet, IgnoreSet, LoseSet
<1>3. PICK q \in Seq(S) : q = air[from][n] /\ q # <<>>
  BY <1>1, <1>2 DEF Take
<1>4. \A m \in Net : AtRest(m)
  BY <1>3 DEF MessagesInv, NothingOnAir
<1>5. 1 \in DOMAIN q /\ Head(q) = q[1]
  BY <1>3
<1>6. PICK set : set = q[1] /\ set = Heard(n, from)
  BY <1>3, <1>5 DEF Heard
<1>7. SetGood(from, set)
  BY <1>3, <1>5, <1>6 DEF MessagesInv
<1>8. asserted' # "not_found" /\ arrived'.sent = arrived'.got
  <2>1. CASE ReceiveSet(n, from)
    <3>1. SetGood(from, Heard(n, from))
      BY <1>6, <1>7
    <3>2. QED
      BY <1>4, <2>1, <3>1, ReceiveIsGood DEF MessagesInv
  <2>2. CASE OverhearSet(n, from) \/ IgnoreSet(n, from) \/ LoseSet(n, from)
    BY <2>2 DEF MessagesInv, OverhearSet, IgnoreSet, LoseSet
  <2>3. QED
    BY <2>1, <2>2
<1>9. ASSUME NEW a \in Net, NEW m \in Net, NEW k \in DOMAIN air'[a][m]
      PROVE  \E s : s = air'[a][m][k] /\ SetGood(a, s)
  <2>1. CASE a = from /\ m = n
    <3>1. air'[a][m] = Tail(q)
      BY <1>2, <1>3, <2>1, TakenForm
    <3>2. k + 1 \in DOMAIN q /\ Tail(q)[k] = q[k + 1]
      <4>1. k \in 1 .. Len(Tail(q)) /\ Len(Tail(q)) = Len(q) - 1
        BY <1>3, <3>1
      <4>2. QED
        BY <1>3, <4>1
    <3>3. QED
      BY <1>3, <2>1, <3>1, <3>2 DEF MessagesInv
  <2>2. CASE ~(a = from /\ m = n)
    <3>1. air'[a][m] = air[a][m]
      BY <1>2, <2>2, TakenForm
    <3>2. QED
      BY <3>1 DEF MessagesInv
  <2>3. QED
    BY <2>1, <2>2
<1>10. QED
  BY <1>2, <1>4, <1>8, <1>9, AllGood

LEMMA MessagesStepKeeps ==
  ASSUME TablesInv, KnowledgeInv, AirTypes, MessagesInv, Quiet, [Next]_vars
  PROVE  MessagesInv'
<1>1. CASE TablesStep
  <2>1. NothingOnAir /\ UNCHANGED <<air, arrived, asserted>>
    BY <1>1 DEF TablesStep, msg_vars
  <2>2. NothingOnAir' /\ \A n, m \in Net : air'[n][m] = <<>>
    BY <2>1 DEF NothingOnAir
  <2>3. DOMAIN <<>> = {}
    OBVIOUS
  <2>4. \A n, m \in Net : DOMAIN air'[n][m] = {}
    BY <2>2, <2>3
  <2>5. asserted' # "not_found" /\ arrived'.sent = arrived'.got
    BY <2>1 DEF MessagesInv
  <2>6. QED
    BY <2>2, <2>4, <2>5 DEF MessagesInv
<1>2. ASSUME NEW n \in Net, Send(n) PROVE MessagesInv'
  BY <1>2, SendKeepsGood
<1>3. ASSUME NEW n \in Net, NEW from \in Net,
             ReceiveSet(n, from) \/ OverhearSet(n, from) \/ IgnoreSet(n, from) \/ LoseSet(n, from)
      PROVE  MessagesInv'
  BY <1>3, TakeKeepsGood
<1>4. CASE UNCHANGED vars
  <2>1. CASE \A n \in Net : AtRest(n)
    <3>1. UNCHANGED tables_vars /\ UNCHANGED <<air, arrived, asserted>>
      BY <1>4 DEF vars, msg_vars
    <3>2. \A n, m \in Net : \A k \in DOMAIN air'[n][m] : \E set : set = air'[n][m][k] /\ SetGood(n, set)
      BY <3>1 DEF MessagesInv
    <3>3. asserted' # "not_found" /\ arrived'.sent = arrived'.got
      BY <3>1 DEF MessagesInv
    <3>4. QED
      BY <2>1, <3>1, <3>2, <3>3, AllGood
  <2>2. CASE NothingOnAir
    <3>1. UNCHANGED <<air, arrived, asserted>>
      BY <1>4 DEF vars, msg_vars
    <3>2. NothingOnAir' /\ \A n, m \in Net : air'[n][m] = <<>>
      BY <2>2, <3>1 DEF NothingOnAir
    <3>3. DOMAIN <<>> = {}
      OBVIOUS
    <3>4. \A n, m \in Net : DOMAIN air'[n][m] = {}
      BY <3>2, <3>3
    <3>5. asserted' # "not_found" /\ arrived'.sent = arrived'.got
      BY <3>1 DEF MessagesInv
    <3>6. QED
      BY <3>2, <3>4, <3>5 DEF MessagesInv
  <2>3. QED
    BY <2>1, <2>2 DEF MessagesInv
<1>5. QED
  BY <1>1, <1>2, <1>3, <1>4 DEF Next

LEMMA MessagesInvariance ==
  ASSUME Quiet, ~FillsFull
  PROVE  Spec => []MessagesInv
<1>1. ExchangeInit => AirTypes /\ MessagesInv
  <2>. SUFFICES ASSUME ExchangeInit PROVE AirTypes /\ MessagesInv
    OBVIOUS
  <2>1. /\ txn = [n \in Net |-> 0] /\ air = [n \in Net |-> [m \in Net |-> <<>>]] /\ lost = 0
        /\ arrived = [sent |-> <<>>, got |-> <<>>] /\ asserted = "none"
    BY DEF ExchangeInit
  <2>2. PICK S : S = {}
    OBVIOUS
  <2>3. air \in [Net -> [Net -> Seq(S)]] /\ \A set \in S : set.transaction_id \in Nat
    BY <2>1, <2>2
  <2>4. AirTypes
    BY <2>1, <2>3 DEF AirTypes
  <2>5. DOMAIN <<>> = {}
    OBVIOUS
  <2>6. \A n, m \in Net : air[n][m] = <<>> /\ DOMAIN air[n][m] = {}
    BY <2>1, <2>5
  <2>7. MessagesInv
    BY <2>1, <2>6 DEF MessagesInv, NothingOnAir
  <2>8. QED
    BY <2>4, <2>7
<1>2. AirTypes /\ [Next]_vars => AirTypes'
  BY AirStepKeeps
<1>3. TablesInv /\ KnowledgeInv /\ AirTypes /\ MessagesInv /\ [Next]_vars => MessagesInv'
  BY MessagesStepKeeps
<1>4. QED
  BY <1>1, <1>2, <1>3, KnowledgeInvariance, PTL DEF Spec

\* If messages are sent one at a time and at rest, each comes from an instance
\* of the container that sent it and reaches the container it was meant for:
\* the identifiers that a network exposes lead the others to its containers,
\* whatever the detections did to local IDs (app_luos_msg_model_send_msg,
\* msg_model_set_cb).
THEOREM MessagesReachTarget ==
  ASSUME Quiet, ~FillsFull
  PROVE  Spec => []MessagesArrive
<1>1. MessagesInv => MessagesArrive
  BY DEF MessagesInv, MessagesArrive
<1>2. QED
  BY <1>1, MessagesInvariance, PTL

\* Both containers of such a message are in the tables of both networks, unless
\* its sender is not exposed: no other LUOS_ASSERT of app_luos_msg_model.c fails.
\* A network whose entries another one has got has got that one's, in the same
\* procedure.
THEOREM BothEndsKnown ==
  ASSUME Quiet, ~FillsFull
  PROVE  Spec => []TablesKnowMessages
<1>1. MessagesInv => TablesKnowMessages
  BY DEF MessagesInv, TablesKnowMessages
<1>2. QED
  BY <1>1, MessagesInvariance, PTL
=============================================================================
