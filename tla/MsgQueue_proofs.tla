--------------------------- MODULE MsgQueue_proofs ---------------------------
(***************************************************************************)
(* For every capacity and every set of messages: the ring buffer of        *)
(* luos_mesh_msg_queue.c keeps its occupied slots contiguous, and          *)
(* implements the bounded first-in first-out queue of MsgFifo.             *)
(***************************************************************************)
EXTENDS MsgQueue, SequenceTheorems, TLAPS

\* The increment and modulo of an index is the successor around the ring
\* (luos_mesh_msg_queue.c, both index updates).
LEMMA AdvanceIsSuccessor ==
  ASSUME NEW i \in Slots
  PROVE  /\ Advance(i) \in Slots
         /\ Advance(i) = IF i = Capacity - 1 THEN 0 ELSE i + 1
  BY CapacityAssumption DEF Advance, Slots

\* A position below twice the capacity is brought back into the ring by one
\* subtraction.
LEMMA RingPosition ==
  ASSUME NEW j \in 0 .. 2 * Capacity - 1
  PROVE  j % Capacity = IF j < Capacity THEN j ELSE j - Capacity
  BY CapacityAssumption

-----------------------------------------------------------------------------
\* Queue invariant: the typing and the ring shape are inductive together.
QueueInv == QueueTypeOK /\ RingInv

LEMMA InitQueueInv == InitQueue => QueueInv
  BY CapacityAssumption, EmptyAssumption
     DEF InitQueue, QueueInv, QueueTypeOK, RingInv, Slots

LEMMA EnqueueKeepsInv ==
  ASSUME QueueInv, NEW m \in Msg, Enqueue(m)
  PROVE  QueueInv'
<1>. DEFINE i == insertion_index
<1>1. i \in Slots /\ peek_index \in Slots /\ elements \in [Slots -> Msg \cup {Empty}]
  BY DEF QueueInv, QueueTypeOK
<1>2. /\ elements' = [elements EXCEPT ![i] = m]
      /\ insertion_index' = IF i = Capacity - 1 THEN 0 ELSE i + 1
      /\ insertion_index' \in Slots
      /\ peek_index' = peek_index
      /\ elements[i] = Empty
  BY <1>1, AdvanceIsSuccessor DEF Enqueue, QueueFull
<1>3. QueueTypeOK'
  BY <1>1, <1>2 DEF QueueTypeOK
<1>4. RingInv'
  BY <1>1, <1>2, CapacityAssumption, EmptyAssumption
     DEF QueueInv, RingInv, Between, Slots
<1>5. QED
  BY <1>3, <1>4 DEF QueueInv

LEMMA PopKeepsInv ==
  ASSUME QueueInv, Pop
  PROVE  QueueInv'
<1>1. CASE Peek = Empty
  BY <1>1 DEF Pop, qvars, QueueInv, QueueTypeOK, RingInv, Between
<1>2. CASE Peek # Empty
  <2>. DEFINE i == peek_index
  <2>1. i \in Slots /\ insertion_index \in Slots /\ elements \in [Slots -> Msg \cup {Empty}]
    BY DEF QueueInv, QueueTypeOK
  <2>2. /\ elements' = [elements EXCEPT ![i] = Empty]
        /\ peek_index' = IF i = Capacity - 1 THEN 0 ELSE i + 1
        /\ peek_index' \in Slots
        /\ insertion_index' = insertion_index
        /\ elements[i] # Empty
    BY <1>2, <2>1, AdvanceIsSuccessor DEF Pop, Peek
  <2>3. QueueTypeOK'
    BY <2>1, <2>2 DEF QueueTypeOK
  <2>4. RingInv'
    BY <2>1, <2>2, CapacityAssumption
       DEF QueueInv, RingInv, Between, Slots
  <2>5. QED
    BY <2>3, <2>4 DEF QueueInv
<1>3. QED
  BY <1>1, <1>2

LEMMA QueueInvariance == QueueSpec => []QueueInv
<1>1. QueueInv /\ [NextQueue]_qvars => QueueInv'
  <2>. SUFFICES ASSUME QueueInv, [NextQueue]_qvars
                PROVE  QueueInv'
    OBVIOUS
  <2>1. ASSUME NEW m \in Msg, Enqueue(m)
        PROVE  QueueInv'
    BY <2>1, EnqueueKeepsInv
  <2>2. CASE Pop
    BY <2>2, PopKeepsInv
  <2>3. CASE UNCHANGED qvars
    BY <2>3 DEF qvars, QueueInv, QueueTypeOK, RingInv, Between
  <2>4. QED
    BY <2>1, <2>2, <2>3 DEF NextQueue
<1>2. QED
  BY <1>1, InitQueueInv, PTL DEF QueueSpec

\* Both indexes stay inside the array, whatever its size
\* (luos_mesh_msg_queue.c, enqueue and pop).
THEOREM QueueTypeCorrect == QueueSpec => []QueueTypeOK
  BY QueueInvariance, PTL DEF QueueInv

\* No hole and no stray message in the ring, whatever its size: an empty
\* peek spot means an empty queue and an occupied insertion spot means a full
\* one, the two tests the C code relies on.
THEOREM RingCorrect == QueueSpec => []RingInv
  BY QueueInvariance, PTL DEF QueueInv

-----------------------------------------------------------------------------
\* Slot that holds the k-th oldest message.
Position(k) == IF peek_index + k - 1 < Capacity
               THEN peek_index + k - 1
               ELSE peek_index + k - 1 - Capacity

\* The queued messages, read off the ring without the modulo.
ContentsFacts ==
  /\ Count \in 0 .. Capacity
  /\ \A k \in 1 .. Capacity : Position(k) \in Slots
  /\ Contents \in Seq(Msg)
  /\ Len(Contents) = Count
  /\ \A k \in 1 .. Count : Contents[k] = elements[Position(k)]

LEMMA ContentsOf == QueueInv => ContentsFacts
<1>. SUFFICES ASSUME QueueInv
              PROVE  ContentsFacts
  OBVIOUS
<1>1. /\ elements \in [Slots -> Msg \cup {Empty}]
      /\ insertion_index \in Slots
      /\ peek_index \in Slots
  BY DEF QueueInv, QueueTypeOK
<1>2. Count \in 0 .. Capacity
  BY <1>1, CapacityAssumption DEF Count, Slots
<1>3. ASSUME NEW k \in 1 .. Capacity
      PROVE  /\ Position(k) \in Slots
             /\ (peek_index + k - 1) % Capacity = Position(k)
  <2>1. peek_index + k - 1 \in 0 .. 2 * Capacity - 1
    BY <1>1, CapacityAssumption DEF Slots
  <2>2. (peek_index + k - 1) % Capacity = Position(k)
    <3>. DEFINE j == peek_index + k - 1
    <3>. HIDE DEF j
    <3>1. j \in 0 .. 2 * Capacity - 1
      BY <2>1 DEF j
    <3>2. j % Capacity = IF j < Capacity THEN j ELSE j - Capacity
      BY <3>1, RingPosition
    <3>3. QED
      BY <1>1, <3>2, CapacityAssumption DEF j, Position, Slots
  <2>3. Position(k) \in Slots
    BY <2>1, <1>1, CapacityAssumption DEF Position, Slots
  <2>4. QED
    BY <2>2, <2>3
<1>4. \A k \in 1 .. Count : elements[Position(k)] # Empty
  BY <1>1, <1>2, <1>3, CapacityAssumption
     DEF QueueInv, RingInv, Between, Count, Position, Peek, Slots
<1>5. \A k \in 1 .. Count : elements[Position(k)] \in Msg
  BY <1>1, <1>2, <1>3, <1>4, CapacityAssumption
<1>6. Contents = [k \in 1 .. Count |-> elements[Position(k)]]
  BY <1>2, <1>3, CapacityAssumption DEF Contents
<1>7. Contents \in Seq(Msg) /\ Len(Contents) = Count
  BY <1>2, <1>5, <1>6, CapacityAssumption
<1>8. QED
  BY <1>2, <1>3, <1>6, <1>7 DEF ContentsFacts

LEMMA EnqueueRefines ==
  ASSUME QueueInv, NEW m \in Msg, Enqueue(m)
  PROVE  Fifo!Enqueue(m)
<1>1. ContentsFacts /\ ContentsFacts'
  BY EnqueueKeepsInv, ContentsOf, PTL
<1>2. /\ elements \in [Slots -> Msg \cup {Empty}]
      /\ insertion_index \in Slots
      /\ peek_index \in Slots
      /\ elements' = [elements EXCEPT ![insertion_index] = m]
      /\ insertion_index' = IF insertion_index = Capacity - 1 THEN 0 ELSE insertion_index + 1
      /\ peek_index' = peek_index
      /\ elements[insertion_index] = Empty
  BY AdvanceIsSuccessor DEF QueueInv, QueueTypeOK, Enqueue, QueueFull
<1>3. Count < Capacity /\ Position(Count + 1) = insertion_index
  BY <1>2, CapacityAssumption
     DEF QueueInv, RingInv, Between, Count, Position, Peek, Slots
<1>4. Count' = Count + 1
  BY <1>2, CapacityAssumption, EmptyAssumption
     DEF QueueInv, RingInv, Between, Count, Peek, Slots
<1>5. \A k \in 1 .. Count + 1 : Position(k)' = Position(k)
  BY <1>2 DEF Position
<1>6. \A k \in 1 .. Count : Position(k) # insertion_index
  BY <1>1, <1>2, <1>3, CapacityAssumption DEF ContentsFacts, Position, Slots
<1>7. Contents' = Append(Contents, m)
  <2>1. /\ Append(Contents, m) \in Seq(Msg)
        /\ Len(Append(Contents, m)) = Count + 1
        /\ \A k \in 1 .. Count : Append(Contents, m)[k] = Contents[k]
        /\ Append(Contents, m)[Count + 1] = m
    BY <1>1, AppendProperties DEF ContentsFacts
  <2>2. /\ Contents' \in Seq(Msg)
        /\ Len(Contents') = Count + 1
        /\ \A k \in 1 .. Count + 1 : Contents'[k] = elements'[Position(k)]
    BY <1>1, <1>4, <1>5 DEF ContentsFacts
  <2>3. \A k \in 1 .. Count : Contents'[k] = Contents[k]
    BY <1>1, <1>2, <1>3, <1>6, <2>2, CapacityAssumption DEF ContentsFacts
  <2>4. Contents'[Count + 1] = m
    BY <1>1, <1>2, <1>3, <2>2 DEF ContentsFacts
  <2>5. \A k \in 1 .. Count + 1 : Contents'[k] = Append(Contents, m)[k]
    BY <1>1, <2>1, <2>3, <2>4, CapacityAssumption DEF ContentsFacts
  <2>6. QED
    BY <2>1, <2>2, <2>5, SeqEqual
<1>8. QED
  BY <1>1, <1>3, <1>7 DEF ContentsFacts, Fifo!Enqueue

LEMMA PopRefines ==
  ASSUME QueueInv, Pop
  PROVE  Fifo!Pop \/ UNCHANGED Contents
<1>1. CASE Peek = Empty
  BY <1>1 DEF Pop, qvars, Contents, Count, Peek
<1>2. CASE Peek # Empty
  <2>1. ContentsFacts /\ ContentsFacts'
    BY PopKeepsInv, ContentsOf, PTL
  <2>2. /\ elements \in [Slots -> Msg \cup {Empty}]
        /\ insertion_index \in Slots
        /\ peek_index \in Slots
        /\ elements' = [elements EXCEPT ![peek_index] = Empty]
        /\ peek_index' = IF peek_index = Capacity - 1 THEN 0 ELSE peek_index + 1
        /\ insertion_index' = insertion_index
        /\ elements[peek_index] # Empty
    BY <1>2, AdvanceIsSuccessor DEF QueueInv, QueueTypeOK, Pop, Peek
  <2>3. Count \in 1 .. Capacity
    BY <2>2, CapacityAssumption DEF Count, Peek, Slots
  <2>4. Count' = Count - 1
    BY <2>2, CapacityAssumption
       DEF QueueInv, RingInv, Between, Count, Peek, Slots
  <2>5. \A k \in 1 .. Count - 1 : /\ Position(k)' = Position(k + 1)
                                  /\ Position(k + 1) # peek_index
    BY <2>2, <2>3, CapacityAssumption DEF Position, Slots
  <2>6. /\ Contents # <<>>
        /\ Tail(Contents) \in Seq(Msg)
        /\ Len(Tail(Contents)) = Count - 1
        /\ \A k \in 1 .. Count - 1 : Tail(Contents)[k] = Contents[k + 1]
    <3>1. Contents \in Seq(Msg) /\ Len(Contents) = Count /\ Contents # <<>>
      BY <2>1, <2>3 DEF ContentsFacts
    <3>2. QED
      BY <3>1, HeadTailProperties
  <2>7. /\ Contents' \in Seq(Msg)
        /\ Len(Contents') = Count - 1
        /\ \A k \in 1 .. Count - 1 : Contents'[k] = elements'[Position(k + 1)]
    BY <2>1, <2>4, <2>5 DEF ContentsFacts
  <2>8. \A k \in 1 .. Count - 1 : elements'[Position(k + 1)] = Contents[k + 1]
    <3>1. \A k \in 1 .. Count - 1 : k + 1 \in 1 .. Count /\ k + 1 \in 1 .. Capacity
      BY <2>3, CapacityAssumption
    <3>2. QED
      BY <2>1, <2>2, <2>5, <3>1 DEF ContentsFacts
  <2>9. Contents' = Tail(Contents)
    BY <2>6, <2>7, <2>8, SeqEqual
  <2>10. QED
    BY <2>6, <2>9 DEF Fifo!Pop
<1>3. QED
  BY <1>1, <1>2

\* The ring buffer implements the bounded first-in first-out queue that
\* luos_mesh_msg_queue.h promises: enqueue appends and only fails when
\* Capacity messages are queued, pop removes the oldest message.
THEOREM QueueImplementsFifo == QueueSpec => ImplementsFifo
<1>1. InitQueue => Fifo!Init
  BY CapacityAssumption, EmptyAssumption
     DEF InitQueue, Fifo!Init, Contents, Count, Peek, Slots
<1>2. QueueInv /\ [NextQueue]_qvars => [Fifo!Next]_Contents
  <2>. SUFFICES ASSUME QueueInv, [NextQueue]_qvars
                PROVE  [Fifo!Next]_Contents
    OBVIOUS
  <2>1. ASSUME NEW m \in Msg, Enqueue(m)
        PROVE  Fifo!Next
    BY <2>1, EnqueueRefines DEF Fifo!Next
  <2>2. CASE Pop
    BY <2>2, PopRefines DEF Fifo!Next
  <2>3. CASE UNCHANGED qvars
    BY <2>3 DEF qvars, Contents, Count, Peek
  <2>4. QED
    BY <2>1, <2>2, <2>3 DEF NextQueue
<1>3. QED
  BY <1>1, <1>2, QueueInvariance, PTL DEF QueueSpec, ImplementsFifo, Fifo!Spec
=============================================================================
