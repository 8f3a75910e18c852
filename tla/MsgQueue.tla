------------------------------ MODULE MsgQueue ------------------------------
(***************************************************************************)
(* The ring buffer of luos_mesh_msg_queue.c. Each operation is one step    *)
(* here: this is the queue as seen by callers that cannot preempt each     *)
(* other. MsgQueueManager reuses these definitions and splits the enqueue  *)
(* of the main thread into its memory accesses.                            *)
(***************************************************************************)
EXTENDS Integers, Sequences

CONSTANTS
  Msg,        \* the messages that can be queued
  Capacity,   \* MSG_QUEUE_MAX_SIZE
  Empty       \* a slot whose model field is TX_QUEUE_MODEL_EMPTY

ASSUME CapacityAssumption == Capacity \in Nat \ {0}
ASSUME EmptyAssumption    == Empty \notin Msg

VARIABLES
  elements,         \* s_msg_queue.elements
  insertion_index,  \* s_msg_queue.insertion_index
  peek_index        \* s_msg_queue.peek_index

qvars == <<elements, insertion_index, peek_index>>

Slots == 0 .. Capacity - 1

\* Mutant of Advance: the modulo is forgotten.
AdvanceWithoutModulo(i) == i + 1

\* index++ followed by index %= MSG_QUEUE_MAX_SIZE
Advance(i) == (i + 1) % Capacity

InitQueue ==
  /\ elements = [i \in Slots |-> Empty]
  /\ insertion_index = 0
  /\ peek_index = 0

\* Mutant of QueueFull: the insertion spot is not tested.
SpotNotTested == FALSE

\* The insertion spot is occupied: enqueue returns false.
QueueFull == elements[insertion_index] # Empty

\* peek: the oldest element, Empty standing for the NULL pointer.
Peek == elements[peek_index]

\* luos_mesh_msg_queue_enqueue returning true
Enqueue(m) ==
  /\ ~QueueFull
  /\ elements' = [elements EXCEPT ![insertion_index] = m]
  /\ insertion_index' = Advance(insertion_index)
  /\ UNCHANGED peek_index

\* Mutant of Pop: the peek index stays on the emptied spot.
PopInPlace ==
  /\ elements' = [elements EXCEPT ![peek_index] = Empty]
  /\ UNCHANGED <<insertion_index, peek_index>>

\* luos_mesh_msg_queue_pop; on an empty spot it returns without a change
Pop ==
  IF Peek = Empty
  THEN UNCHANGED qvars
  ELSE /\ elements' = [elements EXCEPT ![peek_index] = Empty]
       /\ peek_index' = Advance(peek_index)
       /\ UNCHANGED insertion_index

NextQueue == Pop \/ \E m \in Msg : Enqueue(m)

QueueSpec == InitQueue /\ [][NextQueue]_qvars

-----------------------------------------------------------------------------
\* Type invariant: both indexes stay inside the array.
QueueTypeOK ==
  /\ elements \in [Slots -> Msg \cup {Empty}]
  /\ insertion_index \in Slots
  /\ peek_index \in Slots

\* Slot i lies from the peek index (included) to the insertion index
\* (excluded), going round the ring.
Between(i) ==
  IF peek_index < insertion_index
  THEN peek_index <= i /\ i < insertion_index
  ELSE peek_index <= i \/ i < insertion_index

\* Occupied slots form one contiguous run from the peek index to the
\* insertion index: no hole that peek would take for an empty queue, no
\* message outside the run that pop would never reach. When the indexes
\* meet, the queue is either entirely empty or entirely full.
RingInv ==
  IF peek_index = insertion_index
  THEN \/ \A i \in Slots : elements[i] = Empty
       \/ \A i \in Slots : elements[i] # Empty
  ELSE \A i \in Slots : elements[i] # Empty <=> Between(i)

\* Number of queued messages, and the messages, oldest first.
Count ==
  IF Peek = Empty THEN 0
  ELSE IF peek_index < insertion_index
       THEN insertion_index - peek_index
       ELSE insertion_index - peek_index + Capacity

Contents == [k \in 1 .. Count |-> elements[(peek_index + k - 1) % Capacity]]

\* The ring buffer implements the bounded first-in first-out queue of
\* luos_mesh_msg_queue.h.
Fifo == INSTANCE MsgFifo WITH pending <- Contents

ImplementsFifo == Fifo!Spec
=============================================================================
