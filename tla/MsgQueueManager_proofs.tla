------------------------ MODULE MsgQueueManager_proofs ------------------------
(***************************************************************************)
(* For every capacity, every set of messages and every number of entries:  *)
(* the queue manager of mesh_msg_queue_manager.c keeps its types, never    *)
(* refuses a message while there is room, never stalls, signals the end of *)
(* a publication once, and keeps the promise of MsgSender.  The theorems   *)
(* name what they need of the order in which interrupts come.              *)
(*                                                                         *)
(* The inductive invariant has four parts: types (TypeInv), the ring with  *)
(* the window in which the thread has copied its message and not yet moved *)
(* the index (RingState), what the send flag, the token on the air, the    *)
(* pacing timer and a copy under way say together (SendState), and the     *)
(* order of the entries of a publication in the queue (Publication).       *)
(***************************************************************************)
EXTENDS MsgQueueManager, MsgQueue_proofs, FiniteSetTheorems

\* The mesh stack never holds more messages than it can: every publication
\* tests NoBuffer, so a fresh access token always exists.
StackBounded == IsFiniteSet(in_flight) /\ Cardinality(in_flight) \in 0 .. MaxInFlight

\* Where the thread is inside luos_mesh_msg_prepare.
PCs == {"idle", "check", "copy", "rest", "load", "store", "test", "peek", "publish", "token", "busy"}

\* The thread keeps a message from the call to the copy into the queue.
ThreadStates ==
  {t \in [pc : PCs, msg : ThreadMsgs \cup {NoMsg}, spot : Slots,
          token : Tokens \cup {DefaultToken}] :
     t.pc \in {"check", "copy", "rest"} => t.msg \in ThreadMsgs}

\* The types of all variables; with the bound of the stack, inductive.
TypeInv == SenderTypeOK /\ thread \in ThreadStates /\ StackBounded

\* Of the MaxInFlight + 2 tokens, those in flight, s_curr_tx_token and the one
\* of the thread leave one (nrf_mesh_unique_token_get).
LEMMA FreshTokenExists ==
  ASSUME StackBounded, ~NoBuffer
  PROVE  /\ FreshToken \in Tokens
         /\ FreshToken \notin {f.token : f \in in_flight} \cup {s_curr_tx_token, thread.token}
<1>. DEFINE InUse == {f.token : f \in in_flight}
            Taken == InUse \cup {s_curr_tx_token, thread.token}
            token == [f \in in_flight |-> f.token]
<1>1. MaxInFlight \in Nat \ {0}
  BY SenderAssumption
<1>2. IsFiniteSet(in_flight) /\ Cardinality(in_flight) \in 0 .. MaxInFlight - 1
  BY <1>1 DEF StackBounded, NoBuffer
<1>3. IsFiniteSet(InUse) /\ Cardinality(InUse) <= Cardinality(in_flight)
  <2>1. token \in Surjection(in_flight, InUse)
    BY DEF Surjection
  <2>2. QED
    BY <1>2, <2>1, FS_Surjection
<1>4. Cardinality(InUse) \in 0 .. MaxInFlight - 1
  BY <1>1, <1>2, <1>3, FS_CardinalityType
<1>5. /\ IsFiniteSet(InUse \cup {s_curr_tx_token})
      /\ Cardinality(InUse \cup {s_curr_tx_token}) \in 0 .. MaxInFlight
  <2>. HIDE DEF InUse
  <2>1. /\ IsFiniteSet(InUse \cup {s_curr_tx_token})
        /\ Cardinality(InUse \cup {s_curr_tx_token}) \in {Cardinality(InUse), Cardinality(InUse) + 1}
    BY <1>3, FS_AddElement
  <2>2. QED
    BY <1>1, <1>4, <2>1
<1>6. IsFiniteSet(Taken) /\ Cardinality(Taken) \in 0 .. MaxInFlight + 1
  <2>. DEFINE One == InUse \cup {s_curr_tx_token}
  <2>1. IsFiniteSet(One) /\ Cardinality(One) \in 0 .. MaxInFlight
    BY <1>5
  <2>2. Taken = One \cup {thread.token}
    OBVIOUS
  <2>. HIDE DEF One, Taken
  <2>3. /\ IsFiniteSet(One \cup {thread.token})
        /\ Cardinality(One \cup {thread.token}) \in {Cardinality(One), Cardinality(One) + 1}
    BY <2>1, FS_AddElement
  <2>4. QED
    BY <1>1, <2>1, <2>2, <2>3
<1>7. Cardinality(Tokens) = MaxInFlight + 2
  BY <1>1, FS_Interval DEF Tokens
<1>8. ~(Tokens \subseteq Taken)
  <2>. HIDE DEF Taken
  <2>1. SUFFICES ASSUME Tokens \subseteq Taken
                 PROVE  FALSE
    OBVIOUS
  <2>2. Cardinality(Tokens) <= Cardinality(Taken)
    BY <1>6, <2>1, FS_Subset
  <2>3. QED
    BY <1>1, <1>6, <1>7, <2>2
<1>9. PICK t \in Tokens : t \notin Taken
  BY <1>8
<1>10. QED
  BY <1>9 DEF FreshToken

-----------------------------------------------------------------------------
\* At start everything is idle and empty.
LEMMA InitTypeInv == Init => TypeInv
<1>. USE SenderAssumption, CapacityAssumption, EmptyAssumption
<1>1. Init => QueueTypeOK
  BY InitQueueInv DEF Init, QueueInv
<1>2. Init => StackBounded
  BY FS_EmptySet DEF Init, StackBounded
<1>3. Init => irq \in Seq(Msg) /\ 0 \in Slots /\ nb_local_entries \in 0 .. MaxEntries
  BY DEF Init, Slots
<1>4. Init => SenderTypeOK /\ thread \in ThreadStates
  <2>. SUFFICES ASSUME Init
                PROVE  SenderTypeOK /\ thread \in ThreadStates
    OBVIOUS
  <2>1. thread \in ThreadStates
    BY <1>3 DEF Init, ThreadIdle, ThreadStates, PCs
  <2>2. QED
    BY <1>1, <1>3, <2>1 DEF Init, SenderTypeOK, ThreadStates, PCs
<1>5. QED
  BY <1>2, <1>4 DEF TypeInv

\* A publication keeps the bound and the types.
LEMMA PublishTyped ==
  ASSUME TypeInv, ~NoBuffer, NEW elm \in Msg, Publish(FreshToken, elm)
  PROVE  /\ in_flight' \subseteq [token : Tokens, msg : Msg]
         /\ StackBounded'
<1>. USE SenderAssumption
<1>. DEFINE x == [token |-> FreshToken, msg |-> elm]
<1>1. FreshToken \in Tokens
  BY FreshTokenExists DEF TypeInv
<1>2. in_flight' = in_flight \cup {x} /\ x \in [token : Tokens, msg : Msg]
  BY <1>1 DEF Publish
<1>3. IsFiniteSet(in_flight) /\ Cardinality(in_flight) \in 0 .. MaxInFlight - 1
  BY DEF TypeInv, StackBounded, NoBuffer
<1>4. StackBounded'
  <2>. HIDE DEF x
  <2>1. /\ IsFiniteSet(in_flight \cup {x})
        /\ Cardinality(in_flight \cup {x}) \in {Cardinality(in_flight), Cardinality(in_flight) + 1}
    BY <1>3, FS_AddElement
  <2>2. QED
    BY <1>2, <1>3, <2>1 DEF StackBounded
<1>5. QED
  BY <1>2, <1>4 DEF TypeInv, SenderTypeOK

\* send_mesh_msg keeps the types of what it writes.
LEMMA SendTyped ==
  ASSUME TypeInv, NEW elm \in Msg \cup {Empty}, elm # Empty => ~NoBuffer, SendMeshMsg(elm)
  PROVE  /\ s_is_possible_to_send' \in BOOLEAN
         /\ s_curr_tx_token' \in Tokens \cup {DefaultToken}
         /\ in_flight' \subseteq [token : Tokens, msg : Msg]
         /\ StackBounded'
<1>1. CASE elm = Empty
  BY <1>1 DEF SendMeshMsg, TypeInv, SenderTypeOK, StackBounded
<1>2. CASE elm # Empty
  <2>1. /\ Publish(FreshToken, elm) /\ s_curr_tx_token' = FreshToken
        /\ s_is_possible_to_send' = FALSE
    BY <1>2 DEF SendMeshMsg
  <2>2. FreshToken \in Tokens
    BY <1>2, FreshTokenExists DEF TypeInv
  <2>3. QED
    BY <1>2, <2>1, <2>2, PublishTyped
<1>3. QED
  BY <1>1, <1>2

\* Taking a reported message from the stack leaves room in it.
LEMMA ReportTyped ==
  ASSUME TypeInv, NEW x \in in_flight, Reported(x)
  PROVE  in_flight' \subseteq [token : Tokens, msg : Msg] /\ StackBounded'
<1>1. in_flight' = in_flight \ {x}
  BY DEF Reported
<1>2. IsFiniteSet(in_flight \ {x}) /\ Cardinality(in_flight \ {x}) = Cardinality(in_flight) - 1
  BY FS_RemoveElement DEF TypeInv, StackBounded
<1>3. Cardinality(in_flight \ {x}) \in Nat
  BY <1>2, FS_CardinalityType
<1>4. QED
  BY <1>1, <1>2, <1>3, SenderAssumption DEF TypeInv, SenderTypeOK, StackBounded

\* A step that only moves the thread leaves the types to the thread's own.
LEMMA MoveTyped ==
  ASSUME TypeInv, NEW pc, NEW to \in ThreadStates, ThreadMoves(pc, to)
  PROVE  TypeInv'
  BY DEF ThreadMoves, ThreadUnchanged, TypeInv, SenderTypeOK, StackBounded, NoBuffer,
         QueueTypeOK, qvars, sending, app, ThreadStates, PCs

\* A failed assertion changes nothing else.
LEMMA FailTyped ==
  ASSUME TypeInv,
         NEW name \in {"insert_success", "unknown_model", "sent_elm", "nb_exposed_entries", "err_code"},
         Fail(name)
  PROVE  TypeInv'
  BY DEF Fail, TypeInv, SenderTypeOK, StackBounded, QueueTypeOK, qvars, sending, app

\* Each step of luos_mesh_msg_prepare in the main thread keeps the types.
LEMMA ThreadKeepsTypes ==
  ASSUME TypeInv, ThreadContinues \/ \E m \in ThreadMsgs : ThreadPrepare(m)
  PROVE  TypeInv'
<1>. USE CapacityAssumption, SenderAssumption
<1>1. /\ thread \in ThreadStates
      /\ 0 \in Slots /\ insertion_index \in Slots /\ peek_index \in Slots
      /\ DefaultToken \in Tokens \cup {DefaultToken}
      /\ NoMsg \in ThreadMsgs \cup {NoMsg}
      /\ elements \in [Slots -> Msg \cup {Empty}]
  BY DEF TypeInv, SenderTypeOK, QueueTypeOK, ThreadStates, PCs, Slots
<1>2. ThreadIdle \in ThreadStates
  BY <1>1 DEF ThreadIdle, ThreadStates, PCs
<1>3. ASSUME NEW m \in ThreadMsgs, ThreadPrepare(m)
      PROVE  TypeInv'
  <2>1. [ThreadIdle EXCEPT !.pc = "check", !.msg = m] \in ThreadStates
    BY <1>1 DEF ThreadIdle, ThreadStates, PCs
  <2>2. QED
    BY <1>3, <2>1, MoveTyped DEF ThreadPrepare
<1>4. CASE ThreadCheckSpot
  <2>1. thread.pc = "check"
    BY <1>4 DEF ThreadCheckSpot, ThreadMoves, ThreadRuns
  <2>2. [thread EXCEPT !.pc = "copy", !.spot = insertion_index] \in ThreadStates
    BY <1>1, <2>1 DEF ThreadStates, PCs
  <2>3. QED
    BY <1>4, <2>2, MoveTyped, FailTyped DEF ThreadCheckSpot
<1>5. ASSUME NEW elm \in Msg \cup {Empty},
             elements' = [elements EXCEPT ![thread.spot] = elm],
             thread' \in ThreadStates,
             UNCHANGED <<insertion_index, peek_index, sending, app, s_timer_to_send, irq, failed_assert>>
      PROVE  TypeInv'
  <2>1. thread.spot \in Slots
    BY <1>1 DEF ThreadStates
  <2>2. QueueTypeOK'
    BY <1>1, <1>5, <2>1 DEF QueueTypeOK
  <2>3. QED
    BY <1>5, <2>2 DEF TypeInv, SenderTypeOK, StackBounded, sending, app, ThreadStates, PCs
<1>14. CASE ThreadCopy
  <2>1. thread.pc = "copy"
    BY <1>14 DEF ThreadCopy, ThreadRuns
  <2>2. [thread EXCEPT !.pc = "rest"] \in ThreadStates
    BY <1>1, <2>1 DEF ThreadStates, PCs
  <2>3. QED
    BY <1>5, <1>14, <2>2, TornAssumption DEF ThreadCopy, ThreadUnchanged
<1>15. CASE ThreadCopyRest
  <2>1. [ThreadIdle EXCEPT !.pc = "load"] \in ThreadStates
    BY <1>1 DEF ThreadIdle, ThreadStates, PCs
  <2>2. thread.msg \in Msg
    BY <1>1, <1>15 DEF ThreadCopyRest, ThreadRuns, ThreadStates
  <2>3. Completed(elements[thread.spot]) \in Msg \cup {Empty}
    BY <2>2, TornAssumption DEF Completed
  <2>4. elements' = [elements EXCEPT ![thread.spot] = Completed(elements[thread.spot])]
    BY <1>1, <1>15 DEF ThreadCopyRest, ThreadStates
  <2>5. QED
    BY <1>5, <1>15, <2>1, <2>3, <2>4 DEF ThreadCopyRest, ThreadUnchanged
<1>6. CASE ThreadLoadIndex
  <2>1. [thread EXCEPT !.pc = "store", !.spot = insertion_index] \in ThreadStates
    BY <1>1 DEF ThreadStates, PCs
  <2>2. QED
    BY <1>6, <2>1, MoveTyped DEF ThreadLoadIndex
<1>7. CASE ThreadStoreIndex
  <2>1. [ThreadIdle EXCEPT !.pc = "test"] \in ThreadStates /\ thread.spot \in Slots
    BY <1>1 DEF ThreadIdle, ThreadStates, PCs
  <2>2. Advance(thread.spot) \in Slots
    BY <2>1, AdvanceIsSuccessor
  <2>3. QED
    BY <1>1, <1>7, <2>1, <2>2
       DEF ThreadStoreIndex, ThreadUnchanged, TypeInv, SenderTypeOK, StackBounded,
           QueueTypeOK, sending, app, ThreadStates, PCs
<1>8. CASE ThreadTestSend
  <2>1. [thread EXCEPT !.pc = "peek"] \in ThreadStates
    BY <1>1 DEF ThreadStates, PCs
  <2>2. QED
    BY <1>2, <1>8, <2>1, MoveTyped DEF ThreadTestSend
<1>9. CASE ThreadPeek
  <2>1. [thread EXCEPT !.pc = "publish", !.spot = peek_index] \in ThreadStates
    BY <1>1 DEF ThreadStates, PCs
  <2>2. QED
    BY <1>2, <1>9, <2>1, MoveTyped DEF ThreadPeek
<1>10. CASE ThreadPublish
  <2>1. CASE Fail("unknown_model") \/ Fail("err_code")
    BY <2>1, FailTyped
  <2>2. CASE ~NoBuffer /\ elements[thread.spot] # Empty /\ ~(Fail("unknown_model") \/ Fail("err_code"))
    <3>1. elements[thread.spot] \in Msg
      BY <1>1, <2>2 DEF ThreadStates
    <3>2. FreshToken \in Tokens
      BY <2>2, FreshTokenExists DEF TypeInv
    <3>3. [ThreadIdle EXCEPT !.pc = "token", !.token = FreshToken] \in ThreadStates
      BY <1>1, <3>2 DEF ThreadIdle, ThreadStates, PCs
    <3>4. /\ Publish(FreshToken, elements[thread.spot])
          /\ thread' \in ThreadStates
          /\ UNCHANGED <<qvars, s_is_possible_to_send, s_curr_tx_token>>
          /\ ThreadUnchanged
      BY <1>10, <2>2, <3>3 DEF ThreadPublish
    <3>5. in_flight' \subseteq [token : Tokens, msg : Msg] /\ StackBounded'
      BY <2>2, <3>1, <3>4, PublishTyped
    <3>6. QED
      BY <3>4, <3>5
         DEF ThreadUnchanged, TypeInv, SenderTypeOK, QueueTypeOK, qvars, app, ThreadStates, PCs
  <2>3. QED
    BY <1>10, <2>1, <2>2 DEF ThreadPublish
<1>11. CASE ThreadSetToken
  <2>1. [thread EXCEPT !.pc = "busy"] \in ThreadStates /\ thread.token \in Tokens \cup {DefaultToken}
    BY <1>1 DEF ThreadStates, PCs
  <2>2. QED
    BY <1>11, <2>1
       DEF ThreadSetToken, ThreadUnchanged, TypeInv, SenderTypeOK, StackBounded, QueueTypeOK,
           qvars, app, ThreadStates, PCs
<1>12. CASE ThreadSetBusy
  BY <1>2, <1>12, ZenonT(30)
     DEF ThreadSetBusy, ThreadUnchanged, TypeInv, SenderTypeOK, StackBounded, QueueTypeOK,
         qvars, app, ThreadStates, PCs
<1>13. QED
  BY <1>3, <1>4, <1>14, <1>15, <1>6, <1>7, <1>8, <1>9, <1>10, <1>11, <1>12 DEF ThreadContinues

\* So does each step of an interrupt.
LEMMA IrqKeepsTypes ==
  ASSUME TypeInv,
         ReplyEntries \/ PublishEntries \/ IrqPrepare \/ IrqPrepareFails
           \/ LocalTableChange \/ StackReports \/ TimerToSend
  PROVE  TypeInv'
<1>. USE CapacityAssumption, SenderAssumption
<1>1. /\ thread \in ThreadStates
      /\ 0 \in Slots /\ insertion_index \in Slots /\ peek_index \in Slots
      /\ elements \in [Slots -> Msg \cup {Empty}]
      /\ irq \in Seq(Msg)
      /\ nb_local_entries \in 0 .. MaxEntries
  BY DEF TypeInv, SenderTypeOK, QueueTypeOK, Slots
<1>2. \A k \in 1 .. nb_local_entries : Reply(k - 1) \in Msg /\ Status(k - 1) \in Msg
  <2>1. \A k \in 1 .. nb_local_entries : k - 1 \in 0 .. MaxEntries - 1
    BY <1>1
  <2>2. QED
    BY <2>1, RtbMsgAssumption
<1>3. CASE ReplyEntries
  <2>1. irq' \in Seq(Msg)
    BY <1>1, <1>2, <1>3 DEF ReplyEntries
  <2>2. QED
    BY <1>3, <2>1
       DEF ReplyEntries, TypeInv, SenderTypeOK, StackBounded, QueueTypeOK, qvars, sending, app
<1>4. CASE PublishEntries
  <2>1. irq' \in Seq(Msg)
    BY <1>1, <1>2, <1>4 DEF PublishEntries
  <2>2. QED
    BY <1>4, <2>1
       DEF PublishEntries, TypeInv, SenderTypeOK, StackBounded, QueueTypeOK, qvars, sending
<1>5. CASE IrqPrepare
  <2>1. Head(irq) \in Msg /\ irq' \in Seq(Msg)
    BY <1>1, <1>5 DEF IrqPrepare
  <2>2. QueueTypeOK'
    BY <1>1, <1>5, <2>1, AdvanceIsSuccessor DEF IrqPrepare, Enqueue, QueueTypeOK
  <2>3. /\ s_is_possible_to_send' \in BOOLEAN
        /\ s_curr_tx_token' \in Tokens \cup {DefaultToken}
        /\ in_flight' \subseteq [token : Tokens, msg : Msg]
        /\ StackBounded'
    <3>1. CASE s_is_possible_to_send
      <4>1. elements'[peek_index] \in Msg \cup {Empty}
        BY <1>1, <2>2 DEF QueueTypeOK
      <4>2. SendMeshMsg(elements'[peek_index]) /\ ~NoBuffer
        BY <1>5, <3>1 DEF IrqPrepare
      <4>3. QED
        BY <4>1, <4>2, SendTyped
    <3>2. CASE ~s_is_possible_to_send
      BY <1>5, <3>2 DEF IrqPrepare, sending, TypeInv, SenderTypeOK, StackBounded
    <3>3. QED
      BY <3>1, <3>2
  <2>4. UNCHANGED <<app, s_timer_to_send, thread, failed_assert>>
    BY <1>5 DEF IrqPrepare
  <2>5. QED
    BY <2>1, <2>2, <2>3, <2>4 DEF TypeInv, SenderTypeOK, app
<1>6. CASE IrqPrepareFails
  BY <1>6, FailTyped DEF IrqPrepareFails
<1>7. CASE LocalTableChange
  BY <1>7 DEF LocalTableChange, TypeInv, SenderTypeOK, StackBounded, QueueTypeOK, qvars, sending
<1>8. ASSUME NEW x \in in_flight, TxComplete(x)
      PROVE  TypeInv'
  <2>1. in_flight' \subseteq [token : Tokens, msg : Msg] /\ StackBounded'
    BY <1>8, ReportTyped DEF TxComplete
  <2>2. QueueTypeOK'
    BY <1>1, <1>8, AdvanceIsSuccessor DEF TxComplete, Pop, QueueTypeOK, qvars
  <2>3. publishing' \in BOOLEAN
    BY <1>8 DEF TxComplete
  <2>4. QED
    BY <1>8, <2>1, <2>2, <2>3 DEF TxComplete, TypeInv, SenderTypeOK
<1>9. ASSUME NEW x \in in_flight, TxCompleteOther(x)
      PROVE  TypeInv'
  <2>1. in_flight' \subseteq [token : Tokens, msg : Msg] /\ StackBounded'
    BY <1>9, ReportTyped DEF TxCompleteOther
  <2>2. QED
    BY <1>9, <2>1 DEF TxCompleteOther, TypeInv, SenderTypeOK, QueueTypeOK, qvars, app
<1>10. ASSUME NEW x \in in_flight, TxCompleteFails(x)
       PROVE  TypeInv'
  BY <1>10, FailTyped DEF TxCompleteFails
<1>11. CASE TimerToSend
  <2>1. CASE Peek # Empty /\ NoBuffer
    BY <1>11, <2>1
       DEF TimerToSend, TypeInv, SenderTypeOK, StackBounded, QueueTypeOK, qvars, sending, app
  <2>2. CASE ~(Peek # Empty /\ NoBuffer)
    <3>1. Peek \in Msg \cup {Empty} /\ SendMeshMsg(Peek)
      BY <1>1, <1>11, <2>2 DEF TimerToSend, Peek
    <3>2. /\ s_is_possible_to_send' \in BOOLEAN
          /\ s_curr_tx_token' \in Tokens \cup {DefaultToken}
          /\ in_flight' \subseteq [token : Tokens, msg : Msg]
          /\ StackBounded'
      BY <2>2, <3>1, SendTyped
    <3>3. QED
      BY <1>11, <2>2, <3>2, ZenonT(30) DEF TimerToSend, TypeInv, SenderTypeOK, QueueTypeOK, qvars, app
  <2>3. QED
    BY <2>1, <2>2
<1>12. QED
  BY <1>3, <1>4, <1>5, <1>6, <1>7, <1>8, <1>9, <1>10, <1>11 DEF StackReports

\* The types always hold.
LEMMA TypeInvariance == Spec => []TypeInv
<1>1. TypeInv /\ [Next]_vars => TypeInv'
  <2>. SUFFICES ASSUME TypeInv, [Next]_vars
                PROVE  TypeInv'
    OBVIOUS
  <2>1. CASE Next
    BY <2>1, ThreadKeepsTypes, IrqKeepsTypes DEF Next
  <2>2. CASE UNCHANGED vars
    BY <2>2 DEF vars, qvars, sending, app, TypeInv, SenderTypeOK, StackBounded, QueueTypeOK
  <2>3. QED
    BY <2>1, <2>2
<1>2. QED
  BY <1>1, InitTypeInv, PTL DEF Spec

\* Whatever overlaps: the indexes stay inside the array and a message that is
\* published comes from a slot that holds one (mesh_msg_queue_manager.c).
THEOREM SenderTypeCorrect == Spec => []SenderTypeOK
  BY TypeInvariance, PTL DEF TypeInv

-----------------------------------------------------------------------------
\* The ring as interrupts see it while the thread is inside
\* luos_mesh_msg_prepare.

\* How many messages the ring holds.
Queued == Cardinality(Occupied)

\* The slot that the next message takes. The thread copies a message into its
\* slot, in two steps, before it moves the insertion index.
NextSpot ==
  IF thread.pc \in {"rest", "load", "store"} THEN Advance(insertion_index) ELSE insertion_index

\* The queued messages fill the first slots from the peek index.
RingFilled ==
  /\ Queued \in 0 .. Capacity
  /\ \A k \in 1 .. Capacity : elements[Position(k)] # Empty <=> k <= Queued

\* The ring, with the slot the thread is filling.
RingWindow ==
  /\ RingFilled
  /\ NextSpot = Position(Queued + 1)
  /\ thread.pc \in {"copy", "rest", "store"} => thread.spot = insertion_index
  /\ thread.pc = "copy" => elements[thread.spot] = Empty

\* The positions from the peek index go once around the ring.
LEMMA PositionInRing ==
  ASSUME QueueTypeOK
  PROVE  /\ \A k \in 1 .. Capacity : Position(k) \in Slots
         /\ \A i \in Slots : \E k \in 1 .. Capacity : i = Position(k)
         /\ \A j, k \in 1 .. Capacity : Position(j) = Position(k) => j = k
         /\ Position(1) = peek_index /\ Position(Capacity + 1) = peek_index
         /\ \A k \in 1 .. Capacity : Advance(Position(k)) = Position(k + 1)
<1>. USE CapacityAssumption DEF QueueTypeOK, Slots, Position
<1>1. \A k \in 1 .. Capacity : Position(k) \in Slots
  OBVIOUS
<1>2. ASSUME NEW i \in Slots
      PROVE  \E k \in 1 .. Capacity : i = Position(k)
  <2>1. CASE i >= peek_index
    <3>1. i - peek_index + 1 \in 1 .. Capacity /\ i = Position(i - peek_index + 1)
      BY <2>1
    <3>2. QED
      BY <3>1
  <2>2. CASE i < peek_index
    <3>1. i - peek_index + 1 + Capacity \in 1 .. Capacity /\ i = Position(i - peek_index + 1 + Capacity)
      BY <2>2
    <3>2. QED
      BY <3>1
  <2>3. QED
    BY <2>1, <2>2
<1>3. \A j, k \in 1 .. Capacity : Position(j) = Position(k) => j = k
  OBVIOUS
<1>4. Position(1) = peek_index /\ Position(Capacity + 1) = peek_index
  OBVIOUS
<1>5. ASSUME NEW k \in 1 .. Capacity
      PROVE  Advance(Position(k)) = Position(k + 1)
  <2>1. Position(k) \in Slots
    BY <1>1
  <2>2. Advance(Position(k)) = IF Position(k) = Capacity - 1 THEN 0 ELSE Position(k) + 1
    BY <2>1, AdvanceIsSuccessor
  <2>3. QED
    BY <2>2
<1>6. QED
  BY <1>1, <1>2, <1>3, <1>4, <1>5

\* Copying a message into the next spot.
LEMMA AddedMessage ==
  ASSUME QueueTypeOK, RingFilled, NEW m \in Msg,
         NEW spot \in Slots, spot = Position(Queued + 1), elements[spot] = Empty,
         elements' = [elements EXCEPT ![spot] = m], peek_index' = peek_index
  PROVE  /\ Queued < Capacity
         /\ Queued' = Queued + 1
         /\ RingFilled'
         /\ Advance(spot) = Position(Queued + 1)'
<1>. USE CapacityAssumption, EmptyAssumption
<1>1. Queued \in 0 .. Capacity
  BY DEF RingFilled
<1>2. Queued < Capacity
  <2>1. SUFFICES ASSUME Queued = Capacity
                 PROVE  FALSE
    BY <1>1
  <2>2. spot = Position(1) /\ 1 \in 1 .. Capacity
    BY <2>1, PositionInRing
  <2>3. QED
    BY <2>1, <2>2 DEF RingFilled
<1>3. Occupied' = Occupied \cup {spot} /\ spot \notin Occupied
  BY DEF Occupied, QueueTypeOK
<1>4. IsFiniteSet(Occupied)
  <2>1. IsFiniteSet(Slots)
    BY FS_Interval DEF Slots
  <2>2. QED
    BY <2>1, FS_Subset DEF Occupied
<1>5. Queued' = Queued + 1
  BY <1>3, <1>4, FS_AddElement DEF Queued
<1>6. \A k \in 1 .. Capacity : Position(k)' = Position(k) /\ Position(k) \in Slots
  BY PositionInRing DEF Position
<1>7. Queued + 1 \in 1 .. Capacity /\ \A k \in 1 .. Capacity : Position(k) = spot <=> k = Queued + 1
  BY <1>1, <1>2, PositionInRing
<1>8. RingFilled'
  BY <1>1, <1>5, <1>6, <1>7 DEF RingFilled, QueueTypeOK
<1>9. Advance(spot) = Position(Queued + 1)'
  <2>1. Advance(spot) = Position(Queued + 1 + 1)
    BY <1>7, PositionInRing
  <2>2. QED
    BY <1>5, <2>1 DEF Position
<1>10. QED
  BY <1>2, <1>5, <1>8, <1>9

\* Emptying the peek spot.
LEMMA RemovedMessage ==
  ASSUME QueueTypeOK, QueueTypeOK', RingFilled, Peek # Empty, Pop
  PROVE  /\ Queued > 0
         /\ Queued' = Queued - 1
         /\ RingFilled'
         /\ \A k \in 1 .. Capacity : Position(k)' = Position(k + 1)
<1>. USE CapacityAssumption, EmptyAssumption
<1>1. /\ elements' = [elements EXCEPT ![peek_index] = Empty]
      /\ peek_index' = Advance(peek_index)
      /\ peek_index \in Slots
      /\ Queued \in 0 .. Capacity
  BY DEF Pop, RingFilled, QueueTypeOK
<1>2. Occupied' = Occupied \ {peek_index} /\ peek_index \in Occupied
  BY <1>1 DEF Occupied, QueueTypeOK, Peek
<1>3. IsFiniteSet(Occupied)
  <2>1. IsFiniteSet(Slots)
    BY FS_Interval DEF Slots
  <2>2. QED
    BY <2>1, FS_Subset DEF Occupied
<1>4. Queued' = Queued - 1
  BY <1>2, <1>3, FS_RemoveElement DEF Queued
<1>5. Queued > 0
  BY <1>1, PositionInRing DEF RingFilled, Peek
<1>6. \A k \in 1 .. Capacity : Position(k)' = Position(k + 1)
  <2>1. peek_index' = IF peek_index = Capacity - 1 THEN 0 ELSE peek_index + 1
    BY <1>1, AdvanceIsSuccessor
  <2>2. QED
    BY <1>1, <2>1 DEF Position, Slots
<1>7. RingFilled'
  <2>. SUFFICES ASSUME NEW k \in 1 .. Capacity
                PROVE  elements'[Position(k + 1)] # Empty <=> k <= Queued - 1
    BY <1>1, <1>4, <1>5, <1>6 DEF RingFilled
  <2>1. CASE k = Capacity
    BY <1>1, <2>1, PositionInRing DEF QueueTypeOK
  <2>2. CASE k < Capacity
    <3>1. /\ k + 1 \in 1 .. Capacity
          /\ Position(k + 1) \in Slots
          /\ Position(k + 1) # peek_index
      BY <2>2, PositionInRing
    <3>2. elements'[Position(k + 1)] = elements[Position(k + 1)]
      BY <1>1, <3>1 DEF QueueTypeOK
    <3>3. QED
      BY <1>1, <3>1, <3>2 DEF RingFilled
  <2>3. QED
    BY <2>1, <2>2
<1>8. QED
  BY <1>4, <1>5, <1>6, <1>7

\* An occupied insertion spot means a full queue.
LEMMA OccupiedSpotMeansFull ==
  ASSUME QueueTypeOK, RingFilled, elements[Position(Queued + 1)] # Empty
  PROVE  Queued = Capacity /\ Occupied = Slots
<1>. USE CapacityAssumption
<1>1. Queued = Capacity
  BY DEF RingFilled
<1>2. \A i \in Slots : elements[i] # Empty
  BY <1>1, PositionInRing DEF RingFilled
<1>3. QED
  BY <1>1, <1>2 DEF Occupied

\* Interrupts that prepare messages find the thread outside
\* luos_mesh_msg_prepare.
IrqAlone == irq # <<>> => thread.pc = "idle"

\* The ring seen through the thread's window, and why a message is refused.
RingState == TypeInv /\ RingWindow /\ IrqAlone /\ RefusedMeansFull

\* The ring starts empty.
LEMMA InitRing == Init => RingState
<1>. SUFFICES ASSUME Init
              PROVE  RingState
  OBVIOUS
<1>. USE CapacityAssumption, EmptyAssumption DEF Init, InitQueue
<1>1. TypeInv
  BY InitTypeInv
<1>2. Occupied = {} /\ Queued = 0
  BY FS_EmptySet DEF Occupied, Queued
<1>3. \A k \in 1 .. Capacity : elements[Position(k)] = Empty
  BY <1>1, PositionInRing DEF TypeInv, SenderTypeOK
<1>4. RingFilled
  BY <1>2, <1>3 DEF RingFilled
<1>5. thread.pc = "idle"
  BY DEF ThreadIdle
<1>6. NextSpot = Position(Queued + 1)
  BY <1>2, <1>5 DEF NextSpot, Position
<1>7. QED
  BY <1>1, <1>4, <1>5, <1>6 DEF RingState, RingWindow, IrqAlone, RefusedMeansFull

\* What the ring is made of stays.
RingKept == UNCHANGED <<elements, insertion_index, peek_index>>

\* RingFilled is about the ring only.
LEMMA RingFilledKept ==
  ASSUME RingFilled, RingKept
  PROVE  RingFilled' /\ Queued' = Queued /\ Occupied' = Occupied /\ Position(Queued + 1)' = Position(Queued + 1)
  BY DEF RingFilled, RingKept, Queued, Occupied, Position

\* The rest of a copy fills no slot and frees none.
LEMMA CompletedRing ==
  ASSUME QueueTypeOK, RingFilled, thread \in ThreadStates, thread.pc = "rest", UNCHANGED peek_index,
         elements' = [elements EXCEPT ![thread.spot] = Completed(elements[thread.spot])]
  PROVE  /\ RingFilled' /\ Queued' = Queued /\ Occupied' = Occupied
         /\ Position(Queued + 1)' = Position(Queued + 1)
<1>. USE CapacityAssumption, EmptyAssumption
<1>1. thread.msg # Empty /\ Torn # Empty /\ thread.spot \in Slots
  BY SenderAssumption, TornAssumption DEF ThreadStates
<1>2. \A i \in Slots : elements'[i] # Empty <=> elements[i] # Empty
  BY <1>1 DEF QueueTypeOK, Completed
<1>3. Occupied' = Occupied
  BY <1>2 DEF Occupied
<1>4. Queued' = Queued /\ \A k : Position(k)' = Position(k)
  BY <1>3 DEF Queued, Position
<1>5. \A k \in 1 .. Capacity : Position(k) \in Slots
  BY PositionInRing
<1>6. RingFilled'
  BY <1>2, <1>4, <1>5 DEF RingFilled
<1>7. QED
  BY <1>3, <1>4, <1>6 DEF Position

\* The thread fills the slot behind the last message, then moves the index, and
\* pops the oldest.
LEMMA ThreadKeepsRing ==
  ASSUME RingState, TypeInv', ThreadContinues \/ \E m \in ThreadMsgs : ThreadPrepare(m)
  PROVE  RingState'
<1>. USE CapacityAssumption
<1>1. /\ QueueTypeOK /\ QueueTypeOK'
      /\ RingFilled
      /\ NextSpot = Position(Queued + 1)
      /\ thread \in ThreadStates
      /\ irq = <<>>
      /\ failed_assert = "none"
  BY DEF RingState, RingWindow, TypeInv, SenderTypeOK, ThreadContinues, ThreadPrepare, ThreadCheckSpot,
         ThreadCopy, ThreadCopyRest, ThreadLoadIndex, ThreadStoreIndex, ThreadTestSend, ThreadPeek,
         ThreadPublish, ThreadSetToken, ThreadSetBusy, ThreadMoves, ThreadRuns
<1>2. ASSUME NEW m \in ThreadMsgs, ThreadPrepare(m)
      PROVE  RingState'
  <2>1. /\ RingKept /\ UNCHANGED <<irq, failed_assert>>
        /\ thread.pc = "idle" /\ thread'.pc = "check"
    BY <1>2 DEF ThreadPrepare, ThreadMoves, ThreadRuns, ThreadUnchanged, ThreadIdle, RingKept, qvars
  <2>2. QED
    BY <1>1, <2>1, RingFilledKept
       DEF RingState, RingWindow, RingKept, NextSpot, IrqAlone, RefusedMeansFull
<1>3. CASE ThreadCheckSpot
  <2>1. CASE Fail("insert_success")
    <3>1. RingKept /\ UNCHANGED <<irq, thread>> /\ QueueFull /\ thread.pc = "check"
      BY <1>3, <2>1
         DEF Fail, ThreadCheckSpot, RingKept, qvars, ThreadMoves, ThreadRuns, ThreadUnchanged
    <3>2. Occupied = Slots
      BY <1>1, <3>1, OccupiedSpotMeansFull DEF NextSpot, QueueFull
    <3>3. QED
      BY <1>1, <3>1, <3>2, RingFilledKept
         DEF RingState, RingWindow, RingKept, NextSpot, IrqAlone, RefusedMeansFull
  <2>2. CASE ~QueueFull /\ ThreadMoves("check", [thread EXCEPT !.pc = "copy", !.spot = insertion_index])
    <3>1. /\ RingKept /\ UNCHANGED <<irq, failed_assert>>
          /\ thread.pc = "check" /\ thread'.pc = "copy"
          /\ thread'.spot = insertion_index /\ elements[insertion_index] = Empty
      BY <1>1, <2>2
         DEF ThreadMoves, ThreadRuns, ThreadUnchanged, RingKept, qvars, QueueFull, ThreadStates
    <3>2. QED
      BY <1>1, <3>1, RingFilledKept
         DEF RingState, RingWindow, RingKept, NextSpot, IrqAlone, RefusedMeansFull
  <2>3. QED
    BY <1>3, <2>1, <2>2 DEF ThreadCheckSpot
<1>4. CASE ThreadCopy
  <2>1. /\ thread.pc = "copy" /\ thread'.pc = "rest" /\ thread'.spot = thread.spot
        /\ thread.spot = insertion_index /\ insertion_index \in Slots
        /\ elements[thread.spot] = Empty
        /\ elements' = [elements EXCEPT ![thread.spot] = Torn]
        /\ Torn \in Msg
        /\ UNCHANGED <<insertion_index, peek_index, irq, failed_assert>>
    BY <1>1, <1>4, TornAssumption
       DEF ThreadCopy, ThreadRuns, ThreadUnchanged, ThreadStates, RingState, RingWindow, QueueTypeOK
  <2>2. insertion_index = Position(Queued + 1)
    BY <1>1, <2>1 DEF NextSpot
  <2>3. RingFilled' /\ Advance(insertion_index) = Position(Queued + 1)'
    BY <1>1, <2>1, <2>2, AddedMessage
  <2>4. NextSpot' = Advance(insertion_index)
    BY <2>1 DEF NextSpot, Advance
  <2>5. QED
    BY <1>1, <2>1, <2>3, <2>4 DEF RingState, RingWindow, IrqAlone, RefusedMeansFull
<1>13. CASE ThreadCopyRest
  <2>1. /\ thread.pc = "rest" /\ thread'.pc = "load"
        /\ elements' = [elements EXCEPT ![thread.spot] = Completed(elements[thread.spot])]
        /\ UNCHANGED <<insertion_index, peek_index, irq, failed_assert>>
    BY <1>1, <1>13 DEF ThreadCopyRest, ThreadRuns, ThreadUnchanged, ThreadIdle, ThreadStates
  <2>2. /\ RingFilled' /\ Queued' = Queued /\ Occupied' = Occupied
        /\ Position(Queued + 1)' = Position(Queued + 1)
    BY <1>1, <2>1, CompletedRing
  <2>3. NextSpot' = NextSpot
    BY <2>1 DEF NextSpot, Advance
  <2>4. QED
    BY <1>1, <2>1, <2>2, <2>3 DEF RingState, RingWindow, IrqAlone, RefusedMeansFull
<1>5. CASE ThreadLoadIndex
  <2>1. /\ RingKept /\ UNCHANGED <<irq, failed_assert>>
        /\ thread.pc = "load" /\ thread'.pc = "store" /\ thread'.spot = insertion_index
    BY <1>1, <1>5
       DEF ThreadLoadIndex, ThreadMoves, ThreadRuns, ThreadUnchanged, RingKept, qvars, ThreadStates
  <2>2. NextSpot' = NextSpot
    BY <2>1 DEF NextSpot, RingKept, Advance
  <2>3. QED
    BY <1>1, <2>1, <2>2, RingFilledKept DEF RingState, RingWindow, RingKept, IrqAlone, RefusedMeansFull
<1>6. CASE ThreadStoreIndex
  <2>1. /\ thread.pc = "store" /\ thread'.pc = "test" /\ thread.spot = insertion_index
        /\ insertion_index' = Advance(insertion_index)
        /\ UNCHANGED <<elements, peek_index, irq, failed_assert>>
    BY <1>1, <1>6
       DEF ThreadStoreIndex, ThreadRuns, ThreadUnchanged, ThreadIdle, RingState, RingWindow
  <2>2. RingFilled' /\ Position(Queued + 1)' = Position(Queued + 1)
    BY <1>1, <2>1 DEF RingFilled, Queued, Occupied, Position
  <2>3. NextSpot' = NextSpot
    BY <2>1 DEF NextSpot
  <2>4. QED
    BY <1>1, <2>1, <2>2, <2>3 DEF RingState, RingWindow, IrqAlone, RefusedMeansFull
<1>7. ASSUME RingKept, UNCHANGED irq,
             failed_assert' # "insert_success",
             thread.pc \in {"test", "peek", "publish", "token", "busy"},
             thread'.pc \in {"idle", "test", "peek", "publish", "token", "busy"}
      PROVE  RingState'
  BY <1>1, <1>7, RingFilledKept
     DEF RingState, RingWindow, RingKept, NextSpot, IrqAlone, RefusedMeansFull
<1>8. CASE ThreadTestSend
  <2>1. /\ RingKept /\ UNCHANGED <<irq, failed_assert>>
        /\ thread.pc = "test" /\ thread'.pc \in {"idle", "peek"}
    BY <1>1, <1>8
       DEF ThreadTestSend, ThreadMoves, ThreadRuns, ThreadUnchanged, RingKept, qvars, ThreadStates,
           ThreadIdle
  <2>2. QED
    BY <1>1, <1>7, <2>1
<1>9. CASE ThreadPeek
  <2>1. /\ RingKept /\ UNCHANGED <<irq, failed_assert>>
        /\ thread.pc = "peek" /\ thread'.pc \in {"idle", "publish"}
    BY <1>1, <1>9
       DEF ThreadPeek, ThreadMoves, ThreadRuns, ThreadUnchanged, RingKept, qvars, ThreadStates,
           ThreadIdle
  <2>2. QED
    BY <1>1, <1>7, <2>1
<1>10. CASE ThreadPublish
  <2>1. /\ RingKept /\ UNCHANGED irq /\ failed_assert' \in {"none", "unknown_model", "err_code"}
        /\ thread.pc = "publish" /\ thread'.pc \in {"publish", "token"}
    BY <1>1, <1>10
       DEF ThreadPublish, Fail, ThreadRuns, ThreadUnchanged, RingKept, qvars, ThreadIdle
  <2>2. QED
    BY <1>1, <1>7, <2>1
<1>11. CASE ThreadSetToken \/ ThreadSetBusy
  <2>1. /\ RingKept /\ UNCHANGED <<irq, failed_assert>>
        /\ thread.pc \in {"token", "busy"} /\ thread'.pc \in {"busy", "idle"}
    BY <1>1, <1>11
       DEF ThreadSetToken, ThreadSetBusy, ThreadRuns, ThreadUnchanged, RingKept, qvars, ThreadIdle,
           ThreadStates
  <2>2. QED
    BY <1>1, <1>7, <2>1
<1>12. QED
  BY <1>2, <1>3, <1>4, <1>13, <1>5, <1>6, <1>8, <1>9, <1>10, <1>11 DEF ThreadContinues

\* An interrupt fills a slot only while the thread is idle; it pops at any time.
LEMMA IrqKeepsRing ==
  ASSUME ~CallersOverlap, RingState, TypeInv',
         ReplyEntries \/ PublishEntries \/ IrqPrepare \/ IrqPrepareFails
           \/ LocalTableChange \/ StackReports \/ TimerToSend
  PROVE  RingState'
<1>. USE CapacityAssumption
<1>1. /\ QueueTypeOK /\ QueueTypeOK'
      /\ RingFilled
      /\ NextSpot = Position(Queued + 1)
      /\ failed_assert = "none"
  BY DEF RingState, RingWindow, TypeInv, SenderTypeOK, ReplyEntries, PublishEntries, MayPrepare, IrqRuns,
         IrqPrepare, IrqPrepareFails, LocalTableChange, ThreadRuns, StackReports, TxComplete,
         TxCompleteOther, TxCompleteFails, Reported, TimerToSend
<1>2. ASSUME RingKept, UNCHANGED thread, irq' # <<>> => thread.pc = "idle",
             failed_assert' = "insert_success" => Occupied = Slots
      PROVE  RingState'
  <2>1. NextSpot' = NextSpot
    BY <1>2 DEF NextSpot, RingKept
  <2>2. QED
    BY <1>1, <1>2, <2>1, RingFilledKept
       DEF RingState, RingWindow, RingKept, IrqAlone, RefusedMeansFull
<1>3. CASE ReplyEntries \/ PublishEntries
  BY <1>1, <1>2, <1>3 DEF ReplyEntries, PublishEntries, MayPrepare, RingKept, qvars
<1>4. CASE IrqPrepare
  <2>1. /\ thread.pc = "idle" /\ UNCHANGED <<thread, peek_index, failed_assert>>
        /\ Head(irq) \in Msg
        /\ insertion_index \in Slots /\ elements[insertion_index] = Empty
        /\ elements' = [elements EXCEPT ![insertion_index] = Head(irq)]
        /\ insertion_index' = Advance(insertion_index)
    BY <1>1, <1>4
       DEF IrqPrepare, Enqueue, QueueFull, QueueTypeOK, RingState, IrqAlone, TypeInv, SenderTypeOK
  <2>2. insertion_index = Position(Queued + 1)
    BY <1>1, <2>1 DEF NextSpot
  <2>3. RingFilled' /\ Advance(insertion_index) = Position(Queued + 1)'
    BY <1>1, <2>1, <2>2, AddedMessage
  <2>4. NextSpot' = insertion_index'
    BY <2>1 DEF NextSpot
  <2>5. QED
    BY <1>1, <2>1, <2>3, <2>4 DEF RingState, RingWindow, IrqAlone, RefusedMeansFull
<1>5. CASE IrqPrepareFails
  <2>1. thread.pc = "idle"
    BY <1>5 DEF IrqPrepareFails, RingState, IrqAlone
  <2>2. QueueFull => Occupied = Slots
    BY <1>1, <2>1, OccupiedSpotMeansFull DEF NextSpot, QueueFull
  <2>3. QED
    BY <1>2, <1>5, <2>1, <2>2 DEF IrqPrepareFails, Fail, RingKept, qvars
<1>6. CASE LocalTableChange
  BY <1>1, <1>2, <1>6 DEF LocalTableChange, RingKept, qvars, RingState, IrqAlone
<1>7. ASSUME NEW x \in in_flight, TxComplete(x)
      PROVE  RingState'
  <2>1. /\ Peek # Empty /\ Pop
        /\ UNCHANGED <<thread, irq, insertion_index, failed_assert>>
        /\ elements' = [elements EXCEPT ![peek_index] = Empty]
    BY <1>7 DEF TxComplete, Pop
  <2>2. /\ Queued > 0 /\ Queued' = Queued - 1 /\ RingFilled'
        /\ \A k \in 1 .. Capacity : Position(k)' = Position(k + 1)
    BY <1>1, <2>1, RemovedMessage
  <2>3. Position(Queued + 1)' = Position(Queued + 1)
    <3>1. Queued \in 1 .. Capacity /\ peek_index \in Slots
      BY <1>1, <2>2 DEF RingFilled, QueueTypeOK
    <3>2. peek_index' = IF peek_index = Capacity - 1 THEN 0 ELSE peek_index + 1
      BY <2>1, <3>1, AdvanceIsSuccessor DEF Pop
    <3>3. QED
      BY <2>2, <3>1, <3>2 DEF Position, Slots
  <2>4. NextSpot' = NextSpot
    BY <2>1 DEF NextSpot, Advance
  <2>5. thread.pc = "copy" => elements'[thread.spot] = Empty
    BY <1>1, <2>1 DEF RingState, RingWindow, QueueTypeOK
  <2>6. QED
    BY <1>1, <2>1, <2>2, <2>3, <2>4, <2>5
       DEF RingState, RingWindow, IrqAlone, RefusedMeansFull
<1>8. ASSUME NEW x \in in_flight, TxCompleteOther(x) \/ TxCompleteFails(x)
      PROVE  RingState'
  BY <1>1, <1>2, <1>8
     DEF TxCompleteOther, TxCompleteFails, Reported, IrqRuns, Fail, RingKept, qvars
<1>9. CASE TimerToSend
  BY <1>1, <1>2, <1>9 DEF TimerToSend, IrqRuns, RingKept, qvars
<1>10. QED
  BY <1>3, <1>4, <1>5, <1>6, <1>7, <1>8, <1>9 DEF StackReports

\* Neither TX complete nor the timer can break the ring while the thread is
\* between the copy of a message and the store of the insertion index.
LEMMA RingInvariance ==
  ASSUME ~CallersOverlap
  PROVE  Spec => []RingState
<1>1. RingState /\ [Next]_vars => RingState'
  <2>. SUFFICES ASSUME RingState, [Next]_vars
                PROVE  RingState'
    OBVIOUS
  <2>1. CASE Next
    <3>1. TypeInv'
      BY <2>1, ThreadKeepsTypes, IrqKeepsTypes DEF Next, RingState
    <3>2. QED
      BY <2>1, <3>1, ThreadKeepsRing, IrqKeepsRing DEF Next
  <2>2. CASE UNCHANGED vars
    <3>1. TypeInv'
      BY <2>2
         DEF vars, qvars, sending, app, RingState, TypeInv, SenderTypeOK, StackBounded, QueueTypeOK
    <3>2. QED
      BY <2>2, <3>1
         DEF vars, qvars, RingState, RingWindow, RingFilled, Queued, Occupied, Position, NextSpot,
             Advance, IrqAlone, RefusedMeansFull
  <2>3. QED
    BY <2>1, <2>2
<1>2. QED
  BY <1>1, InitRing, PTL DEF Spec

\* "Insertion spot is occupied: queue is full": the test of
\* luos_mesh_msg_queue_enqueue means what its comment says, as long as no
\* interrupt prepares a message while the thread does.
THEOREM RefusalMeansFull ==
  ASSUME ~CallersOverlap
  PROVE  Spec => []RefusedMeansFull
  BY RingInvariance, PTL DEF RingState
-----------------------------------------------------------------------------
\* What the manager is doing with the oldest message. Handing over is the
\* window in which the thread has published the message and not yet written
\* s_curr_tx_token and the send flag.

\* The thread is inside luos_mesh_msg_prepare and will still send.
InsidePrepare == thread.pc \in {"rest", "load", "store", "test", "peek", "publish"}

\* Nothing is sent. If messages wait, the thread is about to send the oldest.
Ready ==
  /\ s_is_possible_to_send /\ ~s_timer_to_send
  /\ in_flight = {} /\ s_curr_tx_token = DefaultToken
  /\ thread.pc \notin {"token", "busy"}
  /\ Occupied # {} => InsidePrepare

\* The thread is not in send_mesh_msg.
OutsideSending == thread.pc \notin {"peek", "publish", "token", "busy"}

\* A message was completed; the pacing timer sends the next.
Waiting ==
  /\ ~s_is_possible_to_send /\ s_timer_to_send
  /\ in_flight = {} /\ s_curr_tx_token = DefaultToken
  /\ OutsideSending

\* The oldest message is on the air and TX complete will find its token.
Sent ==
  /\ ~s_is_possible_to_send /\ ~s_timer_to_send
  /\ Peek # Empty
  /\ in_flight = {[token |-> s_curr_tx_token, msg |-> Peek]}
  /\ s_curr_tx_token # DefaultToken
  /\ OutsideSending

\* The thread is in the window between publishing and the two stores.
HandingOver ==
  /\ s_is_possible_to_send /\ ~s_timer_to_send
  /\ Peek # Empty
  /\ in_flight = {[token |-> thread.token, msg |-> Peek]}
  /\ s_curr_tx_token = IF thread.pc = "busy" THEN thread.token ELSE DefaultToken
  /\ thread.pc \in {"token", "busy"}

\* One of the four at any time.
Phases == Ready \/ Waiting \/ Sent \/ HandingOver

\* What the thread carries from one step of send_mesh_msg to the next.
ThreadSends ==
  /\ thread.token # DefaultToken <=> thread.pc \in {"token", "busy"}
  /\ thread.pc = "publish" => Peek # Empty /\ thread.spot = peek_index

\* The one element that is not whole is the one the thread is copying.
CopyState ==
  /\ \A i \in Slots : elements[i] = Torn <=> thread.pc = "rest" /\ thread.spot = i
  /\ \A k \in 1 .. Len(irq) : irq[k] # Torn
  /\ SentWhole

\* The invariant behind NoStall and the refinement.
SendState == RingState /\ CopyState /\ Phases /\ ThreadSends

\* An empty peek spot means an empty queue.
EmptyPeek ==
  /\ Peek = Empty <=> Occupied = {}
  /\ Occupied = {} <=> Queued = 0

\* The ring is filled from the peek index, so its first slot tells.
LEMMA EmptyPeekMeansEmpty == QueueTypeOK /\ RingFilled => EmptyPeek
<1>. SUFFICES ASSUME QueueTypeOK, RingFilled
              PROVE  EmptyPeek
  OBVIOUS
<1>. USE CapacityAssumption
<1>1. Queued \in 0 .. Capacity /\ 1 \in 1 .. Capacity /\ Position(1) = peek_index
  BY PositionInRing DEF RingFilled
<1>2. Peek = Empty <=> Queued = 0
  BY <1>1 DEF RingFilled, Peek
<1>3. Queued = 0 => Occupied = {}
  BY PositionInRing DEF RingFilled, Occupied
<1>4. Occupied = {} => Queued = 0
  BY FS_EmptySet DEF Queued
<1>5. QED
  BY <1>2, <1>3, <1>4 DEF EmptyPeek

\* A stack that holds nothing has a buffer and a fresh token.
LEMMA FreeStack ==
  ASSUME TypeInv, in_flight = {}
  PROVE  /\ ~NoBuffer
         /\ FreshToken # DefaultToken
         /\ \A elm : Publish(FreshToken, elm) => in_flight' = {[token |-> FreshToken, msg |-> elm]}
<1>1. ~NoBuffer
  BY FS_EmptySet, SenderAssumption DEF NoBuffer
<1>2. FreshToken \in Tokens
  BY <1>1, FreshTokenExists DEF TypeInv
<1>3. QED
  BY <1>1, <1>2, SenderAssumption DEF Publish, Tokens, DefaultToken

\* The peek element stays when a message is added to a queue that has one.
LEMMA PeekKept ==
  ASSUME QueueTypeOK, NEW m, NEW spot, elements[spot] = Empty, Peek # Empty,
         elements' = [elements EXCEPT ![spot] = m], peek_index' = peek_index
  PROVE  Peek' = Peek
  BY DEF Peek, QueueTypeOK

\* The manager starts ready.
LEMMA InitPhases == Init => Phases /\ ThreadSends
<1>. SUFFICES ASSUME Init
              PROVE  Phases /\ ThreadSends
  OBVIOUS
<1>1. Occupied = {}
  BY DEF Init, InitQueue, Occupied
<1>2. thread.pc = "idle" /\ thread.token = DefaultToken
  BY DEF Init, ThreadIdle
<1>3. QED
  BY <1>1, <1>2 DEF Init, Phases, Ready, ThreadSends

\* Each step of the thread leads from one phase to one.
LEMMA ThreadKeepsPhases ==
  ASSUME SendState, RingState', ThreadContinues \/ \E m \in ThreadMsgs : ThreadPrepare(m)
  PROVE  Phases' /\ ThreadSends'
<1>. USE CapacityAssumption
<1>1. /\ QueueTypeOK /\ RingFilled /\ TypeInv
      /\ thread \in ThreadStates
      /\ CopyState /\ Phases /\ ThreadSends
  BY DEF SendState, RingState, RingWindow, TypeInv, SenderTypeOK
<1>2. ASSUME UNCHANGED <<elements, peek_index, sending, s_timer_to_send>>,
             thread.pc \notin {"publish", "token", "busy"}, thread'.token = DefaultToken,
             thread'.pc \in {"idle", "check", "copy", "rest", "load", "store", "test"},
             Ready /\ Occupied # {} => thread'.pc \in {"load", "store", "test"}
      PROVE  Phases' /\ ThreadSends'
  BY <1>1, <1>2
     DEF Phases, Ready, Waiting, Sent, HandingOver, ThreadSends, InsidePrepare, OutsideSending,
         Occupied, Peek, sending
<1>3. thread.pc \notin {"token", "busy"} => thread.token = DefaultToken
  BY <1>1 DEF ThreadSends
<1>4. ASSUME NEW m \in ThreadMsgs, ThreadPrepare(m)
      PROVE  Phases' /\ ThreadSends'
  <2>1. /\ UNCHANGED <<elements, peek_index, sending, s_timer_to_send>>
        /\ thread.pc = "idle" /\ thread'.pc = "check" /\ thread'.token = DefaultToken
    BY <1>4 DEF ThreadPrepare, ThreadMoves, ThreadRuns, ThreadUnchanged, ThreadIdle, qvars
  <2>2. QED
    BY <1>2, <2>1 DEF Ready, InsidePrepare
<1>5. CASE ThreadCheckSpot
  <2>1. CASE Fail("insert_success")
    BY <1>1, <2>1
       DEF Fail, Phases, Ready, Waiting, Sent, HandingOver, ThreadSends, InsidePrepare, OutsideSending,
           Occupied, Peek, qvars, sending
  <2>2. CASE ThreadMoves("check", [thread EXCEPT !.pc = "copy", !.spot = insertion_index])
    <3>1. /\ UNCHANGED <<elements, peek_index, sending, s_timer_to_send>>
          /\ thread.pc = "check" /\ thread'.pc = "copy" /\ thread'.token = thread.token
      BY <1>1, <2>2 DEF ThreadMoves, ThreadRuns, ThreadUnchanged, ThreadStates, qvars
    <3>2. QED
      BY <1>2, <1>3, <3>1 DEF Ready, InsidePrepare
  <2>3. QED
    BY <1>5, <2>1, <2>2 DEF ThreadCheckSpot
<1>6. CASE ThreadCopy
  <2>1. /\ thread.pc = "copy" /\ thread'.pc = "rest" /\ thread'.token = DefaultToken
        /\ elements[thread.spot] = Empty
        /\ elements' = [elements EXCEPT ![thread.spot] = Torn]
        /\ UNCHANGED <<peek_index, sending, s_timer_to_send>>
    BY <1>1, <1>3, <1>6
       DEF ThreadCopy, ThreadRuns, ThreadUnchanged, ThreadStates, SendState, RingState, RingWindow
  <2>2. Peek # Empty => Peek' = Peek
    BY <1>1, <2>1, PeekKept
  <2>3. QED
    BY <1>1, <2>1, <2>2
       DEF Phases, Ready, Waiting, Sent, HandingOver, ThreadSends, InsidePrepare, OutsideSending, sending
<1>15. CASE ThreadCopyRest
  <2>1. /\ thread.pc = "rest" /\ thread'.pc = "load" /\ thread'.token = DefaultToken
        /\ thread.spot \in Slots
        /\ elements' = [elements EXCEPT ![thread.spot] = Completed(elements[thread.spot])]
        /\ UNCHANGED <<peek_index, sending, s_timer_to_send>>
    BY <1>1, <1>15 DEF ThreadCopyRest, ThreadRuns, ThreadUnchanged, ThreadIdle, ThreadStates
  <2>2. Sent => Peek' = Peek
    <3>1. SUFFICES ASSUME Sent PROVE Peek' = Peek
      OBVIOUS
    <3>2. Peek # Torn
      BY <1>1, <3>1 DEF Sent, CopyState, SentWhole
    <3>3. peek_index \in Slots /\ elements[thread.spot] = Torn
      BY <1>1, <2>1 DEF CopyState, QueueTypeOK
    <3>4. peek_index # thread.spot
      BY <3>2, <3>3 DEF Peek
    <3>5. QED
      BY <1>1, <2>1, <3>3, <3>4 DEF Peek, QueueTypeOK
  <2>3. QED
    BY <1>1, <2>1, <2>2
       DEF Phases, Ready, Waiting, Sent, HandingOver, ThreadSends, InsidePrepare, OutsideSending, sending
<1>7. CASE ThreadLoadIndex
  <2>1. /\ UNCHANGED <<elements, peek_index, sending, s_timer_to_send>>
        /\ thread.pc = "load" /\ thread'.pc = "store" /\ thread'.token = thread.token
    BY <1>1, <1>7
       DEF ThreadLoadIndex, ThreadMoves, ThreadRuns, ThreadUnchanged, ThreadStates, qvars
  <2>2. QED
    BY <1>2, <1>3, <2>1
<1>8. CASE ThreadStoreIndex
  <2>1. /\ UNCHANGED <<elements, peek_index, sending, s_timer_to_send>>
        /\ thread.pc = "store" /\ thread'.pc = "test" /\ thread'.token = DefaultToken
    BY <1>8 DEF ThreadStoreIndex, ThreadRuns, ThreadUnchanged, ThreadIdle
  <2>2. QED
    BY <1>2, <2>1
<1>9. CASE ThreadTestSend
  <2>1. /\ UNCHANGED <<elements, peek_index, sending, s_timer_to_send>>
        /\ thread.pc = "test"
        /\ IF s_is_possible_to_send
           THEN thread'.pc = "peek" /\ thread'.token = thread.token
           ELSE thread'.pc = "idle" /\ thread'.token = DefaultToken
    BY <1>1, <1>9
       DEF ThreadTestSend, ThreadMoves, ThreadRuns, ThreadUnchanged, ThreadStates, ThreadIdle, qvars
  <2>2. CASE ~s_is_possible_to_send
    BY <1>2, <2>1, <2>2 DEF Ready
  <2>3. CASE s_is_possible_to_send
    <3>1. Ready
      BY <1>1, <2>1, <2>3 DEF Phases, Waiting, Sent, HandingOver
    <3>2. QED
      BY <1>3, <2>1, <2>3, <3>1
         DEF Phases, Ready, ThreadSends, InsidePrepare, Occupied, sending
  <2>4. QED
    BY <2>2, <2>3
<1>10. CASE ThreadPeek
  <2>1. /\ UNCHANGED <<elements, peek_index, sending, s_timer_to_send>>
        /\ thread.pc = "peek"
        /\ IF Peek = Empty
           THEN thread'.pc = "idle" /\ thread'.token = DefaultToken
           ELSE thread'.pc = "publish" /\ thread'.token = thread.token /\ thread'.spot = peek_index
    BY <1>1, <1>10
       DEF ThreadPeek, ThreadMoves, ThreadRuns, ThreadUnchanged, ThreadStates, ThreadIdle, qvars
  <2>2. CASE Peek = Empty
    BY <1>1, <1>2, <2>1, <2>2, EmptyPeekMeansEmpty DEF EmptyPeek
  <2>3. CASE Peek # Empty
    <3>1. Ready
      BY <1>1, <2>1 DEF Phases, Waiting, Sent, HandingOver, OutsideSending
    <3>2. QED
      BY <1>3, <2>1, <2>3, <3>1
         DEF Phases, Ready, ThreadSends, InsidePrepare, Occupied, Peek, sending
  <2>4. QED
    BY <2>2, <2>3
<1>11. CASE ThreadPublish
  <2>1. /\ Ready /\ thread.pc = "publish"
        /\ elements[thread.spot] = Peek /\ Peek # Empty
    BY <1>1, <1>11
       DEF ThreadPublish, ThreadRuns, Phases, Waiting, Sent, HandingOver, OutsideSending, ThreadSends, Peek
  <2>2. ~NoBuffer /\ FreshToken # DefaultToken
    BY <1>1, <2>1, FreeStack DEF Ready
  <2>3. /\ in_flight' = {[token |-> FreshToken, msg |-> Peek]}
        /\ thread'.pc = "token" /\ thread'.token = FreshToken
        /\ UNCHANGED <<elements, peek_index, s_is_possible_to_send, s_curr_tx_token, s_timer_to_send>>
    BY <1>1, <1>11, <2>1, <2>2, FreeStack
       DEF ThreadPublish, Ready, ThreadIdle, ThreadUnchanged, qvars
  <2>4. QED
    BY <2>1, <2>2, <2>3 DEF Phases, Ready, HandingOver, ThreadSends, Peek
<1>12. CASE ThreadSetToken
  <2>1. /\ thread.pc = "token" /\ thread'.pc = "busy" /\ thread'.token = thread.token
        /\ s_curr_tx_token' = thread.token
        /\ UNCHANGED <<elements, peek_index, s_is_possible_to_send, in_flight, s_timer_to_send>>
    BY <1>1, <1>12 DEF ThreadSetToken, ThreadRuns, ThreadUnchanged, ThreadStates, qvars
  <2>2. HandingOver
    BY <1>1, <2>1 DEF Phases, Ready, Waiting, Sent, OutsideSending
  <2>3. QED
    BY <1>1, <2>1, <2>2 DEF Phases, HandingOver, ThreadSends, Peek
<1>13. CASE ThreadSetBusy
  <2>1. /\ thread.pc = "busy" /\ thread'.pc = "idle" /\ thread'.token = DefaultToken
        /\ s_is_possible_to_send' = FALSE
        /\ UNCHANGED <<elements, peek_index, s_curr_tx_token, in_flight, s_timer_to_send>>
    BY <1>13 DEF ThreadSetBusy, ThreadRuns, ThreadUnchanged, ThreadIdle, qvars
  <2>2. HandingOver
    BY <1>1, <2>1 DEF Phases, Ready, Waiting, Sent, OutsideSending
  <2>3. QED
    BY <1>1, <2>1, <2>2 DEF Phases, HandingOver, Sent, OutsideSending, ThreadSends, Peek
<1>14. QED
  BY <1>4, <1>5, <1>6, <1>15, <1>7, <1>8, <1>9, <1>10, <1>11, <1>12, <1>13 DEF ThreadContinues

\* send_mesh_msg from an interrupt that finds the stack free.
LEMMA SendFromReady ==
  ASSUME TypeInv, in_flight = {}, s_curr_tx_token = DefaultToken, SendMeshMsg(Peek'), ~s_timer_to_send',
         UNCHANGED thread, OutsideSending, Peek' = Empty => Occupied' = {}
  PROVE  Phases'
<1>1. CASE Peek' = Empty
  BY <1>1 DEF SendMeshMsg, Phases, Ready, OutsideSending
<1>2. CASE Peek' # Empty
  <2>1. /\ s_is_possible_to_send' = FALSE /\ s_curr_tx_token' = FreshToken
        /\ Publish(FreshToken, Peek')
    BY <1>2 DEF SendMeshMsg
  <2>2. in_flight' = {[token |-> FreshToken, msg |-> Peek']} /\ FreshToken # DefaultToken
    BY <2>1, FreeStack
  <2>3. QED
    BY <1>2, <2>1, <2>2 DEF Phases, Sent, OutsideSending
<1>3. QED
  BY <1>1, <1>2

\* So does TX complete, which answers the token it finds, the pacing timer, and a
\* message that an interrupt prepares.
LEMMA IrqKeepsPhases ==
  ASSUME ~EarlyComplete, SendState, RingState',
         ReplyEntries \/ PublishEntries \/ IrqPrepare \/ IrqPrepareFails
           \/ LocalTableChange \/ StackReports \/ TimerToSend
  PROVE  Phases' /\ ThreadSends'
<1>. USE CapacityAssumption
<1>1. /\ QueueTypeOK /\ QueueTypeOK' /\ RingFilled /\ RingFilled' /\ TypeInv
      /\ thread \in ThreadStates
      /\ NextSpot = Position(Queued + 1)
      /\ Phases /\ ThreadSends
  BY DEF SendState, RingState, RingWindow, TypeInv, SenderTypeOK
<1>2. EmptyPeek'
  BY <1>1, EmptyPeekMeansEmpty, PTL
<1>3. ASSUME UNCHANGED <<elements, peek_index, sending, s_timer_to_send, thread>>
      PROVE  Phases' /\ ThreadSends'
  BY <1>1, <1>3
     DEF Phases, Ready, Waiting, Sent, HandingOver, ThreadSends, InsidePrepare, OutsideSending,
         Occupied, Peek, sending
<1>4. CASE ReplyEntries \/ PublishEntries \/ LocalTableChange
  BY <1>3, <1>4 DEF ReplyEntries, PublishEntries, LocalTableChange, qvars
<1>5. CASE IrqPrepareFails
  BY <1>3, <1>5 DEF IrqPrepareFails, Fail, qvars
<1>6. ASSUME NEW x \in in_flight, TxCompleteFails(x)
      PROVE  Phases' /\ ThreadSends'
  BY <1>3, <1>6 DEF TxCompleteFails, Fail, qvars
<1>7. CASE IrqPrepare
  <2>1. /\ thread.pc = "idle" /\ UNCHANGED <<thread, peek_index, s_timer_to_send>>
        /\ elements[insertion_index] = Empty /\ insertion_index \in Slots
        /\ Head(irq) \in Msg
        /\ elements' = [elements EXCEPT ![insertion_index] = Head(irq)]
    BY <1>1, <1>7
       DEF IrqPrepare, Enqueue, QueueFull, QueueTypeOK, SendState, RingState, IrqAlone, TypeInv, SenderTypeOK
  <2>2. ThreadSends'
    BY <1>1, <2>1 DEF ThreadSends
  <2>3. Peek # Empty => Peek' = Peek
    BY <1>1, <2>1, PeekKept
  <2>4. CASE s_is_possible_to_send
    <3>1. Ready /\ Occupied = {}
      BY <1>1, <2>1, <2>4 DEF Phases, Ready, Waiting, Sent, HandingOver, InsidePrepare
    <3>2. SendMeshMsg(Peek')
      BY <1>7, <2>1, <2>4 DEF IrqPrepare, Peek
    <3>3. Peek' = Empty => Occupied' = {}
      BY <1>2 DEF EmptyPeek
    <3>4. QED
      BY <1>1, <2>1, <2>2, <3>1, <3>2, <3>3, SendFromReady DEF Ready, OutsideSending
  <2>5. CASE ~s_is_possible_to_send
    <3>1. UNCHANGED sending
      BY <1>7, <2>5 DEF IrqPrepare
    <3>2. QED
      BY <1>1, <2>1, <2>2, <2>3, <2>5, <3>1
         DEF Phases, Ready, Waiting, Sent, HandingOver, OutsideSending, sending
  <2>6. QED
    BY <2>4, <2>5
<1>8. ASSUME NEW x \in in_flight, Reported(x)
      PROVE  Sent /\ x.token = s_curr_tx_token /\ in_flight' = {}
  BY <1>1, <1>8 DEF Reported, Phases, Ready, Waiting, Sent, HandingOver
<1>9. ASSUME NEW x \in in_flight, TxComplete(x)
      PROVE  Phases' /\ ThreadSends'
  <2>1. /\ Sent /\ in_flight' = {}
        /\ s_curr_tx_token' = DefaultToken /\ s_timer_to_send' = TRUE
        /\ UNCHANGED <<s_is_possible_to_send, thread>>
    BY <1>8, <1>9 DEF TxComplete
  <2>2. QED
    BY <1>1, <2>1 DEF Phases, Sent, Waiting, OutsideSending, ThreadSends
<1>10. ASSUME NEW x \in in_flight, TxCompleteOther(x)
      PROVE  FALSE
  BY <1>8, <1>10 DEF TxCompleteOther
<1>11. CASE TimerToSend
  <2>1. Waiting
    BY <1>1, <1>11 DEF TimerToSend, Phases, Ready, Sent, HandingOver
  <2>2. ~NoBuffer
    BY <1>1, <2>1, FreeStack DEF Waiting
  <2>3. /\ SendMeshMsg(Peek) /\ s_timer_to_send' = FALSE
        /\ UNCHANGED <<elements, peek_index, thread>>
    BY <1>11, <2>2 DEF TimerToSend, qvars
  <2>4. Peek' = Peek
    BY <2>3 DEF Peek
  <2>5. Peek' = Empty => Occupied' = {}
    BY <1>2 DEF EmptyPeek
  <2>6. SendMeshMsg(Peek')
    BY <2>3, <2>4 DEF SendMeshMsg, Publish
  <2>7. ThreadSends'
    BY <1>1, <2>3, <2>4 DEF ThreadSends
  <2>8. QED
    BY <1>1, <2>1, <2>3, <2>5, <2>6, <2>7, SendFromReady DEF Waiting
<1>12. QED
  BY <1>4, <1>5, <1>6, <1>7, <1>9, <1>10, <1>11 DEF StackReports

\* Nothing is torn at the start.
LEMMA InitCopy == Init => CopyState
<1>. SUFFICES ASSUME Init
              PROVE  CopyState
  OBVIOUS
<1>1. Torn # Empty
  BY TornAssumption, EmptyAssumption
<1>2. QED
  BY <1>1 DEF Init, InitQueue, ThreadIdle, CopyState, SentWhole

\* The thread completes what it has begun to copy before it goes on, and it
\* publishes from outside the copy.
LEMMA ThreadKeepsCopy ==
  ASSUME SendState, ThreadContinues \/ \E m \in ThreadMsgs : ThreadPrepare(m)
  PROVE  CopyState'
<1>1. /\ QueueTypeOK /\ thread \in ThreadStates
      /\ CopyState /\ Phases /\ ThreadSends
      /\ Torn # Empty
  BY TornAssumption, EmptyAssumption DEF SendState, RingState, RingWindow, TypeInv, SenderTypeOK
<1>2. ASSUME UNCHANGED <<elements, in_flight, irq>>,
             thread.pc # "rest", thread'.pc # "rest"
      PROVE  CopyState'
  BY <1>1, <1>2 DEF CopyState, SentWhole
<1>3. CASE ThreadCheckSpot
  <2>1. CASE Fail("insert_success")
    BY <1>1, <2>1 DEF Fail, CopyState, SentWhole, qvars, sending
  <2>2. CASE ThreadMoves("check", [thread EXCEPT !.pc = "copy", !.spot = insertion_index])
    BY <1>1, <1>2, <2>2 DEF ThreadMoves, ThreadRuns, ThreadUnchanged, ThreadStates, qvars, sending
  <2>3. QED
    BY <1>3, <2>1, <2>2 DEF ThreadCheckSpot
<1>4. CASE ThreadCopy
  <2>1. /\ thread.pc = "copy" /\ thread'.pc = "rest" /\ thread'.spot = thread.spot
        /\ elements' = [elements EXCEPT ![thread.spot] = Torn]
        /\ UNCHANGED <<in_flight, irq>>
    BY <1>1, <1>4 DEF ThreadCopy, ThreadRuns, ThreadUnchanged, ThreadStates, sending
  <2>2. QED
    BY <1>1, <2>1 DEF CopyState, SentWhole, QueueTypeOK
<1>5. CASE ThreadCopyRest
  <2>1. /\ thread.pc = "rest" /\ thread'.pc = "load"
        /\ thread.spot \in Slots /\ thread.msg \in ThreadMsgs
        /\ elements' = [elements EXCEPT ![thread.spot] = Completed(elements[thread.spot])]
        /\ UNCHANGED <<in_flight, irq>>
    BY <1>1, <1>5
       DEF ThreadCopyRest, ThreadRuns, ThreadUnchanged, ThreadIdle, ThreadStates, sending
  <2>2. thread.msg # Torn
    BY <2>1, ThreadMsgAssumption DEF Torn
  <2>3. elements[thread.spot] = Torn
    BY <1>1, <2>1 DEF CopyState
  <2>4. elements' = [elements EXCEPT ![thread.spot] = thread.msg]
    BY <1>1, <2>1, <2>3 DEF Completed
  <2>5. \A i \in Slots : elements'[i] # Torn
    BY <1>1, <2>1, <2>2, <2>4 DEF CopyState, QueueTypeOK
  <2>6. QED
    BY <1>1, <2>1, <2>5 DEF CopyState, SentWhole
<1>6. CASE ThreadPublish
  <2>1. thread.pc = "publish" /\ elements[thread.spot] # Torn
    BY <1>1, <1>6 DEF ThreadPublish, ThreadRuns, ThreadStates, CopyState
  <2>2. CASE Fail("unknown_model") \/ Fail("err_code")
    BY <1>1, <2>2 DEF Fail, CopyState, SentWhole, qvars, sending
  <2>3. CASE /\ Publish(FreshToken, elements[thread.spot])
             /\ thread' = [ThreadIdle EXCEPT !.pc = "token", !.token = FreshToken]
             /\ UNCHANGED <<qvars, irq>>
    BY <1>1, <2>1, <2>3 DEF Publish, ThreadIdle, CopyState, SentWhole, qvars
  <2>4. QED
    BY <1>6, <2>2, <2>3 DEF ThreadPublish, ThreadUnchanged
<1>7. CASE ThreadLoadIndex
  BY <1>1, <1>2, <1>7
     DEF ThreadLoadIndex, ThreadMoves, ThreadRuns, ThreadUnchanged, ThreadStates, qvars, sending
<1>8. CASE ThreadTestSend \/ ThreadPeek
  <2>1. /\ UNCHANGED <<elements, in_flight, irq>> /\ thread.pc \in {"test", "peek"}
        /\ thread'.pc \in {"idle", "peek", "publish"}
    <3>1. CASE ThreadTestSend
      BY <1>1, <3>1
         DEF ThreadTestSend, ThreadMoves, ThreadRuns, ThreadUnchanged, ThreadIdle, ThreadStates,
             qvars, sending
    <3>2. CASE ThreadPeek
      BY <1>1, <3>2
         DEF ThreadPeek, ThreadMoves, ThreadRuns, ThreadUnchanged, ThreadIdle, ThreadStates,
             qvars, sending
    <3>3. QED
      BY <1>8, <3>1, <3>2
  <2>2. QED
    BY <1>2, <2>1
<1>9. CASE ThreadStoreIndex \/ ThreadSetToken \/ ThreadSetBusy
  BY <1>1, <1>2, <1>9
     DEF ThreadStoreIndex, ThreadSetToken, ThreadSetBusy, ThreadRuns, ThreadUnchanged, ThreadIdle,
         ThreadStates, qvars, sending
<1>10. CASE \E m \in ThreadMsgs : ThreadPrepare(m)
  BY <1>1, <1>2, <1>10
     DEF ThreadPrepare, ThreadMoves, ThreadRuns, ThreadUnchanged, ThreadIdle, qvars, sending
<1>11. QED
  BY <1>3, <1>4, <1>5, <1>6, <1>7, <1>8, <1>9, <1>10 DEF ThreadContinues

\* An interrupt prepares whole messages, and what TX complete pops is the
\* message that was on the air.
LEMMA IrqKeepsCopy ==
  ASSUME ~CopyExposed, ~EarlyComplete, SendState,
         ReplyEntries \/ PublishEntries \/ IrqPrepare \/ IrqPrepareFails
           \/ LocalTableChange \/ StackReports \/ TimerToSend
  PROVE  CopyState'
<1>1. /\ QueueTypeOK /\ thread \in ThreadStates
      /\ CopyState /\ Phases
      /\ irq \in Seq(Msg) /\ nb_local_entries \in Nat
      /\ Torn # Empty
  BY TornAssumption, EmptyAssumption, SenderAssumption
     DEF SendState, RingState, RingWindow, TypeInv, SenderTypeOK
<1>2. ASSUME UNCHANGED <<elements, in_flight, thread, irq>>
      PROVE  CopyState'
  BY <1>1, <1>2 DEF CopyState, SentWhole
<1>3. CASE ReplyEntries \/ PublishEntries
  <2>1. /\ UNCHANGED <<elements, in_flight, thread>>
        /\ \/ irq' = [k \in 1 .. nb_local_entries |-> Reply(k - 1)]
           \/ irq' = [k \in 1 .. nb_local_entries |-> Status(k - 1)]
    BY <1>3 DEF ReplyEntries, PublishEntries, qvars, sending
  <2>2. \A k \in 1 .. Len(irq') : irq'[k] # Torn
    BY <1>1, <2>1 DEF Reply, Status, Torn
  <2>3. QED
    BY <1>1, <2>1, <2>2 DEF CopyState, SentWhole
<1>4. CASE IrqPrepare
  <2>1. /\ thread.pc = "idle" /\ irq # <<>> /\ irq' = Tail(irq)
        /\ elements' = [elements EXCEPT ![insertion_index] = Head(irq)]
        /\ insertion_index \in Slots
        /\ UNCHANGED <<thread, peek_index>>
    BY <1>1, <1>4 DEF IrqPrepare, Enqueue, SendState, RingState, IrqAlone, QueueTypeOK
  <2>2. Head(irq) # Torn /\ \A k \in 1 .. Len(irq') : irq'[k] # Torn
    <3>1. /\ Len(irq) \in Nat \ {0} /\ Head(irq) = irq[1]
          /\ Len(irq') = Len(irq) - 1
          /\ \A k \in 1 .. Len(irq') : irq'[k] = irq[k + 1]
      BY <1>1, <2>1, HeadTailProperties
    <3>2. 1 \in 1 .. Len(irq) /\ \A k \in 1 .. Len(irq') : k + 1 \in 1 .. Len(irq)
      BY <3>1
    <3>3. QED
      BY <1>1, <3>1, <3>2 DEF CopyState
  <2>3. \A i \in Slots : elements'[i] # Torn
    BY <1>1, <2>1, <2>2 DEF CopyState, QueueTypeOK
  <2>4. SentWhole'
    <3>1. elements'[peek_index] # Torn
      BY <1>1, <2>3 DEF QueueTypeOK
    <3>2. QED
      BY <1>1, <1>4, <3>1 DEF IrqPrepare, SendMeshMsg, Publish, CopyState, SentWhole, sending
  <2>5. QED
    BY <2>1, <2>2, <2>3, <2>4 DEF CopyState
<1>5. CASE IrqPrepareFails \/ LocalTableChange
  BY <1>2, <1>5 DEF IrqPrepareFails, Fail, LocalTableChange, qvars, sending
<1>6. ASSUME NEW x \in in_flight, TxComplete(x)
      PROVE  CopyState'
  <2>1. Sent
    BY <1>1, <1>6 DEF TxComplete, Reported, Phases, Ready, Waiting, HandingOver
  <2>2. /\ elements' = [elements EXCEPT ![peek_index] = Empty]
        /\ in_flight' = in_flight \ {x} /\ UNCHANGED <<thread, irq>>
        /\ peek_index \in Slots
    BY <1>1, <1>6 DEF TxComplete, Reported, Pop, QueueTypeOK
  <2>3. Peek # Torn
    BY <1>1, <2>1 DEF Sent, CopyState, SentWhole
  <2>4. \A i \in Slots : elements'[i] = Torn <=> elements[i] = Torn
    BY <1>1, <2>2, <2>3 DEF Peek, QueueTypeOK
  <2>5. QED
    BY <1>1, <2>2, <2>4 DEF CopyState, SentWhole
<1>7. ASSUME NEW x \in in_flight, TxCompleteOther(x)
      PROVE  CopyState'
  BY <1>1, <1>7 DEF TxCompleteOther, Reported, CopyState, SentWhole, qvars
<1>8. ASSUME NEW x \in in_flight, TxCompleteFails(x)
      PROVE  CopyState'
  BY <1>2, <1>8 DEF TxCompleteFails, Fail, qvars, sending
<1>9. CASE TimerToSend
  <2>1. thread.pc # "rest" /\ UNCHANGED <<elements, thread, irq>>
    BY <1>9 DEF TimerToSend, qvars
  <2>2. Peek # Torn
    BY <1>1, <2>1 DEF CopyState, Peek, QueueTypeOK
  <2>3. SentWhole'
    BY <1>1, <1>9, <2>2 DEF TimerToSend, SendMeshMsg, Publish, CopyState, SentWhole, sending
  <2>4. QED
    BY <1>1, <2>1, <2>3 DEF CopyState
<1>10. QED
  BY <1>3, <1>4, <1>5, <1>6, <1>7, <1>8, <1>9 DEF StackReports

\* The phases hold at any time.
LEMMA SendInvariance ==
  ASSUME ~CallersOverlap, ~CopyExposed, ~EarlyComplete
  PROVE  Spec => []SendState
<1>1. RingState /\ RingState' /\ SendState /\ [Next]_vars => SendState'
  <2>. SUFFICES ASSUME RingState', SendState, [Next]_vars
                PROVE  CopyState' /\ Phases' /\ ThreadSends'
    BY DEF SendState
  <2>1. CASE Next
    BY <2>1, ThreadKeepsCopy, IrqKeepsCopy, ThreadKeepsPhases, IrqKeepsPhases DEF Next
  <2>2. CASE UNCHANGED vars
    BY <2>2
       DEF vars, qvars, sending, SendState, Phases, Ready, Waiting, Sent, HandingOver, ThreadSends,
           InsidePrepare, OutsideSending, Occupied, Peek, CopyState, SentWhole
  <2>3. QED
    BY <2>1, <2>2
<1>2. Init => SendState
  BY InitRing, InitCopy, InitPhases DEF SendState
<1>3. QED
  BY <1>1, <1>2, RingInvariance, PTL DEF Spec

\* A queued message always has something that will send it or pop it, when
\* callers do not overlap, the timer does not expire during a copy and TX
\* complete does not precede the thread's two stores
\* (mesh_msg_queue_manager.c, the token test of mesh_tx_complete_event_cb).
THEOREM QueueNeverStalls ==
  ASSUME ~CallersOverlap, ~CopyExposed, ~EarlyComplete
  PROVE  Spec => []NoStall
<1>1. Sent => \E x \in in_flight : x.token = s_curr_tx_token
  BY DEF Sent
<1>2. SendState => NoStall
  BY <1>1 DEF SendState, Phases, Ready, Waiting, HandingOver, InsidePrepare, NoStall
<1>3. QED
  BY <1>2, SendInvariance, PTL

-----------------------------------------------------------------------------
\* The entries of one publication: each is queued or still to be prepared, in
\* the order of the local container table, and none is left when the state is
\* no longer PUBLISHING.

\* A slot or a waiting message exposes an entry of the local table.
IsStatus(elm) == elm # Empty /\ elm.cmd = "STATUS"

\* No such message waits.
NoStatusLeft ==
  /\ \A i \in Slots : ~IsStatus(elements[i])
  /\ \A k \in 1 .. Len(irq) : ~IsStatus(irq[k])

\* Those that wait are about entries the table has.
EntriesOfTable ==
  /\ \A i \in Slots : IsStatus(elements[i]) => elements[i].idx \in 0 .. nb_local_entries - 1
  /\ \A k \in 1 .. Len(irq) : IsStatus(irq[k]) => irq[k].idx \in 0 .. nb_local_entries - 1

\* Those in the queue are in the order of the table.
QueuedInOrder ==
  \A j, k \in 1 .. Queued :
    j < k /\ IsStatus(elements[Position(j)]) /\ IsStatus(elements[Position(k)])
      => elements[Position(j)].idx < elements[Position(k)].idx

\* So are those still to prepare, which come after them.
PreparedInOrder ==
  /\ \A j, k \in 1 .. Len(irq) :
       j < k /\ IsStatus(irq[j]) /\ IsStatus(irq[k]) => irq[j].idx < irq[k].idx
  /\ \A i \in Slots, k \in 1 .. Len(irq) :
       IsStatus(elements[i]) /\ IsStatus(irq[k]) => elements[i].idx < irq[k].idx

\* The invariant behind EndSignalledOnce.
Publication ==
  /\ ~publishing => NoStatusLeft
  /\ EntriesOfTable /\ QueuedInOrder /\ PreparedInOrder

\* Without a STATUS there is nothing to order.
LEMMA NothingPublished ==
  QueueTypeOK /\ RingFilled /\ NoStatusLeft => EntriesOfTable /\ QueuedInOrder /\ PreparedInOrder
<1>. SUFFICES ASSUME QueueTypeOK, RingFilled, NoStatusLeft
              PROVE  EntriesOfTable /\ QueuedInOrder /\ PreparedInOrder
  OBVIOUS
<1>1. \A k \in 1 .. Queued : Position(k) \in Slots
  BY PositionInRing, CapacityAssumption DEF RingFilled
<1>2. QED
  BY <1>1 DEF NoStatusLeft, EntriesOfTable, QueuedInOrder, PreparedInOrder

\* At start nothing is published.
LEMMA InitPublication == Init => Publication
<1>. SUFFICES ASSUME Init
              PROVE  Publication
  OBVIOUS
<1>1. NoStatusLeft
  BY DEF Init, InitQueue, NoStatusLeft, IsStatus
<1>2. QueueTypeOK /\ RingFilled
  BY InitRing DEF RingState, RingWindow, TypeInv, SenderTypeOK
<1>3. QED
  BY <1>1, <1>2, NothingPublished DEF Publication

\* The oldest message leaves the queue.
LEMMA PopKeepsOrder ==
  ASSUME QueueTypeOK, QueueTypeOK', RingFilled, Publication, Peek # Empty, Pop, irq = <<>>,
         nb_local_entries \in Nat, UNCHANGED <<irq, nb_local_entries>>,
         publishing' = (publishing /\ ~IsLastPublishedEntry(Peek))
  PROVE  Publication'
<1>. USE CapacityAssumption
<1>1. /\ elements' = [elements EXCEPT ![peek_index] = Empty]
      /\ Queued > 0 /\ Queued' = Queued - 1 /\ RingFilled'
      /\ \A k \in 1 .. Capacity : Position(k)' = Position(k + 1)
      /\ Queued \in 1 .. Capacity
  BY RemovedMessage DEF Pop, RingFilled
<1>2. \A i \in Slots : /\ i # peek_index => elements'[i] = elements[i]
                       /\ i = peek_index => elements'[i] = Empty
  BY <1>1 DEF QueueTypeOK
<1>3. \A k \in 1 .. Queued - 1 : /\ k + 1 \in 1 .. Queued
                                 /\ Position(k)' = Position(k + 1)
                                 /\ Position(k + 1) \in Slots \ {peek_index}
  BY <1>1, PositionInRing
<1>4. ASSUME ~publishing'
      PROVE  NoStatusLeft'
  <2>1. CASE ~publishing
    BY <1>2, <2>1 DEF Publication, NoStatusLeft, IsStatus
  <2>2. CASE IsLastPublishedEntry(Peek)
    <3>1. ASSUME NEW i \in Slots, IsStatus(elements'[i])
          PROVE  FALSE
      <4>1. i # peek_index /\ elements'[i] = elements[i] /\ IsStatus(elements[i])
        <5>1. i # peek_index
          BY <1>2, <3>1 DEF IsStatus
        <5>2. elements'[i] = elements[i]
          BY <1>2, <5>1
        <5>3. QED
          BY <3>1, <5>1, <5>2
      <4>2. PICK k \in 1 .. Capacity : i = Position(k)
        BY PositionInRing
      <4>3. k \in 1 .. Queued /\ k # 1 /\ Position(1) = peek_index
        BY <1>1, <4>1, <4>2, PositionInRing DEF RingFilled, IsStatus
      <4>4. IsStatus(elements[Position(1)]) /\ elements[Position(1)].idx = nb_local_entries - 1
        BY <2>2, <4>3 DEF IsLastPublishedEntry, IsStatus, Peek
      <4>5. elements[Position(1)].idx < elements[i].idx
        BY <1>1, <4>1, <4>2, <4>3, <4>4 DEF Publication, QueuedInOrder
      <4>6. elements[i].idx \in 0 .. nb_local_entries - 1
        BY <4>1 DEF Publication, EntriesOfTable
      <4>7. QED
        BY <4>4, <4>5, <4>6
    <3>2. \A k \in 1 .. Len(irq') : FALSE
      OBVIOUS
    <3>3. QED
      BY <3>1, <3>2 DEF NoStatusLeft
  <2>3. QED
    BY <1>4, <2>1, <2>2
<1>5. EntriesOfTable' /\ PreparedInOrder'
  BY <1>2 DEF Publication, EntriesOfTable, PreparedInOrder, IsStatus
<1>6. QueuedInOrder'
  <2>. SUFFICES ASSUME NEW j \in 1 .. Queued - 1, NEW k \in 1 .. Queued - 1, j < k,
                       IsStatus(elements'[Position(j)']), IsStatus(elements'[Position(k)'])
                PROVE  elements'[Position(j)'].idx < elements'[Position(k)'].idx
    BY <1>1 DEF QueuedInOrder
  <2>1. /\ elements'[Position(j)'] = elements[Position(j + 1)]
        /\ elements'[Position(k)'] = elements[Position(k + 1)]
        /\ j + 1 \in 1 .. Queued /\ k + 1 \in 1 .. Queued /\ j + 1 < k + 1
    BY <1>2, <1>3
  <2>2. QED
    BY <2>1 DEF Publication, QueuedInOrder
<1>7. QED
  BY <1>4, <1>5, <1>6 DEF Publication

\* Where the messages are after one joined the queue.
Joined(m, spot) ==
  /\ Queued' = Queued + 1 /\ Queued + 1 \in 1 .. Capacity
  /\ \A i \in Slots : elements'[i] = IF i = spot THEN m ELSE elements[i]
  /\ \A k \in 1 .. Queued : Position(k)' = Position(k) /\ Position(k) \in Slots \ {spot}
  /\ \A k \in 1 .. Queued + 1 : k = Queued + 1 => Position(k)' = spot
  /\ spot \in Slots

\* What a new last message leaves of the others.
LEMMA JoinedFacts ==
  ASSUME QueueTypeOK, RingFilled, NEW m \in Msg,
         NEW spot \in Slots, spot = Position(Queued + 1), elements[spot] = Empty,
         elements' = [elements EXCEPT ![spot] = m], peek_index' = peek_index
  PROVE  Joined(m, spot)
<1>. USE CapacityAssumption
<1>1. Queued < Capacity /\ Queued' = Queued + 1 /\ Queued \in 0 .. Capacity
  BY AddedMessage DEF RingFilled
<1>2. \A i \in Slots : elements'[i] = IF i = spot THEN m ELSE elements[i]
  BY DEF QueueTypeOK
<1>3. \A k \in 1 .. Queued : Position(k)' = Position(k) /\ Position(k) \in Slots \ {spot}
  <2>1. \A k \in 1 .. Queued : Position(k)' = Position(k)
    BY DEF Position
  <2>2. \A k \in 1 .. Queued : Position(k) \in Slots /\ Position(k) # Position(Queued + 1)
    BY <1>1, PositionInRing, SMTT(30)
  <2>3. QED
    BY <2>1, <2>2
<1>4. \A k \in 1 .. Queued + 1 : k = Queued + 1 => Position(k)' = spot
  BY <1>1 DEF Position
<1>5. QED
  BY <1>1, <1>2, <1>3, <1>4 DEF Joined

\* The thread adds a GET or a SET.
LEMMA AddKeepsOrder ==
  ASSUME Publication, NEW m, NEW spot, Joined(m, spot), Queued \in Nat, ~IsStatus(m),
         UNCHANGED <<irq, nb_local_entries, publishing>>
  PROVE  Publication'
<1>1. \A i \in Slots : IsStatus(elements'[i]) => i # spot /\ elements'[i] = elements[i]
  BY DEF Joined
<1>2. (~publishing => NoStatusLeft)' /\ EntriesOfTable' /\ PreparedInOrder'
  BY <1>1 DEF Publication, NoStatusLeft, EntriesOfTable, PreparedInOrder
<1>3. QueuedInOrder'
  <2>. SUFFICES ASSUME NEW j \in 1 .. Queued + 1, NEW k \in 1 .. Queued + 1, j < k,
                       IsStatus(elements'[Position(j)']), IsStatus(elements'[Position(k)'])
                PROVE  elements'[Position(j)'].idx < elements'[Position(k)'].idx
    BY DEF QueuedInOrder, Joined
  <2>1. j # Queued + 1 /\ k # Queued + 1
    BY DEF Joined
  <2>2. j \in 1 .. Queued /\ k \in 1 .. Queued
    BY <2>1
  <2>3. /\ elements'[Position(j)'] = elements[Position(j)]
        /\ elements'[Position(k)'] = elements[Position(k)]
    BY <2>2 DEF Joined
  <2>4. QED
    BY <2>2, <2>3 DEF Publication, QueuedInOrder
<1>4. QED
  BY <1>2, <1>3 DEF Publication

\* An interrupt adds the next of its messages.
LEMMA PrepareKeepsOrder ==
  ASSUME Publication, NEW spot, Joined(Head(irq), spot), Queued \in Nat,
         irq \in Seq(Msg), irq # <<>>, irq' = Tail(irq),
         UNCHANGED <<nb_local_entries, publishing>>
  PROVE  Publication'
<1>1. /\ Len(irq) \in Nat \ {0} /\ Head(irq) = irq[1]
      /\ Len(irq') = Len(irq) - 1
      /\ \A k \in 1 .. Len(irq') : irq'[k] = irq[k + 1]
  BY HeadTailProperties
<1>2. \A k \in 1 .. Len(irq') : k + 1 \in 1 .. Len(irq) /\ irq'[k] = irq[k + 1] /\ 1 < k + 1
  BY <1>1
<1>3. 1 \in 1 .. Len(irq)
  BY <1>1
<1>4. \A i \in Slots : elements'[i] = IF i = spot THEN irq[1] ELSE elements[i]
  BY <1>1 DEF Joined
<1>5. (~publishing => NoStatusLeft)'
  BY <1>2, <1>3, <1>4 DEF Publication, NoStatusLeft
<1>6. EntriesOfTable'
  BY <1>2, <1>3, <1>4 DEF Publication, EntriesOfTable
<1>7. PreparedInOrder'
  <2>1. ASSUME NEW j \in 1 .. Len(irq'), NEW k \in 1 .. Len(irq'), j < k,
               IsStatus(irq'[j]), IsStatus(irq'[k])
        PROVE  irq'[j].idx < irq'[k].idx
    <3>1. j + 1 \in 1 .. Len(irq) /\ k + 1 \in 1 .. Len(irq) /\ j + 1 < k + 1
      BY <1>2, <2>1
    <3>2. QED
      BY <1>2, <2>1, <3>1 DEF Publication, PreparedInOrder
  <2>2. ASSUME NEW i \in Slots, NEW k \in 1 .. Len(irq'), IsStatus(elements'[i]), IsStatus(irq'[k])
        PROVE  elements'[i].idx < irq'[k].idx
    BY <1>2, <1>3, <1>4, <2>2 DEF Publication, PreparedInOrder
  <2>3. QED
    BY <2>1, <2>2 DEF PreparedInOrder
<1>8. QueuedInOrder'
  <2>. SUFFICES ASSUME NEW j \in 1 .. Queued + 1, NEW k \in 1 .. Queued + 1, j < k,
                       IsStatus(elements'[Position(j)']), IsStatus(elements'[Position(k)'])
                PROVE  elements'[Position(j)'].idx < elements'[Position(k)'].idx
    BY DEF QueuedInOrder, Joined
  <2>1. /\ j \in 1 .. Queued /\ Position(j) \in Slots
        /\ elements'[Position(j)'] = elements[Position(j)]
    BY DEF Joined
  <2>2. CASE k = Queued + 1
    <3>1. elements'[Position(k)'] = irq[1]
      BY <1>4, <2>2 DEF Joined
    <3>2. QED
      BY <1>3, <2>1, <3>1 DEF Publication, PreparedInOrder
  <2>3. CASE k # Queued + 1
    <3>1. k \in 1 .. Queued /\ elements'[Position(k)'] = elements[Position(k)]
      BY <2>3 DEF Joined
    <3>2. QED
      BY <2>1, <3>1 DEF Publication, QueuedInOrder
  <2>4. QED
    BY <2>2, <2>3
<1>9. QED
  BY <1>5, <1>6, <1>7, <1>8 DEF Publication

\* The thread prepares no STATUS, and removes the oldest message only.
LEMMA ThreadKeepsPublication ==
  ASSUME RingState, RingState', Publication, ThreadContinues \/ \E m \in ThreadMsgs : ThreadPrepare(m)
  PROVE  Publication'
<1>. USE CapacityAssumption
<1>1. /\ QueueTypeOK /\ RingFilled /\ NextSpot = Position(Queued + 1) /\ Queued \in Nat
      /\ thread \in ThreadStates
  <2>1. RingFilled /\ NextSpot = Position(Queued + 1) /\ SenderTypeOK /\ thread \in ThreadStates
    BY DEF RingState, RingWindow, TypeInv
  <2>2. Queued \in Nat
    BY <2>1 DEF RingFilled
  <2>3. QED
    BY <2>1, <2>2 DEF SenderTypeOK
<1>2. CASE ThreadCopy
  <2>1. /\ thread.pc = "copy" /\ thread.spot = insertion_index /\ insertion_index \in Slots
        /\ elements[thread.spot] = Empty
        /\ elements' = [elements EXCEPT ![thread.spot] = Torn] /\ Torn \in Msg
        /\ UNCHANGED <<peek_index, irq, nb_local_entries, publishing>>
    BY <1>1, <1>2, TornAssumption
       DEF ThreadCopy, ThreadRuns, ThreadUnchanged, ThreadStates, RingState, RingWindow, QueueTypeOK, app
  <2>2. thread.spot = Position(Queued + 1)
    BY <1>1, <2>1 DEF NextSpot
  <2>3. Joined(Torn, thread.spot)
    BY <1>1, <2>1, <2>2, JoinedFacts
  <2>4. ~IsStatus(Torn)
    BY DEF IsStatus, Torn
  <2>5. QED
    BY <1>1, <2>1, <2>3, <2>4, AddKeepsOrder
<1>5. CASE ThreadCopyRest
  <2>1. /\ thread.pc = "rest" /\ thread.spot \in Slots /\ thread.msg \in ThreadMsgs
        /\ elements' = [elements EXCEPT ![thread.spot] = Completed(elements[thread.spot])]
        /\ UNCHANGED <<peek_index, irq, nb_local_entries, publishing>>
    BY <1>1, <1>5 DEF ThreadCopyRest, ThreadRuns, ThreadUnchanged, ThreadStates, app
  <2>2. ~IsStatus(Completed(elements[thread.spot]))
    BY <2>1, ThreadMsgAssumption DEF IsStatus, Completed, Torn
  <2>3. \A i \in Slots : IsStatus(elements'[i]) => elements'[i] = elements[i]
    BY <1>1, <2>1, <2>2 DEF QueueTypeOK
  <2>4. Queued' = Queued
    BY <1>1, <2>1, CompletedRing
  <2>5. \A k \in 1 .. Queued : Position(k)' = Position(k) /\ Position(k) \in Slots
    BY <1>1, <2>1, PositionInRing DEF RingFilled, Position
  <2>6. (~publishing => NoStatusLeft)' /\ EntriesOfTable' /\ PreparedInOrder'
    BY <2>1, <2>3 DEF Publication, NoStatusLeft, EntriesOfTable, PreparedInOrder
  <2>7. QueuedInOrder'
    BY <2>3, <2>4, <2>5 DEF Publication, QueuedInOrder
  <2>8. QED
    BY <2>6, <2>7 DEF Publication
<1>3. CASE ~ThreadCopy /\ ~ThreadCopyRest
  <2>1. UNCHANGED <<elements, peek_index, irq, nb_local_entries, publishing>>
    BY <1>3
       DEF ThreadContinues, ThreadPrepare, ThreadCheckSpot, ThreadLoadIndex, ThreadStoreIndex,
           ThreadTestSend, ThreadPeek, ThreadPublish, ThreadSetToken, ThreadSetBusy, ThreadMoves,
           ThreadUnchanged, Fail, qvars, app
  <2>2. QED
    BY <2>1
       DEF Publication, NoStatusLeft, EntriesOfTable, QueuedInOrder, PreparedInOrder, Queued, Occupied,
           Position
<1>4. QED
  BY <1>2, <1>3, <1>5

\* A publication puts its entries in order, and its end is signalled with the last.
LEMMA IrqKeepsPublication ==
  ASSUME TableChanges # "any_time", RingState, RingState', Publication,
         ReplyEntries \/ PublishEntries \/ IrqPrepare \/ IrqPrepareFails
           \/ LocalTableChange \/ StackReports \/ TimerToSend
  PROVE  Publication'
<1>. USE CapacityAssumption
<1>1. /\ QueueTypeOK /\ QueueTypeOK' /\ RingFilled /\ RingFilled' /\ Queued \in Nat
      /\ NextSpot = Position(Queued + 1)
      /\ irq \in Seq(Msg) /\ nb_local_entries \in Nat
  <2>1. /\ RingFilled /\ RingFilled' /\ NextSpot = Position(Queued + 1)
        /\ SenderTypeOK /\ SenderTypeOK'
    BY DEF RingState, RingWindow, TypeInv
  <2>2. Queued \in Nat
    BY <2>1 DEF RingFilled
  <2>3. QED
    BY <2>1, <2>2, SenderAssumption DEF SenderTypeOK
<1>2. ASSUME UNCHANGED <<elements, peek_index, irq, nb_local_entries, publishing>>
      PROVE  Publication'
  BY <1>2
     DEF Publication, NoStatusLeft, EntriesOfTable, QueuedInOrder, PreparedInOrder, Queued, Occupied,
         Position
<1>3. CASE ReplyEntries
  <2>1. /\ UNCHANGED <<elements, peek_index, nb_local_entries, publishing>>
        /\ irq' = [k \in 1 .. nb_local_entries |-> Reply(k - 1)]
    BY <1>3 DEF ReplyEntries, qvars, app
  <2>2. \A k \in 1 .. Len(irq') : ~IsStatus(irq'[k])
    BY <1>1, <2>1 DEF Reply, IsStatus
  <2>3. QED
    BY <2>1, <2>2
       DEF Publication, NoStatusLeft, EntriesOfTable, QueuedInOrder, PreparedInOrder, Queued, Occupied,
           Position
<1>4. CASE PublishEntries
  <2>1. /\ UNCHANGED <<elements, peek_index, nb_local_entries>>
        /\ ~publishing /\ publishing' = TRUE
        /\ irq' = [k \in 1 .. nb_local_entries |-> Status(k - 1)]
    BY <1>4 DEF PublishEntries, qvars
  <2>2. \A i \in Slots : ~IsStatus(elements'[i])
    BY <2>1 DEF Publication, NoStatusLeft
  <2>3. Len(irq') = nb_local_entries /\ \A k \in 1 .. nb_local_entries : irq'[k].idx = k - 1
    BY <1>1, <2>1 DEF Status
  <2>4. EntriesOfTable' /\ PreparedInOrder'
    BY <1>1, <2>1, <2>2, <2>3 DEF EntriesOfTable, PreparedInOrder
  <2>5. \A k \in 1 .. Queued : Position(k) \in Slots
    BY <1>1, PositionInRing DEF RingFilled
  <2>6. QueuedInOrder'
    BY <2>1, <2>2, <2>5 DEF QueuedInOrder, Queued, Occupied, Position
  <2>7. QED
    BY <2>1, <2>4, <2>6 DEF Publication
<1>5. CASE IrqPrepare
  <2>1. /\ thread.pc = "idle" /\ irq # <<>> /\ irq' = Tail(irq)
        /\ insertion_index \in Slots /\ elements[insertion_index] = Empty
        /\ Head(irq) \in Msg
        /\ elements' = [elements EXCEPT ![insertion_index] = Head(irq)]
        /\ UNCHANGED <<peek_index, nb_local_entries, publishing>>
    BY <1>1, <1>5 DEF IrqPrepare, Enqueue, QueueFull, QueueTypeOK, RingState, IrqAlone, app
  <2>2. insertion_index = Position(Queued + 1)
    BY <1>1, <2>1 DEF NextSpot
  <2>3. Joined(Head(irq), insertion_index)
    BY <1>1, <2>1, <2>2, JoinedFacts
  <2>4. QED
    BY <1>1, <2>1, <2>3, PrepareKeepsOrder
<1>6. CASE IrqPrepareFails
  BY <1>2, <1>6 DEF IrqPrepareFails, Fail, qvars, app
<1>7. CASE LocalTableChange
  <2>1. ~publishing /\ UNCHANGED <<elements, peek_index, irq, publishing>>
    BY <1>7 DEF LocalTableChange, qvars
  <2>2. NoStatusLeft'
    BY <2>1 DEF Publication, NoStatusLeft
  <2>3. EntriesOfTable' /\ QueuedInOrder' /\ PreparedInOrder'
    BY <1>1, <2>2, NothingPublished, PTL
  <2>4. QED
    BY <2>1, <2>2, <2>3 DEF Publication
<1>8. ASSUME NEW x \in in_flight, TxComplete(x)
      PROVE  Publication'
  BY <1>1, <1>8, PopKeepsOrder DEF TxComplete, Reported, IrqRuns
<1>9. ASSUME NEW x \in in_flight, TxCompleteOther(x) \/ TxCompleteFails(x)
      PROVE  Publication'
  BY <1>2, <1>9 DEF TxCompleteOther, TxCompleteFails, Fail, qvars, app
<1>10. CASE TimerToSend
  BY <1>2, <1>10 DEF TimerToSend, qvars, app
<1>11. QED
  BY <1>3, <1>4, <1>5, <1>6, <1>7, <1>8, <1>9, <1>10 DEF StackReports

\* The entries are in order at any time, if the table stays as it is while they
\* are published.
LEMMA PublicationInvariance ==
  ASSUME ~CallersOverlap, TableChanges # "any_time"
  PROVE  Spec => []Publication
<1>1. RingState /\ RingState' /\ Publication /\ [Next]_vars => Publication'
  <2>. SUFFICES ASSUME RingState, RingState', Publication, [Next]_vars
                PROVE  Publication'
    OBVIOUS
  <2>1. CASE Next
    BY <2>1, ThreadKeepsPublication, IrqKeepsPublication DEF Next
  <2>2. CASE UNCHANGED vars
    BY <2>2
       DEF vars, qvars, app, Publication, NoStatusLeft, EntriesOfTable, QueuedInOrder, PreparedInOrder,
           Queued, Occupied, Position
  <2>3. QED
    BY <2>1, <2>2
<1>2. QED
  BY <1>1, InitPublication, RingInvariance, PTL DEF Spec

\* "Signals end of RTB publication" (app_luos_rtb_model.h): whatever the
\* number of entries and however the rest of the traffic interleaves, the end
\* is never signalled a second time for one publication, nor without one. What
\* the command of a half-copied element reads is left open: no such element
\* goes out.
THEOREM EndSignalledOnce ==
  ASSUME ~CallersOverlap, ~CopyExposed, TableChanges # "any_time"
  PROVE  Spec => EndOnlyWhilePublishing
<1>1. RingState /\ Publication => (EndSignalled => publishing)
  <2>. SUFFICES ASSUME RingState, Publication, EndSignalled
                PROVE  publishing
    OBVIOUS
  <2>1. Peek # Empty /\ Peek.cmd = "STATUS"
    BY DEF EndSignalled, TxComplete, IsLastPublishedEntry
  <2>2. peek_index \in Slots
    BY DEF RingState, TypeInv, SenderTypeOK, QueueTypeOK
  <2>3. QED
    BY <2>1, <2>2 DEF Publication, NoStatusLeft, IsStatus, Peek
<1>2. RingState /\ Publication /\ [Next]_vars => [EndSignalled => publishing]_vars
  BY <1>1
<1>3. QED
  BY <1>2, RingInvariance, PublicationInvariance, PTL DEF Spec, EndOnlyWhilePublishing

-----------------------------------------------------------------------------
\* The manager implements MsgSender: every step is a step of MsgSender or a
\* stutter.

\* How many messages of the ring are whole: the one being copied, if any, is
\* the last.
Whole == IF thread.pc = "rest" THEN Queued - 1 ELSE Queued

\* The abstract queue is the ring, read from the peek index, without the
\* message being copied.
PendingFacts ==
  /\ Whole \in 0 .. Queued /\ Queued \in 0 .. Capacity
  /\ Pending \in Seq(Msg)
  /\ Len(Pending) = Whole
  /\ \A k \in 1 .. Whole : Pending[k] = elements[Position(k)]
  /\ thread.pc = "rest" => thread.spot = Position(Queued)

\* The message being copied is behind all others.
LEMMA CopiedIsLast ==
  ASSUME QueueTypeOK, RingWindow, CopyState, thread \in ThreadStates
  PROVE  /\ Whole \in 0 .. Queued
         /\ Cardinality(Accepted) = Whole
         /\ thread.pc = "rest" => thread.spot = Position(Queued)
<1>. USE CapacityAssumption
<1>1. Torn # Empty /\ thread.spot \in Slots /\ Queued \in 0 .. Capacity
  BY TornAssumption, EmptyAssumption DEF ThreadStates, RingWindow, RingFilled
<1>2. IsFiniteSet(Occupied)
  <2>1. IsFiniteSet(Slots)
    BY FS_Interval DEF Slots
  <2>2. QED
    BY <2>1, FS_Subset DEF Occupied
<1>3. CASE thread.pc # "rest"
  <2>1. Accepted = Occupied
    BY <1>3 DEF Accepted, Occupied, CopyState
  <2>2. QED
    BY <1>1, <1>3, <2>1 DEF Whole, Queued
<1>4. CASE thread.pc = "rest"
  <2>1. Accepted = Occupied \ {thread.spot} /\ thread.spot \in Occupied
    BY <1>1, <1>4 DEF Accepted, Occupied, CopyState
  <2>2. Cardinality(Accepted) = Queued - 1
    BY <1>2, <2>1, FS_RemoveElement DEF Queued
  <2>3. PICK k \in 1 .. Capacity : thread.spot = Position(k)
    BY <1>1, PositionInRing
  <2>4. k \in 1 .. Queued /\ Queued \in 1 .. Capacity
    BY <1>1, <2>1, <2>3 DEF RingWindow, RingFilled, Occupied
  <2>5. Advance(thread.spot) = Position(Queued + 1) /\ Advance(Position(Queued)) = Position(Queued + 1)
    BY <1>4, <2>4, PositionInRing DEF RingWindow, NextSpot
  <2>6. Position(Queued) \in Slots
    BY <2>4, PositionInRing
  <2>7. \A a, b \in Slots : Advance(a) = Advance(b) => a = b
    BY AdvanceIsSuccessor DEF Slots
  <2>8. thread.spot = Position(Queued)
    BY <1>1, <2>5, <2>6, <2>7
  <2>9. QED
    BY <1>4, <2>2, <2>4, <2>8 DEF Whole
<1>5. QED
  BY <1>3, <1>4

\* What MsgSender calls pending.
LEMMA PendingOf ==
  ASSUME QueueTypeOK, RingWindow, CopyState, thread \in ThreadStates
  PROVE  PendingFacts
<1>. USE CapacityAssumption
<1>1. /\ elements \in [Slots -> Msg \cup {Empty}] /\ peek_index \in Slots
      /\ Queued \in 0 .. Capacity /\ Whole \in 0 .. Queued /\ Cardinality(Accepted) = Whole
      /\ thread.pc = "rest" => thread.spot = Position(Queued)
      /\ RingFilled
  BY CopiedIsLast DEF QueueTypeOK, RingWindow, RingFilled
<1>2. ASSUME NEW k \in 1 .. Whole
      PROVE  /\ (peek_index + k - 1) % Capacity = Position(k)
             /\ elements[Position(k)] \in Msg
  <2>1. peek_index + k - 1 \in 0 .. 2 * Capacity - 1 /\ k \in 1 .. Queued
    BY <1>1 DEF Slots
  <2>. DEFINE j == peek_index + k - 1
  <2>2. j % Capacity = IF j < Capacity THEN j ELSE j - Capacity
    <3>. HIDE DEF j
    <3>1. j \in 0 .. 2 * Capacity - 1
      BY <2>1 DEF j
    <3>2. QED
      BY <3>1, RingPosition
  <2>3. k \in 1 .. Capacity /\ Position(k) \in Slots /\ elements[Position(k)] # Empty
    BY <1>1, <2>1, PositionInRing DEF RingFilled
  <2>4. j % Capacity = Position(k)
    <3>. HIDE DEF j
    <3>1. j = peek_index + k - 1
      BY DEF j
    <3>2. QED
      BY <1>1, <2>2, <3>1 DEF Position, Slots
  <2>5. elements[Position(k)] \in Msg
    BY <1>1, <2>3
  <2>6. QED
    BY <2>4, <2>5
<1>3. Pending = [k \in 1 .. Whole |-> elements[Position(k)]]
  BY <1>1, <1>2 DEF Pending
<1>4. Pending \in Seq(Msg) /\ Len(Pending) = Whole /\ \A k \in 1 .. Whole : Pending[k] = elements[Position(k)]
  BY <1>1, <1>2, <1>3
<1>5. QED
  BY <1>1, <1>4 DEF PendingFacts

\* A whole message was added behind the others.
Appended(m) ==
  /\ Whole' = Whole + 1 /\ Whole + 1 \in 1 .. Capacity
  /\ \A k \in 1 .. Whole : elements'[Position(k)'] = elements[Position(k)]
  /\ \A k \in 1 .. Whole + 1 : k = Whole + 1 => elements'[Position(k)'] = m

\* An interrupt adds it with one copy, the thread being idle.
LEMMA JoinedIsAppended ==
  ASSUME NEW m, NEW spot, Joined(m, spot), Queued \in Nat, thread.pc # "rest", thread'.pc # "rest"
  PROVE  Appended(m)
<1>1. Whole = Queued /\ Whole' = Queued + 1
  BY DEF Whole, Joined
<1>2. QED
  BY <1>1 DEF Appended, Joined

\* A message that joins the ring is appended to the abstract queue.
LEMMA AppendedAppends ==
  ASSUME PendingFacts, PendingFacts', NEW m \in Msg, Appended(m)
  PROVE  Pending' = Append(Pending, m)
<1>0. Whole \in Nat
  BY DEF PendingFacts
<1>1. /\ Append(Pending, m) \in Seq(Msg)
      /\ Len(Append(Pending, m)) = Whole + 1
      /\ \A k \in 1 .. Whole : Append(Pending, m)[k] = Pending[k]
      /\ Append(Pending, m)[Whole + 1] = m
  BY AppendProperties DEF PendingFacts
<1>2. /\ Pending' \in Seq(Msg)
      /\ Len(Pending') = Whole + 1
      /\ \A k \in 1 .. Whole + 1 : Pending'[k] = elements'[Position(k)']
  BY DEF PendingFacts, Appended
<1>3. \A k \in 1 .. Whole + 1 : Pending'[k] = Append(Pending, m)[k]
  <2>. SUFFICES ASSUME NEW k \in 1 .. Whole + 1
                PROVE  Pending'[k] = Append(Pending, m)[k]
    OBVIOUS
  <2>1. CASE k = Whole + 1
    BY <1>1, <1>2, <2>1 DEF Appended
  <2>2. CASE k # Whole + 1
    <3>1. k \in 1 .. Whole
      BY <1>0, <2>2
    <3>2. QED
      BY <1>1, <1>2, <3>1 DEF Appended, PendingFacts
  <2>3. QED
    BY <2>1, <2>2
<1>4. QED
  BY <1>1, <1>2, <1>3, SeqEqual

\* A pop of a whole message takes the head of the abstract queue.
LEMMA PopTails ==
  ASSUME QueueTypeOK, QueueTypeOK', RingFilled, CopyState, PendingFacts, PendingFacts',
         Peek # Empty, Peek # Torn, Pop, UNCHANGED thread
  PROVE  Pending # <<>> /\ Pending' = Tail(Pending)
<1>. USE CapacityAssumption
<1>1. /\ elements' = [elements EXCEPT ![peek_index] = Empty]
      /\ Queued' = Queued - 1 /\ Queued \in 1 .. Capacity
      /\ \A k \in 1 .. Capacity : Position(k)' = Position(k + 1)
  BY RemovedMessage DEF Pop, RingFilled
<1>2. Whole \in 1 .. Queued /\ Whole' = Whole - 1
  <2>1. CASE thread.pc # "rest"
    BY <1>1, <2>1 DEF Whole
  <2>2. CASE thread.pc = "rest"
    <3>1. thread.spot = Position(Queued) /\ Position(1) = peek_index /\ Position(Queued) \in Slots
      BY <1>1, <2>2, PositionInRing DEF PendingFacts
    <3>2. elements[thread.spot] = Torn
      BY <2>2, <3>1 DEF CopyState
    <3>3. Queued # 1
      BY <3>1, <3>2 DEF Peek
    <3>4. QED
      BY <1>1, <2>2, <3>3 DEF Whole
  <2>3. QED
    BY <2>1, <2>2
<1>3. \A k \in 1 .. Whole - 1 : /\ k + 1 \in 1 .. Whole
                                /\ Position(k)' = Position(k + 1)
                                /\ Position(k + 1) \in Slots \ {peek_index}
  <2>1. \A k \in 1 .. Whole - 1 : k + 1 \in 1 .. Whole /\ k \in 1 .. Capacity /\ k + 1 \in 1 .. Capacity
    BY <1>1, <1>2
  <2>2. QED
    BY <1>1, <2>1, PositionInRing
<1>4. /\ Pending # <<>>
      /\ Tail(Pending) \in Seq(Msg)
      /\ Len(Tail(Pending)) = Whole - 1
      /\ \A k \in 1 .. Whole - 1 : Tail(Pending)[k] = Pending[k + 1]
  <2>1. Pending \in Seq(Msg) /\ Len(Pending) = Whole /\ Pending # <<>>
    BY <1>2 DEF PendingFacts
  <2>2. QED
    BY <1>2, <2>1, HeadTailProperties
<1>5. /\ Pending' \in Seq(Msg) /\ Len(Pending') = Whole - 1
      /\ \A k \in 1 .. Whole - 1 : Pending'[k] = elements'[Position(k + 1)]
  BY <1>2, <1>3 DEF PendingFacts
<1>6. \A k \in 1 .. Whole - 1 : elements'[Position(k + 1)] = Pending[k + 1]
  BY <1>1, <1>3 DEF PendingFacts, QueueTypeOK
<1>7. QED
  BY <1>2, <1>4, <1>5, <1>6, SeqEqual

\* What is on the air is the oldest message.
AirFacts == OnAir = IF in_flight = {} THEN NoMsg ELSE Peek

\* In every phase, what is on the air is the oldest message or nothing.
LEMMA AirOf == Phases => AirFacts
<1>1. ASSUME NEW t, in_flight = {[token |-> t, msg |-> Peek]}
      PROVE  AirFacts
  <2>1. \E x : x \in in_flight
    BY <1>1
  <2>2. (CHOOSE x \in in_flight : TRUE) \in in_flight
    BY <2>1
  <2>3. (CHOOSE x \in in_flight : TRUE) = [token |-> t, msg |-> Peek]
    BY <1>1, <2>2
  <2>4. OnAir = (CHOOSE x \in in_flight : TRUE).msg
    BY <2>1, Zenon DEF OnAir
  <2>5. OnAir = [token |-> t, msg |-> Peek].msg
    BY <2>3, <2>4, Zenon
  <2>6. QED
    BY <2>1, <2>5 DEF AirFacts
<1>2. Sent \/ HandingOver => AirFacts
  BY <1>1 DEF Sent, HandingOver
<1>3. Ready \/ Waiting => AirFacts
  BY DEF Ready, Waiting, AirFacts, OnAir
<1>4. QED
  BY <1>2, <1>3 DEF Phases

\* All the facts that a step of the refinement needs of a state.
ViewFacts == SendState /\ Publication /\ PendingFacts /\ AirFacts /\ EmptyPeek

\* They follow from the invariant.
LEMMA ViewOf == SendState /\ Publication => ViewFacts
<1>. SUFFICES ASSUME SendState, Publication
              PROVE  ViewFacts
  OBVIOUS
<1>1. QueueTypeOK /\ RingWindow /\ RingFilled /\ CopyState /\ Phases /\ thread \in ThreadStates
  BY DEF SendState, RingState, RingWindow, TypeInv, SenderTypeOK
<1>2. QED
  BY <1>1, PendingOf, AirOf, EmptyPeekMeansEmpty DEF ViewFacts

\* A step of MsgSender or none.
Refines == Sender!Next \/ UNCHANGED <<Pending, OnAir, failed_assert # "none">>

\* An assertion that stops the node because the queue is full.
LEMMA FailRefines ==
  ASSUME PendingFacts, NEW name \in {"insert_success"}, Fail(name), Whole = Capacity
  PROVE  Sender!Next
<1>1. UNCHANGED <<Pending, OnAir>> /\ (failed_assert # "none")' = TRUE
  BY DEF Fail, Pending, Accepted, OnAir, qvars, sending
<1>2. Sender!Overrun
  BY <1>1 DEF Sender!Overrun, PendingFacts
<1>3. QED
  BY <1>2 DEF Sender!Next

\* A step that changes neither ring nor stack is none of MsgSender.
LEMMA StutterRefines ==
  ASSUME UNCHANGED <<elements, peek_index, in_flight, failed_assert>>
  PROVE  Refines
  BY DEF Refines, Pending, Accepted, OnAir

\* A message that joins the ring is accepted.
LEMMA AcceptRefines ==
  ASSUME PendingFacts, PendingFacts', NEW m \in Msg \ {Torn}, Appended(m),
         UNCHANGED OnAir, failed_assert = "none", UNCHANGED failed_assert
  PROVE  Sender!Next
<1>1. Pending' = Append(Pending, m) /\ Len(Pending) < Capacity
  <2>1. Whole + 1 \in 1 .. Capacity /\ Whole \in Nat
    BY DEF Appended, PendingFacts
  <2>2. QED
    BY <2>1, AppendedAppends, CapacityAssumption DEF PendingFacts
<1>2. Sender!Accept(m)
  BY <1>1 DEF Sender!Accept
<1>3. QED
  BY <1>2 DEF Sender!Next

\* Publishing the oldest message sends it.
LEMMA SendRefines ==
  ASSUME PendingFacts, QueueTypeOK, RingFilled, OnAir = NoMsg, Peek # Empty, OnAir' = Peek,
         thread.pc # "rest",
         UNCHANGED <<elements, peek_index, failed_assert>>, failed_assert = "none", EmptyPeek
  PROVE  Sender!Next
<1>. USE CapacityAssumption
<1>1. Whole \in 1 .. Capacity
  BY DEF RingFilled, EmptyPeek, Whole
<1>2. Pending # <<>> /\ Head(Pending) = Peek
  <2>1. Pending \in Seq(Msg) /\ Len(Pending) > 0 /\ Pending[1] = elements[Position(1)]
    BY <1>1 DEF PendingFacts
  <2>2. QED
    BY <2>1, PositionInRing DEF Peek
<1>3. UNCHANGED Pending
  BY DEF Pending, Accepted
<1>4. Sender!Send
  BY <1>2, <1>3 DEF Sender!Send
<1>5. QED
  BY <1>4 DEF Sender!Next

\* Every step of the thread is one of MsgSender or none.
LEMMA ThreadRefines ==
  ASSUME ViewFacts, ViewFacts', ThreadContinues \/ \E m \in ThreadMsgs : ThreadPrepare(m)
  PROVE  Refines
<1>. USE CapacityAssumption
<1>1. /\ QueueTypeOK /\ RingFilled /\ TypeInv /\ Queued \in Nat
      /\ NextSpot = Position(Queued + 1)
      /\ thread \in ThreadStates
      /\ PendingFacts /\ PendingFacts' /\ AirFacts /\ AirFacts' /\ EmptyPeek
      /\ CopyState /\ Phases /\ ThreadSends
  BY DEF ViewFacts, SendState, RingState, RingWindow, TypeInv, SenderTypeOK, RingFilled
<1>2. CASE ThreadCheckSpot
  <2>1. CASE Fail("insert_success")
    <3>1. QueueFull /\ thread.pc = "check"
      BY <1>2, <2>1 DEF ThreadCheckSpot, ThreadRuns, ThreadMoves, ThreadUnchanged, Fail
    <3>2. Whole = Capacity
      BY <1>1, <3>1, OccupiedSpotMeansFull DEF NextSpot, QueueFull, Whole
    <3>3. QED
      BY <1>1, <2>1, <3>2, FailRefines DEF Refines
  <2>2. CASE ThreadMoves("check", [thread EXCEPT !.pc = "copy", !.spot = insertion_index])
    BY <2>2, StutterRefines DEF ThreadMoves, ThreadUnchanged, qvars, sending
  <2>3. QED
    BY <1>2, <2>1, <2>2 DEF ThreadCheckSpot
<1>3. CASE ThreadCopy
  <2>1. /\ thread.pc = "copy" /\ thread'.pc = "rest"
        /\ thread.spot = insertion_index /\ insertion_index \in Slots
        /\ elements[thread.spot] = Empty
        /\ elements' = [elements EXCEPT ![thread.spot] = Torn] /\ Torn \in Msg
        /\ UNCHANGED <<peek_index, in_flight, failed_assert>>
    BY <1>1, <1>3, TornAssumption
       DEF ThreadCopy, ThreadRuns, ThreadUnchanged, ThreadStates, ViewFacts, SendState, RingState,
           RingWindow, QueueTypeOK, sending
  <2>2. thread.spot = Position(Queued + 1)
    BY <1>1, <2>1 DEF NextSpot
  <2>3. Joined(Torn, thread.spot)
    BY <1>1, <2>1, <2>2, JoinedFacts
  <2>4. Whole = Queued /\ Whole' = Queued
    BY <1>1, <2>1, <2>3 DEF Whole, Joined
  <2>5. \A k \in 1 .. Queued : elements'[Position(k)'] = elements[Position(k)]
    BY <2>3 DEF Joined
  <2>6. /\ Pending \in Seq(Msg) /\ Pending' \in Seq(Msg)
        /\ Len(Pending) = Queued /\ Len(Pending') = Queued
        /\ \A k \in 1 .. Queued : Pending'[k] = Pending[k]
    BY <1>1, <2>4, <2>5 DEF PendingFacts
  <2>7. Pending' = Pending
    BY <2>6, SeqEqual
  <2>8. QED
    BY <2>1, <2>7 DEF Refines, OnAir
<1>8. CASE ThreadCopyRest
  <2>1. /\ thread.pc = "rest" /\ thread'.pc = "load"
        /\ thread.msg \in ThreadMsgs /\ thread.msg \in Msg
        /\ elements' = [elements EXCEPT ![thread.spot] = Completed(elements[thread.spot])]
        /\ UNCHANGED <<peek_index, in_flight, failed_assert>> /\ failed_assert = "none"
    BY <1>1, <1>8, SenderAssumption
       DEF ThreadCopyRest, ThreadRuns, ThreadUnchanged, ThreadIdle, ThreadStates, sending
  <2>2. thread.spot \in Slots /\ elements[thread.spot] = Torn /\ thread.spot = Position(Queued)
    BY <1>1, <2>1 DEF ThreadStates, CopyState, PendingFacts
  <2>3. elements' = [elements EXCEPT ![thread.spot] = thread.msg]
    BY <2>1, <2>2, TornAssumption, EmptyAssumption DEF Completed
  <2>4. Queued' = Queued /\ \A k : Position(k)' = Position(k)
    BY <1>1, <2>1, CompletedRing DEF Position
  <2>5. Whole = Queued - 1 /\ Whole' = Queued /\ Queued \in 1 .. Capacity
    BY <1>1, <2>1, <2>4 DEF Whole, PendingFacts
  <2>6. \A k \in 1 .. Queued - 1 : Position(k) \in Slots /\ Position(k) # Position(Queued)
    BY <2>5, PositionInRing, <1>1
  <2>7. \A k \in 1 .. Queued - 1 : elements'[Position(k)] = elements[Position(k)]
    BY <1>1, <2>2, <2>3, <2>6 DEF QueueTypeOK
  <2>8. elements'[Position(Queued)] = thread.msg
    BY <1>1, <2>2, <2>3 DEF QueueTypeOK
  <2>9. Appended(thread.msg)
    BY <2>4, <2>5, <2>7, <2>8 DEF Appended
  <2>10. thread.msg # Torn /\ UNCHANGED OnAir
    BY <2>1, ThreadMsgAssumption DEF Torn, OnAir
  <2>11. QED
    BY <1>1, <2>1, <2>9, <2>10, AcceptRefines DEF Refines
<1>4. CASE ThreadPublish
  <2>1. /\ Ready /\ elements[thread.spot] = Peek /\ Peek # Empty /\ thread.pc # "rest"
    BY <1>1, <1>4
       DEF ThreadPublish, ThreadRuns, Phases, Waiting, Sent, HandingOver, OutsideSending, ThreadSends, Peek
  <2>2. ~NoBuffer
    BY <1>1, <2>1, FreeStack DEF Ready
  <2>3. /\ Publish(FreshToken, Peek) /\ failed_assert = "none"
        /\ UNCHANGED <<elements, peek_index, failed_assert>>
    BY <1>4, <2>1, <2>2 DEF ThreadPublish, ThreadRuns, ThreadUnchanged, qvars
  <2>4. in_flight' # {} /\ Peek' = Peek
    BY <2>3 DEF Publish, Peek
  <2>5. OnAir = NoMsg /\ OnAir' = Peek
    BY <1>1, <2>1, <2>4 DEF AirFacts, Ready
  <2>6. QED
    BY <1>1, <2>1, <2>3, <2>5, SendRefines DEF Refines
<1>5. CASE ThreadLoadIndex \/ ThreadTestSend \/ ThreadPeek \/ \E m \in ThreadMsgs : ThreadPrepare(m)
  BY <1>5, StutterRefines
     DEF ThreadLoadIndex, ThreadTestSend, ThreadPeek, ThreadPrepare, ThreadMoves, ThreadUnchanged,
         qvars, sending
<1>6. CASE ThreadStoreIndex \/ ThreadSetToken \/ ThreadSetBusy
  BY <1>6, StutterRefines
     DEF ThreadStoreIndex, ThreadSetToken, ThreadSetBusy, ThreadUnchanged, qvars, sending
<1>7. QED
  BY <1>2, <1>3, <1>8, <1>4, <1>5, <1>6 DEF ThreadContinues

\* So is every step of an interrupt.
LEMMA IrqRefines ==
  ASSUME ~CopyExposed, ~EarlyComplete, ViewFacts, ViewFacts',
         ReplyEntries \/ PublishEntries \/ IrqPrepare \/ IrqPrepareFails
           \/ LocalTableChange \/ StackReports \/ TimerToSend
  PROVE  Refines
<1>. USE CapacityAssumption
<1>1. /\ QueueTypeOK /\ QueueTypeOK' /\ RingFilled /\ TypeInv /\ Queued \in Nat
      /\ NextSpot = Position(Queued + 1)
      /\ irq \in Seq(Msg)
      /\ PendingFacts /\ PendingFacts' /\ AirFacts /\ AirFacts' /\ EmptyPeek /\ EmptyPeek'
      /\ CopyState /\ Phases
  BY DEF ViewFacts, SendState, RingState, RingWindow, TypeInv, SenderTypeOK, RingFilled
<1>2. CASE ReplyEntries \/ PublishEntries \/ LocalTableChange
  BY <1>2, StutterRefines DEF ReplyEntries, PublishEntries, LocalTableChange, qvars, sending
<1>3. irq # <<>> => thread.pc = "idle"
  BY DEF ViewFacts, SendState, RingState, IrqAlone
<1>4. s_is_possible_to_send /\ thread.pc = "idle" => Ready /\ Occupied = {} /\ ~NoBuffer
  <2>1. s_is_possible_to_send /\ thread.pc = "idle" => Ready /\ Occupied = {}
    BY <1>1 DEF Phases, Ready, Waiting, Sent, HandingOver, InsidePrepare
  <2>2. QED
    BY <1>1, <2>1, FreeStack DEF Ready
<1>5. CASE IrqPrepareFails
  <2>1. thread.pc = "idle"
    BY <1>3, <1>5 DEF IrqPrepareFails
  <2>2. QueueFull /\ Fail("insert_success")
    BY <1>4, <1>5, <2>1 DEF IrqPrepareFails
  <2>3. Whole = Capacity
    BY <1>1, <2>1, <2>2, OccupiedSpotMeansFull DEF NextSpot, QueueFull, Whole
  <2>4. QED
    BY <1>1, <2>2, <2>3, FailRefines DEF Refines
<1>6. CASE IrqPrepare
  <2>1. /\ thread.pc = "idle"
        /\ insertion_index \in Slots /\ elements[insertion_index] = Empty
        /\ Head(irq) \in Msg
        /\ elements' = [elements EXCEPT ![insertion_index] = Head(irq)]
        /\ UNCHANGED <<thread, peek_index, failed_assert>> /\ failed_assert = "none"
    BY <1>1, <1>3, <1>6 DEF IrqPrepare, Enqueue, QueueFull, QueueTypeOK
  <2>0. Head(irq) \in Msg \ {Torn}
    <3>1. irq # <<>>
      BY <1>6 DEF IrqPrepare
    <3>2. 1 \in 1 .. Len(irq) /\ Head(irq) = irq[1]
      BY <1>1, <3>1, HeadTailProperties
    <3>3. QED
      BY <1>1, <2>1, <3>2 DEF CopyState
  <2>2. insertion_index = Position(Queued + 1)
    BY <1>1, <2>1 DEF NextSpot
  <2>3. Appended(Head(irq))
    <3>1. Joined(Head(irq), insertion_index)
      BY <1>1, <2>1, <2>2, JoinedFacts
    <3>2. QED
      BY <1>1, <2>1, <3>1, JoinedIsAppended
  <2>4. CASE ~s_is_possible_to_send
    <3>1. UNCHANGED OnAir
      BY <1>6, <2>4 DEF IrqPrepare, sending, OnAir
    <3>2. QED
      BY <1>1, <2>0, <2>1, <2>3, <3>1, AcceptRefines DEF Refines
  <2>5. CASE s_is_possible_to_send
    <3>1. Ready /\ Queued = 0
      BY <1>1, <1>4, <2>1, <2>5 DEF EmptyPeek
    <3>2. Peek' = Head(irq) /\ Head(irq) # Empty
      BY <1>1, <2>1, <2>2, <3>1, PositionInRing, EmptyAssumption DEF Peek, QueueTypeOK
    <3>3. in_flight' # {}
      BY <1>6, <2>1, <2>5, <3>2 DEF IrqPrepare, SendMeshMsg, Publish, Peek
    <3>4. OnAir = NoMsg /\ OnAir' = Head(irq)
      BY <1>1, <3>1, <3>2, <3>3 DEF AirFacts, Ready
    <3>5. Pending = <<>> /\ Pending' = <<Head(irq)>>
      <4>1. Pending' = Append(Pending, Head(irq))
        BY <1>1, <2>1, <2>3, AppendedAppends
      <4>2. Pending = <<>>
        BY <1>1, <2>1, <3>1, EmptySeq DEF PendingFacts, Whole
      <4>3. QED
        BY <4>1, <4>2
    <3>6. Sender!AcceptAndSend(Head(irq))
      BY <2>1, <3>4, <3>5 DEF Sender!AcceptAndSend
    <3>7. QED
      BY <2>0, <2>1, <3>6 DEF Refines, Sender!Next
  <2>6. QED
    BY <2>4, <2>5
<1>7. ASSUME NEW x \in in_flight, IrqRuns, thread.token # x.token
      PROVE  Sent /\ x.token = s_curr_tx_token /\ in_flight = {x}
  BY <1>1, <1>7 DEF Phases, Ready, Waiting, Sent, HandingOver
<1>8. ASSUME NEW x \in in_flight, TxCompleteFails(x)
      PROVE  FALSE
  <2>1. Sent /\ IrqRuns
    BY <1>7, <1>8 DEF TxCompleteFails
  <2>2. Peek.cmd = "STATUS" /\ nb_local_entries = 0 /\ Peek # Empty
    BY <1>8, <2>1 DEF TxCompleteFails, Sent
  <2>3. Peek.idx \in 0 .. nb_local_entries - 1
    BY <1>1, <2>2 DEF ViewFacts, Publication, EntriesOfTable, IsStatus, Peek, QueueTypeOK
  <2>4. QED
    BY <2>2, <2>3
<1>9. ASSUME NEW x \in in_flight, TxCompleteOther(x)
      PROVE  FALSE
  BY <1>7, <1>9 DEF TxCompleteOther, Reported
<1>10. ASSUME NEW x \in in_flight, TxComplete(x)
       PROVE  Refines
  <2>1. /\ Sent /\ in_flight = {x} /\ in_flight' = {}
        /\ Peek # Empty /\ Pop /\ failed_assert = "none" /\ UNCHANGED <<thread, failed_assert>>
    BY <1>7, <1>10 DEF TxComplete, Reported, IrqRuns
  <2>2. OnAir = Peek /\ OnAir' = NoMsg /\ Peek # NoMsg
    BY <1>1, <2>1, SenderAssumption DEF AirFacts, QueueTypeOK, Peek
  <2>3. Pending' = Tail(Pending)
    <3>1. Peek # Torn
      BY <1>1, <2>1 DEF Sent, CopyState, SentWhole
    <3>2. QED
      BY <1>1, <2>1, <3>1, PopTails
  <2>4. Sender!Complete
    BY <2>1, <2>2, <2>3 DEF Sender!Complete
  <2>5. QED
    BY <2>4 DEF Refines, Sender!Next
<1>11. CASE TimerToSend
  <2>1. Waiting
    BY <1>1, <1>11 DEF TimerToSend, Phases, Ready, Sent, HandingOver
  <2>2. ~NoBuffer
    BY <1>1, <2>1, FreeStack DEF Waiting
  <2>3. /\ SendMeshMsg(Peek) /\ failed_assert = "none" /\ thread.pc # "rest"
        /\ UNCHANGED <<elements, peek_index, failed_assert>>
    BY <1>11, <2>2 DEF TimerToSend, IrqRuns, qvars
  <2>4. CASE Peek = Empty
    BY <2>3, <2>4, StutterRefines DEF SendMeshMsg
  <2>5. CASE Peek # Empty
    <3>1. in_flight' # {} /\ Peek' = Peek
      BY <2>3, <2>5 DEF SendMeshMsg, Publish, Peek
    <3>2. OnAir = NoMsg /\ OnAir' = Peek
      BY <1>1, <2>1, <3>1 DEF AirFacts, Waiting
    <3>3. QED
      BY <1>1, <2>3, <2>5, <3>2, SendRefines DEF Refines
  <2>6. QED
    BY <2>4, <2>5
<1>12. QED
  BY <1>2, <1>5, <1>6, <1>8, <1>9, <1>10, <1>11 DEF StackReports

\* The manager keeps the promise of MsgSender for every capacity, every table
\* of local containers and every traffic: prepared messages go out whole, in
\* order, each once, one at a time, and only a full queue stops the node. The
\* hypotheses are those of the run; without each of them TLC finds a behaviour
\* that breaks the promise.
THEOREM SenderPromiseKept ==
  ASSUME ~CallersOverlap, ~CopyExposed, ~EarlyComplete, TableChanges # "any_time"
  PROVE  Spec => ImplementsSender
<1>1. Init => Sender!Init
  <2>. SUFFICES ASSUME Init
                PROVE  Sender!Init
    OBVIOUS
  <2>1. RingWindow /\ QueueTypeOK /\ thread \in ThreadStates
    BY InitRing DEF RingState, TypeInv, SenderTypeOK
  <2>2. PendingFacts
    BY <2>1, InitCopy, PendingOf
  <2>3. Occupied = {} /\ in_flight = {} /\ failed_assert = "none" /\ thread.pc # "rest"
    BY DEF Init, InitQueue, Occupied, ThreadIdle
  <2>4. Pending = <<>>
    BY <2>2, <2>3, FS_EmptySet, EmptySeq DEF PendingFacts, Queued, Whole
  <2>5. QED
    BY <2>3, <2>4 DEF Sender!Init, OnAir
<1>2. /\ ViewFacts /\ ViewFacts' /\ [Next]_vars
      => [Sender!Next]_(Sender!vars)
  <2>. SUFFICES ASSUME ViewFacts, ViewFacts', [Next]_vars
                PROVE  Refines
    BY DEF Refines, Sender!vars
  <2>1. CASE Next
    BY <2>1, ThreadRefines, IrqRefines DEF Next
  <2>2. CASE UNCHANGED vars
    BY <2>2, StutterRefines DEF vars, qvars, sending
  <2>3. QED
    BY <2>1, <2>2
<1>3. QED
  BY <1>1, <1>2, ViewOf, SendInvariance, PublicationInvariance, PTL
     DEF Spec, ImplementsSender, Sender!SafeSpec
==============================================================================
