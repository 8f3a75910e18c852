--------------------------- MODULE MsgQueueManager ---------------------------
(***************************************************************************)
(* mesh_msg_queue_manager.c over the ring buffer of luos_mesh_msg_queue.c. *)
(*                                                                         *)
(* Two contexts run this code. Luos message handlers call                  *)
(* luos_mesh_msg_prepare in the main thread (GET and SET messages); mesh   *)
(* reception, TX complete and timer callbacks run in interrupts of one     *)
(* priority, which preempt the thread between any two of its memory        *)
(* accesses but not each other. The thread's call is therefore one step    *)
(* per access to shared memory, an interrupt's call is one step, and an    *)
(* interrupt that prepares several messages blocks everything else until   *)
(* its list is exhausted.                                                  *)
(***************************************************************************)
EXTENDS MsgQueue, FiniteSets

CONSTANTS
  ThreadMsgs,      \* messages the main thread may prepare
  CallersOverlap,  \* whether interrupts prepare messages while the thread does
  CopyExposed,     \* whether the timer may expire while the thread copies an element
  MaxEntries,      \* LUOS_RTB_MODEL_MAX_RTB_ENTRY
  InitEntries,     \* entries of the local container table at the start
  TableChanges,    \* when the thread fills or clears that table
  EarlyComplete,   \* whether TX complete may precede the thread's two stores
  MaxInFlight,     \* messages the mesh stack can hold at once
  NoMsg            \* no message

ASSUME SenderAssumption ==
  /\ ThreadMsgs \subseteq Msg
  /\ {CallersOverlap, CopyExposed, EarlyComplete} \subseteq BOOLEAN
  /\ TableChanges \in {"never", "unpublished", "any_time"}
  /\ MaxEntries \in Nat \ {0} /\ InitEntries \in 1 .. MaxEntries
  /\ MaxInFlight \in Nat \ {0}
  /\ NoMsg \notin Msg /\ NoMsg # Empty

\* Access tokens of the mesh stack. One more than can be in flight, in
\* s_curr_tx_token and in the thread, so that a fresh one always exists.
DefaultToken == 0
Tokens       == 1 .. MaxInFlight + 2

\* Messages of the Luos RTB model: STATUS and STATUS_REPLY carry the index of
\* the entry they expose.
Status(idx) == [cmd |-> "STATUS", idx |-> idx]
Reply(idx)  == [cmd |-> "STATUS_REPLY", idx |-> idx]

ASSUME RtbMsgAssumption ==
  \A i \in 0 .. MaxEntries - 1 : Status(i) \in Msg /\ Reply(i) \in Msg

\* An element whose model field is copied and whose content is not yet, or is
\* mixed with that of another message. Its command is what the slot held
\* before: which branch of send_mesh_msg it takes is left open.
Torn == [cmd |-> "TORN", idx |-> 0]

ASSUME TornAssumption == Torn \in Msg

\* Only interrupts prepare the messages that expose entries.
ASSUME ThreadMsgAssumption == \A m \in ThreadMsgs : m.cmd \in {"GET", "SET"}

VARIABLES
  s_is_possible_to_send,
  s_curr_tx_token,
  s_timer_to_send,    \* the single-shot timer is running
  in_flight,          \* mesh stack: messages published and not yet complete
  thread,             \* the main thread inside luos_mesh_msg_prepare
  irq,                \* messages the running interrupt still has to prepare
  nb_local_entries,   \* entries of the local container table
  publishing,         \* LUOS_RTB_MODEL_STATE_PUBLISHING
  failed_assert       \* the LUOS_ASSERT that stopped the node, or "none"

sending == <<s_is_possible_to_send, s_curr_tx_token, in_flight>>
app     == <<nb_local_entries, publishing>>
vars    == <<qvars, sending, app, s_timer_to_send, thread, irq, failed_assert>>

ThreadIdle == [pc |-> "idle", msg |-> NoMsg, spot |-> 0, token |-> DefaultToken]

Init ==
  /\ InitQueue
  /\ s_is_possible_to_send = TRUE
  /\ s_curr_tx_token = DefaultToken
  /\ s_timer_to_send = FALSE
  /\ in_flight = {}
  /\ thread = ThreadIdle
  /\ irq = <<>>
  /\ nb_local_entries = InitEntries
  /\ publishing = FALSE
  /\ failed_assert = "none"

-----------------------------------------------------------------------------
\* LUOS_ASSERT on a false condition: the node stops where it is.
Fail(name) ==
  /\ failed_assert' = name
  /\ UNCHANGED <<qvars, sending, app, s_timer_to_send, thread, irq>>

\* nrf_mesh_unique_token_get
FreshToken ==
  CHOOSE t \in Tokens :
    t \notin {f.token : f \in in_flight} \cup {s_curr_tx_token, thread.token}

\* access_model_publish and access_model_reply need a buffer of the mesh
\* stack; without one they return an error, which APP_ERROR_CHECK catches.
NoBuffer == Cardinality(in_flight) = MaxInFlight

Publish(token, elm) ==
  in_flight' = in_flight \cup {[token |-> token, msg |-> elm]}

\* send_mesh_msg run by an interrupt, elm being the element it peeks.
SendMeshMsg(elm) ==
  /\ s_is_possible_to_send' = (elm = Empty)
  /\ IF elm = Empty
     THEN UNCHANGED <<in_flight, s_curr_tx_token>>
     ELSE Publish(FreshToken, elm) /\ s_curr_tx_token' = FreshToken

-----------------------------------------------------------------------------
\* luos_mesh_msg_prepare in the main thread, one shared access per step.

ThreadRuns(pc) == failed_assert = "none" /\ irq = <<>> /\ thread.pc = pc

ThreadUnchanged == UNCHANGED <<app, s_timer_to_send, irq, failed_assert>>

\* A step that only moves the thread.
ThreadMoves(from, to) ==
  /\ ThreadRuns(from)
  /\ thread' = to
  /\ UNCHANGED <<qvars, sending>>
  /\ ThreadUnchanged

ThreadPrepare(m) ==
  ThreadMoves("idle", [ThreadIdle EXCEPT !.pc = "check", !.msg = m])

ThreadCheckSpot ==
  \/ /\ ~QueueFull
     /\ ThreadMoves("check", [thread EXCEPT !.pc = "copy", !.spot = insertion_index])
  \/ ThreadRuns("check") /\ QueueFull /\ Fail("insert_success")

\* memcpy: the field that tells that a slot is taken is the first it copies...
ThreadCopy ==
  /\ ThreadRuns("copy")
  /\ elements' = [elements EXCEPT ![thread.spot] = Torn]
  /\ thread' = [thread EXCEPT !.pc = "rest"]
  /\ UNCHANGED <<insertion_index, peek_index, sending>>
  /\ ThreadUnchanged

\* ... then the others, whatever the slot has become.
Completed(elm) ==
  CASE elm = Torn  -> thread.msg
    [] elm = Empty -> Empty
    [] OTHER       -> Torn

ThreadCopyRest ==
  /\ ThreadRuns("rest")
  /\ elements' = [elements EXCEPT ![thread.spot] = Completed(@)]
  /\ thread' = [ThreadIdle EXCEPT !.pc = "load"]
  /\ UNCHANGED <<insertion_index, peek_index, sending>>
  /\ ThreadUnchanged

ThreadLoadIndex ==
  ThreadMoves("load", [thread EXCEPT !.pc = "store", !.spot = insertion_index])

ThreadStoreIndex ==
  /\ ThreadRuns("store")
  /\ insertion_index' = Advance(thread.spot)
  /\ thread' = [ThreadIdle EXCEPT !.pc = "test"]
  /\ UNCHANGED <<elements, peek_index, sending>>
  /\ ThreadUnchanged

ThreadTestSend ==
  ThreadMoves("test", IF s_is_possible_to_send THEN [thread EXCEPT !.pc = "peek"] ELSE ThreadIdle)

ThreadPeek ==
  ThreadMoves("peek", IF Peek = Empty
                      THEN ThreadIdle
                      ELSE [thread EXCEPT !.pc = "publish", !.spot = peek_index])

ThreadPublish ==
  /\ ThreadRuns("publish")
  /\ \/ elements[thread.spot] = Empty /\ Fail("unknown_model")
     \/ elements[thread.spot] # Empty /\ NoBuffer /\ Fail("err_code")
     \/ /\ elements[thread.spot] # Empty
        /\ ~NoBuffer
        /\ Publish(FreshToken, elements[thread.spot])
        /\ thread' = [ThreadIdle EXCEPT !.pc = "token", !.token = FreshToken]
        /\ UNCHANGED <<qvars, s_is_possible_to_send, s_curr_tx_token>>
        /\ ThreadUnchanged

ThreadSetToken ==
  /\ ThreadRuns("token")
  /\ s_curr_tx_token' = thread.token
  /\ thread' = [thread EXCEPT !.pc = "busy"]
  /\ UNCHANGED <<qvars, s_is_possible_to_send, in_flight>>
  /\ ThreadUnchanged

\* Mutant of ThreadSetBusy: the send flag is not lowered.
ThreadStaysPossible ==
  /\ ThreadRuns("busy")
  /\ thread' = ThreadIdle
  /\ UNCHANGED <<qvars, sending>>
  /\ ThreadUnchanged

ThreadSetBusy ==
  /\ ThreadRuns("busy")
  /\ s_is_possible_to_send' = FALSE
  /\ thread' = ThreadIdle
  /\ UNCHANGED <<qvars, s_curr_tx_token, in_flight>>
  /\ ThreadUnchanged

ThreadContinues ==
  \/ ThreadCheckSpot \/ ThreadCopy \/ ThreadCopyRest \/ ThreadLoadIndex \/ ThreadStoreIndex
  \/ ThreadTestSend \/ ThreadPeek \/ ThreadPublish \/ ThreadSetToken \/ ThreadSetBusy

\* MESH_BRIDGE_FILL_LOCAL_CONTAINER_TABLE and MESH_BRIDGE_CLEAR_INTERNAL_TABLES
LocalTableChange ==
  /\ \/ TableChanges = "any_time"
     \/ TableChanges = "unpublished" /\ ~publishing
  /\ ThreadRuns("idle")
  /\ \E n \in 0 .. MaxEntries : nb_local_entries' = n
  /\ UNCHANGED <<qvars, sending, s_timer_to_send, thread, irq, publishing, failed_assert>>

-----------------------------------------------------------------------------
\* Interrupts.

IrqRuns == failed_assert = "none" /\ irq = <<>>

MayPrepare == IrqRuns /\ (CallersOverlap \/ thread.pc = "idle")

\* A GET is received: every local entry is replied.
ReplyEntries ==
  /\ MayPrepare
  /\ irq' = [k \in 1 .. nb_local_entries |-> Reply(k - 1)]
  /\ UNCHANGED <<qvars, sending, app, s_timer_to_send, thread, failed_assert>>

\* The entries reception timer expires in state GETTING: every local entry
\* is published.
PublishEntries ==
  /\ MayPrepare
  /\ ~publishing
  /\ publishing' = TRUE
  /\ irq' = [k \in 1 .. nb_local_entries |-> Status(k - 1)]
  /\ UNCHANGED <<qvars, sending, s_timer_to_send, thread, nb_local_entries, failed_assert>>

\* luos_mesh_msg_prepare in an interrupt
IrqPrepare ==
  /\ failed_assert = "none"
  /\ irq # <<>>
  /\ ~QueueFull
  /\ ~(s_is_possible_to_send /\ NoBuffer)
  /\ Enqueue(Head(irq))
  /\ irq' = Tail(irq)
  /\ IF s_is_possible_to_send
     THEN SendMeshMsg(elements'[peek_index])
     ELSE UNCHANGED sending
  /\ UNCHANGED <<app, s_timer_to_send, thread, failed_assert>>

IrqPrepareFails ==
  /\ failed_assert = "none"
  /\ irq # <<>>
  /\ \/ QueueFull /\ Fail("insert_success")
     \/ ~QueueFull /\ s_is_possible_to_send /\ NoBuffer /\ Fail("err_code")

\* Mutants of IsLastPublishedEntry: the count taken for the last index; the
\* index not looked at.
LastEntryOffByOne(elm) == elm.cmd = "STATUS" /\ elm.idx = nb_local_entries
EveryStatusIsLast(elm) == elm.cmd = "STATUS"

\* is_last_published_rtb_entry: compared with the table as it is now.
IsLastPublishedEntry(elm) ==
  elm.cmd = "STATUS" /\ elm.idx = nb_local_entries - 1

\* The mesh stack reports message x, which the thread has finished publishing
\* unless completion may come that early.
Reported(x) ==
  /\ IrqRuns
  /\ EarlyComplete \/ thread.token # x.token
  /\ in_flight' = in_flight \ {x}

\* mesh_tx_complete_event_cb, the token being the current one
TxComplete(x) ==
  /\ Reported(x)
  /\ x.token = s_curr_tx_token
  /\ Peek # Empty
  /\ Peek.cmd = "STATUS" => nb_local_entries > 0
  /\ s_curr_tx_token' = DefaultToken
  /\ publishing' = (publishing /\ ~IsLastPublishedEntry(Peek))
  /\ Pop
  /\ s_timer_to_send' = TRUE
  /\ UNCHANGED <<s_is_possible_to_send, thread, irq, nb_local_entries, failed_assert>>

\* ... another token: the event is ignored.
TxCompleteOther(x) ==
  /\ Reported(x)
  /\ x.token # s_curr_tx_token
  /\ UNCHANGED <<qvars, app, s_is_possible_to_send, s_curr_tx_token, s_timer_to_send,
                 thread, irq, failed_assert>>

\* ... the assertions on the peeked element and on the size of the table.
TxCompleteFails(x) ==
  /\ IrqRuns
  /\ EarlyComplete \/ thread.token # x.token
  /\ x.token = s_curr_tx_token
  /\ \/ Peek = Empty /\ Fail("sent_elm")
     \/ /\ Peek # Empty /\ Peek.cmd = "STATUS" /\ nb_local_entries = 0
        /\ Fail("nb_exposed_entries")

\* Mutant of TimerToSend: sending is allowed again but the waiting message is
\* left in the queue.
TimerAllowsOnly ==
  /\ IrqRuns
  /\ CopyExposed \/ thread.pc # "rest"
  /\ s_timer_to_send
  /\ s_timer_to_send' = FALSE
  /\ s_is_possible_to_send' = TRUE
  /\ UNCHANGED <<qvars, app, in_flight, s_curr_tx_token, thread, irq, failed_assert>>

\* timer_to_send_event_cb
TimerToSend ==
  /\ IrqRuns
  /\ CopyExposed \/ thread.pc # "rest"
  /\ s_timer_to_send
  /\ s_timer_to_send' = FALSE
  /\ IF Peek # Empty /\ NoBuffer
     THEN /\ failed_assert' = "err_code"
          /\ UNCHANGED sending
     ELSE /\ SendMeshMsg(Peek)
          /\ UNCHANGED failed_assert
  /\ UNCHANGED <<qvars, app, thread, irq>>

StackReports == \E x \in in_flight : TxComplete(x) \/ TxCompleteOther(x) \/ TxCompleteFails(x)

Next ==
  \/ \E m \in ThreadMsgs : ThreadPrepare(m)
  \/ ThreadContinues
  \/ LocalTableChange
  \/ ReplyEntries
  \/ PublishEntries
  \/ IrqPrepare
  \/ IrqPrepareFails
  \/ StackReports
  \/ TimerToSend

\* The main thread keeps running, interrupts are served, the mesh stack
\* reports every message and a started timer expires.
Fairness ==
  /\ WF_vars(ThreadContinues)
  /\ WF_vars(IrqPrepare \/ IrqPrepareFails)
  /\ WF_vars(StackReports)
  /\ WF_vars(TimerToSend)

Spec == Init /\ [][Next]_vars /\ Fairness

-----------------------------------------------------------------------------
SenderTypeOK ==
  /\ QueueTypeOK
  /\ s_is_possible_to_send \in BOOLEAN
  /\ s_curr_tx_token \in Tokens \cup {DefaultToken}
  /\ s_timer_to_send \in BOOLEAN
  /\ in_flight \subseteq [token : Tokens, msg : Msg]
  /\ thread \in [pc : {"idle", "check", "copy", "rest", "load", "store",
                        "test", "peek", "publish", "token", "busy"},
                  msg : ThreadMsgs \cup {NoMsg},
                  spot : Slots,
                  token : Tokens \cup {DefaultToken}]
  /\ irq \in Seq(Msg)
  /\ nb_local_entries \in 0 .. MaxEntries
  /\ publishing \in BOOLEAN
  /\ failed_assert \in {"none", "insert_success", "unknown_model", "sent_elm",
                        "nb_exposed_entries", "err_code"}

Occupied == {i \in Slots : elements[i] # Empty}

\* A queued message always has something that will send it or pop it: a
\* caller inside luos_mesh_msg_prepare, the running timer, or a message on the
\* air whose completion the manager will recognise. When this breaks, the
\* queue is never served again (mesh_msg_queue_manager.c, the token test in
\* mesh_tx_complete_event_cb).
NoStall ==
  failed_assert = "none" /\ Occupied # {} =>
    \/ thread.pc # "idle"
    \/ irq # <<>>
    \/ s_timer_to_send
    \/ \E x \in in_flight : x.token \in {s_curr_tx_token, thread.token}

\* "Insertion spot is occupied: queue is full" (luos_mesh_msg_queue.c,
\* enqueue): a refused message means that no slot is free.
RefusedMeansFull ==
  failed_assert = "insert_success" => Occupied = Slots

\* "Sends the first message in the queue." (mesh_msg_queue_manager.c,
\* timer_to_send_event_cb): what goes out is a message that was queued, whole.
SentWhole == \A x \in in_flight : x.msg # Torn

\* "Signals end of RTB publication" (app_luos_rtb_model.h): the end is never
\* signalled a second time for one publication, nor without one; the callee
\* asserts its state.
EndSignalled == \E x \in in_flight : TxComplete(x) /\ IsLastPublishedEntry(Peek)

EndOnlyWhilePublishing == [][EndSignalled => publishing]_vars

\* A publication of at least one local entry is always signalled as ended to
\* the Luos RTB model management (app_luos_rtb_model_publication_end), unless
\* an assertion stops the node.
Publishes == irq # <<>> /\ Head(irq).cmd = "STATUS"

EveryPublicationEnds == Publishes ~> ~publishing \/ failed_assert # "none"

\* The manager keeps the promise of MsgSender: order, no loss, no duplicate,
\* one message at a time (ImplementsSender), and every message is eventually
\* sent (KeepsSending).
Accepted == {i \in Slots : elements[i] \notin {Empty, Torn}}
Pending == [k \in 1 .. Cardinality(Accepted) |-> elements[(peek_index + k - 1) % Capacity]]
OnAir   == IF in_flight = {} THEN NoMsg ELSE (CHOOSE x \in in_flight : TRUE).msg

Sender == INSTANCE MsgSender
          WITH Msg <- Msg \ {Torn}, pending <- Pending, on_air <- OnAir, halted <- (failed_assert # "none")

ImplementsSender == Sender!SafeSpec
KeepsSending     == Sender!Fairness
=============================================================================
