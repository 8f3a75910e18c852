------------------------------- MODULE ExtRtb -------------------------------
(***************************************************************************)
(* The routing table extension (Ext-RTB) procedure among several Mesh      *)
(* Bridge nodes: app_luos_rtb_model.c over luos_rtb_model.c and the remote *)
(* container table.                                                        *)
(*                                                                         *)
(* A node's reception, TX complete and timer handlers run in interrupts    *)
(* that do not preempt each other: each is one step. The EXT_RTB command   *)
(* runs in the main thread and is split at every access to the shared      *)
(* state. Outgoing messages go through the queue manager, of which only    *)
(* the promise of MsgSender is kept: in order, one at a time. The mesh     *)
(* keeps the order of one source's messages for one destination and may    *)
(* lose any of them, segmented messages to a group being unacknowledged.   *)
(***************************************************************************)
EXTENDS Integers, Sequences, SequencesExt, Selections

CONSTANTS
  Node,          \* provisioned Mesh Bridge nodes, by unicast address
  MaxRounds,     \* procedures each node's network asks for
  Own,           \* exposable containers of a node's Luos network
  MaxRemote,     \* REMOTE_CONTAINER_TABLE_MAX_NB_ENTRIES
  TxnModulo,     \* 2^16, the width of transaction_id
  MayLose,       \* whether the mesh loses messages
  Prompt,        \* whether every reply arrives while the initiator waits for it
  Sequential,    \* whether a procedure is engaged only when the others ended
  MaxRestarts,   \* resets of each node
  Clearable      \* nodes that may receive CLEAR_INTERNAL_TABLES, once between resets

ASSUME RtbAssumption ==
  /\ MaxRounds \in [Node -> Nat]
  /\ MaxRemote \in Nat /\ MaxRestarts \in [Node -> Nat]
  /\ Own \in [Node -> Nat]
  /\ TxnModulo \in Nat \ {0}
  /\ {MayLose, Prompt, Sequential} \subseteq BOOLEAN /\ Clearable \subseteq Node

VARIABLES
  curr_state,     \* LUOS_RTB_MODEL_STATE_...
  curr_txn,       \* s_curr_transaction_id
  timer,          \* s_entries_reception_timer is running
  local_entries,  \* entries of the local container table
  remote,         \* remote container table: node address and exposed ID
  thread,         \* the main thread inside app_luos_rtb_model_engage_ext_rtb
  out,            \* messages prepared and not yet completely sent
  on_air,         \* the first of them is published
  chan,           \* chan[s][d]: messages of s that d has not handled yet
  failed,         \* a LUOS_ASSERT stopped the node
  rounds,         \* auxiliary: procedures engaged by each node
  cleared,        \* auxiliary: the tables were cleared since the node started
  gave_up,        \* auxiliary: the nodes for whose entries a node waited in vain
  restarts

node_vars == <<curr_state, curr_txn, timer, local_entries, remote, thread, failed>>
mesh_vars == <<out, on_air, chan>>
aux_vars  == <<rounds, cleared, gave_up, restarts>>
vars      == <<node_vars, mesh_vars, aux_vars>>

\* A procedure, by its initiator and its rank there. Messages carry it for
\* the properties only.
Round == UNION {{n} \X (1 .. MaxRounds[n]) : n \in Node}
RoundOf(n) == <<n, rounds[n]>>

Get(n) ==
  [cmd |-> "GET", txn |-> curr_txn'[n], to |-> Node \ {n}, round |-> RoundOf(n)']

Entries(n, cmd, to, txn, round) ==
  [i \in 1 .. local_entries[n] |->
     [cmd |-> cmd, txn |-> txn, idx |-> i - 1, to |-> to, round |-> round]]

Init ==
  /\ curr_state = [n \in Node |-> "IDLE"]
  /\ curr_txn = [n \in Node |-> 0]
  /\ timer = [n \in Node |-> FALSE]
  /\ local_entries = [n \in Node |-> Own[n]]
  /\ remote = [n \in Node |-> <<>>]
  /\ thread = [n \in Node |-> "idle"]
  /\ out = [n \in Node |-> <<>>]
  /\ on_air = [n \in Node |-> FALSE]
  /\ chan = [s \in Node |-> [d \in Node |-> <<>>]]
  /\ failed = [n \in Node |-> FALSE]
  /\ rounds = [n \in Node |-> 0]
  /\ cleared = [n \in Node |-> FALSE]
  /\ gave_up = [n \in Node |-> {}]
  /\ restarts = [n \in Node |-> 0]

-----------------------------------------------------------------------------
\* Nothing is queued, on the air or waiting to be handled.
Quiet ==
  /\ \A n \in Node : out[n] = <<>> /\ thread[n] = "idle"
  /\ \A s, d \in Node : chan[s][d] = <<>>

AllIdle == \A n \in Node : curr_state[n] = "IDLE"

\* app_luos_rtb_model_engage_ext_rtb: the test of the state
Engage(n) ==
  /\ ~failed[n]
  /\ rounds[n] < MaxRounds[n]
  /\ Sequential => Quiet /\ AllIdle
  /\ thread[n] = "idle"
  /\ curr_state[n] = "IDLE"
  /\ thread' = [thread EXCEPT ![n] = "clear"]
  /\ UNCHANGED <<curr_state, curr_txn, timer, local_entries, remote, failed, mesh_vars, aux_vars>>

\* ... remote_container_table_clear
EngageClear(n) ==
  /\ thread[n] = "clear"
  /\ remote' = [remote EXCEPT ![n] = <<>>]
  /\ thread' = [thread EXCEPT ![n] = "get"]
  /\ gave_up' = [gave_up EXCEPT ![n] = {}]
  /\ UNCHANGED <<curr_state, curr_txn, timer, local_entries, failed, mesh_vars,
                 rounds, cleared, restarts>>

\* Mutant of NextTransaction: the procedure keeps the previous identifier.
SameTransaction(n) == IF curr_txn[n] = 0 THEN 1 ELSE curr_txn[n]

\* ++s_curr_transaction_id
NextTransaction(n) == (curr_txn[n] + 1) % TxnModulo

\* ... luos_rtb_model_get: a new transaction and its GET. The increment of the
\* identifier, its reading and the enqueueing are one step.
EngageGet(n) ==
  /\ thread[n] = "get"
  /\ curr_txn' = [curr_txn EXCEPT ![n] = NextTransaction(n)]
  /\ rounds' = [rounds EXCEPT ![n] = @ + 1]
  /\ out' = [out EXCEPT ![n] = Append(@, Get(n))]
  /\ thread' = [thread EXCEPT ![n] = "timer"]
  /\ UNCHANGED <<curr_state, timer, local_entries, remote, failed, on_air, chan, cleared, gave_up, restarts>>

\* Mutant of EngageTimer: the reception timer is not started.
EngageWithoutTimer(n) ==
  /\ thread[n] = "timer"
  /\ thread' = [thread EXCEPT ![n] = "state"]
  /\ UNCHANGED <<curr_state, curr_txn, timer, local_entries, remote, failed, mesh_vars, aux_vars>>

\* ... app_timer_start
EngageTimer(n) ==
  /\ thread[n] = "timer"
  /\ timer' = [timer EXCEPT ![n] = TRUE]
  /\ thread' = [thread EXCEPT ![n] = "state"]
  /\ UNCHANGED <<curr_state, curr_txn, local_entries, remote, failed, mesh_vars, aux_vars>>

\* ... the new state
EngageState(n) ==
  /\ thread[n] = "state"
  /\ curr_state' = [curr_state EXCEPT ![n] = "GETTING"]
  /\ thread' = [thread EXCEPT ![n] = "idle"]
  /\ UNCHANGED <<curr_txn, timer, local_entries, remote, failed, mesh_vars, aux_vars>>

EngageContinues(n) ==
  /\ ~failed[n]
  /\ EngageClear(n) \/ EngageGet(n) \/ EngageTimer(n) \/ EngageState(n)

-----------------------------------------------------------------------------
\* Sending. The mesh delivers to those of the receivers it does not lose.
\* The few instructions of the main thread are over before a prompt mesh is.
Transmit(n) ==
  /\ ~failed[n]
  /\ out[n] # <<>>
  /\ ~on_air[n]
  /\ Prompt => thread[n] = "idle"
  /\ on_air' = [on_air EXCEPT ![n] = TRUE]
  /\ \E lost \in SUBSET Head(out[n]).to :
       /\ lost # {} => MayLose
       /\ chan' = [chan EXCEPT ![n] =
                     [d \in Node |-> IF d \in Head(out[n]).to \ lost
                                     THEN Append(@[d], Head(out[n]))
                                     ELSE @[d]]]
  /\ UNCHANGED <<node_vars, out, aux_vars>>

\* Mutant of IsLastPublishedEntry: replied entries count as published ones.
AnyLastEntry(n, msg) == msg.cmd # "GET" /\ msg.idx = local_entries[n] - 1

\* Mutant of IsLastPublishedEntry: the count taken for the last index.
LastEntryOffByOne(n, msg) == msg.cmd = "STATUS" /\ msg.idx = local_entries[n]

\* is_last_published_rtb_entry
IsLastPublishedEntry(n, msg) ==
  msg.cmd = "STATUS" /\ msg.idx = local_entries[n] - 1

\* mesh_tx_complete_event_cb; after the last published entry,
\* app_luos_rtb_model_publication_end and ext_rtb_complete. The assertions on
\* the size of the table and on the state stop the node.
TxComplete(n) ==
  /\ ~failed[n]
  /\ on_air[n]
  /\ LET msg  == Head(out[n])
         last == IsLastPublishedEntry(n, msg)
     IN /\ curr_state' = [curr_state EXCEPT ![n] = IF last THEN "IDLE" ELSE @]
        /\ failed' = [failed EXCEPT ![n] =
                        \/ msg.cmd = "STATUS" /\ local_entries[n] = 0
                        \/ last /\ curr_state[n] \notin {"PUBLISHING", "RECEIVING"}]
  /\ out' = [out EXCEPT ![n] = Tail(@)]
  /\ on_air' = [on_air EXCEPT ![n] = FALSE]
  /\ UNCHANGED <<curr_txn, timer, local_entries, remote, thread, chan, aux_vars>>

-----------------------------------------------------------------------------
\* Reception by n of the next message of s.

Received(n, s) == Head(chan[s][n])

Receives(n, s, cmds) ==
  /\ ~failed[n]
  /\ chan[s][n] # <<>>
  /\ Received(n, s).cmd \in cmds

Consume(n, s) == chan' = [chan EXCEPT ![s][n] = Tail(@)]

\* The test of luos_rtb_model_get_cb
IsNewTransaction(n, msg) == msg.txn > curr_txn[n]

\* Mutant of ClearAddress: entries stay.
KeepAddress(table, addr) == table

\* remote_container_table_clear_address
ClearAddress(table, addr) == Selected(table, {i \in DOMAIN table : table[i].addr # addr})

\* luos_rtb_model_get_cb, rtb_model_get_cb, get_rtb_entries and
\* luos_rtb_model_reply_entries. A node that is not idle still replies.
\* REPLYING lasts from rtb_model_get_cb to get_rtb_entries, within the step.
ReceiveGet(n, s) ==
  /\ Receives(n, s, {"GET"})
  /\ IsNewTransaction(n, Received(n, s))
  /\ Consume(n, s)
  /\ curr_txn' = [curr_txn EXCEPT ![n] = Received(n, s).txn]
  /\ IF curr_state[n] = "IDLE"
     THEN /\ curr_state' = [curr_state EXCEPT ![n] = "RECEIVING"]
          /\ remote' = [remote EXCEPT ![n] = ClearAddress(@, s)]
          /\ timer' = [timer EXCEPT ![n] = TRUE]
          /\ gave_up' = [gave_up EXCEPT ![n] = @ \ {s}]
     ELSE UNCHANGED <<curr_state, remote, timer, gave_up>>
  /\ out' = [out EXCEPT ![n] =
               @ \o Entries(n, "STATUS_REPLY", {s}, Received(n, s).txn, Received(n, s).round)]
  /\ UNCHANGED <<local_entries, thread, failed, on_air, rounds, cleared, restarts>>

IgnoreGet(n, s) ==
  /\ Receives(n, s, {"GET"})
  /\ ~IsNewTransaction(n, Received(n, s))
  /\ Consume(n, s)
  /\ UNCHANGED <<node_vars, out, on_air, aux_vars>>

\* Mutant of AcceptsStatus: the entry is stored whatever its transaction.
AcceptsAnyStatus(n, msg) == curr_state[n] \in {"GETTING", "RECEIVING"}

\* The tests of luos_rtb_model_status_cb and rtb_model_status_cb
AcceptsStatus(n, msg) ==
  msg.txn >= curr_txn[n] /\ curr_state[n] \in {"GETTING", "RECEIVING"}

\* Mutant of AddEntry: the capacity is not tested.
AddEntryUnchecked(table, addr, idx) == Append(table, [addr |-> addr, id |-> idx])

\* remote_container_table_add_entry
AddEntry(table, addr, idx) ==
  IF Len(table) < MaxRemote THEN Append(table, [addr |-> addr, id |-> idx]) ELSE table

\* luos_rtb_model_status_cb and rtb_model_status_cb; the timer is restarted.
ReceiveStatus(n, s) ==
  /\ Receives(n, s, {"STATUS", "STATUS_REPLY"})
  /\ AcceptsStatus(n, Received(n, s))
  /\ Consume(n, s)
  /\ remote' = [remote EXCEPT ![n] = AddEntry(@, s, Received(n, s).idx)]
  /\ timer' = [timer EXCEPT ![n] = TRUE]
  /\ UNCHANGED <<curr_state, curr_txn, local_entries, thread, failed, out, on_air, aux_vars>>

IgnoreStatus(n, s) ==
  /\ Receives(n, s, {"STATUS", "STATUS_REPLY"})
  /\ ~AcceptsStatus(n, Received(n, s))
  /\ Consume(n, s)
  /\ UNCHANGED <<node_vars, out, on_air, aux_vars>>

Receive(n, s) == ReceiveGet(n, s) \/ IgnoreGet(n, s) \/ ReceiveStatus(n, s) \/ IgnoreStatus(n, s)

-----------------------------------------------------------------------------
\* The initiator waits 2 s for the first reply and 0.5 s for each next one: with
\* a prompt mesh that is enough for every reply. A receiver waits 2 s for the
\* first published entry and 4 s for each next one; the initiator may wait for
\* replies longer than that, whatever the mesh does.
TimerMayExpire(n) == Prompt /\ curr_state[n] = "GETTING" => Quiet

\* When the timer of n expires, the initiator that was still to publish entries
\* or whose entries n has not handled. It is recorded only when procedures do
\* not overlap.
Awaited(n) ==
  {s \in Node \ {n} :
     Sequential /\ (curr_state[s] \in {"GETTING", "PUBLISHING"} \/ chan[s][n] # <<>>)}

\* entries_reception_timeout_cb: in RECEIVING ext_rtb_complete, in GETTING the
\* publication of the local entries; in another state an assertion stops the
\* node. The timer does not expire within the few instructions of the main
\* thread that start it.
Timeout(n) ==
  /\ ~failed[n]
  /\ timer[n]
  /\ thread[n] = "idle"
  /\ TimerMayExpire(n)
  /\ timer' = [timer EXCEPT ![n] = FALSE]
  /\ failed' = [failed EXCEPT ![n] = curr_state[n] \notin {"GETTING", "RECEIVING"}]
  /\ IF curr_state[n] = "GETTING"
     THEN /\ curr_state' = [curr_state EXCEPT ![n] = "PUBLISHING"]
          /\ out' = [out EXCEPT ![n] =
                       @ \o Entries(n, "STATUS", Node \ {n}, curr_txn[n], RoundOf(n))]
          /\ UNCHANGED gave_up
     ELSE /\ curr_state' = [curr_state EXCEPT ![n] = "IDLE"]
          /\ gave_up' = [gave_up EXCEPT ![n] = @ \cup Awaited(n)]
          /\ UNCHANGED out
  /\ UNCHANGED <<curr_txn, local_entries, remote, thread, on_air, chan, rounds, cleared, restarts>>

-----------------------------------------------------------------------------
\* MESH_BRIDGE_FILL_LOCAL_CONTAINER_TABLE, received as README.md asks: after
\* the tables were emptied and a detection was run.
Fill(n) ==
  /\ ~failed[n]
  /\ thread[n] = "idle"
  /\ local_entries[n] = 0
  /\ remote[n] = <<>>
  /\ local_entries' = [local_entries EXCEPT ![n] = Own[n]]
  /\ UNCHANGED <<curr_state, curr_txn, timer, remote, thread, failed, mesh_vars, aux_vars>>

\* MESH_BRIDGE_CLEAR_INTERNAL_TABLES
ClearTables(n) ==
  /\ n \in Clearable /\ ~cleared[n]
  /\ ~failed[n]
  /\ thread[n] = "idle"
  /\ cleared' = [cleared EXCEPT ![n] = TRUE]
  /\ local_entries' = [local_entries EXCEPT ![n] = 0]
  /\ remote' = [remote EXCEPT ![n] = <<>>]
  /\ UNCHANGED <<curr_state, curr_txn, timer, thread, failed, mesh_vars, rounds, gave_up, restarts>>

\* A reset: nothing of this is in flash. What the node had not handled is
\* lost, what it had transmitted is not.
Restart(n) ==
  /\ restarts[n] < MaxRestarts[n]
  /\ restarts' = [restarts EXCEPT ![n] = @ + 1]
  /\ curr_state' = [curr_state EXCEPT ![n] = "IDLE"]
  /\ curr_txn' = [curr_txn EXCEPT ![n] = 0]
  /\ timer' = [timer EXCEPT ![n] = FALSE]
  /\ local_entries' = [local_entries EXCEPT ![n] = 0]
  /\ remote' = [remote EXCEPT ![n] = <<>>]
  /\ thread' = [thread EXCEPT ![n] = "idle"]
  /\ failed' = [failed EXCEPT ![n] = FALSE]
  /\ out' = [out EXCEPT ![n] = <<>>]
  /\ on_air' = [on_air EXCEPT ![n] = FALSE]
  /\ chan' = [s \in Node |-> [chan[s] EXCEPT ![n] = <<>>]]
  /\ cleared' = [cleared EXCEPT ![n] = FALSE]
  /\ gave_up' = [gave_up EXCEPT ![n] = {}]
  /\ UNCHANGED rounds

Next ==
  \E n \in Node :
    \/ Engage(n)
    \/ EngageContinues(n)
    \/ Transmit(n)
    \/ TxComplete(n)
    \/ \E s \in Node \ {n} : Receive(n, s)
    \/ Timeout(n)
    \/ Fill(n)
    \/ ClearTables(n)
    \/ Restart(n)

\* The main thread runs, queued messages are sent and reported, received
\* messages are handled, and a running timer expires. Nobody has to engage a
\* procedure, to fill the table or to restart.
Fairness ==
  \A n \in Node :
    /\ WF_vars(EngageContinues(n))
    /\ WF_vars(Transmit(n))
    /\ WF_vars(TxComplete(n))
    /\ \A s \in Node \ {n} : WF_vars(Receive(n, s))
    /\ WF_vars(Timeout(n))

Spec == Init /\ [][Next]_vars /\ Fairness

-----------------------------------------------------------------------------
Messages ==
  LET txns == 0 .. TxnModulo - 1
      idxs == UNION {0 .. Own[n] - 1 : n \in Node}
  IN [cmd : {"GET"}, txn : txns, to : SUBSET Node, round : Round]
     \cup [cmd : {"STATUS", "STATUS_REPLY"}, txn : txns, idx : idxs,
           to : SUBSET Node, round : Round]

\* Types; the remote container table is within its bounds.
RtbTypeOK ==
  \A n \in Node :
    /\ curr_state[n] \in {"IDLE", "GETTING", "PUBLISHING", "RECEIVING"}
    /\ curr_txn[n] \in 0 .. TxnModulo - 1
    /\ timer[n] \in BOOLEAN /\ on_air[n] \in BOOLEAN /\ failed[n] \in BOOLEAN
    /\ local_entries[n] \in {0, Own[n]}
    /\ Len(remote[n]) <= MaxRemote
    /\ \A e \in ToSet(remote[n]) : e.addr \in Node \ {n} /\ e.id \in 0 .. Own[e.addr] - 1
    /\ thread[n] \in {"idle", "clear", "get", "timer", "state"}
    /\ gave_up[n] \subseteq Node \ {n}
    /\ ToSet(out[n]) \subseteq Messages
    /\ \A d \in Node : ToSet(chan[n][d]) \subseteq {m \in Messages : d \in m.to}

\* A node waits for entries exactly as long as its reception timer runs
\* (app_luos_rtb_model.c): without the timer it would wait for ever, and the
\* expiry of the timer in another state is an assertion.
ListeningIsTimed ==
  \A n \in Node :
    ~failed[n] /\ thread[n] = "idle" =>
      (timer[n] <=> curr_state[n] \in {"GETTING", "RECEIVING"})

\* The assertions of ext_rtb_complete ("Checking context."), of
\* entries_reception_timeout_cb ("Check context.") and of
\* is_last_published_rtb_entry ("Check to avoid underflow...") hold until the
\* tables are cleared, whatever is lost or reset and whenever timers expire.
NoAssertFails == \A n \in Node : failed[n] => cleared[n]

\* "This STATUS message is meant for a previous transaction"
\* (luos_rtb_model_status_cb): of the replies it gets, a node that was not
\* reset stores only those to the last GET it sent.
StoresReply(n, s) == ReceiveStatus(n, s) /\ Received(n, s).cmd = "STATUS_REPLY"

RepliesAreCurrent ==
  [][\A n \in Node : \A s \in Node \ {n} :
       StoresReply(n, s) /\ restarts[n] = 0 => Received(n, s).round = RoundOf(n)]_vars

\* A node that takes part in a procedure becomes idle again, whatever the
\* mesh loses and the other nodes do: README.md, "MESH_BRIDGE_EXT_RTB_COMPLETE:
\* Sent after the routing table extension procedure is complete". A procedure
\* engaged with the empty table of a cleared or reset node does not end.
EveryProcedureEnds ==
  \A n \in Node :
    curr_state[n] # "IDLE" ~> curr_state[n] = "IDLE" \/ cleared[n] \/ restarts[n] > 0

\* Nothing is stored twice: "The entries of the remote container table
\* bearing the unicast address of the Bluetooth Mesh node emitting the
\* request are removed" (README.md) before its new ones are stored.
NoDuplicates ==
  \A n \in Node : \A i, j \in DOMAIN remote[n] : i # j => remote[n][i] # remote[n][j]

\* Once a procedure is over, its initiator knows the containers of all the
\* other networks, and they know those of its network (README.md, "Routing
\* table extension"), except a node whose reception timer expired before the
\* entries of the last procedure of the other were all handled.
Knows(n, m) ==
  \A i \in 0 .. Own[m] - 1 : [addr |-> m, id |-> i] \in ToSet(remote[n])

Informed(n, m) == Knows(n, m) \/ m \in gave_up[n]

TablesExtended ==
  Quiet /\ AllIdle =>
    \A n \in Node : rounds[n] > 0 =>
      \A m \in Node \ {n} : Informed(n, m) /\ Informed(m, n)
=============================================================================
