----------------------------- MODULE MsgExchange -----------------------------
(***************************************************************************)
(* Luos messages from network to network (luos_msg_model.c,                *)
(* app_luos_msg_model.c): a message to the local instance of a remote      *)
(* container becomes a SET that every node hears; the node it is for turns *)
(* it into a message from its own instance of the source.                  *)
(*                                                                         *)
(* Messages are sent to instances that were detected. The mesh keeps the   *)
(* order of the messages of a node to another.                             *)
(***************************************************************************)
EXTENDS ContainerTables

CONSTANTS
  MaxSends,   \* messages sent
  TxnModulo,  \* transactions told apart by the field of a SET
  MaxLost,    \* SET commands lost on their way to a node
  Quiet       \* whether messages are sent one at a time, and at rest

ASSUME ExchangeAssumption ==
  {MaxSends, MaxLost} \subseteq Nat /\ TxnModulo \in Nat \ {0} /\ Quiet \in BOOLEAN

VARIABLES
  txn,      \* s_curr_transaction_id
  air,      \* SET commands on their way from a node to another
  arrived,  \* auxiliary: source and target of the last message, at both ends
  asserted, \* "none", or why a look-up failed that a LUOS_ASSERT tests
  sends, lost

msg_vars == <<txn, air, arrived, asserted, sends, lost>>
vars == <<tables_vars, msg_vars>>

ExchangeInit ==
  /\ Init
  /\ txn = [n \in Net |-> 0]
  /\ air = [n \in Net |-> [m \in Net |-> <<>>]]
  /\ arrived = [sent |-> <<>>, got |-> <<>>] /\ asserted = "none"
  /\ sends = 0 /\ lost = 0

NothingOnAir == \A n, m \in Net : air[n][m] = <<>>

-----------------------------------------------------------------------------
\* The first entry of a table that matches; 0 when there is none.
LocalIndex(n, local_id) == SelectInSeq(local_table[n], LAMBDA e : e.local_id = local_id)
ExposedIndex(n, exposed_id) == SelectInSeq(local_table[n], LAMBDA e : e.id = exposed_id)
RemoteIndex(n, local_id) == SelectInSeq(remote_table[n], LAMBDA e : e.local_id = local_id)
SourceIndex(n, addr, id) ==
  SelectInSeq(remote_table[n], LAMBDA e : e.node_addr = addr /\ e.id = id)

\* The remote container that an instance stands for
Behind(n, instance) ==
  remote_table[n][SelectInSeq(remote_table[n], LAMBDA e : e.local_instance = instance)].container

\* msg_to_luos_mesh_msg: exposed identifiers in place of local ones. "ends" is
\* auxiliary: the containers at both ends.
MeshMsg(source, target, ends) == [source |-> source, target |-> target, ends |-> ends]

\* luos_msg_model_set: the identifier of a new transaction, of which a SET
\* holds the bits that its field has
NextTransaction(n) == txn[n] + 1

SetCommand(n, dst_addr, msg) ==
  [transaction_id |-> NextTransaction(n) % TxnModulo, dst_addr |-> dst_addr, msg |-> msg]

\* msg_model_set_send: the SET is queued, then published to the group of the
\* Mesh Bridges (MsgQueueManager models the queue).
SetSend(n, set) ==
  air' = [air EXCEPT ![n] = [m \in Net |-> IF m = n THEN @[m] ELSE Append(@[m], set)]]

Running == asserted = "none"

Exposed(n) == {local_table[n][i].container : i \in DOMAIN local_table[n]}

\* RemoteContainer_MsgHandler and app_luos_msg_model_send_msg: a container of
\* the network, exposed or not, sends to a local instance of a remote
\* container. The Mesh Bridge sends to none.
Send(n) ==
  /\ Running /\ sends < MaxSends
  /\ Quiet => NothingOnAir /\ \A m \in Net : AtRest(m)
  /\ \E src_id, target_id \in DOMAIN rtb[n] :
       /\ rtb[n][src_id] \in Container \ {Bridge(n)}
       /\ rtb[n][target_id] \in Range(Instances(n))
       /\ LET local  == LocalIndex(n, src_id)
              remote == RemoteIndex(n, target_id)
              ends   == [source |-> rtb[n][src_id], target |-> Behind(n, rtb[n][target_id])]
          IN IF local = 0 \/ remote = 0
             THEN /\ asserted' = IF local = 0 /\ ends.source \notin Exposed(n)
                                 THEN "not_exposed" ELSE "not_found"
                  /\ UNCHANGED <<txn, air>>
             ELSE LET entry == remote_table[n][remote]
                      msg   == MeshMsg(local_table[n][local].id, entry.id, ends)
                  IN /\ txn' = [txn EXCEPT ![n] = NextTransaction(n)]
                     /\ SetSend(n, SetCommand(n, entry.node_addr, msg))
                     /\ UNCHANGED asserted
  /\ sends' = sends + 1
  /\ UNCHANGED <<arrived, lost, tables_vars>>

\* The test of luos_msg_model_set_cb
IsNewTransaction(n, set) == set.transaction_id > txn[n]

\* Mutant of KeptTransaction: only the node that is targeted keeps it.
KeptByTarget(n, set) == IF set.dst_addr = n THEN set.transaction_id ELSE txn[n]

\* The identifier is kept even if the node is not targeted.
KeptTransaction(n, set) == set.transaction_id

Heard(n, from) == Head(air[from][n])

Take(n, from) ==
  /\ air[from][n] # <<>>
  /\ air' = [air EXCEPT ![from][n] = Tail(@)]

\* luos_mesh_msg_to_msg and Luos_SendMsg: the message of an instance to the
\* container that has a local ID
Delivered(n, source, local_dst) ==
  [source |-> source.container, target |-> rtb[n][local_dst]]

\* luos_msg_model_set_cb and msg_model_set_cb: a SET for this node
ReceiveSet(n, from) ==
  /\ Running
  /\ Take(n, from)
  /\ LET set    == Heard(n, from)
         source == SourceIndex(n, from, set.msg.source)
         target == ExposedIndex(n, set.msg.target)
     IN /\ IsNewTransaction(n, set) /\ set.dst_addr = n
        /\ txn' = [txn EXCEPT ![n] = KeptTransaction(n, set)]
        /\ IF source = 0 \/ target = 0
           THEN asserted' = "not_found" /\ UNCHANGED arrived
           ELSE /\ arrived' = [sent |-> set.msg.ends,
                               got |-> Delivered(n, remote_table[n][source],
                                                 local_table[n][target].local_id)]
                /\ UNCHANGED asserted
  /\ UNCHANGED <<sends, lost, tables_vars>>

\* ... for another node
OverhearSet(n, from) ==
  /\ Running
  /\ Take(n, from)
  /\ IsNewTransaction(n, Heard(n, from)) /\ Heard(n, from).dst_addr # n
  /\ txn' = [txn EXCEPT ![n] = KeptTransaction(n, Heard(n, from))]
  /\ UNCHANGED <<arrived, asserted, sends, lost, tables_vars>>

\* ... of a transaction that is not new
IgnoreSet(n, from) ==
  /\ Running
  /\ Take(n, from)
  /\ ~IsNewTransaction(n, Heard(n, from))
  /\ UNCHANGED <<txn, arrived, asserted, sends, lost, tables_vars>>

LoseSet(n, from) ==
  /\ lost < MaxLost
  /\ Take(n, from)
  /\ lost' = lost + 1
  /\ UNCHANGED <<txn, arrived, asserted, sends, tables_vars>>

\* The tables change; with Quiet, only while no message is on its way.
TablesStep ==
  /\ Running
  /\ Quiet => NothingOnAir
  /\ TablesNext
  /\ UNCHANGED msg_vars

Next ==
  \/ TablesStep
  \/ \E n \in Net : Send(n)
  \/ \E n, from \in Net :
       ReceiveSet(n, from) \/ OverhearSet(n, from) \/ IgnoreSet(n, from) \/ LoseSet(n, from)

Spec == ExchangeInit /\ [][Next]_vars
-----------------------------------------------------------------------------
\* A message that arrives comes from an instance of the container that sent it
\* and reaches the container it was meant for, although no identifier is the
\* same in both networks and detections renumber the containers of each
\* (app_luos_msg_model_send_msg, msg_model_set_cb).
MessagesArrive == arrived.sent = arrived.got

\* The containers of a message are in the tables of both networks: the look-up
\* of the source fails for containers that are not exposed, and no other
\* look-up that a LUOS_ASSERT of app_luos_msg_model.c tests fails.
TablesKnowMessages == asserted # "not_found"

\* An identifier passed the bits that the field of a SET has.
Wrapped == \E n \in Net : txn[n] >= TxnModulo

\* "this ID will progress with all transactions" (luos_msg_model.c): as long as
\* no SET was lost and no identifier wrapped, a node never ignores a SET that
\* is meant for it.
MessagesAccepted ==
  [][\A n, from \in Net :
       IgnoreSet(n, from) /\ lost = 0 /\ ~Wrapped => Heard(n, from).dst_addr # n]_vars
=============================================================================
