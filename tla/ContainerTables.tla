--------------------------- MODULE ContainerTables ---------------------------
(***************************************************************************)
(* The container tables of the Mesh Bridges (local_container_table.c,      *)
(* remote_container_table.c) against the identifiers that Luos detections  *)
(* give to containers, with the update handshake of the Gate               *)
(* (json_mnger.c, gate.c).                                                 *)
(*                                                                         *)
(* An entry says under which local ID a container is found in the routing  *)
(* table, and a detection renumbers the containers: the board that runs it *)
(* comes first. The Luos library is external. An Ext-RTB procedure is only *)
(* seen through its effect on the tables: procedures follow one another    *)
(* and no message of theirs is lost (ExtRtb models the procedure itself).  *)
(***************************************************************************)
EXTENDS Integers, FiniteSets, Sequences, SequencesExt, Selections

CONSTANTS
  Container,
  Net,          \* networks, each with one Mesh Bridge; also its unicast address
  BridgeBoard,  \* containers of the board of the Mesh Bridge, which is the first
  OtherBoard,   \* containers of another board; the first is the Gate if there is one
  Gates,        \* networks with a Gate
  Rounds,       \* initiators of the successive Ext-RTB procedures
  MaxEntries,   \* LUOS_RTB_MODEL_MAX_RTB_ENTRY
  FillsFull,    \* whether a local table that is full may be filled again
  MaxClears     \* MESH_BRIDGE_CLEAR_INTERNAL_TABLES commands

ASSUME TablesAssumption ==
  /\ IsFiniteSet(Net) /\ Gates \subseteq Net /\ Rounds \in Seq(Net)
  /\ MaxEntries \in Nat \ {0} /\ FillsFull \in BOOLEAN /\ MaxClears \in Nat
  /\ {BridgeBoard, OtherBoard} \subseteq [Net -> Seq(Container)]
  /\ \A n \in Net : Len(BridgeBoard[n]) >= 2 /\ (n \in Gates => OtherBoard[n] # <<>>)
  /\ \A n \in Net : IsInjective(BridgeBoard[n] \o OtherBoard[n])
  /\ Container \cap (Net \X Nat) = {}  \* instances are named <<network, exposed ID>>

VARIABLES
  rtb,           \* routing table: the containers of a network, by local ID
  local_table,   \* s_local_container_table
  remote_table,  \* s_remote_container_table
  nb_local,      \* s_nb_local_containers: 0 until it is computed
  state,         \* part of a network in the current procedure
  todo,          \* networks that have not received the GET of the procedure
  gate,          \* the update handshake of the Gate
  round, clears

tables_vars == <<rtb, local_table, remote_table, nb_local, state, todo, gate, round, clears>>

Bridge(n) == BridgeBoard[n][1]

\* The local instances of remote containers, created after the other
\* containers of the board of the Mesh Bridge, in the order of the table.
Instances(n) == [i \in DOMAIN remote_table[n] |-> remote_table[n][i].local_instance]

\* RoutingTB_DetectContainers run by a container of one of the boards
DetectedFromBridge(n) == BridgeBoard[n] \o Instances(n) \o OtherBoard[n]
DetectedFromOther(n)  == OtherBoard[n] \o BridgeBoard[n] \o Instances(n)

\* Where the containers of a board start in a routing table: a detection
\* numbers those of a board in a row.
OnBridgeBoard(n, container) == container \in Range(BridgeBoard[n]) \cup (Net \X Nat)
FirstID(n, table, on_bridge) == SelectInSeq(table, LAMBDA c : OnBridgeBoard(n, c) = on_bridge)

\* RoutingTB_FindFutureContainerID: the local ID of the same place of the same
\* board after a detection. Who has that place may not be detected yet.
FutureID(n, id, detected) ==
  IF id \in DOMAIN rtb[n]
  THEN LET on_bridge == OnBridgeBoard(n, rtb[n][id])
       IN id - FirstID(n, rtb[n], on_bridge) + FirstID(n, detected, on_bridge)
  ELSE id

\* local_container_table_update_local_ids, remote_container_table_update_local_ids
UpdatedIDs(n, table, detected) ==
  [i \in DOMAIN table |-> [table[i] EXCEPT !.local_id = FutureID(n, @, detected)]]

Init ==
  /\ local_table = [n \in Net |-> <<>>] /\ remote_table = [n \in Net |-> <<>>]
  /\ rtb = [n \in Net |-> IF n \in Gates THEN OtherBoard[n] \o BridgeBoard[n]
                                         ELSE BridgeBoard[n] \o OtherBoard[n]]
  /\ nb_local = [n \in Net |-> 0]
  /\ state = [n \in Net |-> "IDLE"] /\ todo = {}
  /\ gate = [n \in Net |-> "idle"]
  /\ round = 0 /\ clears = 0

-----------------------------------------------------------------------------
\* is_entry_to_store
IsEntryToStore(n, container) == container # Bridge(n)

\* The local IDs of the containers to store, in the order of the routing table
IDsToStore(n) ==
  Selected([id \in DOMAIN rtb[n] |-> id], {id \in DOMAIN rtb[n] : IsEntryToStore(n, rtb[n][id])})

\* Mutant of FilledTable: every container is stored.
FilledWithoutLimit(n) ==
  LET ids  == IDsToStore(n)
      held == Len(local_table[n])
  IN local_table[n] \o [i \in DOMAIN ids |->
       [local_id |-> ids[i], id |-> held + i - 1, container |-> rtb[n][ids[i]]]]

\* local_container_table_fill: the containers of the routing table, but for
\* the Mesh Bridge, are added to the entries that the table has. The limit is
\* tested behind each: a table that is full gets one more, behind its end. The
\* exposed ID is the index in the table.
FilledTable(n) ==
  LET ids    == IDsToStore(n)
      held   == Len(local_table[n])
      room   == IF held < MaxEntries THEN MaxEntries - held ELSE 1
      stored == SubSeq(ids, 1, IF Len(ids) < room THEN Len(ids) ELSE room)
  IN local_table[n] \o [i \in DOMAIN stored |->
       [local_id |-> stored[i], id |-> held + i - 1, container |-> rtb[n][stored[i]]]]

\* MESH_BRIDGE_FILL_LOCAL_CONTAINER_TABLE, before the first procedure: the Gate
\* sends it once after its first detection, and another container may send it
\* again, as long as the table has room unless FillsFull.
Fill(n) ==
  /\ round = 0
  /\ Len(local_table[n]) < MaxEntries \/ FillsFull
  /\ local_table' = [local_table EXCEPT ![n] = FilledTable(n)]
  /\ UNCHANGED <<rtb, remote_table, nb_local, state, todo, gate, round, clears>>

\* MESH_BRIDGE_CLEAR_INTERNAL_TABLES, before the first procedure as well: the
\* instances that it destroys stay in the routing table, and other networks
\* keep the entries of the containers it forgets.
Clear(n) ==
  /\ round = 0
  /\ clears < MaxClears
  /\ local_table' = [local_table EXCEPT ![n] = <<>>]
  /\ remote_table' = [remote_table EXCEPT ![n] = <<>>]
  /\ clears' = clears + 1
  /\ UNCHANGED <<rtb, nb_local, state, todo, gate, round>>

-----------------------------------------------------------------------------
\* The tables in an Ext-RTB procedure

\* get_nb_local_containers_in_mesh_bridge_node
NbContainersInBridgeNode(n) ==
  Cardinality({id \in DOMAIN rtb[n] : rtb[n][id] \in Range(BridgeBoard[n] \o Instances(n))})

\* remote_container_table_add_entry for each exposed entry of another network;
\* the table has room for MaxEntries entries of every other node.
NbLocal(n) == IF nb_local[n] = 0 THEN NbContainersInBridgeNode(n) ELSE nb_local[n]

AddedEntries(n, from) ==
  [i \in DOMAIN local_table[from] |->
     [node_addr |-> from, id |-> local_table[from][i].id,
      container |-> local_table[from][i].container,
      local_id |-> NbLocal(n) + 1 + Len(remote_table[n]) + i - 1,
      local_instance |-> <<from, local_table[from][i].id>>]]

AddEntries(n, from) ==
  /\ remote_table' = [remote_table EXCEPT ![n] = @ \o AddedEntries(n, from)]
  /\ nb_local' = IF local_table[from] = <<>> THEN nb_local ELSE [nb_local EXCEPT ![n] = NbLocal(n)]

\* Mutant of ClearedAddress: the local IDs of shifted entries are kept.
ClearedWithoutShift(table, addr) ==
  Selected(table, {i \in DOMAIN table : table[i].node_addr # addr})

\* remote_container_table_clear_address: the entries that are shifted get a
\* lower local ID.
ClearedAddress(table, addr) ==
  LET before(i) == Cardinality({j \in 1 .. i - 1 : table[j].node_addr = addr})
  IN Selected([i \in DOMAIN table |-> [table[i] EXCEPT !.local_id = @ - before(i)]],
              {i \in DOMAIN table : table[i].node_addr # addr})

InProgress == \E n \in Net : state[n] # "IDLE"
Initiator == Rounds[round]

\* app_luos_rtb_model_engage_ext_rtb: the remote container table is cleared.
Engage ==
  /\ ~InProgress /\ \A n \in Net : gate[n] = "idle"
  /\ round < Len(Rounds)
  /\ LET n == Rounds[round + 1]
     IN /\ local_table[n] # <<>>
        /\ remote_table' = [remote_table EXCEPT ![n] = <<>>]
        /\ state' = [state EXCEPT ![n] = "PUBLISHING"]
        /\ todo' = Net \ {n}
  /\ round' = round + 1
  /\ UNCHANGED <<rtb, local_table, nb_local, gate, clears>>

\* The GET: the entries of the initiator are cleared, and the local IDs of the
\* others updated for the detection that ends the procedure.
ReceiveGet(n) ==
  /\ n \in todo /\ state[n] = "IDLE"
  /\ remote_table' = [remote_table EXCEPT
       ![n] = UpdatedIDs(n, ClearedAddress(@, Initiator), DetectedFromBridge(n))]
  /\ state' = [state EXCEPT ![n] = "REPLYING"]
  /\ UNCHANGED <<rtb, local_table, nb_local, todo, gate, round, clears>>

\* The initiator receives the replies of a network.
ReceiveReplies(n) ==
  /\ n \in todo /\ state[n] = "REPLYING"
  /\ AddEntries(Initiator, n)
  /\ state' = [state EXCEPT ![n] = "RECEIVING"]
  /\ todo' = todo \ {n}
  /\ UNCHANGED <<rtb, local_table, gate, round, clears>>

\* A network receives the entries that the initiator publishes.
ReceiveEntries(n) ==
  /\ todo = {} /\ state[n] = "RECEIVING"
  /\ AddEntries(n, Initiator)
  /\ state' = [state EXCEPT ![n] = "RECEIVED"]
  /\ UNCHANGED <<rtb, local_table, todo, gate, round, clears>>

\* Mutant of ExtRtbComplete: the local IDs of local containers are not updated.
CompleteWithoutUpdate(n) ==
  /\ rtb' = [rtb EXCEPT ![n] = DetectedFromBridge(n)]
  /\ UNCHANGED local_table

\* ext_rtb_complete: the local IDs of local containers are updated and a
\* detection is run from the Mesh Bridge.
ExtRtbComplete(n) ==
  /\ local_table' = [local_table EXCEPT ![n] = UpdatedIDs(n, @, DetectedFromBridge(n))]
  /\ rtb' = [rtb EXCEPT ![n] = DetectedFromBridge(n)]

\* ... and MESH_BRIDGE_EXT_RTB_COMPLETE is sent: to the source of the request,
\* which is the Gate in a network that has one, or to all containers.
Complete(n) ==
  /\ \/ state[n] = "RECEIVED"
     \/ /\ state[n] = "PUBLISHING" /\ todo = {}
        /\ \A m \in Net : state[m] # "RECEIVING"
  /\ ExtRtbComplete(n)
  /\ state' = [state EXCEPT ![n] = "IDLE"]
  /\ gate' = IF n \in Gates THEN [gate EXCEPT ![n] = "complete"] ELSE gate
  /\ UNCHANGED <<remote_table, nb_local, todo, round, clears>>

-----------------------------------------------------------------------------
\* The update handshake of the Gate

\* is_mesh_bridge_cmd, MESH_BRIDGE_EXT_RTB_COMPLETE: container 1 is told to
\* update its tables for a detection by the Gate.
GateComplete(n) ==
  /\ gate[n] = "complete"
  /\ rtb[n][1] = Bridge(n)
  /\ gate' = [gate EXCEPT ![n] = "update"]
  /\ UNCHANGED <<rtb, local_table, remote_table, nb_local, state, todo, round, clears>>

\* Mutant of UpdateTables: only the local container table is updated.
UpdateLocalOnly(n) ==
  /\ gate[n] = "update"
  /\ local_table' = [local_table EXCEPT ![n] = UpdatedIDs(n, @, DetectedFromOther(n))]
  /\ gate' = [gate EXCEPT ![n] = "detect"]
  /\ UNCHANGED <<rtb, remote_table, nb_local, state, todo, round, clears>>

\* MeshBridge_MsgHandler, MESH_BRIDGE_UPDATE_INTERNAL_TABLES
UpdateTables(n) ==
  /\ gate[n] = "update"
  /\ local_table' = [local_table EXCEPT ![n] = UpdatedIDs(n, @, DetectedFromOther(n))]
  /\ remote_table' = [remote_table EXCEPT ![n] = UpdatedIDs(n, @, DetectedFromOther(n))]
  /\ gate' = [gate EXCEPT ![n] = "detect"]
  /\ UNCHANGED <<rtb, nb_local, state, todo, round, clears>>

\* MESH_BRIDGE_INTERNAL_TABLES_UPDATED and the detection of Gate_Loop
GateDetect(n) ==
  /\ gate[n] = "detect"
  /\ rtb' = [rtb EXCEPT ![n] = DetectedFromOther(n)]
  /\ gate' = [gate EXCEPT ![n] = "idle"]
  /\ UNCHANGED <<local_table, remote_table, nb_local, state, todo, round, clears>>

TablesNext ==
  \/ Engage
  \/ \E n \in Net :
       \/ Fill(n) \/ Clear(n)
       \/ ReceiveGet(n) \/ ReceiveReplies(n) \/ ReceiveEntries(n) \/ Complete(n)
       \/ GateComplete(n) \/ UpdateTables(n) \/ GateDetect(n)
-----------------------------------------------------------------------------
TablesTypeOK ==
  /\ \A n \in Net :
       /\ Len(local_table[n]) <= MaxEntries
       /\ Len(remote_table[n]) <= (Cardinality(Net) - 1) * MaxEntries
       /\ \A i \in DOMAIN local_table[n] : local_table[n][i].local_id \in Nat
       /\ \A i \in DOMAIN remote_table[n] :
            remote_table[n][i].local_id \in Nat /\ remote_table[n][i].node_addr \in Net \ {n}
  /\ nb_local \in [Net -> Nat]
  /\ state \in [Net -> {"IDLE", "PUBLISHING", "REPLYING", "RECEIVING", "RECEIVED"}]
  /\ todo \subseteq Net
  /\ gate \in [Net -> {"idle", "complete", "update", "detect"}]
  /\ round \in 0 .. Len(Rounds) /\ clears \in 0 .. MaxClears

\* A network at rest: it is in no procedure and its Gate is done with the
\* update of the tables.
AtRest(n) == state[n] = "IDLE" /\ gate[n] = "idle"

\* Every entry of the tables of a network at rest holds the local ID of its
\* container, whatever procedures and detections went before ("Local RTB ID of
\* the container.", local_container_table.h; "ID of the remote container
\* instance in the local RTB.", remote_container_table.h).
TablesResolve ==
  \A n \in Net : AtRest(n) =>
    /\ \A i \in DOMAIN local_table[n] :
         /\ local_table[n][i].local_id \in DOMAIN rtb[n]
         /\ rtb[n][local_table[n][i].local_id] = local_table[n][i].container
    /\ \A i \in DOMAIN remote_table[n] :
         /\ remote_table[n][i].local_id \in DOMAIN rtb[n]
         /\ rtb[n][remote_table[n][i].local_id] = remote_table[n][i].local_instance
=============================================================================
