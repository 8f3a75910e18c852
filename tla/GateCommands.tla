---------------------------- MODULE GateCommands ----------------------------
(***************************************************************************)
(* The commands that a host sends to the Gate: the UART interrupt and the  *)
(* ring of buffers it fills (gate.c, cmd.c), the main loop that handles    *)
(* the complete ones, and the detections they or a Mesh Bridge ask for     *)
(* (json_mnger.c).                                                         *)
(*                                                                         *)
(* The interrupt preempts the main loop anywhere: the loop is one step per *)
(* access to what they share. A command is its rank; on the line it is a   *)
(* body and its end, the carriage return. An interrupt reads what has      *)
(* arrived by then, any number of bytes. Commands fit in a buffer.         *)
(***************************************************************************)
EXTENDS Integers, Sequences

CONSTANTS
  Buffers,     \* JSON_BUF_NUM
  MaxCommands, \* commands that the host sends
  MaxAhead,    \* commands it sends before the Gate is done with them
  MaxUpdates   \* MESH_BRIDGE_INTERNAL_TABLES_UPDATED messages

ASSUME GateAssumption ==
  /\ Buffers \in Nat \ {0} /\ MaxAhead \in Nat \ {0}
  /\ {MaxCommands, MaxUpdates} \subseteq Nat

VARIABLES
  kinds,           \* the commands sent, by what they ask for
  line,            \* what the interrupt has not read yet
  buf,             \* what each buffer holds
  current_table, cmd_ready,
  reception_index, \* s_reception_index, in bodies and ends
  detection_ask, detection_done,
  thread,          \* the main loop, with the values it loaded
  handled,         \* auxiliary: commands handled, in that order
  answered,        \* auxiliary: how many of them the last detection followed
  collided,        \* auxiliary: a command ended where that goes wrong
  updates

irq_vars  == <<line, buf, current_table, reception_index, collided>>
loop_vars == <<detection_ask, detection_done, handled, answered, updates>>
vars == <<kinds, irq_vars, cmd_ready, loop_vars, thread>>

\* A command is a detection, or contents for containers; or it is unusable: an
\* alias of it does not exist, or it is not JSON.
Kinds == {"detection", "containers", "unusable"}

Body(cmd) == [cmd |-> cmd, end |-> FALSE]
End(cmd)  == [cmd |-> cmd, end |-> TRUE]

NotLoaded == -1
At(pc) == [pc |-> pc, table |-> NotLoaded, ready |-> NotLoaded, leave |-> FALSE]

Init ==
  /\ kinds = <<>> /\ line = <<>>
  /\ buf = [i \in 0 .. Buffers - 1 |-> <<>>]
  /\ current_table = 0 /\ cmd_ready = 0 /\ reception_index = 0
  /\ detection_ask = 0 /\ detection_done = FALSE
  /\ thread = At("format")
  /\ handled = <<>> /\ answered = 0 /\ collided = FALSE /\ updates = 0

-----------------------------------------------------------------------------
\* The host waits until the Gate is done with all but MaxAhead - 1 of its
\* commands: handled, and no longer counted in cmd_ready.
DoneWith == IF thread.pc \in {"drop", "store"} THEN Len(handled) - 1 ELSE Len(handled)

HostSends(kind) ==
  /\ Len(kinds) < MaxCommands
  /\ Len(kinds) < DoneWith + MaxAhead
  /\ kinds' = Append(kinds, kind)
  /\ line' = line \o <<Body(Len(kinds)'), End(Len(kinds)')>>
  /\ UNCHANGED <<buf, current_table, reception_index, collided, cmd_ready, loop_vars, thread>>

\* Mutant of NextTable: the ring does not wrap.
NextTableWithoutWrap == current_table + 1

\* next_json
NextTable == IF current_table + 1 >= Buffers THEN 0 ELSE current_table + 1

\* Gate_ManageReceivedData reads behind what the current buffer has received.
Received(k) == SubSeq(buf[current_table], 1, reception_index) \o SubSeq(line, 1, k)

\* Where the end of a command goes wrong: between the two loads of the loop, or
\* between the load and the store of the count, and behind another command in
\* one buffer.
Collides(k) ==
  /\ line[k].end
  /\ \/ thread.pc = "load" /\ NotLoaded \in {thread.table, thread.ready} /\ thread.table # thread.ready
     \/ thread.pc = "store"
     \/ Len(Received(k)) > 2

\* ... and check_json: a command is complete when the last byte that was read
\* ends it.
ReceiveData ==
  \E k \in DOMAIN line :
    /\ line' = SubSeq(line, k + 1, Len(line))
    /\ buf' = [buf EXCEPT ![current_table] = Received(k)]
    /\ IF line[k].end
       THEN /\ cmd_ready' = cmd_ready + 1
            /\ current_table' = NextTable
            /\ reception_index' = 0
       ELSE /\ reception_index' = Len(Received(k))
            /\ UNCHANGED <<cmd_ready, current_table>>
    /\ collided' = (collided \/ Collides(k))
    /\ UNCHANGED <<kinds, loop_vars, thread>>

-----------------------------------------------------------------------------
\* is_mesh_bridge_cmd: the Mesh Bridge updated its tables for a detection.
TablesUpdated ==
  /\ updates < MaxUpdates
  /\ detection_ask' = 1
  /\ updates' = updates + 1

\* Gate_Loop up to send_cmds. Messages are read after the first detection only.
FormatData ==
  /\ thread.pc = "format"
  /\ \/ detection_done /\ TablesUpdated
     \/ UNCHANGED <<detection_ask, updates>>
  /\ thread' = At("test")
  /\ UNCHANGED <<kinds, irq_vars, cmd_ready, detection_done, handled, answered>>

LoopUnchanged == UNCHANGED <<kinds, irq_vars, cmd_ready, loop_vars>>

\* send_cmds: the test of its loop
TestReady ==
  /\ thread.pc = "test"
  /\ thread' = At(IF cmd_ready > 0 THEN "load" ELSE "detect")
  /\ LoopUnchanged

\* ... the two operands of concerned_table, loaded in an order that C leaves
\* open
LoadTable ==
  /\ thread.pc = "load" /\ thread.table = NotLoaded
  /\ thread' = [thread EXCEPT !.table = current_table]
  /\ LoopUnchanged

LoadReady ==
  /\ thread.pc = "load" /\ thread.ready = NotLoaded
  /\ thread' = [thread EXCEPT !.ready = cmd_ready]
  /\ LoopUnchanged

\* Mutant of ConcernedTable: a negative difference is not corrected.
ConcernedTableUncorrected(table, ready) == table - ready

ConcernedTable(table, ready) ==
  IF table < ready THEN Buffers + table - ready ELSE table - ready

\* What cJSON_Parse finds in a buffer: the command at its beginning, if it is
\* all there; it does not look at what follows.
Parsed(content) ==
  IF Len(content) >= 2 /\ content[2] = End(content[1].cmd) THEN <<content[1].cmd>> ELSE <<>>

\* Mutant of Asked: detections are not counted.
NotAsked(cmds) == detection_ask

Asked(cmds) ==
  IF cmds # <<>> /\ kinds[cmds[1]] = "detection" THEN detection_ask + 1 ELSE detection_ask

\* What is not JSON, and an alias that does not exist, end the call.
Leaves(cmds) == cmds = <<>> \/ kinds[cmds[1]] = "unusable"

\* ... the command is parsed and its messages are sent.
ParseCommand ==
  /\ thread.pc = "load" /\ NotLoaded \notin {thread.table, thread.ready}
  /\ LET concerned == ConcernedTable(thread.table, thread.ready)
         cmds == IF concerned \in DOMAIN buf THEN Parsed(buf[concerned]) ELSE <<>>
     IN /\ handled' = handled \o cmds
        /\ detection_ask' = Asked(cmds)
        /\ thread' = [At("drop") EXCEPT !.leave = Leaves(cmds)]
  /\ UNCHANGED <<kinds, irq_vars, cmd_ready, detection_done, answered, updates>>

\* ... cmd_ready--, a load and a store
LoadCount ==
  /\ thread.pc = "drop"
  /\ thread' = [thread EXCEPT !.pc = "store", !.ready = cmd_ready]
  /\ LoopUnchanged

\* Mutant of StoreCount: a command that ends the call is not dropped.
StoreUnlessLeaving ==
  /\ thread.pc = "store"
  /\ cmd_ready' = IF thread.leave THEN thread.ready ELSE thread.ready - 1
  /\ thread' = At(IF thread.leave THEN "detect" ELSE "test")
  /\ UNCHANGED <<kinds, irq_vars, loop_vars>>

StoreCount ==
  /\ thread.pc = "store"
  /\ cmd_ready' = thread.ready - 1
  /\ thread' = At(IF thread.leave THEN "detect" ELSE "test")
  /\ UNCHANGED <<kinds, irq_vars, loop_vars>>

\* The rest of Gate_Loop: one detection for all that was asked.
Detect ==
  /\ thread.pc = "detect"
  /\ IF detection_ask > 0
     THEN detection_ask' = 0 /\ detection_done' = TRUE /\ answered' = Len(handled)
     ELSE UNCHANGED <<detection_ask, detection_done, answered>>
  /\ thread' = At("format")
  /\ UNCHANGED <<kinds, irq_vars, cmd_ready, handled, updates>>

Loop ==
  \/ FormatData \/ TestReady \/ LoadTable \/ LoadReady
  \/ ParseCommand \/ LoadCount \/ StoreCount \/ Detect

Next == (\E kind \in Kinds : HostSends(kind)) \/ ReceiveData \/ Loop

\* The main loop runs and the UART interrupt is served. The host has nothing
\* to send.
Spec == Init /\ [][Next]_vars /\ WF_vars(Loop) /\ WF_vars(ReceiveData)
-----------------------------------------------------------------------------
\* Types; indexes stay in the ring and no more commands are counted than it has
\* buffers.
GateTypeOK ==
  /\ kinds \in Seq(Kinds) /\ Len(kinds) <= MaxCommands
  /\ \A i \in DOMAIN line : line[i].cmd \in DOMAIN kinds
  /\ DOMAIN buf = 0 .. Buffers - 1
  /\ current_table \in 0 .. Buffers - 1
  /\ cmd_ready \in 0 .. Buffers
  /\ reception_index \in Nat /\ detection_ask \in Nat /\ detection_done \in BOOLEAN
  /\ thread.pc \in {"format", "test", "load", "drop", "store", "detect"}
  /\ thread.table \in {NotLoaded} \cup 0 .. Buffers - 1
  /\ thread.ready \in {NotLoaded} \cup 0 .. Buffers /\ thread.leave \in BOOLEAN
  /\ \A i \in DOMAIN handled : handled[i] \in DOMAIN kinds
  /\ answered \in 0 .. Len(handled) /\ updates \in 0 .. MaxUpdates

\* Commands are handled in the order they were sent, none of them twice and
\* none left out: "which allowed fast-paced command management" (README.md of
\* the Gate). They are until one ends while the loop reads or writes the count,
\* or reaches the buffer of another.
CommandsInOrder == collided \/ \A i \in DOMAIN handled : handled[i] = i

\* Every command that the host sends is handled (send_cmds), whatever the
\* commands before it were, and unless one collided.
EveryCommandHandled ==
  \A i \in 1 .. MaxCommands :
    Len(kinds) >= i ~> collided \/ \E j \in DOMAIN handled : handled[j] = i

\* A detection that a command asks for is run after it (Gate_Loop), whether or
\* not the Mesh Bridge asks for one too.
EveryDetectionRun ==
  \A i \in 1 .. MaxCommands :
    Len(handled) >= i /\ kinds[handled[i]] = "detection" ~> answered >= i
=============================================================================
