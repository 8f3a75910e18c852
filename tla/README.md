# Formal models of the Luos Bluetooth Mesh examples

The repository holds Luos containers for nRF52 boards. A **Mesh Bridge** links
the Luos network of its board to those of other boards over Bluetooth Mesh: it
extends the routing table of its network with local *instances* of the containers
of other networks, and carries messages to them. A **Mesh Provisioner** adds
boards to the mesh and configures them. A **Gate** turns Luos messages into JSON
and back for a host on a serial line.

This directory models the Mesh Bridge, the Mesh Provisioner, and the commands and the
JSON of the Gate in TLA+, checks the models with TLC on small instances, and proves
what TLAPS can prove of them for every value of the constants. Sources are named by file; their paths are in
`PROJECT.json`, which also maps every definition to its lines.

## Inventory

| Part | Source | State | Operations | Model |
|---|---|---|---|---|
| Message queue | `luos_mesh_msg_queue.c` | ring of 20 elements, insertion and peek index | enqueue, peek, pop | `MsgQueue` implements `MsgFifo` |
| Queue manager | `mesh_msg_queue_manager.c` | send flag, token of the message on the air, pacing timer | prepare, TX complete, timer | `MsgQueueManager` implements `MsgSender` |
| Luos RTB model | `luos_rtb_model.c` | transaction identifier | GET, STATUS, STATUS_REPLY | `ExtRtb` |
| Ext-RTB management | `app_luos_rtb_model.c` | procedure state, reception timer | engage, receive, time out, complete | `ExtRtb`, `ContainerTables` |
| Local container table | `local_container_table.c` | exposed containers and their local IDs | fill, clear, update IDs, look up | `ContainerTables` |
| Remote container table | `remote_container_table.c` | entries of other nodes, their local IDs and instances | add, clear, clear an address, update IDs, look up | `ContainerTables`, `ExtRtb` |
| Mesh Bridge container | `mesh_bridge.c` | none | `MESH_BRIDGE_*` commands | `ContainerTables`, `MsgExchange`, `ExtRtb` (partly) |
| Luos MSG model | `luos_msg_model.c` | transaction identifier shared by all nodes | SET | `MsgExchange` |
| Luos MSG management | `app_luos_msg_model.c` | none | send to and receive from an instance | `MsgExchange` |
| Network context | `network_ctx.c`, `mesh_init.c` | keys and their handles | generate, fetch; time-outs of requests | `Provisioner` (partly) |
| Provisioning | `mesh_provisioner/.../provisioning.c` | procedure state, header and current node, key handles | scan, provisioning events, fetch of the configuration | `Provisioner` |
| Node configuration | `node_config.c` | step, configured element | start, answers, success | `Provisioner` |
| Persistent configuration | `provisioner_config.c` | live entries, flash | set, get | `Provisioner` |
| Device side | `mesh_bridge/.../provisioning.c` | provisioned or not | listen, complete | `Provisioner` (partly) |
| Gate commands | `cmd.c`, `gate.c` | ring of 3 buffers, count of complete ones, pending detections | UART reception, loop, `send_cmds` | `GateCommands` |
| Gate data | `gate.c`, `json_mnger.c`, `convert.c` | JSON of the refresh context, keep-alive count | loop, refresh timer | `GateRefresh` (partly); the update handshake in `ContainerTables` |
| LED toggler, RTB builder, helpers, cJSON | | little or none | | not modelled |

How they interact:

* Mesh reception, TX complete and timer callbacks run in interrupts of one
  priority. Luos message handlers and loops run in the main thread, which
  interrupts preempt anywhere. Both call `luos_mesh_msg_prepare`, with no lock.
* An Ext-RTB procedure: the initiator clears its remote table, publishes a GET,
  stores the replies, publishes its own entries when its timer expires, and is
  done with the completion of the last one. A receiver clears the entries of the
  initiator, replies, stores what it receives and is done when its timer expires.
  Both end in a detection that renumbers the containers of the network.
* A message for an instance becomes a SET that names a unicast address and two
  exposed IDs. The receiver translates both with its tables.
* A command of the host is received by the UART interrupt into a ring that the main
  loop of the Gate empties; it ends in messages to containers or in a detection.
* The loop of the Gate appends the JSON of the messages it reads to a buffer. The
  refresh timer prints and empties that buffer, then asks the sensors for more.
* After a procedure the Gate has the tables updated for a detection run by itself,
  then runs it.
* The Provisioner scans, provisions a device, configures it in eleven steps, and
  scans again. Entries are written to flash in the background.

What is hard: the two contexts (queue, engagement, scan request, command ring, JSON); events that
arrive late, repeated or never (TX complete, replies, link events, answers);
procedures that overlap; identifiers that a detection makes stale; resets between
two writes; capacities (queue, tables, network, widths of the fields).
`PROJECT.json` lists these hazards at their lines, with the properties that cover
them or the reason why none does.

## Modules

| Module | Contents | Corresponds to |
|---|---|---|
| `MsgFifo` | a bounded FIFO | the promise of the queue |
| `MsgQueue` | the ring; `QueueSpec` with atomic operations | `luos_mesh_msg_queue.c` |
| `MsgQueue_proofs` | its theorems | |
| `MsgSender` | messages sent in order, once, one at a time, all of them | the promise of the manager |
| `MsgQueueManager` | extends `MsgQueue` with both contexts | `mesh_msg_queue_manager.c` |
| `MsgQueueManager_proofs` | its theorems | |
| `Selections` | what stays of a table at the positions that are kept | the loops that skip entries, shift them or pick messages |
| `Selections_proofs` | the lemmas about it | |
| `ExtRtb` | the Ext-RTB procedure among several nodes | `app_luos_rtb_model.c`, `luos_rtb_model.c` |
| `ExtRtb_proofs` | its theorems | |
| `ContainerTables` | the tables against the IDs that detections give | `local_container_table.c`, `remote_container_table.c`, the handshake of the Gate |
| `MsgExchange` | extends it with messages between networks | `luos_msg_model.c`, `app_luos_msg_model.c` |
| `MsgExchange_proofs` | theorems about the tables and the messages | |
| `Provisioner` | the Provisioner, the devices and flash | `mesh_provisioner/` |
| `Provisioner_proofs` | its theorems | |
| `GateCommands` | the host, the UART interrupt and the main loop | `cmd.c`, the reception and the loop of `gate.c` |
| `GateCommands_proofs` | its theorems | |
| `GateRefresh` | the main loop and the refresh timer over the JSON they share | `gate.c`, `json_mnger.c`, `convert.c` |
| `GateRefresh_proofs` | its theorems | |
| `MC...` | instances of the constants | |

Variables keep the names of the C statics where there is one
(`s_is_possible_to_send`, `curr_state`, `prov_state`...). An interrupt is one
action; a function of the main thread that interrupts may preempt is one action per
access to shared state, with `thread` as its program counter. A `LUOS_ASSERT` or
`APP_ERROR_CHECK` that fails sets `failed`, `failed_assert` or `asserted`, after
which the node does nothing more. Variables marked auxiliary are read by
properties only. Definitions whose comment says *Mutant of* state a plausible
error of the code; no specification uses them, they show that the properties
detect that error.

### MsgQueue and MsgQueueManager

`elements`, `insertion_index` and `peek_index` are the ring. The increment of
an index and its modulo are two statements of the code fused in `Advance`; the
thread's load and store around it are separate steps. The mesh stack is external:
it gives a fresh token per message, holds at most `MaxInFlight` messages
(otherwise publication fails an `APP_ERROR_CHECK`) and reports each with an
event. Of an element only its kind and index are kept. The `memcpy` that puts it into the
ring is two steps of the thread, because the field that tells that a slot is taken is the first it
copies: in between the slot holds a `Torn` element.

`EarlyComplete = FALSE` in every run: the completion of a message takes
milliseconds on the air and does not come between the return of
`access_model_publish` and the two stores that follow it in the main thread. If it
could, the event would be ignored and the order of the code would not keep the
promise: TLC refutes `ImplementsSender` at once with `TRUE`.

`CallersOverlap` says whether an interrupt may prepare a message while the main
thread is inside `luos_mesh_msg_prepare`, `CopyExposed` whether the pacing timer may expire in the midst
of its copy. The code excludes neither (`sender_race_refused` and `sender_torn` have them);
`sender` does, and shows that the manager keeps its
promise in all interleavings but for these two and the early completion. TX complete interrupts, and those of the timer
but for the copy, preempt the thread anywhere. `TableChanges` says when the number of exposed containers
may change: never, while nothing is published, or at any time.

### ExtRtb

Each node has a state, a transaction, a timer, a filled or empty local table and a
remote table (address and exposed ID). Of the queue manager only the promise of
`MsgSender` is kept: `out` is a FIFO of which the head may be on the air.
`chan[s][d]` holds what `d` has still to handle from `s`, in order, and messages
to the group may be lost. `REPLYING` is entered and left within one interrupt. The
entries of a procedure carry the procedure (`round`) for the properties.

`Restart` loses what is in RAM, up to `MaxRestarts` times per node: the tables, the
state, the queue and the transaction count. `Clear` is
`MESH_BRIDGE_CLEAR_INTERNAL_TABLES`, received at any moment by the nodes of
`Clearable`, once between two resets; `cleared` remembers it, because the properties
excuse what the code does to a node that was cleared in a procedure.

The durations of timers are those of `app_luos_rtb_model.c:75-85`: a node waits 2 s for the first
entry, an initiator 0.5 s more after each reply, a receiver 4 s after each published entry. They are
abstracted to "any time", or, with `Prompt`, to "not before every reply has come" for the initiator only. The timer of a receiver
expires at any time in both: the initiator can wait for replies longer than 2 s, so a receiver can be
done before the first entry is published, and ignores what comes. `gave_up` (auxiliary) remembers the initiators
that a node did not wait for, which `TablesExtended` excuses.

Simplifications: the timer does not
expire within the few instructions of the main thread that start it; `luos_rtb_model_get` increments the
transaction identifier, reads it and enqueues the GET in one step (`EngageGet`), so a GET that is handled between the
load and the store of the increment, after which both nodes have the same identifier, is not told apart from two nodes that engage at once; the queue
does not overrun here; nodes are provisioned; tables are filled before the first
procedure, or after a clear or a reset, as `mesh_bridge/README.md` asks.

### ContainerTables and MsgExchange

`rtb[n]` is the routing table of a network as the sequence of its containers by
local ID; a detection by the Mesh Bridge or by another board replaces it by
`DetectedFromBridge` or `DetectedFromOther`, in which the board that ran it comes
first. `FutureID` is what `RoutingTB_FindFutureContainerID` answers: the ID that the same place of
the same board gets, whoever has that place. The Luos
library is external, and this much of it is assumed: that order; that the
instances of remote containers come after the other containers of the board in the
order of their creation; that a detection finds every container; and that the future ID is computed from the place.
The last matters where a receiver updates the IDs of the entries it keeps (`ReceiveGet`): the IDs behind
removed entries were shifted before, and the routing table still lists the instances of the initiator, which are destroyed. A look-up by the
*container* of that ID could find such an instance, whose place nobody has then. `Container` holds the containers
of all boards (`TablesAssumption`: those of one network are distinct, and none is an instance,
which is named by its network and exposed ID).

Procedures are sequential and lossless here. `Fill` and `Clear` happen before the
first (the Gate fills once, after its first detection); `Fill` may be repeated, which
keeps the entries and continues the exposed IDs. The code tests the limit of the table behind each entry
that it writes, so a table that is full gets one more, behind its end (`local_container_table.c:77`, `:89`): `FilledTable` does
that too, and `FillsFull` says whether a full table is filled. It is not in the run, and the theorems assume
that it is not. The Mesh Bridge is the
first container of its board and not the only one, and a Gate is told that
a procedure is complete. Messages of Luos are kept apart by source and target, and
none has more data than a SET holds.

Any container of a network but its Mesh Bridge may send to an instance, exposed or not. "Only send messages to
remote containers from exposed containers" (`app_luos_msg_model.c:87`) is an assertion: it stops the node of a sender that is not
in the local table, which `asserted` tells apart from look-ups that fail for other reasons.
A message is sent in one step (`MeshMsg`: the look-ups of the sender, `SetCommand`
with the next transaction identifier) and handled in another (`Delivered`: the
test of the identifier, the look-ups of the receiver). The identifier wraps at
`TxnModulo`, as the field of the SET does; `Wrapped` says that it did.

### Provisioner

One module for `provisioning.c`, `node_config.c` and the configuration file,
because its properties relate all of them. `header` is the copy of the header in
RAM, `live` the entries of `mesh_config`, `dirty` those not in `flash`. Three
kinds of entries matter: the header, the nodes and the addresses known to the
device state manager (`dsm`). `link` is the one provisioning link, whose events come
in the order of the protocol.

A request of the configuration is what its step asks (`Transitions`) with the
address of the element and the application key, and reaches the node behind the handle
that the Config Client was set to. The Config Server is external: `dev_conf` is what
it holds, and it answers with a status that is not success where the Mesh
specification says so, for instance to a binding of a key that the node does not have. The
status checks of `node_config.c` are assertions, so `NoErrorCheckFails` says that no
node ever has a reason to refuse. `RequestTimesOut` drops a request, up to
`MaxTimeouts` times; nothing in the code repeats it, and `stalled` says until when the
Provisioner waits: its reset. `appkey` is the application key in RAM, `dsm_appkey` the
one behind its handle; each start draws a key, or restores that of the header. The
uninitialised buffer of `prov_node_conf_fetch` holds any address.

`prov_scan_start` and `prov_scan_stop` run in the main thread, where interrupts come between the call of
the mesh stack, the test of the state and the new state. `Polite` requests and stops scanning only when nothing goes on: no link, and no
configuration that could end.

Not modelled: a link lost between the completion on the device and on the
Provisioner, devices that restart, and answers that are repeated later than behind the answer itself.

### GateCommands

The UART interrupt is one action, `ReceiveData`, which reads any number of the bytes
on the line: a command is a body and its end. The main loop is one action per
access to `cmd_ready` and `current_table`: the test of the loop, the two loads of
`current_table - cmd_ready` in either order, parsing, and the load and the store of
`cmd_ready--`. A command is a detection, contents for containers, or unusable, which
ends the call of `send_cmds`. The host sends a command when all
but `MaxAhead - 1` of the previous ones are done with.

`collided` records that a command ended where the code does not expect it: between the
two loads, between the load and the store, or behind another one in the same read of the UART.
The properties hold until then.

Not modelled: commands longer than a buffer (the Gate stops on purpose), the
benchmark command's own messages, and the contents of messages.

### GateRefresh

JSON is a sequence of tokens: brackets, commas, keys, numbers and fields. A message with a value
(a reading) yields one field that carries its rank; which value it has and how that is
printed is left out. `thread.json` is the text of `format_data` until it is in
the buffer. `sprintf` of the buffer onto itself is three steps: the test of its
first character (`TestBuffer`), the search for its end (`SeekEnd`) and the copy
(`WriteText`, in one or two pieces). The timer interrupt `Refresh` may come between any two; if it
emptied the buffer meanwhile, what is copied lies behind a NUL. `collided` records an
expiry after the search and before the end of the copy, or between the test and the
search, with text in the buffer.

The buffers have `JSON_BUFF_SIZE` characters, twice as many for the routing table, and `sprintf` does not know. `JsonSize`
and `TableSize` are the tokens that fit. `overrun` records that a text was longer: what is destroyed behind the end of a buffer is not
modelled, and no property speaks of what comes after.

Both contexts print with `printf`. The loop starts a line in one step (`StartPrint`) and has finished it in another (`PrintEnds`), and the timer may
print its own in between (`PrintWithin`), whose characters are then somewhere within the other's: `mixed` records that. Readings are
counted as printed then, as their characters are; that a printed line is JSON is said of lines that are not mixed.

The messages of a container are read together, as `Luos_ReadFromContainer` does; an
assertion or a message of an excluded container is handled only if it is the first.
Containers that die are reported and removed (`Exclude`), and the routing table is
printed after detections (`PrintTable`). When detections are due is in
`GateCommands`, and that they renumber containers in `ContainerTables`: here a
container is its alias. `Ports` says how many ports of a board, from the first, have a neighbour, which any
detection finds anew; the port loop of `routing_table_to_json` writes a number and a comma for each (`PortList`).

## Runs

| Run | Instance | What it shows |
|---|---|---|
| `msg_queue` | 4 slots, 3 messages | the ring implements the FIFO; the occupied slots are contiguous |
| `sender` | 4 slots, 2 entries, 3 kinds of messages of the thread, interrupts that prepare messages while the thread does not, a timer that expires anywhere but in the midst of a copy, table changes between publications | messages go out in order and once, a message is refused only by a full queue, the queue never stalls and keeps sending, the end of a publication is signalled once and every publication ends |
| `sender_race_refused` | 3 slots, both contexts prepare messages at once | **violation**: see below |
| `sender_torn` | 4 slots, a timer that expires in the midst of a copy too | **violation**: see below |
| `rtb_round` | 3 nodes, 4 containers, 2 initiators with 2 procedures each, no loss, replies in time, timers of receivers at any time | after every procedure all tables are extended but those of a node that gave up, without duplicates; every procedure ends |
| `rtb_faults` | 2 nodes that engage at any time, losses, timeouts, a reset of one and a clear of the other at any time | a node waits exactly as long as its timer runs, no assertion fails in a node that was not cleared, only current replies are stored, every procedure ends, capacity |
| `exchange` | 3 networks, one with a Gate, tables filled once or twice, 3 procedures, 3 messages, one loss, identifiers that wrap | tables hold the right IDs after every detection, messages arrive where they were sent, no look-up fails but that of a sender that is not exposed, identifiers are accepted until they wrap |
| `prov_network` | 3 devices, room for 2, a lost link, repeated answers, a request that times out, a stop, a reset | addresses distinct, nodes recorded across a reset with the key of the network, no request refused, configured means applied; every node gets configured and the network grows unless a request timed out |
| `prov_rescan` | 2 devices, a scan requested at any time | **violation**: see below |
| `gate_commands` | 3 buffers, 4 commands of 3 kinds, up to three in the Gate, one update of the tables | until a command ends at the wrong moment, commands are handled in order and once, each of them; a detection follows each that asks for one |
| `gate_refresh` | 2 sensors, 2 readings, another message or assertion, a container that dies, buffers of 20 and 60 tokens, boards with 2 neighbours | until the timer expires during an update of the buffer or a buffer is too small, readings are printed in order and once, each of them; what one container sent is printed as JSON unless it is printed within another line |
| `gate_json` | the same | **violation**: see below |

Bounds, and why they are enough:

* `Capacity` 3 and 4: the ring wraps, fills and overruns. Two entries
  make the last one differ from the first. `MaxInFlight` 2 lets a message be
  published while another is out, which a correct manager never does.
* `MaxRounds` up to 2 per node: a second procedure meets the tables and
  identifiers of the first. `MaxRemote` 1 in `rtb_faults` is smaller than what may
  arrive there, so the capacity is reached. `TxnModulo` 3 in `exchange` lets the
  identifier of the third message wrap; that of a GET is larger than the number of
  procedures.
* Three networks are the fewest in which one keeps entries of a second while it
  receives those of a third, which shifts them. `Rounds` names the initiators:
  `<<n1, n2, n3>>` has each network initiate a procedure, that of the Gate the first, so that it keeps entries
  that its own detection has renumbered. `MaxEntries` 2 cuts the local table of the board with more
  containers. `Quiet` sends messages one at a time and between procedures.
* `Buffers` 3 is the constant of the code, and four commands make the ring wrap.
  `MaxAhead` 3 fills it while the loop works on the oldest command. More than
  `Buffers` would overrun the ring, which the code does not test for; up to there,
  the order is proved.
* `MaxReadings` 2 has two sections or two fields in one line, or a line each. `MaxKeepAlive` 0 reaches the sign of life at the second
  expiry. `JsonSize` 20 is more than one line of a container needs and less than what two turns can append, so `overrun` is reached,
  and so is `mixed`. `Ports` is one number of neighbours: the other allowed ones only repeat a number and a comma.
* Two nodes of a network and three devices: the network fills up, and a device of two
  elements makes the next address matter. `Polite` requests and stops scanning when
  nothing goes on; resets happen when all is written. Once per run each
  of: a lost link, a timeout, a reset. `MaxRequests` 2 is a start and another start or a stop.

Deadlock is not checked where `CHECK_DEADLOCK FALSE` is given: nobody has to ask
for another procedure, message or scan, so these systems may come to rest.

### Violations

* `sender_race_refused`, `luos_mesh_msg_queue.c:49`, "Insertion spot is occupied:
  queue is full.": the main thread has copied its element and not yet moved the index when
  an interrupt prepares a message; the spot is occupied, the queue is nearly
  empty, and `LUOS_ASSERT(insert_success)` stops the node.
* `sender_torn`, `mesh_msg_queue_manager.c:76`, "Sends the first message in the queue.": the pacing
  timer expires while the thread is inside the `memcpy` of an element into the empty queue. The slot is not empty any more, its
  command and content are still those of an earlier message, and that is what is published; the message that was accepted is not sent whole.
* `prov_rescan`, `provisioning.c:166`, "Link closed: Adds node to static context if
  provisioning was successful.": `prov_scan_start` sets its state whatever the
  present one; the completion of the device being provisioned is then dropped.
* `gate_json`, `json_mnger.c:63`, "This function will create a json string for
  containers datas": each section is written as an object of its own, `{"alias":{...}`,
  behind the one that the first opens. Two sections between two expiries, of two
  containers or of two turns of the loop, make a member without a key and an object that is not closed.

### Met while modelling, without a run

These disagreements come from the same models with other constants, or from
reading the tests they map; the hazards name their lines.

* Clearing the tables during a publication fails the underflow assertion
  (`mesh_msg_queue_manager.c:312`; `TableChanges = "any_time"`).
* With an empty local table a procedure never ends (`app_luos_rtb_model.c:592`).
* A receiver whose timer expires before the initiator publishes is done, and ignores the entries: nothing need be
  lost for that, as the initiator waits for the replies of others (`app_luos_rtb_model.c:304`; `TablesExtended` without `gave_up`).
* A second procedure while a receiver still waits duplicates entries there
  (`app_luos_rtb_model.c:457`; `NoDuplicates` with `Sequential = FALSE`).
* Two nodes that engage at once ignore each other (`luos_rtb_model.c:230`).
* A SET that reaches a node whose tables were cleared by a new procedure fails an
  assertion (`app_luos_msg_model.c:238`; `TablesKnowMessages` with `Quiet = FALSE`). So does
  one from a container that was exposed by a `Fill` after the last procedure.
* Filling a local table that is full writes an entry behind its end
  (`local_container_table.c:77`, `:89`): the limit is tested after the write (`FillsFull = TRUE`).
* A container that was not exposed, for instance because the table was full, and sends to an instance stops its node
  (`app_luos_msg_model.c:88`), as the comment there says.
* Once the 12-bit field of the transaction identifier has wrapped, SETs are ignored
  (`luos_msg_model.c:118`); a message with more data than a SET holds fails
  an assertion (`app_luos_msg_model.c:129`).
* A reset of the Provisioner between two writes leaves a configuration that fails
  `APP_ERROR_CHECK` at each start (`ResetAnyTime = TRUE`); the number of configured
  nodes that is stored never exceeds one (`provisioning.c:428`).
* A link that is lost after the device has completed and before the Provisioner has
  gives the address of that device to the next one (`provisioning.c:376`; `AddressesDistinct` with
  `"done"` in `AbortStages`).
* Stopping the scan while a configuration ends: `prov_scan_stop` stops the scan, the last answer starts it again, the
  stop tests the state and finds `SCANNING`, a device is found, and the stop sets `IDLE` over `PROVISIONING`
  (`provisioning.c:247-252`; `NodesRecorded` with a stop that is not polite). The device is not recorded then, as in `prov_rescan`.
* A configuration request that times out is dropped, and no node is configured or
  provisioned until the Provisioner is reset (`mesh_init.c:77`).
* `src/gate/README.md:56` promises "allowed fast-paced command management", but `cmd.c:59` reads
  `current_table` and `cmd_ready` one after the other, and `cmd.c:197` loads and stores
  the count, with the UART interrupt enabled. A command that ends in between makes the
  loop parse another buffer or is lost (`CommandsInOrder` without `collided`). A host that
  waits for each command to be done with is safe.
* The refresh timer that expires while the loop appends to the JSON loses the text or
  leaves a fragment of it (`gate.c:161`, `gate.c:297`; `ReadingsKept` without `collided`).
* An assertion, or a message of a Mesh Bridge, that is not the oldest of its container
  goes to the JSON of the container and not to its handler (`json_mnger.c:109`).
* The keep-alive count is not reset by the sign of life: after the maximum, `{}` is
  printed at each expiry. A node without containers would make `routing_table_to_json`
  remove the bracket of its list instead of a comma.
* The port loop of `routing_table_to_json` removes "the last \",\" char" (`convert.c:680`) at the first port without a neighbour:
  for a board whose first port has none that is the bracket of the list, and for one with neighbours at all four ports no comma is removed.
  Neither is JSON (`LoneSectionsAreJson` with `Ports = {0}` or `{4}`).
* The timer prints its line within one that the loop is printing (`gate.c:144`, `:180`, `:307`; the same property without `mixed`), and
  writes behind the end of the JSON of the context when enough was appended (`gate.c:161`; `ReadingsKept` has `overrun` for that).

## Fairness

Safety needs none. For liveness, weak fairness of: the main thread
(`ThreadContinues`, `EngageContinues`, `RequestedState`, `StopTest`, `StopStore`, `Loop`), because it is only
ever preempted by interrupts that end; interrupts that are pending (`ReceiveData` among them); the mesh
stack's report of every message it accepted (its API promises a TX complete event);
app timers; writes of dirty entries. Reception in `ExtRtb` is fair for the messages
in `chan`, of which the mesh may lose any: a loss happens in `Transmit`. In
`Provisioner` beacons are repeated by devices, link events and answers are
delivered; a request that times out is what `stalled` excuses. In `GateRefresh`, the loop
(`Loop`) and the repeated timer (`Refresh`); sensors need not answer. Nothing a user does is fair: no procedure, fill, reset, scan request,
command or stop, and no lost link.

## Proofs

`tlapm` checks every theorem from nothing, for any nodes, containers, capacities and
bounds. Assumptions are those named in the
modules (`CapacityAssumption`, `EmptyAssumption`, `SenderAssumption`, `TornAssumption`, `RtbMsgAssumption`,
`ThreadMsgAssumption`, `RtbAssumption`, `TablesAssumption`, `ExchangeAssumption`, `GateAssumption`,
`ProvisionerAssumption`, `RefreshAssumption`), which say of what kind the constants are, and the conditions that a
theorem states itself. Such a condition names the use of the code that the theorem is about;
the runs that expect a violation and the list under "Met while modelling" show what happens outside it.

### The queue and its manager

`MsgQueue_proofs`. The inductive invariant is `QueueInv`, types and `RingInv`:
slots are occupied exactly from the peek index to the insertion index, cyclically.
Types alone are not inductive for the refinement: without contiguity, a pop could meet a
hole and the abstract queue would lose a message. `QueueTypeCorrect` and `RingCorrect` follow.
`QueueImplementsFifo` maps the ring to the sequence of its messages from the
peek index (`Contents`, whose length `Count` the indexes and the peeked spot determine);
enqueue maps to enqueue or refusal, pop to pop or to a stutter.

`MsgQueueManager_proofs`. `SenderTypeCorrect` needs no condition. While the thread is between the
copy of its element and the store of the index, the ring is not the one of `QueueInv`: `RingState` says what it
is at each of these program counters (`RingWindow`), from which `RefusalMeansFull`, with
`~CallersOverlap`. `SendState` says who will send next: nobody has to (`Ready`), the pacing timer
(`Waiting`), the mesh stack with the token that is kept (`Sent`), or the thread on its way there
(`HandingOver`). These phases are what makes `NoStall` inductive; `QueueNeverStalls` also needs
`~CopyExposed` and `~EarlyComplete`. `Publication` orders the entries that are queued,
prepared and still to be prepared, so that the last one is the one whose index ends the
publication (`EndSignalledOnce`, with `~CopyExposed` and a table that does not change meanwhile). `SenderPromiseKept` is the
refinement under the four conditions `~CallersOverlap`, `~CopyExposed`, `~EarlyComplete` and a table that does not change while it is published: the
messages in the ring, without one that is half copied, are
the pending ones of `MsgSender`, and the peeked one is on the air while the stack has a message. Dropping any one of the four
conditions makes TLC refute `ImplementsSender`.

### The procedure

`ExtRtb_proofs`. `ListeningIsTimed` is not inductive: while the main thread is
between the start of the timer and the new state it does not hold, and
the end of a publication is a message in a queue. `RtbInv` adds that the timer
follows the state at each step of the engagement, that the thread engages from `IDLE` or a
state an interrupt moved it to, and that a queue holds at most one end of
publication, and none unless the node is publishing. From it `ListeningCorrect`, for any number of
nodes, any losses, resets and clears. `AssertionsHold` adds that a node with
a published entry in its queue has a filled table, unless it was cleared since it
started: an assertion that fails, fails in a node that was cleared. `RtbTypeCorrect` adds what a
message may be (`TypeInv`): an entry that is stored is one its sender exposes.

`NoDuplicatesStored` and `TablesGetExtended` are about procedures one after the other
(`OneAtATime`: `Sequential`, `Prompt`, nothing lost, cleared or reset, room for the entries of all other nodes, fewer
procedures than transaction identifiers). The timers of receivers are free there: a node that was done before it had handled the entries of the initiator is one
that gave it up, which `TablesExtended` excuses. Neither is inductive: both depend on every message that is
on its way. `ProcInv` accounts for them. `Steady` says of each table that it has no
entry twice. `InPhase` says that an initiator of an earlier procedure and each other node
know all of one another (`KnownAmong`), which phase the only procedure is in, `Resting`, `Engaging`, `Getting` or `Publishing`, and for each
other node how far it is: that the GET is still to be heard (`Unaware`), which replies are queued, on
the way and stored (`RepliesGo`), and the same of the entries of the initiator (`EntriesGo`), or that it gave up. TLC checked
`ProcInv` on four variants of `rtb_round` before the proof.

`RepliesStayCurrent` needs none of this, only that identifiers do not wrap (`FewProcedures`): losses,
delays, resets and overlapping procedures are any. `TimelyInv` says that a message of an earlier procedure has a lower
identifier than the node that engaged it, as long as that node was not reset, and that replies go to no other.

`Selections_proofs` holds what these proofs need of tables whose entries are removed: what is selected is
each kept position once, in order (`Selected`).

### Tables and messages

`MsgExchange_proofs`. `TablesStayResolved` and `TablesTypeCorrect` assume `~FillsFull`, that no table is filled when it is
full, because the code writes behind its end then; there is no condition on the procedures. `TablesResolve` speaks of networks at rest only and is not inductive. `TablesInv` says
at each moment which detection the local IDs belong to (`Numbering`): the last one, or the one to come, between the update for it
and the detection itself. The local IDs of the remote entries follow those of the other containers of the
board in the order of the table (`InOrder`), and what the last detection was is `RtbForm`. A receiver updates the IDs of the entries it
keeps when it receives the GET, after those of the initiator were removed: that the shifted IDs, looked up in the routing table that still lists
the removed instances, give those of the detection to come, whether the last one was run by the Mesh Bridge or by the Gate, is a lemma about `FutureID` and the place of an instance on its board.
`Course` says who has received what in the present procedure;
`Single` and `Cleared`, that an entry is never there twice, hence the bound on the remote table.

`MessagesReachTarget` and `BothEndsKnown` moreover assume `Quiet`: messages are sent one
at a time and between procedures. Senders are any; one that is not exposed fails its own look-up, which is all that `BothEndsKnown` excuses. `KnowledgeInv` adds that every entry is one its network exposes (`Genuine`)
and that two networks that know each other know all of one another
(`Acquainted`): this is why the receiver finds the *source* of a message, not only its target. `MessagesInv` says that both look-ups of
the receiver of each SET on the air will find the containers that it was sent between (`SetGood`), lost ones included.

`IdentifiersStayAccepted` assumes `Quiet` only. All nodes follow one sequence of identifiers, as they keep those of
messages for others too: `TransactionsInv` says that either all have the same one
(`Followed`), or one has the next, which the others that have it still to hear will keep (`Sending`).

### The commands of the Gate

`GateCommands_proofs`. `CommandsInOrder` says nothing of the ring, so it is not
inductive. `GateInv` says, until a command collides, that the commands in the Gate
are the last ones sent (`Counted`), that the buffers from the oldest command on, what was
read of the next one, and the line hold what the host sent, byte by byte (`Streamed`), and that
what the loop loaded still leads to the oldest command (`Loaded`). `CommandsHandledInOrder` assumes
that the host has no more commands in the Gate than it has buffers (`Enough`): the current buffer is
then none of those that wait (`CurrentIsFree`), which the interrupt does not test. `RingNeverOverrun`
has the same condition and holds whether or not commands collide, so it has an
invariant of its own (`RingSafe`): bodies and ends alternate on the line (`LineAlternates`), and the count that the
loop loaded, with what was received since, never exceeds what the host sent and is not done with (`CountBounded`).

### The JSON of the Gate

`GateRefresh_proofs`, for any containers, boards, messages and bounds. `RefreshTypeCorrect` needs no
condition (`RefreshTypes`). The other two excuse an expiry of the timer during an update of
the buffer (`collided`) and a text that is longer than its buffer (`overrun`), and say nothing of what the loop does meanwhile, so they are not inductive:

* `ReadingsStayKept`: `KeptInv` adds that the readings in the inbox are distinct and new (`ReadingsNew`), from which a
  section of the messages picked from it (`Unread`) repeats none, and that the loop
  writes at the end of the buffer (`InPlace`): a copy in two pieces keeps the order.
* `LoneSectionsStayJson`: `JsonInv` adds `LinesShaped`, which says at each program counter what the buffer and the
  text of the loop make together: an object that lacks its last bracket (`Sound`), or two sections at least, of which
  nothing is said. `gate_json` shows that there is no more to say. It moreover excuses a line of the loop that the timer printed within (`mixed`), and assumes that boards have
  one to three neighbours on their first ports (`PortsListed`). That a section is an object behind
  a key whatever fields its messages yield, none included, and that the routing table is JSON with any nodes left,
  are lemmas (`SectionPhrase`, `TableIsJson`).

What such a text is depends on all its tokens. The theorems on induction of the library cannot be
used (see below), so `Induction` is stated about sets of numbers and proved from the
cardinality of finite sets, and the two definitions over data are shown to be the courses of functions: a text joined
from pieces (`Joins`, for `FlattenSeq`) and the brackets that are open behind each token (`Reads`, for
`Nesting`). `Phrase` composes: what reads from one nesting to a second, and on to a third, reads from the first to the third.

### The Provisioner

`Provisioner_proofs` proves every safety property of
`Provisioner` under `Orderly`: scanning is requested and stopped when nothing goes on, no
link is lost between both completions, and resets happen when all is written. The run
`prov_rescan` and the entries on the Provisioner under "Met while modelling" show what fails
without. Devices, elements, sizes, aborts, timeouts and repeated answers are any.

* `AddressesStayDistinct`: `ProvInv` orders the addresses. Those of devices lie between the
  elements of the Provisioner and `next_address` (`Placed`), except that of the device on the link,
  which is `next_address` itself (`Linked`), and the next address is the one that is
  stored (`Stored`). `Linked` needs that nothing takes the Provisioner out of `PROVISIONING`
  while a device is underway: no configuration is then about to end (`Seeking`), because an answer
  that was repeated never has the opcode the present step waits for (`Asking`).
* `KeyStaysShared`: `KeyKept` says the key is the stored one, and that nobody has a key as
  long as no node is counted, so the key that a blank Provisioner draws anew is no second one.
* `NodesStayRecorded`: `EntriesKept` relates entries, handles, flash and devices, `Room`
  that one more node fits as long as one may be sought.
* `NoErrorCheckEverFails` and `OnlyConfiguredCounted`: `Progress` says what the steps so far have
  left at the only node with the address of the configured server (`Reached`); a node that has reached the
  step before accepts the next. After the eleventh that is the whole configuration.
* `ProvTypeCorrect` follows with the remaining types (`Rest`).

### Only model-checked

Liveness: `KeepsSending`, `EveryPublicationEnds`, `EveryProcedureEnds`, `EveryNodeConfigured`,
`NetworkGrows`, `EveryCommandHandled`, `EveryDetectionRun`, `EveryReadingPrinted`. TLAPS cannot prove what
depends on `ENABLED`, and its theorems on induction take an operator as a parameter, which none of
the installed provers instantiates. Every other property of a passing run has a theorem.

What the properties leave out, although a hazard of the code: an early TX complete event (`EarlyComplete`), tables that change while they are
published (`TableChanges`, `cleared`), overlapping procedures where tables are compared (`Sequential`), messages in the midst of a procedure or at once (`Quiet`), identifiers
that wrapped and SETs that were lost, resets of the Provisioner between two writes, answers repeated late, commands and expiries
at the wrong moment (`collided`), more commands than buffers, texts longer than their buffers, and detections of users. `PROJECT.json` says so at each of these hazards.

The conditions of the theorems are those of the runs or weaker. What holds without them is not known but for the
counterexamples that TLC gives ("Violations", "Met while modelling").

## Plan

Done: queue and manager; the procedure with losses, resets and clears; tables and
messages; provisioning and configuration with time-outs and keys; commands and JSON of the
Gate; proofs of all safety properties that the runs check. What is left, in this order:

1. `TablesGetExtended` with nodes that were reset between two procedures.
2. Devices that restart, and a link lost between both completions.
3. Detections by a user or by the RTB builder between procedures: they renumber the
   containers without an update of the tables, so `TablesResolve` has to say which
   detections it is about.

## Not modelled

* cJSON is vendored. What the Gate uses of it, parsing, yields data that no property tells apart.
* Values in JSON and in messages, their units and formats (`convert.c`): formatting without state.
* The benchmark command and its delay: it measures the network with messages of its own.
* The LED toggler and the RTB builder have one handler each, and no state a property
  would relate to another. Mesh stack set-up, the health client (which logs) and UART helpers have none.
* The raw look-ups of `mesh_bridge_utils.c`: `ContainerTables` assumes their result, that the Mesh
  Bridge is the first container of its board.
