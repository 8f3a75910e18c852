----------------------------- MODULE Provisioner -----------------------------
(***************************************************************************)
(* The Mesh Provisioner and the devices it provisions: provisioning.c,     *)
(* node_config.c and the persistent configuration of provisioner_config.c, *)
(* with the provisioning side of a Mesh Bridge device.                     *)
(*                                                                         *)
(* Mesh events are handled in interrupts that do not preempt each other:   *)
(* each is one step. The IO_STATE commands run in the main thread and can  *)
(* be preempted between the start or the stop of the scan, the test of the *)
(* state and the new state. The mesh stack is external: it keeps one       *)
(* provisioning link, delivers the events of a link in the order of the    *)
(* provisioning protocol, and writes dirty configuration entries to flash  *)
(* one at a time, in any order.                                            *)
(***************************************************************************)
EXTENDS Integers, FiniteSets, Functions

CONSTANTS
  Device,        \* devices in range that expose the authentication data
  Elements,      \* elements of each device
  MaxNodes,      \* LUOS_MESH_NETWORK_MAX_NODES
  OwnElements,   \* ACCESS_ELEMENT_COUNT of the Provisioner
  AbortStages,   \* stages at which a link may be lost
  MaxAborts,     \* links lost
  MaxRequests,   \* IO_STATE commands received
  Polite,        \* whether scanning is requested and stopped only when nothing goes on
  MaxResets,     \* resets of the Provisioner
  ResetAnyTime,  \* whether it is reset at any time, or only once settled
  MayDuplicate,  \* whether the answers to configuration requests are repeated
  MaxTimeouts,   \* configuration requests that time out
  NoDevice,      \* the link of no device
  Absent         \* an entry that is not stored

Stages == {"opening", "open", "caps", "auth", "done", "closing"}

ASSUME ProvisionerAssumption ==
  /\ Elements \in [Device -> Nat \ {0}]
  /\ MaxNodes \in Nat \ {0} /\ OwnElements \in Nat \ {0}
  /\ AbortStages \subseteq Stages \ {"closing"}
  /\ {MaxAborts, MaxRequests, MaxResets, MaxTimeouts} \subseteq Nat
  /\ {Polite, ResetAnyTime, MayDuplicate} \subseteq BOOLEAN
  /\ NoDevice \notin Device
  /\ Absent \notin [nb_prov : Nat, nb_conf : Nat, next_address : Nat, appkey : Nat]
  /\ Absent \notin [first_addr : Nat, nb_elm : Nat]

VARIABLES
  prov_state,   \* PROV_STATE_...
  scanning,     \* the mesh stack reports unprovisioned devices
  header,       \* prov_conf_header: the copy in s_prov_curr_state
  curr_node,    \* curr_conf_node
  handles,      \* address behind the DSM handles of each node, 0 for none
  config_step,  \* NODE_CONFIG_STEP_..., 0 for IDLE
  elm_address,  \* address of the configured element
  server,       \* address behind the handles the Config Client publishes to
  live,         \* s_prov_conf_live, by record of the configuration file
  thread,       \* the main thread inside prov_scan_start or prov_scan_stop
  failed,       \* an APP_ERROR_CHECK or LUOS_ASSERT stopped the Provisioner
  appkey,       \* g_network_ctx.appkey, 0 while zeroed
  dsm,          \* addresses the device state manager has handles for
  dsm_appkey,   \* the application key behind its handle
  dirty,        \* records of live not yet written to flash
  flash,        \* the records in flash
  flash_dsm,    \* the addresses in flash
  link,         \* the provisioning link
  request,      \* the configuration request on its way
  answer,       \* the last answer on its way
  dev_addr,     \* address of each device, 0 while unprovisioned
  dev_conf,     \* what the Config Server of each device holds
  scan_wanted,  \* auxiliary: scanning was requested, and not stopped since
  stalled,      \* auxiliary: a request timed out, and no reset since
  requests, aborts, resets, timeouts

ram_vars  == <<prov_state, scanning, header, curr_node, handles, config_step,
               elm_address, server, live, thread, failed, appkey, dsm, dsm_appkey>>
disk_vars == <<dirty, flash, flash_dsm>>
net_vars  == <<link, request, answer, dev_addr, dev_conf>>
env_vars  == <<scan_wanted, stalled, requests, aborts, resets, timeouts>>
key_vars  == <<appkey, dsm_appkey>>
vars      == <<ram_vars, disk_vars, net_vars, env_vars>>

PROV_ELM_ADDRESS == 1

\* Records of the configuration file: the header, then one per node.
HeaderRecord == 1
NodeRecord(idx) == HeaderRecord + 1 + idx
Record == HeaderRecord .. MaxNodes + 1

NoLink    == [dev |-> NoDevice, stage |-> "closing", addr |-> 0]
NoRequest == [to |-> 0, step |-> 0, elm |-> 0, appkey |-> 0]
NoAnswer  == [step |-> 0, status |-> "success"]

LuosModel == {"luos_rtb", "luos_msg"}
Model     == LuosModel \cup {"health"}

\* What each step asks of the node, in the order of STEP_TRANSITIONS.
Asks(op, model, target) == [op |-> op, model |-> model, target |-> target]

Transitions ==
  <<Asks("get", "none", "none"), Asks("transmit", "none", "none"), Asks("appkey", "none", "none"),
    Asks("bind", "health", "none"), Asks("publish", "health", "provisioner"),
    Asks("bind", "luos_rtb", "none"), Asks("publish", "luos_rtb", "group"),
    Asks("subscribe", "luos_rtb", "group"),
    Asks("bind", "luos_msg", "none"), Asks("publish", "luos_msg", "group"),
    Asks("subscribe", "luos_msg", "group")>>

\* Mutant of StepRequest: the key is bound to the model of another step.
WrongModelBound(step) == Transitions[IF step = 9 THEN 6 ELSE step]

StepRequest(step) == Transitions[step]

\* The answer each step waits for (EXPECTED_OPCODES).
Opcode ==
  <<"COMPOSITION_DATA", "NETWORK_TRANSMIT", "APPKEY", "MODEL_APP", "MODEL_PUBLICATION",
    "MODEL_APP", "MODEL_PUBLICATION", "MODEL_SUBSCRIPTION",
    "MODEL_APP", "MODEL_PUBLICATION", "MODEL_SUBSCRIPTION">>
Steps == DOMAIN Opcode
LastStep == Cardinality(Steps)

-----------------------------------------------------------------------------
\* Power-up of an unprovisioned Provisioner: network_ctx_generate draws a key,
\* which prov_conf_init stores in the generated header.
FirstHeader(key) ==
  [nb_prov |-> 0, nb_conf |-> 0, next_address |-> PROV_ELM_ADDRESS + OwnElements, appkey |-> key]

NoHandles == [idx \in 0 .. MaxNodes - 1 |-> 0]
NoNode == [first_addr |-> 0, nb_elm |-> 0]
NoKey  == -1
NoConf == [appkey |-> NoKey, bound |-> {}, target |-> [m \in Model |-> "none"], subscribed |-> {}]
FirstKey == 1

Init ==
  /\ prov_state = "IDLE" /\ scanning = FALSE
  /\ header = FirstHeader(FirstKey) /\ curr_node = NoNode /\ handles = NoHandles
  /\ config_step = 0 /\ elm_address = 0 /\ server = 0
  /\ live = [r \in Record |-> IF r = HeaderRecord THEN FirstHeader(FirstKey) ELSE Absent]
  /\ thread = "idle" /\ failed = FALSE
  /\ appkey = FirstKey /\ dsm = {PROV_ELM_ADDRESS} /\ dsm_appkey = FirstKey
  /\ dirty = {HeaderRecord} /\ flash = [r \in Record |-> Absent] /\ flash_dsm = {}
  /\ link = NoLink /\ request = NoRequest /\ answer = NoAnswer
  /\ dev_addr = [d \in Device |-> 0] /\ dev_conf = [d \in Device |-> NoConf]
  /\ scan_wanted = FALSE /\ stalled = FALSE
  /\ requests = 0 /\ aborts = 0 /\ resets = 0 /\ timeouts = 0

\* mesh_config_entry_set
EntrySet(values) ==
  /\ live' = [r \in Record |-> IF r \in DOMAIN values THEN values[r] ELSE live[r]]
  /\ dirty' = dirty \cup DOMAIN values

-----------------------------------------------------------------------------
\* Scanning

Settled ==
  /\ prov_state \in {"IDLE", "SCANNING"} /\ link = NoLink
  /\ config_step = 0 \/ stalled
  /\ thread = "idle"
  /\ dirty = {} /\ dsm = flash_dsm

\* Nothing was written nor provisioned since the first power-up.
Blank ==
  /\ flash_dsm = {} /\ \A rec \in Record : flash[rec] = Absent
  /\ header.nb_prov = 0 /\ link = NoLink

\* Mutant of CanScan: a network at its maximum still scans.
CanScanAtMaximum == header.nb_prov <= MaxNodes

\* The test of prov_scan_start
CanScan == header.nb_prov < MaxNodes

\* prov_scan_start in an interrupt
ScanStart(otherwise) ==
  IF CanScan
  THEN scanning' = TRUE /\ prov_state' = "SCANNING"
  ELSE prov_state' = otherwise /\ UNCHANGED scanning

\* MeshProvisioner_MsgHandler, IO_STATE 0x01: prov_scan_start up to the start
\* of the scan; at the maximum number of nodes only the source is told.
RequestScan ==
  /\ ~failed /\ requests < MaxRequests
  /\ thread = "idle"
  /\ Polite => prov_state = "IDLE" /\ link = NoLink /\ (config_step = 0 \/ stalled)
  /\ requests' = requests + 1
  /\ scan_wanted' = CanScan
  /\ IF CanScan
     THEN scanning' = TRUE /\ thread' = "state"
     ELSE UNCHANGED <<scanning, thread>>
  /\ UNCHANGED <<prov_state, header, curr_node, handles, config_step, elm_address, server, live,
                 failed, dsm, key_vars, disk_vars, net_vars, stalled, aborts, resets, timeouts>>

\* ... the new state
RequestedState ==
  /\ ~failed
  /\ thread = "state"
  /\ prov_state' = "SCANNING"
  /\ thread' = "idle"
  /\ UNCHANGED <<scanning, header, curr_node, handles, config_step, elm_address, server, live,
                 failed, dsm, key_vars, disk_vars, net_vars, env_vars>>

\* IO_STATE 0x00: prov_scan_stop stops the scan,
StopScan ==
  /\ ~failed /\ requests < MaxRequests
  /\ thread = "idle"
  /\ Polite => link = NoLink /\ (config_step = 0 \/ stalled)
  /\ requests' = requests + 1
  /\ scan_wanted' = FALSE
  /\ scanning' = FALSE
  /\ thread' = "stop"
  /\ UNCHANGED <<prov_state, header, curr_node, handles, config_step, elm_address, server, live,
                 failed, dsm, key_vars, disk_vars, net_vars, stalled, aborts, resets, timeouts>>

\* ... tests the state,
StopTest ==
  /\ ~failed
  /\ thread = "stop"
  /\ thread' = IF prov_state = "SCANNING" THEN "stopped" ELSE "idle"
  /\ UNCHANGED <<prov_state, scanning, header, curr_node, handles, config_step, elm_address, server, live,
                 failed, dsm, key_vars, disk_vars, net_vars, env_vars>>

\* ... and leaves SCANNING, which an interrupt may have done before.
StopStore ==
  /\ ~failed
  /\ thread = "stopped"
  /\ prov_state' = "IDLE"
  /\ thread' = "idle"
  /\ UNCHANGED <<scanning, header, curr_node, handles, config_step, elm_address, server, live,
                 failed, dsm, key_vars, disk_vars, net_vars, env_vars>>

RequestStop == StopScan \/ StopTest \/ StopStore

-----------------------------------------------------------------------------
\* Provisioning

Listening(d) == dev_addr[d] = 0 /\ link.dev # d

\* mesh_unprov_event_cb in SCANNING; in another state it returns. The mesh
\* stack refuses a second link.
UnprovReceived(d) ==
  /\ ~failed
  /\ scanning /\ Listening(d)
  /\ prov_state = "SCANNING"
  /\ IF link = NoLink
     THEN /\ link' = [dev |-> d, stage |-> "opening", addr |-> header.next_address]
          /\ scanning' = FALSE
          /\ prov_state' = "PROVISIONING"
          /\ UNCHANGED failed
     ELSE failed' = TRUE /\ UNCHANGED <<link, scanning, prov_state>>
  /\ UNCHANGED <<header, curr_node, handles, config_step, elm_address, server, live, thread, dsm, key_vars,
                 disk_vars, request, answer, dev_addr, dev_conf, env_vars>>

LinkStep(from, to) ==
  /\ link # NoLink
  /\ link.stage = from
  /\ link' = [link EXCEPT !.stage = to]

\* NRF_MESH_PROV_EVT_LINK_ESTABLISHED, on both sides
LinkEstablished ==
  /\ ~failed
  /\ LinkStep("opening", "open")
  /\ UNCHANGED <<ram_vars, disk_vars, request, answer, dev_addr, dev_conf, env_vars>>

\* NRF_MESH_PROV_EVT_CAPS_RECEIVED; in another state the procedure is not
\* continued, and the link stays open until it is lost.
CapsReceived ==
  /\ ~failed
  /\ prov_state = "PROVISIONING"
  /\ LinkStep("open", "caps")
  /\ curr_node' = [curr_node EXCEPT !.nb_elm = Elements[link.dev]]
  /\ UNCHANGED <<prov_state, scanning, header, handles, config_step, elm_address, server, live,
                 thread, failed, dsm, key_vars, disk_vars, request, answer, dev_addr, dev_conf, env_vars>>

\* NRF_MESH_PROV_EVT_STATIC_REQUEST: auth_data_provide
StaticRequest ==
  /\ ~failed
  /\ prov_state = "PROVISIONING"
  /\ LinkStep("caps", "auth")
  /\ UNCHANGED <<ram_vars, disk_vars, request, answer, dev_addr, dev_conf, env_vars>>

\* NRF_MESH_PROV_EVT_COMPLETE on the device: it stores its address and is
\* provisioned.
DeviceComplete ==
  /\ LinkStep("auth", "done")
  /\ dev_addr' = [dev_addr EXCEPT ![link.dev] = link.addr]
  /\ UNCHANGED <<ram_vars, disk_vars, request, answer, dev_conf, env_vars>>

\* Mutant of NextAddress: one element whatever the device has.
NextAddressByOne(addr, nb_elm) == addr + 1

\* The first address after those of a device
NextAddress(addr, nb_elm) == addr + nb_elm

\* Mutant of CompletedNode: the node entry is set before its address.
NodeWithoutAddress == curr_node

\* The entry of the node that is provisioned
CompletedNode == [curr_node EXCEPT !.first_addr = link.addr]

\* NRF_MESH_PROV_EVT_COMPLETE on the Provisioner: prov_on_complete_event. In
\* another state the event is dropped.
ProvComplete ==
  /\ ~failed
  /\ LinkStep("done", "closing")
  /\ IF prov_state = "PROVISIONING"
     THEN LET node_idx   == header.nb_prov
              new_header == [header EXCEPT !.nb_prov = @ + 1,
                               !.next_address = NextAddress(link.addr, curr_node.nb_elm)]
              new_node   == CompletedNode
          IN /\ prov_state' = "COMPLETE"
             /\ dsm' = dsm \cup {link.addr}
             /\ handles' = [handles EXCEPT ![node_idx] = link.addr]
             /\ header' = new_header
             /\ curr_node' = new_node
             /\ EntrySet([r \in {HeaderRecord, NodeRecord(node_idx)} |->
                            IF r = HeaderRecord THEN new_header ELSE new_node])
     ELSE UNCHANGED <<prov_state, dsm, handles, header, curr_node, live, dirty>>
  /\ UNCHANGED <<scanning, config_step, elm_address, server, thread, failed, key_vars, flash, flash_dsm,
                 request, answer, dev_addr, dev_conf, env_vars>>

\* The link is lost, or the procedure fails: NRF_MESH_PROV_EVT_FAILED changes
\* nothing.
Abort ==
  /\ aborts < MaxAborts
  /\ link # NoLink
  /\ link.stage \in AbortStages
  /\ aborts' = aborts + 1
  /\ link' = [link EXCEPT !.stage = "closing"]
  /\ UNCHANGED <<ram_vars, disk_vars, request, answer, dev_addr, dev_conf, scan_wanted, stalled, requests, resets, timeouts>>

\* The transition into a step sends its request to the configured server: of
\* the given element, and with the key of the network context.
Request(to, step, elm) == [to |-> to, step |-> step, elm |-> elm, appkey |-> appkey]

\* node_config_start: refused while another node is configured
NodeConfigStart(addr, handle) ==
  IF config_step = 0
  THEN /\ elm_address' = addr
       /\ server' = handle
       /\ config_step' = 1
       /\ request' = Request(handle, 1, addr)
  ELSE UNCHANGED <<elm_address, server, config_step, request>>

\* NRF_MESH_PROV_EVT_LINK_CLOSED: prov_on_link_closed_event; an unprovisioned
\* device listens again.
LinkClosed ==
  /\ ~failed
  /\ link # NoLink
  /\ link.stage = "closing"
  /\ link' = NoLink
  /\ CASE prov_state = "COMPLETE" ->
            /\ prov_state' = "IDLE"
            /\ NodeConfigStart(curr_node.first_addr, handles[header.nb_prov - 1])
            /\ UNCHANGED scanning
       [] prov_state = "PROVISIONING" ->
            /\ ScanStart(prov_state)
            /\ UNCHANGED <<elm_address, server, config_step, request>>
       [] OTHER -> UNCHANGED <<prov_state, elm_address, server, config_step, request, scanning>>
  /\ UNCHANGED <<header, curr_node, handles, live, thread, failed, dsm, key_vars, disk_vars,
                 answer, dev_addr, dev_conf, env_vars>>

-----------------------------------------------------------------------------
\* Configuration of a node

\* The Config Server of the node: what it holds after a request, and the
\* status of its answer. It refuses an element that is not its own, a model
\* without a key and a publication of a model no key is bound to.
Refuses(d, asked) ==
  LET conf == dev_conf[d]
      ask  == StepRequest(asked.step)
  IN /\ ask.op \in {"bind", "publish", "subscribe"}
     /\ \/ asked.elm # dev_addr[d]
        \/ ask.op = "bind" /\ conf.appkey = NoKey
        \/ ask.op = "publish" /\ ask.model \notin conf.bound

Applied(conf, asked) ==
  LET ask == StepRequest(asked.step)
  IN CASE ask.op = "appkey"    -> [conf EXCEPT !.appkey = IF @ = NoKey THEN asked.appkey ELSE @]
       [] ask.op = "bind"      -> [conf EXCEPT !.bound = @ \cup {ask.model}]
       [] ask.op = "publish"   -> [conf EXCEPT !.target[ask.model] = ask.target]
       [] ask.op = "subscribe" -> [conf EXCEPT !.subscribed = @ \cup {ask.model}]
       [] OTHER                -> conf

\* The node applies the request and answers.
NodeAnswers(d) ==
  /\ request # NoRequest
  /\ dev_addr[d] = request.to
  /\ dev_conf' = IF Refuses(d, request) THEN dev_conf
                 ELSE [dev_conf EXCEPT ![d] = Applied(@, request)]
  /\ answer' = [step |-> request.step,
                status |-> IF Refuses(d, request) THEN "refused" ELSE "success"]
  /\ request' = NoRequest
  /\ UNCHANGED <<ram_vars, disk_vars, link, dev_addr, env_vars>>

AnswerStays == answer' = NoAnswer \/ (MayDuplicate /\ answer' = answer)

\* Mutant of IsExpected: the opcode is not tested.
AnyAnswer == config_step \in Steps

\* The opcode tests of config_client_msg_handler
IsExpected == config_step \in Steps /\ Opcode[config_step] = Opcode[answer.step]

\* Its assertions on the status
Accepted == answer.status = "success"

\* Mutant of NextStep: the transition sends no request.
NextStepUnrequested ==
  /\ ~failed
  /\ answer # NoAnswer /\ AnswerStays
  /\ IsExpected
  /\ config_step < LastStep
  /\ config_step' = config_step + 1
  /\ UNCHANGED <<prov_state, scanning, header, curr_node, handles, elm_address, server, live, thread,
                 failed, dsm, key_vars, disk_vars, link, request, dev_addr, dev_conf, env_vars>>

\* config_client_msg_handler up to the last step: a transition of
\* STEP_TRANSITIONS sends the next request.
NextStep ==
  /\ ~failed
  /\ answer # NoAnswer /\ AnswerStays
  /\ IsExpected
  /\ config_step < LastStep
  /\ IF Accepted
     THEN /\ config_step' = config_step + 1
          /\ request' = Request(server, config_step + 1, elm_address)
          /\ UNCHANGED failed
     ELSE failed' = TRUE /\ UNCHANGED <<config_step, request>>
  /\ UNCHANGED <<prov_state, scanning, header, curr_node, handles, elm_address, server, live, thread,
                 dsm, key_vars, disk_vars, link, dev_addr, dev_conf, env_vars>>

\* Mutant of NodeConfigSuccess: scanning is not resumed.
ConfiguredWithoutScan ==
  /\ ~failed
  /\ answer # NoAnswer /\ AnswerStays
  /\ IsExpected
  /\ config_step = LastStep
  /\ EntrySet([r \in {HeaderRecord} |-> [live[r] EXCEPT !.nb_conf = @ + 1]])
  /\ config_step' = 0
  /\ UNCHANGED <<prov_state, scanning, header, curr_node, handles, elm_address, server, thread,
                 failed, dsm, key_vars, flash, flash_dsm, link, request, dev_addr, dev_conf, env_vars>>

\* ... after it: node_config_success counts the node in the persistent header
\* only, and scans again.
NodeConfigSuccess ==
  /\ ~failed
  /\ answer # NoAnswer /\ AnswerStays
  /\ IsExpected
  /\ config_step = LastStep
  /\ IF Accepted
     THEN /\ EntrySet([r \in {HeaderRecord} |-> [live[r] EXCEPT !.nb_conf = @ + 1]])
          /\ config_step' = 0
          /\ ScanStart(prov_state)
          /\ UNCHANGED failed
     ELSE failed' = TRUE /\ UNCHANGED <<live, dirty, config_step, prov_state, scanning>>
  /\ UNCHANGED <<header, curr_node, handles, elm_address, server, thread, dsm, key_vars,
                 flash, flash_dsm, link, request, dev_addr, dev_conf, env_vars>>

\* ... an answer that is not expected
UnexpectedAnswer ==
  /\ ~failed
  /\ answer # NoAnswer
  /\ ~IsExpected
  /\ answer' = NoAnswer
  /\ UNCHANGED <<ram_vars, disk_vars, link, request, dev_addr, dev_conf, env_vars>>

\* The request or its answer was lost for too long: config_client_event_cb
\* does nothing.
RequestTimesOut ==
  /\ ~failed
  /\ timeouts < MaxTimeouts
  /\ request # NoRequest \/ (answer # NoAnswer /\ answer.step = config_step)
  /\ timeouts' = timeouts + 1
  /\ stalled' = TRUE
  /\ request' = NoRequest /\ answer' = NoAnswer
  /\ UNCHANGED <<ram_vars, disk_vars, link, dev_addr, dev_conf, scan_wanted, requests, aborts, resets>>

-----------------------------------------------------------------------------
\* Flash and resets

\* What is written next: one of the dirty entries or, when the Provisioner is
\* reset only once all of them are written, all at once.
Batches(entries) == IF ResetAnyTime THEN {{e} : e \in entries} ELSE {entries} \ {{}}

WriteRecord ==
  \E batch \in Batches(dirty) :
    /\ flash' = [r \in Record |-> IF r \in batch THEN live[r] ELSE flash[r]]
    /\ dirty' = dirty \ batch
    /\ UNCHANGED <<ram_vars, flash_dsm, net_vars, env_vars>>

WriteDsm ==
  \E batch \in Batches(dsm \ flash_dsm) :
    /\ flash_dsm' = flash_dsm \cup batch
    /\ UNCHANGED <<ram_vars, dirty, flash, net_vars, env_vars>>

\* The address that prov_node_conf_fetch looks up: that of a stored node, or
\* else what its uninitialized buffer holds.
FetchedAddress(idx, garbage) ==
  IF flash[NodeRecord(idx)] = Absent THEN garbage ELSE flash[NodeRecord(idx)].first_addr

FetchedNodes(conf) == 0 .. conf.nb_prov - 1

\* Mutant of FetchedKey: the key is left as it is after a reset.
ZeroedKey(stored) == 0

\* "appkey can not be retrieved from DSM"
FetchedKey(stored) == stored.appkey

\* network_ctx_fetch: the handles of the network, its key and the Provisioner
\* are looked up, the application key stays zeroed.
FetchContext == dsm' = flash_dsm /\ UNCHANGED dsm_appkey

\* ... then prov_conf_init and prov_conf_fetch, in MeshProvisioner_Init of a
\* provisioned Provisioner. A header that is not stored leaves the static one zeroed; an
\* address that the device state manager does not know fails an
\* APP_ERROR_CHECK.
Fetch ==
  \E garbage \in {0} \cup (flash_dsm \ {PROV_ELM_ADDRESS}) :
    LET stored == IF flash[HeaderRecord] = Absent
                  THEN [nb_prov |-> 0, nb_conf |-> 0, next_address |-> 0, appkey |-> 0]
                  ELSE flash[HeaderRecord]
        addr   == [idx \in FetchedNodes(stored) |-> FetchedAddress(idx, garbage)]
    IN /\ header' = stored
       /\ failed' = (Range(addr) \ flash_dsm # {})
       /\ handles' = [idx \in DOMAIN handles |-> IF idx \in DOMAIN addr THEN addr[idx] ELSE 0]
       /\ appkey' = FetchedKey(stored)
       /\ live' = flash
       /\ FetchContext
       /\ dirty' = {}

\* ... of one that is not provisioned yet, with a key of this power-up
Generate ==
  /\ appkey' = FirstKey + resets' /\ dsm_appkey' = appkey'
  /\ header' = FirstHeader(appkey')
  /\ failed' = FALSE
  /\ handles' = NoHandles
  /\ live' = [flash EXCEPT ![HeaderRecord] = header']
  /\ dsm' = {PROV_ELM_ADDRESS}
  /\ dirty' = {HeaderRecord}

\* A reset and MeshProvisioner_Init: what is in flash is all that is left, and
\* a node that was not configured yet is not configured then either.
Reset ==
  /\ resets < MaxResets
  /\ ResetAnyTime \/ Settled \/ Blank
  /\ resets' = resets + 1
  /\ scan_wanted' = FALSE /\ stalled' = FALSE
  /\ prov_state' = "IDLE" /\ scanning' = FALSE
  /\ curr_node' = NoNode
  /\ config_step' = 0 /\ elm_address' = 0 /\ server' = 0
  /\ thread' = "idle"
  /\ IF PROV_ELM_ADDRESS \in flash_dsm THEN Fetch ELSE Generate
  /\ link' = NoLink /\ request' = NoRequest /\ answer' = NoAnswer
  /\ UNCHANGED <<flash, flash_dsm, dev_addr, dev_conf, requests, aborts, timeouts>>

Next ==
  \/ RequestScan \/ RequestedState \/ RequestStop
  \/ \E d \in Device : UnprovReceived(d)
  \/ LinkEstablished \/ CapsReceived \/ StaticRequest
  \/ DeviceComplete \/ ProvComplete \/ Abort \/ LinkClosed
  \/ \E d \in Device : NodeAnswers(d)
  \/ NextStep \/ NodeConfigSuccess \/ UnexpectedAnswer \/ RequestTimesOut
  \/ WriteRecord \/ WriteDsm \/ Reset

\* The main thread runs, the mesh delivers the events of a link and the
\* configuration messages, and dirty entries are written. Nobody has to scan,
\* to stop scanning, to abort or to reset; beacons are not lost for ever.
Fairness ==
  /\ WF_vars(RequestedState) /\ WF_vars(StopTest) /\ WF_vars(StopStore)
  /\ WF_vars(\E d \in Device : UnprovReceived(d))
  /\ WF_vars(LinkEstablished) /\ WF_vars(CapsReceived) /\ WF_vars(StaticRequest)
  /\ WF_vars(DeviceComplete) /\ WF_vars(ProvComplete)
  /\ WF_vars(LinkClosed)
  /\ WF_vars(\E d \in Device : NodeAnswers(d))
  /\ WF_vars(NextStep) /\ WF_vars(NodeConfigSuccess)
  /\ WF_vars(WriteRecord) /\ WF_vars(WriteDsm)

Spec == Init /\ [][Next]_vars /\ Fairness
-----------------------------------------------------------------------------
Header == [nb_prov : 0 .. MaxNodes, nb_conf : Nat, next_address : Nat, appkey : Nat]
Node == [first_addr : Nat, nb_elm : Nat]

\* Types; the arrays of MaxNodes nodes are never overrun.
ProvTypeOK ==
  /\ prov_state \in {"IDLE", "SCANNING", "PROVISIONING", "COMPLETE"}
  /\ {scanning, failed} \subseteq BOOLEAN /\ thread \in {"idle", "state", "stop", "stopped"}
  /\ header \in Header /\ curr_node \in Node
  /\ handles \in [0 .. MaxNodes - 1 -> Nat]
  /\ config_step \in {0} \cup Steps /\ elm_address \in Nat /\ server \in Nat
  /\ DOMAIN live = Record /\ DOMAIN flash = Record /\ dirty \subseteq Record
  /\ link.dev \in Device \cup {NoDevice} /\ link.stage \in Stages /\ link.addr \in Nat
  /\ request.step \in {0} \cup Steps /\ answer.step \in {0} \cup Steps
  /\ dev_addr \in [Device -> Nat]
  /\ \A d \in Device : dev_conf[d].bound \subseteq Model /\ dev_conf[d].subscribed \subseteq Model

Provisioned(d) == dev_addr[d] # 0
Addresses(d) == dev_addr[d] .. dev_addr[d] + Elements[d] - 1

\* Every element in the network has an address of its own ("Target address
\* for the next unprovisioned device", provisioner_config.h): those of two
\* nodes, or of a node and the Provisioner, never overlap.
AddressesDistinct ==
  \A d \in Device : Provisioned(d) =>
    /\ Addresses(d) \cap (PROV_ELM_ADDRESS .. PROV_ELM_ADDRESS + OwnElements - 1) = {}
    /\ \A e \in Device \ {d} : Provisioned(e) => Addresses(d) \cap Addresses(e) = {}

\* The Provisioner knows every node of its network: its entry of the
\* persistent configuration and its handles (prov_on_complete_event), before
\* and after a restart.
Recorded(d) ==
  \E idx \in 0 .. header.nb_prov - 1 :
    /\ live[NodeRecord(idx)] = [first_addr |-> dev_addr[d], nb_elm |-> Elements[d]]
    /\ handles[idx] = dev_addr[d]

NodesRecorded == \A d \in Device : Provisioned(d) /\ link.dev # d => Recorded(d)

\* What the steps are for: every model has the key of the network, Luos models
\* publish to their group and receive from it, the Health Server publishes to
\* the Provisioner.
Configured(d) ==
  /\ dev_conf[d].appkey = dsm_appkey
  /\ dev_conf[d].bound = Model
  /\ dev_conf[d].subscribed = LuosModel
  /\ dev_conf[d].target = [m \in Model |-> IF m = "health" THEN "provisioner" ELSE "group"]

\* A node is counted as configured only once it is, however often the answers
\* are repeated (config_client_msg_handler, node_config_success).
ConfiguredMeansApplied ==
  [][live'[HeaderRecord].nb_conf > live[HeaderRecord].nb_conf =>
       \E d \in Device : dev_addr[d] = elm_address /\ Configured(d)]_vars

\* All nodes and the Provisioner share one application key, also those
\* configured after a restart ("needed since appkey can not be retrieved from
\* DSM", prov_conf_fetch).
KeyShared == \A d \in Device : dev_conf[d].appkey \in {NoKey, dsm_appkey}

\* Every node of the network gets configured (README.md, "Node
\* configuration"), unless a request times out.
EveryNodeConfigured == \A d \in Device : Provisioned(d) ~> Configured(d) \/ timeouts > 0

\* Once scanning is requested the network grows until there is no device or
\* no room left, through failed procedures and configurations
\* (prov_on_link_closed_event, node_config_success). A request that times out
\* stops it, until the next reset.
NetworkGrows ==
  scan_wanted ~> \/ ~scan_wanted \/ stalled
                 \/ header.nb_prov = MaxNodes
                 \/ \A d \in Device : Provisioned(d)

\* No APP_ERROR_CHECK fails, and no LUOS_ASSERT on the status of an answer: a
\* node accepts the requests in the order in which they come
\* (STEP_TRANSITIONS).
NoErrorCheckFails == ~failed
=============================================================================
