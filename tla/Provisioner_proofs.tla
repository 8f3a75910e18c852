-------------------------- MODULE Provisioner_proofs --------------------------
(***************************************************************************)
(* For any devices, networks and timeouts, if scanning is requested when   *)
(* nothing goes on, no link is lost between the completion on the device   *)
(* and on the Provisioner, and the Provisioner is not reset between two    *)
(* writes: every element has an address of its own, all nodes have one     *)
(* application key and an entry, no request is refused, and the nodes that *)
(* are counted are configured. The first invariant relates the next        *)
(* address to the link, to the devices and to what is stored; the others   *)
(* go with it.                                                             *)
(***************************************************************************)
EXTENDS Provisioner, FiniteSetTheorems, TLAPS

\* What prov_scan_start, prov_on_complete_event and prov_conf_fetch rely on
Orderly == Polite /\ ~ResetAnyTime /\ "done" \notin AbortStages

Headers == [nb_prov : Nat, nb_conf : Nat, next_address : Nat, appkey : Nat]

Typed ==
  /\ header \in Headers /\ curr_node \in Node
  /\ link \in [dev : Device \cup {NoDevice}, stage : Stages, addr : Nat]
  /\ link.dev = NoDevice => link = NoLink
  /\ dev_addr \in [Device -> Nat] /\ resets \in Nat
  /\ config_step \in {0} \cup Steps /\ request.step \in {0} \cup Steps /\ answer.step \in {0} \cup Steps

-----------------------------------------------------------------------------
\* The configuration

\* A request is that of the present step, and an answer that of it or of the
\* one before.
Asking ==
  /\ request # NoRequest =>
       /\ config_step \in Steps /\ request.step = config_step
       /\ answer # NoAnswer => \/ answer.step = config_step - 1
                               \/ config_step = 1 /\ answer.step = LastStep
  /\ answer # NoAnswer => answer.step \in Steps
  /\ answer # NoAnswer /\ config_step = 0 => answer.step = LastStep
  /\ answer # NoAnswer /\ config_step # 0 /\ request = NoRequest => answer.step = config_step

\* No answer will come that ends a configuration.
Quiet == config_step = 0 \/ (request = NoRequest /\ answer = NoAnswer)

\* The main thread is inside prov_scan_start or prov_scan_stop.
Scans == thread \in {"state", "stop", "stopped"}

\* A device is only sought when no configuration goes on.
Seeking ==
  /\ stalled => config_step # 0 /\ Quiet
  /\ link # NoLink \/ Scans \/ prov_state = "SCANNING" => Quiet
  /\ Scans => link = NoLink
  /\ thread = "state" => prov_state = "IDLE"
  /\ thread \in {"stop", "stopped"} => ~scanning

-----------------------------------------------------------------------------
\* The addresses

\* The link of a device that is being provisioned
Underway == link # NoLink /\ link.stage # "closing"

Linked ==
  Underway =>
    /\ prov_state = "PROVISIONING"
    /\ link.addr = header.next_address
    /\ dev_addr[link.dev] = IF link.stage = "done" THEN link.addr ELSE 0
    /\ link.stage \in {"caps", "auth", "done"} => curr_node.nb_elm = Elements[link.dev]

\* What is stored allows to continue after a reset.
Stored ==
  /\ live[HeaderRecord] \in Headers
  /\ live[HeaderRecord].next_address = header.next_address
  /\ live[HeaderRecord].nb_prov = header.nb_prov
  /\ HeaderRecord \notin dirty => flash[HeaderRecord] = live[HeaderRecord]
  /\ DOMAIN flash = Record /\ PROV_ELM_ADDRESS \in dsm

\* Devices got addresses above those of the Provisioner and below the next one.
Placed ==
  /\ header.next_address >= PROV_ELM_ADDRESS + OwnElements
  /\ \A d \in Device : Provisioned(d) =>
       /\ dev_addr[d] >= PROV_ELM_ADDRESS + OwnElements
       /\ \/ Underway /\ link.dev = d
          \/ dev_addr[d] + Elements[d] <= header.next_address /\ header.nb_prov > 0

Disjoint == \A d, e \in Device : Provisioned(d) /\ Provisioned(e) /\ d # e =>
  \/ dev_addr[d] + Elements[d] <= dev_addr[e]
  \/ dev_addr[e] + Elements[e] <= dev_addr[d]

\* The inductive invariant
ProvInv == Typed /\ Asking /\ Seeking /\ Linked /\ Stored /\ Placed /\ Disjoint

\* There are eleven steps, and two in a row wait for different answers.
LEMMA StepFacts ==
  /\ Steps = 1 .. 11 /\ LastStep = 11
  /\ \A s \in 2 .. 11 : Opcode[s] # Opcode[s - 1]
  /\ Opcode[1] # Opcode[11]
<1>1. Steps = 1 .. 11
  BY DEF Steps, Opcode
<1>2. LastStep = 11
  <2>1. 1 \in Int /\ 11 \in Int
    OBVIOUS
  <2>2. Cardinality(1 .. 11) = IF 1 > 11 THEN 0 ELSE 11 - 1 + 1
    BY <2>1, FS_Interval, Zenon
  <2>3. QED
    BY <1>1, <2>2 DEF LastStep
<1>3. \A s \in 2 .. 11 : Opcode[s] # Opcode[s - 1]
  <2>1. /\ Opcode[1] = "COMPOSITION_DATA" /\ Opcode[2] = "NETWORK_TRANSMIT" /\ Opcode[3] = "APPKEY"
        /\ Opcode[4] = "MODEL_APP" /\ Opcode[5] = "MODEL_PUBLICATION" /\ Opcode[6] = "MODEL_APP"
        /\ Opcode[7] = "MODEL_PUBLICATION" /\ Opcode[8] = "MODEL_SUBSCRIPTION"
        /\ Opcode[9] = "MODEL_APP" /\ Opcode[10] = "MODEL_PUBLICATION"
        /\ Opcode[11] = "MODEL_SUBSCRIPTION"
    BY DEF Opcode
  <2>2. ASSUME NEW s \in 2 .. 11 PROVE Opcode[s] # Opcode[s - 1]
    <3>1. \/ s = 2 \/ s = 3 \/ s = 4 \/ s = 5 \/ s = 6 \/ s = 7 \/ s = 8 \/ s = 9 \/ s = 10 \/ s = 11
      OBVIOUS
    <3>2. QED
      BY <2>1, <3>1
  <2>3. QED
    BY <2>2
<1>4. Opcode[1] # Opcode[11]
  BY DEF Opcode
<1>5. QED
  BY <1>1, <1>2, <1>3, <1>4

\* A Provisioner without a network satisfies the invariant.
LEMMA InitProvInv == Init => ProvInv
<1> SUFFICES ASSUME Init PROVE ProvInv
  OBVIOUS
<1> USE ProvisionerAssumption
<1>1. NoLink.dev = NoDevice /\ NoLink.stage = "closing" /\ NoLink.addr = 0
  BY DEF NoLink
<1>2. header \in Headers /\ header.next_address = PROV_ELM_ADDRESS + OwnElements /\ header.nb_prov = 0
  BY DEF Init, FirstHeader, FirstKey, Headers, PROV_ELM_ADDRESS
<1>3. Typed
  BY <1>1, <1>2 DEF Init, Typed, NoNode, Node, NoLink, Stages, NoRequest, NoAnswer
<1>4. Asking /\ Seeking
  BY DEF Init, Asking, Seeking, Quiet
<1>5. Linked
  BY <1>1 DEF Init, Linked, Underway
<1>6. HeaderRecord \in Record
  BY DEF HeaderRecord, Record
<1>7. Stored
  BY <1>2, <1>6 DEF Init, Stored
<1>8. Placed /\ Disjoint
  BY <1>2 DEF Init, Placed, Disjoint, Provisioned, PROV_ELM_ADDRESS
<1>9. QED
  BY <1>3, <1>4, <1>5, <1>7, <1>8 DEF ProvInv

-----------------------------------------------------------------------------
\* Steps that do not take part in a configuration
Unconcerned ==
  \/ RequestScan \/ RequestedState \/ RequestStop
  \/ \E d \in Device : UnprovReceived(d)
  \/ LinkEstablished \/ CapsReceived \/ StaticRequest
  \/ DeviceComplete \/ ProvComplete \/ Abort
  \/ WriteRecord \/ WriteDsm

\* They leave the requests and the answers alone.
LEMMA UnconcernedFrame == Unconcerned => UNCHANGED <<config_step, request, answer, stalled>>
BY DEF Unconcerned, RequestScan, RequestedState, RequestStop,
       StopScan, StopTest, StopStore, UnprovReceived, LinkEstablished,
       CapsReceived, StaticRequest, DeviceComplete, ProvComplete, Abort, WriteRecord, WriteDsm,
       ram_vars, disk_vars, net_vars, env_vars, key_vars

\* An answer that is expected is not followed by a request already.
LEMMA ExpectedIsLast ==
  ASSUME Asking, answer # NoAnswer, IsExpected
  PROVE  request = NoRequest /\ config_step \in 1 .. 11 /\ answer.step = config_step
<1>1. config_step \in 1 .. 11 /\ Opcode[config_step] = Opcode[answer.step]
  BY StepFacts DEF IsExpected
<1>2. answer.step \in 1 .. 11
  BY StepFacts DEF Asking
<1>3. ASSUME request # NoRequest PROVE FALSE
  <2>1. answer.step = config_step - 1 \/ (config_step = 1 /\ answer.step = 11)
    BY <1>3, StepFacts DEF Asking
  <2>2. CASE answer.step = config_step - 1
    <3>1. config_step \in 2 .. 11
      BY <1>1, <1>2, <2>2
    <3>2. QED
      BY <1>1, <2>2, <3>1, StepFacts
  <2>3. CASE config_step = 1 /\ answer.step = 11
    BY <1>1, <2>3, StepFacts
  <2>4. QED
    BY <2>1, <2>2, <2>3
<1>4. QED
  BY <1>1, <1>3 DEF Asking

\* The configuration of a node starts with the request of the first step, or
\* is refused.
LEMMA StartFrame ==
  ASSUME NEW addr, NEW handle, NodeConfigStart(addr, handle)
  PROVE  \/ UNCHANGED <<config_step, request>>
         \/ /\ config_step = 0 /\ config_step' = 1
            /\ request' # NoRequest /\ request'.step = 1
BY DEF NodeConfigStart, Request, NoRequest

\* Every step keeps the requests and answers in order (config_client_msg_handler).
LEMMA AskingKept ==
  ASSUME Typed, Asking, Next
  PROVE  Asking'
<1>1. NoRequest.step = 0 /\ NoAnswer.step = 0
  BY DEF NoRequest, NoAnswer
<1>2. config_step \in {0} \cup 1 .. 11 /\ Steps = 1 .. 11 /\ LastStep = 11
  BY StepFacts DEF Typed
<1>3. CASE Unconcerned
  BY <1>3, UnconcernedFrame DEF Asking
<1>4. CASE LinkClosed
  <2>1. answer' = answer
    BY <1>4 DEF LinkClosed
  <2>2. CASE UNCHANGED <<config_step, request>>
    BY <2>1, <2>2 DEF Asking
  <2>3. CASE config_step = 0 /\ config_step' = 1 /\ request' # NoRequest /\ request'.step = 1
    BY <1>2, <2>1, <2>3 DEF Asking
  <2>4. QED
    BY <1>4, <2>2, <2>3, StartFrame DEF LinkClosed
<1>5. ASSUME NEW d \in Device, NodeAnswers(d) PROVE Asking'
  <2>1. request # NoRequest /\ request' = NoRequest /\ config_step' = config_step
        /\ answer'.step = request.step
    BY <1>5 DEF NodeAnswers, ram_vars
  <2>2. config_step \in Steps /\ request.step = config_step
    BY <2>1 DEF Asking
  <2>3. QED
    BY <1>2, <2>1, <2>2 DEF Asking
<1>6. CASE NextStep
  <2>1. request = NoRequest /\ config_step \in 1 .. 11 /\ answer.step = config_step
    BY <1>6, ExpectedIsLast DEF NextStep
  <2>2. answer' = NoAnswer \/ answer' = answer
    BY <1>6 DEF NextStep, AnswerStays
  <2>3. CASE UNCHANGED <<config_step, request>>
    BY <2>2, <2>3 DEF Asking
  <2>4. CASE config_step' = config_step + 1 /\ request' = Request(server, config_step + 1, elm_address)
    <3>1. config_step' \in 2 .. 11
      BY <1>2, <1>6, <2>1, <2>4 DEF NextStep
    <3>2. request'.step = config_step'
      BY <2>4 DEF Request
    <3>3. config_step' - 1 = config_step
      BY <2>1, <2>4
    <3>4. request' # NoRequest
      BY <1>1, <3>1, <3>2
    <3>5. answer' # NoAnswer => answer'.step = config_step
      BY <2>1, <2>2
    <3>6. config_step' \in Steps /\ config_step' # 0 /\ config_step \in Steps
      BY <1>2, <2>1, <3>1
    <3>7. QED
      BY <3>2, <3>3, <3>4, <3>5, <3>6 DEF Asking
  <2>5. QED
    BY <1>6, <2>3, <2>4 DEF NextStep
<1>7. CASE NodeConfigSuccess
  <2>1. request = NoRequest /\ config_step \in 1 .. 11 /\ answer.step = config_step
    BY <1>7, ExpectedIsLast DEF NodeConfigSuccess
  <2>2. /\ answer' = NoAnswer \/ answer' = answer
        /\ request' = request /\ config_step = LastStep
        /\ config_step' = 0 \/ config_step' = config_step
    BY <1>7 DEF NodeConfigSuccess, AnswerStays
  <2>3. QED
    BY <1>2, <2>1, <2>2 DEF Asking
<1>8. CASE UnexpectedAnswer \/ RequestTimesOut
  <2>1. answer' = NoAnswer /\ config_step' = config_step /\ (request' = request \/ request' = NoRequest)
    BY <1>8 DEF UnexpectedAnswer, RequestTimesOut, ram_vars
  <2>2. QED
    BY <2>1 DEF Asking
<1>9. CASE Reset
  <2>1. request' = NoRequest /\ answer' = NoAnswer
    BY <1>9 DEF Reset
  <2>2. QED
    BY <2>1 DEF Asking
<1>10. QED
  BY <1>3, <1>4, <1>5, <1>6, <1>7, <1>8, <1>9 DEF Next, Unconcerned

\* No configuration ends while a device is sought: requested when nothing goes on,
\* scanning only starts again at the end of one.
LEMMA SeekingKept ==
  ASSUME Orderly, Typed, Asking, Seeking, Linked, Next
  PROVE  Seeking'
<1>1. CASE Unconcerned
  <2>1. UNCHANGED <<config_step, request, answer, stalled>> /\ Quiet' = Quiet
    BY <1>1, UnconcernedFrame DEF Quiet
  <2>2. CASE RequestScan
    <3>1. prov_state = "IDLE" /\ link = NoLink /\ (config_step = 0 \/ stalled)
      BY <2>2 DEF RequestScan, Orderly
    <3>2. link' = link /\ prov_state' = prov_state /\ thread' \notin {"stop", "stopped"}
      BY <2>2 DEF RequestScan, net_vars
    <3>3. Quiet
      BY <3>1 DEF Seeking, Scans, Quiet
    <3>4. QED
      BY <2>1, <3>1, <3>2, <3>3 DEF Seeking, Scans
  <2>3. CASE RequestedState
    <3>1. thread = "state" /\ thread' = "idle" /\ link' = link
      BY <2>3 DEF RequestedState, net_vars
    <3>2. QED
      BY <2>1, <3>1 DEF Seeking, Scans
  <2>4. CASE RequestStop
    <3>1. CASE StopScan
      <4>1. /\ link = NoLink /\ link' = link /\ (config_step = 0 \/ stalled)
            /\ thread' = "stop" /\ ~scanning' /\ prov_state' = prov_state
        BY <3>1 DEF StopScan, Orderly, net_vars
      <4>2. Quiet
        BY <4>1 DEF Seeking, Scans, Quiet
      <4>3. QED
        BY <2>1, <4>1, <4>2 DEF Seeking, Scans
    <3>2. CASE StopTest
      <4>1. /\ thread = "stop" /\ thread' \in {"idle", "stopped"} /\ link' = link
            /\ UNCHANGED <<prov_state, scanning>>
        BY <3>2 DEF StopTest, net_vars
      <4>2. QED
        BY <2>1, <4>1 DEF Seeking, Scans
    <3>3. CASE StopStore
      <4>1. thread = "stopped" /\ thread' = "idle" /\ link' = link /\ prov_state' = "IDLE"
        BY <3>3 DEF StopStore, net_vars
      <4>2. QED
        BY <2>1, <4>1 DEF Seeking, Scans
    <3>4. QED
      BY <2>4, <3>1, <3>2, <3>3 DEF RequestStop
  <2>5. CASE \E d \in Device : UnprovReceived(d)
    <3>1. prov_state = "SCANNING" /\ scanning /\ thread' = thread
      BY <2>5 DEF UnprovReceived
    <3>2. ~Scans /\ thread \notin {"state", "stop", "stopped"}
      BY <3>1 DEF Seeking, Scans
    <3>3. QED
      BY <2>1, <3>1, <3>2 DEF Seeking, Scans
  <2>6. CASE LinkEstablished \/ CapsReceived \/ StaticRequest \/ DeviceComplete \/ ProvComplete \/ Abort
    <3>1. link # NoLink /\ thread' = thread
      BY <2>6 DEF LinkEstablished, CapsReceived, StaticRequest, DeviceComplete, ProvComplete, Abort,
                  LinkStep, ram_vars
    <3>2. QED
      BY <2>1, <3>1 DEF Seeking, Scans
  <2>7. CASE WriteRecord \/ WriteDsm
    <3>1. UNCHANGED <<link, thread, scanning, prov_state>>
      BY <2>7 DEF WriteRecord, WriteDsm, ram_vars, net_vars
    <3>2. QED
      BY <2>1, <3>1 DEF Seeking, Scans
  <2>8. QED
    BY <1>1, <2>2, <2>3, <2>4, <2>5, <2>6, <2>7 DEF Unconcerned
<1>2. CASE LinkClosed
  <2>1. /\ link # NoLink /\ link' = NoLink
        /\ UNCHANGED <<thread, answer, stalled>>
    BY <1>2 DEF LinkClosed, env_vars
  <2>2. Quiet /\ ~Scans
    BY <2>1 DEF Seeking, Scans
  <2>3. CASE prov_state = "COMPLETE"
    <3>1. prov_state' = "IDLE" /\ NodeConfigStart(curr_node.first_addr, handles[header.nb_prov - 1])
      BY <1>2, <2>3 DEF LinkClosed
    <3>2. CASE UNCHANGED <<config_step, request>>
      BY <2>1, <2>2, <3>1, <3>2 DEF Seeking, Scans, Quiet
    <3>3. CASE config_step = 0
      BY <2>1, <2>2, <3>1, <3>3 DEF Seeking, Scans
    <3>4. QED
      BY <3>1, <3>2, <3>3, StartFrame
  <2>4. CASE prov_state # "COMPLETE"
    <3>1. UNCHANGED <<config_step, request>>
      BY <1>2, <2>4 DEF LinkClosed
    <3>2. QED
      BY <2>1, <2>2, <3>1 DEF Seeking, Scans, Quiet
  <2>5. QED
    BY <2>3, <2>4
<1>3. ASSUME NEW d \in Device, NodeAnswers(d) PROVE Seeking'
  <2>1. request # NoRequest /\ UNCHANGED <<link, thread, scanning, prov_state, stalled, config_step>>
    BY <1>3 DEF NodeAnswers, ram_vars, env_vars
  <2>2. config_step # 0
    BY <2>1, StepFacts DEF Asking
  <2>3. ~Quiet
    BY <2>1, <2>2 DEF Quiet
  <2>4. QED
    BY <2>1, <2>3 DEF Seeking, Scans
<1>4. CASE NextStep \/ NodeConfigSuccess
  <2>1. answer # NoAnswer /\ IsExpected /\ UNCHANGED <<link, thread, stalled>>
    BY <1>4 DEF NextStep, NodeConfigSuccess, env_vars
  <2>2. config_step # 0
    BY <2>1, ExpectedIsLast
  <2>3. ~Quiet
    BY <2>1, <2>2 DEF Quiet
  <2>4. CASE prov_state' = prov_state
    BY <2>1, <2>3, <2>4 DEF Seeking, Scans
  <2>5. CASE prov_state' # prov_state
    <3>1. config_step' = 0
      BY <1>4, <2>5 DEF NextStep, NodeConfigSuccess
    <3>2. QED
      BY <2>1, <2>3, <3>1 DEF Seeking, Scans, Quiet
  <2>6. QED
    BY <2>4, <2>5
<1>5. CASE UnexpectedAnswer
  <2>1. answer' = NoAnswer /\ UNCHANGED <<config_step, request, link, thread, scanning, prov_state, stalled>>
    BY <1>5 DEF UnexpectedAnswer, ram_vars, env_vars
  <2>2. Quiet => Quiet'
    BY <2>1 DEF Quiet
  <2>3. QED
    BY <2>1, <2>2 DEF Seeking, Scans
<1>6. CASE RequestTimesOut
  <2>1. /\ request' = NoRequest /\ answer' = NoAnswer
        /\ UNCHANGED <<config_step, link, thread, scanning, prov_state>>
        /\ request # NoRequest \/ (answer # NoAnswer /\ answer.step = config_step)
    BY <1>6 DEF RequestTimesOut, ram_vars
  <2>2. config_step # 0
    BY <2>1, StepFacts DEF Asking
  <2>3. QED
    BY <2>1, <2>2 DEF Seeking, Scans, Quiet
<1>7. CASE Reset
  <2>1. /\ link' = NoLink /\ thread' = "idle" /\ prov_state' = "IDLE" /\ stalled' = FALSE
    BY <1>7 DEF Reset
  <2>2. QED
    BY <2>1 DEF Seeking, Scans
<1>8. QED
  BY <1>1, <1>2, <1>3, <1>4, <1>5, <1>6, <1>7 DEF Next, Unconcerned

-----------------------------------------------------------------------------
\* Steps of a configuration, with the writing of what is stored
Configures ==
  \/ \E d \in Device : NodeAnswers(d)
  \/ NextStep \/ NodeConfigSuccess \/ UnexpectedAnswer \/ RequestTimesOut
  \/ WriteRecord \/ WriteDsm

\* None ends while a device is being provisioned.
LEMMA CalmFrame ==
  ASSUME Orderly, Asking, Seeking, Configures \/ RequestScan \/ RequestedState \/ RequestStop
  PROVE  /\ UNCHANGED <<header, curr_node, dev_addr, link, dsm, resets>>
         /\ Underway /\ prov_state = "PROVISIONING" => prov_state' = prov_state
<1>1. CASE RequestScan \/ RequestStop
  <2>1. CASE StopStore
    <3>1. ~Underway
      BY <2>1 DEF Seeking, Scans, Underway, StopStore
    <3>2. QED
      BY <2>1, <3>1 DEF StopStore, net_vars, env_vars
  <2>2. QED
    BY <1>1, <2>1 DEF RequestScan, RequestStop, StopScan, StopTest, net_vars, env_vars
<1>2. CASE RequestedState
  <2>1. ~Underway
    BY <1>2 DEF Seeking, Scans, Underway, RequestedState
  <2>2. QED
    BY <1>2, <2>1 DEF RequestedState, net_vars, env_vars
<1>3. CASE NodeConfigSuccess
  <2>1. config_step # 0 /\ answer # NoAnswer
    BY <1>3, ExpectedIsLast DEF NodeConfigSuccess
  <2>2. ~Underway
    BY <2>1 DEF Seeking, Scans, Underway, Quiet
  <2>3. QED
    BY <1>3, <2>2 DEF NodeConfigSuccess, env_vars
<1>4. CASE Configures /\ ~NodeConfigSuccess
  BY <1>4 DEF Configures, NodeAnswers, NextStep, UnexpectedAnswer, RequestTimesOut,
              WriteRecord, WriteDsm, ram_vars, net_vars, env_vars
<1>5. QED
  BY <1>1, <1>2, <1>3, <1>4

\* What relates addresses to the header and to the link does not depend on more.
LEMMA CalmKeeps ==
  ASSUME Linked, Placed, Disjoint,
         UNCHANGED <<header, curr_node, dev_addr, link>>,
         Underway /\ prov_state = "PROVISIONING" => prov_state' = prov_state
  PROVE  Linked' /\ Placed' /\ Disjoint'
<1>1. Underway' = Underway
  BY DEF Underway
<1>2. Linked'
  BY <1>1 DEF Linked
<1>3. Placed' /\ Disjoint'
  BY <1>1 DEF Placed, Disjoint, Provisioned
<1>4. QED
  BY <1>2, <1>3

\* A link is opened to a device that has no address.
LEMMA UnprovReceivedKeeps ==
  ASSUME Typed, Linked, Placed, Disjoint, NEW d \in Device, UnprovReceived(d)
  PROVE  Linked' /\ Placed' /\ Disjoint'
<1> USE ProvisionerAssumption
<1>1. ~Underway /\ UNCHANGED <<header, curr_node, dev_addr>> /\ dev_addr[d] = 0
  BY DEF UnprovReceived, Linked, Listening
<1>2. CASE link = NoLink
  <2>1. /\ link' = [dev |-> d, stage |-> "opening", addr |-> header.next_address]
        /\ prov_state' = "PROVISIONING"
    BY <1>2 DEF UnprovReceived
  <2>2. link'.dev = d /\ link'.stage = "opening" /\ link'.addr = header.next_address
    BY <2>1
  <2>3. Linked'
    BY <1>1, <2>1, <2>2 DEF Linked
  <2>4. Placed' /\ Disjoint'
    BY <1>1 DEF Placed, Disjoint, Provisioned
  <2>5. QED
    BY <2>3, <2>4
<1>3. CASE link # NoLink
  <2>1. UNCHANGED <<link, prov_state>>
    BY <1>3 DEF UnprovReceived
  <2>2. QED
    BY <1>1, <2>1, CalmKeeps
<1>4. QED
  BY <1>2, <1>3

\* What a step of a link leaves alone
LEMMA LinkStepFrame ==
  ASSUME Typed, NEW from \in Stages, NEW to \in Stages, LinkStep(from, to)
  PROVE  /\ link.dev \in Device /\ link'.dev = link.dev /\ link' # NoLink
         /\ link.stage = from /\ link'.stage = to /\ link'.addr = link.addr /\ link # NoLink
         /\ link' \in [dev : Device \cup {NoDevice}, stage : Stages, addr : Nat]
<1>1. link \in [dev : Device \cup {NoDevice}, stage : Stages, addr : Nat]
  BY DEF Typed
<1>2. link' = [link EXCEPT !.stage = to] /\ link.stage = from /\ link # NoLink
  BY DEF LinkStep
<1>3. link.dev # NoDevice
  BY <1>2 DEF Typed
<1>4. link'.dev = link.dev /\ link'.stage = to /\ link'.addr = link.addr
  BY <1>1, <1>2
<1>5. link' # NoLink
  BY <1>3, <1>4 DEF NoLink
<1>6. QED
  BY <1>1, <1>2, <1>3, <1>4, <1>5

\* The capabilities of the device come before its address is used.
LEMMA StageKeeps ==
  ASSUME Typed, Linked, Placed, Disjoint, LinkEstablished \/ CapsReceived \/ StaticRequest
  PROVE  Linked' /\ Placed' /\ Disjoint' /\ Typed'
<1> USE ProvisionerAssumption
<1>1. \E from, to \in Stages \ {"done", "closing"} :
        /\ LinkStep(from, to)
        /\ to \in {"caps", "auth"} =>
             curr_node'.nb_elm = Elements[link.dev] \/ (from = "caps" /\ curr_node' = curr_node)
  <2>1. CASE LinkEstablished
    BY <2>1 DEF LinkEstablished, Stages
  <2>2. CASE CapsReceived
    <3>1. curr_node' = [curr_node EXCEPT !.nb_elm = Elements[link.dev]] /\ curr_node \in Node
      BY <2>2 DEF CapsReceived, Typed
    <3>2. curr_node'.nb_elm = Elements[link.dev]
      BY <3>1 DEF Node
    <3>3. QED
      BY <2>2, <3>2 DEF CapsReceived, Stages
  <2>3. CASE StaticRequest
    BY <2>3 DEF StaticRequest, Stages, ram_vars
  <2>4. QED
    BY <2>1, <2>2, <2>3
<1>2. PICK from, to \in Stages \ {"done", "closing"} :
        /\ LinkStep(from, to)
        /\ to \in {"caps", "auth"} =>
             curr_node'.nb_elm = Elements[link.dev] \/ (from = "caps" /\ curr_node' = curr_node)
  BY <1>1
<1>3. UNCHANGED <<header, dev_addr, prov_state, config_step, request, answer, resets>>
  BY DEF LinkEstablished, CapsReceived, StaticRequest, ram_vars, env_vars
<1>4. /\ link.dev \in Device /\ link'.dev = link.dev /\ link' # NoLink /\ link # NoLink
      /\ link.stage = from /\ link'.stage = to /\ link'.addr = link.addr
      /\ link' \in [dev : Device \cup {NoDevice}, stage : Stages, addr : Nat]
  BY <1>2, LinkStepFrame
<1>5. Underway /\ Underway'
  BY <1>4 DEF Underway
<1>6. Linked'
  BY <1>2, <1>3, <1>4, <1>5 DEF Linked
<1>7. Placed' /\ Disjoint'
  BY <1>3, <1>4, <1>5 DEF Placed, Disjoint, Provisioned
<1>8. Typed'
  <2>1. curr_node' \in Node
    BY <1>4 DEF LinkEstablished, CapsReceived, StaticRequest, Typed, Node, ram_vars
  <2>2. link'.dev # NoDevice
    BY <1>4
  <2>3. QED
    BY <1>3, <1>4, <2>1, <2>2 DEF Typed
<1>9. QED
  BY <1>6, <1>7, <1>8

\* The device takes the next address, which is above all others.
LEMMA DeviceCompleteKeeps ==
  ASSUME Typed, Linked, Placed, Disjoint, DeviceComplete
  PROVE  Linked' /\ Placed' /\ Disjoint' /\ Typed'
<1> USE ProvisionerAssumption
<1>1. LinkStep("auth", "done") /\ "auth" \in Stages /\ "done" \in Stages
  BY DEF DeviceComplete, Stages
<1>2. /\ link.dev \in Device /\ link'.dev = link.dev /\ link' # NoLink /\ link # NoLink
      /\ link.stage = "auth" /\ link'.stage = "done" /\ link'.addr = link.addr
      /\ link' \in [dev : Device \cup {NoDevice}, stage : Stages, addr : Nat]
  BY <1>1, LinkStepFrame
<1>3. /\ dev_addr' = [dev_addr EXCEPT ![link.dev] = link.addr]
      /\ UNCHANGED <<header, curr_node, prov_state, config_step, request, answer, resets>>
  BY DEF DeviceComplete, ram_vars, env_vars
<1>4. /\ prov_state = "PROVISIONING" /\ link.addr = header.next_address
      /\ dev_addr[link.dev] = 0 /\ curr_node.nb_elm = Elements[link.dev]
  BY <1>2 DEF Linked, Underway
<1>5. Underway /\ Underway'
  BY <1>2 DEF Underway
<1>6. /\ dev_addr' \in [Device -> Nat] /\ dev_addr \in [Device -> Nat]
      /\ dev_addr'[link.dev] = header.next_address
      /\ \A e \in Device : e # link.dev => dev_addr'[e] = dev_addr[e]
  BY <1>2, <1>3, <1>4 DEF Typed
<1>7. Linked'
  BY <1>2, <1>3, <1>4, <1>5, <1>6 DEF Linked
<1>8. Placed'
  BY <1>2, <1>3, <1>5, <1>6 DEF Placed, Provisioned
<1>9. Disjoint'
  <2>1. ASSUME NEW d \in Device, NEW e \in Device, d # e,
               dev_addr'[d] # 0, dev_addr'[e] # 0
        PROVE  \/ dev_addr'[d] + Elements[d] <= dev_addr'[e]
               \/ dev_addr'[e] + Elements[e] <= dev_addr'[d]
    <3>1. CASE d = link.dev
      <4>1. dev_addr[e] + Elements[e] <= header.next_address
        BY <1>6, <2>1, <3>1 DEF Placed, Provisioned
      <4>2. QED
        BY <1>6, <2>1, <3>1, <4>1
    <3>2. CASE e = link.dev
      <4>1. dev_addr[d] + Elements[d] <= header.next_address
        BY <1>6, <2>1, <3>2 DEF Placed, Provisioned
      <4>2. QED
        BY <1>6, <2>1, <3>2, <4>1
    <3>3. CASE d # link.dev /\ e # link.dev
      BY <1>6, <2>1, <3>3 DEF Disjoint, Provisioned
    <3>4. QED
      BY <3>1, <3>2, <3>3
  <2>2. QED
    BY <2>1 DEF Disjoint, Provisioned
<1>10. Typed'
  BY <1>2, <1>3, <1>6 DEF Typed
<1>11. QED
  BY <1>7, <1>8, <1>9, <1>10

\* The header follows the device, which is the last to be above its next address.
LEMMA ProvCompleteKeeps ==
  ASSUME Typed, Linked, Stored, Placed, Disjoint, ProvComplete
  PROVE  Linked' /\ Stored' /\ Placed' /\ Disjoint' /\ Typed'
<1> USE ProvisionerAssumption
<1>1. LinkStep("done", "closing") /\ "done" \in Stages /\ "closing" \in Stages
  BY DEF ProvComplete, Stages
<1>2. /\ link.dev \in Device /\ link'.dev = link.dev /\ link' # NoLink /\ link # NoLink
      /\ link.stage = "done" /\ link'.stage = "closing" /\ link'.addr = link.addr
      /\ link' \in [dev : Device \cup {NoDevice}, stage : Stages, addr : Nat]
  BY <1>1, LinkStepFrame
<1>3. Underway /\ ~Underway'
  BY <1>2 DEF Underway
<1>4. /\ prov_state = "PROVISIONING" /\ link.addr = header.next_address
      /\ dev_addr[link.dev] = header.next_address /\ curr_node.nb_elm = Elements[link.dev]
  BY <1>2, <1>3 DEF Linked
<1>5. UNCHANGED <<dev_addr, flash, config_step, request, answer, resets>>
  BY DEF ProvComplete, env_vars
<1> DEFINE new_header == [header EXCEPT !.nb_prov = @ + 1,
                            !.next_address = NextAddress(link.addr, curr_node.nb_elm)]
           values == [r \in {HeaderRecord, NodeRecord(header.nb_prov)} |->
                        IF r = HeaderRecord THEN new_header ELSE CompletedNode]
<1>6. /\ header' = new_header /\ curr_node' = CompletedNode
      /\ EntrySet(values) /\ dsm' = dsm \cup {link.addr}
  BY <1>4 DEF ProvComplete
<1>7. /\ header' \in Headers /\ header \in Headers
      /\ header'.next_address = header.next_address + Elements[link.dev]
      /\ header'.nb_prov = header.nb_prov + 1
  <2>1. header \in Headers
    BY DEF Typed
  <2>2. Elements[link.dev] \in Nat /\ header.next_address \in Nat
    BY <1>2, <2>1 DEF Headers
  <2>3. NextAddress(link.addr, curr_node.nb_elm) = header.next_address + Elements[link.dev]
    BY <1>4 DEF NextAddress
  <2>4. PICK next \in Nat : next = header.next_address + Elements[link.dev]
    BY <2>2
  <2>5. header' = [header EXCEPT !.nb_prov = header.nb_prov + 1, !.next_address = next]
    BY <1>6, <2>3, <2>4
  <2>6. header.nb_prov + 1 \in Nat
    BY <2>1 DEF Headers
  <2>7. QED
    BY <2>1, <2>4, <2>5, <2>6 DEF Headers
<1>8. Linked'
  BY <1>3 DEF Linked
<1>9. Stored'
  <2>1. HeaderRecord \in Record /\ HeaderRecord \in DOMAIN values /\ values[HeaderRecord] = new_header
    BY DEF HeaderRecord, Record
  <2>2. live'[HeaderRecord] = header' /\ HeaderRecord \in dirty'
    BY <1>6, <2>1 DEF EntrySet
  <2>3. QED
    BY <1>5, <1>6, <1>7, <2>2 DEF Stored
<1>10. Placed'
  <2>1. /\ header.next_address \in Nat /\ header.nb_prov \in Nat
        /\ dev_addr \in [Device -> Nat] /\ Elements[link.dev] \in Nat
    BY <1>2, <1>7 DEF Typed, Headers
  <2>2. ASSUME NEW d \in Device, dev_addr[d] # 0
        PROVE  /\ dev_addr[d] >= PROV_ELM_ADDRESS + OwnElements
               /\ dev_addr[d] + Elements[d] <= header'.next_address
    <3>1. dev_addr[d] >= PROV_ELM_ADDRESS + OwnElements
      BY <2>2 DEF Placed, Provisioned
    <3>2. CASE d = link.dev
      BY <1>4, <1>7, <2>1, <3>1, <3>2
    <3>3. CASE d # link.dev
      <4>1. dev_addr[d] + Elements[d] <= header.next_address
        BY <2>2, <3>3 DEF Placed, Provisioned
      <4>2. QED
        BY <1>7, <2>1, <3>1, <4>1
    <3>4. QED
      BY <3>2, <3>3
  <2>3. header'.nb_prov > 0 /\ header'.next_address >= PROV_ELM_ADDRESS + OwnElements
    BY <1>7, <2>1 DEF Placed, PROV_ELM_ADDRESS
  <2>4. QED
    BY <1>5, <2>2, <2>3 DEF Placed, Provisioned
<1>11. Disjoint'
  BY <1>5 DEF Disjoint, Provisioned
<1>12. Typed'
  <2>1. curr_node' \in Node
    BY <1>2, <1>6 DEF Typed, CompletedNode, Node
  <2>2. QED
    BY <1>2, <1>5, <1>7, <2>1 DEF Typed
<1>13. QED
  BY <1>8, <1>9, <1>10, <1>11, <1>12

\* A link that is lost, or closed, was not that of a device with an address
\* the header does not count.
LEMMA ClosingKeeps ==
  ASSUME Orderly, Typed, Linked, Placed, Disjoint, Abort \/ LinkClosed
  PROVE  Linked' /\ Placed' /\ Disjoint' /\ Typed'
<1> USE ProvisionerAssumption
<1>1. UNCHANGED <<header, curr_node, dev_addr, resets>>
  BY DEF Abort, LinkClosed, ram_vars, env_vars
<1>2. ASSUME Underway PROVE dev_addr[link.dev] = 0
  <2>1. Abort /\ link.stage # "done"
    BY <1>2 DEF Abort, LinkClosed, Underway, Orderly
  <2>2. QED
    BY <1>2, <2>1 DEF Linked
<1>3. ~Underway' /\ link' \in [dev : Device \cup {NoDevice}, stage : Stages, addr : Nat]
      /\ (link'.dev = NoDevice => link' = NoLink)
  <2>1. CASE Abort
    <3>1. link' = [link EXCEPT !.stage = "closing"] /\ link # NoLink
      BY <2>1 DEF Abort
    <3>2. link \in [dev : Device \cup {NoDevice}, stage : Stages, addr : Nat] /\ link.dev # NoDevice
      BY <3>1 DEF Typed
    <3>3. link'.dev = link.dev /\ link'.stage = "closing"
      BY <3>1, <3>2
    <3>4. QED
      BY <3>1, <3>2, <3>3 DEF Underway, Stages
  <2>2. CASE LinkClosed
    BY <2>2 DEF LinkClosed, Underway, NoLink, Stages
  <2>3. QED
    BY <2>1, <2>2
<1>4. Linked'
  BY <1>3 DEF Linked
<1>5. Placed' /\ Disjoint'
  BY <1>1, <1>2, <1>3 DEF Placed, Disjoint, Provisioned
<1>6. config_step' \in {0} \cup Steps /\ request'.step \in {0} \cup Steps /\ answer' = answer
  <2>1. CASE Abort
    BY <2>1 DEF Abort, ram_vars, Typed
  <2>2. CASE LinkClosed
    <3>1. answer' = answer
      BY <2>2 DEF LinkClosed
    <3>2. CASE UNCHANGED <<config_step, request>>
      BY <3>1, <3>2 DEF Typed
    <3>3. CASE config_step' = 1 /\ request'.step = 1
      BY <3>1, <3>3, StepFacts
    <3>4. QED
      BY <2>2, <3>1, <3>2, <3>3, StartFrame DEF LinkClosed
  <2>3. QED
    BY <2>1, <2>2
<1>7. Typed'
  BY <1>1, <1>3, <1>6 DEF Typed
<1>8. QED
  BY <1>4, <1>5, <1>7

\* A Provisioner that is settled finds the header it has left; a blank one has
\* no node.
LEMMA ResetKeeps ==
  ASSUME Orderly, Typed, Stored, Placed, Disjoint, Reset
  PROVE  Linked' /\ Stored' /\ Placed' /\ Disjoint' /\ Typed'
<1> USE ProvisionerAssumption
<1>1. /\ link' = NoLink /\ request' = NoRequest /\ answer' = NoAnswer /\ config_step' = 0
      /\ curr_node' = NoNode /\ resets' = resets + 1 /\ UNCHANGED <<flash, flash_dsm, dev_addr>>
      /\ Settled \/ Blank
  BY DEF Reset, Orderly
<1>2. ~Underway /\ ~Underway'
  BY <1>1 DEF Underway, Settled, Blank
<1>3. Linked' /\ Disjoint'
  BY <1>1, <1>2 DEF Linked, Disjoint, Provisioned
<1>4. HeaderRecord \in Record
  BY DEF HeaderRecord, Record
<1>5. header' \in Headers /\ Stored' /\ Placed'
  <2>1. CASE PROV_ELM_ADDRESS \in flash_dsm
    <3>1. Fetch /\ dirty = {} /\ dsm = flash_dsm
      BY <1>1, <2>1 DEF Reset, Settled, Blank
    <3>2. /\ flash[HeaderRecord] \in Headers
          /\ flash[HeaderRecord].next_address = header.next_address
          /\ flash[HeaderRecord].nb_prov = header.nb_prov
      BY <3>1 DEF Stored
    <3>3. flash[HeaderRecord] # Absent
      BY <3>2 DEF Headers
    <3>4. header' = flash[HeaderRecord] /\ live' = flash /\ dirty' = {} /\ dsm' = flash_dsm
      BY <3>1, <3>3 DEF Fetch, FetchContext
    <3>5. Stored'
      BY <1>1, <2>1, <3>2, <3>4 DEF Stored
    <3>6. Placed'
      BY <1>1, <1>2, <3>2, <3>4 DEF Placed, Provisioned
    <3>7. QED
      BY <3>2, <3>4, <3>5, <3>6
  <2>2. CASE PROV_ELM_ADDRESS \notin flash_dsm
    <3>1. Generate /\ header.nb_prov = 0
      BY <1>1, <2>2 DEF Reset, Settled, Blank, Stored
    <3>2. appkey' \in Nat
      BY <1>1, <3>1 DEF Generate, Typed, FirstKey
    <3>3. /\ header' = FirstHeader(appkey') /\ live' = [flash EXCEPT ![HeaderRecord] = header']
          /\ dirty' = {HeaderRecord} /\ dsm' = {PROV_ELM_ADDRESS}
      BY <3>1 DEF Generate
    <3>4. header' \in Headers /\ header'.next_address = PROV_ELM_ADDRESS + OwnElements
      BY <3>2, <3>3 DEF FirstHeader, Headers, PROV_ELM_ADDRESS
    <3>5. live'[HeaderRecord] = header'
      BY <1>4, <3>3 DEF Stored
    <3>6. Stored'
      BY <1>1, <3>3, <3>4, <3>5 DEF Stored
    <3>7. \A d \in Device : dev_addr[d] = 0
      BY <1>2, <3>1 DEF Placed, Provisioned
    <3>8. Placed'
      BY <1>1, <3>4, <3>7 DEF Placed, Provisioned, PROV_ELM_ADDRESS
    <3>9. QED
      BY <3>4, <3>6, <3>8
  <2>3. QED
    BY <2>1, <2>2
<1>6. Typed'
  BY <1>1, <1>5 DEF Typed, NoNode, Node, NoLink, Stages, NoRequest, NoAnswer
<1>7. QED
  BY <1>3, <1>5, <1>6

-----------------------------------------------------------------------------
\* What is stored: every step but the completion and a reset keeps the next
\* address, and a write only makes the flash agree.
LEMMA StoredKept ==
  ASSUME Stored, header \in Headers, Next, ~ProvComplete, ~Reset
  PROVE  Stored'
<1> USE ProvisionerAssumption
<1>1. CASE WriteRecord
  <2>1. PICK batch \in Batches(dirty) :
          /\ flash' = [r \in Record |-> IF r \in batch THEN live[r] ELSE flash[r]]
          /\ dirty' = dirty \ batch
          /\ UNCHANGED <<header, live, dsm>>
    BY <1>1 DEF WriteRecord, ram_vars
  <2>2. HeaderRecord \in Record
    BY DEF HeaderRecord, Record
  <2>3. DOMAIN flash' = Record
    BY <2>1
  <2>4. HeaderRecord \notin dirty' => flash'[HeaderRecord] = live[HeaderRecord]
    BY <2>1, <2>2 DEF Stored
  <2>5. QED
    BY <2>1, <2>3, <2>4 DEF Stored
<1>2. CASE NodeConfigSuccess
  <2>1. UNCHANGED <<header, flash, dsm>>
    BY <1>2 DEF NodeConfigSuccess
  <2>2. CASE UNCHANGED <<live, dirty>>
    BY <2>1, <2>2 DEF Stored
  <2>3. CASE EntrySet([r \in {HeaderRecord} |-> [live[r] EXCEPT !.nb_conf = @ + 1]])
    <3>1. HeaderRecord \in Record
      BY DEF HeaderRecord, Record
    <3>2. /\ live'[HeaderRecord] = [live[HeaderRecord] EXCEPT !.nb_conf = @ + 1]
          /\ HeaderRecord \in dirty'
      BY <2>3, <3>1 DEF EntrySet
    <3>3. live[HeaderRecord] \in Headers
      BY DEF Stored
    <3>4. /\ live'[HeaderRecord] \in Headers
          /\ live'[HeaderRecord].next_address = live[HeaderRecord].next_address
          /\ live'[HeaderRecord].nb_prov = live[HeaderRecord].nb_prov
      BY <3>2, <3>3 DEF Headers
    <3>5. QED
      BY <2>1, <3>2, <3>4 DEF Stored
  <2>4. QED
    BY <1>2, <2>2, <2>3 DEF NodeConfigSuccess
<1>3. CASE ~WriteRecord /\ ~NodeConfigSuccess
  <2>1. UNCHANGED <<header, live, dirty, flash, dsm>>
    BY <1>3 DEF Next, RequestScan, RequestedState, RequestStop,
                StopScan, StopTest, StopStore, UnprovReceived, LinkEstablished,
                CapsReceived, StaticRequest, DeviceComplete, Abort, LinkClosed, NodeAnswers, NextStep,
                UnexpectedAnswer, RequestTimesOut, WriteDsm, ram_vars, disk_vars
  <2>2. QED
    BY <2>1 DEF Stored
<1>4. QED
  BY <1>1, <1>2, <1>3

\* A step of a configuration keeps the types.
LEMMA CalmTyped ==
  ASSUME Typed, Asking,
         UNCHANGED <<header, curr_node, dev_addr, link, resets>>,
         Configures \/ RequestScan \/ RequestedState \/ RequestStop
  PROVE  Typed'
<1>1. NoRequest.step = 0 /\ NoAnswer.step = 0
  BY DEF NoRequest, NoAnswer
<1>2. config_step \in {0} \cup 1 .. 11 /\ Steps = 1 .. 11 /\ LastStep = 11
  BY StepFacts DEF Typed
<1>3. config_step' \in {0} \cup Steps /\ request'.step \in {0} \cup Steps /\ answer'.step \in {0} \cup Steps
  <2>1. ASSUME NEW d \in Device, NodeAnswers(d) PROVE <1>3
    <3>1. config_step' = config_step /\ request' = NoRequest /\ answer'.step = request.step
      BY <2>1 DEF NodeAnswers, ram_vars
    <3>2. QED
      BY <1>1, <3>1 DEF Typed
  <2>2. CASE NextStep \/ NodeConfigSuccess
    <3>1. answer'.step \in {0} \cup Steps
      BY <1>1, <2>2 DEF NextStep, NodeConfigSuccess, AnswerStays, Typed
    <3>2. CASE UNCHANGED <<config_step, request>>
      BY <3>1, <3>2 DEF Typed
    <3>3. CASE NodeConfigSuccess /\ config_step' = 0 /\ request' = request
      BY <3>1, <3>3 DEF Typed
    <3>4. CASE /\ NextStep /\ config_step' = config_step + 1
               /\ request' = Request(server, config_step + 1, elm_address)
      <4>1. config_step' \in Steps
        BY <1>2, <3>4 DEF NextStep
      <4>2. QED
        BY <3>1, <3>4, <4>1 DEF Request
    <3>5. QED
      BY <2>2, <3>2, <3>3, <3>4 DEF NextStep, NodeConfigSuccess
  <2>3. CASE UnexpectedAnswer \/ RequestTimesOut
    <3>1. config_step' = config_step /\ answer' = NoAnswer /\ (request' = request \/ request' = NoRequest)
      BY <2>3 DEF UnexpectedAnswer, RequestTimesOut, ram_vars
    <3>2. QED
      BY <1>1, <3>1 DEF Typed
  <2>4. CASE RequestScan \/ RequestedState \/ RequestStop \/ WriteRecord \/ WriteDsm
    <3>1. UNCHANGED <<config_step, request, answer>>
      BY <2>4, UnconcernedFrame DEF Unconcerned
    <3>2. QED
      BY <3>1 DEF Typed
  <2>5. QED
    BY <2>1, <2>2, <2>3, <2>4 DEF Configures
<1>4. QED
  BY <1>3 DEF Typed

\* The link that is opened has the type of a link.
LEMMA UnprovReceivedTyped ==
  ASSUME Typed, NEW d \in Device, UnprovReceived(d)
  PROVE  Typed'
<1> USE ProvisionerAssumption
<1>1. UNCHANGED <<header, curr_node, dev_addr, config_step, request, answer, resets>>
  BY DEF UnprovReceived, env_vars
<1>2. header.next_address \in Nat /\ "opening" \in Stages
  BY DEF Typed, Headers, Stages
<1>3. \/ link' = link
      \/ link' = [dev |-> d, stage |-> "opening", addr |-> header.next_address]
  BY DEF UnprovReceived
<1>4. /\ link' \in [dev : Device \cup {NoDevice}, stage : Stages, addr : Nat]
      /\ link'.dev = NoDevice => link' = NoLink
  BY <1>2, <1>3 DEF Typed
<1>5. QED
  BY <1>1, <1>4 DEF Typed

\* Every step keeps the invariant.
LEMMA ProvStepKeeps == Orderly /\ ProvInv /\ [Next]_vars => ProvInv'
<1> SUFFICES ASSUME Orderly, ProvInv, [Next]_vars PROVE ProvInv'
  OBVIOUS
<1>1. Typed /\ Asking /\ Seeking /\ Linked /\ Stored /\ Placed /\ Disjoint /\ header \in Headers
  BY DEF ProvInv, Typed
<1>2. CASE Next
  <2>1. Asking' /\ Seeking'
    BY <1>1, <1>2, AskingKept, SeekingKept
  <2>2. Linked' /\ Placed' /\ Disjoint' /\ Typed'
    <3>1. CASE Configures \/ RequestScan \/ RequestedState \/ RequestStop
      <4>1. /\ UNCHANGED <<header, curr_node, dev_addr, link, resets>>
            /\ Underway /\ prov_state = "PROVISIONING" => prov_state' = prov_state
        BY <1>1, <3>1, CalmFrame
      <4>2. QED
        BY <1>1, <3>1, <4>1, CalmKeeps, CalmTyped
    <3>2. CASE \E d \in Device : UnprovReceived(d)
      BY <1>1, <3>2, UnprovReceivedKeeps, UnprovReceivedTyped
    <3>3. CASE LinkEstablished \/ CapsReceived \/ StaticRequest
      BY <1>1, <3>3, StageKeeps
    <3>4. CASE DeviceComplete
      BY <1>1, <3>4, DeviceCompleteKeeps
    <3>5. CASE ProvComplete
      BY <1>1, <3>5, ProvCompleteKeeps
    <3>6. CASE Abort \/ LinkClosed
      BY <1>1, <3>6, ClosingKeeps
    <3>7. CASE Reset
      BY <1>1, <3>7, ResetKeeps
    <3>8. QED
      BY <1>2, <3>1, <3>2, <3>3, <3>4, <3>5, <3>6, <3>7 DEF Next, Configures
  <2>3. Stored'
    BY <1>1, <1>2, ProvCompleteKeeps, ResetKeeps, StoredKept
  <2>4. QED
    BY <2>1, <2>2, <2>3 DEF ProvInv
<1>3. CASE UNCHANGED vars
  <2>1. UNCHANGED <<header, curr_node, link, dev_addr, resets, config_step, request, answer, stalled,
                    thread, scanning, prov_state, live, dirty, flash, dsm>>
    BY <1>3 DEF vars, ram_vars, disk_vars, net_vars, env_vars
  <2>2. Typed' /\ Asking' /\ Seeking'
    BY <1>1, <2>1 DEF Typed, Asking, Seeking, Scans, Quiet
  <2>3. Linked' /\ Stored' /\ Placed' /\ Disjoint'
    BY <1>1, <2>1 DEF Linked, Underway, Stored, Placed, Disjoint, Provisioned
  <2>4. QED
    BY <2>2, <2>3 DEF ProvInv
<1>4. QED
  BY <1>2, <1>3

\* Ranges of addresses that follow each other do not overlap.
LEMMA ProvInvDistinct == ProvInv => AddressesDistinct
<1> SUFFICES ASSUME ProvInv,
                    NEW d \in Device, Provisioned(d)
             PROVE  /\ Addresses(d) \cap (PROV_ELM_ADDRESS .. PROV_ELM_ADDRESS + OwnElements - 1) = {}
                    /\ \A e \in Device \ {d} : Provisioned(e) => Addresses(d) \cap Addresses(e) = {}
  BY DEF AddressesDistinct
<1> USE ProvisionerAssumption
<1>1. \A e \in Device : dev_addr[e] \in Nat /\ Elements[e] \in Nat
  BY DEF ProvInv, Typed
<1>2. dev_addr[d] >= PROV_ELM_ADDRESS + OwnElements
  BY DEF ProvInv, Placed
<1>3. Addresses(d) \cap (PROV_ELM_ADDRESS .. PROV_ELM_ADDRESS + OwnElements - 1) = {}
  BY <1>1, <1>2 DEF Addresses, PROV_ELM_ADDRESS
<1>4. ASSUME NEW e \in Device \ {d}, Provisioned(e) PROVE Addresses(d) \cap Addresses(e) = {}
  <2>1. \/ dev_addr[d] + Elements[d] <= dev_addr[e]
        \/ dev_addr[e] + Elements[e] <= dev_addr[d]
    BY <1>4 DEF ProvInv, Disjoint
  <2>2. QED
    BY <1>1, <2>1 DEF Addresses
<1>5. QED
  BY <1>3, <1>4

\* Every element in the network has an address of its own: the invariant of
\* prov_on_complete_event and prov_conf_fetch, for any devices and elements,
\* however often links are lost, requests time out and answers are repeated.
THEOREM AddressesStayDistinct == Orderly => (Spec => []AddressesDistinct)
<1> SUFFICES ASSUME Orderly PROVE Spec => []AddressesDistinct
  OBVIOUS
<1>1. Init => ProvInv
  BY InitProvInv
<1>2. ProvInv /\ [Next]_vars => ProvInv'
  BY ProvStepKeeps
<1>3. ProvInv => AddressesDistinct
  BY ProvInvDistinct
<1>4. QED
  BY <1>1, <1>2, <1>3, PTL DEF Spec

-----------------------------------------------------------------------------
\* The application key

Keys == [appkey : Int, bound : SUBSET Model, target : [Model -> {"none", "provisioner", "group"}],
         subscribed : SUBSET LuosModel]

\* The key that is sent is that of the network, and is the one that is stored.
\* Nobody has a key as long as no node was provisioned.
KeyKept ==
  /\ appkey = dsm_appkey /\ header.appkey = appkey /\ live[HeaderRecord].appkey = appkey
  /\ request # NoRequest => request.appkey = appkey /\ header.nb_prov > 0
  /\ prov_state = "COMPLETE" \/ config_step # 0 => header.nb_prov > 0
  /\ dev_conf \in [Device -> Keys]
  /\ \A d \in Device : dev_conf[d].appkey # NoKey => dev_conf[d].appkey = appkey /\ header.nb_prov > 0

\* No device has a key at first.
LEMMA InitKeyKept == Init => KeyKept
<1> SUFFICES ASSUME Init PROVE KeyKept
  OBVIOUS
<1>1. HeaderRecord \in Record
  BY ProvisionerAssumption DEF HeaderRecord, Record
<1>2. live[HeaderRecord].appkey = FirstKey
  BY <1>1 DEF Init, FirstHeader
<1>3. NoConf \in Keys /\ NoConf.appkey = NoKey
  BY DEF NoConf, Keys, NoKey
<1>4. QED
  BY <1>2, <1>3 DEF Init, KeyKept, FirstHeader

\* A request changes the key of a node to that of the request, if at all.
LEMMA AppliedKey ==
  ASSUME NEW conf \in Keys, NEW asked, asked.appkey \in Int, asked.step \in Steps
  PROVE  /\ Applied(conf, asked) \in Keys
         /\ Applied(conf, asked).appkey \in {conf.appkey, asked.appkey}
<1> DEFINE ask == StepRequest(asked.step)
<1>1. /\ ask.model \in Model \/ ask.op \notin {"bind", "publish"}
      /\ ask.model \in LuosModel \/ ask.op # "subscribe"
  <2>1. asked.step \in 1 .. 11
    BY StepFacts
  <2>2. \A s \in 1 .. 11 :
          /\ Transitions[s].model \in Model \/ Transitions[s].op \notin {"bind", "publish"}
          /\ Transitions[s].model \in LuosModel \/ Transitions[s].op # "subscribe"
    BY DEF Transitions, Asks, Model, LuosModel
  <2>3. QED
    BY <2>1, <2>2 DEF StepRequest
<1>2. ask.target \in {"none", "provisioner", "group"}
  <2>1. asked.step \in 1 .. 11
    BY StepFacts
  <2>2. \A s \in 1 .. 11 : Transitions[s].target \in {"none", "provisioner", "group"}
    BY DEF Transitions, Asks
  <2>3. QED
    BY <2>1, <2>2 DEF StepRequest
<1>3. CASE ask.op = "appkey"
  BY <1>3 DEF Applied, Keys
<1>4. CASE ask.op = "bind"
  BY <1>1, <1>4 DEF Applied, Keys
<1>5. CASE ask.op = "publish"
  BY <1>1, <1>2, <1>5 DEF Applied, Keys
<1>6. CASE ask.op = "subscribe"
  BY <1>1, <1>6 DEF Applied, Keys
<1>7. CASE ask.op \notin {"appkey", "bind", "publish", "subscribe"}
  BY <1>7 DEF Applied
<1>8. QED
  BY <1>3, <1>4, <1>5, <1>6, <1>7

\* A node takes the key from a request, if it has none yet.
LEMMA NodeAnswersKeepsKey ==
  ASSUME Typed, Asking, KeyKept, header.nb_prov \in Nat, appkey \in Nat,
         NEW d \in Device, NodeAnswers(d)
  PROVE  KeyKept'
<1>1. /\ UNCHANGED <<appkey, dsm_appkey, live, header, prov_state, config_step>>
      /\ request # NoRequest /\ request' = NoRequest
      /\ \/ dev_conf' = dev_conf
         \/ dev_conf' = [dev_conf EXCEPT ![d] = Applied(@, request)]
  BY DEF NodeAnswers, ram_vars
<1>2. request.appkey = appkey /\ header.nb_prov > 0 /\ request.step \in Steps
  BY <1>1 DEF KeyKept, Asking
<1>3. dev_conf \in [Device -> Keys]
  BY DEF KeyKept
<1>4. /\ Applied(dev_conf[d], request) \in Keys
      /\ Applied(dev_conf[d], request).appkey \in {dev_conf[d].appkey, appkey}
  BY <1>2, <1>3, AppliedKey
<1>5. /\ dev_conf' \in [Device -> Keys]
      /\ \A e \in Device : dev_conf'[e].appkey \in {dev_conf[e].appkey, appkey}
  BY <1>1, <1>3, <1>4
<1>6. QED
  BY <1>1, <1>2, <1>5 DEF KeyKept

\* After a reset the key is the stored one, or a new one that no node has.
LEMMA ResetKeepsKey ==
  ASSUME Orderly, Typed, Stored, KeyKept, Reset
  PROVE  KeyKept'
<1> USE ProvisionerAssumption
<1>1. /\ prov_state' = "IDLE" /\ request' = NoRequest /\ config_step' = 0
      /\ UNCHANGED <<flash, flash_dsm, dev_conf>> /\ (Settled \/ Blank)
  BY DEF Reset, Orderly
<1>2. CASE PROV_ELM_ADDRESS \in flash_dsm
  <2>1. Fetch /\ dirty = {}
    BY <1>1, <1>2 DEF Reset, Settled, Blank
  <2>2. flash[HeaderRecord] = live[HeaderRecord] /\ live[HeaderRecord] \in Headers
        /\ live[HeaderRecord].nb_prov = header.nb_prov
    BY <2>1 DEF Stored
  <2>3. flash[HeaderRecord] # Absent
    BY <2>2 DEF Headers
  <2>4. /\ header' = flash[HeaderRecord] /\ live' = flash /\ dsm_appkey' = dsm_appkey
        /\ appkey' = flash[HeaderRecord].appkey
    BY <2>1, <2>3 DEF Fetch, FetchContext, FetchedKey
  <2>5. /\ appkey' = appkey /\ live'[HeaderRecord].appkey = appkey'
        /\ header'.nb_prov = header.nb_prov /\ header'.appkey = appkey'
    BY <2>2, <2>4 DEF KeyKept
  <2>6. QED
    BY <1>1, <2>4, <2>5 DEF KeyKept
<1>3. CASE PROV_ELM_ADDRESS \notin flash_dsm
  <2>1. Generate /\ header.nb_prov = 0
    BY <1>1, <1>3 DEF Reset, Settled, Blank, Stored
  <2>2. /\ dsm_appkey' = appkey' /\ header' = FirstHeader(appkey')
        /\ live' = [flash EXCEPT ![HeaderRecord] = header']
    BY <2>1 DEF Generate
  <2>3. HeaderRecord \in DOMAIN flash
    BY DEF Stored, HeaderRecord, Record
  <2>4. live'[HeaderRecord].appkey = appkey' /\ header'.appkey = appkey'
    BY <2>2, <2>3 DEF FirstHeader
  <2>5. \A d \in Device : dev_conf[d].appkey = NoKey
    BY <2>1 DEF KeyKept
  <2>6. dev_conf' \in [Device -> Keys]
    BY <1>1 DEF KeyKept
  <2>7. QED
    BY <1>1, <2>2, <2>4, <2>5, <2>6 DEF KeyKept
<1>4. QED
  BY <1>2, <1>3

\* Every step keeps the key.
LEMMA KeyStepKeeps ==
  ASSUME Orderly, ProvInv, KeyKept, [Next]_vars
  PROVE  KeyKept'
<1> USE ProvisionerAssumption
<1>1. /\ Typed /\ Asking /\ Seeking /\ Linked /\ Stored /\ Placed /\ Disjoint
      /\ header \in Headers /\ header.nb_prov \in Nat /\ appkey \in Nat
  BY DEF ProvInv, Typed, Headers, KeyKept
<1>2. HeaderRecord \in Record
  BY DEF HeaderRecord, Record
<1>3. CASE \E d \in Device : NodeAnswers(d)
  BY <1>1, <1>3, NodeAnswersKeepsKey
<1>4. CASE Reset
  BY <1>1, <1>4, ResetKeepsKey
<1>5. CASE ProvComplete
  <2>1. UNCHANGED <<appkey, dsm_appkey, request, dev_conf, config_step>>
    BY <1>5 DEF ProvComplete, key_vars
  <2>2. CASE prov_state # "PROVISIONING"
    BY <1>5, <2>1, <2>2 DEF ProvComplete, KeyKept
  <2>3. CASE prov_state = "PROVISIONING"
    <3> DEFINE new_header == [header EXCEPT !.nb_prov = @ + 1,
                                !.next_address = NextAddress(link.addr, curr_node.nb_elm)]
               values == [r \in {HeaderRecord, NodeRecord(header.nb_prov)} |->
                            IF r = HeaderRecord THEN new_header ELSE CompletedNode]
    <3>1. header' = new_header /\ EntrySet(values)
      BY <1>5, <2>3 DEF ProvComplete
    <3>2. live'[HeaderRecord] = header'
      BY <1>2, <3>1 DEF EntrySet
    <3>3. header'.nb_prov = header.nb_prov + 1 /\ header'.appkey = header.appkey
      BY <1>1, <3>1 DEF Headers
    <3>4. QED
      BY <1>1, <2>1, <3>2, <3>3 DEF KeyKept
  <2>4. QED
    BY <2>2, <2>3
<1>6. CASE LinkClosed
  <2>1. UNCHANGED <<appkey, dsm_appkey, live, header, dev_conf>>
    BY <1>6 DEF LinkClosed, key_vars
  <2>2. prov_state' = "COMPLETE" => prov_state = "COMPLETE"
    BY <1>6 DEF LinkClosed, ScanStart
  <2>3. CASE UNCHANGED <<request, config_step>>
    BY <2>1, <2>2, <2>3 DEF KeyKept
  <2>4. CASE request' # request \/ config_step' # config_step
    <3>1. prov_state = "COMPLETE" /\ request'.appkey = appkey
      BY <1>6, <2>4 DEF LinkClosed, NodeConfigStart, Request
    <3>2. QED
      BY <2>1, <2>2, <3>1 DEF KeyKept
  <2>5. QED
    BY <2>3, <2>4
<1>7. CASE NextStep
  <2>1. UNCHANGED <<appkey, dsm_appkey, live, header, dev_conf, prov_state>>
    BY <1>7 DEF NextStep, key_vars
  <2>2. CASE UNCHANGED <<request, config_step>>
    BY <2>1, <2>2 DEF KeyKept
  <2>3. CASE request' = Request(server, config_step + 1, elm_address)
    <3>1. header.nb_prov > 0
      <4>1. config_step # 0
        BY <1>1, <1>7, ExpectedIsLast DEF NextStep
      <4>2. QED
        BY <4>1 DEF KeyKept
    <3>2. QED
      BY <2>1, <2>3, <3>1 DEF KeyKept, Request
  <2>4. QED
    BY <1>7, <2>2, <2>3 DEF NextStep
<1>8. CASE NodeConfigSuccess
  <2>1. UNCHANGED <<appkey, dsm_appkey, request, header, dev_conf>>
    BY <1>8 DEF NodeConfigSuccess, key_vars
  <2>2. /\ prov_state' = "COMPLETE" => prov_state = "COMPLETE"
        /\ config_step' = config_step \/ config_step' = 0
    BY <1>8 DEF NodeConfigSuccess, ScanStart
  <2>3. live'[HeaderRecord].appkey = live[HeaderRecord].appkey
    <3>1. CASE live' = live
      BY <3>1
    <3>2. CASE EntrySet([r \in {HeaderRecord} |-> [live[r] EXCEPT !.nb_conf = @ + 1]])
      <4>1. live'[HeaderRecord] = [live[HeaderRecord] EXCEPT !.nb_conf = @ + 1]
        BY <1>2, <3>2 DEF EntrySet
      <4>2. live[HeaderRecord] \in Headers
        BY <1>1 DEF Stored
      <4>3. QED
        BY <4>1, <4>2 DEF Headers
    <3>3. QED
      BY <1>8, <3>1, <3>2 DEF NodeConfigSuccess
  <2>4. QED
    BY <2>1, <2>2, <2>3 DEF KeyKept
<1>9. CASE (Unconcerned /\ ~ProvComplete) \/ UnexpectedAnswer \/ RequestTimesOut
  <2>1. UNCHANGED <<appkey, dsm_appkey, live, header, dev_conf, config_step>>
    BY <1>9 DEF Unconcerned, RequestScan, RequestedState, RequestStop,
                StopScan, StopTest, StopStore, UnprovReceived, LinkEstablished,
                CapsReceived, StaticRequest, DeviceComplete, Abort, UnexpectedAnswer, RequestTimesOut,
                WriteRecord, WriteDsm, ram_vars, disk_vars, net_vars, key_vars
  <2>2. /\ request' = request \/ request' = NoRequest
        /\ prov_state' = "COMPLETE" => prov_state = "COMPLETE"
    BY <1>9 DEF Unconcerned, RequestScan, RequestedState, RequestStop,
                StopScan, StopTest, StopStore, UnprovReceived, LinkEstablished,
                CapsReceived, StaticRequest, DeviceComplete, Abort, UnexpectedAnswer, RequestTimesOut,
                WriteRecord, WriteDsm, ram_vars, net_vars
  <2>3. QED
    BY <2>1, <2>2 DEF KeyKept
<1>10. CASE UNCHANGED vars
  <2>1. UNCHANGED <<appkey, dsm_appkey, live, header, dev_conf, config_step, request, prov_state>>
    BY <1>10 DEF vars, ram_vars, net_vars, key_vars
  <2>2. QED
    BY <2>1 DEF KeyKept
<1>11. CASE Next
  BY <1>3, <1>4, <1>5, <1>6, <1>7, <1>8, <1>9, <1>11 DEF Next, Unconcerned
<1>12. QED
  BY <1>10, <1>11

\* All nodes and the Provisioner share one application key, also those that
\* are configured after a restart (prov_conf_fetch), for any devices, timeouts
\* and settled resets.
THEOREM KeyStaysShared == Orderly => (Spec => []KeyShared)
<1> SUFFICES ASSUME Orderly PROVE Spec => []KeyShared
  OBVIOUS
<1>1. Init => ProvInv /\ KeyKept
  BY InitProvInv, InitKeyKept
<1>2. ProvInv /\ KeyKept /\ [Next]_vars => (ProvInv /\ KeyKept)'
  BY ProvStepKeeps, KeyStepKeeps
<1>3. KeyKept => KeyShared
  BY DEF KeyKept, KeyShared
<1>4. QED
  BY <1>1, <1>2, <1>3, PTL DEF Spec

-----------------------------------------------------------------------------
\* The entries of the nodes

\* There is room for one more node as long as one may be sought.
Room ==
  /\ scanning \/ thread = "state" \/ prov_state \in {"SCANNING", "PROVISIONING"} =>
       header.nb_prov < MaxNodes
  /\ header.nb_prov <= MaxNodes
  /\ Underway => ~scanning

\* Each node that is counted has its entry, its handles, and in flash what is
\* not waiting to be written.
Entry(idx) ==
  /\ live[NodeRecord(idx)] \in Node /\ live[NodeRecord(idx)].first_addr = handles[idx]
  /\ handles[idx] \in dsm
  /\ NodeRecord(idx) \notin dirty => flash[NodeRecord(idx)] = live[NodeRecord(idx)]

EntriesKept ==
  /\ handles \in [0 .. MaxNodes - 1 -> Nat]
  /\ \A idx \in 0 .. header.nb_prov - 1 : Entry(idx)
  /\ \A d \in Device : Provisioned(d) => (Underway /\ link.dev = d) \/ Recorded(d)

\* No node is counted at first, and there is room for one.
LEMMA InitEntries == Init => Room /\ EntriesKept
<1> SUFFICES ASSUME Init PROVE Room /\ EntriesKept
  OBVIOUS
<1>1. header.nb_prov = 0 /\ ~scanning /\ MaxNodes \in Nat \ {0}
  BY ProvisionerAssumption DEF Init, FirstHeader
<1>2. Room
  BY <1>1 DEF Init, Room
<1>3. EntriesKept
  BY <1>1 DEF Init, EntriesKept, NoHandles, Provisioned
<1>4. QED
  BY <1>2, <1>3

\* Scanning starts only below the maximum, and a completed node takes the room.
LEMMA RoomKept ==
  ASSUME Orderly, ProvInv, Room, Next
  PROVE  Room'
<1> USE ProvisionerAssumption
<1>1. Typed /\ Asking /\ Seeking /\ Linked /\ header.nb_prov \in Nat /\ MaxNodes \in Nat
  BY DEF ProvInv, Typed, Headers
<1>2. CASE RequestScan
  <2>1. link = NoLink /\ UNCHANGED <<link, header, prov_state>>
        /\ (CanScan \/ UNCHANGED <<scanning, thread>>)
    BY <1>2 DEF RequestScan, Orderly, net_vars
  <2>2. QED
    BY <2>1 DEF Room, Underway, CanScan
<1>3. CASE RequestedState
  <2>1. link = NoLink /\ thread = "state" /\ UNCHANGED <<link, header, scanning>>
    BY <1>1, <1>3 DEF RequestedState, Seeking, Scans, net_vars
  <2>2. QED
    BY <2>1 DEF Room, Underway
<1>4. CASE RequestStop
  <2>1. /\ UNCHANGED <<link, header>> /\ thread' # "state"
        /\ scanning' = FALSE \/ UNCHANGED scanning
        /\ prov_state' = "IDLE" \/ prov_state' = prov_state
    BY <1>4 DEF RequestStop, StopScan, StopTest, StopStore, net_vars
  <2>2. QED
    BY <2>1 DEF Room, Underway
<1>5. ASSUME NEW d \in Device, UnprovReceived(d) PROVE Room'
  <2>1. /\ prov_state = "SCANNING" /\ UNCHANGED <<header, thread>>
        /\ scanning' = FALSE \/ UNCHANGED <<scanning, link>>
    BY <1>5 DEF UnprovReceived
  <2>2. QED
    BY <2>1 DEF Room, Underway
<1>6. CASE LinkEstablished \/ CapsReceived \/ StaticRequest \/ DeviceComplete
  <2>1. link # NoLink /\ link.stage # "closing"
    BY <1>6 DEF LinkEstablished, CapsReceived, StaticRequest, DeviceComplete, LinkStep
  <2>2. UNCHANGED <<header, thread, scanning, prov_state>>
    BY <1>6 DEF LinkEstablished, CapsReceived, StaticRequest, DeviceComplete, ram_vars
  <2>3. QED
    BY <2>1, <2>2 DEF Room, Underway
<1>7. CASE ProvComplete
  <2>1. /\ UNCHANGED <<scanning, thread>> /\ link # NoLink /\ link.stage = "done"
        /\ LinkStep("done", "closing")
    BY <1>7 DEF ProvComplete, LinkStep
  <2>2. Underway /\ prov_state = "PROVISIONING"
    BY <1>1, <2>1 DEF Linked, Underway
  <2>3. ~Underway'
    BY <1>1, <2>1, LinkStepFrame DEF Underway, Stages
  <2>4. header.nb_prov < MaxNodes /\ ~scanning /\ thread # "state"
    BY <1>1, <2>1, <2>2 DEF Room, Seeking
  <2>5. /\ prov_state' = "COMPLETE"
        /\ header' = [header EXCEPT !.nb_prov = @ + 1, !.next_address = NextAddress(link.addr, curr_node.nb_elm)]
    BY <1>7, <2>2 DEF ProvComplete
  <2>6. header'.nb_prov = header.nb_prov + 1
    BY <1>1, <2>5 DEF Typed, Headers
  <2>7. QED
    BY <1>1, <2>1, <2>3, <2>4, <2>5, <2>6 DEF Room
<1>8. CASE Abort
  <2>1. UNCHANGED <<header, thread, scanning, prov_state>> /\ link' = [link EXCEPT !.stage = "closing"]
    BY <1>8 DEF Abort, ram_vars
  <2>2. ~Underway'
    BY <1>1, <2>1 DEF Typed, Underway
  <2>3. QED
    BY <2>1, <2>2 DEF Room
<1>9. CASE LinkClosed
  <2>1. /\ UNCHANGED <<header, thread>> /\ link' = NoLink
        /\ \/ prov_state' = "IDLE" /\ scanning' = scanning
           \/ CanScan
           \/ UNCHANGED <<prov_state, scanning>>
    BY <1>9 DEF LinkClosed, ScanStart
  <2>2. QED
    BY <2>1 DEF Room, Underway, CanScan
<1>10. CASE NodeConfigSuccess
  <2>1. config_step # 0 /\ answer # NoAnswer
    BY <1>1, <1>10, ExpectedIsLast DEF NodeConfigSuccess
  <2>2. ~Underway
    BY <1>1, <2>1 DEF Seeking, Scans, Underway, Quiet
  <2>3. /\ UNCHANGED <<header, thread, link>>
        /\ CanScan \/ UNCHANGED <<prov_state, scanning>>
    BY <1>10 DEF NodeConfigSuccess, ScanStart
  <2>4. QED
    BY <2>2, <2>3 DEF Room, Underway, CanScan
<1>11. CASE Configures /\ ~NodeConfigSuccess
  <2>1. UNCHANGED <<header, thread, link, prov_state, scanning>>
    BY <1>11 DEF Configures, NodeAnswers, NextStep, UnexpectedAnswer, RequestTimesOut, WriteRecord,
                 WriteDsm, ram_vars, net_vars
  <2>2. QED
    BY <2>1 DEF Room, Underway
<1>12. CASE Reset
  <2>1. ~scanning' /\ prov_state' = "IDLE" /\ thread' = "idle"
    BY <1>12 DEF Reset
  <2>2. header'.nb_prov = 0 \/ header'.nb_prov = header.nb_prov
    <3>1. CASE PROV_ELM_ADDRESS \in flash_dsm
      <4>1. Fetch /\ dirty = {} /\ Stored
        BY <1>12, <3>1 DEF Reset, Settled, Blank, Orderly, ProvInv
      <4>2. flash[HeaderRecord] \in Headers /\ flash[HeaderRecord].nb_prov = header.nb_prov
        BY <4>1 DEF Stored
      <4>3. flash[HeaderRecord] # Absent
        BY <4>2 DEF Headers
      <4>4. QED
        BY <4>1, <4>2, <4>3 DEF Fetch
    <3>2. CASE PROV_ELM_ADDRESS \notin flash_dsm
      BY <1>12, <3>2 DEF Reset, Generate, FirstHeader
    <3>3. QED
      BY <3>1, <3>2
  <2>3. QED
    BY <1>1, <2>1, <2>2 DEF Room
<1>13. QED
  BY <1>2, <1>3, <1>4, <1>5, <1>6, <1>7, <1>8, <1>9, <1>10, <1>11, <1>12 DEF Next, Configures

\* A step that keeps the entries of the nodes, and gives none an address but
\* that of the link
LEMMA SameEntries ==
  ASSUME EntriesKept,
         header'.nb_prov = header.nb_prov, dsm \subseteq dsm',
         handles' \in [0 .. MaxNodes - 1 -> Nat],
         \A idx \in 0 .. header.nb_prov - 1 : handles'[idx] = handles[idx],
         \A idx \in 0 .. header.nb_prov - 1 :
           /\ live'[NodeRecord(idx)] = live[NodeRecord(idx)]
           /\ NodeRecord(idx) \notin dirty' => flash'[NodeRecord(idx)] = live'[NodeRecord(idx)],
         \A d \in Device : dev_addr'[d] # 0 =>
           \/ Underway' /\ link'.dev = d
           \/ dev_addr'[d] = dev_addr[d] /\ ~(Underway /\ link.dev = d)
  PROVE  EntriesKept'
<1>1. ASSUME NEW idx \in 0 .. header.nb_prov - 1 PROVE Entry(idx)'
  BY <1>1 DEF EntriesKept, Entry, NodeRecord, HeaderRecord
<1>2. ASSUME NEW d \in Device, dev_addr'[d] # 0, ~(Underway' /\ link'.dev = d) PROVE Recorded(d)'
  <2>1. dev_addr'[d] = dev_addr[d] /\ Recorded(d)
    BY <1>2 DEF EntriesKept, Provisioned
  <2>2. PICK idx \in 0 .. header.nb_prov - 1 :
          /\ live[NodeRecord(idx)] = [first_addr |-> dev_addr[d], nb_elm |-> Elements[d]]
          /\ handles[idx] = dev_addr[d]
    BY <2>1 DEF Recorded
  <2>3. QED
    BY <2>1, <2>2 DEF Recorded, NodeRecord, HeaderRecord
<1>3. QED
  BY <1>1, <1>2 DEF EntriesKept, Provisioned

\* The entry and the handles of a completed node come behind the others.
LEMMA ProvCompleteAddsEntry ==
  ASSUME ProvInv, Room, EntriesKept, ProvComplete
  PROVE  EntriesKept'
<1> USE ProvisionerAssumption
<1>1. /\ Typed /\ Linked /\ header \in Headers /\ header.nb_prov \in Nat /\ curr_node \in Node
      /\ dev_addr \in [Device -> Nat] /\ MaxNodes \in Nat
  BY DEF ProvInv, Typed, Headers
<1>2. LinkStep("done", "closing") /\ "done" \in Stages /\ "closing" \in Stages
  BY DEF ProvComplete, Stages
<1>3. /\ link.dev \in Device /\ link # NoLink /\ link.stage = "done" /\ link'.stage = "closing"
      /\ link.addr \in Nat
  BY <1>1, <1>2, LinkStepFrame DEF Typed
<1>4. Underway /\ ~Underway'
  BY <1>3 DEF Underway
<1>5. /\ prov_state = "PROVISIONING" /\ dev_addr[link.dev] = link.addr
      /\ curr_node.nb_elm = Elements[link.dev]
  BY <1>1, <1>3, <1>4 DEF Linked
<1> DEFINE nb == header.nb_prov
           new_header == [header EXCEPT !.nb_prov = @ + 1,
                            !.next_address = NextAddress(link.addr, curr_node.nb_elm)]
           values == [r \in {HeaderRecord, NodeRecord(nb)} |->
                        IF r = HeaderRecord THEN new_header ELSE CompletedNode]
<1>6. /\ header' = new_header /\ EntrySet(values) /\ dsm' = dsm \cup {link.addr}
      /\ handles' = [handles EXCEPT ![nb] = link.addr] /\ UNCHANGED <<dev_addr, flash>>
  BY <1>5 DEF ProvComplete
<1>7. header'.nb_prov = nb + 1 /\ nb \in 0 .. MaxNodes - 1
  <2>1. header'.nb_prov = nb + 1
    BY <1>1, <1>6 DEF Headers
  <2>2. nb < MaxNodes
    BY <1>5 DEF Room
  <2>3. QED
    BY <1>1, <2>1, <2>2
<1>8. CompletedNode = [first_addr |-> link.addr, nb_elm |-> Elements[link.dev]] /\ CompletedNode \in Node
  BY <1>1, <1>3, <1>5 DEF CompletedNode, Node
<1>9. /\ handles' \in [0 .. MaxNodes - 1 -> Nat] /\ handles'[nb] = link.addr
      /\ \A idx \in 0 .. nb - 1 : handles'[idx] = handles[idx]
  BY <1>1, <1>3, <1>6, <1>7 DEF EntriesKept
<1>10. /\ live'[NodeRecord(nb)] = CompletedNode /\ NodeRecord(nb) \in dirty'
       /\ \A idx \in 0 .. nb - 1 : live'[NodeRecord(idx)] = live[NodeRecord(idx)]
       /\ dirty \subseteq dirty'
  <2>1. DOMAIN values = {HeaderRecord, NodeRecord(nb)} /\ NodeRecord(nb) # HeaderRecord
    BY <1>7 DEF NodeRecord, HeaderRecord
  <2>2. values[NodeRecord(nb)] = CompletedNode
    BY <2>1
  <2>3. /\ live' = [r \in Record |-> IF r \in DOMAIN values THEN values[r] ELSE live[r]]
        /\ dirty' = dirty \cup DOMAIN values
    BY <1>6 DEF EntrySet
  <2>4. NodeRecord(nb) \in Record /\ \A idx \in 0 .. nb - 1 :
          NodeRecord(idx) \in Record /\ NodeRecord(idx) \notin {HeaderRecord, NodeRecord(nb)}
    BY <1>1, <1>7 DEF NodeRecord, HeaderRecord, Record
  <2>5. QED
    BY <2>1, <2>2, <2>3, <2>4
<1>11. ASSUME NEW idx \in 0 .. nb PROVE Entry(idx)'
  <2>1. CASE idx = nb
    BY <1>6, <1>8, <1>9, <1>10, <2>1 DEF Entry, Node, NodeRecord, HeaderRecord
  <2>2. CASE idx \in 0 .. nb - 1
    <3>1. /\ live[NodeRecord(idx)] \in Node /\ live[NodeRecord(idx)].first_addr = handles[idx]
          /\ handles[idx] \in dsm
          /\ NodeRecord(idx) \notin dirty => flash[NodeRecord(idx)] = live[NodeRecord(idx)]
      BY <2>2 DEF EntriesKept, Entry
    <3>2. handles'[idx] = handles[idx] /\ live'[NodeRecord(idx)] = live[NodeRecord(idx)]
          /\ dirty \subseteq dirty' /\ dsm \subseteq dsm' /\ flash' = flash
      BY <1>6, <1>9, <1>10, <2>2
    <3>3. QED
      BY <3>1, <3>2 DEF Entry, NodeRecord, HeaderRecord
  <2>3. QED
    BY <1>1, <2>1, <2>2
<1>12. ASSUME NEW d \in Device, dev_addr[d] # 0 PROVE Recorded(d)'
  <2>1. CASE d = link.dev
    <3>1. /\ live'[NodeRecord(nb)] = [first_addr |-> dev_addr'[d], nb_elm |-> Elements[d]]
          /\ handles'[nb] = dev_addr'[d] /\ nb \in 0 .. header'.nb_prov - 1
      BY <1>5, <1>6, <1>7, <1>8, <1>9, <1>10, <2>1
    <3>2. QED
      BY <3>1 DEF Recorded, NodeRecord, HeaderRecord
  <2>2. CASE d # link.dev
    <3>1. Recorded(d)
      BY <1>12, <2>2 DEF EntriesKept, Provisioned
    <3>2. PICK idx \in 0 .. nb - 1 :
            /\ live[NodeRecord(idx)] = [first_addr |-> dev_addr[d], nb_elm |-> Elements[d]]
            /\ handles[idx] = dev_addr[d]
      BY <3>1 DEF Recorded
    <3>3. /\ live'[NodeRecord(idx)] = [first_addr |-> dev_addr'[d], nb_elm |-> Elements[d]]
          /\ handles'[idx] = dev_addr'[d] /\ idx \in 0 .. header'.nb_prov - 1
      BY <1>6, <1>7, <1>9, <1>10, <3>2
    <3>4. QED
      BY <3>3 DEF Recorded, NodeRecord, HeaderRecord
  <2>3. QED
    BY <2>1, <2>2
<1>13. \A idx \in 0 .. header'.nb_prov - 1 : Entry(idx)'
  BY <1>7, <1>11
<1>14. QED
  BY <1>6, <1>9, <1>12, <1>13 DEF EntriesKept, Provisioned

\* A settled Provisioner finds an entry and an address for every node.
LEMMA FetchFinds ==
  ASSUME Orderly, ProvInv, Room, EntriesKept, Reset, PROV_ELM_ADDRESS \in flash_dsm
  PROVE  /\ header' = live[HeaderRecord] /\ header'.nb_prov = header.nb_prov
         /\ live' = flash /\ dirty = {} /\ dsm' = dsm /\ failed' = FALSE /\ link = NoLink
         /\ flash[HeaderRecord] = live[HeaderRecord]
         /\ handles' \in [0 .. MaxNodes - 1 -> Nat]
         /\ \A idx \in 0 .. header.nb_prov - 1 : handles'[idx] = handles[idx]
<1> USE ProvisionerAssumption
<1>1. Fetch /\ dirty = {} /\ dsm = flash_dsm /\ link = NoLink /\ Stored
  BY DEF Reset, Settled, Blank, Orderly, ProvInv
<1>2. /\ flash[HeaderRecord] = live[HeaderRecord] /\ live[HeaderRecord] \in Headers
      /\ flash[HeaderRecord].nb_prov = header.nb_prov
  BY <1>1 DEF Stored
<1>3. flash[HeaderRecord] # Absent
  BY <1>2 DEF Headers
<1> DEFINE stored == flash[HeaderRecord]
           addr(garbage) == [idx \in FetchedNodes(stored) |-> FetchedAddress(idx, garbage)]
<1>4. PICK garbage : /\ header' = stored
                     /\ failed' = (Range(addr(garbage)) \ flash_dsm # {})
                     /\ handles' = [idx \in DOMAIN handles |->
                                      IF idx \in DOMAIN addr(garbage) THEN addr(garbage)[idx] ELSE 0]
                     /\ live' = flash /\ dsm' = flash_dsm
  BY <1>1, <1>3 DEF Fetch, FetchContext
<1>5. header.nb_prov \in Nat /\ header.nb_prov <= MaxNodes /\ MaxNodes \in Nat
  BY DEF ProvInv, Typed, Headers, Room
<1>6. ASSUME NEW idx \in 0 .. header.nb_prov - 1
      PROVE  FetchedAddress(idx, garbage) = handles[idx] /\ handles[idx] \in flash_dsm
  <2>1. /\ live[NodeRecord(idx)] \in Node /\ live[NodeRecord(idx)].first_addr = handles[idx]
        /\ handles[idx] \in dsm
        /\ NodeRecord(idx) \notin dirty => flash[NodeRecord(idx)] = live[NodeRecord(idx)]
    BY <1>6 DEF EntriesKept, Entry
  <2>2. flash[NodeRecord(idx)] \in Node /\ flash[NodeRecord(idx)].first_addr = handles[idx]
    BY <1>1, <2>1
  <2>3. flash[NodeRecord(idx)] # Absent
    BY <2>2 DEF Node
  <2>4. QED
    BY <1>1, <2>1, <2>2, <2>3 DEF FetchedAddress
<1>7. /\ DOMAIN addr(garbage) = 0 .. header.nb_prov - 1
      /\ \A idx \in 0 .. header.nb_prov - 1 : addr(garbage)[idx] = handles[idx]
  BY <1>2, <1>6 DEF FetchedNodes
<1>8. Range(addr(garbage)) \subseteq flash_dsm
  BY <1>6, <1>7 DEF Range
<1>9. handles \in [0 .. MaxNodes - 1 -> Nat]
  BY DEF EntriesKept
<1>10. /\ handles' \in [0 .. MaxNodes - 1 -> Nat]
       /\ \A idx \in 0 .. header.nb_prov - 1 : handles'[idx] = handles[idx]
  <2> HIDE DEF addr
  <2>1. \A idx \in 0 .. header.nb_prov - 1 : idx \in 0 .. MaxNodes - 1
    BY <1>5
  <2>2. QED
    BY <1>4, <1>7, <1>9, <2>1
<1>11. failed' = FALSE
  BY <1>4, <1>8
<1>12. QED
  BY <1>1, <1>2, <1>4, <1>10, <1>11

\* What it finds is what it had.
LEMMA ResetKeepsEntries ==
  ASSUME Orderly, ProvInv, Room, EntriesKept, Reset
  PROVE  EntriesKept' /\ failed' = FALSE
<1>1. UNCHANGED <<flash, dev_addr>> /\ link' = NoLink /\ (Settled \/ Blank)
  BY DEF Reset, Orderly
<1>2. CASE PROV_ELM_ADDRESS \in flash_dsm
  <2>1. /\ header'.nb_prov = header.nb_prov /\ live' = flash /\ dirty = {} /\ dsm' = dsm
        /\ failed' = FALSE /\ link = NoLink /\ handles' \in [0 .. MaxNodes - 1 -> Nat]
        /\ \A idx \in 0 .. header.nb_prov - 1 : handles'[idx] = handles[idx]
    BY <1>2, FetchFinds
  <2>2. ~Underway
    BY <2>1 DEF Underway
  <2>3. \A idx \in 0 .. header.nb_prov - 1 : live'[NodeRecord(idx)] = live[NodeRecord(idx)]
    BY <2>1 DEF EntriesKept, Entry
  <2>4. QED
    BY <1>1, <2>1, <2>2, <2>3, SameEntries
<1>3. CASE PROV_ELM_ADDRESS \notin flash_dsm
  <2>1. Generate /\ header.nb_prov = 0 /\ link = NoLink
    BY <1>1, <1>3 DEF Reset, Settled, Blank, Stored, ProvInv
  <2>2. failed' = FALSE /\ header'.nb_prov = 0 /\ handles' = NoHandles
    BY <2>1 DEF Generate, FirstHeader
  <2>3. \A d \in Device : dev_addr[d] = 0
    BY <2>1 DEF ProvInv, Placed, Provisioned, Underway
  <2>4. handles' \in [0 .. MaxNodes - 1 -> Nat]
    BY <2>2 DEF NoHandles
  <2>5. 0 .. header'.nb_prov - 1 = {}
    BY <2>2
  <2>6. QED
    BY <1>1, <2>2, <2>3, <2>4, <2>5 DEF EntriesKept, Provisioned
<1>4. QED
  BY <1>2, <1>3

\* Every step keeps the entries.
LEMMA EntriesStepKept ==
  ASSUME Orderly, ProvInv, Room, EntriesKept, Next
  PROVE  EntriesKept'
<1> USE ProvisionerAssumption
<1>1. /\ Typed /\ Asking /\ Seeking /\ Linked /\ header.nb_prov \in Nat /\ MaxNodes \in Nat
      /\ dev_addr \in [Device -> Nat] /\ header.nb_prov <= MaxNodes
  BY DEF ProvInv, Typed, Headers, Room
<1>2. handles \in [0 .. MaxNodes - 1 -> Nat]
  BY DEF EntriesKept
<1>3. \A idx \in 0 .. header.nb_prov - 1 :
        NodeRecord(idx) \in Record /\ NodeRecord(idx) # HeaderRecord
  BY <1>1 DEF NodeRecord, HeaderRecord, Record
<1>4. \A idx \in 0 .. header.nb_prov - 1 :
        NodeRecord(idx) \notin dirty => flash[NodeRecord(idx)] = live[NodeRecord(idx)]
  BY DEF EntriesKept, Entry
<1>5. CASE ProvComplete
  BY <1>5, ProvCompleteAddsEntry
<1>6. CASE Reset
  BY <1>6, ResetKeepsEntries
<1>7. CASE Configures \/ RequestScan \/ RequestedState \/ RequestStop
  <2>1. UNCHANGED <<header, dev_addr, link, dsm>>
    BY <1>1, <1>7, CalmFrame
  <2>2. handles' = handles
    BY <1>7 DEF Configures, NodeAnswers, NextStep, NodeConfigSuccess, UnexpectedAnswer, RequestTimesOut,
                WriteRecord, WriteDsm, RequestScan, RequestedState, RequestStop,
                StopScan, StopTest, StopStore, ram_vars
  <2>3. \A idx \in 0 .. header.nb_prov - 1 :
          /\ live'[NodeRecord(idx)] = live[NodeRecord(idx)]
          /\ NodeRecord(idx) \notin dirty' => flash'[NodeRecord(idx)] = live'[NodeRecord(idx)]
    <3>1. CASE UNCHANGED <<live, dirty, flash>>
      BY <1>4, <3>1
    <3>2. CASE NodeConfigSuccess /\ EntrySet([r \in {HeaderRecord} |-> [live[r] EXCEPT !.nb_conf = @ + 1]])
      <4>1. flash' = flash
        BY <3>2 DEF NodeConfigSuccess
      <4>2. QED
        BY <1>3, <1>4, <3>2, <4>1 DEF EntrySet
    <3>3. CASE WriteRecord
      <4>1. live' = live
        BY <3>3 DEF WriteRecord, ram_vars
      <4>2. PICK batch \in Batches(dirty) :
              /\ flash' = [r \in Record |-> IF r \in batch THEN live[r] ELSE flash[r]]
              /\ dirty' = dirty \ batch
        BY <3>3 DEF WriteRecord
      <4>3. QED
        BY <1>3, <1>4, <4>1, <4>2
    <3>4. QED
      BY <1>7, <3>1, <3>2, <3>3
         DEF Configures, NodeAnswers, NextStep, NodeConfigSuccess, UnexpectedAnswer, RequestTimesOut,
             WriteDsm, RequestScan, RequestedState, RequestStop,
             StopScan, StopTest, StopStore, ram_vars, disk_vars
  <2>4. Underway' = Underway
    BY <2>1 DEF Underway
  <2>5. QED
    BY <1>2, <2>1, <2>2, <2>3, <2>4, SameEntries
<1>8. CASE \/ \E d \in Device : UnprovReceived(d)
          \/ LinkEstablished \/ CapsReceived \/ StaticRequest \/ DeviceComplete
          \/ Abort \/ LinkClosed
  <2>1. UNCHANGED <<header, handles, dsm, live, dirty, flash>>
    BY <1>8 DEF UnprovReceived, LinkEstablished, CapsReceived, StaticRequest, DeviceComplete, Abort,
                LinkClosed, ram_vars, disk_vars
  <2>2. \A d \in Device : dev_addr'[d] # 0 =>
          \/ Underway' /\ link'.dev = d
          \/ dev_addr'[d] = dev_addr[d] /\ ~(Underway /\ link.dev = d)
    <3>1. CASE \E d \in Device : UnprovReceived(d)
      BY <1>1, <3>1 DEF UnprovReceived, Underway, Linked
    <3>2. CASE LinkEstablished \/ CapsReceived \/ StaticRequest
      <4>1. dev_addr' = dev_addr /\ \E from, to \in Stages \ {"closing"} : LinkStep(from, to)
        BY <3>2 DEF LinkEstablished, CapsReceived, StaticRequest, Stages
      <4>2. link' # NoLink /\ link'.stage # "closing" /\ link'.dev = link.dev
        BY <1>1, <4>1, LinkStepFrame
      <4>3. QED
        BY <4>1, <4>2 DEF Underway
    <3>3. CASE DeviceComplete
      <4>1. LinkStep("auth", "done") /\ "auth" \in Stages /\ "done" \in Stages
            /\ dev_addr' = [dev_addr EXCEPT ![link.dev] = link.addr]
        BY <3>3 DEF DeviceComplete, Stages
      <4>2. link' # NoLink /\ link'.stage = "done" /\ link'.dev = link.dev
        BY <1>1, <4>1, LinkStepFrame
      <4>3. QED
        BY <1>1, <4>1, <4>2 DEF Underway
    <3>4. CASE Abort \/ LinkClosed
      <4>1. dev_addr' = dev_addr
        BY <3>4 DEF Abort, LinkClosed
      <4>2. Underway => dev_addr[link.dev] = 0
        BY <1>1, <3>4 DEF Abort, LinkClosed, Underway, Linked, Orderly
      <4>3. QED
        BY <4>1, <4>2
    <3>5. QED
      BY <1>8, <3>1, <3>2, <3>3, <3>4
  <2>3. QED
    BY <1>2, <1>4, <2>1, <2>2, SameEntries
<1>9. QED
  BY <1>5, <1>6, <1>7, <1>8 DEF Next, Configures

\* The Provisioner knows every node of its network, before and after a settled
\* restart (prov_on_complete_event, prov_conf_fetch), for any devices.
THEOREM NodesStayRecorded == Orderly => (Spec => []NodesRecorded)
<1> SUFFICES ASSUME Orderly PROVE Spec => []NodesRecorded
  OBVIOUS
<1> DEFINE Inv == ProvInv /\ Room /\ EntriesKept
<1>1. Init => Inv
  BY InitProvInv, InitEntries
<1>2. Inv /\ [Next]_vars => Inv'
  <2> SUFFICES ASSUME Inv, [Next]_vars PROVE Inv'
    OBVIOUS
  <2>1. CASE Next
    BY <2>1, ProvStepKeeps, RoomKept, EntriesStepKept
  <2>2. CASE UNCHANGED vars
    <3>1. UNCHANGED <<scanning, thread, prov_state, header, link, handles, live, dirty, flash, dsm, dev_addr>>
      BY <2>2 DEF vars, ram_vars, disk_vars, net_vars
    <3>2. Room' /\ EntriesKept'
      BY <3>1 DEF Room, EntriesKept, Entry, Underway, Provisioned, Recorded, NodeRecord, HeaderRecord
    <3>3. QED
      BY <3>2, ProvStepKeeps
  <2>3. QED
    BY <2>1, <2>2
<1>3. Inv => NodesRecorded
  BY DEF EntriesKept, NodesRecorded
<1>4. QED
  BY <1>1, <1>2, <1>3, PTL DEF Spec

-----------------------------------------------------------------------------
\* What the steps have reached at a node

\* What the first n steps leave at a node
Reached(conf, n) ==
  /\ n >= 3 => conf.appkey = appkey
  /\ n >= 4 => "health" \in conf.bound
  /\ n >= 5 => conf.target["health"] = "provisioner"
  /\ n >= 6 => "luos_rtb" \in conf.bound
  /\ n >= 7 => conf.target["luos_rtb"] = "group"
  /\ n >= 8 => "luos_rtb" \in conf.subscribed
  /\ n >= 9 => "luos_msg" \in conf.bound
  /\ n >= 10 => conf.target["luos_msg"] = "group"
  /\ n >= 11 => "luos_msg" \in conf.subscribed

\* The requests of STEP_TRANSITIONS
LEMMA StepAsks ==
  /\ StepRequest(1) = Asks("get", "none", "none")
  /\ StepRequest(2) = Asks("transmit", "none", "none")
  /\ StepRequest(3) = Asks("appkey", "none", "none")
  /\ StepRequest(4) = Asks("bind", "health", "none")
  /\ StepRequest(5) = Asks("publish", "health", "provisioner")
  /\ StepRequest(6) = Asks("bind", "luos_rtb", "none")
  /\ StepRequest(7) = Asks("publish", "luos_rtb", "group")
  /\ StepRequest(8) = Asks("subscribe", "luos_rtb", "group")
  /\ StepRequest(9) = Asks("bind", "luos_msg", "none")
  /\ StepRequest(10) = Asks("publish", "luos_msg", "group")
  /\ StepRequest(11) = Asks("subscribe", "luos_msg", "group")
BY DEF StepRequest, Transitions

\* A node that has reached the step before accepts a step, and reaches it.
LEMMA StepReached ==
  ASSUME NEW d \in Device, dev_conf[d] \in Keys, appkey \in Nat,
         dev_conf[d].appkey \in {NoKey, appkey},
         NEW asked, NEW s \in 1 .. 11, asked.step = s, asked.appkey = appkey, asked.elm = dev_addr[d],
         Reached(dev_conf[d], s - 1)
  PROVE  ~Refuses(d, asked) /\ Reached(Applied(dev_conf[d], asked), s)
<1> DEFINE conf == dev_conf[d]
           new == Applied(conf, asked)
           ask == StepRequest(s)
<1>1. conf \in Keys
  OBVIOUS
<1>2. \/ s = 1 \/ s = 2 \/ s = 3 \/ s = 4 \/ s = 5 \/ s = 6 \/ s = 7 \/ s = 8 \/ s = 9 \/ s = 10 \/ s = 11
  OBVIOUS
<1>3. ~Refuses(d, asked)
  <2>1. ask.op = "bind" => conf.appkey # NoKey
    BY <1>2, StepAsks DEF Reached, Asks, NoKey
  <2>2. ask.op = "publish" => ask.model \in conf.bound
    BY <1>2, StepAsks DEF Reached, Asks
  <2>3. QED
    BY <2>1, <2>2 DEF Refuses
<1>4. ask.op = "appkey" => /\ new.appkey = appkey
                           /\ new.bound = conf.bound /\ new.target = conf.target
                           /\ new.subscribed = conf.subscribed
  BY <1>1 DEF Applied, Keys
<1>5. ask.op = "bind" => /\ new.appkey = conf.appkey
                         /\ new.bound = conf.bound \cup {ask.model} /\ new.target = conf.target
                         /\ new.subscribed = conf.subscribed
  BY <1>1 DEF Applied, Keys
<1>6. ask.op = "publish" => /\ new.appkey = conf.appkey /\ new.bound = conf.bound
                            /\ new.target = [conf.target EXCEPT ![ask.model] = ask.target]
                            /\ new.subscribed = conf.subscribed
  BY <1>1 DEF Applied, Keys
<1>7. ask.op = "subscribe" => /\ new.appkey = conf.appkey /\ new.bound = conf.bound
                              /\ new.target = conf.target
                              /\ new.subscribed = conf.subscribed \cup {ask.model}
  BY <1>1 DEF Applied, Keys
<1>8. DOMAIN conf.target = Model /\ {"health", "luos_rtb", "luos_msg"} \subseteq Model
  BY <1>1 DEF Keys, Model, LuosModel
<1> HIDE DEF conf, new, ask
<1>9. Reached(conf, s - 1)
  BY DEF conf
<1>10. CASE s \in 1 .. 3
  <2>1. s = 3 => ask.op = "appkey"
    BY <1>10, StepAsks DEF ask, Asks
  <2>2. Reached(new, s)
    BY <1>4, <1>10, <2>1 DEF Reached
  <2>3. QED
    BY <1>3, <2>2 DEF conf, new
<1>11. CASE s \in {4, 6, 9}
  <2>1. ask.op = "bind" /\ ask.model = (IF s = 4 THEN "health" ELSE IF s = 6 THEN "luos_rtb" ELSE "luos_msg")
    BY <1>11, StepAsks DEF ask, Asks
  <2>2. Reached(new, s)
    BY <1>5, <1>9, <1>11, <2>1 DEF Reached
  <2>3. QED
    BY <1>3, <2>2 DEF conf, new
<1>12. CASE s \in {5, 7, 10}
  <2>1. /\ ask.op = "publish"
        /\ ask.model = IF s = 5 THEN "health" ELSE IF s = 7 THEN "luos_rtb" ELSE "luos_msg"
        /\ ask.target = IF s = 5 THEN "provisioner" ELSE "group"
    BY <1>12, StepAsks DEF ask, Asks
  <2>2. /\ new.target[ask.model] = ask.target
        /\ \A m \in {"health", "luos_rtb", "luos_msg"} : m # ask.model => new.target[m] = conf.target[m]
    BY <1>6, <1>8, <1>12, <2>1
  <2>3. Reached(new, s)
    BY <1>6, <1>9, <1>12, <2>1, <2>2 DEF Reached
  <2>4. QED
    BY <1>3, <2>3 DEF conf, new
<1>13. CASE s \in {8, 11}
  <2>1. ask.op = "subscribe" /\ ask.model = (IF s = 8 THEN "luos_rtb" ELSE "luos_msg")
    BY <1>13, StepAsks DEF ask, Asks
  <2>2. Reached(new, s)
    BY <1>7, <1>9, <1>13, <2>1 DEF Reached
  <2>3. QED
    BY <1>3, <2>2 DEF conf, new
<1>14. QED
  BY <1>2, <1>3, <1>10, <1>11, <1>12, <1>13 DEF conf, new

\* The node whose configuration will start is the one that was completed, and
\* there is a link only in the states that belong to it.
Setup ==
  /\ prov_state = "COMPLETE" =>
       curr_node.first_addr = handles[header.nb_prov - 1] /\ curr_node.first_addr # 0
  /\ link # NoLink => prov_state \in {"PROVISIONING", "COMPLETE"}

\* Every step keeps both.
LEMMA SetupKept ==
  ASSUME Orderly, ProvInv, Room, EntriesKept, Setup, Next
  PROVE  Setup'
<1> USE ProvisionerAssumption
<1>1. /\ Typed /\ Asking /\ Seeking /\ Linked /\ header.nb_prov \in Nat /\ MaxNodes \in Nat
      /\ header.next_address > 0
  BY DEF ProvInv, Typed, Headers, Placed, PROV_ELM_ADDRESS
<1>2. CASE ProvComplete
  <2>1. /\ link # NoLink /\ link.stage = "done"
    BY <1>2 DEF ProvComplete, LinkStep
  <2>2. prov_state = "PROVISIONING" /\ link.addr = header.next_address
    BY <1>1, <2>1 DEF Linked, Underway
  <2>3. /\ prov_state' = "COMPLETE" /\ curr_node' = [curr_node EXCEPT !.first_addr = link.addr]
        /\ handles' = [handles EXCEPT ![header.nb_prov] = link.addr]
        /\ header' = [header EXCEPT !.nb_prov = @ + 1, !.next_address = NextAddress(link.addr, curr_node.nb_elm)]
    BY <1>2, <2>2 DEF ProvComplete, CompletedNode
  <2>4. header'.nb_prov = header.nb_prov + 1
    BY <2>3 DEF ProvInv, Typed, Headers
  <2>5. curr_node'.first_addr = link.addr
    BY <2>3 DEF ProvInv, Typed, Node
  <2>6. header.nb_prov \in 0 .. MaxNodes - 1
    BY <1>1, <2>2 DEF Room
  <2>7. handles'[header.nb_prov] = link.addr
    BY <2>3, <2>6 DEF EntriesKept
  <2>8. header'.nb_prov - 1 = header.nb_prov
    BY <1>1, <2>4
  <2>9. QED
    BY <1>1, <2>2, <2>3, <2>5, <2>7, <2>8 DEF Setup
<1>3. CASE Reset
  BY <1>3 DEF Reset, Setup
<1>4. CASE LinkClosed
  BY <1>4 DEF LinkClosed, Setup, ScanStart
<1>5. ASSUME NEW d \in Device, UnprovReceived(d) PROVE Setup'
  <2>1. /\ UNCHANGED <<curr_node, handles, header>>
        /\ prov_state' = "PROVISIONING" \/ UNCHANGED <<prov_state, link>>
    BY <1>5 DEF UnprovReceived
  <2>2. QED
    BY <2>1 DEF Setup
<1>6. CASE LinkEstablished \/ CapsReceived \/ StaticRequest \/ DeviceComplete \/ Abort
  <2>1. /\ UNCHANGED <<prov_state, handles, header>> /\ link # NoLink
        /\ prov_state # "PROVISIONING" => curr_node' = curr_node
    BY <1>6 DEF LinkEstablished, CapsReceived, StaticRequest, DeviceComplete, Abort, LinkStep, ram_vars
  <2>2. QED
    BY <2>1 DEF Setup
<1>7. CASE RequestedState
  <2>1. link = NoLink /\ link' = link /\ prov_state' = "SCANNING"
    BY <1>1, <1>7 DEF RequestedState, Seeking, Scans, net_vars
  <2>2. QED
    BY <2>1 DEF Setup
<1>8. CASE NodeConfigSuccess
  <2>1. config_step # 0 /\ answer # NoAnswer
    BY <1>1, <1>8, ExpectedIsLast DEF NodeConfigSuccess
  <2>2. link = NoLink
    BY <1>1, <2>1 DEF Seeking, Scans, Quiet
  <2>3. /\ UNCHANGED <<curr_node, handles, header, link>>
        /\ prov_state' = "SCANNING" \/ UNCHANGED prov_state
    BY <1>8 DEF NodeConfigSuccess, ScanStart
  <2>4. QED
    BY <2>2, <2>3 DEF Setup
<1>9. CASE RequestStop
  <2>1. /\ UNCHANGED <<curr_node, handles, header, link>>
        /\ (link = NoLink /\ prov_state' = "IDLE") \/ UNCHANGED prov_state
    BY <1>1, <1>9 DEF RequestStop, StopScan, StopTest, StopStore, Seeking, Scans, net_vars
  <2>2. QED
    BY <2>1 DEF Setup
<1>10. CASE RequestScan \/ (Configures /\ ~NodeConfigSuccess)
  <2>1. UNCHANGED <<curr_node, handles, header, link, prov_state>>
    BY <1>10 DEF RequestScan, Configures, NodeAnswers, NextStep, UnexpectedAnswer, RequestTimesOut,
                 WriteRecord, WriteDsm, ram_vars, net_vars
  <2>2. QED
    BY <2>1 DEF Setup
<1>11. QED
  BY <1>2, <1>3, <1>4, <1>5, <1>6, <1>7, <1>8, <1>9, <1>10 DEF Next, Configures

\* The node has answered the present step.
Answered == request = NoRequest /\ answer # NoAnswer /\ config_step # 0

Progress ==
  /\ request # NoRequest \/ Answered => server # 0 /\ elm_address = server
  /\ request # NoRequest => request.to = server /\ request.elm = server
  /\ answer # NoAnswer => answer.status = "success"
  /\ Answered => \E d \in Device : dev_addr[d] = server
  /\ \A d \in Device : dev_addr[d] = server =>
       /\ request # NoRequest => Reached(dev_conf[d], config_step - 1)
       /\ Answered => Reached(dev_conf[d], config_step)

\* The request that comes is for one node, which accepts it.
LEMMA AnswerProgress ==
  ASSUME ProvInv, KeyKept, Progress, NEW d \in Device, NodeAnswers(d)
  PROVE  Progress'
<1> USE ProvisionerAssumption
<1>1. /\ request # NoRequest /\ request' = NoRequest /\ dev_addr[d] = request.to
      /\ UNCHANGED <<dev_addr, config_step, server, elm_address, appkey>>
  BY DEF NodeAnswers, ram_vars
<1>2. /\ config_step \in 1 .. 11 /\ request.step = config_step
      /\ request.to = server /\ request.elm = server /\ server # 0 /\ elm_address = server
      /\ request.appkey = appkey /\ dev_conf[d] \in Keys /\ dev_conf[d].appkey \in {NoKey, appkey}
      /\ Reached(dev_conf[d], config_step - 1)
  BY <1>1, StepFacts DEF ProvInv, Asking, Progress, KeyKept
<1>3. appkey \in Nat
  BY DEF ProvInv, Typed, Headers, KeyKept
<1>4. ~Refuses(d, request) /\ Reached(Applied(dev_conf[d], request), config_step)
  BY <1>1, <1>2, <1>3, StepReached
<1>5. /\ dev_conf' = [dev_conf EXCEPT ![d] = Applied(@, request)] /\ answer'.status = "success"
  BY <1>4 DEF NodeAnswers
<1>6. dev_conf'[d] = Applied(dev_conf[d], request)
  BY <1>5 DEF KeyKept
<1>7. \A e \in Device : dev_addr[e] = server => e = d
  <2>1. ASSUME NEW e \in Device, dev_addr[e] = server, e # d PROVE FALSE
    <3>1. \/ dev_addr[d] + Elements[d] <= dev_addr[e]
          \/ dev_addr[e] + Elements[e] <= dev_addr[d]
      BY <1>1, <1>2, <2>1 DEF ProvInv, Disjoint, Provisioned
    <3>2. dev_addr[d] = dev_addr[e] /\ dev_addr[d] \in Nat
          /\ Elements[d] \in Nat \ {0} /\ Elements[e] \in Nat \ {0}
      BY <1>1, <1>2, <2>1 DEF ProvInv, Typed
    <3>3. QED
      BY <3>1, <3>2
  <2>2. QED
    BY <2>1
<1>8. Reached(dev_conf[d], config_step)'
  BY <1>1, <1>4, <1>6 DEF Reached
<1>9. QED
  BY <1>1, <1>2, <1>5, <1>7, <1>8 DEF Progress, Answered

\* Every step keeps what the configuration has reached.
LEMMA ProgressKept ==
  ASSUME Orderly, ProvInv, KeyKept, Setup, Progress, Next
  PROVE  Progress'
<1>1. Typed /\ Asking /\ Seeking /\ config_step \in {0} \cup 1 .. 11 /\ Steps = 1 .. 11
  BY StepFacts DEF ProvInv, Typed
<1>2. ASSUME NEW d \in Device, NodeAnswers(d) PROVE Progress'
  BY <1>2, AnswerProgress
<1>3. CASE DeviceComplete
  <2>1. link # NoLink /\ UNCHANGED <<request, answer, config_step>>
    BY <1>3 DEF DeviceComplete, LinkStep, ram_vars
  <2>2. request = NoRequest /\ ~Answered
    BY <1>1, <2>1, StepFacts DEF Seeking, Scans, Quiet, Asking, Answered
  <2>3. QED
    BY <2>1, <2>2 DEF Progress, Answered
<1>4. CASE LinkClosed
  <2>1. UNCHANGED <<answer, dev_addr, dev_conf, appkey>>
    BY <1>4 DEF LinkClosed, key_vars
  <2>2. CASE UNCHANGED <<elm_address, server, config_step, request>>
    BY <2>1, <2>2 DEF Progress, Answered, Reached
  <2>3. CASE /\ prov_state = "COMPLETE" /\ config_step = 0
             /\ NodeConfigStart(curr_node.first_addr, handles[header.nb_prov - 1])
    <3>1. /\ elm_address' = curr_node.first_addr /\ server' = curr_node.first_addr
          /\ curr_node.first_addr # 0 /\ config_step' = 1
          /\ request' = Request(curr_node.first_addr, 1, curr_node.first_addr)
      BY <2>3 DEF NodeConfigStart, Setup
    <3>2. request' # NoRequest /\ request'.to = server' /\ request'.elm = server'
      BY <3>1 DEF Request, NoRequest
    <3>3. \A d \in Device : Reached(dev_conf[d], config_step - 1)'
      BY <3>1 DEF Reached
    <3>4. QED
      BY <2>1, <3>1, <3>2, <3>3 DEF Progress, Answered
  <2>4. QED
    BY <1>4, <2>2, <2>3 DEF LinkClosed, NodeConfigStart
<1>5. CASE NextStep
  <2>1. /\ request = NoRequest /\ config_step \in 1 .. 11 /\ answer # NoAnswer /\ Answered
        /\ answer.status = "success"
    BY <1>1, <1>5, ExpectedIsLast DEF NextStep, Answered, Progress
  <2>2. /\ UNCHANGED <<dev_addr, dev_conf, appkey, server, elm_address>>
        /\ answer' = NoAnswer \/ answer' = answer
        /\ config_step' = config_step + 1
        /\ request' = Request(server, config_step + 1, elm_address)
    BY <1>5, <2>1 DEF NextStep, AnswerStays, Accepted, key_vars
  <2>3. /\ request' # NoRequest /\ request'.to = server /\ request'.elm = server
    <3>1. request'.step = config_step + 1 /\ NoRequest.step = 0 /\ config_step + 1 # 0
      BY <2>1, <2>2 DEF Request, NoRequest
    <3>2. request' # NoRequest
      BY <3>1
    <3>3. QED
      BY <2>1, <2>2, <3>2 DEF Request, Progress
  <2>4. ASSUME NEW d \in Device, dev_addr[d] = server PROVE Reached(dev_conf[d], config_step - 1)'
    <3>1. Reached(dev_conf[d], config_step)
      BY <2>1, <2>4 DEF Progress
    <3>2. config_step' - 1 = config_step
      BY <2>1, <2>2
    <3>3. QED
      BY <2>2, <3>1, <3>2 DEF Reached
  <2>5. QED
    BY <2>1, <2>2, <2>3, <2>4 DEF Progress, Answered
<1>6. CASE NodeConfigSuccess
  <2>1. /\ request = NoRequest /\ answer # NoAnswer /\ config_step # 0
        /\ answer.status = "success"
    BY <1>1, <1>6, ExpectedIsLast DEF NodeConfigSuccess, Progress
  <2>2. /\ answer' = NoAnswer \/ answer' = answer
        /\ config_step' = 0 /\ request' = request
    BY <1>6, <2>1 DEF NodeConfigSuccess, AnswerStays, Accepted
  <2>3. QED
    BY <2>1, <2>2 DEF Progress, Answered
<1>7. CASE UnexpectedAnswer
  <2>1. /\ UNCHANGED <<dev_addr, dev_conf, appkey, server, elm_address, config_step, request>>
        /\ answer' = NoAnswer
    BY <1>7 DEF UnexpectedAnswer, ram_vars, key_vars
  <2>2. QED
    BY <2>1 DEF Progress, Answered, Reached
<1>8. CASE RequestTimesOut \/ Reset
  <2>1. request' = NoRequest /\ answer' = NoAnswer
    BY <1>8 DEF RequestTimesOut, Reset
  <2>2. QED
    BY <2>1 DEF Progress, Answered
<1>9. CASE Unconcerned /\ ~DeviceComplete
  <2>1. UNCHANGED <<dev_addr, dev_conf, appkey, server, elm_address, config_step, request, answer>>
    BY <1>9 DEF Unconcerned, RequestScan, RequestedState, RequestStop,
                StopScan, StopTest, StopStore, UnprovReceived, LinkEstablished,
                CapsReceived, StaticRequest, ProvComplete, Abort, WriteRecord, WriteDsm,
                ram_vars, net_vars, key_vars
  <2>2. QED
    BY <2>1 DEF Progress, Answered, Reached
<1>10. CASE \E d \in Device : NodeAnswers(d)
  BY <1>2, <1>10
<1>11. QED
  BY <1>3, <1>4, <1>5, <1>6, <1>7, <1>8, <1>9, <1>10 DEF Next, Unconcerned

-----------------------------------------------------------------------------
\* The copy in RAM counts no more configured nodes than the persistent header.
Counted == header.nb_conf <= live[HeaderRecord].nb_conf

\* The inductive invariant
NodesInv == ProvInv /\ KeyKept /\ Room /\ EntriesKept /\ Setup /\ Progress /\ Counted /\ ~failed

\* It holds without a network.
LEMMA InitNodesInv == Init => NodesInv
<1> SUFFICES ASSUME Init PROVE NodesInv
  OBVIOUS
<1>1. ProvInv /\ KeyKept /\ Room /\ EntriesKept
  BY InitProvInv, InitKeyKept, InitEntries
<1>2. Setup /\ Progress /\ ~failed
  BY DEF Init, Setup, Progress, Answered
<1>3. HeaderRecord \in Record
  BY ProvisionerAssumption DEF HeaderRecord, Record
<1>4. Counted
  BY <1>3 DEF Init, FirstHeader, Counted
<1>5. QED
  BY <1>1, <1>2, <1>4 DEF NodesInv

\* The end of a configuration alone counts a node: the completion of another
\* stores a number that is not above.
LEMMA CountedKept ==
  ASSUME Orderly, NodesInv, Next
  PROVE  /\ Counted'
         /\ live'[HeaderRecord].nb_conf > live[HeaderRecord].nb_conf => NodeConfigSuccess /\ Accepted
<1> USE ProvisionerAssumption
<1>1. /\ Typed /\ Stored /\ Room /\ EntriesKept /\ ProvInv /\ header \in Headers /\ live[HeaderRecord] \in Headers
      /\ header.nb_conf <= live[HeaderRecord].nb_conf
  BY DEF NodesInv, ProvInv, Typed, Stored, Counted
<1>2. HeaderRecord \in Record
  BY DEF HeaderRecord, Record
<1>3. CASE ProvComplete /\ prov_state = "PROVISIONING"
  <2> DEFINE new_header == [header EXCEPT !.nb_prov = @ + 1,
                              !.next_address = NextAddress(link.addr, curr_node.nb_elm)]
             values == [r \in {HeaderRecord, NodeRecord(header.nb_prov)} |->
                          IF r = HeaderRecord THEN new_header ELSE CompletedNode]
  <2>1. header' = new_header /\ EntrySet(values)
    BY <1>3 DEF ProvComplete
  <2>2. live'[HeaderRecord] = header'
    BY <1>2, <2>1 DEF EntrySet
  <2>3. header'.nb_conf = header.nb_conf
    BY <1>1, <2>1 DEF Headers
  <2>4. QED
    BY <1>1, <2>2, <2>3 DEF Counted, Headers
<1>4. CASE NodeConfigSuccess /\ Accepted
  <2>1. /\ EntrySet([r \in {HeaderRecord} |-> [live[r] EXCEPT !.nb_conf = @ + 1]]) /\ header' = header
    BY <1>4 DEF NodeConfigSuccess
  <2>2. live'[HeaderRecord] = [live[HeaderRecord] EXCEPT !.nb_conf = @ + 1]
    BY <1>2, <2>1 DEF EntrySet
  <2>3. live'[HeaderRecord].nb_conf = live[HeaderRecord].nb_conf + 1
    BY <1>1, <2>2 DEF Headers
  <2>4. QED
    BY <1>1, <1>4, <2>1, <2>3 DEF Counted, Headers
<1>5. CASE Reset
  <2>1. CASE PROV_ELM_ADDRESS \in flash_dsm
    <3>1. header' = live[HeaderRecord] /\ live'[HeaderRecord] = live[HeaderRecord]
      BY <1>1, <1>5, <2>1, FetchFinds
    <3>2. QED
      BY <1>1, <3>1 DEF Counted, Headers
  <2>2. CASE PROV_ELM_ADDRESS \notin flash_dsm
    <3>1. header' = FirstHeader(appkey') /\ live' = [flash EXCEPT ![HeaderRecord] = header']
      BY <1>5, <2>2 DEF Reset, Generate
    <3>2. live'[HeaderRecord] = header' /\ header'.nb_conf = 0
      BY <1>1, <1>2, <3>1 DEF Stored, FirstHeader
    <3>3. QED
      BY <1>1, <3>2 DEF Counted, Headers
  <2>3. QED
    BY <2>1, <2>2
<1>6. CASE /\ ~(ProvComplete /\ prov_state = "PROVISIONING")
           /\ ~(NodeConfigSuccess /\ Accepted) /\ ~Reset
  <2>1. UNCHANGED <<header, live>>
    BY <1>6 DEF Next, RequestScan, RequestedState, RequestStop,
                StopScan, StopTest, StopStore, UnprovReceived, LinkEstablished,
                CapsReceived, StaticRequest, DeviceComplete, ProvComplete, Abort, LinkClosed, NodeAnswers,
                NextStep, NodeConfigSuccess, UnexpectedAnswer, RequestTimesOut, WriteRecord, WriteDsm,
                ram_vars
  <2>2. QED
    BY <1>1, <2>1 DEF Counted, Headers
<1>7. QED
  BY <1>3, <1>4, <1>5, <1>6

\* No second link is opened, no answer is a refusal, every address is found.
LEMMA NothingFails ==
  ASSUME Orderly, NodesInv, Next
  PROVE  ~failed'
<1>1. CASE \E d \in Device : UnprovReceived(d)
  BY <1>1 DEF UnprovReceived, NodesInv, Setup
<1>2. CASE NextStep \/ NodeConfigSuccess
  <2>1. Accepted
    BY <1>2 DEF NextStep, NodeConfigSuccess, Accepted, NodesInv, Progress
  <2>2. QED
    BY <1>2, <2>1 DEF NextStep, NodeConfigSuccess, NodesInv
<1>3. CASE Reset
  BY <1>3, ResetKeepsEntries DEF NodesInv
<1>4. CASE ~NextStep /\ ~NodeConfigSuccess /\ ~Reset /\ ~(\E d \in Device : UnprovReceived(d))
  <2>1. failed' = failed
    BY <1>4 DEF Next, RequestScan, RequestedState, RequestStop,
                StopScan, StopTest, StopStore, LinkEstablished,
                CapsReceived, StaticRequest, DeviceComplete, ProvComplete, Abort, LinkClosed, NodeAnswers,
                UnexpectedAnswer, RequestTimesOut, WriteRecord, WriteDsm, ram_vars
  <2>2. QED
    BY <2>1 DEF NodesInv
<1>5. QED
  BY <1>1, <1>2, <1>3, <1>4

\* Every step keeps the invariant.
LEMMA NodesStepKeeps == Orderly /\ NodesInv /\ [Next]_vars => NodesInv'
<1> SUFFICES ASSUME Orderly, NodesInv, [Next]_vars PROVE NodesInv'
  OBVIOUS
<1>1. ProvInv /\ KeyKept /\ Room /\ EntriesKept /\ Setup /\ Progress /\ Counted
  BY DEF NodesInv
<1>2. ProvInv' /\ KeyKept'
  BY <1>1, ProvStepKeeps, KeyStepKeeps
<1>3. CASE Next
  BY <1>1, <1>2, <1>3, RoomKept, EntriesStepKept, SetupKept, ProgressKept, CountedKept, NothingFails DEF NodesInv
<1>4. CASE UNCHANGED vars
  <2>1. UNCHANGED <<scanning, thread, prov_state, header, link, handles, live, dirty, flash, dsm, dev_addr,
                    curr_node, failed, request, answer, config_step, server, elm_address, dev_conf, appkey>>
    BY <1>4 DEF vars, ram_vars, disk_vars, net_vars, key_vars
  <2>2. Room' /\ EntriesKept'
    BY <1>1, <2>1 DEF Room, EntriesKept, Entry, Underway, Provisioned, Recorded, NodeRecord, HeaderRecord
  <2>3. Setup' /\ Progress' /\ Counted' /\ ~failed'
    BY <1>1, <2>1 DEF NodesInv, Setup, Progress, Answered, Reached, Counted, HeaderRecord
  <2>4. QED
    BY <1>2, <2>2, <2>3 DEF NodesInv
<1>5. QED
  BY <1>3, <1>4

\* No APP_ERROR_CHECK of the Provisioner fails, and no assertion on the status
\* of an answer (config_client_msg_handler): every request comes when the node
\* accepts it, however often answers are repeated.
THEOREM NoErrorCheckEverFails == Orderly => (Spec => []NoErrorCheckFails)
<1> SUFFICES ASSUME Orderly PROVE Spec => []NoErrorCheckFails
  OBVIOUS
<1>1. NodesInv /\ [Next]_vars => NodesInv'
  BY NodesStepKeeps
<1>2. NodesInv => NoErrorCheckFails
  BY DEF NodesInv, NoErrorCheckFails
<1>3. QED
  BY InitNodesInv, <1>1, <1>2, PTL DEF Spec

\* A node is counted as configured only once it has the key of the network, the
\* bindings, the publications and the subscriptions of all its models
\* (node_config_success).
THEOREM OnlyConfiguredCounted == Orderly => (Spec => ConfiguredMeansApplied)
<1> SUFFICES ASSUME Orderly PROVE Spec => ConfiguredMeansApplied
  OBVIOUS
<1>1. NodesInv /\ [Next]_vars => NodesInv'
  BY NodesStepKeeps
<1>2. NodesInv /\ [Next]_vars =>
        [live'[HeaderRecord].nb_conf > live[HeaderRecord].nb_conf =>
           \E d \in Device : dev_addr[d] = elm_address /\ Configured(d)]_vars
  <2> SUFFICES ASSUME NodesInv, Next, live'[HeaderRecord].nb_conf > live[HeaderRecord].nb_conf
               PROVE  \E d \in Device : dev_addr[d] = elm_address /\ Configured(d)
    OBVIOUS
  <2>1. NodeConfigSuccess
    BY CountedKept
  <2>2. request = NoRequest /\ answer # NoAnswer /\ config_step = 11
    BY <2>1, StepFacts, ExpectedIsLast DEF NodeConfigSuccess, NodesInv, ProvInv
  <2>3. Answered /\ elm_address = server
    BY <2>2 DEF Answered, NodesInv, Progress
  <2>4. PICK d \in Device : dev_addr[d] = server
    BY <2>3 DEF NodesInv, Progress
  <2>5. Reached(dev_conf[d], 11) /\ dev_conf[d] \in Keys /\ appkey = dsm_appkey
    BY <2>2, <2>3, <2>4 DEF NodesInv, Progress, KeyKept
  <2>6. Configured(d)
    <3>1. dev_conf[d].appkey = dsm_appkey /\ dev_conf[d].bound = Model /\ dev_conf[d].subscribed = LuosModel
      BY <2>5 DEF Reached, Keys, Model, LuosModel
    <3>2. dev_conf[d].target = [m \in Model |-> IF m = "health" THEN "provisioner" ELSE "group"]
      BY <2>5 DEF Reached, Keys, Model, LuosModel
    <3>3. QED
      BY <3>1, <3>2 DEF Configured
  <2>7. QED
    BY <2>3, <2>4, <2>6
<1>3. QED
  BY InitNodesInv, <1>1, <1>2, PTL DEF Spec, ConfiguredMeansApplied

-----------------------------------------------------------------------------
\* The types that no invariant above relies on
Rest ==
  /\ prov_state \in {"IDLE", "SCANNING", "PROVISIONING", "COMPLETE"}
  /\ scanning \in BOOLEAN /\ thread \in {"idle", "state", "stop", "stopped"}
  /\ elm_address \in Nat /\ server \in Nat
  /\ DOMAIN live = Record /\ dirty \subseteq Record

\* Every step keeps them: the address of a configured node is that of an entry.
LEMMA RestKept ==
  ASSUME Orderly, NodesInv, Rest, Next
  PROVE  Rest'
<1> USE ProvisionerAssumption
<1>1. /\ ProvInv /\ Typed /\ Room /\ EntriesKept /\ MaxNodes \in Nat
      /\ header.nb_prov \in Nat /\ header.nb_prov <= MaxNodes
  BY DEF NodesInv, ProvInv, Typed, Headers, Room
<1>2. /\ prov_state' \in {"IDLE", "SCANNING", "PROVISIONING", "COMPLETE"}
      /\ scanning' \in BOOLEAN /\ thread' \in {"idle", "state", "stop", "stopped"}
  BY DEF Rest, Next, RequestScan, RequestedState, RequestStop,
         StopScan, StopTest, StopStore, UnprovReceived, LinkEstablished,
         CapsReceived, StaticRequest, DeviceComplete, ProvComplete, Abort, LinkClosed, ScanStart, NodeAnswers,
         NextStep, NodeConfigSuccess, UnexpectedAnswer, RequestTimesOut, WriteRecord, WriteDsm, Reset,
         ram_vars
<1>3. elm_address' \in Nat /\ server' \in Nat
  <2>1. CASE LinkClosed /\ prov_state = "COMPLETE"
    <3>1. curr_node.first_addr \in Nat
      BY <1>1 DEF Typed, Node
    <3>2. header.nb_prov - 1 \in 0 .. MaxNodes - 1
      BY <1>1, <2>1 DEF NodesInv, KeyKept
    <3>3. handles[header.nb_prov - 1] \in Nat
      BY <1>1, <3>2 DEF EntriesKept
    <3>4. QED
      BY <2>1, <3>1, <3>3 DEF LinkClosed, NodeConfigStart, Rest
  <2>2. CASE Reset
    BY <2>2 DEF Reset
  <2>3. CASE ~(LinkClosed /\ prov_state = "COMPLETE") /\ ~Reset
    <3>1. UNCHANGED <<elm_address, server>>
      BY <2>3 DEF Next, RequestScan, RequestedState, RequestStop,
                  StopScan, StopTest, StopStore, UnprovReceived, LinkEstablished,
                  CapsReceived, StaticRequest, DeviceComplete, ProvComplete, Abort, LinkClosed, NodeAnswers,
                  NextStep, NodeConfigSuccess, UnexpectedAnswer, RequestTimesOut, WriteRecord, WriteDsm,
                  ram_vars
    <3>2. QED
      BY <3>1 DEF Rest
  <2>4. QED
    BY <2>1, <2>2, <2>3
<1>4. DOMAIN live' = Record /\ dirty' \subseteq Record
  <2>1. HeaderRecord \in Record
    BY DEF HeaderRecord, Record
  <2>2. CASE ProvComplete /\ prov_state = "PROVISIONING"
    <3> DEFINE new_header == [header EXCEPT !.nb_prov = @ + 1,
                                !.next_address = NextAddress(link.addr, curr_node.nb_elm)]
               values == [r \in {HeaderRecord, NodeRecord(header.nb_prov)} |->
                            IF r = HeaderRecord THEN new_header ELSE CompletedNode]
    <3>1. EntrySet(values)
      BY <2>2 DEF ProvComplete
    <3>2. NodeRecord(header.nb_prov) \in Record
      BY <1>1, <2>2 DEF Room, NodeRecord, HeaderRecord, Record
    <3>3. DOMAIN values \subseteq Record
      BY <2>1, <3>2
    <3>4. QED
      BY <3>1, <3>3 DEF EntrySet, Rest
  <2>3. CASE NodeConfigSuccess
    BY <2>1, <2>3 DEF NodeConfigSuccess, EntrySet, Rest
  <2>4. CASE Reset
    BY <1>1, <2>1, <2>4 DEF Reset, Fetch, Generate, ProvInv, Stored
  <2>5. CASE WriteRecord
    BY <2>5 DEF WriteRecord, Rest, ram_vars
  <2>6. CASE ~(ProvComplete /\ prov_state = "PROVISIONING") /\ ~NodeConfigSuccess /\ ~Reset /\ ~WriteRecord
    <3>1. UNCHANGED <<live, dirty>>
      BY <2>6 DEF Next, RequestScan, RequestedState, RequestStop,
                  StopScan, StopTest, StopStore, UnprovReceived, LinkEstablished,
                  CapsReceived, StaticRequest, DeviceComplete, ProvComplete, Abort, LinkClosed, NodeAnswers,
                  NextStep, UnexpectedAnswer, RequestTimesOut, WriteDsm, ram_vars, disk_vars
    <3>2. QED
      BY <3>1 DEF Rest
  <2>7. QED
    BY <2>2, <2>3, <2>4, <2>5, <2>6
<1>5. QED
  BY <1>2, <1>3, <1>4 DEF Rest

\* The types; the arrays of MaxNodes nodes are never overrun, nor are the
\* entries of the configuration file (LUOS_MESH_NETWORK_MAX_NODES).
THEOREM ProvTypeCorrect == Orderly => (Spec => []ProvTypeOK)
<1> SUFFICES ASSUME Orderly PROVE Spec => []ProvTypeOK
  OBVIOUS
<1>1. Init => NodesInv /\ Rest
  <2> SUFFICES ASSUME Init PROVE NodesInv /\ Rest
    OBVIOUS
  <2>1. HeaderRecord \in Record
    BY ProvisionerAssumption DEF HeaderRecord, Record
  <2>2. DOMAIN live = Record /\ dirty \subseteq Record
    BY <2>1 DEF Init
  <2>3. QED
    BY <2>2, InitNodesInv DEF Init, Rest
<1>2. NodesInv /\ Rest /\ [Next]_vars => (NodesInv /\ Rest)'
  <2> SUFFICES ASSUME NodesInv, Rest, [Next]_vars PROVE Rest'
    BY NodesStepKeeps
  <2>1. CASE Next
    BY <2>1, RestKept
  <2>2. CASE UNCHANGED vars
    BY <2>2 DEF vars, ram_vars, disk_vars, Rest
  <2>3. QED
    BY <2>1, <2>2
<1>3. NodesInv /\ Rest => ProvTypeOK
  <2> SUFFICES ASSUME NodesInv, Rest PROVE ProvTypeOK
    OBVIOUS
  <2>1. /\ Typed /\ Stored /\ Room /\ EntriesKept /\ KeyKept /\ failed = FALSE
    BY DEF NodesInv, ProvInv
  <2>2. header \in Header
    <3>1. header.nb_prov \in 0 .. MaxNodes /\ header \in Headers
      BY <2>1, ProvisionerAssumption DEF Typed, Room, Headers
    <3>2. QED
      BY <3>1 DEF Headers, Header
  <2>3. \A d \in Device : dev_conf[d].bound \subseteq Model /\ dev_conf[d].subscribed \subseteq Model
    BY <2>1 DEF KeyKept, Keys, Model
  <2>4. QED
    BY <2>1, <2>2, <2>3 DEF ProvTypeOK, Rest, Typed, Stored, EntriesKept
<1>4. QED
  BY <1>1, <1>2, <1>3, PTL DEF Spec
=============================================================================
