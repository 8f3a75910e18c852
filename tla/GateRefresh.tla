----------------------------- MODULE GateRefresh -----------------------------
(***************************************************************************)
(* The JSON that the Gate prints for its host: the main loop turns the     *)
(* messages of containers into JSON and adds it to the buffer of the       *)
(* refresh context, which the refresh timer prints and empties before it   *)
(* asks sensors for more (gate.c, json_mnger.c, convert.c).                *)
(*                                                                         *)
(* The timer interrupt preempts the main loop anywhere. The loop updates   *)
(* the buffer with sprintf, onto itself: the test of its first character,  *)
(* the search for its end and the copy of the text are separate steps. The *)
(* module starts where the first detection started the timer. Both print   *)
(* with printf, so a line of the loop may have one of the timer within it. *)
(* JSON is the sequence of its brackets, commas, keys, numbers and fields; *)
(* a reading is its rank. The buffers have JSON_BUFF_SIZE characters and   *)
(* are filled by sprintf, which does not know: what it writes behind their *)
(* ends is not modelled, and no property speaks of what comes after.       *)
(* Commands, and when a detection is due, are in GateCommands.             *)
(***************************************************************************)
EXTENDS Integers, Sequences, SequencesExt, FiniteSets, Functions, Selections

CONSTANTS
  Container,     \* the containers with an alias in the routing table
  Sensor,        \* those that are asked to publish
  Boards,        \* the containers of each board but that of the Gate
  Ports,         \* how many ports of a board, from the first, have a neighbour
  JsonSize,      \* tokens that fit in JSON_BUFF_SIZE characters
  TableSize,     \* tokens that fit in the buffer of the routing table
  MaxKeepAlive,  \* MAX_KEEP_ALIVE
  MaxReadings,   \* readings that sensors publish
  MaxOthers,     \* messages that yield no field, and assertions
  MaxDead        \* containers that stop answering

ASSUME RefreshAssumption ==
  /\ Sensor \subseteq Container /\ Boards \in Seq(Seq(Container))
  /\ Ports \subseteq 0 .. 4
  /\ {JsonSize, TableSize, MaxKeepAlive, MaxReadings, MaxOthers, MaxDead} \subseteq Nat

VARIABLES
  known,        \* containers still in the routing table
  asked,        \* sensors whose answer is on its way
  inbox,        \* messages that the loop has not read
  thread,       \* the main loop, with its json and where it writes it
  refresh_json, \* s_gate_refresh_ctx.json, up to its first NUL
  keep_alive,   \* s_gate_refresh_ctx.keep_alive
  line,         \* the last line whose printing began
  printing,     \* the loop has not finished printing its line
  mixed,        \* auxiliary: the last line was printed within another
  printed,      \* auxiliary: the readings printed
  read,         \* auxiliary: the readings taken from the inbox
  collided,     \* auxiliary: the timer expired during an update of the buffer
  overrun,      \* auxiliary: a text was written behind the end of its buffer
  readings, others

ctx_vars == <<refresh_json, keep_alive>>
line_vars == <<line, printing, mixed>>
aux_vars == <<printed, read, collided, overrun>>
msg_vars == <<asked, inbox, readings, others>>
vars == <<known, msg_vars, thread, ctx_vars, line_vars, aux_vars>>

Open     == [token |-> "open"]
Close    == [token |-> "close"]
List     == [token |-> "list"]
End      == [token |-> "end"]
Comma    == [token |-> "comma"]
Number   == [token |-> "number"]
Key(k)   == [token |-> "key", of |-> k]
Field(r) == [token |-> "field", of |-> r]

Message(c, kind, rank) == [source |-> c, kind |-> kind, rank |-> rank]
At(pc, json) == [pc |-> pc, json |-> json, at |-> 0]

Init ==
  /\ known = Container /\ asked = {} /\ inbox = <<>>
  /\ thread = At("start", <<>>)
  /\ refresh_json = <<>> /\ keep_alive = 0
  /\ line = <<Open, Close>> /\ printing = FALSE /\ mixed = FALSE
  /\ printed = <<>> /\ read = <<>>
  /\ collided = FALSE /\ overrun = FALSE /\ readings = 0 /\ others = 0

-----------------------------------------------------------------------------
\* The containers

\* A sensor publishes what it was asked for.
Publish(c) ==
  /\ c \in asked
  /\ readings < MaxReadings
  /\ readings' = readings + 1
  /\ asked' = asked \ {c}
  /\ inbox' = Append(inbox, Message(c, "reading", readings'))
  /\ UNCHANGED <<known, others, thread, ctx_vars, line_vars, aux_vars>>

\* An assertion, or a message that has no JSON.
SendOther(c, kind) ==
  /\ others < MaxOthers
  /\ others' = others + 1
  /\ inbox' = Append(inbox, Message(c, kind, 0))
  /\ UNCHANGED <<known, asked, readings, thread, ctx_vars, line_vars, aux_vars>>

-----------------------------------------------------------------------------
\* Gate_Loop

\* The loop has come to a step, and prints nothing.
Runs(pc) == thread.pc = pc /\ ~printing

\* json_send: the loop begins to print a line,
StartPrint(json) == line' = json /\ printing' = TRUE /\ mixed' = FALSE

\* and has printed it.
PrintEnds ==
  /\ printing
  /\ printing' = FALSE
  /\ UNCHANGED <<known, msg_vars, thread, ctx_vars, line, mixed, aux_vars>>

\* exclude_container_to_json: a dead container is reported and removed from
\* the routing table.
Exclude(c) ==
  /\ known' = known \ {c}
  /\ StartPrint(<<Open, Field("dead_container"), Close>>)

\* The start of the loop, behind its end or behind the routing table
StartLoop ==
  /\ Runs("start") \/ Runs("loop")
  /\ \/ UNCHANGED <<known, line_vars>>
     \/ /\ Cardinality(Container \ known) < MaxDead
        /\ \E c \in known : Exclude(c)
  /\ thread' = At("format", <<>>)
  /\ UNCHANGED <<msg_vars, ctx_vars, aux_vars>>

\* msg_to_json: a message with a known command and the size of its contents
\* yields a field, and a comma behind it.
Fields(msg) == IF msg.kind = "reading" THEN <<Field(msg.rank), Comma>> ELSE <<>>

\* Mutant of TrimComma: a comma is removed from empty sections only.
TrimNothing(json) == json

\* "remove the last , char"
TrimComma(json) == IF Last(json) = Comma THEN Front(json) ELSE json

\* The part of a container: all its messages in the inbox.
Section(c, msgs) ==
  TrimComma(<<Open, Key(c), Open>> \o FlattenSeq([i \in DOMAIN msgs |-> Fields(msgs[i])]))
    \o <<Close, Comma>>

ReadingOf(msg) == IF msg.kind = "reading" THEN <<msg.rank>> ELSE <<>>

Readings(msgs) == FlattenSeq([i \in DOMAIN msgs |-> ReadingOf(msgs[i])])

\* Mutant of Unread: the messages that Luos_ReadFromContainer returned stay.
UnreadButFirst(c) == Tail(inbox)

\* What is left when a container has been read
Unread(c) == Selected(inbox, {i \in DOMAIN inbox : inbox[i].source # c})

\* format_data: the oldest message. An assertion is printed by itself; one
\* that follows another message of its container is not recognized.
FormatAssert ==
  /\ Runs("format") /\ inbox # <<>>
  /\ Head(inbox).kind = "assert"
  /\ inbox' = Tail(inbox)
  /\ StartPrint(<<Open, Key("assert"), Open, Field(Head(inbox).source), Close, Close>>)
  /\ UNCHANGED <<known, asked, readings, others, thread, ctx_vars, aux_vars>>

\* ... of a container that has no alias: it is dropped
FormatUnknown ==
  /\ Runs("format") /\ inbox # <<>>
  /\ Head(inbox).kind # "assert" /\ Head(inbox).source \notin known
  /\ inbox' = Tail(inbox)
  /\ UNCHANGED <<known, asked, readings, others, thread, ctx_vars, line_vars, aux_vars>>

\* ... of another container, with those that follow it
FormatSection ==
  /\ Runs("format") /\ inbox # <<>>
  /\ Head(inbox).kind # "assert" /\ Head(inbox).source \in known
  /\ LET c    == Head(inbox).source
         msgs == Selected(inbox, {i \in DOMAIN inbox : inbox[i].source = c})
     IN /\ thread' = [thread EXCEPT !.json = @ \o Section(c, msgs)]
        /\ read' = read \o Readings(msgs)
        /\ inbox' = Unread(c)
        /\ overrun' = (overrun \/ Len(thread'.json) > JsonSize)
  /\ UNCHANGED <<known, asked, readings, others, ctx_vars, line_vars, printed, collided>>

\* ... no message left: the section is closed
FormatEnd ==
  /\ Runs("format") /\ inbox = <<>>
  /\ thread' = IF thread.json = <<>> THEN At("loop", <<>>)
               ELSE At("test", TrimComma(thread.json) \o <<Close>>)
  /\ UNCHANGED <<known, msg_vars, ctx_vars, line_vars, aux_vars>>

\* Mutant of TestBuffer: the text is added to an empty buffer only.
AddToEmpty ==
  /\ Runs("test")
  /\ thread' = IF refresh_json = <<>>
               THEN At("write", <<Open, Key("containers")>> \o thread.json)
               ELSE At("loop", <<>>)
  /\ UNCHANGED <<known, msg_vars, ctx_vars, line_vars, aux_vars>>

\* The test of the first character of the buffer
TestBuffer ==
  /\ Runs("test")
  /\ thread' = IF refresh_json = <<>>
               THEN At("write", <<Open, Key("containers")>> \o thread.json)
               ELSE At("seek", <<Comma>> \o thread.json)
  /\ UNCHANGED <<known, msg_vars, ctx_vars, line_vars, aux_vars>>

\* sprintf of the buffer onto itself: its end is looked for
SeekEnd ==
  /\ Runs("seek")
  /\ thread' = [thread EXCEPT !.pc = "write", !.at = Len(refresh_json)]
  /\ UNCHANGED <<known, msg_vars, ctx_vars, line_vars, aux_vars>>

\* ... and the text is copied there, at once or in pieces, also behind the end
\* of the buffer. If the buffer was emptied since, it is behind a NUL and never
\* seen.
WriteText ==
  /\ Runs("write")
  /\ \E k \in {(Len(thread.json) + 1) \div 2, Len(thread.json)} :
       /\ refresh_json' = IF thread.at = Len(refresh_json)
                          THEN refresh_json \o SubSeq(thread.json, 1, k)
                          ELSE refresh_json
       /\ thread' = IF k = Len(thread.json) THEN At("loop", <<>>)
                    ELSE [thread EXCEPT !.json = SubSeq(@, k + 1, Len(@)), !.at = @ + k]
       /\ overrun' = (overrun \/ thread.at + k > JsonSize)
  /\ UNCHANGED <<known, msg_vars, keep_alive, line_vars, printed, read, collided>>

\* The port loop of routing_table_to_json: "remove the last , char" at the first
\* port without a neighbour.
PortList(ports) ==
  LET text == <<List>> \o FlattenSeq([p \in 1 .. ports |-> <<Number, Comma>>])
  IN IF ports < 4 THEN Front(text) ELSE text

\* routing_table_to_json: a list of nodes, each with the list of its ports and
\* the list of its containers, whose last commas are removed.
NodeJson(containers, ports) ==
  Front(<<Open, Field("node"), Comma, Key("port_table")>> \o PortList(ports)
          \o <<End, Comma, Key("containers"), List>>
          \o FlattenSeq([i \in DOMAIN containers |-> <<Open, Field(containers[i]), Close, Comma>>]))
    \o <<End, Close, Comma>>

RoutingTableJson(nodes, ports) ==
  Front(<<Open, Key("routing_table"), List>>
          \o FlattenSeq([i \in DOMAIN nodes |-> NodeJson(nodes[i], ports[i])]))
    \o <<End, Close>>

\* The routing table after a detection: the board of the Gate, and those with
\* containers that answer. Ports are as the detection finds them.
Alive(board) == Selected(board, {i \in DOMAIN board : board[i] \in known})

Nodes ==
  LET alive == [i \in DOMAIN Boards |-> Alive(Boards[i])]
  IN <<<<"gate">>>> \o Selected(alive, {i \in DOMAIN alive : alive[i] # <<>>})

\* The end of the loop, when a detection was asked for.
PrintTable ==
  /\ Runs("loop")
  /\ \E ports \in [DOMAIN Nodes -> Ports] : StartPrint(RoutingTableJson(Nodes, ports))
  /\ overrun' = (overrun \/ Len(line') > TableSize)
  /\ thread' = At("start", <<>>)
  /\ UNCHANGED <<known, msg_vars, ctx_vars, printed, read, collided>>

Loop ==
  \/ PrintEnds
  \/ StartLoop \/ FormatAssert \/ FormatUnknown \/ FormatSection \/ FormatEnd
  \/ TestBuffer \/ SeekEnd \/ WriteText

-----------------------------------------------------------------------------
\* Gate_TimerEventHandler

RankOf(t) == IF t.token = "field" THEN <<t.of>> ELSE <<>>

RanksIn(json) == FlattenSeq([i \in DOMAIN json |-> RankOf(json[i])])

\* Mutant of LongQuiet: the maximum is left out of the count.
TooLongQuiet == keep_alive > MaxKeepAlive + 1

\* Nothing was printed for a while.
LongQuiet == keep_alive > MaxKeepAlive

\* collect_data: every sensor of the routing table is asked.
Collect == asked' = known \cap Sensor

\* json_send in the interrupt: a line that the loop prints has it within.
PrintWithin(json) == line' = json /\ mixed' = printing

\* The buffer is printed, or else a sign of life once in a while, and sensors
\* are asked to publish. keep_alive stays above its maximum until something
\* is printed.
Refresh ==
  /\ IF refresh_json # <<>>
     THEN /\ PrintWithin(refresh_json \o <<Close>>)
          /\ printed' = printed \o RanksIn(refresh_json)
          /\ keep_alive' = 0
          /\ overrun' = (overrun \/ Len(line') > JsonSize)
     ELSE /\ UNCHANGED <<printed, overrun>>
          /\ IF LongQuiet
             THEN PrintWithin(<<Open, Close>>) /\ UNCHANGED keep_alive
             ELSE keep_alive' = keep_alive + 1 /\ UNCHANGED <<line, mixed>>
  /\ collided' = (collided \/ (refresh_json # <<>> /\ thread.pc \in {"seek", "write"}))
  /\ refresh_json' = <<>>
  /\ Collect
  /\ UNCHANGED <<known, inbox, thread, printing, read, readings, others>>

Next ==
  \/ \E c \in Container : Publish(c)
  \/ \E c \in Container : \E kind \in {"assert", "other"} : SendOther(c, kind)
  \/ Loop \/ PrintTable
  \/ Refresh

\* The main loop runs and the timer, which is repeated, expires. Containers
\* need not answer.
Spec == Init /\ [][Next]_vars /\ WF_vars(Loop) /\ WF_vars(Refresh)
-----------------------------------------------------------------------------
\* Types; the keep-alive counter, which follows the buffer in the context, stops.
RefreshTypeOK ==
  /\ known \subseteq Container /\ asked \subseteq Sensor
  /\ \A i \in DOMAIN inbox : inbox[i].source \in Container
  /\ thread.pc \in {"start", "loop", "format", "test", "seek", "write"} /\ thread.at \in Nat
  /\ overrun \/ keep_alive \in 0 .. MaxKeepAlive + 1
  /\ {printing, mixed, collided, overrun} \subseteq BOOLEAN
  /\ readings \in 0 .. MaxReadings /\ others \in 0 .. MaxOthers

\* "Sends the ASK_PUB_CMD messages and prints the received information"
\* (gate.c): every reading that was received is printed, waits in the buffer,
\* or is still in the hands of the loop, in order and once, until the timer
\* expires during an update of the buffer or a buffer is too small.
ReadingsKept ==
  \/ collided \/ overrun
  \/ /\ printed \o RanksIn(refresh_json) \o RanksIn(thread.json) = read
     /\ IsInjective(read)

\* The brackets that are open behind a token
After(stack, t) ==
  CASE t.token \in {"open", "list"} -> Append(stack, t.token)
    [] t.token \in {"close", "end"} /\ stack # <<>> -> Front(stack)
    [] OTHER -> stack

\* ... and behind the first tokens of a text
Nesting(json) ==
  LET open[i \in 0 .. Len(json)] == IF i = 0 THEN <<>> ELSE After(open[i - 1], json[i])
  IN open

\* What may follow what in JSON: an object has keys with objects or lists, or
\* fields; a list has objects or numbers.
MayFollow(t, u, inside) ==
  LET closing == IF inside = "open" THEN "close" ELSE "end"
  IN CASE t.token = "open"  -> u.token \in {"key", "field", "close"}
       [] t.token = "list"  -> u.token \in {"open", "number", "end"}
       [] t.token = "key"   -> u.token \in {"open", "list"}
       [] t.token = "comma" -> u.token \in IF inside = "open" THEN {"key", "field"} ELSE {"open", "number"}
       [] OTHER             -> u.token \in {"comma", closing}

IsJson(json) ==
  LET open == Nesting(json)
  IN /\ json[1] = Open
     /\ \A i \in 1 .. Len(json) - 1 :
          open[i] # <<>> /\ MayFollow(json[i], json[i + 1], Last(open[i]))
     /\ open[Len(json)] = <<>>

\* Nothing is said of a line that the timer printed within one of the loop, nor
\* after an update of the buffer was hit by the timer or went behind its end.
Disturbed == collided \/ overrun \/ mixed

\* "This function will create a json string for containers datas"
\* (json_mnger.c): what the host receives is JSON, when it is not disturbed.
LinesAreJson == Disturbed \/ IsJson(line)

Sections(json) == {i \in DOMAIN json : json[i].token = "key" /\ json[i].of \in Container}

\* It is JSON when a single container was heard between two expiries, with
\* any number of messages and fields, also none; and so is the routing table
\* (routing_table_to_json), also after containers died, when every board has
\* one to three neighbours on its first ports.
LoneSectionsAreJson == Disturbed \/ IsJson(line) \/ Cardinality(Sections(line)) > 1

PortsListed == Ports \subseteq 1 .. 3

\* Every reading that is received gets printed, unless its container dies, the
\* timer expires during an update of the buffer or a buffer is too small
\* (Gate_Loop, Gate_TimerEventHandler).
EveryReadingPrinted ==
  \A r \in 1 .. MaxReadings :
    readings >= r ~> collided \/ overrun \/ known # Container \/ r \in ToSet(printed)
=============================================================================
