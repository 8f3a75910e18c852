---------------------------- MODULE ExtRtb_proofs ----------------------------
(***************************************************************************)
(* For any number of nodes, containers, procedures, losses and restarts: a *)
(* node listens exactly as long as its reception timer runs, and as long   *)
(* as its tables are not cleared none of the assertions of the procedure   *)
(* fails. The invariant behind both ties the state of a node to the last   *)
(* published entry waiting in its queue. The types come next.              *)
(*                                                                         *)
(* Another part is about procedures that follow one another and lose       *)
(* nothing: no entry is stored twice, and each procedure extends all the   *)
(* tables. Its invariant says in which phase the procedure is, and splits  *)
(* the entries of a network into those stored, on their way and waiting.   *)
(* The last part is about replies that come late, among procedures that    *)
(* overlap.                                                                *)
(***************************************************************************)
EXTENDS ExtRtb, Selections_proofs, SequenceTheorems, TLAPS

\* Messages, typed as loosely as the proofs allow.
Msgs ==
  [cmd : {"GET"}, txn : Nat, to : SUBSET Node, round : Node \X Nat]
  \cup [cmd : {"STATUS", "STATUS_REPLY"}, txn : Nat, idx : Nat,
        to : SUBSET Node, round : Node \X Nat]

States == {"IDLE", "GETTING", "PUBLISHING", "RECEIVING"}
Pcs    == {"idle", "clear", "get", "timer", "state"}

Shape ==
  /\ curr_state \in [Node -> States]
  /\ curr_txn \in [Node -> Nat]
  /\ timer \in [Node -> BOOLEAN]
  /\ local_entries \in [Node -> Nat]
  /\ \A n \in Node : local_entries[n] \in {0, Own[n]}
  /\ thread \in [Node -> Pcs]
  /\ out \in [Node -> Seq(Msgs)]
  /\ on_air \in [Node -> BOOLEAN]
  /\ \A n \in Node : on_air[n] => out[n] # <<>>
  /\ chan \in [Node -> [Node -> Seq(Msgs)]]
  /\ failed \in [Node -> BOOLEAN]
  /\ rounds \in [Node -> Nat]
  /\ cleared \in [Node -> BOOLEAN]

\* The message whose completion ends a publication of n, when the table is
\* filled.
IsEnd(n, msg) == msg.cmd = "STATUS" /\ msg.idx = Own[n] - 1

NoEnd(n, s)      == \A i \in 1 .. Len(s) : ~IsEnd(n, s[i])
AtMostOneEnd(n, s) == \A i, j \in 1 .. Len(s) : IsEnd(n, s[i]) /\ IsEnd(n, s[j]) => i = j

Listening(n) == curr_state[n] \in {"GETTING", "RECEIVING"}

\* The timer follows the state, but for the main thread between its start and
\* the new state.
TimerFollows(n) == IF thread[n] = "state" THEN timer[n] ELSE timer[n] <=> Listening(n)

EngagesFromIdle(n) == thread[n] # "idle" => curr_state[n] \in {"IDLE", "RECEIVING"}

\* Only a publishing node has an end of publication to send, and only one.
EndIsPublished(n) ==
  /\ AtMostOneEnd(n, out[n])
  /\ curr_state[n] # "PUBLISHING" => NoEnd(n, out[n])

NodeInv(n) == ~failed[n] => TimerFollows(n) /\ EngagesFromIdle(n) /\ EndIsPublished(n)

RtbInv == Shape /\ \A n \in Node : NodeInv(n)

-----------------------------------------------------------------------------
\* Queues of messages.

LEMMA TailKeepsEnds ==
  ASSUME NEW n \in Node, NEW s \in Seq(Msgs), s # <<>>
  PROVE  /\ Tail(s) \in Seq(Msgs)
         /\ NoEnd(n, s) => NoEnd(n, Tail(s))
         /\ AtMostOneEnd(n, s) => AtMostOneEnd(n, Tail(s))
         /\ AtMostOneEnd(n, s) /\ IsEnd(n, Head(s)) => NoEnd(n, Tail(s))
<1>1. /\ Tail(s) \in Seq(Msgs)
      /\ Len(Tail(s)) = Len(s) - 1
      /\ \A i \in 1 .. Len(Tail(s)) : Tail(s)[i] = s[i + 1]
  BY HeadTailProperties
<1>2. Len(s) \in Nat \ {0} /\ Head(s) = s[1]
  BY EmptySeq, LenProperties
<1>3. NoEnd(n, s) => NoEnd(n, Tail(s))
  BY <1>1, <1>2 DEF NoEnd
<1>4. AtMostOneEnd(n, s) => AtMostOneEnd(n, Tail(s))
  BY <1>1, <1>2 DEF AtMostOneEnd
<1>5. AtMostOneEnd(n, s) /\ IsEnd(n, Head(s)) => NoEnd(n, Tail(s))
  BY <1>1, <1>2 DEF AtMostOneEnd, NoEnd
<1>6. QED
  BY <1>1, <1>3, <1>4, <1>5

LEMMA AppendKeepsEnds ==
  ASSUME NEW n \in Node, NEW s \in Seq(Msgs), NEW m \in Msgs, m.cmd # "STATUS"
  PROVE  /\ Append(s, m) \in Seq(Msgs)
         /\ NoEnd(n, s) => NoEnd(n, Append(s, m))
         /\ AtMostOneEnd(n, s) => AtMostOneEnd(n, Append(s, m))
<1>1. /\ Append(s, m) \in Seq(Msgs)
      /\ Len(Append(s, m)) = Len(s) + 1
      /\ \A i \in 1 .. Len(s) : Append(s, m)[i] = s[i]
      /\ Append(s, m)[Len(s) + 1] = m
      /\ Len(s) \in Nat
  BY AppendProperties, LenProperties
<1>2. ~IsEnd(n, m)
  BY DEF IsEnd
<1>3. QED
  BY <1>1, <1>2 DEF NoEnd, AtMostOneEnd

LEMMA ConcatKeepsEnds ==
  ASSUME NEW n \in Node, NEW s \in Seq(Msgs), NEW t \in Seq(Msgs)
  PROVE  /\ s \o t \in Seq(Msgs)
         /\ NoEnd(n, s) /\ NoEnd(n, t) => NoEnd(n, s \o t)
         /\ AtMostOneEnd(n, s) /\ NoEnd(n, t) => AtMostOneEnd(n, s \o t)
         /\ NoEnd(n, s) /\ AtMostOneEnd(n, t) => AtMostOneEnd(n, s \o t)
<1>1. /\ s \o t \in Seq(Msgs)
      /\ Len(s \o t) = Len(s) + Len(t)
      /\ \A i \in 1 .. Len(s) + Len(t) :
           (s \o t)[i] = IF i <= Len(s) THEN s[i] ELSE t[i - Len(s)]
      /\ Len(s) \in Nat /\ Len(t) \in Nat
  BY ConcatProperties, LenProperties
<1>2. NoEnd(n, s) /\ NoEnd(n, t) => NoEnd(n, s \o t)
  BY <1>1 DEF NoEnd
<1>3. AtMostOneEnd(n, s) /\ NoEnd(n, t) => AtMostOneEnd(n, s \o t)
  BY <1>1 DEF NoEnd, AtMostOneEnd
<1>4. NoEnd(n, s) /\ AtMostOneEnd(n, t) => AtMostOneEnd(n, s \o t)
  BY <1>1 DEF NoEnd, AtMostOneEnd
<1>5. QED
  BY <1>1, <1>2, <1>3, <1>4

\* What luos_rtb_model_reply_entries and luos_rtb_model_publish_entries queue:
\* one message per local entry, in the order of the table.
LEMMA EntriesAreOrdered ==
  ASSUME Shape, NEW n \in Node, NEW cmd \in {"STATUS", "STATUS_REPLY"},
         NEW to \in SUBSET Node, NEW txn \in Nat, NEW round \in Node \X Nat
  PROVE  LET s == Entries(n, cmd, to, txn, round)
         IN  /\ s \in Seq(Msgs)
             /\ AtMostOneEnd(n, s)
             /\ cmd = "STATUS_REPLY" => NoEnd(n, s)
             /\ \A i \in 1 .. Len(s) : s[i].cmd = cmd
<1>. DEFINE s == Entries(n, cmd, to, txn, round)
<1>1. local_entries[n] \in Nat
  BY DEF Shape
<1>2. \A i \in 1 .. local_entries[n] : s[i] \in Msgs
  BY <1>1 DEF Entries, Msgs
<1>3. s \in Seq(Msgs) /\ Len(s) = local_entries[n]
  <2>1. s \in [1 .. local_entries[n] -> Msgs]
    BY <1>2 DEF Entries
  <2>2. QED
    BY <1>1, <2>1
<1>4. \A i \in 1 .. Len(s) : s[i].cmd = cmd /\ s[i].idx = i - 1
  BY <1>3 DEF Entries
<1>5. QED
  BY <1>1, <1>3, <1>4 DEF AtMostOneEnd, NoEnd, IsEnd

-----------------------------------------------------------------------------
\* Steps of one node leave the others alone.

Unmoved(n) ==
  /\ curr_state'[n] = curr_state[n]
  /\ timer'[n] = timer[n]
  /\ thread'[n] = thread[n]
  /\ out'[n] = out[n]
  /\ failed'[n] = failed[n]

LEMMA UnmovedKeeps ==
  ASSUME NEW n \in Node, NodeInv(n), Unmoved(n)
  PROVE  NodeInv(n)'
  BY DEF NodeInv, Unmoved, TimerFollows, Listening, EngagesFromIdle, EndIsPublished,
         AtMostOneEnd, NoEnd, IsEnd

\* The end of publication depends on the queue and on PUBLISHING only.
LEMMA SameQueueKeeps ==
  ASSUME NEW n \in Node, EndIsPublished(n), out'[n] = out[n],
         curr_state'[n] = "PUBLISHING" \/ curr_state[n] # "PUBLISHING"
  PROVE  EndIsPublished(n)'
<1>1. AtMostOneEnd(n, out[n])'
  BY DEF EndIsPublished, AtMostOneEnd, IsEnd
<1>2. ASSUME curr_state'[n] # "PUBLISHING"
      PROVE  NoEnd(n, out[n])'
  BY <1>2 DEF EndIsPublished, NoEnd, IsEnd
<1>3. QED
  BY <1>1, <1>2 DEF EndIsPublished

LEMMA InitInv == Init => RtbInv
<1>. SUFFICES ASSUME Init PROVE RtbInv
  OBVIOUS
<1>1. <<>> \in Seq(Msgs) /\ Len(<<>>) = 0
  BY EmptySeq
<1>2. Shape
  BY <1>1, RtbAssumption DEF Init, Shape, States, Pcs
<1>3. ASSUME NEW n \in Node PROVE NodeInv(n)
  <2>1. NoEnd(n, out[n]) /\ AtMostOneEnd(n, out[n])
    BY <1>1 DEF Init, NoEnd, AtMostOneEnd
  <2>2. curr_state[n] = "IDLE" /\ timer[n] = FALSE /\ thread[n] = "idle"
    BY DEF Init
  <2>3. Listening(n) = FALSE
    BY <2>2 DEF Listening
  <2>4. QED
    BY <2>1, <2>2, <2>3 DEF NodeInv, TimerFollows, EngagesFromIdle, EndIsPublished
<1>4. QED
  BY <1>2, <1>3 DEF RtbInv

LEMMA EngageKeeps ==
  ASSUME RtbInv, NEW n \in Node, Engage(n)
  PROVE  RtbInv'
<1>1. Shape'
  BY DEF RtbInv, Engage, mesh_vars, aux_vars, Shape, Pcs
<1>2. ASSUME NEW m \in Node PROVE NodeInv(m)'
  <2>1. CASE m = n
    <3>1. out'[n] = out[n] /\ (curr_state'[n] = "PUBLISHING" \/ curr_state[n] # "PUBLISHING")
      BY DEF Engage, mesh_vars
    <3>2. ~failed[n] /\ EndIsPublished(n) => EndIsPublished(n)'
      BY <3>1, SameQueueKeeps
    <3>3. QED
      BY <2>1, <3>2 DEF RtbInv, Shape, Engage, mesh_vars, NodeInv, TimerFollows, Listening,
                        EngagesFromIdle
  <2>2. CASE m # n
    <3>1. Unmoved(m)
      BY <2>2 DEF RtbInv, Shape, Engage, mesh_vars, Unmoved
    <3>2. QED
      BY <3>1, UnmovedKeeps DEF RtbInv
  <2>3. QED
    BY <2>1, <2>2
<1>3. QED
  BY <1>1, <1>2 DEF RtbInv

LEMMA EngageClearKeeps ==
  ASSUME RtbInv, NEW n \in Node, EngageClear(n)
  PROVE  RtbInv'
<1>1. Shape'
  BY DEF RtbInv, EngageClear, mesh_vars, aux_vars, Shape, Pcs
<1>2. ASSUME NEW m \in Node PROVE NodeInv(m)'
  <2>1. CASE m = n
    <3>1. out'[n] = out[n] /\ (curr_state'[n] = "PUBLISHING" \/ curr_state[n] # "PUBLISHING")
      BY DEF EngageClear, mesh_vars
    <3>2. ~failed[n] /\ EndIsPublished(n) => EndIsPublished(n)'
      BY <3>1, SameQueueKeeps
    <3>3. QED
      BY <2>1, <3>2 DEF RtbInv, Shape, EngageClear, mesh_vars, NodeInv, TimerFollows, Listening,
                        EngagesFromIdle
  <2>2. CASE m # n
    <3>1. Unmoved(m)
      BY <2>2 DEF RtbInv, Shape, EngageClear, mesh_vars, Unmoved
    <3>2. QED
      BY <3>1, UnmovedKeeps DEF RtbInv
  <2>3. QED
    BY <2>1, <2>2
<1>3. QED
  BY <1>1, <1>2 DEF RtbInv

LEMMA TransactionIsNat ==
  ASSUME Shape, NEW n \in Node
  PROVE  NextTransaction(n) \in Nat
  BY RtbAssumption DEF NextTransaction, Shape

LEMMA EngageGetKeeps ==
  ASSUME RtbInv, NEW n \in Node, EngageGet(n)
  PROVE  RtbInv'
<1>1. NextTransaction(n) \in Nat
  BY TransactionIsNat DEF RtbInv
<1>2. /\ curr_txn' \in [Node -> Nat] /\ curr_txn'[n] \in Nat
      /\ rounds' \in [Node -> Nat] /\ rounds'[n] \in Nat
  BY <1>1 DEF EngageGet, RtbInv, Shape
<1>3. Get(n) \in Msgs /\ Get(n).cmd # "STATUS"
  BY <1>2 DEF Get, RoundOf, Msgs
<1>4. out[n] \in Seq(Msgs) /\ out' = [out EXCEPT ![n] = Append(out[n], Get(n))]
  BY DEF EngageGet, RtbInv, Shape
<1>5. /\ out'[n] \in Seq(Msgs)
      /\ out'[n] # <<>>
      /\ NoEnd(n, out[n]) => NoEnd(n, out'[n])
      /\ AtMostOneEnd(n, out[n]) => AtMostOneEnd(n, out'[n])
  BY <1>3, <1>4, AppendKeepsEnds, AppendProperties DEF RtbInv, Shape
<1>6. Shape'
  BY <1>2, <1>4, <1>5 DEF RtbInv, EngageGet, Shape, Pcs
<1>7. ASSUME NEW m \in Node PROVE NodeInv(m)'
  <2>1. CASE m = n
    <3>1. EndIsPublished(n) => EndIsPublished(n)'
      BY <1>5 DEF EngageGet, EndIsPublished, NoEnd, AtMostOneEnd, IsEnd
    <3>2. QED
      BY <2>1, <3>1 DEF RtbInv, Shape, EngageGet, NodeInv, TimerFollows, Listening,
                        EngagesFromIdle
  <2>2. CASE m # n
    <3>1. Unmoved(m)
      BY <2>2, <1>4 DEF RtbInv, Shape, EngageGet, Unmoved
    <3>2. QED
      BY <3>1, UnmovedKeeps DEF RtbInv
  <2>3. QED
    BY <2>1, <2>2
<1>8. QED
  BY <1>6, <1>7 DEF RtbInv

LEMMA EngageTimerKeeps ==
  ASSUME RtbInv, NEW n \in Node, EngageTimer(n)
  PROVE  RtbInv'
<1>1. Shape'
  BY DEF RtbInv, EngageTimer, mesh_vars, aux_vars, Shape, Pcs
<1>2. ASSUME NEW m \in Node PROVE NodeInv(m)'
  <2>1. CASE m = n
    <3>1. out'[n] = out[n] /\ (curr_state'[n] = "PUBLISHING" \/ curr_state[n] # "PUBLISHING")
      BY DEF EngageTimer, mesh_vars
    <3>2. ~failed[n] /\ EndIsPublished(n) => EndIsPublished(n)'
      BY <3>1, SameQueueKeeps
    <3>3. QED
      BY <2>1, <3>2 DEF RtbInv, Shape, EngageTimer, mesh_vars, NodeInv, TimerFollows, Listening,
                        EngagesFromIdle
  <2>2. CASE m # n
    <3>1. Unmoved(m)
      BY <2>2 DEF RtbInv, Shape, EngageTimer, mesh_vars, Unmoved
    <3>2. QED
      BY <3>1, UnmovedKeeps DEF RtbInv
  <2>3. QED
    BY <2>1, <2>2
<1>3. QED
  BY <1>1, <1>2 DEF RtbInv

LEMMA EngageStateKeeps ==
  ASSUME RtbInv, NEW n \in Node, EngageState(n)
  PROVE  RtbInv'
<1>1. Shape'
  BY DEF RtbInv, EngageState, mesh_vars, aux_vars, Shape, Pcs, States
<1>2. ASSUME NEW m \in Node PROVE NodeInv(m)'
  <2>1. CASE m = n
    <3>1. ~failed[n] => out'[n] = out[n] /\ curr_state[n] # "PUBLISHING"
      BY DEF EngageState, mesh_vars, RtbInv, NodeInv, EngagesFromIdle
    <3>2. ~failed[n] /\ EndIsPublished(n) => EndIsPublished(n)'
      BY <3>1, SameQueueKeeps
    <3>3. QED
      BY <2>1, <3>2 DEF RtbInv, Shape, EngageState, mesh_vars, NodeInv, TimerFollows, Listening,
                        EngagesFromIdle
  <2>2. CASE m # n
    <3>1. Unmoved(m)
      BY <2>2 DEF RtbInv, Shape, EngageState, mesh_vars, Unmoved
    <3>2. QED
      BY <3>1, UnmovedKeeps DEF RtbInv
  <2>3. QED
    BY <2>1, <2>2
<1>3. QED
  BY <1>1, <1>2 DEF RtbInv

LEMMA TransmitKeeps ==
  ASSUME RtbInv, NEW n \in Node, Transmit(n)
  PROVE  RtbInv'
<1>1. PICK lost \in SUBSET Head(out[n]).to :
        chan' = [chan EXCEPT ![n] =
                   [d \in Node |-> IF d \in Head(out[n]).to \ lost
                                   THEN Append(@[d], Head(out[n]))
                                   ELSE @[d]]]
  BY DEF Transmit
<1>2. Head(out[n]) \in Msgs
  BY HeadTailProperties DEF Transmit, RtbInv, Shape
<1>3. \A d \in Node : Append(chan[n][d], Head(out[n])) \in Seq(Msgs) /\ chan[n][d] \in Seq(Msgs)
  BY <1>2, AppendProperties DEF RtbInv, Shape
<1>4. chan' \in [Node -> [Node -> Seq(Msgs)]]
  BY <1>1, <1>3 DEF RtbInv, Shape
<1>5. Shape'
  BY <1>4 DEF RtbInv, Transmit, node_vars, aux_vars, Shape
<1>6. ASSUME NEW m \in Node PROVE NodeInv(m)'
  BY UnmovedKeeps DEF RtbInv, Transmit, node_vars, Unmoved
<1>7. QED
  BY <1>5, <1>6 DEF RtbInv

\* Receiving consumes a message that is well typed.
LEMMA ReceivedIsTyped ==
  ASSUME RtbInv, NEW n \in Node, NEW s \in Node, chan[s][n] # <<>>, Consume(n, s)
  PROVE  /\ Received(n, s) \in Msgs
         /\ chan' \in [Node -> [Node -> Seq(Msgs)]]
<1>1. chan[s][n] \in Seq(Msgs)
  BY DEF RtbInv, Shape
<1>2. Head(chan[s][n]) \in Msgs /\ Tail(chan[s][n]) \in Seq(Msgs)
  BY <1>1, HeadTailProperties
<1>3. QED
  BY <1>2 DEF RtbInv, Shape, Received, Consume

LEMMA IgnoreKeeps ==
  ASSUME RtbInv, NEW n \in Node, NEW s \in Node, IgnoreGet(n, s) \/ IgnoreStatus(n, s)
  PROVE  RtbInv'
<1>1. chan[s][n] # <<>> /\ Consume(n, s) /\ UNCHANGED <<node_vars, out, on_air, aux_vars>>
  BY DEF IgnoreGet, IgnoreStatus, Receives
<1>2. Shape'
  BY <1>1, ReceivedIsTyped DEF RtbInv, node_vars, aux_vars, Shape
<1>3. ASSUME NEW m \in Node PROVE NodeInv(m)'
  BY <1>1, UnmovedKeeps DEF RtbInv, node_vars, Unmoved
<1>4. QED
  BY <1>2, <1>3 DEF RtbInv

LEMMA ReceiveStatusKeeps ==
  ASSUME RtbInv, NEW n \in Node, NEW s \in Node, ReceiveStatus(n, s)
  PROVE  RtbInv'
<1>1. Shape'
  BY ReceivedIsTyped DEF RtbInv, ReceiveStatus, Receives, aux_vars, Shape
<1>2. ASSUME NEW m \in Node PROVE NodeInv(m)'
  <2>1. CASE m = n
    <3>1. curr_state'[n] = curr_state[n] /\ out'[n] = out[n] /\ Listening(n)
      BY DEF ReceiveStatus, AcceptsStatus, Listening
    <3>2. EndIsPublished(n) => EndIsPublished(n)'
      BY <3>1, SameQueueKeeps
    <3>3. timer'[n] /\ Listening(n)'
      BY <3>1 DEF ReceiveStatus, RtbInv, Shape, Listening
    <3>4. TimerFollows(n)'
      BY <3>3 DEF TimerFollows
    <3>5. EngagesFromIdle(n) => EngagesFromIdle(n)'
      BY DEF ReceiveStatus, EngagesFromIdle
    <3>6. failed'[n] = failed[n]
      BY DEF ReceiveStatus
    <3>7. QED
      BY <2>1, <3>2, <3>4, <3>5, <3>6 DEF RtbInv, NodeInv
  <2>2. CASE m # n
    <3>1. Unmoved(m)
      BY <2>2 DEF RtbInv, Shape, ReceiveStatus, Unmoved
    <3>2. QED
      BY <3>1, UnmovedKeeps DEF RtbInv
  <2>3. QED
    BY <2>1, <2>2
<1>3. QED
  BY <1>1, <1>2 DEF RtbInv

LEMMA ReceiveGetKeeps ==
  ASSUME RtbInv, NEW n \in Node, NEW s \in Node, ReceiveGet(n, s)
  PROVE  RtbInv'
<1>. DEFINE msg     == Received(n, s)
            replies == Entries(n, "STATUS_REPLY", {s}, msg.txn, msg.round)
<1>1. msg \in Msgs /\ chan' \in [Node -> [Node -> Seq(Msgs)]]
  BY ReceivedIsTyped DEF ReceiveGet, Receives
<1>2. msg.txn \in Nat /\ msg.round \in Node \X Nat
  BY <1>1 DEF Msgs
<1>3. replies \in Seq(Msgs) /\ NoEnd(n, replies)
  BY <1>2, EntriesAreOrdered DEF RtbInv
<1>4. out[n] \in Seq(Msgs) /\ out' = [out EXCEPT ![n] = out[n] \o replies]
  BY DEF ReceiveGet, RtbInv, Shape
<1>5. /\ out'[n] \in Seq(Msgs)
      /\ NoEnd(n, out[n]) => NoEnd(n, out'[n])
      /\ AtMostOneEnd(n, out[n]) => AtMostOneEnd(n, out'[n])
  BY <1>3, <1>4, ConcatKeepsEnds DEF RtbInv, Shape
<1>6. out[n] # <<>> => out'[n] # <<>>
  BY <1>3, <1>4, ConcatEmptySeq, ConcatProperties, EmptySeq, LenProperties DEF RtbInv, Shape
<1>7. Shape'
  BY <1>1, <1>2, <1>4, <1>5, <1>6, ZenonT(30) DEF RtbInv, ReceiveGet, Shape, States
<1>8. ASSUME NEW m \in Node PROVE NodeInv(m)'
  <2>1. CASE m = n
    <3>1. curr_state'[n] = "PUBLISHING" <=> curr_state[n] = "PUBLISHING"
      BY DEF ReceiveGet, RtbInv, Shape
    <3>2. EndIsPublished(n) => EndIsPublished(n)'
      BY <1>5, <3>1 DEF EndIsPublished, NoEnd, AtMostOneEnd, IsEnd
    <3>3. CASE curr_state[n] = "IDLE"
      <4>1. timer'[n] /\ curr_state'[n] = "RECEIVING"
        BY <3>3 DEF ReceiveGet, RtbInv, Shape
      <4>2. TimerFollows(n)' /\ EngagesFromIdle(n)'
        BY <4>1 DEF TimerFollows, EngagesFromIdle, Listening
      <4>3. QED
        BY <2>1, <3>2, <4>2 DEF ReceiveGet, RtbInv, NodeInv
    <3>4. CASE curr_state[n] # "IDLE"
      BY <2>1, <3>2, <3>4 DEF RtbInv, Shape, ReceiveGet, NodeInv, TimerFollows, Listening,
                              EngagesFromIdle
    <3>5. QED
      BY <3>3, <3>4
  <2>2. CASE m # n
    <3>1. Unmoved(m)
      BY <2>2, <1>4 DEF RtbInv, Shape, ReceiveGet, Unmoved
    <3>2. QED
      BY <3>1, UnmovedKeeps DEF RtbInv
  <2>3. QED
    BY <2>1, <2>2
<1>9. QED
  BY <1>7, <1>8 DEF RtbInv

\* The message whose completion ends the publication is the last published
\* entry: its node is publishing, and nothing else waits to end it.
LEMMA TxCompleteKeeps ==
  ASSUME RtbInv, NEW n \in Node, TxComplete(n)
  PROVE  RtbInv'
<1>. DEFINE msg  == Head(out[n])
            last == IsLastPublishedEntry(n, msg)
<1>1. out[n] \in Seq(Msgs) /\ out[n] # <<>> /\ out' = [out EXCEPT ![n] = Tail(out[n])]
  BY DEF TxComplete, RtbInv, Shape
<1>2. /\ out'[n] \in Seq(Msgs)
      /\ NoEnd(n, out[n]) => NoEnd(n, out'[n])
      /\ AtMostOneEnd(n, out[n]) => AtMostOneEnd(n, out'[n])
      /\ AtMostOneEnd(n, out[n]) /\ IsEnd(n, msg) => NoEnd(n, out'[n])
  BY <1>1, TailKeepsEnds DEF RtbInv, Shape
<1>3. Shape'
  BY <1>1, <1>2 DEF TxComplete, RtbInv, Shape, States, aux_vars
<1>4. ASSUME NEW m \in Node PROVE NodeInv(m)'
  <2>1. CASE m = n
    <3>. SUFFICES ASSUME ~failed'[n]
                  PROVE  TimerFollows(n)' /\ EngagesFromIdle(n)' /\ EndIsPublished(n)'
      BY <2>1 DEF NodeInv
    <3>1. TimerFollows(n) /\ EngagesFromIdle(n) /\ EndIsPublished(n)
      BY DEF TxComplete, RtbInv, NodeInv
    <3>2. /\ curr_state'[n] = IF last THEN "IDLE" ELSE curr_state[n]
          /\ timer'[n] = timer[n] /\ thread'[n] = thread[n]
      BY DEF TxComplete, RtbInv, Shape
    <3>3. CASE ~last
      <4>1. curr_state'[n] = curr_state[n]
        BY <3>2, <3>3
      <4>2. EndIsPublished(n)'
        BY <1>2, <3>1, <4>1 DEF EndIsPublished, NoEnd, AtMostOneEnd, IsEnd
      <4>3. QED
        BY <3>1, <3>2, <4>1, <4>2 DEF TimerFollows, EngagesFromIdle, Listening
    <3>4. CASE last
      <4>1. /\ local_entries[n] # 0
            /\ curr_state[n] \in {"PUBLISHING", "RECEIVING"}
        BY <3>4 DEF TxComplete, RtbInv, Shape, IsLastPublishedEntry
      <4>2. IsEnd(n, msg)
        BY <3>4, <4>1 DEF IsLastPublishedEntry, IsEnd, RtbInv, Shape
      <4>3. curr_state[n] = "PUBLISHING"
        <5>1. Len(out[n]) \in Nat \ {0} /\ msg = out[n][1]
          BY <1>1, EmptySeq, LenProperties
        <5>2. QED
          BY <3>1, <4>2, <5>1 DEF EndIsPublished, NoEnd
      <4>4. thread[n] = "idle" /\ ~timer[n] /\ curr_state'[n] = "IDLE"
        BY <3>1, <3>2, <3>4, <4>3 DEF EngagesFromIdle, TimerFollows, Listening
      <4>5. NoEnd(n, out'[n]) /\ AtMostOneEnd(n, out'[n])
        BY <1>2, <3>1, <4>2 DEF EndIsPublished
      <4>6. EndIsPublished(n)'
        BY <4>5 DEF EndIsPublished, NoEnd, AtMostOneEnd, IsEnd
      <4>7. TimerFollows(n)' /\ EngagesFromIdle(n)'
        BY <3>2, <4>4 DEF TimerFollows, EngagesFromIdle, Listening
      <4>8. QED
        BY <4>6, <4>7
    <3>5. QED
      BY <3>3, <3>4
  <2>2. CASE m # n
    <3>1. Unmoved(m)
      BY <2>2, <1>1 DEF RtbInv, Shape, TxComplete, Unmoved
    <3>2. QED
      BY <3>1, UnmovedKeeps DEF RtbInv
  <2>3. QED
    BY <2>1, <2>2
<1>5. QED
  BY <1>3, <1>4 DEF RtbInv

LEMMA TimeoutKeeps ==
  ASSUME RtbInv, NEW n \in Node, Timeout(n)
  PROVE  RtbInv'
<1>. DEFINE entries == Entries(n, "STATUS", Node \ {n}, curr_txn[n], RoundOf(n))
<1>1. out[n] \in Seq(Msgs) /\ entries \in Seq(Msgs) /\ AtMostOneEnd(n, entries)
  BY EntriesAreOrdered DEF RtbInv, Shape, RoundOf
<1>2. /\ curr_state[n] = "GETTING" =>
           /\ curr_state' = [curr_state EXCEPT ![n] = "PUBLISHING"]
           /\ out' = [out EXCEPT ![n] = out[n] \o entries]
      /\ curr_state[n] # "GETTING" =>
           /\ curr_state' = [curr_state EXCEPT ![n] = "IDLE"]
           /\ out' = out
  BY DEF Timeout, RtbInv, Shape
<1>3. /\ out[n] \o entries \in Seq(Msgs)
      /\ NoEnd(n, out[n]) => AtMostOneEnd(n, out[n] \o entries)
      /\ out[n] # <<>> => out[n] \o entries # <<>>
  BY <1>1, ConcatKeepsEnds, ConcatProperties, EmptySeq, LenProperties
<1>4. Shape'
  <2>1. curr_state' \in [Node -> States]
    BY <1>2 DEF RtbInv, Shape, States
  <2>2. out' \in [Node -> Seq(Msgs)] /\ \A m \in Node : on_air[m] => out'[m] # <<>>
    BY <1>2, <1>3, ZenonT(30) DEF RtbInv, Shape
  <2>3. /\ timer' \in [Node -> BOOLEAN] /\ failed' \in [Node -> BOOLEAN]
        /\ UNCHANGED <<curr_txn, local_entries, thread, on_air, chan, rounds, cleared>>
    BY DEF Timeout, RtbInv, Shape, aux_vars
  <2>4. QED
    BY <2>1, <2>2, <2>3 DEF RtbInv, Shape
<1>5. ASSUME NEW m \in Node PROVE NodeInv(m)'
  <2>1. CASE m = n
    <3>. SUFFICES ASSUME ~failed'[n]
                  PROVE  TimerFollows(n)' /\ EngagesFromIdle(n)' /\ EndIsPublished(n)'
      BY <2>1 DEF NodeInv
    <3>1. EndIsPublished(n) /\ curr_state[n] \in {"GETTING", "RECEIVING"}
      BY DEF Timeout, RtbInv, Shape, NodeInv
    <3>2. thread'[n] = "idle" /\ timer'[n] = FALSE
      BY DEF Timeout, RtbInv, Shape
    <3>3. curr_state'[n] \in {"PUBLISHING", "IDLE"}
      BY <1>2 DEF RtbInv, Shape
    <3>4. TimerFollows(n)' /\ EngagesFromIdle(n)'
      BY <3>2, <3>3 DEF TimerFollows, EngagesFromIdle, Listening
    <3>5. NoEnd(n, out[n])
      BY <3>1 DEF EndIsPublished
    <3>6. CASE curr_state[n] = "GETTING"
      <4>1. curr_state'[n] = "PUBLISHING" /\ AtMostOneEnd(n, out'[n])
        BY <1>2, <1>3, <3>5, <3>6 DEF RtbInv, Shape
      <4>2. QED
        BY <3>4, <4>1 DEF EndIsPublished, AtMostOneEnd, IsEnd
    <3>7. CASE curr_state[n] # "GETTING"
      <4>1. EndIsPublished(n)'
        BY <1>2, <3>1, <3>7, SameQueueKeeps
      <4>2. QED
        BY <3>4, <4>1
    <3>8. QED
      BY <3>6, <3>7
  <2>2. CASE m # n
    <3>1. Unmoved(m)
      BY <2>2, <1>2 DEF RtbInv, Shape, Timeout, Unmoved
    <3>2. QED
      BY <3>1, UnmovedKeeps DEF RtbInv
  <2>3. QED
    BY <2>1, <2>2
<1>6. QED
  BY <1>4, <1>5 DEF RtbInv

LEMMA TableCommandKeeps ==
  ASSUME RtbInv, NEW n \in Node, Fill(n) \/ ClearTables(n)
  PROVE  RtbInv'
<1>1. /\ UNCHANGED <<curr_state, curr_txn, timer, thread, failed, mesh_vars, rounds>>
      /\ \E k \in {0, Own[n]} : local_entries' = [local_entries EXCEPT ![n] = k]
  BY DEF Fill, ClearTables, aux_vars
<1>2. /\ local_entries' \in [Node -> Nat]
      /\ \A m \in Node : local_entries'[m] \in {0, Own[m]}
  <2>1. PICK k \in {0, Own[n]} : local_entries' = [local_entries EXCEPT ![n] = k]
    BY <1>1
  <2>2. k \in Nat
    BY RtbAssumption
  <2>3. QED
    BY <2>1, <2>2 DEF RtbInv, Shape
<1>3. Shape'
  BY <1>1, <1>2 DEF RtbInv, Shape, mesh_vars, Fill, ClearTables, aux_vars
<1>4. ASSUME NEW m \in Node PROVE NodeInv(m)'
  BY <1>1, UnmovedKeeps DEF RtbInv, Unmoved, mesh_vars
<1>5. QED
  BY <1>3, <1>4 DEF RtbInv

LEMMA RestartKeeps ==
  ASSUME RtbInv, NEW n \in Node, Restart(n)
  PROVE  RtbInv'
<1>1. <<>> \in Seq(Msgs) /\ Len(<<>>) = 0
  BY EmptySeq
<1>2. chan' \in [Node -> [Node -> Seq(Msgs)]]
  BY <1>1 DEF Restart, RtbInv, Shape
<1>3. Shape'
  <2>1. /\ curr_state' \in [Node -> States] /\ curr_txn' \in [Node -> Nat]
        /\ timer' \in [Node -> BOOLEAN] /\ failed' \in [Node -> BOOLEAN]
        /\ thread' \in [Node -> Pcs] /\ rounds' \in [Node -> Nat]
        /\ cleared' \in [Node -> BOOLEAN]
    BY DEF Restart, RtbInv, Shape, States, Pcs
  <2>2. /\ local_entries' \in [Node -> Nat]
        /\ \A m \in Node : local_entries'[m] \in {0, Own[m]}
    BY DEF Restart, RtbInv, Shape
  <2>3. /\ out' \in [Node -> Seq(Msgs)] /\ on_air' \in [Node -> BOOLEAN]
        /\ \A m \in Node : on_air'[m] => out'[m] # <<>>
    BY <1>1 DEF Restart, RtbInv, Shape
  <2>4. QED
    BY <1>2, <2>1, <2>2, <2>3 DEF Shape
<1>4. ASSUME NEW m \in Node PROVE NodeInv(m)'
  <2>1. CASE m = n
    <3>1. /\ out'[n] = <<>> /\ curr_state'[n] = "IDLE"
          /\ timer'[n] = FALSE /\ thread'[n] = "idle"
      BY DEF Restart, RtbInv, Shape
    <3>2. TimerFollows(n)' /\ EngagesFromIdle(n)'
      BY <3>1 DEF TimerFollows, EngagesFromIdle, Listening
    <3>3. EndIsPublished(n)'
      BY <1>1, <3>1 DEF EndIsPublished, AtMostOneEnd, NoEnd
    <3>4. QED
      BY <2>1, <3>2, <3>3 DEF NodeInv
  <2>2. CASE m # n
    <3>1. Unmoved(m)
      BY <2>2 DEF RtbInv, Shape, Restart, Unmoved
    <3>2. QED
      BY <3>1, UnmovedKeeps DEF RtbInv
  <2>3. QED
    BY <2>1, <2>2
<1>5. QED
  BY <1>3, <1>4 DEF RtbInv

-----------------------------------------------------------------------------
LEMMA StepKeeps == RtbInv /\ [Next]_vars => RtbInv'
<1>. SUFFICES ASSUME RtbInv, [Next]_vars
              PROVE  RtbInv'
  OBVIOUS
<1>1. CASE UNCHANGED vars
  BY <1>1 DEF vars, node_vars, mesh_vars, aux_vars, RtbInv, Shape, NodeInv, TimerFollows,
              Listening, EngagesFromIdle, EndIsPublished, AtMostOneEnd, NoEnd, IsEnd
<1>2. CASE Next
  <2>1. PICK n \in Node :
          \/ Engage(n) \/ EngageContinues(n) \/ Transmit(n) \/ TxComplete(n)
          \/ (\E s \in Node \ {n} : Receive(n, s))
          \/ Timeout(n) \/ Fill(n) \/ ClearTables(n) \/ Restart(n)
    BY <1>2 DEF Next
  <2>2. CASE Engage(n)
    BY <2>2, EngageKeeps
  <2>3. CASE EngageContinues(n)
    BY <2>3, EngageClearKeeps, EngageGetKeeps, EngageTimerKeeps, EngageStateKeeps
       DEF EngageContinues
  <2>4. CASE Transmit(n)
    BY <2>4, TransmitKeeps
  <2>5. CASE TxComplete(n)
    BY <2>5, TxCompleteKeeps
  <2>6. ASSUME NEW s \in Node \ {n}, Receive(n, s)
        PROVE  RtbInv'
    BY <2>6, ReceiveGetKeeps, IgnoreKeeps, ReceiveStatusKeeps DEF Receive
  <2>7. CASE Timeout(n)
    BY <2>7, TimeoutKeeps
  <2>8. CASE Fill(n) \/ ClearTables(n)
    BY <2>8, TableCommandKeeps
  <2>9. CASE Restart(n)
    BY <2>9, RestartKeeps
  <2>10. QED
    BY <2>1, <2>2, <2>3, <2>4, <2>5, <2>6, <2>7, <2>8, <2>9
<1>3. QED
  BY <1>1, <1>2

LEMMA RtbInvariance == Spec => []RtbInv
  BY InitInv, StepKeeps, PTL DEF Spec

\* A node waits for entries exactly as long as its reception timer runs
\* (app_luos_rtb_model.c), whatever is lost, restarted or cleared.
THEOREM ListeningCorrect == Spec => []ListeningIsTimed
<1>1. RtbInv => ListeningIsTimed
  BY DEF RtbInv, NodeInv, TimerFollows, Listening, ListeningIsTimed
<1>2. QED
  BY <1>1, RtbInvariance, PTL

-----------------------------------------------------------------------------
\* Until the tables are cleared, a published entry waits only at a node whose
\* local container table is filled.

PublishedIsFilled(n) ==
  ~cleared[n] /\ (\E i \in 1 .. Len(out[n]) : out[n][i].cmd = "STATUS") => local_entries[n] # 0

AssertInv == NoAssertFails /\ \A n \in Node : PublishedIsFilled(n)

LEMMA InitAssertInv == Init => AssertInv
<1>1. Len(<<>>) = 0
  BY EmptySeq
<1>2. QED
  BY <1>1 DEF Init, AssertInv, NoAssertFails, PublishedIsFilled

\* The expiry of the timer and the end of a publication find the states they
\* assert, by the invariant above.
LEMMA NoStepFails ==
  ASSUME RtbInv, AssertInv, NEW n \in Node, Timeout(n) \/ TxComplete(n)
  PROVE  NoAssertFails'
<1>1. /\ NodeInv(n) /\ ~failed[n] /\ failed \in [Node -> BOOLEAN]
      /\ \A m \in Node : failed[m] => cleared[m]
  BY DEF RtbInv, Shape, AssertInv, NoAssertFails, Timeout, TxComplete
<1>2. cleared' = cleared /\ \E stops \in BOOLEAN : failed' = [failed EXCEPT ![n] = stops]
  BY DEF Timeout, TxComplete, aux_vars
<1>3. CASE cleared[n]
  BY <1>1, <1>2, <1>3 DEF NoAssertFails
<1>4. CASE ~cleared[n] /\ Timeout(n)
  <2>1. curr_state[n] \in {"GETTING", "RECEIVING"}
    BY <1>1, <1>4 DEF Timeout, NodeInv, TimerFollows, Listening
  <2>2. failed' = [failed EXCEPT ![n] = FALSE]
    BY <1>4, <2>1 DEF Timeout
  <2>3. QED
    BY <1>1, <1>2, <2>2 DEF NoAssertFails
<1>5. CASE ~cleared[n] /\ TxComplete(n)
  <2>. DEFINE msg  == Head(out[n])
              last == IsLastPublishedEntry(n, msg)
  <2>1. out[n] \in Seq(Msgs) /\ out[n] # <<>>
    BY <1>5 DEF TxComplete, RtbInv, Shape
  <2>2. Len(out[n]) \in Nat \ {0} /\ msg = out[n][1]
    BY <2>1, EmptySeq, LenProperties
  <2>3. msg.cmd = "STATUS" => local_entries[n] # 0 /\ local_entries[n] = Own[n]
    BY <1>5, <2>2 DEF AssertInv, PublishedIsFilled, RtbInv, Shape
  <2>4. last => curr_state[n] = "PUBLISHING"
    BY <1>1, <2>2, <2>3 DEF IsLastPublishedEntry, NodeInv, EndIsPublished, NoEnd, IsEnd
  <2>5. failed' = [failed EXCEPT ![n] = FALSE]
    BY <1>5, <2>3, <2>4 DEF TxComplete
  <2>6. QED
    BY <1>1, <1>2, <2>5 DEF NoAssertFails
<1>6. QED
  BY <1>3, <1>4, <1>5

\* A step of n that neither resets nor clears m: whatever waits at m does so
\* beside a filled table.
LEMMA StepFills ==
  ASSUME RtbInv, AssertInv, NEW n \in Node, NEW m \in Node, ~cleared'[m],
         \/ Engage(n) \/ EngageContinues(n) \/ Transmit(n) \/ TxComplete(n)
         \/ (\E s \in Node \ {n} : Receive(n, s))
         \/ Timeout(n) \/ Fill(n)
         \/ m # n /\ (ClearTables(n) \/ Restart(n))
  PROVE  PublishedIsFilled(m)'
<1>. DEFINE Waits(q) == \E i \in 1 .. Len(q) : q[i].cmd = "STATUS"
<1>1. Waits(out[m]) => local_entries[m] # 0
  <2>1. cleared'[m] = cleared[m]
    BY DEF RtbInv, Shape, Engage, EngageContinues, EngageClear, EngageGet, EngageTimer,
           EngageState, Transmit, TxComplete, Receive, ReceiveGet, IgnoreGet, ReceiveStatus,
           IgnoreStatus, Timeout, Fill, ClearTables, Restart, aux_vars
  <2>2. QED
    BY <2>1 DEF AssertInv, PublishedIsFilled
<1>2. SUFFICES Waits(out'[m]) => local_entries'[m] # 0
  BY DEF PublishedIsFilled
<1>3. /\ out \in [Node -> Seq(Msgs)] /\ local_entries \in [Node -> Nat]
      /\ curr_txn \in [Node -> Nat] /\ rounds \in [Node -> Nat]
  BY DEF RtbInv, Shape
<1>4. ASSUME out'[m] = out[m], local_entries'[m] = local_entries[m]
      PROVE  Waits(out'[m]) => local_entries'[m] # 0
  BY <1>1, <1>4
<1>5. ASSUME NEW t \in Seq(Msgs), out'[m] = out[m] \o t, local_entries'[m] = local_entries[m],
             Waits(t) => local_entries[m] # 0
      PROVE  Waits(out'[m]) => local_entries'[m] # 0
  <2>1. out[m] \in Seq(Msgs) /\ Len(out[m]) \in Nat /\ Len(t) \in Nat
    BY <1>3, <1>5, LenProperties
  <2>2. SUFFICES ASSUME NEW i \in 1 .. Len(out[m] \o t), (out[m] \o t)[i].cmd = "STATUS"
                 PROVE  local_entries[m] # 0
    BY <1>5
  <2>3. /\ i \in 1 .. Len(out[m]) + Len(t)
        /\ (out[m] \o t)[i] = IF i <= Len(out[m]) THEN out[m][i] ELSE t[i - Len(out[m])]
    BY <2>1, ConcatProperties
  <2>4. CASE i <= Len(out[m])
    BY <1>1, <2>1, <2>2, <2>3, <2>4
  <2>5. CASE i > Len(out[m])
    <3>1. i - Len(out[m]) \in 1 .. Len(t) /\ t[i - Len(out[m])].cmd = "STATUS"
      BY <2>1, <2>2, <2>3, <2>5
    <3>2. QED
      BY <1>5, <3>1
  <2>6. QED
    BY <2>1, <2>3, <2>4, <2>5
<1>6. CASE m # n
  <2>. SUFFICES out'[m] = out[m] /\ local_entries'[m] = local_entries[m]
    BY <1>4
  <2>1. CASE Engage(n) \/ Transmit(n) \/ Fill(n)
    BY <2>1, <1>3, <1>6 DEF Engage, Transmit, Fill, mesh_vars, node_vars
  <2>2. CASE EngageContinues(n)
    BY <2>2, <1>3, <1>6
       DEF EngageContinues, EngageClear, EngageGet, EngageTimer, EngageState, mesh_vars
  <2>3. CASE TxComplete(n) \/ Timeout(n)
    BY <2>3, <1>3, <1>6 DEF TxComplete, Timeout
  <2>4. ASSUME NEW s \in Node, ReceiveGet(n, s)
        PROVE  out'[m] = out[m] /\ local_entries'[m] = local_entries[m]
    BY <2>4, <1>3, <1>6 DEF ReceiveGet
  <2>5. ASSUME NEW s \in Node, IgnoreGet(n, s) \/ ReceiveStatus(n, s) \/ IgnoreStatus(n, s)
        PROVE  out'[m] = out[m] /\ local_entries'[m] = local_entries[m]
    BY <2>5 DEF IgnoreGet, ReceiveStatus, IgnoreStatus, node_vars
  <2>6. CASE ClearTables(n) \/ Restart(n)
    BY <2>6, <1>3, <1>6 DEF ClearTables, Restart, mesh_vars
  <2>7. QED
    BY <2>1, <2>2, <2>3, <2>4, <2>5, <2>6 DEF Receive
<1>7. CASE m = n
  <2>1. CASE \/ Engage(n) \/ EngageClear(n) \/ EngageTimer(n) \/ EngageState(n)
             \/ Transmit(n) \/ \E s \in Node : IgnoreGet(n, s) \/ IgnoreStatus(n, s)
             \/ \E s \in Node : ReceiveStatus(n, s)
    BY <2>1, <1>4, <1>7
       DEF Engage, EngageClear, EngageTimer, EngageState, Transmit, IgnoreGet, IgnoreStatus,
           ReceiveStatus, mesh_vars, node_vars
  <2>2. CASE EngageGet(n)
    <3>1. /\ out'[n] = Append(out[n], Get(n)) /\ local_entries' = local_entries
          /\ Get(n).cmd = "GET"
      BY <2>2, <1>3 DEF EngageGet, Get
    <3>2. curr_txn'[n] \in Nat /\ rounds'[n] \in Nat
      <4>1. NextTransaction(n) \in Nat
        BY TransactionIsNat DEF RtbInv
      <4>2. QED
        BY <2>2, <1>3, <4>1, SMTT(30) DEF EngageGet
    <3>3. Get(n) \in Msgs
      BY <3>2 DEF Get, RoundOf, Msgs
    <3>4. QED
      BY <1>1, <1>3, <1>7, <3>1, <3>3, AppendProperties, LenProperties
  <2>3. CASE TxComplete(n)
    <3>1. out'[n] = Tail(out[n]) /\ out[n] # <<>> /\ local_entries' = local_entries
      BY <2>3, <1>3 DEF TxComplete, RtbInv, Shape
    <3>2. QED
      BY <1>1, <1>3, <1>7, <3>1, HeadTailProperties, LenProperties
  <2>4. ASSUME NEW s \in Node, ReceiveGet(n, s)
        PROVE  Waits(out'[m]) => local_entries'[m] # 0
    <3>. DEFINE msg     == Received(n, s)
                replies == Entries(n, "STATUS_REPLY", {s}, msg.txn, msg.round)
    <3>1. msg \in Msgs
      BY <2>4, ReceivedIsTyped DEF ReceiveGet, Receives
    <3>2. msg.txn \in Nat /\ msg.round \in Node \X Nat
      BY <3>1 DEF Msgs
    <3>3. replies \in Seq(Msgs) /\ \A i \in 1 .. Len(replies) : replies[i].cmd = "STATUS_REPLY"
      BY <3>2, EntriesAreOrdered DEF RtbInv
    <3>4. ~Waits(replies)
      BY <3>3
    <3>5. QED
      BY <2>4, <1>3, <1>5, <1>7, <3>3, <3>4 DEF ReceiveGet
  <2>5. CASE Timeout(n)
    <3>. DEFINE entries == Entries(n, "STATUS", Node \ {n}, curr_txn[n], RoundOf(n))
    <3>1. entries \in Seq(Msgs)
      <4>1. curr_txn[n] \in Nat /\ RoundOf(n) \in Node \X Nat /\ Node \ {n} \in SUBSET Node
        BY <1>3 DEF RoundOf
      <4>2. QED
        BY <4>1, EntriesAreOrdered DEF RtbInv
    <3>2. Waits(entries) => local_entries[n] # 0
      BY <1>3 DEF Entries
    <3>3. local_entries' = local_entries /\ (out'[n] = out[n] \o entries \/ out' = out)
      BY <2>5, <1>3 DEF Timeout
    <3>4. QED
      BY <1>4, <1>5, <1>7, <3>1, <3>2, <3>3
  <2>6. CASE Fill(n)
    <3>1. out' = out /\ local_entries[n] = 0
      BY <2>6 DEF Fill, mesh_vars
    <3>2. QED
      BY <1>1, <1>7, <3>1
  <2>7. QED
    BY <2>1, <2>2, <2>3, <2>4, <2>5, <2>6, <1>7 DEF EngageContinues, Receive
<1>8. QED
  BY <1>6, <1>7

LEMMA AssertStepKeeps == RtbInv /\ AssertInv /\ [Next]_vars => AssertInv'
<1>. SUFFICES ASSUME RtbInv, AssertInv, [Next]_vars
              PROVE  AssertInv'
  OBVIOUS
<1>1. CASE UNCHANGED vars
  BY <1>1 DEF vars, node_vars, mesh_vars, aux_vars, AssertInv, NoAssertFails, PublishedIsFilled
<1>2. CASE Next
  <2>1. PICK n \in Node :
          \/ Engage(n) \/ EngageContinues(n) \/ Transmit(n) \/ TxComplete(n)
          \/ (\E s \in Node \ {n} : Receive(n, s))
          \/ Timeout(n) \/ Fill(n) \/ ClearTables(n) \/ Restart(n)
    BY <1>2 DEF Next
  <2>2. ASSUME NEW m \in Node PROVE PublishedIsFilled(m)'
    <3>1. CASE m = n /\ ClearTables(n)
      BY <3>1 DEF ClearTables, RtbInv, Shape, PublishedIsFilled
    <3>2. CASE m = n /\ Restart(n)
      <4>1. out'[n] = <<>> /\ Len(<<>>) = 0
        BY <3>2, EmptySeq DEF Restart, RtbInv, Shape
      <4>2. QED
        BY <3>2, <4>1 DEF PublishedIsFilled
    <3>3. QED
      BY <2>1, <3>1, <3>2, StepFills DEF PublishedIsFilled
  <2>3. NoAssertFails'
    <3>1. CASE Timeout(n) \/ TxComplete(n)
      BY <3>1, NoStepFails
    <3>2. CASE ClearTables(n) \/ Restart(n)
      BY <3>2 DEF ClearTables, Restart, AssertInv, NoAssertFails, RtbInv, Shape
    <3>3. CASE failed' = failed /\ cleared' = cleared
      BY <3>3 DEF AssertInv, NoAssertFails
    <3>4. QED
      BY <2>1, <3>1, <3>2, <3>3
         DEF Engage, EngageContinues, EngageClear, EngageGet, EngageTimer, EngageState, Transmit,
             Receive, ReceiveGet, IgnoreGet, ReceiveStatus, IgnoreStatus, Fill,
             mesh_vars, node_vars, aux_vars
  <2>4. QED
    BY <2>2, <2>3 DEF AssertInv
<1>3. QED
  BY <1>1, <1>2

\* Until its tables are cleared, no assertion of the procedure fails at a node,
\* whatever is lost or reset: neither the one on the state when the timer
\* expires, nor those on the state and on the size of the table when a
\* published entry completes (app_luos_rtb_model.c, mesh_msg_queue_manager.c).
THEOREM AssertionsHold == Spec => []NoAssertFails
<1>1. AssertInv => NoAssertFails
  BY DEF AssertInv
<1>2. QED
  BY <1>1, AssertStepKeeps, InitAssertInv, RtbInvariance, PTL DEF Spec

-----------------------------------------------------------------------------
\* Types. What a node sends comes from its own network, and what it stores from
\* the message of the node it names: an entry never has an index its node does
\* not expose.

MessagesOf(n)    == {m \in Messages : m.cmd = "GET" \/ m.idx < Own[n]}
MessagesTo(n, d) == {m \in MessagesOf(n) : d \in m.to}
EntriesAt(n)     == {e \in [addr : Node \ {n}, id : Nat] : e.id < Own[e.addr]}

\* The main thread has a procedure to engage, or has engaged one.
RoundsFit(n) ==
  /\ rounds[n] \in 0 .. MaxRounds[n]
  /\ thread[n] \in {"clear", "get"} => rounds[n] < MaxRounds[n]
  /\ thread[n] \in {"timer", "state"} \/ curr_state[n] = "GETTING" => rounds[n] > 0

RemoteTyped(n) == remote[n] \in Seq(EntriesAt(n)) /\ Len(remote[n]) <= MaxRemote

TypeInv ==
  /\ \A n \in Node : curr_txn[n] \in 0 .. TxnModulo - 1
  /\ \A n \in Node : RoundsFit(n)
  /\ \A n \in Node : out[n] \in Seq(MessagesOf(n))
  /\ \A n, d \in Node : chan[n][d] \in Seq(MessagesTo(n, d))
  /\ remote = [n \in Node |-> remote[n]]
  /\ \A n \in Node : RemoteTyped(n)
  /\ gave_up \in [Node -> SUBSET Node] /\ \A n \in Node : n \notin gave_up[n]

LEMMA RtbAssumptionUsed ==
  /\ \A n \in Node : MaxRounds[n] \in Nat /\ Own[n] \in Nat
  /\ MaxRemote \in Nat /\ TxnModulo \in Nat \ {0}
  BY RtbAssumption

LEMMA InitTypeInv == Init => TypeInv
<1>. SUFFICES ASSUME Init PROVE TypeInv
  OBVIOUS
<1>1. \A S : <<>> \in Seq(S) /\ Len(<<>>) = 0
  BY EmptySeq
<1>2. \A n \in Node : RoundsFit(n)
  BY RtbAssumptionUsed DEF Init, RoundsFit
<1>3. \A n \in Node : RemoteTyped(n)
  BY <1>1, RtbAssumptionUsed DEF Init, RemoteTyped
<1>4. gave_up \in [Node -> SUBSET Node] /\ \A n \in Node : n \notin gave_up[n]
  BY DEF Init
<1>5. QED
  BY <1>1, <1>2, <1>3, <1>4, RtbAssumptionUsed DEF Init, TypeInv

\* What is prepared by a node that serves or publishes its table
LEMMA EntriesAreTyped ==
  ASSUME Shape, NEW n \in Node, NEW cmd \in {"STATUS", "STATUS_REPLY"},
         NEW to \in SUBSET Node, NEW txn \in 0 .. TxnModulo - 1, NEW round \in Round
  PROVE  Entries(n, cmd, to, txn, round) \in Seq(MessagesOf(n))
<1>0. Own[n] \in Nat /\ local_entries[n] \in {0, Own[n]}
  BY RtbAssumptionUsed DEF Shape
<1>1. local_entries[n] \in Nat /\ local_entries[n] <= Own[n] /\ Own[n] \in Nat
  BY <1>0
<1>2. ASSUME NEW i \in 1 .. local_entries[n]
      PROVE  [cmd |-> cmd, txn |-> txn, idx |-> i - 1, to |-> to, round |-> round] \in MessagesOf(n)
  <2>1. i - 1 \in 0 .. Own[n] - 1 /\ i - 1 < Own[n]
    BY <1>1
  <2>2. i - 1 \in UNION {0 .. Own[m] - 1 : m \in Node}
    BY <2>1
  <2>3. QED
    BY <2>1, <2>2 DEF MessagesOf, Messages
<1>3. Entries(n, cmd, to, txn, round) \in [1 .. local_entries[n] -> MessagesOf(n)]
  BY <1>2 DEF Entries
<1>4. QED
  BY <1>1, <1>3

LEMMA RoundIsTyped ==
  ASSUME TypeInv, NEW n \in Node, rounds[n] > 0
  PROVE  RoundOf(n) \in Round
<1>1. rounds[n] \in 1 .. MaxRounds[n]
  BY RtbAssumptionUsed DEF TypeInv, RoundsFit
<1>2. QED
  BY <1>1 DEF RoundOf, Round

\* A message that n receives from s
LEMMA ReceivedHasType ==
  ASSUME TypeInv, NEW n \in Node, NEW s \in Node, chan[s][n] # <<>>
  PROVE  /\ Received(n, s) \in MessagesTo(s, n)
         /\ Tail(chan[s][n]) \in Seq(MessagesTo(s, n))
         /\ Received(n, s).txn \in 0 .. TxnModulo - 1
         /\ Received(n, s).round \in Round
         /\ Received(n, s).cmd # "GET" =>
              Received(n, s).idx \in Nat /\ Received(n, s).idx < Own[s]
<1>1. chan[s][n] \in Seq(MessagesTo(s, n))
  BY DEF TypeInv
<1>2. Head(chan[s][n]) \in MessagesTo(s, n) /\ Tail(chan[s][n]) \in Seq(MessagesTo(s, n))
  BY <1>1, HeadTailProperties
<1>3. ASSUME NEW m \in MessagesTo(s, n)
      PROVE  /\ m.txn \in 0 .. TxnModulo - 1 /\ m.round \in Round
             /\ m.cmd # "GET" => m.idx \in Nat /\ m.idx < Own[s]
  <2>1. m \in Messages /\ (m.cmd = "GET" \/ m.idx < Own[s])
    BY DEF MessagesTo, MessagesOf
  <2>2. m.txn \in 0 .. TxnModulo - 1 /\ m.round \in Round
    BY <2>1 DEF Messages
  <2>3. ASSUME m.cmd # "GET" PROVE m.idx \in UNION {0 .. Own[k] - 1 : k \in Node}
    BY <2>1, <2>3 DEF Messages
  <2>4. UNION {0 .. Own[k] - 1 : k \in Node} \subseteq Nat
    OBVIOUS
  <2>5. QED
    BY <2>1, <2>2, <2>3, <2>4
<1>4. QED
  BY <1>2, <1>3 DEF Received

\* A step of one node and of nobody else, by what it changes
Acts(n) ==
  \/ Engage(n) \/ EngageContinues(n) \/ Transmit(n) \/ TxComplete(n)
  \/ (\E s \in Node \ {n} : Receive(n, s))
  \/ Timeout(n) \/ Fill(n) \/ ClearTables(n) \/ Restart(n)

LEMMA TransactionStaysTyped ==
  ASSUME RtbInv, TypeInv, NEW n \in Node, Acts(n), NEW m \in Node
  PROVE  curr_txn'[m] \in 0 .. TxnModulo - 1
<1>1. CASE curr_txn' = curr_txn
  BY <1>1 DEF TypeInv
<1>2. ASSUME NEW t \in 0 .. TxnModulo - 1, curr_txn' = [curr_txn EXCEPT ![n] = t]
      PROVE  curr_txn'[m] \in 0 .. TxnModulo - 1
  BY <1>2 DEF TypeInv, RtbInv, Shape
<1>3. CASE EngageGet(n)
  <2>1. NextTransaction(n) \in 0 .. TxnModulo - 1
    BY RtbAssumptionUsed DEF NextTransaction, TypeInv
  <2>2. QED
    BY <1>2, <1>3, <2>1 DEF EngageGet
<1>4. ASSUME NEW s \in Node, ReceiveGet(n, s) PROVE curr_txn'[m] \in 0 .. TxnModulo - 1
  BY <1>2, <1>4, ReceivedHasType DEF ReceiveGet, Receives
<1>5. CASE Restart(n)
  <2>1. 0 \in 0 .. TxnModulo - 1
    BY RtbAssumptionUsed
  <2>2. QED
    BY <1>2, <1>5, <2>1 DEF Restart
<1>6. QED
  BY <1>1, <1>3, <1>4, <1>5
     DEF Acts, Engage, EngageContinues, EngageClear, EngageTimer, EngageState, Transmit,
         TxComplete, Receive, IgnoreGet, ReceiveStatus, IgnoreStatus, Timeout, Fill,
         ClearTables, node_vars

LEMMA RoundsStayFit ==
  ASSUME RtbInv, TypeInv, NEW n \in Node, Acts(n), NEW m \in Node
  PROVE  RoundsFit(m)'
<1>. DEFINE Same == /\ rounds'[m] = rounds[m]
                    /\ thread'[m] \in {thread[m], "idle"}
                    /\ curr_state'[m] = "GETTING" => curr_state[m] = "GETTING"
<1>1. RoundsFit(m) /\ MaxRounds[m] \in Nat
  BY RtbAssumptionUsed DEF TypeInv
<1>2. CASE Same
  BY <1>1, <1>2 DEF RoundsFit
<1>3. CASE m # n
  <2>1. Same
    BY <1>3, ZenonT(30) DEF RtbInv, Shape, Acts, Engage, EngageContinues, EngageClear, EngageGet,
                EngageTimer, EngageState, Transmit, TxComplete, Receive, ReceiveGet, IgnoreGet,
                ReceiveStatus, IgnoreStatus, Timeout, Fill, ClearTables, Restart, node_vars,
                aux_vars
  <2>2. QED
    BY <1>2, <2>1
<1>4. CASE m = n /\ (Engage(n) \/ EngageClear(n) \/ EngageTimer(n) \/ EngageState(n))
  <2>1. rounds' = rounds
    BY <1>4 DEF Engage, EngageClear, EngageTimer, EngageState, aux_vars
  <2>2. CASE Engage(n)
    BY <1>1, <1>4, <2>1, <2>2 DEF Engage, RoundsFit, RtbInv, Shape
  <2>3. CASE EngageClear(n)
    BY <1>1, <1>4, <2>1, <2>3 DEF EngageClear, RoundsFit, RtbInv, Shape
  <2>4. CASE EngageTimer(n)
    BY <1>1, <1>4, <2>1, <2>4 DEF EngageTimer, RoundsFit, RtbInv, Shape
  <2>5. CASE EngageState(n)
    BY <1>1, <1>4, <2>1, <2>5 DEF EngageState, RoundsFit, RtbInv, Shape
  <2>6. QED
    BY <1>4, <2>2, <2>3, <2>4, <2>5
<1>5. CASE m = n /\ EngageGet(n)
  <2>1. rounds'[n] = rounds[n] + 1 /\ thread'[n] = "timer" /\ thread[n] = "get"
    BY <1>5 DEF EngageGet, RtbInv, Shape
  <2>2. QED
    BY <1>1, <1>5, <2>1 DEF RoundsFit
<1>6. CASE m = n /\ Acts(n) /\ ~Engage(n) /\ ~EngageContinues(n)
  <2>1. CASE TxComplete(n) \/ Transmit(n)
    BY <1>2, <1>6, <2>1 DEF RtbInv, Shape, TxComplete, Transmit, node_vars, aux_vars
  <2>2. ASSUME NEW s \in Node, Receive(n, s) PROVE Same
    BY <1>6, <2>2 DEF RtbInv, Shape, Receive, ReceiveGet, IgnoreGet, ReceiveStatus, IgnoreStatus,
                      node_vars, aux_vars
  <2>3. CASE Timeout(n)
    BY <1>2, <1>6, <2>3 DEF RtbInv, Shape, Timeout, aux_vars
  <2>4. CASE Fill(n) \/ ClearTables(n) \/ Restart(n)
    BY <1>2, <1>6, <2>4 DEF RtbInv, Shape, Fill, ClearTables, Restart, aux_vars
  <2>5. QED
    BY <1>2, <1>6, <2>1, <2>2, <2>3, <2>4 DEF Acts
<1>7. QED
  BY <1>3, <1>4, <1>5, <1>6 DEF EngageContinues

LEMMA QueuesStayTyped ==
  ASSUME RtbInv, TypeInv, NEW n \in Node, Acts(n), NEW m \in Node,
         \A k \in Node : curr_txn'[k] \in 0 .. TxnModulo - 1 /\ RoundsFit(k)'
  PROVE  out'[m] \in Seq(MessagesOf(m))
<1>1. out[m] \in Seq(MessagesOf(m)) /\ out[n] \in Seq(MessagesOf(n))
  BY DEF TypeInv
<1>2. CASE out' = out
  BY <1>1, <1>2
<1>3. ASSUME NEW q \in Seq(MessagesOf(n)), out' = [out EXCEPT ![n] = q]
      PROVE  out'[m] \in Seq(MessagesOf(m))
  BY <1>1, <1>3 DEF RtbInv, Shape
<1>4. CASE EngageGet(n)
  <2>1. rounds'[n] \in 1 .. MaxRounds[n]
    <3>1. rounds[n] \in 0 .. MaxRounds[n] /\ rounds[n] < MaxRounds[n] /\ MaxRounds[n] \in Nat
      BY <1>4, RtbAssumptionUsed DEF EngageGet, TypeInv, RoundsFit
    <3>2. rounds'[n] = rounds[n] + 1
      BY <1>4 DEF EngageGet, RtbInv, Shape
    <3>3. QED
      BY <3>1, <3>2
  <2>2. Get(n) \in MessagesOf(n)
    <3>1. RoundOf(n)' \in Round
      BY <2>1 DEF RoundOf, Round
    <3>2. QED
      BY <3>1 DEF Get, MessagesOf, Messages
  <2>3. Append(out[n], Get(n)) \in Seq(MessagesOf(n))
    BY <1>1, <2>2, AppendProperties
  <2>4. QED
    BY <1>3, <1>4, <2>3 DEF EngageGet
<1>5. CASE TxComplete(n)
  <2>1. out[n] # <<>>
    BY <1>5 DEF TxComplete, RtbInv, Shape
  <2>2. Tail(out[n]) \in Seq(MessagesOf(n))
    BY <1>1, <2>1, HeadTailProperties
  <2>3. QED
    BY <1>3, <1>5, <2>2 DEF TxComplete
<1>6. ASSUME NEW s \in Node, ReceiveGet(n, s) PROVE out'[m] \in Seq(MessagesOf(m))
  <2>. DEFINE msg     == Received(n, s)
              replies == Entries(n, "STATUS_REPLY", {s}, msg.txn, msg.round)
  <2>1. msg.txn \in 0 .. TxnModulo - 1 /\ msg.round \in Round
    BY <1>6, ReceivedHasType DEF ReceiveGet, Receives
  <2>2. replies \in Seq(MessagesOf(n))
    BY <2>1, EntriesAreTyped DEF RtbInv
  <2>3. out[n] \o replies \in Seq(MessagesOf(n))
    BY <1>1, <2>2, ConcatProperties
  <2>4. QED
    BY <1>3, <1>6, <2>3 DEF ReceiveGet
<1>7. CASE Timeout(n) /\ curr_state[n] = "GETTING"
  <2>. DEFINE entries == Entries(n, "STATUS", Node \ {n}, curr_txn[n], RoundOf(n))
  <2>1. rounds[n] > 0 /\ curr_txn[n] \in 0 .. TxnModulo - 1
    BY <1>7 DEF TypeInv, RoundsFit
  <2>2. RoundOf(n) \in Round /\ Node \ {n} \in SUBSET Node
    BY <2>1, RoundIsTyped
  <2>3. entries \in Seq(MessagesOf(n))
    BY <2>1, <2>2, EntriesAreTyped DEF RtbInv
  <2>4. out[n] \o entries \in Seq(MessagesOf(n))
    BY <1>1, <2>3, ConcatProperties
  <2>5. QED
    BY <1>3, <1>7, <2>4 DEF Timeout
<1>8. CASE Restart(n)
  BY <1>3, <1>8, EmptySeq DEF Restart
<1>9. QED
  BY <1>2, <1>4, <1>5, <1>6, <1>7, <1>8
     DEF Acts, Engage, EngageContinues, EngageClear, EngageTimer, EngageState, Transmit,
         Receive, IgnoreGet, ReceiveStatus, IgnoreStatus, Timeout, Fill, ClearTables, mesh_vars

LEMMA ChannelsStayTyped ==
  ASSUME RtbInv, TypeInv, NEW n \in Node, Acts(n), NEW s \in Node, NEW d \in Node
  PROVE  chan'[s][d] \in Seq(MessagesTo(s, d))
<1>1. chan[s][d] \in Seq(MessagesTo(s, d)) /\ chan \in [Node -> [Node -> Seq(Msgs)]]
  BY DEF TypeInv, RtbInv, Shape
<1>2. CASE chan' = chan
  BY <1>1, <1>2
<1>3. CASE Transmit(n)
  <2>. DEFINE msg == Head(out[n])
  <2>1. msg \in MessagesOf(n)
    BY <1>3, HeadTailProperties DEF Transmit, TypeInv
  <2>2. PICK lost \in SUBSET msg.to :
          chan' = [chan EXCEPT ![n] = [e \in Node |-> IF e \in msg.to \ lost
                                                      THEN Append(@[e], msg) ELSE @[e]]]
    BY <1>3 DEF Transmit
  <2>. HIDE DEF msg
  <2>3. \/ chan'[s][d] = chan[s][d]
        \/ s = n /\ d \in msg.to /\ chan'[s][d] = Append(chan[s][d], msg)
    BY <1>1, <2>2
  <2>4. CASE s = n /\ d \in msg.to /\ chan'[s][d] = Append(chan[s][d], msg)
    <3>1. msg \in MessagesTo(s, d)
      BY <2>1, <2>4 DEF MessagesTo
    <3>2. QED
      BY <1>1, <2>4, <3>1, AppendProperties
  <2>5. QED
    BY <1>1, <2>3, <2>4
<1>4. ASSUME NEW k \in Node, chan[k][n] # <<>>, Consume(n, k)
      PROVE  chan'[s][d] \in Seq(MessagesTo(s, d))
  <2>1. Tail(chan[k][n]) \in Seq(MessagesTo(k, n))
    BY <1>4, ReceivedHasType
  <2>2. \/ chan'[s][d] = chan[s][d]
        \/ s = k /\ d = n /\ chan'[s][d] = Tail(chan[k][n])
    <3>1. chan'[k] = [chan[k] EXCEPT ![n] = Tail(chan[k][n])] /\ (s # k => chan'[s] = chan[s])
      BY <1>1, <1>4 DEF Consume
    <3>2. chan[k] \in [Node -> Seq(Msgs)]
      BY <1>1
    <3>3. CASE s # k
      BY <3>1, <3>3
    <3>4. CASE s = k /\ d # n
      BY <3>1, <3>2, <3>4
    <3>5. CASE s = k /\ d = n
      BY <3>1, <3>2, <3>5
    <3>6. QED
      BY <3>3, <3>4, <3>5
  <2>3. QED
    BY <1>1, <2>1, <2>2
<1>5. CASE Restart(n)
  BY <1>1, <1>5, EmptySeq DEF Restart
<1>6. ASSUME NEW k \in Node, Receive(n, k) PROVE chan[k][n] # <<>> /\ Consume(n, k)
  BY <1>6 DEF Receive, Receives, ReceiveGet, IgnoreGet, ReceiveStatus, IgnoreStatus
<1>7. QED
  BY <1>2, <1>3, <1>4, <1>5, <1>6
     DEF Acts, Engage, EngageContinues, EngageClear, EngageGet, EngageTimer, EngageState,
         TxComplete, Timeout, Fill, ClearTables, mesh_vars

\* remote_container_table_clear_address and remote_container_table_add_entry
LEMMA TableFunctionsAreTyped ==
  ASSUME NEW n \in Node, NEW table \in Seq(EntriesAt(n)), Len(table) <= MaxRemote,
         NEW s \in Node \ {n}
  PROVE  /\ ClearAddress(table, s) \in Seq(EntriesAt(n))
         /\ Len(ClearAddress(table, s)) <= MaxRemote
         /\ \A idx \in Nat : idx < Own[s] =>
              /\ AddEntry(table, s, idx) \in Seq(EntriesAt(n))
              /\ Len(AddEntry(table, s, idx)) <= MaxRemote
<1>. DEFINE kept == {i \in DOMAIN table : table[i].addr # s}
<1>1. Len(table) \in Nat /\ DOMAIN table = 1 .. Len(table)
  BY LenProperties
<1>2. kept \in SUBSET (1 .. Len(table))
  BY <1>1
<1>3. /\ Selected(table, kept) \in Seq(EntriesAt(n))
      /\ Len(Selected(table, kept)) = Cardinality(kept)
      /\ Cardinality(kept) \in Nat /\ Cardinality(kept) <= Len(table)
  <2>. HIDE DEF kept
  <2>1. QED
    BY <1>2, SelectedPositions
<1>4. /\ ClearAddress(table, s) \in Seq(EntriesAt(n))
      /\ Len(ClearAddress(table, s)) <= MaxRemote
  BY <1>1, <1>3, RtbAssumptionUsed DEF ClearAddress
<1>5. ASSUME NEW idx \in Nat, idx < Own[s]
      PROVE  /\ AddEntry(table, s, idx) \in Seq(EntriesAt(n))
             /\ Len(AddEntry(table, s, idx)) <= MaxRemote
  <2>1. [addr |-> s, id |-> idx] \in EntriesAt(n)
    BY <1>5 DEF EntriesAt
  <2>2. Append(table, [addr |-> s, id |-> idx]) \in Seq(EntriesAt(n))
        /\ Len(Append(table, [addr |-> s, id |-> idx])) = Len(table) + 1
    BY <2>1, AppendProperties
  <2>3. QED
    BY <1>1, <2>2, RtbAssumptionUsed DEF AddEntry
<1>6. QED
  BY <1>4, <1>5

LEMMA RemoteStaysTyped ==
  ASSUME RtbInv, TypeInv, NEW n \in Node, Acts(n)
  PROVE  remote' = [m \in Node |-> remote'[m]] /\ \A m \in Node : RemoteTyped(m)'
<1>1. /\ remote = [m \in Node |-> remote[m]]
      /\ \A m \in Node : RemoteTyped(m)
  BY DEF TypeInv
<1>2. CASE remote' = remote
  BY <1>1, <1>2 DEF RemoteTyped
<1>3. ASSUME NEW t \in Seq(EntriesAt(n)), Len(t) <= MaxRemote, remote' = [remote EXCEPT ![n] = t]
      PROVE  remote' = [m \in Node |-> remote'[m]] /\ \A m \in Node : RemoteTyped(m)'
  <2>1. remote' = [m \in Node |-> IF m = n THEN t ELSE remote[m]]
    BY <1>1, <1>3
  <2>2. QED
    BY <1>1, <1>3, <2>1 DEF RemoteTyped
<1>4. <<>> \in Seq(EntriesAt(n)) /\ Len(<<>>) <= MaxRemote
  BY EmptySeq, RtbAssumptionUsed
<1>5. CASE EngageClear(n) \/ ClearTables(n) \/ Restart(n)
  BY <1>3, <1>4, <1>5 DEF EngageClear, ClearTables, Restart
<1>6. ASSUME NEW s \in Node \ {n}, ReceiveGet(n, s), curr_state[n] = "IDLE"
      PROVE  remote' = [m \in Node |-> remote'[m]] /\ \A m \in Node : RemoteTyped(m)'
  <2>1. /\ ClearAddress(remote[n], s) \in Seq(EntriesAt(n))
        /\ Len(ClearAddress(remote[n], s)) <= MaxRemote
    BY <1>1, TableFunctionsAreTyped DEF RemoteTyped
  <2>2. remote' = [remote EXCEPT ![n] = ClearAddress(remote[n], s)]
    BY <1>6 DEF ReceiveGet
  <2>3. QED
    BY <1>3, <2>1, <2>2
<1>7. ASSUME NEW s \in Node \ {n}, ReceiveStatus(n, s)
      PROVE  remote' = [m \in Node |-> remote'[m]] /\ \A m \in Node : RemoteTyped(m)'
  <2>. DEFINE idx == Received(n, s).idx
  <2>1. idx \in Nat /\ idx < Own[s]
    BY <1>7, ReceivedHasType DEF ReceiveStatus, Receives
  <2>2. /\ AddEntry(remote[n], s, idx) \in Seq(EntriesAt(n))
        /\ Len(AddEntry(remote[n], s, idx)) <= MaxRemote
    BY <1>1, <2>1, TableFunctionsAreTyped DEF RemoteTyped
  <2>3. remote' = [remote EXCEPT ![n] = AddEntry(remote[n], s, idx)]
    BY <1>7 DEF ReceiveStatus
  <2>4. QED
    BY <1>3, <2>2, <2>3
<1>8. QED
  BY <1>2, <1>5, <1>6, <1>7
     DEF Acts, Engage, EngageContinues, EngageGet, EngageTimer, EngageState, Transmit,
         TxComplete, Receive, ReceiveGet, IgnoreGet, IgnoreStatus, Timeout, Fill, node_vars

LEMMA GaveUpStaysTyped ==
  ASSUME TypeInv, NEW n \in Node, Acts(n)
  PROVE  gave_up' \in [Node -> SUBSET Node] /\ \A m \in Node : m \notin gave_up'[m]
<1>1. gave_up \in [Node -> SUBSET Node] /\ \A m \in Node : m \notin gave_up[m]
  BY DEF TypeInv
<1>2. CASE gave_up' = gave_up
  BY <1>1, <1>2
<1>3. ASSUME NEW S \in SUBSET Node, n \notin S, gave_up' = [gave_up EXCEPT ![n] = S]
      PROVE  gave_up' \in [Node -> SUBSET Node] /\ \A m \in Node : m \notin gave_up'[m]
  BY <1>1, <1>3
<1>4. CASE EngageClear(n) \/ Restart(n)
  <2>1. PICK S : S = {}
    OBVIOUS
  <2>2. gave_up' = [gave_up EXCEPT ![n] = S]
    BY <1>4, <2>1 DEF EngageClear, Restart
  <2>3. S \in SUBSET Node /\ n \notin S
    BY <2>1
  <2>4. QED
    BY <1>3, <2>2, <2>3
<1>5. ASSUME NEW s \in Node, ReceiveGet(n, s)
      PROVE  gave_up' \in [Node -> SUBSET Node] /\ \A m \in Node : m \notin gave_up'[m]
  <2>0. PICK S : S = gave_up[n] \ {s}
    OBVIOUS
  <2>1. gave_up' = gave_up \/ gave_up' = [gave_up EXCEPT ![n] = S]
    BY <1>5, <2>0 DEF ReceiveGet
  <2>2. S \in SUBSET Node /\ n \notin S
    BY <1>1, <2>0
  <2>3. QED
    BY <1>2, <1>3, <2>1, <2>2
<1>6. CASE Timeout(n)
  <2>0. PICK S : S = gave_up[n] \cup Awaited(n)
    OBVIOUS
  <2>1. gave_up' = gave_up \/ gave_up' = [gave_up EXCEPT ![n] = S]
    BY <1>6, <2>0 DEF Timeout
  <2>2. S \in SUBSET Node /\ n \notin S
    BY <1>1, <2>0 DEF Awaited
  <2>3. QED
    BY <1>2, <1>3, <2>1, <2>2
<1>7. QED
  BY <1>2, <1>4, <1>5, <1>6
     DEF Acts, Engage, EngageContinues, EngageGet, EngageTimer, EngageState, Transmit,
         TxComplete, Receive, IgnoreGet, ReceiveStatus, IgnoreStatus, Fill, ClearTables,
         aux_vars

LEMMA TypeStepKeeps == RtbInv /\ TypeInv /\ [Next]_vars => TypeInv'
<1>. SUFFICES ASSUME RtbInv, TypeInv, [Next]_vars
              PROVE  TypeInv'
  OBVIOUS
<1>1. CASE UNCHANGED vars
  BY <1>1 DEF vars, node_vars, mesh_vars, aux_vars, TypeInv, RoundsFit, RemoteTyped
<1>2. CASE Next
  <2>1. PICK n \in Node : Acts(n)
    BY <1>2 DEF Next, Acts
  <2>2. /\ \A m \in Node : curr_txn'[m] \in 0 .. TxnModulo - 1
        /\ \A m \in Node : RoundsFit(m)'
    BY <2>1, TransactionStaysTyped, RoundsStayFit
  <2>3. \A m \in Node : out'[m] \in Seq(MessagesOf(m))
    BY <2>1, <2>2, QueuesStayTyped
  <2>4. \A s, d \in Node : chan'[s][d] \in Seq(MessagesTo(s, d))
    BY <2>1, ChannelsStayTyped
  <2>5. remote' = [m \in Node |-> remote'[m]] /\ \A m \in Node : RemoteTyped(m)'
    BY <2>1, RemoteStaysTyped
  <2>6. gave_up' \in [Node -> SUBSET Node] /\ \A m \in Node : m \notin gave_up'[m]
    BY <2>1, GaveUpStaysTyped
  <2>7. QED
    BY <2>2, <2>3, <2>4, <2>5, <2>6 DEF TypeInv
<1>3. QED
  BY <1>1, <1>2

\* The types hold for any number of nodes, with losses, resets and clears: the
\* remote container table stays within its bounds, and names for another node
\* only entries that its network exposes (remote_container_table_add_entry).
THEOREM RtbTypeCorrect == Spec => []RtbTypeOK
<1>1. RtbInv /\ TypeInv => RtbTypeOK
  <2>. SUFFICES ASSUME RtbInv, TypeInv, NEW n \in Node
                PROVE  RtbTypeOK!(n)
    BY DEF RtbTypeOK
  <2>1. /\ curr_state[n] \in {"IDLE", "GETTING", "PUBLISHING", "RECEIVING"}
        /\ curr_txn[n] \in 0 .. TxnModulo - 1
        /\ timer[n] \in BOOLEAN /\ on_air[n] \in BOOLEAN /\ failed[n] \in BOOLEAN
        /\ local_entries[n] \in {0, Own[n]}
        /\ thread[n] \in {"idle", "clear", "get", "timer", "state"}
    BY DEF RtbInv, Shape, States, Pcs, TypeInv
  <2>2. \A S : \A q \in Seq(S) : ToSet(q) \subseteq S
    BY DEF ToSet
  <2>3. remote[n] \in Seq(EntriesAt(n)) /\ Len(remote[n]) <= MaxRemote
    BY DEF TypeInv, RemoteTyped
  <2>4. ASSUME NEW e \in ToSet(remote[n])
        PROVE  e.addr \in Node \ {n} /\ e.id \in 0 .. Own[e.addr] - 1
    <3>1. e \in EntriesAt(n)
      BY <2>2, <2>3
    <3>2. e.addr \in Node \ {n} /\ e.id \in Nat /\ e.id < Own[e.addr] /\ Own[e.addr] \in Nat
      BY <3>1, RtbAssumptionUsed DEF EntriesAt
    <3>3. QED
      BY <3>2
  <2>5. ToSet(out[n]) \subseteq Messages
    BY <2>2 DEF TypeInv, MessagesOf
  <2>6. ASSUME NEW d \in Node
        PROVE  ToSet(chan[n][d]) \subseteq {m \in Messages : d \in m.to}
    BY <2>2 DEF TypeInv, MessagesTo, MessagesOf
  <2>7. gave_up[n] \subseteq Node \ {n}
    BY DEF TypeInv
  <2>8. QED
    BY <2>1, <2>3, <2>4, <2>5, <2>6, <2>7
<1>2. QED
  BY <1>1, InitTypeInv, TypeStepKeeps, RtbInvariance, PTL DEF Spec

-----------------------------------------------------------------------------
\* Procedures one after the other over a mesh that loses nothing, among nodes
\* that are neither reset nor cleared: fewer procedures than identifiers of
\* transactions, and room for the entries of all the other nodes.

FewProcedures == IsFiniteSet(Round) /\ Cardinality(Round) < TxnModulo

OneAtATime ==
  /\ Sequential /\ Prompt /\ ~MayLose
  /\ Clearable = {} /\ \A n \in Node : MaxRestarts[n] = 0
  /\ FewProcedures
  /\ \A n \in Node : IsFiniteSet(EntriesAt(n)) /\ Cardinality(EntriesAt(n)) <= MaxRemote

\* The procedures engaged so far; their number is the transaction of the last.
Done == {p \in Round : p[2] <= rounds[p[1]]}
Txn  == Cardinality(Done)

\* The messages of procedure p, whose transaction is t and whose initiator is i:
\* its GET, and those of the entries a to b - 1 of a table.
GetOf(i, t, p) == [cmd |-> "GET", txn |-> t, to |-> Node \ {i}, round |-> p]

EntryMsg(cmd, to, t, p, k) == [cmd |-> cmd, txn |-> t, idx |-> k, to |-> to, round |-> p]

EntryMsgs(cmd, to, t, p) == {EntryMsg(cmd, to, t, p, k) : k \in Nat}

Run(cmd, to, t, p, a, b) == [k \in 1 .. b - a |-> EntryMsg(cmd, to, t, p, a + k - 1)]

Replies(i, t, p, a, b)   == Run("STATUS_REPLY", {i}, t, p, a, b)
Published(i, t, p, a, b) == Run("STATUS", Node \ {i}, t, p, a, b)

\* When b is the first entry that n has not transmitted, this is the first that
\* it keeps in its queue.
Unsent(n, b) == IF on_air[n] THEN b - 1 ELSE b

\* Of the entries of m, a table holds those below k.
Holds(table, m, k) ==
  \A j \in 0 .. Own[m] - 1 : [addr |-> m, id |-> j] \in ToSet(table) <=> j < k

\* A table holds all the entries of m.
HoldsAll(table, m) == \A j \in 0 .. Own[m] - 1 : [addr |-> m, id |-> j] \in ToSet(table)

\* n holds all the entries of m, unless it gave up waiting for them.
Told(n, m) == HoldsAll(remote[n], m) \/ m \in gave_up[n]

KnownAmong(nodes) ==
  \A n, m \in nodes : n # m /\ rounds[n] > 0 => Told(n, m) /\ Told(m, n)

Steady ==
  \A n \in Node : /\ local_entries[n] = Own[n] /\ ~cleared[n] /\ restarts[n] = 0
                  /\ IsInjective(remote[n])

\* No procedure goes on.
Resting(t) ==
  /\ \A n \in Node : /\ curr_state[n] = "IDLE" /\ thread[n] = "idle"
                     /\ out[n] = <<>> /\ curr_txn[n] = t
  /\ \A s, d \in Node : chan[s][d] = <<>>
  /\ KnownAmong(Node)

\* The main thread of i engages a procedure.
Engaging(i, t, p) ==
  /\ thread[i] # "idle" /\ \A n \in Node \ {i} : thread[n] = "idle" /\ out[n] = <<>>
  /\ \A n \in Node : curr_state[n] = "IDLE"
  /\ \A s, d \in Node : chan[s][d] = <<>>
  /\ thread[i] # "clear" => remote[i] = <<>>
  /\ thread[i] \in {"clear", "get"} => out[i] = <<>> /\ \A n \in Node : curr_txn[n] = t
  /\ thread[i] \in {"timer", "state"} =>
       /\ out[i] = <<GetOf(i, t, p)>> /\ ~on_air[i]
       /\ curr_txn[i] = t /\ \A n \in Node \ {i} : curr_txn[n] = t - 1
  /\ KnownAmong(Node \ {i})

\* The GET of i waits to be transmitted.
GetWaits(i) == out[i] # <<>> /\ ~on_air[i]

\* d has not handled the GET of i.
Unaware(i, d, t, p) ==
  /\ curr_state[d] = "IDLE" /\ curr_txn[d] = t - 1
  /\ out[d] = <<>> /\ chan[d][i] = <<>> /\ Holds(remote[i], d, 0)
  /\ chan[i][d] = IF GetWaits(i) THEN <<>> ELSE <<GetOf(i, t, p)>>

\* d takes part in the procedure of i, or gave up.
TakesPart(i, d) ==
  \/ curr_state[d] = "RECEIVING"
  \/ curr_state[d] = "IDLE" /\ i \in gave_up[d]

\* i has stored the entries of d below a, and d has transmitted those below b.
RepliesGo(i, d, t, p, a, b) ==
  /\ a <= b /\ (on_air[d] => b > 0)
  /\ chan[d][i] = Replies(i, t, p, a, b)
  /\ out[d] = Replies(i, t, p, Unsent(d, b), Own[d])
  /\ Holds(remote[i], d, a)

Replying(i, d, t, p) ==
  /\ TakesPart(i, d) /\ curr_txn[d] = t
  /\ ~GetWaits(i) /\ chan[i][d] = <<>> /\ Holds(remote[d], i, 0)
  /\ \E a, b \in 0 .. Own[d] : RepliesGo(i, d, t, p, a, b)

\* i gets the entries of the others.
Getting(i, t, p) ==
  /\ \A n \in Node : thread[n] = "idle"
  /\ curr_state[i] = "GETTING" /\ curr_txn[i] = t
  /\ \A s, d \in Node : (s = i <=> d = i) => chan[s][d] = <<>>
  /\ out[i] = <<>> \/ out[i] = <<GetOf(i, t, p)>>
  /\ \A d \in Node \ {i} : Unaware(i, d, t, p) \/ Replying(i, d, t, p)
  /\ KnownAmong(Node \ {i})

\* d has handled the entries of i below a, and stored them unless it gave up; i
\* has transmitted those below b.
EntriesGo(i, d, t, p, a, b) ==
  /\ chan[i][d] = Published(i, t, p, a, b)
  /\ \/ curr_state[d] = "RECEIVING" /\ Holds(remote[d], i, a)
     \/ curr_state[d] = "IDLE" /\ i \in gave_up[d]
     \/ curr_state[d] = "IDLE" /\ a = b /\ curr_state[i] = "IDLE" /\ Holds(remote[d], i, a)

PublishedUpTo(i, t, p, b) ==
  /\ on_air[i] => b > 0
  /\ out[i] = Published(i, t, p, Unsent(i, b), Own[i])
  /\ \/ curr_state[i] = "PUBLISHING"
     \/ curr_state[i] = "IDLE" /\ b = Own[i] /\ ~on_air[i]
  /\ \A d \in Node \ {i} : \E a \in 0 .. b : EntriesGo(i, d, t, p, a, b)

\* i publishes its entries, or has done so and the others still receive.
Publishing(i, t, p) ==
  /\ \A n \in Node : thread[n] = "idle" /\ curr_txn[n] = t
  /\ \A s, d \in Node : s # i \/ d = i => chan[s][d] = <<>>
  /\ \A d \in Node \ {i} : out[d] = <<>> /\ Holds(remote[i], d, Own[d])
  /\ \E b \in 0 .. Own[i] : PublishedUpTo(i, t, p, b)
  /\ KnownAmong(Node \ {i})

\* At any time nothing goes on, or one node engages a procedure, gets the entries
\* of the others or publishes its own.
InPhase ==
  \/ Resting(Txn)
  \/ \E i \in Node : \/ Engaging(i, Txn, RoundOf(i))
                     \/ Getting(i, Txn, RoundOf(i))
                     \/ Publishing(i, Txn, RoundOf(i))

ProcInv == Steady /\ InPhase

-----------------------------------------------------------------------------
LEMMA OneMessage ==
  ASSUME NEW m
  PROVE  /\ <<m>> # <<>> /\ Head(<<m>>) = m /\ Tail(<<m>>) = <<>>
         /\ Append(<<>>, m) = <<m>>
  OBVIOUS

\* A run of entries is a sequence: it loses its first one and gets the next one.
LEMMA RunShape ==
  ASSUME NEW cmd, NEW to, NEW t, NEW p, NEW a \in Nat, NEW b \in Nat, a <= b
  PROVE  /\ Run(cmd, to, t, p, a, b) \in Seq(EntryMsgs(cmd, to, t, p))
         /\ Len(Run(cmd, to, t, p, a, b)) = b - a
<1>. DEFINE msg(k) == EntryMsg(cmd, to, t, p, k)
            S      == {msg(k) : k \in Nat}
            run    == [k \in 1 .. b - a |-> msg(a + k - 1)]
<1>1. b - a \in Nat
  OBVIOUS
<1>2. run \in [1 .. b - a -> S]
  <2>1. \A k \in 1 .. b - a : a + k - 1 \in Nat
    BY <1>1
  <2>2. QED
    BY <2>1
<1>3. run \in Seq(S) /\ Len(run) = b - a
  BY <1>1, <1>2
<1>4. Run(cmd, to, t, p, a, b) = run /\ EntryMsgs(cmd, to, t, p) = S
  BY DEF Run, EntryMsgs
<1>. HIDE DEF run, S
<1>5. QED
  BY <1>3, <1>4

LEMMA RunLength ==
  ASSUME NEW cmd, NEW to, NEW t, NEW p, NEW a \in Nat, NEW b \in Nat, a <= b
  PROVE  Len(Run(cmd, to, t, p, a, b)) = b - a
  BY RunShape, ZenonT(30)

LEMMA RunEntry ==
  ASSUME NEW cmd, NEW to, NEW t, NEW p, NEW a, NEW b, NEW k \in 1 .. b - a
  PROVE  Run(cmd, to, t, p, a, b)[k] = EntryMsg(cmd, to, t, p, a + k - 1)
  BY DEF Run

LEMMA RunEmpty ==
  ASSUME NEW cmd, NEW to, NEW t, NEW p, NEW a \in Nat, NEW b \in Nat, a <= b
  PROVE  Run(cmd, to, t, p, a, b) = <<>> <=> a = b
<1>. DEFINE run == Run(cmd, to, t, p, a, b)
            S   == EntryMsgs(cmd, to, t, p)
<1>1. run \in Seq(S) /\ Len(run) = b - a
  BY RunShape, ZenonT(30)
<1>2. Len(run) = 0 <=> run = <<>>
  <2>. HIDE DEF run, S
  <2>1. QED
    BY <1>1, EmptySeq
<1>3. b - a = 0 <=> a = b
  OBVIOUS
<1>. HIDE DEF run
<1>4. run = <<>> <=> a = b
  BY <1>1, <1>2, <1>3
<1>5. QED
  BY <1>4 DEF run

LEMMA RunHead ==
  ASSUME NEW cmd, NEW to, NEW t, NEW p, NEW a \in Nat, NEW b \in Nat, a < b
  PROVE  Head(Run(cmd, to, t, p, a, b)) = EntryMsg(cmd, to, t, p, a)
<1>. DEFINE run == Run(cmd, to, t, p, a, b)
            S   == EntryMsgs(cmd, to, t, p)
<1>1. a <= b /\ 1 \in 1 .. b - a /\ a + 1 - 1 = a
  OBVIOUS
<1>2. run \in Seq(S) /\ Len(run) = b - a /\ run[1] = EntryMsg(cmd, to, t, p, a)
  <2>1. run[1] = EntryMsg(cmd, to, t, p, a + 1 - 1)
    BY <1>1, RunEntry
  <2>2. QED
    BY <1>1, <2>1, RunShape
<1>. HIDE DEF run, S
<1>3. Head(run) = EntryMsg(cmd, to, t, p, a)
  <2>1. run # <<>>
    BY <1>1, <1>2, EmptySeq
  <2>2. QED
    BY <1>2, <2>1, HeadTailProperties
<1>4. QED
  BY <1>3 DEF run

\* Tail, as a name that the provers do not expand
Rest(s) == Tail(s)

LEMMA RunRest ==
  ASSUME NEW cmd, NEW to, NEW t, NEW p, NEW a \in Nat, NEW b \in Nat, a < b
  PROVE  Rest(Run(cmd, to, t, p, a, b)) = Run(cmd, to, t, p, a + 1, b)
<1>0. PICK c \in Nat : c = a + 1
  OBVIOUS
<1>. DEFINE run  == Run(cmd, to, t, p, a, b)
            next == Run(cmd, to, t, p, c, b)
            S    == EntryMsgs(cmd, to, t, p)
<1>1. a <= b /\ c <= b /\ b - a - 1 = b - c /\ b - a > 0
  BY <1>0
<1>2. /\ run \in Seq(S) /\ Len(run) = b - a
      /\ \A k \in 1 .. b - a : run[k] = EntryMsg(cmd, to, t, p, a + k - 1)
  <2>1. \A k \in 1 .. b - a : run[k] = EntryMsg(cmd, to, t, p, a + k - 1)
    BY RunEntry
  <2>2. QED
    BY <1>1, <2>1, RunShape
<1>3. /\ next \in Seq(S) /\ Len(next) = b - c
      /\ \A k \in 1 .. b - c : next[k] = EntryMsg(cmd, to, t, p, c + k - 1)
  <2>1. \A k \in 1 .. b - c : next[k] = EntryMsg(cmd, to, t, p, c + k - 1)
    BY RunEntry
  <2>2. next \in Seq(S) /\ Len(next) = b - c
    <3>1. c <= b
      BY <1>1
    <3>2. next \in Seq(S)
      BY <3>1, RunShape
    <3>3. Len(next) = b - c
      BY <3>1, RunLength
    <3>4. QED
      BY <3>2, <3>3
  <2>. HIDE DEF next, S
  <2>3. QED
    BY <2>1, <2>2
<1>. HIDE DEF run, next, S
<1>4. /\ Tail(run) \in Seq(S) /\ Len(Tail(run)) = b - c
      /\ \A k \in 1 .. Len(Tail(run)) : Tail(run)[k] = run[k + 1]
  <2>1. run # <<>>
    BY <1>1, <1>2, EmptySeq
  <2>2. /\ Tail(run) \in Seq(S) /\ Len(Tail(run)) = Len(run) - 1
        /\ \A k \in 1 .. Len(Tail(run)) : Tail(run)[k] = run[k + 1]
    BY <1>2, <2>1, HeadTailProperties
  <2>3. QED
    BY <1>1, <1>2, <2>2
<1>5. ASSUME NEW k \in 1 .. b - c PROVE Tail(run)[k] = next[k]
  <2>1. k + 1 \in 1 .. b - a /\ a + (k + 1) - 1 = c + k - 1
    BY <1>0
  <2>2. run[k + 1] = EntryMsg(cmd, to, t, p, c + k - 1)
    BY <1>2, <2>1
  <2>3. QED
    BY <1>3, <1>4, <2>2
<1>6. Tail(run) = next
  BY <1>3, <1>4, <1>5, SeqEqual
<1>7. QED
  BY <1>0, <1>6 DEF run, next, Rest

LEMMA RunAppend ==
  ASSUME NEW cmd, NEW to, NEW t, NEW p, NEW a \in Nat, NEW b \in Nat, a <= b
  PROVE  Append(Run(cmd, to, t, p, a, b), EntryMsg(cmd, to, t, p, b)) = Run(cmd, to, t, p, a, b + 1)
<1>. DEFINE run    == Run(cmd, to, t, p, a, b)
            longer == Run(cmd, to, t, p, a, b + 1)
            last   == EntryMsg(cmd, to, t, p, b)
            S      == EntryMsgs(cmd, to, t, p)
<1>1. b + 1 \in Nat /\ a <= b + 1 /\ (b + 1) - a = (b - a) + 1
  OBVIOUS
<1>2. /\ run \in Seq(S) /\ Len(run) = b - a
      /\ \A k \in 1 .. b - a : run[k] = EntryMsg(cmd, to, t, p, a + k - 1)
  <2>1. \A k \in 1 .. b - a : run[k] = EntryMsg(cmd, to, t, p, a + k - 1)
    BY RunEntry
  <2>2. QED
    BY <1>1, <2>1, RunShape
<1>3. /\ longer \in Seq(S) /\ Len(longer) = (b + 1) - a
      /\ \A k \in 1 .. (b + 1) - a : longer[k] = EntryMsg(cmd, to, t, p, a + k - 1)
  <2>1. \A k \in 1 .. (b + 1) - a : longer[k] = EntryMsg(cmd, to, t, p, a + k - 1)
    BY RunEntry
  <2>2. QED
    BY <1>1, <2>1, RunShape
<1>4. last \in S
  BY DEF EntryMsgs
<1>. HIDE DEF run, longer, S
<1>5. /\ Append(run, last) \in Seq(S) /\ Len(Append(run, last)) = Len(run) + 1
      /\ \A k \in 1 .. Len(run) : Append(run, last)[k] = run[k]
      /\ Append(run, last)[Len(run) + 1] = last
  <2>. HIDE DEF last
  <2>1. QED
    BY <1>2, <1>4, AppendProperties
<1>6. ASSUME NEW k \in 1 .. (b + 1) - a PROVE Append(run, last)[k] = longer[k]
  <2>1. longer[k] = EntryMsg(cmd, to, t, p, a + k - 1)
    BY <1>3
  <2>2. CASE k = (b - a) + 1
    <3>1. a + k - 1 = b
      BY <2>2
    <3>2. QED
      BY <1>2, <1>5, <2>1, <2>2, <3>1
  <2>3. CASE k # (b - a) + 1
    <3>1. k \in 1 .. b - a
      BY <2>3
    <3>. HIDE DEF last
    <3>2. QED
      BY <1>2, <1>5, <2>1, <3>1
  <2>4. QED
    BY <2>2, <2>3
<1>7. Append(run, last) = longer
  <2>. HIDE DEF last
  <2>1. Len(Append(run, last)) = (b + 1) - a
    BY <1>1, <1>2, <1>5
  <2>2. QED
    BY <1>3, <1>5, <1>6, <2>1, SeqEqual
<1>8. QED
  BY <1>7 DEF run, longer

LEMMA RunAfterNone ==
  ASSUME NEW cmd, NEW to, NEW t, NEW p, NEW a \in Nat, NEW b \in Nat, a <= b
  PROVE  <<>> \o Run(cmd, to, t, p, a, b) = Run(cmd, to, t, p, a, b)
<1>. DEFINE run == Run(cmd, to, t, p, a, b)
            S   == EntryMsgs(cmd, to, t, p)
<1>1. run \in Seq(S)
  BY RunShape
<1>. HIDE DEF run, S
<1>2. <<>> \o run = run
  BY <1>1, ConcatEmptySeq
<1>3. QED
  BY <1>2 DEF run

LEMMA RunOfEntries ==
  ASSUME RtbAssumption, NEW n \in Node, local_entries[n] = Own[n], NEW cmd, NEW to, NEW t, NEW p
  PROVE  Entries(n, cmd, to, t, p) = Run(cmd, to, t, p, 0, Own[n])
<1>1. Own[n] \in Nat /\ Own[n] - 0 = Own[n]
  BY RtbAssumptionUsed
<1>2. \A k \in 1 .. Own[n] : 0 + k - 1 = k - 1
  OBVIOUS
<1>3. QED
  BY <1>1, <1>2 DEF Entries, Run, EntryMsg

-----------------------------------------------------------------------------
\* The remote container table.

LEMMA SetOfAppend ==
  ASSUME NEW S, NEW table \in Seq(S), NEW e \in S
  PROVE  ToSet(Append(table, e)) = ToSet(table) \cup {e}
<1>1. /\ Append(table, e) \in Seq(S) /\ Len(Append(table, e)) = Len(table) + 1
      /\ \A i \in 1 .. Len(table) : Append(table, e)[i] = table[i]
      /\ Append(table, e)[Len(table) + 1] = e
      /\ Len(table) \in Nat
  BY AppendProperties, LenProperties
<1>2. /\ DOMAIN Append(table, e) = 1 .. Len(table) + 1
      /\ DOMAIN table = 1 .. Len(table)
  BY <1>1, LenProperties
<1>3. ASSUME NEW x \in ToSet(Append(table, e)) PROVE x \in ToSet(table) \cup {e}
  <2>1. PICK i \in 1 .. Len(table) + 1 : x = Append(table, e)[i]
    BY <1>2, <1>3 DEF ToSet
  <2>2. i \in 1 .. Len(table) \/ i = Len(table) + 1
    BY <1>1
  <2>3. QED
    BY <1>1, <1>2, <2>1, <2>2 DEF ToSet
<1>4. ASSUME NEW x \in ToSet(table) PROVE x \in ToSet(Append(table, e))
  <2>1. PICK i \in 1 .. Len(table) : x = table[i]
    BY <1>2, <1>4 DEF ToSet
  <2>2. i \in 1 .. Len(table) + 1 /\ x = Append(table, e)[i]
    BY <1>1, <2>1
  <2>3. QED
    BY <1>2, <2>2 DEF ToSet
<1>5. e \in ToSet(Append(table, e))
  <2>1. Len(table) + 1 \in 1 .. Len(table) + 1
    BY <1>1
  <2>2. QED
    BY <1>1, <1>2, <2>1 DEF ToSet
<1>6. QED
  BY <1>3, <1>4, <1>5

\* A table without duplicates that misses an entry is shorter than the number of
\* entries.
LEMMA TableHasRoom ==
  ASSUME NEW S, IsFiniteSet(S), NEW table \in Seq(S), IsInjective(table),
         NEW e \in S, e \notin ToSet(table)
  PROVE  Len(table) < Cardinality(S)
<1>1. Len(table) \in Nat /\ table \in [1 .. Len(table) -> S] /\ DOMAIN table = 1 .. Len(table)
  BY LenProperties
<1>2. IsFiniteSet(S \ {e}) /\ Cardinality(S \ {e}) = Cardinality(S) - 1 /\ Cardinality(S) \in Nat
  BY FS_RemoveElement, FS_CardinalityType
<1>3. \A i \in 1 .. Len(table) : table[i] \in S \ {e}
  BY <1>1 DEF ToSet
<1>4. table \in Injection(1 .. Len(table), S \ {e})
  <2>1. table \in [1 .. Len(table) -> S \ {e}]
    BY <1>1, <1>3
  <2>2. QED
    BY <2>1 DEF Injection
<1>5. Cardinality(1 .. Len(table)) <= Cardinality(S \ {e})
  BY <1>2, <1>4, FS_Injection
<1>6. Cardinality(1 .. Len(table)) = Len(table)
  BY <1>1, FS_Interval
<1>7. QED
  BY <1>1, <1>2, <1>5, <1>6

\* What one table holds of m, another holds too.
SameOf(table, other, m) ==
  \A j \in 0 .. Own[m] - 1 : [addr |-> m, id |-> j] \in ToSet(table) <=>
                             [addr |-> m, id |-> j] \in ToSet(other)

LEMMA SameHolds ==
  ASSUME NEW table, NEW other, NEW m, SameOf(table, other, m)
  PROVE  /\ \A k : Holds(table, m, k) => Holds(other, m, k)
         /\ HoldsAll(table, m) => HoldsAll(other, m)
  BY DEF SameOf, Holds, HoldsAll

LEMMA AddedNext ==
  ASSUME OneAtATime, NEW n \in Node, NEW table \in Seq(EntriesAt(n)), IsInjective(table),
         NEW s \in Node \ {n}, NEW a \in Nat, a < Own[s], Holds(table, s, a)
  PROVE  LET longer == AddEntry(table, s, a)
         IN  /\ IsInjective(longer) /\ Holds(longer, s, a + 1)
             /\ \A m \in Node \ {s} : SameOf(table, longer, m)
<1>. DEFINE e == [addr |-> s, id |-> a]
<1>1. Own[s] \in Nat /\ a \in 0 .. Own[s] - 1 /\ MaxRemote \in Nat
  BY RtbAssumptionUsed
<1>2. e \in EntriesAt(n)
  BY <1>1 DEF EntriesAt
<1>3. e \notin ToSet(table)
  BY <1>1 DEF Holds
<1>4. Len(table) < MaxRemote
  <2>1. Len(table) < Cardinality(EntriesAt(n))
    <3>. HIDE DEF e
    <3>1. QED
      BY <1>2, <1>3, TableHasRoom DEF OneAtATime
  <2>2. Cardinality(EntriesAt(n)) <= MaxRemote /\ Cardinality(EntriesAt(n)) \in Nat
    BY FS_CardinalityType DEF OneAtATime
  <2>3. Len(table) \in Nat
    BY LenProperties
  <2>4. QED
    BY <1>1, <2>1, <2>2, <2>3
<1>5. AddEntry(table, s, a) = Append(table, e)
  BY <1>4 DEF AddEntry
<1>6. ToSet(Append(table, e)) = ToSet(table) \cup {e}
  BY <1>2, SetOfAppend
<1>7. IsInjective(Append(table, e))
  <2>1. /\ Append(table, e) \in Seq(EntriesAt(n)) /\ Len(Append(table, e)) = Len(table) + 1
        /\ \A i \in 1 .. Len(table) : Append(table, e)[i] = table[i]
        /\ Append(table, e)[Len(table) + 1] = e
        /\ Len(table) \in Nat /\ DOMAIN table = 1 .. Len(table)
    <3>. HIDE DEF e
    <3>1. QED
      BY <1>2, AppendProperties, LenProperties
  <2>2. DOMAIN Append(table, e) = 1 .. Len(table) + 1
    <3>. HIDE DEF e
    <3>1. QED
      BY <2>1, LenProperties
  <2>3. \A i \in 1 .. Len(table) : table[i] # e
    BY <1>3, <2>1 DEF ToSet
  <2>. HIDE DEF e
  <2>4. ASSUME NEW i \in 1 .. Len(table) + 1, NEW j \in 1 .. Len(table) + 1,
               Append(table, e)[i] = Append(table, e)[j]
        PROVE  i = j
    <3>1. /\ i \in 1 .. Len(table) \/ i = Len(table) + 1
          /\ j \in 1 .. Len(table) \/ j = Len(table) + 1
      BY <2>1
    <3>2. CASE i \in 1 .. Len(table) /\ j \in 1 .. Len(table)
      BY <2>1, <2>4, <3>2 DEF IsInjective
    <3>3. CASE i = Len(table) + 1 \/ j = Len(table) + 1
      BY <2>1, <2>3, <2>4, <3>1, <3>3
    <3>4. QED
      BY <3>1, <3>2, <3>3
  <2>5. QED
    BY <2>2, <2>4 DEF IsInjective
<1>8. Holds(Append(table, e), s, a + 1)
  <2>. SUFFICES ASSUME NEW j \in 0 .. Own[s] - 1
                PROVE  [addr |-> s, id |-> j] \in ToSet(Append(table, e)) <=> j < a + 1
    BY DEF Holds
  <2>1. [addr |-> s, id |-> j] \in ToSet(table) <=> j < a
    BY DEF Holds
  <2>2. [addr |-> s, id |-> j] = e <=> j = a
    OBVIOUS
  <2>3. j \in Nat /\ (j < a + 1 <=> j < a \/ j = a)
    BY <1>1
  <2>4. QED
    BY <1>6, <2>1, <2>2, <2>3
<1>9. ASSUME NEW m \in Node \ {s} PROVE SameOf(table, Append(table, e), m)
  BY <1>6 DEF SameOf
<1>10. QED
  BY <1>5, <1>7, <1>8, <1>9

LEMMA AddressIsCleared ==
  ASSUME NEW n \in Node, NEW table \in Seq(EntriesAt(n)), IsInjective(table), NEW s \in Node
  PROVE  LET cleared_table == ClearAddress(table, s)
         IN  /\ IsInjective(cleared_table) /\ Holds(cleared_table, s, 0)
             /\ \A m \in Node \ {s} : SameOf(table, cleared_table, m)
<1>. DEFINE kept == {i \in DOMAIN table : table[i].addr # s}
            c    == ClearAddress(table, s)
<1>1. Len(table) \in Nat /\ DOMAIN table = 1 .. Len(table)
  BY LenProperties
<1>2. kept \in SUBSET (1 .. Len(table))
  BY <1>1
<1>3. c = Selected(table, kept)
  BY DEF ClearAddress
<1>4. /\ c \in Seq(EntriesAt(n)) /\ Len(c) = Cardinality(kept) /\ Cardinality(kept) \in Nat
      /\ \E pos \in [1 .. Cardinality(kept) -> kept] :
           /\ \A k, l \in 1 .. Cardinality(kept) : k < l => pos[k] < pos[l]
           /\ \A i \in kept : \E k \in 1 .. Cardinality(kept) : pos[k] = i
           /\ \A k \in 1 .. Cardinality(kept) : c[k] = table[pos[k]]
  <2>. HIDE DEF kept, c
  <2>1. /\ Selected(table, kept) \in Seq(EntriesAt(n))
        /\ Len(Selected(table, kept)) = Cardinality(kept) /\ Cardinality(kept) \in Nat
    BY <1>2, SelectedPositions
  <2>2. PICK pos \in [1 .. Cardinality(kept) -> kept] :
              /\ \A k, l \in 1 .. Cardinality(kept) : k < l => pos[k] < pos[l]
              /\ \A i \in kept : \E k \in 1 .. Cardinality(kept) : pos[k] = i
              /\ \A k \in 1 .. Cardinality(kept) : Rank(kept, pos[k]) = k
              /\ \A k \in 1 .. Cardinality(kept) : Selected(table, kept)[k] = table[pos[k]]
    BY <1>2, SelectedPositions, SMTT(30)
  <2>3. QED
    BY <1>3, <2>1, <2>2
<1>5. PICK pos \in [1 .. Cardinality(kept) -> kept] :
           /\ \A k, l \in 1 .. Cardinality(kept) : k < l => pos[k] < pos[l]
           /\ \A i \in kept : \E k \in 1 .. Cardinality(kept) : pos[k] = i
           /\ \A k \in 1 .. Cardinality(kept) : c[k] = table[pos[k]]
  BY <1>4
<1>6. DOMAIN c = 1 .. Cardinality(kept)
  <2>. HIDE DEF kept, c
  <2>1. QED
    BY <1>4, LenProperties
<1>7. IsInjective(c)
  <2>. SUFFICES ASSUME NEW k \in 1 .. Cardinality(kept), NEW l \in 1 .. Cardinality(kept), c[k] = c[l]
                PROVE  k = l
    BY <1>6 DEF IsInjective
  <2>1. pos[k] \in 1 .. Len(table) /\ pos[l] \in 1 .. Len(table)
    BY <1>2, <1>5
  <2>2. table[pos[k]] = table[pos[l]]
    BY <1>5
  <2>. HIDE DEF kept, c
  <2>3. pos[k] = pos[l]
    BY <1>1, <2>1, <2>2 DEF IsInjective
  <2>4. k \in Int /\ l \in Int /\ pos[k] \in Int /\ pos[l] \in Int
    BY <2>1
  <2>5. ~(k < l) /\ ~(l < k)
    BY <1>5, <2>3, <2>4
  <2>6. QED
    BY <2>4, <2>5
<1>8. \A x : x \in ToSet(c) <=> x \in ToSet(table) /\ x.addr # s
  <2>1. ASSUME NEW x \in ToSet(c) PROVE x \in ToSet(table) /\ x.addr # s
    <3>1. PICK k \in 1 .. Cardinality(kept) : x = c[k]
      BY <1>6, <2>1 DEF ToSet
    <3>2. pos[k] \in kept /\ x = table[pos[k]]
      BY <1>5, <3>1
    <3>3. QED
      BY <3>2 DEF ToSet
  <2>2. ASSUME NEW x \in ToSet(table), x.addr # s PROVE x \in ToSet(c)
    <3>1. PICK i \in DOMAIN table : x = table[i]
      BY <2>2 DEF ToSet
    <3>2. i \in kept
      BY <2>2, <3>1
    <3>3. PICK k \in 1 .. Cardinality(kept) : pos[k] = i
      BY <1>5, <3>2
    <3>4. x = c[k]
      BY <1>5, <3>1, <3>3
    <3>. HIDE DEF kept, c
    <3>5. QED
      BY <1>6, <3>4 DEF ToSet
  <2>3. QED
    BY <2>1, <2>2
<1>. HIDE DEF kept, c
<1>9. Holds(c, s, 0)
  BY <1>8 DEF Holds
<1>10. ASSUME NEW m \in Node \ {s} PROVE SameOf(table, c, m)
  BY <1>8 DEF SameOf
<1>11. QED
  BY <1>7, <1>9, <1>10 DEF c

LEMMA EmptyTable ==
  /\ IsInjective(<<>>)
  /\ \A m \in Node : Holds(<<>>, m, 0)
<1>1. ToSet(<<>>) = {} /\ IsInjective(<<>>)
  BY DEF ToSet, IsInjective
<1>2. QED
  BY <1>1 DEF Holds

-----------------------------------------------------------------------------
\* What a step does to the channels and to what the nodes know.

LEMMA ConsumeEffect ==
  ASSUME RtbInv, NEW n \in Node, NEW s \in Node, Consume(n, s)
  PROVE  /\ chan'[s][n] = Tail(chan[s][n])
         /\ \A q, d \in Node : q # s \/ d # n => chan'[q][d] = chan[q][d]
<1>1. chan \in [Node -> [Node -> Seq(Msgs)]]
  BY DEF RtbInv, Shape
<1>2. /\ chan'[s] = [chan[s] EXCEPT ![n] = Tail(chan[s][n])]
      /\ \A q \in Node \ {s} : chan'[q] = chan[q]
  BY <1>1 DEF Consume
<1>3. chan[s] \in [Node -> Seq(Msgs)]
  BY <1>1
<1>4. ASSUME NEW d \in Node \ {n} PROVE chan'[s][d] = chan[s][d]
  BY <1>2, <1>3
<1>5. chan'[s][n] = Tail(chan[s][n])
  BY <1>2, <1>3
<1>6. ASSUME NEW q \in Node, NEW d \in Node, q # s \/ d # n PROVE chan'[q][d] = chan[q][d]
  <2>1. CASE q # s
    BY <1>2, <2>1
  <2>2. CASE q = s
    BY <1>4, <1>6, <2>2
  <2>3. QED
    BY <2>1, <2>2
<1>7. QED
  BY <1>5, <1>6

LEMMA TransmitEffect ==
  ASSUME OneAtATime, RtbInv, NEW n \in Node, Transmit(n)
  PROVE  /\ out[n] # <<>> /\ ~on_air[n] /\ thread[n] = "idle"
         /\ on_air'[n] /\ \A m \in Node \ {n} : on_air'[m] = on_air[m]
         /\ UNCHANGED <<curr_state, curr_txn, local_entries, remote, thread, out, rounds, cleared, gave_up>>
         /\ \A q, d \in Node :
              chan'[q][d] = IF q = n /\ d \in Head(out[n]).to
                            THEN Append(chan[q][d], Head(out[n])) ELSE chan[q][d]
<1>. DEFINE msg == Head(out[n])
<1>1. /\ out[n] # <<>> /\ ~on_air[n] /\ thread[n] = "idle"
      /\ on_air' = [on_air EXCEPT ![n] = TRUE]
      /\ UNCHANGED <<curr_state, curr_txn, local_entries, remote, thread, out, rounds, cleared, gave_up>>
  BY DEF Transmit, OneAtATime, node_vars, aux_vars
<1>2. chan' = [chan EXCEPT ![n] = [d \in Node |-> IF d \in msg.to
                                                  THEN Append(@[d], msg) ELSE @[d]]]
  <2>1. PICK lost \in SUBSET msg.to :
          /\ lost # {} => MayLose
          /\ chan' = [chan EXCEPT ![n] = [d \in Node |-> IF d \in msg.to \ lost
                                                         THEN Append(@[d], msg) ELSE @[d]]]
    BY DEF Transmit
  <2>2. lost = {}
    BY <2>1 DEF OneAtATime
  <2>. HIDE DEF msg
  <2>3. msg.to \ lost = msg.to
    BY <2>2
  <2>4. QED
    BY <2>1, <2>3
<1>3. chan \in [Node -> [Node -> Seq(Msgs)]] /\ on_air \in [Node -> BOOLEAN]
  BY DEF RtbInv, Shape
<1>. HIDE DEF msg
<1>4. ASSUME NEW q \in Node, NEW d \in Node
      PROVE  chan'[q][d] = IF q = n /\ d \in msg.to THEN Append(chan[q][d], msg) ELSE chan[q][d]
  <2>1. CASE q = n
    BY <1>2, <1>3, <2>1
  <2>2. CASE q # n
    BY <1>2, <1>3, <2>2
  <2>3. QED
    BY <2>1, <2>2
<1>5. on_air'[n] /\ \A m \in Node \ {n} : on_air'[m] = on_air[m]
  BY <1>1, <1>3
<1>6. QED
  BY <1>1, <1>4, <1>5 DEF msg

LEMMA KnownKept ==
  ASSUME NEW nodes, KnownAmong(nodes),
         \A n \in nodes : rounds'[n] = rounds[n],
         \A n, m \in nodes : n # m => SameOf(remote[n], remote'[n], m),
         \A n, m \in nodes : n # m /\ m \in gave_up[n] => m \in gave_up'[n]
  PROVE  KnownAmong(nodes)'
<1>. SUFFICES ASSUME NEW n \in nodes, NEW m \in nodes, n # m, rounds'[n] > 0
              PROVE  Told(n, m)' /\ Told(m, n)'
  BY DEF KnownAmong
<1>1. Told(n, m) /\ Told(m, n)
  BY DEF KnownAmong
<1>2. SameOf(remote[n], remote'[n], m) /\ SameOf(remote[m], remote'[m], n)
  OBVIOUS
<1>3. QED
  BY <1>1, <1>2, SameHolds DEF Told

LEMMA KnownUntouched ==
  ASSUME NEW nodes, KnownAmong(nodes), rounds' = rounds, remote' = remote,
         gave_up' = gave_up
  PROVE  KnownAmong(nodes)'
  BY DEF KnownAmong, Told

LEMMA SilentOffAir ==
  ASSUME RtbInv, NEW n \in Node, out[n] = <<>>
  PROVE  ~on_air[n]
  BY DEF RtbInv, Shape

\* The timer of a node that does not wait for entries does not expire.
LEMMA OnlyListeningExpires ==
  ASSUME RtbInv, NEW n \in Node, Timeout(n)
  PROVE  curr_state[n] \in {"GETTING", "RECEIVING"}
<1>1. NodeInv(n) /\ ~failed[n] /\ thread[n] = "idle" /\ timer[n]
  BY DEF RtbInv, Timeout
<1>2. QED
  BY <1>1 DEF NodeInv, TimerFollows, Listening

\* With a prompt mesh nothing is on the way when the timer of an initiator that
\* gets expires.
LEMMA ExpiresLate ==
  ASSUME OneAtATime, NEW n \in Node, Timeout(n), curr_state[n] = "GETTING"
  PROVE  /\ \A m \in Node : out[m] = <<>>
         /\ \A s, d \in Node : chan[s][d] = <<>>
  BY DEF OneAtATime, Timeout, TimerMayExpire, Quiet

-----------------------------------------------------------------------------
\* The engagement.

\* A procedure is engaged only at rest.
LEMMA EngagesAtRest ==
  ASSUME RtbInv, NEW n \in Node, NEW t, NEW p, Resting(t), Engage(n)
  PROVE  Engaging(n, t, p)'
<1>1. /\ thread' = [thread EXCEPT ![n] = "clear"]
      /\ UNCHANGED <<curr_state, curr_txn, remote, out, on_air, chan, rounds, gave_up>>
  BY DEF Engage, mesh_vars, aux_vars
<1>2. thread'[n] = "clear" /\ \A m \in Node \ {n} : thread'[m] = thread[m]
  BY <1>1 DEF RtbInv, Shape
<1>3. KnownAmong(Node \ {n})'
  <2>1. KnownAmong(Node \ {n})
    BY DEF Resting, KnownAmong
  <2>2. QED
    BY <1>1, <2>1, KnownUntouched
<1>4. QED
  BY <1>1, <1>2, <1>3 DEF Resting, Engaging

LEMMA EngageClearGoes ==
  ASSUME RtbInv, TypeInv, NEW i \in Node, NEW t, NEW p, Engaging(i, t, p), EngageClear(i)
  PROVE  Engaging(i, t, p)'
<1>1. /\ thread' = [thread EXCEPT ![i] = "get"] /\ remote' = [remote EXCEPT ![i] = <<>>]
      /\ gave_up' = [gave_up EXCEPT ![i] = {}]
      /\ UNCHANGED <<curr_state, curr_txn, out, on_air, chan, rounds>>
      /\ thread[i] = "clear"
  BY DEF EngageClear, mesh_vars, aux_vars
<1>2. /\ thread'[i] = "get" /\ \A m \in Node \ {i} : thread'[m] = thread[m]
      /\ remote'[i] = <<>> /\ \A m \in Node \ {i} : remote'[m] = remote[m]
      /\ \A m \in Node \ {i} : gave_up'[m] = gave_up[m]
  BY <1>1 DEF RtbInv, Shape, TypeInv
<1>3. KnownAmong(Node \ {i})'
  BY <1>1, <1>2 DEF Engaging, KnownAmong, Told
<1>4. QED
  BY <1>1, <1>2, <1>3 DEF Engaging

LEMMA EngageTimerGoes ==
  ASSUME RtbInv, NEW i \in Node, NEW t, NEW p, Engaging(i, t, p), EngageTimer(i)
  PROVE  Engaging(i, t, p)'
<1>1. /\ thread' = [thread EXCEPT ![i] = "state"]
      /\ UNCHANGED <<curr_state, curr_txn, remote, out, on_air, chan, rounds, gave_up>>
      /\ thread[i] = "timer"
  BY DEF EngageTimer, mesh_vars, aux_vars
<1>2. thread'[i] = "state" /\ \A m \in Node \ {i} : thread'[m] = thread[m]
  BY <1>1 DEF RtbInv, Shape
<1>3. KnownAmong(Node \ {i})'
  BY <1>1, KnownUntouched DEF Engaging
<1>4. QED
  BY <1>1, <1>2, <1>3 DEF Engaging

LEMMA DoneIsFinite ==
  ASSUME FewProcedures, TypeInv
  PROVE  IsFiniteSet(Done) /\ Txn \in Nat /\ Txn <= Cardinality(Round)
<1>1. Done \in SUBSET Round
  BY DEF Done
<1>2. QED
  BY <1>1, FS_Subset, FS_CardinalityType DEF FewProcedures, Txn

\* The transaction of a procedure is one more than that of the last: the
\* identifiers do not wrap.
LEMMA OneMoreDone ==
  ASSUME FewProcedures, RtbInv, TypeInv, NEW i \in Node, EngageGet(i)
  PROVE  Txn' = Txn + 1 /\ (Txn + 1) % TxnModulo = Txn + 1
<1>1. /\ rounds'[i] = rounds[i] + 1 /\ \A m \in Node \ {i} : rounds'[m] = rounds[m]
      /\ rounds \in [Node -> Nat]
  BY DEF EngageGet, RtbInv, Shape
<1>2. rounds[i] + 1 \in 1 .. MaxRounds[i] /\ rounds[i] \in Nat
  BY RtbAssumptionUsed DEF TypeInv, RoundsFit, EngageGet
<1>. DEFINE new == <<i, rounds[i] + 1>>
<1>3. new \in Round /\ new \notin Done
  BY <1>2 DEF Round, Done
<1>4. Done' = Done \cup {new}
  <2>1. ASSUME NEW p \in Round
        PROVE  p[2] <= rounds'[p[1]] <=> p[2] <= rounds[p[1]] \/ p = new
    <3>1. PICK n \in Node : p \in {n} \X (1 .. MaxRounds[n])
      BY DEF Round
    <3>2. p = <<n, p[2]>> /\ p[1] = n /\ p[2] \in Nat
      BY <3>1, RtbAssumptionUsed
    <3>3. CASE n = i
      <4>1. p[2] <= rounds[i] + 1 <=> p[2] <= rounds[i] \/ p[2] = rounds[i] + 1
        BY <1>2, <3>2
      <4>2. p = new <=> p[2] = rounds[i] + 1
        BY <3>2, <3>3
      <4>3. QED
        BY <1>1, <3>2, <3>3, <4>1, <4>2
    <3>4. CASE n # i
      <4>1. p # new
        BY <3>2, <3>4
      <4>2. QED
        BY <1>1, <3>2, <3>4, <4>1
    <3>5. QED
      BY <3>3, <3>4
  <2>2. Done' = {p \in Round : p[2] <= rounds'[p[1]]}
    BY DEF Done
  <2>. HIDE DEF new
  <2>3. QED
    BY <1>3, <2>1, <2>2 DEF Done
<1>5. IsFiniteSet(Done) /\ Txn \in Nat
  BY DoneIsFinite
<1>6. Txn' = Txn + 1
  <2>. HIDE DEF new
  <2>1. Cardinality(Done \cup {new}) = Cardinality(Done) + 1
    BY <1>3, <1>5, FS_AddElement
  <2>2. QED
    BY <1>4, <2>1 DEF Txn
<1>7. Txn + 1 <= Cardinality(Round)
  <2>1. Done \cup {new} \in SUBSET Round
    BY <1>3 DEF Done
  <2>. HIDE DEF new
  <2>2. Cardinality(Done \cup {new}) <= Cardinality(Round)
    BY <2>1, FS_Subset DEF FewProcedures
  <2>3. Cardinality(Done \cup {new}) = Cardinality(Done) + 1
    BY <1>3, <1>5, FS_AddElement
  <2>4. QED
    BY <2>2, <2>3 DEF Txn
<1>8. Txn + 1 \in 0 .. TxnModulo - 1
  <2>1. Cardinality(Round) \in Nat /\ Cardinality(Round) < TxnModulo /\ TxnModulo \in Nat
    BY FS_CardinalityType, RtbAssumptionUsed DEF FewProcedures
  <2>2. QED
    BY <1>5, <1>7, <2>1
<1>9. QED
  <2>1. \A x \in 0 .. TxnModulo - 1 : x % TxnModulo = x
    BY RtbAssumptionUsed
  <2>2. QED
    BY <1>6, <1>8, <2>1

LEMMA EngageGetGoes ==
  ASSUME OneAtATime, RtbInv, TypeInv, NEW i \in Node,
         Engaging(i, Txn, RoundOf(i)), EngageGet(i)
  PROVE  Engaging(i, Txn, RoundOf(i))'
<1>1. Txn' = Txn + 1 /\ NextTransaction(i) = Txn + 1 /\ Txn \in Nat
  BY OneMoreDone, DoneIsFinite DEF NextTransaction, Engaging, EngageGet, OneAtATime
<1>2. /\ thread' = [thread EXCEPT ![i] = "timer"] /\ thread[i] = "get"
      /\ curr_txn' = [curr_txn EXCEPT ![i] = NextTransaction(i)]
      /\ rounds' = [rounds EXCEPT ![i] = @ + 1]
      /\ out' = [out EXCEPT ![i] = Append(@, Get(i))]
      /\ UNCHANGED <<curr_state, remote, on_air, chan, gave_up>>
  BY DEF EngageGet
<1>3. /\ thread'[i] = "timer" /\ \A m \in Node \ {i} : thread'[m] = thread[m]
      /\ curr_txn'[i] = Txn' /\ \A m \in Node \ {i} : curr_txn'[m] = curr_txn[m]
      /\ \A m \in Node \ {i} : rounds'[m] = rounds[m]
      /\ out'[i] = Append(out[i], Get(i)) /\ \A m \in Node \ {i} : out'[m] = out[m]
  BY <1>1, <1>2 DEF RtbInv, Shape
<1>4. out[i] = <<>> /\ \A m \in Node : curr_txn[m] = Txn
  BY <1>2 DEF Engaging
<1>5. out'[i] = <<GetOf(i, Txn, RoundOf(i))'>>
  <2>1. Get(i) = GetOf(i, Txn, RoundOf(i))'
    BY <1>3 DEF Get, GetOf
  <2>2. QED
    BY <1>3, <1>4, <2>1
<1>6. ~on_air'[i]
  BY <1>2, <1>4, SilentOffAir
<1>7. KnownAmong(Node \ {i})'
  BY <1>2, <1>3 DEF Engaging, KnownAmong, Told
<1>8. \A m \in Node \ {i} : curr_txn'[m] = Txn' - 1
  BY <1>1, <1>3, <1>4
<1>9. QED
  BY <1>2, <1>3, <1>5, <1>6, <1>7, <1>8 DEF Engaging

LEMMA EngageStateGoes ==
  ASSUME RtbInv, NEW i \in Node, NEW t, NEW p, Engaging(i, t, p), EngageState(i)
  PROVE  Getting(i, t, p)'
<1>1. /\ thread' = [thread EXCEPT ![i] = "idle"] /\ thread[i] = "state"
      /\ curr_state' = [curr_state EXCEPT ![i] = "GETTING"]
      /\ UNCHANGED <<curr_txn, remote, out, on_air, chan, rounds, gave_up>>
  BY DEF EngageState, mesh_vars, aux_vars
<1>2. /\ thread'[i] = "idle" /\ \A m \in Node \ {i} : thread'[m] = thread[m]
      /\ curr_state'[i] = "GETTING" /\ \A m \in Node \ {i} : curr_state'[m] = curr_state[m]
  BY <1>1 DEF RtbInv, Shape
<1>3. /\ out[i] = <<GetOf(i, t, p)>> /\ ~on_air[i] /\ remote[i] = <<>>
      /\ curr_txn[i] = t /\ \A n \in Node \ {i} : curr_txn[n] = t - 1
      /\ \A s, d \in Node : chan[s][d] = <<>>
      /\ \A n \in Node : curr_state[n] = "IDLE"
      /\ \A n \in Node \ {i} : thread[n] = "idle" /\ out[n] = <<>>
  BY <1>1 DEF Engaging
<1>4. GetWaits(i)'
  BY <1>1, <1>3, OneMessage DEF GetWaits
<1>5. ASSUME NEW d \in Node \ {i} PROVE Unaware(i, d, t, p)'
  BY <1>1, <1>2, <1>3, <1>4, EmptyTable DEF Unaware
<1>6. KnownAmong(Node \ {i})'
  BY <1>1, KnownUntouched DEF Engaging
<1>7. QED
  BY <1>1, <1>2, <1>3, <1>5, <1>6 DEF Getting

-----------------------------------------------------------------------------
\* The initiator gets.

LEMMA PairKept ==
  ASSUME NEW i \in Node, NEW d \in Node, NEW t, NEW p,
         Unaware(i, d, t, p) \/ Replying(i, d, t, p),
         GetWaits(i)' <=> GetWaits(i),
         curr_state'[d] = curr_state[d], curr_txn'[d] = curr_txn[d],
         out'[d] = out[d], on_air'[d] = on_air[d],
         chan'[d][i] = chan[d][i], chan'[i][d] = chan[i][d],
         i \in gave_up[d] => i \in gave_up'[d],
         SameOf(remote[i], remote'[i], d), SameOf(remote[d], remote'[d], i)
  PROVE  Unaware(i, d, t, p)' \/ Replying(i, d, t, p)'
<1>1. /\ \A k : Holds(remote[i], d, k) => Holds(remote'[i], d, k)
      /\ \A k : Holds(remote[d], i, k) => Holds(remote'[d], i, k)
  BY SameHolds
<1>2. CASE Unaware(i, d, t, p)
  BY <1>1, <1>2 DEF Unaware
<1>3. CASE Replying(i, d, t, p)
  <2>0. TakesPart(i, d)'
    BY <1>3 DEF Replying, TakesPart
  <2>1. PICK a \in 0 .. Own[d], b \in 0 .. Own[d] : RepliesGo(i, d, t, p, a, b)
    BY <1>3 DEF Replying
  <2>2. RepliesGo(i, d, t, p, a, b)'
    BY <1>1, <2>1 DEF RepliesGo, Unsent
  <2>3. QED
    BY <1>1, <1>3, <2>0, <2>2 DEF Replying
<1>4. QED
  BY <1>2, <1>3

LEMMA SameOfSelf ==
  ASSUME NEW table, NEW m
  PROVE  SameOf(table, table, m)
  BY DEF SameOf

\* The GET goes on the air.
LEMMA GetTransmitted ==
  ASSUME OneAtATime, RtbInv, NEW i \in Node, NEW t, NEW p, Getting(i, t, p), Transmit(i)
  PROVE  Getting(i, t, p)'
<1>1. /\ out[i] # <<>> /\ ~on_air[i] /\ on_air'[i]
      /\ \A m \in Node \ {i} : on_air'[m] = on_air[m]
      /\ UNCHANGED <<curr_state, curr_txn, remote, thread, out, rounds, gave_up>>
      /\ \A q, d \in Node : chan'[q][d] = IF q = i /\ d \in Head(out[i]).to
                                          THEN Append(chan[q][d], Head(out[i])) ELSE chan[q][d]
  BY TransmitEffect
<1>2. out[i] = <<GetOf(i, t, p)>> /\ Head(out[i]) = GetOf(i, t, p) /\ Head(out[i]).to = Node \ {i}
  BY <1>1, OneMessage DEF Getting, GetOf
<1>3. GetWaits(i) /\ ~GetWaits(i)'
  BY <1>1 DEF GetWaits
<1>4. ASSUME NEW d \in Node \ {i} PROVE Unaware(i, d, t, p)'
  <2>1. Unaware(i, d, t, p)
    BY <1>3 DEF Getting, Replying
  <2>2. chan[i][d] = <<>> /\ chan'[i][d] = Append(<<>>, GetOf(i, t, p)) /\ chan'[d][i] = chan[d][i]
    BY <1>1, <1>2, <1>3, <2>1 DEF Unaware
  <2>3. chan'[i][d] = <<GetOf(i, t, p)>>
    BY <2>2, OneMessage
  <2>4. QED
    BY <1>1, <1>3, <2>1, <2>2, <2>3 DEF Unaware
<1>5. ASSUME NEW s \in Node, NEW d \in Node, s = i <=> d = i PROVE chan'[s][d] = <<>>
  BY <1>1, <1>2, <1>5 DEF Getting
<1>6. KnownAmong(Node \ {i})'
  BY <1>1, KnownUntouched DEF Getting
<1>7. QED
  BY <1>1, <1>4, <1>5, <1>6 DEF Getting

\* A reply goes on the air.
LEMMA ReplyTransmitted ==
  ASSUME OneAtATime, RtbInv, NEW i \in Node, NEW t, NEW p, Getting(i, t, p),
         NEW n \in Node \ {i}, Transmit(n)
  PROVE  Getting(i, t, p)'
<1>1. /\ out[n] # <<>> /\ ~on_air[n] /\ on_air'[n]
      /\ \A m \in Node \ {n} : on_air'[m] = on_air[m]
      /\ UNCHANGED <<curr_state, curr_txn, remote, thread, out, rounds, gave_up>>
      /\ \A q, d \in Node : chan'[q][d] = IF q = n /\ d \in Head(out[n]).to
                                          THEN Append(chan[q][d], Head(out[n])) ELSE chan[q][d]
  BY TransmitEffect
<1>2. Replying(i, n, t, p)
  BY <1>1 DEF Getting, Unaware
<1>3. PICK a \in 0 .. Own[n], b \in 0 .. Own[n] : RepliesGo(i, n, t, p, a, b)
  BY <1>2 DEF Replying
<1>4. a \in Nat /\ b \in Nat /\ Own[n] \in Nat /\ a <= b /\ b <= Own[n]
  BY <1>3, RtbAssumptionUsed DEF RepliesGo
<1>5. out[n] = Replies(i, t, p, b, Own[n]) /\ chan[n][i] = Replies(i, t, p, a, b)
  BY <1>1, <1>3 DEF RepliesGo, Unsent
<1>6. b < Own[n] /\ Head(out[n]) = EntryMsg("STATUS_REPLY", {i}, t, p, b)
  <2>1. b # Own[n]
    BY <1>1, <1>4, <1>5, RunEmpty DEF Replies
  <2>2. b < Own[n]
    BY <1>4, <2>1
  <2>3. QED
    BY <1>4, <1>5, <2>2, RunHead DEF Replies
<1>7. Head(out[n]).to = {i}
  BY <1>6 DEF EntryMsg
<1>8. GetWaits(i)' <=> GetWaits(i)
  BY <1>1 DEF GetWaits
<1>9. Replying(i, n, t, p)'
  <2>1. b + 1 \in 0 .. Own[n] /\ a <= b + 1 /\ b + 1 > 0 /\ (b + 1) - 1 = b
    BY <1>4, <1>6
  <2>2. chan'[n][i] = Replies(i, t, p, a, b + 1)
    <3>1. chan'[n][i] = Append(Replies(i, t, p, a, b), EntryMsg("STATUS_REPLY", {i}, t, p, b))
      BY <1>1, <1>5, <1>6, <1>7
    <3>2. QED
      BY <3>1, <1>4, RunAppend, ZenonT(30) DEF Replies
  <2>3. chan'[i][n] = chan[i][n]
    BY <1>1
  <2>4. RepliesGo(i, n, t, p, a, b + 1)'
    BY <1>1, <1>3, <1>5, <2>1, <2>2 DEF RepliesGo, Unsent
  <2>5. QED
    BY <1>1, <1>2, <1>8, <2>1, <2>3, <2>4 DEF Replying, TakesPart
<1>10. ASSUME NEW d \in Node \ {i}, d # n PROVE Unaware(i, d, t, p)' \/ Replying(i, d, t, p)'
  <2>1. chan'[d][i] = chan[d][i] /\ chan'[i][d] = chan[i][d]
    BY <1>1, <1>10
  <2>2. SameOf(remote[i], remote'[i], d) /\ SameOf(remote[d], remote'[d], i)
    BY <1>1, SameOfSelf
  <2>3. Unaware(i, d, t, p) \/ Replying(i, d, t, p)
    BY DEF Getting
  <2>4. QED
    BY <1>1, <1>8, <1>10, <2>1, <2>2, <2>3, PairKept
<1>11. ASSUME NEW s \in Node, NEW d \in Node, s = i <=> d = i PROVE chan'[s][d] = <<>>
  BY <1>1, <1>7, <1>11 DEF Getting
<1>12. KnownAmong(Node \ {i})'
  BY <1>1, KnownUntouched DEF Getting
<1>13. QED
  BY <1>1, <1>9, <1>10, <1>11, <1>12 DEF Getting

LEMMA CompleteEffect ==
  ASSUME RtbInv, NEW n \in Node, TxComplete(n)
  PROVE  /\ out[n] # <<>> /\ on_air[n] /\ ~on_air'[n] /\ out'[n] = Tail(out[n])
         /\ \A m \in Node \ {n} : /\ on_air'[m] = on_air[m] /\ out'[m] = out[m]
                                  /\ curr_state'[m] = curr_state[m]
         /\ curr_state'[n] = IF IsLastPublishedEntry(n, Head(out[n])) THEN "IDLE" ELSE curr_state[n]
         /\ UNCHANGED <<curr_txn, local_entries, remote, thread, chan, rounds, cleared, gave_up>>
<1>1. /\ out' = [out EXCEPT ![n] = Tail(@)] /\ on_air' = [on_air EXCEPT ![n] = FALSE]
      /\ curr_state' = [curr_state EXCEPT ![n] =
                          IF IsLastPublishedEntry(n, Head(out[n])) THEN "IDLE" ELSE @]
      /\ UNCHANGED <<curr_txn, local_entries, remote, thread, chan, rounds, cleared, gave_up>>
      /\ on_air[n]
  BY DEF TxComplete, aux_vars
<1>2. QED
  BY <1>1 DEF RtbInv, Shape

LEMMA GetCompleted ==
  ASSUME RtbInv, NEW i \in Node, NEW t, NEW p, Getting(i, t, p), TxComplete(i)
  PROVE  Getting(i, t, p)'
<1>1. /\ out[i] # <<>> /\ on_air[i] /\ ~on_air'[i] /\ out'[i] = Tail(out[i])
      /\ \A m \in Node \ {i} : /\ on_air'[m] = on_air[m] /\ out'[m] = out[m]
                               /\ curr_state'[m] = curr_state[m]
      /\ curr_state'[i] = IF IsLastPublishedEntry(i, Head(out[i])) THEN "IDLE" ELSE curr_state[i]
      /\ UNCHANGED <<curr_txn, remote, thread, chan, rounds, gave_up>>
  BY CompleteEffect
<1>2. Head(out[i]) = GetOf(i, t, p) /\ out'[i] = <<>>
  BY <1>1, OneMessage DEF Getting
<1>3. curr_state'[i] = curr_state[i]
  BY <1>1, <1>2 DEF IsLastPublishedEntry, GetOf
<1>4. ~GetWaits(i) /\ ~GetWaits(i)'
  BY <1>1, <1>2 DEF GetWaits
<1>5. ASSUME NEW d \in Node \ {i} PROVE Unaware(i, d, t, p)' \/ Replying(i, d, t, p)'
  <2>1. SameOf(remote[i], remote'[i], d) /\ SameOf(remote[d], remote'[d], i)
    BY <1>1, SameOfSelf
  <2>2. Unaware(i, d, t, p) \/ Replying(i, d, t, p)
    BY DEF Getting
  <2>3. QED
    BY <1>1, <1>4, <2>1, <2>2, PairKept
<1>6. KnownAmong(Node \ {i})'
  BY <1>1, KnownUntouched DEF Getting
<1>7. QED
  BY <1>1, <1>2, <1>3, <1>5, <1>6 DEF Getting

LEMMA ReplyCompleted ==
  ASSUME RtbInv, NEW i \in Node, NEW t, NEW p, Getting(i, t, p),
         NEW n \in Node \ {i}, TxComplete(n)
  PROVE  Getting(i, t, p)'
<1>1. /\ out[n] # <<>> /\ on_air[n] /\ ~on_air'[n] /\ out'[n] = Tail(out[n])
      /\ \A m \in Node \ {n} : /\ on_air'[m] = on_air[m] /\ out'[m] = out[m]
                               /\ curr_state'[m] = curr_state[m]
      /\ curr_state'[n] = IF IsLastPublishedEntry(n, Head(out[n])) THEN "IDLE" ELSE curr_state[n]
      /\ UNCHANGED <<curr_txn, remote, thread, chan, rounds, gave_up>>
  BY CompleteEffect
<1>2. Replying(i, n, t, p)
  BY <1>1 DEF Getting, Unaware
<1>3. PICK a \in 0 .. Own[n], b \in 0 .. Own[n] : RepliesGo(i, n, t, p, a, b)
  BY <1>2 DEF Replying
<1>4. b - 1 \in Nat /\ b \in Nat /\ Own[n] \in Nat /\ b - 1 < Own[n] /\ (b - 1) + 1 = b
  BY <1>1, <1>3, RtbAssumptionUsed DEF RepliesGo
<1>5. out[n] = Replies(i, t, p, b - 1, Own[n])
  BY <1>1, <1>3 DEF RepliesGo, Unsent
<1>6. /\ Head(out[n]) = EntryMsg("STATUS_REPLY", {i}, t, p, b - 1)
      /\ out'[n] = Replies(i, t, p, b, Own[n])
  <2>2. Head(Replies(i, t, p, b - 1, Own[n])) = EntryMsg("STATUS_REPLY", {i}, t, p, b - 1)
    BY <1>4, RunHead DEF Replies
  <2>3. Tail(Replies(i, t, p, b - 1, Own[n])) = Replies(i, t, p, b, Own[n])
    <3>1. Rest(Replies(i, t, p, b - 1, Own[n])) = Replies(i, t, p, (b - 1) + 1, Own[n])
      BY <1>4, RunRest DEF Replies
    <3>2. QED
      BY <1>4, <3>1 DEF Rest
  <2>4. QED
    BY <1>1, <1>4, <1>5, <2>2, <2>3
<1>7. curr_state'[n] = curr_state[n]
  BY <1>1, <1>6 DEF IsLastPublishedEntry, EntryMsg
<1>8. GetWaits(i)' <=> GetWaits(i)
  BY <1>1 DEF GetWaits
<1>9. Replying(i, n, t, p)'
  <2>1. RepliesGo(i, n, t, p, a, b)'
    BY <1>1, <1>3, <1>6 DEF RepliesGo, Unsent
  <2>2. QED
    BY <1>1, <1>2, <1>7, <1>8, <2>1 DEF Replying, TakesPart
<1>10. ASSUME NEW d \in Node \ {i}, d # n PROVE Unaware(i, d, t, p)' \/ Replying(i, d, t, p)'
  <2>1. SameOf(remote[i], remote'[i], d) /\ SameOf(remote[d], remote'[d], i)
    BY <1>1, SameOfSelf
  <2>2. Unaware(i, d, t, p) \/ Replying(i, d, t, p)
    BY DEF Getting
  <2>3. QED
    BY <1>1, <1>8, <1>10, <2>1, <2>2, PairKept
<1>11. KnownAmong(Node \ {i})'
  BY <1>1, KnownUntouched DEF Getting
<1>12. QED
  BY <1>1, <1>7, <1>9, <1>10, <1>11 DEF Getting

\* What waits to be handled while i gets: its GET, or the entries of another node.
GetArrives(i, n, s, t, p) ==
  /\ s = i /\ Unaware(i, n, t, p) /\ ~GetWaits(i) /\ chan[i][n] = <<GetOf(i, t, p)>>
  /\ Received(n, s) = GetOf(i, t, p)

ReplyArrives(i, n, s, t, p, a, b) ==
  /\ n = i /\ Replying(i, s, t, p) /\ a < b /\ RepliesGo(i, s, t, p, a, b)
  /\ Received(n, s) = EntryMsg("STATUS_REPLY", {i}, t, p, a)

LEMMA WhatArrivesWhenGetting ==
  ASSUME NEW i \in Node, NEW t, NEW p, Getting(i, t, p),
         NEW n \in Node, NEW s \in Node \ {n}, chan[s][n] # <<>>
  PROVE  \/ GetArrives(i, n, s, t, p)
         \/ \E a, b \in 0 .. Own[s] : ReplyArrives(i, n, s, t, p, a, b)
<1>1. s = i \/ n = i
  BY DEF Getting
<1>2. CASE s = i
  <2>1. Unaware(i, n, t, p) \/ Replying(i, n, t, p)
    BY <1>2 DEF Getting
  <2>2. Unaware(i, n, t, p) /\ ~GetWaits(i) /\ chan[i][n] = <<GetOf(i, t, p)>>
    BY <1>2, <2>1 DEF Unaware, Replying
  <2>3. QED
    BY <1>2, <2>2, OneMessage DEF GetArrives, Received
<1>3. CASE n = i
  <2>1. Replying(i, s, t, p)
    BY <1>3 DEF Getting, Unaware
  <2>2. PICK a \in 0 .. Own[s], b \in 0 .. Own[s] : RepliesGo(i, s, t, p, a, b)
    BY <2>1 DEF Replying
  <2>3. a \in Nat /\ b \in Nat /\ a <= b
    BY <2>2, RtbAssumptionUsed DEF RepliesGo
  <2>4. chan[s][i] = Replies(i, t, p, a, b)
    BY <2>2 DEF RepliesGo
  <2>5. a # b
    BY <1>3, <2>3, <2>4, RunEmpty DEF Replies
  <2>6. a < b
    BY <2>3, <2>5
  <2>7. Received(n, s) = EntryMsg("STATUS_REPLY", {i}, t, p, a)
    BY <1>3, <2>3, <2>4, <2>6, RunHead DEF Replies, Received
  <2>8. QED
    BY <1>3, <2>1, <2>2, <2>6, <2>7 DEF ReplyArrives
<1>4. QED
  BY <1>1, <1>2, <1>3

\* d handles the GET: it empties its table of the entries of i, and replies.
LEMMA GetHandled ==
  ASSUME OneAtATime, RtbInv, TypeInv, Steady, NEW i \in Node, NEW t \in Nat, NEW p,
         Getting(i, t, p), NEW n \in Node, NEW s \in Node \ {n}, ReceiveGet(n, s)
  PROVE  Getting(i, t, p)' /\ \A m \in Node : IsInjective(remote'[m])
<1>1. chan[s][n] # <<>> /\ Received(n, s).cmd = "GET" /\ Consume(n, s)
  BY DEF ReceiveGet, Receives
<1>2. GetArrives(i, n, s, t, p)
  BY <1>1, WhatArrivesWhenGetting DEF ReplyArrives, EntryMsg
<1>3. /\ s = i /\ n \in Node \ {i} /\ curr_state[n] = "IDLE" /\ out[n] = <<>> /\ ~GetWaits(i)
      /\ Received(n, s) = GetOf(i, t, p) /\ chan[i][n] = <<GetOf(i, t, p)>>
      /\ chan[n][i] = <<>> /\ Holds(remote[i], n, 0)
  BY <1>2 DEF GetArrives, Unaware
<1>4. /\ curr_txn' = [curr_txn EXCEPT ![n] = t]
      /\ curr_state' = [curr_state EXCEPT ![n] = "RECEIVING"]
      /\ remote' = [remote EXCEPT ![n] = ClearAddress(remote[n], i)]
      /\ out' = [out EXCEPT ![n] = out[n] \o Entries(n, "STATUS_REPLY", {i}, t, p)]
      /\ gave_up' = [gave_up EXCEPT ![n] = gave_up[n] \ {i}]
      /\ UNCHANGED <<thread, on_air, rounds>>
  BY <1>3 DEF ReceiveGet, GetOf
<1>5. /\ curr_txn'[n] = t /\ curr_state'[n] = "RECEIVING"
      /\ remote'[n] = ClearAddress(remote[n], i)
      /\ out'[n] = out[n] \o Entries(n, "STATUS_REPLY", {i}, t, p)
      /\ \A m \in Node \ {n} : /\ curr_txn'[m] = curr_txn[m] /\ curr_state'[m] = curr_state[m]
                               /\ remote'[m] = remote[m] /\ out'[m] = out[m]
                               /\ gave_up'[m] = gave_up[m]
      /\ gave_up'[n] = gave_up[n] \ {i}
  BY <1>4 DEF RtbInv, Shape, TypeInv
<1>6. /\ chan'[i][n] = <<>>
      /\ \A q, d \in Node : q # i \/ d # n => chan'[q][d] = chan[q][d]
  <2>1. /\ chan'[i][n] = Tail(chan[i][n])
        /\ \A q, d \in Node : q # i \/ d # n => chan'[q][d] = chan[q][d]
    BY <1>1, <1>3, ConsumeEffect
  <2>2. QED
    BY <1>3, <2>1, OneMessage
<1>7. out'[n] = Replies(i, t, p, 0, Own[n])
  <2>1. Entries(n, "STATUS_REPLY", {i}, t, p) = Replies(i, t, p, 0, Own[n])
    BY RunOfEntries, RtbAssumption DEF Steady, Replies
  <2>2. Own[n] \in Nat /\ 0 <= Own[n]
    BY RtbAssumptionUsed
  <2>3. <<>> \o Replies(i, t, p, 0, Own[n]) = Replies(i, t, p, 0, Own[n])
    BY <2>2, RunAfterNone DEF Replies
  <2>4. QED
    BY <1>3, <1>5, <2>1, <2>3
<1>8. /\ IsInjective(remote'[n]) /\ Holds(remote'[n], i, 0)
      /\ \A m \in Node \ {i} : SameOf(remote[n], remote'[n], m)
  BY <1>5, AddressIsCleared DEF TypeInv, RemoteTyped, Steady
<1>9. GetWaits(i)' <=> GetWaits(i)
  BY <1>3, <1>4, <1>5 DEF GetWaits
<1>10. Replying(i, n, t, p)'
  <2>1. 0 \in 0 .. Own[n] /\ 0 <= 0
    BY RtbAssumptionUsed
  <2>2. ~on_air'[n]
    BY <1>3, <1>4, SilentOffAir
  <2>3. chan'[n][i] = Replies(i, t, p, 0, 0)
    <3>1. Replies(i, t, p, 0, 0) = <<>>
      BY RunEmpty DEF Replies
    <3>2. QED
      BY <1>3, <1>6, <3>1
  <2>4. Holds(remote'[i], n, 0)
    BY <1>3, <1>5
  <2>5. RepliesGo(i, n, t, p, 0, 0)'
    BY <1>7, <2>1, <2>2, <2>3, <2>4 DEF RepliesGo, Unsent
  <2>6. TakesPart(i, n)'
    BY <1>5 DEF TakesPart
  <2>7. QED
    BY <1>3, <1>5, <1>6, <1>8, <1>9, <2>1, <2>5, <2>6 DEF Replying
<1>11. ASSUME NEW d \in Node \ {i}, d # n PROVE Unaware(i, d, t, p)' \/ Replying(i, d, t, p)'
  <2>1. chan'[d][i] = chan[d][i] /\ chan'[i][d] = chan[i][d]
    BY <1>3, <1>6, <1>11
  <2>2. SameOf(remote[i], remote'[i], d) /\ SameOf(remote[d], remote'[d], i)
    BY <1>3, <1>5, <1>11, SameOfSelf
  <2>3. Unaware(i, d, t, p) \/ Replying(i, d, t, p)
    BY DEF Getting
  <2>4. QED
    BY <1>4, <1>5, <1>9, <1>11, <2>1, <2>2, <2>3, PairKept
<1>12. ASSUME NEW q \in Node, NEW d \in Node, q = i <=> d = i PROVE chan'[q][d] = <<>>
  BY <1>3, <1>6, <1>12 DEF Getting
<1>13. KnownAmong(Node \ {i})'
  <2>1. \A m, l \in Node \ {i} : m # l => SameOf(remote[m], remote'[m], l)
    BY <1>5, <1>8, SameOfSelf
  <2>2. \A m, l \in Node \ {i} : m # l /\ l \in gave_up[m] => l \in gave_up'[m]
    BY <1>5
  <2>3. QED
    BY <1>4, <2>1, <2>2, KnownKept DEF Getting
<1>14. \A m \in Node : IsInjective(remote'[m])
  BY <1>5, <1>8 DEF Steady
<1>15. QED
  BY <1>3, <1>4, <1>5, <1>10, <1>11, <1>12, <1>13, <1>14 DEF Getting

\* i stores the next entry of a node.
LEMMA ReplyHandled ==
  ASSUME OneAtATime, RtbInv, TypeInv, Steady, NEW i \in Node, NEW t \in Nat, NEW p,
         Getting(i, t, p), NEW n \in Node, NEW s \in Node \ {n}, ReceiveStatus(n, s)
  PROVE  Getting(i, t, p)' /\ \A m \in Node : IsInjective(remote'[m])
<1>1. /\ chan[s][n] # <<>> /\ Received(n, s).cmd \in {"STATUS", "STATUS_REPLY"} /\ Consume(n, s)
      /\ remote' = [remote EXCEPT ![n] = AddEntry(remote[n], s, Received(n, s).idx)]
      /\ UNCHANGED <<curr_state, curr_txn, thread, out, on_air, rounds, gave_up>>
  BY DEF ReceiveStatus, Receives, aux_vars
<1>2. PICK a \in 0 .. Own[s], b \in 0 .. Own[s] : ReplyArrives(i, n, s, t, p, a, b)
  <2>1. ~GetArrives(i, n, s, t, p)
    BY <1>1 DEF GetArrives, GetOf
  <2>2. QED
    BY <1>1, <2>1, WhatArrivesWhenGetting
<1>3. /\ n = i /\ s \in Node \ {i} /\ Replying(i, s, t, p) /\ RepliesGo(i, s, t, p, a, b)
      /\ a < b /\ Received(n, s).idx = a
  BY <1>2 DEF ReplyArrives, EntryMsg
<1>4. a \in Nat /\ b \in Nat /\ Own[s] \in Nat /\ a + 1 \in 0 .. Own[s] /\ a + 1 <= b /\ a < Own[s]
  BY <1>3, RtbAssumptionUsed
<1>5. remote'[i] = AddEntry(remote[i], s, a) /\ \A m \in Node \ {i} : remote'[m] = remote[m]
  BY <1>1, <1>3 DEF TypeInv
<1>6. /\ IsInjective(remote'[i]) /\ Holds(remote'[i], s, a + 1)
      /\ \A m \in Node \ {s} : SameOf(remote[i], remote'[i], m)
  <2>1. Holds(remote[i], s, a) /\ remote[i] \in Seq(EntriesAt(i)) /\ IsInjective(remote[i])
    BY <1>3 DEF RepliesGo, TypeInv, RemoteTyped, Steady
  <2>2. QED
    BY <1>3, <1>4, <1>5, <2>1, AddedNext
<1>7. /\ chan'[s][i] = Replies(i, t, p, a + 1, b)
      /\ \A q, d \in Node : q # s \/ d # i => chan'[q][d] = chan[q][d]
  <2>1. Rest(Replies(i, t, p, a, b)) = Replies(i, t, p, a + 1, b)
    BY <1>3, <1>4, RunRest DEF Replies
  <2>2. chan[s][i] = Replies(i, t, p, a, b)
    BY <1>3 DEF RepliesGo
  <2>3. /\ chan'[s][i] = Rest(chan[s][i])
        /\ \A q, d \in Node : q # s \/ d # i => chan'[q][d] = chan[q][d]
    BY <1>1, <1>3, ConsumeEffect DEF Rest
  <2>4. QED
    BY <2>1, <2>2, <2>3
<1>8. GetWaits(i)' <=> GetWaits(i)
  BY <1>1 DEF GetWaits
<1>9. Replying(i, s, t, p)'
  <2>1. RepliesGo(i, s, t, p, a + 1, b)'
    BY <1>1, <1>3, <1>4, <1>6, <1>7 DEF RepliesGo, Unsent
  <2>2. Holds(remote'[s], i, 0) /\ chan'[i][s] = <<>>
    BY <1>3, <1>5, <1>7 DEF Replying
  <2>3. QED
    BY <1>1, <1>3, <1>4, <1>8, <2>1, <2>2 DEF Replying, TakesPart
<1>10. ASSUME NEW d \in Node \ {i}, d # s PROVE Unaware(i, d, t, p)' \/ Replying(i, d, t, p)'
  <2>1. chan'[d][i] = chan[d][i] /\ chan'[i][d] = chan[i][d]
    BY <1>7, <1>10
  <2>2. SameOf(remote[i], remote'[i], d) /\ SameOf(remote[d], remote'[d], i)
    BY <1>5, <1>6, <1>10, SameOfSelf
  <2>3. Unaware(i, d, t, p) \/ Replying(i, d, t, p)
    BY DEF Getting
  <2>4. QED
    BY <1>1, <1>8, <1>10, <2>1, <2>2, <2>3, PairKept
<1>11. ASSUME NEW q \in Node, NEW d \in Node, q = i <=> d = i PROVE chan'[q][d] = <<>>
  BY <1>3, <1>7, <1>11 DEF Getting
<1>12. KnownAmong(Node \ {i})'
  <2>1. \A m, l \in Node \ {i} : m # l => SameOf(remote[m], remote'[m], l)
    BY <1>5, SameOfSelf
  <2>2. QED
    BY <1>1, <2>1, KnownKept DEF Getting
<1>13. \A m \in Node : IsInjective(remote'[m])
  BY <1>5, <1>6 DEF Steady
<1>14. QED
  BY <1>1, <1>9, <1>10, <1>11, <1>12, <1>13 DEF Getting

\* No message of the procedure is ignored.
LEMMA NothingIgnoredWhenGetting ==
  ASSUME RtbInv, NEW i \in Node, NEW t \in Nat, NEW p, Getting(i, t, p),
         NEW n \in Node, NEW s \in Node \ {n}
  PROVE  ~IgnoreGet(n, s) /\ ~IgnoreStatus(n, s)
<1>1. ASSUME IgnoreGet(n, s) PROVE FALSE
  <2>1. GetArrives(i, n, s, t, p)
    BY <1>1, WhatArrivesWhenGetting DEF IgnoreGet, Receives, ReplyArrives, EntryMsg
  <2>2. curr_txn[n] = t - 1 /\ Received(n, s).txn = t
    BY <2>1 DEF GetArrives, Unaware, GetOf
  <2>3. t > t - 1
    OBVIOUS
  <2>4. QED
    BY <1>1, <2>2, <2>3 DEF IgnoreGet, IsNewTransaction
<1>2. ASSUME IgnoreStatus(n, s) PROVE FALSE
  <2>0. chan[s][n] # <<>> /\ ~GetArrives(i, n, s, t, p)
    BY <1>2 DEF IgnoreStatus, Receives, GetArrives, GetOf
  <2>1. PICK a \in 0 .. Own[s], b \in 0 .. Own[s] : ReplyArrives(i, n, s, t, p, a, b)
    BY <2>0, WhatArrivesWhenGetting
  <2>2. n = i /\ Received(n, s).txn = t /\ curr_txn[i] = t /\ curr_state[i] = "GETTING"
    BY <2>1 DEF ReplyArrives, EntryMsg, Getting
  <2>3. t >= t
    OBVIOUS
  <2>4. QED
    BY <1>2, <2>2, <2>3 DEF IgnoreStatus, AcceptsStatus
<1>3. QED
  BY <1>1, <1>2

LEMMA TimeoutEffect ==
  ASSUME RtbInv, TypeInv, NEW n \in Node, Timeout(n)
  PROVE  /\ curr_state[n] = "GETTING" =>
              /\ curr_state'[n] = "PUBLISHING"
              /\ out'[n] = out[n] \o Entries(n, "STATUS", Node \ {n}, curr_txn[n], RoundOf(n))
         /\ curr_state[n] # "GETTING" => curr_state'[n] = "IDLE" /\ out' = out
         /\ \A m \in Node \ {n} : curr_state'[m] = curr_state[m] /\ out'[m] = out[m]
         /\ curr_state[n] = "GETTING" => gave_up' = gave_up
         /\ curr_state[n] # "GETTING" => gave_up'[n] = gave_up[n] \cup Awaited(n)
         /\ \A m \in Node \ {n} : gave_up'[m] = gave_up[m]
         /\ UNCHANGED <<curr_txn, local_entries, remote, thread, on_air, chan, rounds, cleared, restarts>>
<1>1. /\ UNCHANGED <<curr_txn, local_entries, remote, thread, on_air, chan, rounds, cleared, restarts>>
      /\ curr_state \in [Node -> States] /\ out \in [Node -> Seq(Msgs)]
      /\ gave_up \in [Node -> SUBSET Node]
  BY DEF Timeout, RtbInv, Shape, TypeInv
<1>2. CASE curr_state[n] = "GETTING"
  <2>1. /\ curr_state' = [curr_state EXCEPT ![n] = "PUBLISHING"]
        /\ out' = [out EXCEPT ![n] =
                     out[n] \o Entries(n, "STATUS", Node \ {n}, curr_txn[n], RoundOf(n))]
        /\ gave_up' = gave_up
    BY <1>2 DEF Timeout
  <2>2. QED
    BY <1>1, <1>2, <2>1
<1>3. CASE curr_state[n] # "GETTING"
  <2>1. /\ curr_state' = [curr_state EXCEPT ![n] = "IDLE"] /\ out' = out
        /\ gave_up' = [gave_up EXCEPT ![n] = gave_up[n] \cup Awaited(n)]
    BY <1>3 DEF Timeout
  <2>2. QED
    BY <1>1, <1>3, <2>1
<1>4. QED
  BY <1>2, <1>3

\* The reception timer of another node expires while i gets: the node gives up.
LEMMA ReceiverGivesUp ==
  ASSUME OneAtATime, RtbInv, TypeInv, NEW i \in Node, NEW t, NEW p, Getting(i, t, p),
         NEW n \in Node \ {i}, Timeout(n)
  PROVE  Getting(i, t, p)'
<1>1. curr_state[n] = "RECEIVING"
  BY OnlyListeningExpires DEF Getting, Unaware, Replying, TakesPart
<1>2. Replying(i, n, t, p)
  BY <1>1 DEF Getting, Unaware
<1>3. /\ curr_state'[n] = "IDLE" /\ \A m \in Node \ {n} : curr_state'[m] = curr_state[m]
      /\ gave_up'[n] = gave_up[n] \cup Awaited(n)
      /\ \A m \in Node \ {n} : gave_up'[m] = gave_up[m]
      /\ UNCHANGED <<curr_txn, remote, thread, out, on_air, chan, rounds>>
  BY <1>1, TimeoutEffect
<1>4. i \in gave_up'[n]
  BY <1>3 DEF Awaited, OneAtATime, Getting
<1>5. GetWaits(i)' <=> GetWaits(i)
  BY <1>3 DEF GetWaits
<1>6. Replying(i, n, t, p)'
  <2>1. PICK a \in 0 .. Own[n], b \in 0 .. Own[n] : RepliesGo(i, n, t, p, a, b)
    BY <1>2 DEF Replying
  <2>2. RepliesGo(i, n, t, p, a, b)'
    BY <1>3, <2>1 DEF RepliesGo, Unsent
  <2>3. QED
    BY <1>2, <1>3, <1>4, <1>5, <2>2 DEF Replying, TakesPart
<1>7. ASSUME NEW d \in Node \ {i}, d # n PROVE Unaware(i, d, t, p)' \/ Replying(i, d, t, p)'
  <2>1. SameOf(remote[i], remote'[i], d) /\ SameOf(remote[d], remote'[d], i)
    BY <1>3, SameOfSelf
  <2>2. Unaware(i, d, t, p) \/ Replying(i, d, t, p)
    BY DEF Getting
  <2>3. QED
    BY <1>3, <1>5, <1>7, <2>1, <2>2, PairKept
<1>8. KnownAmong(Node \ {i})'
  <2>1. \A m, l \in Node \ {i} : m # l => SameOf(remote[m], remote'[m], l)
    BY <1>3, SameOfSelf
  <2>2. \A m, l \in Node \ {i} : m # l /\ l \in gave_up[m] => l \in gave_up'[m]
    BY <1>3
  <2>3. QED
    BY <1>3, <2>1, <2>2, KnownKept DEF Getting
<1>9. QED
  BY <1>3, <1>6, <1>7, <1>8 DEF Getting

\* The reception timer of i expires when it has the entries of all the others:
\* i publishes its own.
LEMMA GettingEnds ==
  ASSUME OneAtATime, RtbInv, TypeInv, Steady, NEW i \in Node, NEW t, Getting(i, t, RoundOf(i)),
         Timeout(i)
  PROVE  Publishing(i, t, RoundOf(i))'
<1>1. PICK p : p = RoundOf(i)
  OBVIOUS
<1>2. Getting(i, t, p)
  BY <1>1
<1>3. /\ \A m \in Node : out[m] = <<>>
      /\ \A s, d \in Node : chan[s][d] = <<>>
      /\ curr_state[i] = "GETTING"
  BY <1>2, ExpiresLate DEF Getting
<1>5. /\ curr_state'[i] = "PUBLISHING"
      /\ out'[i] = out[i] \o Entries(i, "STATUS", Node \ {i}, t, p)
      /\ \A m \in Node \ {i} : curr_state'[m] = curr_state[m] /\ out'[m] = out[m]
      /\ UNCHANGED <<curr_txn, remote, thread, on_air, chan, rounds, gave_up>>
  BY <1>1, <1>2, <1>3, TimeoutEffect DEF Getting
<1>6. out'[i] = Published(i, t, p, 0, Own[i])
  <2>1. Entries(i, "STATUS", Node \ {i}, t, p) = Published(i, t, p, 0, Own[i])
    BY RunOfEntries, RtbAssumption DEF Steady, Published
  <2>2. Own[i] \in Nat /\ 0 <= Own[i]
    BY RtbAssumptionUsed
  <2>3. <<>> \o Published(i, t, p, 0, Own[i]) = Published(i, t, p, 0, Own[i])
    BY <2>2, RunAfterNone DEF Published
  <2>4. QED
    BY <1>3, <1>5, <2>1, <2>3
<1>7. ASSUME NEW d \in Node \ {i} PROVE Replying(i, d, t, p) /\ Holds(remote[i], d, Own[d])
  <2>1. ~Unaware(i, d, t, p)
    BY <1>3, OneMessage DEF Unaware, GetWaits
  <2>2. Replying(i, d, t, p)
    BY <1>2, <2>1 DEF Getting
  <2>3. PICK a \in 0 .. Own[d], b \in 0 .. Own[d] : RepliesGo(i, d, t, p, a, b)
    BY <2>2 DEF Replying
  <2>4. a \in Nat /\ b \in Nat /\ Own[d] \in Nat /\ a <= b /\ b <= Own[d]
    BY <2>3, RtbAssumptionUsed DEF RepliesGo
  <2>5. Replies(i, t, p, a, b) = <<>> /\ Replies(i, t, p, b, Own[d]) = <<>>
    BY <1>3, <2>3, SilentOffAir DEF RepliesGo, Unsent
  <2>6. a = b
    BY <2>4, <2>5, RunEmpty DEF Replies
  <2>7. b = Own[d]
    BY <2>4, <2>5, RunEmpty DEF Replies
  <2>8. QED
    BY <2>2, <2>3, <2>6, <2>7 DEF RepliesGo
<1>8. PublishedUpTo(i, t, p, 0)'
  <2>1. ~on_air'[i]
    BY <1>3, <1>5, SilentOffAir
  <2>2. Published(i, t, p, 0, 0) = <<>>
    BY RunEmpty DEF Published
  <2>3. ASSUME NEW d \in Node \ {i} PROVE EntriesGo(i, d, t, p, 0, 0)'
    BY <1>3, <1>5, <1>7, <2>2 DEF EntriesGo, Replying, TakesPart
  <2>4. 0 \in 0 .. 0
    OBVIOUS
  <2>5. QED
    BY <1>5, <1>6, <2>1, <2>3, <2>4 DEF PublishedUpTo, Unsent
<1>9. 0 \in 0 .. Own[i]
  BY RtbAssumptionUsed
<1>10. \A m \in Node : curr_txn[m] = t
  BY <1>2, <1>7 DEF Getting, Replying
<1>11. KnownAmong(Node \ {i})'
  BY <1>2, <1>5, KnownUntouched DEF Getting
<1>12. Publishing(i, t, p)'
  BY <1>2, <1>3, <1>5, <1>7, <1>8, <1>9, <1>10, <1>11 DEF Getting, Publishing
<1>13. RoundOf(i)' = p
  BY <1>1, <1>5 DEF RoundOf
<1>14. QED
  BY <1>12, <1>13 DEF Publishing, PublishedUpTo, EntriesGo, Published

-----------------------------------------------------------------------------
\* The initiator publishes.

\* An entry goes on the air.
LEMMA EntryTransmitted ==
  ASSUME OneAtATime, RtbInv, NEW i \in Node, NEW t, NEW p, Publishing(i, t, p),
         NEW n \in Node, Transmit(n)
  PROVE  Publishing(i, t, p)'
<1>1. /\ out[n] # <<>> /\ ~on_air[n] /\ on_air'[n]
      /\ UNCHANGED <<curr_state, curr_txn, remote, thread, out, rounds, gave_up>>
      /\ \A q, d \in Node : chan'[q][d] = IF q = n /\ d \in Head(out[n]).to
                                          THEN Append(chan[q][d], Head(out[n])) ELSE chan[q][d]
  BY TransmitEffect
<1>2. n = i
  BY <1>1 DEF Publishing
<1>3. PICK b \in 0 .. Own[i] : PublishedUpTo(i, t, p, b)
  BY DEF Publishing
<1>4. b \in Nat /\ Own[i] \in Nat /\ b <= Own[i]
  BY <1>3, RtbAssumptionUsed
<1>5. out[i] = Published(i, t, p, b, Own[i])
  BY <1>1, <1>2, <1>3 DEF PublishedUpTo, Unsent
<1>6. b < Own[i]
  <2>1. b # Own[i]
    BY <1>1, <1>2, <1>4, <1>5, RunEmpty DEF Published
  <2>2. QED
    BY <1>4, <2>1
<1>7. Head(out[i]) = EntryMsg("STATUS", Node \ {i}, t, p, b)
  BY <1>4, <1>5, <1>6, RunHead DEF Published
<1>8. curr_state[i] = "PUBLISHING"
  BY <1>3, <1>4, <1>6 DEF PublishedUpTo
<1>9. b + 1 \in 0 .. Own[i] /\ b + 1 > 0 /\ (b + 1) - 1 = b
  BY <1>4, <1>6
<1>10. ASSUME NEW d \in Node \ {i} PROVE \E a \in 0 .. b + 1 : EntriesGo(i, d, t, p, a, b + 1)'
  <2>1. PICK a \in 0 .. b : EntriesGo(i, d, t, p, a, b)
    BY <1>3 DEF PublishedUpTo
  <2>2. a \in Nat /\ a <= b /\ a \in 0 .. b + 1
    BY <1>4
  <2>3. chan'[i][d] = Append(Published(i, t, p, a, b), EntryMsg("STATUS", Node \ {i}, t, p, b))
    <3>1. d \in Head(out[i]).to
      BY <1>7 DEF EntryMsg
    <3>2. chan'[i][d] = Append(chan[i][d], Head(out[i]))
      BY <1>1, <1>2, <3>1
    <3>3. QED
      BY <1>7, <2>1, <3>2 DEF EntriesGo
  <2>4. chan'[i][d] = Published(i, t, p, a, b + 1)
    BY <1>4, <2>2, <2>3, RunAppend DEF Published
  <2>5. \/ curr_state[d] = "RECEIVING" /\ Holds(remote[d], i, a)
        \/ curr_state[d] = "IDLE" /\ i \in gave_up[d]
    BY <1>8, <2>1 DEF EntriesGo
  <2>6. EntriesGo(i, d, t, p, a, b + 1)'
    BY <1>1, <2>4, <2>5 DEF EntriesGo
  <2>7. QED
    BY <2>2, <2>6
<1>11. PublishedUpTo(i, t, p, b + 1)'
  BY <1>1, <1>2, <1>5, <1>8, <1>9, <1>10 DEF PublishedUpTo, Unsent
<1>12. ASSUME NEW q \in Node, NEW d \in Node, q # i \/ d = i PROVE chan'[q][d] = <<>>
  BY <1>1, <1>2, <1>7, <1>12 DEF Publishing, EntryMsg
<1>13. KnownAmong(Node \ {i})'
  BY <1>1, KnownUntouched DEF Publishing
<1>14. QED
  BY <1>1, <1>9, <1>11, <1>12, <1>13 DEF Publishing

\* The transmission of an entry is complete; after that of the last one, i is
\* idle.
LEMMA EntryCompleted ==
  ASSUME RtbInv, Steady, NEW i \in Node, NEW t, NEW p, Publishing(i, t, p),
         NEW n \in Node, TxComplete(n)
  PROVE  Publishing(i, t, p)'
<1>1. /\ out[n] # <<>> /\ on_air[n] /\ ~on_air'[n] /\ out'[n] = Tail(out[n])
      /\ \A m \in Node \ {n} : /\ on_air'[m] = on_air[m] /\ out'[m] = out[m]
                               /\ curr_state'[m] = curr_state[m]
      /\ curr_state'[n] = IF IsLastPublishedEntry(n, Head(out[n])) THEN "IDLE" ELSE curr_state[n]
      /\ UNCHANGED <<curr_txn, remote, thread, chan, rounds, gave_up>>
  BY CompleteEffect
<1>2. n = i
  BY <1>1 DEF Publishing
<1>3. PICK b \in 0 .. Own[i] : PublishedUpTo(i, t, p, b)
  BY DEF Publishing
<1>4. b - 1 \in Nat /\ b \in Nat /\ Own[i] \in Nat /\ b - 1 < Own[i] /\ (b - 1) + 1 = b
  BY <1>1, <1>2, <1>3, RtbAssumptionUsed DEF PublishedUpTo
<1>5. out[i] = Published(i, t, p, b - 1, Own[i])
  BY <1>1, <1>2, <1>3 DEF PublishedUpTo, Unsent
<1>6. Head(out[i]) = EntryMsg("STATUS", Node \ {i}, t, p, b - 1)
  BY <1>4, <1>5, RunHead DEF Published
<1>7. out'[i] = Published(i, t, p, b, Own[i])
  <2>1. Rest(Published(i, t, p, b - 1, Own[i])) = Published(i, t, p, (b - 1) + 1, Own[i])
    BY <1>4, RunRest DEF Published
  <2>2. out'[i] = Rest(out[i])
    BY <1>1, <1>2 DEF Rest
  <2>3. QED
    BY <1>4, <1>5, <2>1, <2>2
<1>8. curr_state[i] = "PUBLISHING"
  BY <1>1, <1>2, <1>3 DEF PublishedUpTo
<1>9. \/ curr_state'[i] = "PUBLISHING"
      \/ curr_state'[i] = "IDLE" /\ b = Own[i]
  <2>1. IsLastPublishedEntry(i, Head(out[i])) <=> b - 1 = Own[i] - 1
    BY <1>6 DEF IsLastPublishedEntry, EntryMsg, Steady
  <2>2. b - 1 = Own[i] - 1 <=> b = Own[i]
    BY <1>4
  <2>3. QED
    BY <1>1, <1>2, <1>8, <2>1, <2>2
<1>10. ASSUME NEW d \in Node \ {i}, NEW a \in 0 .. b, EntriesGo(i, d, t, p, a, b)
       PROVE  EntriesGo(i, d, t, p, a, b)'
  BY <1>1, <1>2, <1>8, <1>10 DEF EntriesGo
<1>11. PublishedUpTo(i, t, p, b)'
  BY <1>1, <1>2, <1>3, <1>7, <1>9, <1>10 DEF PublishedUpTo, Unsent
<1>12. KnownAmong(Node \ {i})'
  BY <1>1, KnownUntouched DEF Publishing
<1>13. QED
  BY <1>1, <1>2, <1>11, <1>12 DEF Publishing

EntryArrives(i, n, s, t, p, a, b) ==
  /\ s = i /\ a < b /\ EntriesGo(i, n, t, p, a, b) /\ PublishedUpTo(i, t, p, b)
  /\ Received(n, s) = EntryMsg("STATUS", Node \ {i}, t, p, a) /\ TakesPart(i, n)

LEMMA WhatArrivesWhenPublishing ==
  ASSUME NEW i \in Node, NEW t, NEW p, Publishing(i, t, p),
         NEW n \in Node, NEW s \in Node \ {n}, chan[s][n] # <<>>
  PROVE  \E b \in 0 .. Own[i] : \E a \in 0 .. b : EntryArrives(i, n, s, t, p, a, b)
<1>1. s = i /\ n \in Node \ {i}
  BY DEF Publishing
<1>2. PICK b \in 0 .. Own[i] : PublishedUpTo(i, t, p, b)
  BY DEF Publishing
<1>3. PICK a \in 0 .. b : EntriesGo(i, n, t, p, a, b)
  BY <1>1, <1>2 DEF PublishedUpTo
<1>4. a \in Nat /\ b \in Nat /\ a <= b
  BY <1>2, <1>3, RtbAssumptionUsed
<1>5. chan[i][n] = Published(i, t, p, a, b)
  BY <1>3 DEF EntriesGo
<1>6. a # b
  BY <1>1, <1>4, <1>5, RunEmpty DEF Published
<1>7. a < b
  BY <1>4, <1>6
<1>8. Received(n, s) = EntryMsg("STATUS", Node \ {i}, t, p, a)
  BY <1>1, <1>4, <1>5, <1>7, RunHead DEF Published, Received
<1>9. TakesPart(i, n)
  BY <1>3, <1>6 DEF EntriesGo, TakesPart
<1>10. EntryArrives(i, n, s, t, p, a, b)
  BY <1>1, <1>2, <1>3, <1>7, <1>8, <1>9 DEF EntryArrives
<1>11. QED
  BY <1>10

\* A node stores the next entry of i.
LEMMA EntryHandled ==
  ASSUME OneAtATime, RtbInv, TypeInv, Steady, NEW i \in Node, NEW t \in Nat, NEW p,
         Publishing(i, t, p), NEW n \in Node, NEW s \in Node \ {n}, ReceiveStatus(n, s)
  PROVE  Publishing(i, t, p)' /\ \A m \in Node : IsInjective(remote'[m])
<1>1. /\ chan[s][n] # <<>> /\ Consume(n, s)
      /\ remote' = [remote EXCEPT ![n] = AddEntry(remote[n], s, Received(n, s).idx)]
      /\ curr_state[n] # "IDLE"
      /\ UNCHANGED <<curr_state, curr_txn, thread, out, on_air, rounds, gave_up>>
  BY DEF ReceiveStatus, AcceptsStatus, Receives, aux_vars
<1>0. PICK b \in 0 .. Own[i] : \E a \in 0 .. b : EntryArrives(i, n, s, t, p, a, b)
  BY <1>1, WhatArrivesWhenPublishing
<1>2. PICK a \in 0 .. b : EntryArrives(i, n, s, t, p, a, b)
  BY <1>0
<1>3. /\ s = i /\ n \in Node \ {i} /\ a < b /\ EntriesGo(i, n, t, p, a, b)
      /\ PublishedUpTo(i, t, p, b) /\ Received(n, s).idx = a /\ curr_state[n] = "RECEIVING"
  BY <1>1, <1>2 DEF EntryArrives, EntryMsg, TakesPart
<1>4. a \in Nat /\ b \in Nat /\ Own[i] \in Nat /\ a + 1 \in 0 .. b /\ a + 1 <= b /\ a < Own[i]
  BY <1>3, RtbAssumptionUsed
<1>5. remote'[n] = AddEntry(remote[n], i, a) /\ \A m \in Node \ {n} : remote'[m] = remote[m]
  BY <1>1, <1>3 DEF TypeInv
<1>6. /\ IsInjective(remote'[n]) /\ Holds(remote'[n], i, a + 1)
      /\ \A m \in Node \ {i} : SameOf(remote[n], remote'[n], m)
  <2>1. Holds(remote[n], i, a) /\ remote[n] \in Seq(EntriesAt(n)) /\ IsInjective(remote[n])
    BY <1>3 DEF EntriesGo, TypeInv, RemoteTyped, Steady
  <2>2. QED
    BY <1>3, <1>4, <1>5, <2>1, AddedNext
<1>7. /\ chan'[i][n] = Published(i, t, p, a + 1, b)
      /\ \A q, d \in Node : q # i \/ d # n => chan'[q][d] = chan[q][d]
  <2>1. Rest(Published(i, t, p, a, b)) = Published(i, t, p, a + 1, b)
    BY <1>3, <1>4, RunRest DEF Published
  <2>2. chan[i][n] = Published(i, t, p, a, b)
    BY <1>3 DEF EntriesGo
  <2>3. /\ chan'[i][n] = Rest(chan[i][n])
        /\ \A q, d \in Node : q # i \/ d # n => chan'[q][d] = chan[q][d]
    BY <1>1, <1>3, ConsumeEffect DEF Rest
  <2>4. QED
    BY <2>1, <2>2, <2>3
<1>8. ASSUME NEW d \in Node \ {i} PROVE \E k \in 0 .. b : EntriesGo(i, d, t, p, k, b)'
  <2>1. CASE d = n
    <3>1. EntriesGo(i, n, t, p, a + 1, b)'
      BY <1>1, <1>3, <1>6, <1>7 DEF EntriesGo
    <3>2. QED
      BY <1>4, <2>1, <3>1
  <2>2. CASE d # n
    <3>1. PICK k \in 0 .. b : EntriesGo(i, d, t, p, k, b)
      BY <1>3 DEF PublishedUpTo
    <3>2. EntriesGo(i, d, t, p, k, b)'
      BY <1>1, <1>5, <1>7, <2>2, <3>1 DEF EntriesGo
    <3>3. QED
      BY <3>2
  <2>3. QED
    BY <2>1, <2>2
<1>9. PublishedUpTo(i, t, p, b)'
  BY <1>1, <1>3, <1>8 DEF PublishedUpTo, Unsent
<1>10. KnownAmong(Node \ {i})'
  <2>1. \A m, l \in Node \ {i} : m # l => SameOf(remote[m], remote'[m], l)
    BY <1>5, <1>6, SameOfSelf
  <2>2. QED
    BY <1>1, <2>1, KnownKept DEF Publishing
<1>11. \A q, d \in Node : q # i \/ d = i => chan'[q][d] = <<>>
  BY <1>3, <1>7 DEF Publishing
<1>12. \A m \in Node : IsInjective(remote'[m])
  BY <1>5, <1>6 DEF Steady
<1>13. QED
  BY <1>1, <1>3, <1>5, <1>9, <1>10, <1>11, <1>12 DEF Publishing

\* A node that gave up ignores the next entry of i.
LEMMA EntryIgnored ==
  ASSUME OneAtATime, RtbInv, NEW i \in Node, NEW t \in Nat, NEW p,
         Publishing(i, t, p), NEW n \in Node, NEW s \in Node \ {n}, IgnoreStatus(n, s)
  PROVE  Publishing(i, t, p)'
<1>1. /\ chan[s][n] # <<>> /\ Consume(n, s) /\ ~AcceptsStatus(n, Received(n, s))
      /\ UNCHANGED <<curr_state, curr_txn, remote, thread, out, on_air, rounds, gave_up>>
  BY DEF IgnoreStatus, Receives, node_vars, aux_vars
<1>0. PICK b \in 0 .. Own[i] : \E a \in 0 .. b : EntryArrives(i, n, s, t, p, a, b)
  BY <1>1, WhatArrivesWhenPublishing
<1>2. PICK a \in 0 .. b : EntryArrives(i, n, s, t, p, a, b)
  BY <1>0
<1>3. /\ s = i /\ n \in Node \ {i} /\ a < b /\ EntriesGo(i, n, t, p, a, b)
      /\ PublishedUpTo(i, t, p, b) /\ Received(n, s).txn = t /\ TakesPart(i, n)
  BY <1>2 DEF EntryArrives, EntryMsg
<1>4. a \in Nat /\ b \in Nat /\ a + 1 \in 0 .. b /\ a + 1 <= b
  BY <1>3, RtbAssumptionUsed
<1>5. curr_state[n] = "IDLE" /\ i \in gave_up[n]
  <2>1. curr_txn[n] = t
    BY DEF Publishing
  <2>2. t >= t
    OBVIOUS
  <2>3. QED
    BY <1>1, <1>3, <2>1, <2>2 DEF AcceptsStatus, TakesPart
<1>6. /\ chan'[i][n] = Published(i, t, p, a + 1, b)
      /\ \A q, d \in Node : q # i \/ d # n => chan'[q][d] = chan[q][d]
  <2>1. Rest(Published(i, t, p, a, b)) = Published(i, t, p, a + 1, b)
    BY <1>3, <1>4, RunRest DEF Published
  <2>2. chan[i][n] = Published(i, t, p, a, b)
    BY <1>3 DEF EntriesGo
  <2>3. /\ chan'[i][n] = Rest(chan[i][n])
        /\ \A q, d \in Node : q # i \/ d # n => chan'[q][d] = chan[q][d]
    BY <1>1, <1>3, ConsumeEffect DEF Rest
  <2>4. QED
    BY <2>1, <2>2, <2>3
<1>7. ASSUME NEW d \in Node \ {i} PROVE \E k \in 0 .. b : EntriesGo(i, d, t, p, k, b)'
  <2>1. CASE d = n
    <3>1. EntriesGo(i, n, t, p, a + 1, b)'
      BY <1>1, <1>5, <1>6 DEF EntriesGo
    <3>2. QED
      BY <1>4, <2>1, <3>1
  <2>2. CASE d # n
    <3>1. PICK k \in 0 .. b : EntriesGo(i, d, t, p, k, b)
      BY <1>3 DEF PublishedUpTo
    <3>2. EntriesGo(i, d, t, p, k, b)'
      BY <1>1, <1>6, <2>2, <3>1 DEF EntriesGo
    <3>3. QED
      BY <3>2
  <2>3. QED
    BY <2>1, <2>2
<1>8. PublishedUpTo(i, t, p, b)'
  BY <1>1, <1>3, <1>7 DEF PublishedUpTo, Unsent
<1>9. KnownAmong(Node \ {i})'
  BY <1>1, KnownUntouched DEF Publishing
<1>10. \A q, d \in Node : q # i \/ d = i => chan'[q][d] = <<>>
  BY <1>3, <1>6 DEF Publishing
<1>11. QED
  BY <1>1, <1>8, <1>9, <1>10 DEF Publishing

\* Entries only are received while i publishes.
LEMMA OnlyEntriesWhenPublishing ==
  ASSUME NEW i \in Node, NEW t \in Nat, NEW p, Publishing(i, t, p),
         NEW n \in Node, NEW s \in Node \ {n}
  PROVE  ~ReceiveGet(n, s) /\ ~IgnoreGet(n, s)
<1>1. ASSUME chan[s][n] # <<>> PROVE Received(n, s).cmd = "STATUS"
  <2>0. PICK b \in 0 .. Own[i] : \E a \in 0 .. b : EntryArrives(i, n, s, t, p, a, b)
    BY <1>1, WhatArrivesWhenPublishing
  <2>1. PICK a \in 0 .. b : EntryArrives(i, n, s, t, p, a, b)
    BY <2>0
  <2>2. QED
    BY <2>1 DEF EntryArrives, EntryMsg
<1>2. QED
  BY <1>1 DEF ReceiveGet, IgnoreGet, Receives

\* The reception timer of a node expires: the node has all the entries of i, or
\* gives up.
LEMMA ReceivingEnds ==
  ASSUME OneAtATime, RtbInv, TypeInv, NEW i \in Node, NEW t, NEW p, Publishing(i, t, p),
         NEW n \in Node, Timeout(n)
  PROVE  Publishing(i, t, p)'
<1>1. PICK b \in 0 .. Own[i] : PublishedUpTo(i, t, p, b)
  BY DEF Publishing
<1>2. ASSUME NEW d \in Node \ {i} PROVE curr_state[d] \in {"IDLE", "RECEIVING"}
  BY <1>1 DEF PublishedUpTo, EntriesGo
<1>3. curr_state[n] = "RECEIVING" /\ n \in Node \ {i}
  BY <1>1, <1>2, OnlyListeningExpires DEF PublishedUpTo
<1>4. /\ curr_state'[n] = "IDLE" /\ \A m \in Node \ {n} : curr_state'[m] = curr_state[m]
      /\ gave_up'[n] = gave_up[n] \cup Awaited(n)
      /\ \A m \in Node \ {n} : gave_up'[m] = gave_up[m]
      /\ UNCHANGED <<curr_txn, remote, thread, out, on_air, chan, rounds>>
  BY <1>3, TimeoutEffect
<1>5. PICK a \in 0 .. b : EntriesGo(i, n, t, p, a, b)
  BY <1>1, <1>3 DEF PublishedUpTo
<1>6. EntriesGo(i, n, t, p, a, b)'
  <2>1. chan[i][n] = Published(i, t, p, a, b) /\ Holds(remote[n], i, a)
    BY <1>3, <1>5 DEF EntriesGo
  <2>2. CASE chan[i][n] # <<>> \/ curr_state[i] = "PUBLISHING"
    <3>1. i \in gave_up'[n]
      BY <1>3, <1>4, <2>2 DEF Awaited, OneAtATime
    <3>2. QED
      BY <1>4, <2>1, <3>1 DEF EntriesGo
  <2>3. CASE chan[i][n] = <<>> /\ curr_state[i] # "PUBLISHING"
    <3>1. a \in Nat /\ b \in Nat /\ a <= b
      BY <1>1, <1>5, RtbAssumptionUsed
    <3>2. a = b
      BY <2>1, <2>3, <3>1, RunEmpty DEF Published
    <3>3. curr_state[i] = "IDLE"
      BY <1>1, <2>3 DEF PublishedUpTo
    <3>4. QED
      BY <1>3, <1>4, <2>1, <3>2, <3>3 DEF EntriesGo
  <2>4. QED
    BY <2>2, <2>3
<1>7. ASSUME NEW d \in Node \ {i} PROVE \E k \in 0 .. b : EntriesGo(i, d, t, p, k, b)'
  <2>1. CASE d = n
    BY <1>5, <1>6, <2>1
  <2>2. CASE d # n
    <3>1. PICK k \in 0 .. b : EntriesGo(i, d, t, p, k, b)
      BY <1>1 DEF PublishedUpTo
    <3>2. EntriesGo(i, d, t, p, k, b)'
      BY <1>3, <1>4, <2>2, <3>1 DEF EntriesGo
    <3>3. QED
      BY <3>2
  <2>3. QED
    BY <2>1, <2>2
<1>8. PublishedUpTo(i, t, p, b)'
  BY <1>1, <1>3, <1>4, <1>7 DEF PublishedUpTo, Unsent
<1>9. KnownAmong(Node \ {i})'
  <2>1. \A m, l \in Node \ {i} : m # l => SameOf(remote[m], remote'[m], l)
    BY <1>4, SameOfSelf
  <2>2. \A m, l \in Node \ {i} : m # l /\ l \in gave_up[m] => l \in gave_up'[m]
    BY <1>4
  <2>3. QED
    BY <1>4, <2>1, <2>2, KnownKept DEF Publishing
<1>10. QED
  BY <1>4, <1>8, <1>9 DEF Publishing

\* When nothing goes on any more, all the tables are extended.
LEMMA PublishingEnds ==
  ASSUME RtbInv, NEW i \in Node, NEW t, NEW p, Publishing(i, t, p), Quiet, AllIdle
  PROVE  Resting(t)
<1>1. PICK b \in 0 .. Own[i] : PublishedUpTo(i, t, p, b)
  BY DEF Publishing
<1>2. b = Own[i] /\ b \in Nat /\ Own[i] \in Nat
  BY <1>1, RtbAssumptionUsed DEF PublishedUpTo, AllIdle
<1>3. ASSUME NEW d \in Node \ {i} PROVE Told(d, i) /\ Told(i, d)
  <2>1. PICK a \in 0 .. b : EntriesGo(i, d, t, p, a, b)
    BY <1>1 DEF PublishedUpTo
  <2>2. a \in Nat /\ a <= b
    BY <1>2
  <2>3. Published(i, t, p, a, b) = <<>>
    BY <2>1 DEF EntriesGo, Quiet
  <2>4. a = b
    BY <1>2, <2>2, <2>3, RunEmpty DEF Published
  <2>5. /\ Holds(remote[d], i, Own[i]) \/ i \in gave_up[d]
        /\ Holds(remote[i], d, Own[d])
    BY <1>2, <2>1, <2>4 DEF EntriesGo, Publishing
  <2>6. \A m \in Node : \A j \in 0 .. Own[m] - 1 : j < Own[m]
    BY RtbAssumptionUsed
  <2>7. QED
    BY <2>5, <2>6 DEF Holds, HoldsAll, Told
<1>4. KnownAmong(Node)
  <2>. SUFFICES ASSUME NEW n \in Node, NEW m \in Node, n # m, rounds[n] > 0
                PROVE  Told(n, m) /\ Told(m, n)
    BY DEF KnownAmong
  <2>1. CASE n = i \/ m = i
    BY <1>3, <2>1
  <2>2. CASE n # i /\ m # i
    BY <2>2 DEF Publishing, KnownAmong
  <2>3. QED
    BY <2>1, <2>2
<1>5. QED
  BY <1>4 DEF Resting, Publishing, Quiet, AllIdle

-----------------------------------------------------------------------------
\* The steps, one phase after the other.

\* Filling the table again changes nothing.
LEMMA FillChangesNothing ==
  ASSUME RtbInv, Steady, NEW n \in Node, Fill(n)
  PROVE  UNCHANGED vars
<1>1. /\ local_entries' = [local_entries EXCEPT ![n] = Own[n]] /\ local_entries[n] = Own[n]
      /\ UNCHANGED <<curr_state, curr_txn, timer, remote, thread, failed, mesh_vars, aux_vars>>
  BY DEF Fill, Steady
<1>2. local_entries' = local_entries
  BY <1>1 DEF RtbInv, Shape
<1>3. QED
  BY <1>1, <1>2 DEF vars, node_vars

LEMMA NoClearNorRestart ==
  ASSUME OneAtATime, Steady, NEW n \in Node
  PROVE  ~ClearTables(n) /\ ~Restart(n)
<1>1. ~ClearTables(n)
  BY DEF OneAtATime, ClearTables
<1>2. restarts[n] = 0 /\ MaxRestarts[n] = 0
  BY DEF OneAtATime, Steady
<1>3. ~Restart(n)
  BY <1>2 DEF Restart
<1>4. QED
  BY <1>1, <1>3

LEMMA PhaseUntouched ==
  ASSUME InPhase, UNCHANGED vars
  PROVE  InPhase'
<1>1. /\ UNCHANGED <<curr_state, curr_txn, remote, thread, out, on_air, chan, rounds, gave_up>>
  BY DEF vars, node_vars, mesh_vars, aux_vars
<1>2. Txn' = Txn /\ \A i : RoundOf(i)' = RoundOf(i)
  BY <1>1 DEF Txn, Done, RoundOf
<1>3. \A nodes : KnownAmong(nodes)' <=> KnownAmong(nodes)
  BY <1>1 DEF KnownAmong, Told
<1>4. CASE Resting(Txn)
  BY <1>1, <1>2, <1>3, <1>4 DEF InPhase, Resting
<1>5. ASSUME NEW i \in Node, Engaging(i, Txn, RoundOf(i)) PROVE Engaging(i, Txn, RoundOf(i))'
  BY <1>1, <1>2, <1>3, <1>5 DEF Engaging, GetOf
<1>6. ASSUME NEW i \in Node, Getting(i, Txn, RoundOf(i)) PROVE Getting(i, Txn, RoundOf(i))'
  <2>1. PICK t, p : t = Txn /\ p = RoundOf(i)
    OBVIOUS
  <2>2. \A d \in Node \ {i} : /\ Unaware(i, d, t, p)' <=> Unaware(i, d, t, p)
                              /\ Replying(i, d, t, p)' <=> Replying(i, d, t, p)
    BY <1>1 DEF Unaware, Replying, TakesPart, RepliesGo, GetWaits, Unsent
  <2>3. Getting(i, t, p)'
    BY <1>1, <1>3, <1>6, <2>1, <2>2 DEF Getting
  <2>4. Txn' = t /\ RoundOf(i)' = p
    BY <1>2, <2>1
  <2>5. QED
    BY <2>3, <2>4 DEF Getting, Unaware, Replying, RepliesGo, Replies, GetOf
<1>7. ASSUME NEW i \in Node, Publishing(i, Txn, RoundOf(i)) PROVE Publishing(i, Txn, RoundOf(i))'
  <2>1. PICK t, p : t = Txn /\ p = RoundOf(i)
    OBVIOUS
  <2>2. \A d \in Node : \A a, b : EntriesGo(i, d, t, p, a, b)' <=> EntriesGo(i, d, t, p, a, b)
    BY <1>1 DEF EntriesGo
  <2>3. \A b : PublishedUpTo(i, t, p, b)' <=> PublishedUpTo(i, t, p, b)
    BY <1>1, <2>2 DEF PublishedUpTo, Unsent
  <2>4. Publishing(i, t, p)'
    BY <1>1, <1>3, <1>7, <2>1, <2>3 DEF Publishing
  <2>5. Txn' = t /\ RoundOf(i)' = p
    BY <1>2, <2>1
  <2>6. QED
    BY <2>4, <2>5 DEF Publishing, PublishedUpTo, EntriesGo, Published
<1>8. QED
  BY <1>4, <1>5, <1>6, <1>7 DEF InPhase

\* A phase that a step leads to, when it engages no new procedure.
LEMMA PhaseReached ==
  ASSUME rounds' = rounds, NEW i \in Node, NEW t, NEW p, Txn = t, RoundOf(i) = p,
         Resting(t)' \/ Engaging(i, t, p)' \/ Getting(i, t, p)' \/ Publishing(i, t, p)'
  PROVE  InPhase'
<1>1. Txn' = t /\ RoundOf(i)' = p
  BY DEF Txn, Done, RoundOf
<1>2. CASE Resting(t)'
  BY <1>1, <1>2 DEF InPhase, Resting, KnownAmong, Told
<1>3. CASE Engaging(i, t, p)'
  BY <1>1, <1>3 DEF InPhase, Engaging, GetOf
<1>4. CASE Getting(i, t, p)'
  BY <1>1, <1>4 DEF InPhase, Getting, Unaware, Replying, RepliesGo, Replies, GetOf
<1>5. CASE Publishing(i, t, p)'
  BY <1>1, <1>5 DEF InPhase, Publishing, PublishedUpTo, EntriesGo, Published
<1>6. QED
  BY <1>2, <1>3, <1>4, <1>5


LEMMA SteadyStays ==
  ASSUME OneAtATime, RtbInv, Steady, NEW n \in Node, Acts(n),
         \A m \in Node : IsInjective(remote'[m])
  PROVE  Steady'
<1>1. CASE Fill(n)
  <2>1. UNCHANGED vars
    BY <1>1, FillChangesNothing
  <2>2. QED
    BY <2>1 DEF vars, node_vars, aux_vars, Steady
<1>2. CASE ~Fill(n)
  <2>1. UNCHANGED <<local_entries, cleared, restarts>>
    BY <1>2, NoClearNorRestart
       DEF Acts, Engage, EngageContinues, EngageClear, EngageGet, EngageTimer, EngageState, Transmit,
           TxComplete, Receive, ReceiveGet, IgnoreGet, ReceiveStatus, IgnoreStatus, Timeout,
           node_vars, aux_vars
  <2>2. QED
    BY <2>1 DEF Steady
<1>3. QED
  BY <1>1, <1>2

\* Nothing is sent or handled when all the queues and channels are empty.
LEMMA SilenceStays ==
  ASSUME RtbInv, NEW n \in Node, out[n] = <<>>, \A s \in Node : chan[s][n] = <<>>
  PROVE  ~Transmit(n) /\ ~TxComplete(n) /\ \A s \in Node \ {n} : ~Receive(n, s)
<1>1. ~on_air[n]
  BY SilentOffAir
<1>2. QED
  BY <1>1 DEF Transmit, TxComplete, Receive, ReceiveGet, IgnoreGet, ReceiveStatus, IgnoreStatus, Receives

LEMMA RestingStep ==
  ASSUME OneAtATime, RtbInv, TypeInv, Steady, Resting(Txn), NEW n \in Node, Acts(n)
  PROVE  InPhase' /\ \A m \in Node : IsInjective(remote'[m])
<1>1. CASE Fill(n)
  <2>1. UNCHANGED vars
    BY <1>1, FillChangesNothing
  <2>2. InPhase
    BY DEF InPhase
  <2>3. QED
    BY <2>1, <2>2, PhaseUntouched DEF vars, node_vars, Steady
<1>2. CASE Engage(n)
  <2>1. PICK t, p : t = Txn /\ p = RoundOf(n)
    OBVIOUS
  <2>2. Resting(t) /\ rounds' = rounds /\ remote' = remote
    BY <1>2, <2>1 DEF Engage, aux_vars
  <2>3. Engaging(n, t, p)'
    BY <1>2, <2>2, EngagesAtRest
  <2>4. InPhase'
    BY <2>1, <2>2, <2>3, PhaseReached
  <2>5. QED
    BY <2>2, <2>4 DEF Steady
<1>3. ~EngageContinues(n)
  BY DEF Resting, EngageContinues, EngageClear, EngageGet, EngageTimer, EngageState
<1>4. ~Transmit(n) /\ ~TxComplete(n) /\ \A s \in Node \ {n} : ~Receive(n, s)
  BY SilenceStays DEF Resting
<1>5. ~Timeout(n)
  BY OnlyListeningExpires DEF Resting
<1>6. QED
  BY <1>1, <1>2, <1>3, <1>4, <1>5, NoClearNorRestart DEF Acts

LEMMA EngagingStep ==
  ASSUME OneAtATime, RtbInv, TypeInv, Steady, NEW i \in Node, Engaging(i, Txn, RoundOf(i)),
         NEW n \in Node, Acts(n)
  PROVE  InPhase' /\ \A m \in Node : IsInjective(remote'[m])
<1>1. PICK t, p : t = Txn /\ p = RoundOf(i)
  OBVIOUS
<1>2. Engaging(i, t, p)
  BY <1>1
<1>3. CASE Fill(n)
  <2>1. UNCHANGED vars
    BY <1>3, FillChangesNothing
  <2>2. InPhase
    BY DEF InPhase
  <2>3. QED
    BY <2>1, <2>2, PhaseUntouched DEF vars, node_vars, Steady
<1>4. ~Engage(n)
  BY <1>2 DEF OneAtATime, Engaging, Engage, Quiet
<1>5. CASE EngageContinues(n)
  <2>1. n = i
    BY <1>2, <1>5 DEF Engaging, EngageContinues, EngageClear, EngageGet, EngageTimer, EngageState
  <2>2. CASE EngageClear(i)
    <3>1. rounds' = rounds /\ remote' = [remote EXCEPT ![i] = <<>>]
      BY <2>2 DEF EngageClear, aux_vars
    <3>2. Engaging(i, t, p)'
      BY <1>2, <2>2, EngageClearGoes
    <3>3. InPhase'
      BY <1>1, <3>1, <3>2, PhaseReached
    <3>4. remote'[i] = <<>> /\ \A m \in Node \ {i} : remote'[m] = remote[m]
      BY <3>1 DEF TypeInv
    <3>5. QED
      BY <3>3, <3>4, EmptyTable DEF Steady
  <2>3. CASE EngageGet(i)
    <3>1. Engaging(i, Txn, RoundOf(i))'
      BY <2>3, EngageGetGoes
    <3>2. remote' = remote
      BY <2>3 DEF EngageGet
    <3>3. QED
      BY <3>1, <3>2 DEF InPhase, Steady
  <2>4. CASE EngageTimer(i)
    <3>1. rounds' = rounds /\ remote' = remote
      BY <2>4 DEF EngageTimer, aux_vars
    <3>2. Engaging(i, t, p)'
      BY <1>2, <2>4, EngageTimerGoes
    <3>3. InPhase'
      BY <1>1, <3>1, <3>2, PhaseReached
    <3>4. QED
      BY <3>1, <3>3 DEF Steady
  <2>5. CASE EngageState(i)
    <3>1. rounds' = rounds /\ remote' = remote
      BY <2>5 DEF EngageState, aux_vars
    <3>2. Getting(i, t, p)'
      BY <1>2, <2>5, EngageStateGoes
    <3>3. InPhase'
      BY <1>1, <3>1, <3>2, PhaseReached
    <3>4. QED
      BY <3>1, <3>3 DEF Steady
  <2>6. QED
    BY <1>5, <2>1, <2>2, <2>3, <2>4, <2>5 DEF EngageContinues
<1>6. ~Transmit(n)
  BY <1>2 DEF OneAtATime, Engaging, Transmit
<1>7. ~TxComplete(n)
  <2>1. on_air[n] => out[n] # <<>>
    BY DEF RtbInv, Shape
  <2>2. thread[i] \in {"idle", "clear", "get", "timer", "state"}
    BY DEF RtbInv, Shape, Pcs
  <2>3. QED
    BY <1>2, <2>1, <2>2 DEF Engaging, TxComplete
<1>8. ASSUME NEW s \in Node \ {n} PROVE ~Receive(n, s)
  BY <1>2 DEF Engaging, Receive, ReceiveGet, IgnoreGet, ReceiveStatus, IgnoreStatus, Receives
<1>9. ~Timeout(n)
  BY <1>2, OnlyListeningExpires DEF Engaging
<1>10. QED
  BY <1>3, <1>4, <1>5, <1>6, <1>7, <1>8, <1>9, NoClearNorRestart DEF Acts

LEMMA GettingStep ==
  ASSUME OneAtATime, RtbInv, TypeInv, Steady, NEW i \in Node, Getting(i, Txn, RoundOf(i)),
         NEW n \in Node, Acts(n)
  PROVE  InPhase' /\ \A m \in Node : IsInjective(remote'[m])
<1>1. PICK t, p : t = Txn /\ p = RoundOf(i)
  OBVIOUS
<1>2. Getting(i, t, p) /\ t \in Nat
  BY <1>1, DoneIsFinite DEF OneAtATime
<1>3. CASE Fill(n)
  <2>1. UNCHANGED vars
    BY <1>3, FillChangesNothing
  <2>2. InPhase
    BY DEF InPhase
  <2>3. QED
    BY <2>1, <2>2, PhaseUntouched DEF vars, node_vars, Steady
<1>4. ~Engage(n)
  BY <1>2 DEF OneAtATime, Getting, Engage, AllIdle
<1>5. ~EngageContinues(n)
  BY <1>2 DEF Getting, EngageContinues, EngageClear, EngageGet, EngageTimer, EngageState
<1>6. CASE Transmit(n) \/ TxComplete(n)
  <2>1. Getting(i, t, p)'
    BY <1>2, <1>6, GetTransmitted, ReplyTransmitted, GetCompleted, ReplyCompleted
  <2>2. rounds' = rounds /\ remote' = remote
    BY <1>6 DEF Transmit, TxComplete, node_vars, aux_vars
  <2>3. InPhase'
    BY <1>1, <2>1, <2>2, PhaseReached
  <2>4. QED
    BY <2>2, <2>3 DEF Steady
<1>7. ASSUME NEW s \in Node \ {n}, Receive(n, s)
      PROVE  InPhase' /\ \A m \in Node : IsInjective(remote'[m])
  <2>1. ReceiveGet(n, s) \/ ReceiveStatus(n, s)
    BY <1>2, <1>7, NothingIgnoredWhenGetting DEF Receive
  <2>2. rounds' = rounds
    BY <2>1 DEF ReceiveGet, ReceiveStatus, aux_vars
  <2>3. Getting(i, t, p)' /\ \A m \in Node : IsInjective(remote'[m])
    BY <1>2, <2>1, GetHandled, ReplyHandled
  <2>4. QED
    BY <1>1, <2>2, <2>3, PhaseReached
<1>8. CASE Timeout(n) /\ n # i
  <2>1. Getting(i, t, p)'
    BY <1>2, <1>8, ReceiverGivesUp
  <2>2. rounds' = rounds /\ remote' = remote
    BY <1>8 DEF Timeout
  <2>3. InPhase'
    BY <1>1, <2>1, <2>2, PhaseReached
  <2>4. QED
    BY <2>2, <2>3 DEF Steady
<1>9. CASE Timeout(i)
  <2>1. Publishing(i, t, RoundOf(i))'
    BY <1>1, <1>2, <1>9, GettingEnds
  <2>2. rounds' = rounds /\ remote' = remote
    BY <1>9 DEF Timeout
  <2>3. Txn' = t
    BY <1>1, <2>2 DEF Txn, Done
  <2>4. InPhase'
    BY <2>1, <2>3 DEF InPhase, Publishing, PublishedUpTo, EntriesGo, Published
  <2>5. QED
    BY <2>2, <2>4 DEF Steady
<1>10. QED
  BY <1>3, <1>4, <1>5, <1>6, <1>7, <1>8, <1>9, NoClearNorRestart DEF Acts

LEMMA PublishingStep ==
  ASSUME OneAtATime, RtbInv, TypeInv, Steady, NEW i \in Node, Publishing(i, Txn, RoundOf(i)),
         NEW n \in Node, Acts(n)
  PROVE  InPhase' /\ \A m \in Node : IsInjective(remote'[m])
<1>1. PICK t, p : t = Txn /\ p = RoundOf(i)
  OBVIOUS
<1>2. Publishing(i, t, p) /\ t \in Nat
  BY <1>1, DoneIsFinite DEF OneAtATime
<1>3. CASE Fill(n)
  <2>1. UNCHANGED vars
    BY <1>3, FillChangesNothing
  <2>2. InPhase
    BY DEF InPhase
  <2>3. QED
    BY <2>1, <2>2, PhaseUntouched DEF vars, node_vars, Steady
<1>4. CASE Engage(n)
  <2>1. Quiet /\ AllIdle /\ rounds' = rounds /\ remote' = remote
    BY <1>4 DEF OneAtATime, Engage, aux_vars
  <2>2. PICK r : r = RoundOf(n)
    OBVIOUS
  <2>3. Engaging(n, t, r)'
    <3>1. Resting(t)
      BY <1>2, <2>1, PublishingEnds
    <3>2. QED
      BY <1>4, <3>1, EngagesAtRest
  <2>4. InPhase'
    BY <1>1, <2>1, <2>2, <2>3, PhaseReached
  <2>5. QED
    BY <2>1, <2>4 DEF Steady
<1>5. ~EngageContinues(n)
  BY <1>2 DEF Publishing, EngageContinues, EngageClear, EngageGet, EngageTimer, EngageState
<1>6. CASE Transmit(n) \/ TxComplete(n) \/ Timeout(n)
  <2>1. Publishing(i, t, p)'
    BY <1>2, <1>6, EntryTransmitted, EntryCompleted, ReceivingEnds
  <2>2. rounds' = rounds /\ remote' = remote
    BY <1>6 DEF Transmit, TxComplete, Timeout, node_vars, aux_vars
  <2>3. InPhase'
    BY <1>1, <2>1, <2>2, PhaseReached
  <2>4. QED
    BY <2>2, <2>3 DEF Steady
<1>7. ASSUME NEW s \in Node \ {n}, Receive(n, s)
      PROVE  InPhase' /\ \A m \in Node : IsInjective(remote'[m])
  <2>1. ReceiveStatus(n, s) \/ IgnoreStatus(n, s)
    BY <1>2, <1>7, OnlyEntriesWhenPublishing DEF Receive
  <2>2. rounds' = rounds /\ (IgnoreStatus(n, s) => remote' = remote)
    BY <2>1 DEF ReceiveStatus, IgnoreStatus, node_vars, aux_vars
  <2>3. Publishing(i, t, p)' /\ \A m \in Node : IsInjective(remote'[m])
    BY <1>2, <2>1, <2>2, EntryHandled, EntryIgnored DEF Steady
  <2>4. QED
    BY <1>1, <2>2, <2>3, PhaseReached
<1>8. QED
  BY <1>3, <1>4, <1>5, <1>6, <1>7, NoClearNorRestart DEF Acts

LEMMA InitProcInv ==
  ASSUME OneAtATime, Init
  PROVE  ProcInv
<1>1. Steady
  BY EmptyTable DEF Init, Steady
<1>2. Txn = 0
  <2>1. \A q \in Round : q[1] \in Node /\ q[2] \in Nat \ {0}
    BY RtbAssumptionUsed DEF Round
  <2>2. Done = {}
    BY <2>1 DEF Done, Init
  <2>3. QED
    BY <2>2, FS_EmptySet DEF Txn
<1>3. Resting(0)
  BY DEF Init, Resting, KnownAmong
<1>4. QED
  BY <1>1, <1>2, <1>3 DEF ProcInv, InPhase

LEMMA ProcStepKeeps ==
  ASSUME OneAtATime, RtbInv, TypeInv, ProcInv, [Next]_vars
  PROVE  ProcInv'
<1>1. CASE UNCHANGED vars
  <2>1. InPhase'
    BY <1>1, PhaseUntouched DEF ProcInv
  <2>2. Steady'
    BY <1>1 DEF ProcInv, Steady, vars, node_vars, aux_vars
  <2>3. QED
    BY <2>1, <2>2 DEF ProcInv
<1>2. CASE Next
  <2>1. PICK n \in Node : Acts(n)
    BY <1>2 DEF Next, Acts
  <2>2. InPhase' /\ \A m \in Node : IsInjective(remote'[m])
    BY <2>1, RestingStep, EngagingStep, GettingStep, PublishingStep DEF ProcInv, InPhase
  <2>3. Steady'
    BY <2>1, <2>2, SteadyStays DEF ProcInv
  <2>4. QED
    BY <2>2, <2>3 DEF ProcInv
<1>3. QED
  BY <1>1, <1>2

LEMMA TypeInvariance == Spec => [](RtbInv /\ TypeInv)
  BY RtbInvariance, InitTypeInv, TypeStepKeeps, PTL DEF Spec

LEMMA ProcInvariance ==
  ASSUME OneAtATime
  PROVE  Spec => [](RtbInv /\ ProcInv)
<1>1. Init => ProcInv
  BY InitProcInv
<1>2. RtbInv /\ TypeInv /\ ProcInv /\ [Next]_vars => ProcInv'
  BY ProcStepKeeps
<1>3. QED
  BY <1>1, <1>2, TypeInvariance, PTL DEF Spec

\* No entry is stored twice, however many procedures follow each other: the
\* entries of the initiator, and the whole table of an initiator, are removed
\* before new ones are stored (app_luos_rtb_model.c).
THEOREM NoDuplicatesStored ==
  ASSUME OneAtATime
  PROVE  Spec => []NoDuplicates
<1>1. ProcInv => NoDuplicates
  BY DEF ProcInv, Steady, NoDuplicates, IsInjective
<1>2. QED
  BY <1>1, ProcInvariance, PTL

\* Once nothing goes on, an initiator knows the containers of all the other
\* networks and they know those of its network, however many nodes there are,
\* whatever order the messages of different nodes are handled in, and as long
\* as the tables have room for all the entries (README.md, "Routing table
\* extension"). The reception timer of a node that replied may expire at any
\* time: that node, and no other, may miss entries of the procedure.
THEOREM TablesGetExtended ==
  ASSUME OneAtATime
  PROVE  Spec => []TablesExtended
<1>1. RtbInv /\ ProcInv => TablesExtended
  <2>. SUFFICES ASSUME RtbInv, ProcInv, Quiet, AllIdle
                PROVE  KnownAmong(Node)
    BY DEF TablesExtended, Informed, KnownAmong, Told, HoldsAll, Knows
  <2>1. CASE Resting(Txn)
    BY <2>1 DEF Resting
  <2>2. ASSUME NEW i \in Node, Engaging(i, Txn, RoundOf(i)) PROVE FALSE
    BY <2>2 DEF Engaging, Quiet
  <2>3. ASSUME NEW i \in Node, Getting(i, Txn, RoundOf(i)) PROVE FALSE
    BY <2>3 DEF Getting, AllIdle
  <2>4. ASSUME NEW i \in Node, Publishing(i, Txn, RoundOf(i)) PROVE KnownAmong(Node)
    BY <2>4, PublishingEnds DEF Resting
  <2>5. QED
    BY <2>1, <2>2, <2>3, <2>4 DEF ProcInv, InPhase
<1>2. QED
  BY <1>1, ProcInvariance, PTL

-----------------------------------------------------------------------------
\* Whatever is lost or reset and whenever procedures overlap, as long as there
\* are fewer of them than identifiers: the messages of a past procedure of a
\* node have a lower transaction than the node, until it is reset.

Timely(m) ==
  LET i == m.round[1] IN
  /\ m.txn <= Txn
  /\ restarts[i] = 0 =>
       /\ m.txn <= curr_txn[i] /\ m.round[2] <= rounds[i]
       /\ m.round[2] # rounds[i] => m.txn < curr_txn[i]

\* A reply goes to the node that engaged the procedure.
Addressed(n, m) ==
  /\ m.cmd = "GET" => m.round[1] = n
  /\ m.cmd = "STATUS_REPLY" => m.to = {m.round[1]}

TimelyOf(n) == {m \in MessagesOf(n) : Timely(m) /\ Addressed(n, m)}

TimelyInv ==
  /\ restarts \in [Node -> Nat]
  /\ \A n \in Node : curr_txn[n] <= Txn
  /\ \A n \in Node : out[n] \in Seq(TimelyOf(n))
  /\ \A n, d \in Node : chan[n][d] \in Seq(TimelyOf(n))

LEMMA InitTimely == Init => TimelyInv
<1>. SUFFICES ASSUME Init PROVE TimelyInv
  OBVIOUS
<1>1. \A S : <<>> \in Seq(S)
  BY EmptySeq
<1>2. Done = {}
  <2>1. ASSUME NEW p \in Round PROVE ~(p[2] <= rounds[p[1]])
    <3>1. PICK n \in Node : p \in {n} \X (1 .. MaxRounds[n])
      BY DEF Round
    <3>2. p[1] \in Node /\ p[2] \in Nat /\ p[2] >= 1
      BY <3>1, RtbAssumptionUsed
    <3>3. rounds[p[1]] = 0
      BY <3>2 DEF Init
    <3>4. QED
      BY <3>2, <3>3
  <2>2. QED
    BY <2>1 DEF Done
<1>3. Txn = 0
  BY <1>2, FS_EmptySet DEF Txn
<1>4. QED
  BY <1>1, <1>3 DEF Init, TimelyInv

\* The fields of a message that was prepared
LEMMA MessageFields ==
  ASSUME NEW n \in Node, NEW m \in MessagesOf(n)
  PROVE  /\ m.txn \in Nat /\ m.round \in Round /\ m.round[1] \in Node /\ m.round[2] \in Nat
         /\ m.round = <<m.round[1], m.round[2]>>
<1>1. m.txn \in 0 .. TxnModulo - 1 /\ m.round \in Round
  BY DEF MessagesOf, Messages
<1>2. PICK i \in Node : m.round \in {i} \X (1 .. MaxRounds[i])
  BY <1>1 DEF Round
<1>3. QED
  BY <1>1, <1>2, RtbAssumptionUsed

\* Transactions of the nodes and numbers of procedures only grow, and a new
\* procedure has a new transaction, unless the node is reset.
LEMMA TransactionsGrow ==
  ASSUME FewProcedures, RtbInv, TypeInv, TimelyInv, NEW n \in Node, Acts(n)
  PROVE  /\ Txn' \in Nat /\ Txn <= Txn'
         /\ \A i \in Node : curr_txn'[i] <= Txn'
         /\ \A i \in Node : restarts'[i] = 0 =>
              /\ restarts[i] = 0 /\ curr_txn[i] <= curr_txn'[i]
              /\ \/ rounds'[i] = rounds[i]
                 \/ rounds'[i] = rounds[i] + 1 /\ curr_txn[i] < curr_txn'[i]
         /\ restarts' \in [Node -> Nat]
<1>1. /\ Txn \in Nat /\ curr_txn \in [Node -> Nat] /\ rounds \in [Node -> Nat]
      /\ restarts \in [Node -> Nat] /\ \A i \in Node : curr_txn[i] <= Txn
  BY DoneIsFinite DEF RtbInv, Shape, TimelyInv
<1>2. ASSUME rounds' = rounds PROVE Txn' = Txn
  BY <1>2 DEF Txn, Done
<1>3. CASE UNCHANGED <<curr_txn, rounds, restarts>>
  BY <1>1, <1>2, <1>3
<1>4. CASE EngageGet(n)
  <2>1. Txn' = Txn + 1 /\ (Txn + 1) % TxnModulo = Txn + 1
    BY <1>4, OneMoreDone
  <2>2. curr_txn' = [curr_txn EXCEPT ![n] = NextTransaction(n)] /\ UNCHANGED restarts
        /\ rounds' = [rounds EXCEPT ![n] = rounds[n] + 1]
    BY <1>4 DEF EngageGet
  <2>3. Txn + 1 < TxnModulo /\ TxnModulo \in Nat \ {0}
    BY <1>1, <2>1, RtbAssumptionUsed
  <2>4. NextTransaction(n) = curr_txn[n] + 1
    <3>1. curr_txn[n] + 1 \in 0 .. TxnModulo - 1
      BY <1>1, <2>3
    <3>2. \A x \in 0 .. TxnModulo - 1 : x % TxnModulo = x
      BY <2>3
    <3>3. QED
      BY <3>1, <3>2 DEF NextTransaction
  <2>5. QED
    BY <1>1, <2>1, <2>2, <2>4
<1>5. ASSUME NEW s \in Node, ReceiveGet(n, s)
      PROVE  /\ UNCHANGED <<rounds, restarts>>
             /\ curr_txn' = [curr_txn EXCEPT ![n] = Received(n, s).txn]
             /\ Received(n, s).txn \in Nat
             /\ Received(n, s).txn > curr_txn[n] /\ Received(n, s).txn <= Txn
  <2>1. chan[s][n] \in Seq(TimelyOf(s)) /\ chan[s][n] # <<>>
    BY <1>5 DEF TimelyInv, ReceiveGet, Receives
  <2>2. Received(n, s) \in TimelyOf(s)
    BY <2>1, HeadTailProperties DEF Received
  <2>3. Received(n, s).txn <= Txn /\ Received(n, s).txn \in Nat
    BY <2>2, MessageFields DEF TimelyOf, Timely
  <2>4. QED
    BY <1>5, <2>3 DEF ReceiveGet, IsNewTransaction
<1>6. ASSUME NEW s \in Node, ReceiveGet(n, s)
      PROVE  /\ Txn' = Txn
             /\ \A i \in Node : curr_txn'[i] <= Txn /\ curr_txn[i] <= curr_txn'[i]
  BY <1>1, <1>2, <1>5, <1>6
<1>7. CASE Restart(n)
  <2>1. /\ UNCHANGED rounds /\ curr_txn' = [curr_txn EXCEPT ![n] = 0]
        /\ restarts' = [restarts EXCEPT ![n] = restarts[n] + 1]
    BY <1>7 DEF Restart
  <2>2. restarts'[n] # 0 /\ \A i \in Node \ {n} : restarts'[i] = restarts[i] /\ curr_txn'[i] = curr_txn[i]
    BY <1>1, <2>1
  <2>3. restarts' \in [Node -> Nat] /\ curr_txn'[n] = 0
    BY <1>1, <2>1
  <2>4. QED
    BY <1>1, <1>2, <2>1, <2>2, <2>3
<1>8. ASSUME NEW s \in Node, ReceiveGet(n, s)
      PROVE  UNCHANGED <<rounds, restarts>>
  BY <1>5, <1>8
<1>9. \/ UNCHANGED <<curr_txn, rounds, restarts>> \/ EngageGet(n) \/ Restart(n)
      \/ \E s \in Node : ReceiveGet(n, s)
  BY DEF Acts, Engage, EngageContinues, EngageClear, EngageTimer, EngageState, Transmit,
         TxComplete, Receive, IgnoreGet, ReceiveStatus, IgnoreStatus, Timeout, Fill,
         ClearTables, node_vars, aux_vars
<1>10. CASE \E s \in Node : ReceiveGet(n, s)
  <2>1. PICK s \in Node : ReceiveGet(n, s)
    BY <1>10
  <2>2. QED
    BY <1>1, <1>6, <1>8, <2>1
<1>11. QED
  BY <1>3, <1>4, <1>7, <1>9, <1>10

LEMMA TimelyStays ==
  ASSUME FewProcedures, RtbInv, TypeInv, TimelyInv, NEW n \in Node, Acts(n), NEW s \in Node,
         NEW m \in TimelyOf(s)
  PROVE  m \in TimelyOf(s)'
<1>1. /\ m \in MessagesOf(s) /\ Addressed(s, m) /\ Timely(m)
  BY DEF TimelyOf
<1>2. m.txn \in Nat /\ m.round[1] \in Node /\ m.round[2] \in Nat
  BY <1>1, MessageFields
<1>. DEFINE i == m.round[1]
<1>3. /\ Txn' \in Nat /\ Txn <= Txn'
      /\ restarts'[i] = 0 =>
              /\ restarts[i] = 0 /\ curr_txn[i] <= curr_txn'[i]
              /\ \/ rounds'[i] = rounds[i]
                 \/ rounds'[i] = rounds[i] + 1 /\ curr_txn[i] < curr_txn'[i]
  BY <1>2, TransactionsGrow
<1>4. Txn \in Nat /\ curr_txn[i] \in Nat /\ rounds[i] \in Nat /\ curr_txn'[i] \in Nat
  <2>1. curr_txn'[i] \in 0 .. TxnModulo - 1
    BY <1>2, TransactionStaysTyped
  <2>2. Txn \in Nat
    BY DoneIsFinite
  <2>3. curr_txn[i] \in Nat /\ rounds[i] \in Nat
    BY <1>2 DEF RtbInv, Shape
  <2>4. QED
    BY <2>1, <2>2, <2>3
<1>5. Timely(m)'
  BY <1>1, <1>2, <1>3, <1>4 DEF Timely
<1>6. QED
  BY <1>1, <1>5 DEF TimelyOf, Addressed, MessagesOf

\* What a node serves or publishes
LEMMA EntriesAreTimely ==
  ASSUME Shape, NEW n \in Node, NEW cmd \in {"STATUS", "STATUS_REPLY"},
         NEW to \in SUBSET Node, NEW txn \in 0 .. TxnModulo - 1, NEW round \in Round,
         cmd = "STATUS_REPLY" => to = {round[1]},
         txn <= Txn,
         restarts[round[1]] = 0 =>
           /\ txn <= curr_txn[round[1]] /\ round[2] <= rounds[round[1]]
           /\ round[2] # rounds[round[1]] => txn < curr_txn[round[1]]
  PROVE  Entries(n, cmd, to, txn, round) \in Seq(TimelyOf(n))
<1>1. Entries(n, cmd, to, txn, round) \in Seq(MessagesOf(n))
  BY EntriesAreTyped
<1>2. ASSUME NEW k \in 1 .. Len(Entries(n, cmd, to, txn, round))
      PROVE  Entries(n, cmd, to, txn, round)[k] \in TimelyOf(n)
  <2>. DEFINE m == Entries(n, cmd, to, txn, round)[k]
  <2>1. m \in MessagesOf(n)
    BY <1>1
  <2>2. m.cmd = cmd /\ m.to = to /\ m.txn = txn /\ m.round = round
    <3>1. local_entries[n] \in Nat
      BY DEF Shape
    <3>2. k \in 1 .. local_entries[n]
      BY <3>1 DEF Entries
    <3>3. QED
      BY <3>2 DEF Entries
  <2>. HIDE DEF m
  <2>3. Timely(m) /\ Addressed(n, m)
    BY <2>2 DEF Timely, Addressed
  <2>4. QED
    BY <2>1, <2>3 DEF TimelyOf, m
<1>. HIDE DEF Entries
<1>3. QED
  BY <1>1, <1>2

LEMMA QueuesStayTimely ==
  ASSUME FewProcedures, RtbInv, TypeInv, TimelyInv, NEW n \in Node, Acts(n), NEW m \in Node
  PROVE  out'[m] \in Seq(TimelyOf(m)')
<1>0. TimelyOf(m) \subseteq TimelyOf(m)' /\ TimelyOf(n) \subseteq TimelyOf(n)'
  BY TimelyStays
<1>1. out[m] \in Seq(TimelyOf(m)) /\ out[n] \in Seq(TimelyOf(n))
  BY DEF TimelyInv
<1>2. out[m] \in Seq(TimelyOf(m)') /\ out[n] \in Seq(TimelyOf(n)')
  BY <1>0, <1>1
<1>3. CASE out' = out
  BY <1>2, <1>3
<1>4. ASSUME NEW q \in Seq(TimelyOf(n)'), out' = [out EXCEPT ![n] = q]
      PROVE  out'[m] \in Seq(TimelyOf(m)')
  BY <1>2, <1>4 DEF RtbInv, Shape
<1>5. CASE EngageGet(n)
  <2>1. Get(n) \in TimelyOf(n)'
    <3>1. out'[n] \in Seq(MessagesOf(n)) /\ out' = [out EXCEPT ![n] = Append(out[n], Get(n))]
      <4>1. \A k \in Node : curr_txn'[k] \in 0 .. TxnModulo - 1 /\ RoundsFit(k)'
        BY TransactionStaysTyped, RoundsStayFit
      <4>2. QED
        BY <1>5, <4>1, QueuesStayTyped DEF EngageGet
    <3>2. out'[n] = Append(out[n], Get(n)) /\ out[n] \in Seq(MessagesOf(n))
      BY <3>1 DEF RtbInv, Shape, TypeInv
    <3>3. Get(n) \in MessagesOf(n)
      <4>1. Len(out'[n]) = Len(out[n]) + 1 /\ out'[n][Len(out[n]) + 1] = Get(n) /\ Len(out[n]) \in Nat
        BY <3>2
      <4>2. QED
        BY <3>1, <4>1
    <3>4. Get(n).cmd = "GET" /\ Get(n).txn = curr_txn'[n] /\ Get(n).round = <<n, rounds'[n]>>
      BY DEF Get, RoundOf
    <3>0. PICK g : g = Get(n)
      OBVIOUS
    <3>5. curr_txn'[n] <= Txn' /\ curr_txn'[n] \in Int /\ rounds'[n] \in Int
      <4>1. rounds' = [rounds EXCEPT ![n] = rounds[n] + 1] /\ rounds \in [Node -> Nat]
        BY <1>5 DEF EngageGet, RtbInv, Shape
      <4>2. curr_txn'[n] \in 0 .. TxnModulo - 1
        BY TransactionStaysTyped
      <4>3. curr_txn'[n] <= Txn'
        BY TransactionsGrow
      <4>4. QED
        BY <4>1, <4>2, <4>3
    <3>6. g.cmd = "GET" /\ g.txn = curr_txn'[n] /\ g.round[1] = n /\ g.round[2] = rounds'[n]
      BY <3>0, <3>4
    <3>7. Timely(g)' /\ Addressed(n, g)'
      BY <3>5, <3>6 DEF Timely, Addressed
    <3>8. QED
      BY <3>0, <3>3, <3>7 DEF TimelyOf, MessagesOf
  <2>2. Append(out[n], Get(n)) \in Seq(TimelyOf(n)')
    BY <1>2, <2>1, AppendProperties
  <2>3. QED
    BY <1>4, <1>5, <2>2 DEF EngageGet
<1>6. CASE TxComplete(n)
  <2>1. out[n] # <<>>
    BY <1>6 DEF TxComplete, RtbInv, Shape
  <2>2. Tail(out[n]) \in Seq(TimelyOf(n)')
    BY <1>2, <2>1, HeadTailProperties
  <2>3. QED
    BY <1>4, <1>6, <2>2 DEF TxComplete
<1>7. ASSUME NEW s \in Node, ReceiveGet(n, s) PROVE out'[m] \in Seq(TimelyOf(m)')
  <2>. DEFINE msg     == Received(n, s)
              replies == Entries(n, "STATUS_REPLY", {s}, msg.txn, msg.round)
  <2>1. chan[s][n] # <<>> /\ chan[s][n] \in Seq(TimelyOf(s)) /\ msg.cmd = "GET"
    BY <1>7 DEF ReceiveGet, Receives, TimelyInv
  <2>2. msg \in TimelyOf(s)
    BY <2>1, HeadTailProperties DEF Received
  <2>3. msg.txn \in 0 .. TxnModulo - 1 /\ msg.round \in Round
    BY <2>1, ReceivedHasType
  <2>. HIDE DEF msg
  <2>4. msg.round[1] = s /\ Timely(msg)
    BY <2>1, <2>2 DEF TimelyOf, Addressed
  <2>5. replies \in Seq(TimelyOf(n))
    <3>1. Shape
      BY DEF RtbInv
    <3>2. /\ msg.txn <= Txn
          /\ restarts[msg.round[1]] = 0 =>
               /\ msg.txn <= curr_txn[msg.round[1]] /\ msg.round[2] <= rounds[msg.round[1]]
               /\ msg.round[2] # rounds[msg.round[1]] => msg.txn < curr_txn[msg.round[1]]
      BY <2>4 DEF Timely
    <3>3. QED
      BY <2>3, <2>4, <3>1, <3>2, EntriesAreTimely
  <2>6. out[n] \o replies \in Seq(TimelyOf(n)')
    <3>. HIDE DEF replies
    <3>1. replies \in Seq(TimelyOf(n)')
      BY <1>0, <2>5
    <3>2. QED
      BY <1>2, <3>1, ConcatProperties
  <2>7. QED
    BY <1>4, <1>7, <2>6 DEF ReceiveGet, msg
<1>8. CASE Timeout(n) /\ curr_state[n] = "GETTING"
  <2>. DEFINE entries == Entries(n, "STATUS", Node \ {n}, curr_txn[n], RoundOf(n))
  <2>1. rounds[n] > 0 /\ curr_txn[n] \in 0 .. TxnModulo - 1 /\ curr_txn[n] <= Txn
    BY <1>8 DEF TypeInv, RoundsFit, TimelyInv
  <2>2. RoundOf(n) \in Round /\ Node \ {n} \in SUBSET Node
    BY <2>1, RoundIsTyped
  <2>3. RoundOf(n)[1] = n /\ RoundOf(n)[2] = rounds[n] /\ rounds[n] \in Nat
    BY DEF RoundOf, RtbInv, Shape
  <2>4. entries \in Seq(TimelyOf(n))
    <3>1. Shape
      BY DEF RtbInv
    <3>. DEFINE r == RoundOf(n)
    <3>2. /\ curr_txn[n] <= curr_txn[n] /\ rounds[n] <= rounds[n]
      BY <2>1, <2>3
    <3>3. /\ r \in Round
          /\ restarts[r[1]] = 0 =>
               /\ curr_txn[n] <= curr_txn[r[1]] /\ r[2] <= rounds[r[1]]
               /\ r[2] # rounds[r[1]] => curr_txn[n] < curr_txn[r[1]]
      BY <2>2, <2>3, <3>2
    <3>. HIDE DEF r
    <3>4. Entries(n, "STATUS", Node \ {n}, curr_txn[n], r) \in Seq(TimelyOf(n))
      BY <2>1, <2>2, <3>1, <3>3, EntriesAreTimely
    <3>5. QED
      BY <3>4 DEF r
  <2>5. out[n] \o entries \in Seq(TimelyOf(n)')
    <3>. HIDE DEF entries
    <3>1. entries \in Seq(TimelyOf(n)')
      BY <1>0, <2>4
    <3>2. QED
      BY <1>2, <3>1, ConcatProperties
  <2>6. QED
    BY <1>4, <1>8, <2>5 DEF Timeout
<1>9. CASE Restart(n)
  BY <1>4, <1>9, EmptySeq DEF Restart
<1>10. QED
  BY <1>3, <1>5, <1>6, <1>7, <1>8, <1>9
     DEF Acts, Engage, EngageContinues, EngageClear, EngageTimer, EngageState, Transmit,
         Receive, IgnoreGet, ReceiveStatus, IgnoreStatus, Timeout, Fill, ClearTables, mesh_vars

LEMMA ChannelsStayTimely ==
  ASSUME FewProcedures, RtbInv, TypeInv, TimelyInv, NEW n \in Node, Acts(n),
         NEW s \in Node, NEW d \in Node
  PROVE  chan'[s][d] \in Seq(TimelyOf(s)')
<1>0. TimelyOf(s) \subseteq TimelyOf(s)' /\ TimelyOf(n) \subseteq TimelyOf(n)'
  BY TimelyStays
<1>1. chan[s][d] \in Seq(TimelyOf(s)') /\ chan \in [Node -> [Node -> Seq(Msgs)]]
  <2>1. chan[s][d] \in Seq(TimelyOf(s))
    BY DEF TimelyInv
  <2>2. chan[s][d] \in Seq(TimelyOf(s)')
    BY <1>0, <2>1
  <2>3. QED
    BY <2>2 DEF RtbInv, Shape
<1>2. CASE chan' = chan
  BY <1>1, <1>2
<1>3. CASE Transmit(n)
  <2>. DEFINE msg == Head(out[n])
  <2>1. msg \in TimelyOf(n)'
    <3>1. out[n] # <<>> /\ out[n] \in Seq(TimelyOf(n))
      BY <1>3 DEF Transmit, TimelyInv
    <3>2. msg \in TimelyOf(n)
      BY <3>1, HeadTailProperties
    <3>3. QED
      BY <1>0, <3>2
  <2>2. PICK lost \in SUBSET msg.to :
          chan' = [chan EXCEPT ![n] = [e \in Node |-> IF e \in msg.to \ lost
                                                      THEN Append(@[e], msg) ELSE @[e]]]
    BY <1>3 DEF Transmit
  <2>. HIDE DEF msg
  <2>3. \/ chan'[s][d] = chan[s][d]
        \/ s = n /\ chan'[s][d] = Append(chan[s][d], msg)
    BY <1>1, <2>2
  <2>4. CASE s = n /\ chan'[s][d] = Append(chan[s][d], msg)
    BY <1>1, <2>1, <2>4, AppendProperties
  <2>5. QED
    BY <1>1, <2>3, <2>4
<1>4. ASSUME NEW k \in Node, chan[k][n] # <<>>, Consume(n, k)
      PROVE  chan'[s][d] \in Seq(TimelyOf(s)')
  <2>1. \/ chan'[s][d] = chan[s][d]
        \/ s = k /\ d = n /\ chan'[s][d] = Tail(chan[s][d])
    BY <1>4, ConsumeEffect
  <2>2. CASE s = k /\ d = n /\ chan'[s][d] = Tail(chan[s][d])
    BY <1>1, <1>4, <2>2, HeadTailProperties
  <2>3. QED
    BY <1>1, <2>1, <2>2
<1>5. CASE Restart(n)
  BY <1>1, <1>5, EmptySeq DEF Restart
<1>6. ASSUME NEW k \in Node, Receive(n, k) PROVE chan[k][n] # <<>> /\ Consume(n, k)
  BY <1>6 DEF Receive, Receives, ReceiveGet, IgnoreGet, ReceiveStatus, IgnoreStatus
<1>7. QED
  BY <1>2, <1>3, <1>4, <1>5, <1>6
     DEF Acts, Engage, EngageContinues, EngageClear, EngageGet, EngageTimer, EngageState,
         TxComplete, Timeout, Fill, ClearTables, mesh_vars

LEMMA TimelyStepKeeps ==
  ASSUME FewProcedures
  PROVE  RtbInv /\ TypeInv /\ TimelyInv /\ [Next]_vars => TimelyInv'
<1>. SUFFICES ASSUME RtbInv, TypeInv, TimelyInv, [Next]_vars
              PROVE  TimelyInv'
  OBVIOUS
<1>1. CASE UNCHANGED vars
  BY <1>1, ZenonT(30) DEF vars, node_vars, mesh_vars, aux_vars, TimelyInv, TimelyOf, Timely, Addressed,
              MessagesOf, Txn, Done
<1>2. CASE Next
  <2>1. PICK n \in Node : Acts(n)
    BY <1>2 DEF Next, Acts
  <2>2. restarts' \in [Node -> Nat] /\ \A m \in Node : curr_txn'[m] <= Txn'
    BY <2>1, TransactionsGrow
  <2>3. \A m \in Node : out'[m] \in Seq(TimelyOf(m)')
    BY <2>1, QueuesStayTimely
  <2>4. \A s, d \in Node : chan'[s][d] \in Seq(TimelyOf(s)')
    BY <2>1, ChannelsStayTimely
  <2>5. QED
    BY <2>2, <2>3, <2>4 DEF TimelyInv
<1>3. QED
  BY <1>1, <1>2

\* A node that was not reset stores only replies to the last GET it sent,
\* whatever is lost, however late replies come and whatever the others engage
\* (luos_rtb_model_status_cb), as long as no identifier wraps.
THEOREM RepliesStayCurrent ==
  ASSUME FewProcedures
  PROVE  Spec => RepliesAreCurrent
<1>1. ASSUME RtbInv, TypeInv, TimelyInv, NEW n \in Node, NEW s \in Node \ {n},
             StoresReply(n, s), restarts[n] = 0
      PROVE  Received(n, s).round = RoundOf(n)
  <2>. DEFINE m == Received(n, s)
  <2>1. /\ chan[s][n] # <<>> /\ chan[s][n] \in Seq(TimelyOf(s))
        /\ m.cmd = "STATUS_REPLY" /\ m.txn >= curr_txn[n]
    BY <1>1 DEF StoresReply, ReceiveStatus, Receives, AcceptsStatus, TimelyInv
  <2>2. m \in TimelyOf(s) /\ n \in m.to
    <3>1. m \in TimelyOf(s)
      BY <2>1, HeadTailProperties DEF Received
    <3>2. m \in MessagesTo(s, n)
      BY <1>1, <2>1, ReceivedHasType
    <3>3. QED
      BY <3>1, <3>2 DEF MessagesTo
  <2>. HIDE DEF m
  <2>3. /\ m.txn \in Nat /\ m.round[2] \in Nat /\ m.round = <<m.round[1], m.round[2]>>
        /\ m.round[1] = n /\ Timely(m)
    <3>1. m \in MessagesOf(s) /\ Timely(m) /\ Addressed(s, m)
      BY <2>2 DEF TimelyOf
    <3>2. QED
      BY <2>1, <2>2, <3>1, MessageFields DEF Addressed, m
  <2>4. curr_txn[n] \in Nat
    BY <1>1 DEF RtbInv, Shape
  <2>5. m.round[2] = rounds[n]
    BY <1>1, <2>1, <2>3, <2>4 DEF Timely, m
  <2>6. QED
    BY <2>3, <2>5 DEF RoundOf, m
<1>2. RtbInv /\ TypeInv /\ TimelyInv /\ [Next]_vars =>
        [\A n \in Node : \A s \in Node \ {n} :
           StoresReply(n, s) /\ restarts[n] = 0 => Received(n, s).round = RoundOf(n)]_vars
  BY <1>1
<1>3. Spec => []TimelyInv
  <2>1. RtbInv /\ TypeInv /\ TimelyInv /\ [Next]_vars => TimelyInv'
    BY TimelyStepKeeps
  <2>2. QED
    BY <2>1, InitTimely, TypeInvariance, PTL DEF Spec
<1>4. QED
  BY <1>2, <1>3, TypeInvariance, PTL DEF Spec, RepliesAreCurrent
=============================================================================
