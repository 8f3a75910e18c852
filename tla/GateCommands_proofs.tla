------------------------- MODULE GateCommands_proofs -------------------------
(***************************************************************************)
(* The Gate handles commands in order, for any number of buffers, commands *)
(* and updates, if the host has at most as many commands in the Gate as it *)
(* has buffers: what check_json and send_cmds (cmd.c) rely on and never    *)
(* test. Under the same condition the ring is never overrun, also by a     *)
(* command that ends at the wrong moment.                                  *)
(***************************************************************************)
EXTENDS GateCommands, SequenceTheorems, TLAPS

\* What the host sends, byte by byte.
Item == [cmd : Nat, end : BOOLEAN]
Stream(i) == IF i % 2 = 1 THEN Body((i + 1) \div 2) ELSE End(i \div 2)

\* The commands that were received: those done with and those that wait.
Ended == DoneWith + cmd_ready

\* The buffer of the command that is j behind the oldest one
Oldest  == ConcernedTable(current_table, cmd_ready)
Slot(j) == IF Oldest + j >= Buffers THEN Oldest + j - Buffers ELSE Oldest + j

Pcs == {"format", "test", "load", "drop", "store", "detect"}

Types ==
  /\ kinds \in Seq(Kinds)
  /\ line \in Seq(Item) /\ buf \in [0 .. Buffers - 1 -> Seq(Item)]
  /\ current_table \in 0 .. Buffers - 1
  /\ cmd_ready \in 0 .. Buffers /\ reception_index \in Nat
  /\ handled \in Seq(Nat)
  /\ thread \in [pc : Pcs, table : {NotLoaded} \cup 0 .. Buffers - 1,
                 ready : {NotLoaded} \cup 0 .. Buffers, leave : BOOLEAN]

\* The bytes of n commands: of e that were received, r of the next, l on the line
AddUp(e, r, l, n) == 2 * e + r + l = 2 * n

\* The commands in the Gate are the last ones that were sent.
Counted ==
  /\ thread.pc \in {"drop", "store"} => Len(handled) >= 1
  /\ thread.pc \in {"load", "drop", "store"} => cmd_ready >= 1
  /\ Len(kinds) <= DoneWith + MaxAhead
  /\ AddUp(Ended, reception_index, Len(line), Len(kinds))

\* Buffers, what was read of the next command, and the line hold the stream
\* from the oldest command on.
Streamed ==
  /\ \A j \in 0 .. cmd_ready - 1 :
       buf[Slot(j)] = <<Body(DoneWith + j + 1), End(DoneWith + j + 1)>>
  /\ reception_index <= Len(buf[current_table])
  /\ \A i \in 1 .. reception_index : buf[current_table][i] = Stream(2 * Ended + i)
  /\ reception_index > 0 => reception_index % 2 = 1
  /\ \A i \in 1 .. Len(line) : line[i] = Stream(2 * Ended + reception_index + i)

\* What the loop loaded is consistent.
Loaded ==
  /\ thread.pc = "load" =>
       /\ thread.table # NotLoaded /\ thread.ready = NotLoaded => thread.table = current_table
       /\ thread.ready # NotLoaded /\ thread.table = NotLoaded => thread.ready = cmd_ready
       /\ thread.table # NotLoaded /\ thread.ready # NotLoaded
            => ConcernedTable(thread.table, thread.ready) = Oldest
  /\ thread.pc = "store" => thread.ready = cmd_ready

InOrder == \A i \in DOMAIN handled : handled[i] = i

\* The inductive invariant: all this, until a command collides.
GateInv == collided \/ (Types /\ Counted /\ Streamed /\ Loaded /\ InOrder)

Enough == MaxAhead <= Buffers

LEMMA InitGateInv == Init => GateInv
  BY GateAssumption
     DEF Init, GateInv, Types, Counted, Streamed, Loaded, InOrder, DoneWith, Ended, AddUp,
         At, NotLoaded, Pcs

LEMMA StreamAt ==
  ASSUME NEW n \in Nat
  PROVE  Stream(2 * n + 1) = Body(n + 1) /\ Stream(2 * n + 2) = End(n + 1)
<1>1. (2 * n + 1) % 2 = 1 /\ (2 * n + 1 + 1) \div 2 = n + 1
  OBVIOUS
<1>2. (2 * n + 2) % 2 = 0 /\ (2 * n + 2) \div 2 = n + 1
  OBVIOUS
<1>3. QED
  BY <1>1, <1>2 DEF Stream

\* A command that is sent is added to the line.
LEMMA HostSendsKeeps ==
  ASSUME NEW kind \in Kinds, HostSends(kind), GateInv, ~collided'
  PROVE  GateInv'
<1> USE GateAssumption
<1>1. ~collided /\ Types /\ Counted /\ Streamed /\ Loaded /\ InOrder
  BY DEF HostSends, GateInv
<1>2. /\ kinds' = Append(kinds, kind) /\ Len(kinds') = Len(kinds) + 1
      /\ kinds' \in Seq(Kinds)
      /\ line' = line \o <<Body(Len(kinds) + 1), End(Len(kinds) + 1)>>
      /\ UNCHANGED <<buf, current_table, reception_index, cmd_ready, handled, thread>>
  BY <1>1 DEF HostSends, Types, loop_vars
<1>3. /\ line' \in Seq(Item) /\ Len(line') = Len(line) + 2
      /\ \A i \in 1 .. Len(line) : line'[i] = line[i]
      /\ line'[Len(line) + 1] = Body(Len(kinds) + 1) /\ line'[Len(line) + 2] = End(Len(kinds) + 1)
  <2>1. /\ <<Body(Len(kinds) + 1), End(Len(kinds) + 1)>> \in Seq(Item)
        /\ line \in Seq(Item)
    BY <1>1 DEF Types, Body, End, Item
  <2> HIDE DEF Item
  <2>2. QED
    BY <1>2, <2>1
<1>4. Types'
  BY <1>1, <1>2, <1>3 DEF Types
<1>5. DoneWith' = DoneWith /\ Ended' = Ended /\ Oldest' = Oldest
  BY <1>2 DEF DoneWith, Ended, Oldest, ConcernedTable
<1>6. DoneWith \in Nat /\ Ended \in Nat /\ Len(kinds) \in Nat /\ Len(line) \in Nat
  <2>1. DoneWith \in Nat /\ cmd_ready \in Nat
    BY <1>1 DEF Types, Counted, DoneWith
  <2>2. QED
    BY <1>1, <2>1 DEF Types, Ended
<1>7. 2 * Ended + reception_index + Len(line) = 2 * Len(kinds) /\ reception_index \in Nat
  BY <1>1 DEF Counted, AddUp, Types
<1>8. Counted'
  <2>1. Len(kinds') <= DoneWith + MaxAhead
    BY <1>2, <1>6 DEF HostSends
  <2>2. 2 * Ended + reception_index + Len(line') = 2 * Len(kinds')
    BY <1>2, <1>3, <1>6, <1>7
  <2>3. QED
    BY <1>1, <1>2, <1>5, <2>1, <2>2 DEF Counted, AddUp
<1>9. Streamed'
  <2>1. ASSUME NEW i \in 1 .. Len(line')
        PROVE  line'[i] = Stream(2 * Ended + reception_index + i)
    <3>1. CASE i <= Len(line)
      BY <1>1, <1>3, <1>6, <3>1 DEF Streamed
    <3>2. CASE i = Len(line) + 1
      <4>1. 2 * Ended + reception_index + i = 2 * Len(kinds) + 1
        BY <1>6, <1>7, <3>2
      <4>2. QED  BY <1>3, <1>6, <3>2, <4>1, StreamAt
    <3>3. CASE i = Len(line) + 2
      <4>1. 2 * Ended + reception_index + i = 2 * Len(kinds) + 2
        BY <1>6, <1>7, <3>3
      <4>2. QED  BY <1>3, <1>6, <3>3, <4>1, StreamAt
    <3>4. QED  BY <1>3, <1>6, <3>1, <3>2, <3>3
  <2>2. \A j \in 0 .. cmd_ready - 1 : Slot(j)' = Slot(j)
    BY <1>5 DEF Slot
  <2>3. QED
    BY <1>1, <1>2, <1>5, <2>1, <2>2 DEF Streamed
<1>10. Loaded' /\ InOrder'
  BY <1>1, <1>2, <1>5 DEF Loaded, InOrder
<1>11. QED
  BY <1>4, <1>8, <1>9, <1>10 DEF GateInv

\* Bytes that are read move from the line to the buffer.
LEMMA AddUpPart ==
  ASSUME NEW e \in Nat, NEW r \in Nat, NEW l \in Nat, NEW n \in Nat, NEW k \in Nat,
         AddUp(e, r, l, n)
  PROVE  AddUp(e, r + k, l - k, n)
BY DEF AddUp

LEMMA AddUpWhole ==
  ASSUME NEW e \in Nat, NEW r \in Nat, NEW l \in Nat, NEW n \in Nat, NEW k \in Nat,
         AddUp(e, r, l, n), r + k = 2
  PROVE  AddUp(e + 1, 0, l - k, n)
BY DEF AddUp

LEMMA EvenEnds ==
  ASSUME NEW i \in Nat
  PROVE  Stream(i).end <=> i % 2 = 0
BY DEF Stream, Body, End

\* What an interrupt has read, up to k bytes of the line, continues the stream.
LEMMA ReceivedStream ==
  ASSUME Types, Counted, Streamed, NEW k \in 1 .. Len(line)
  PROVE  /\ Received(k) \in Seq(Item) /\ Len(Received(k)) = reception_index + k
         /\ \A i \in 1 .. reception_index + k : Received(k)[i] = Stream(2 * Ended + i)
<1> HIDE DEF Item
<1> DEFINE done == SubSeq(buf[current_table], 1, reception_index)
           new  == SubSeq(line, 1, k)
<1>1. /\ buf[current_table] \in Seq(Item) /\ line \in Seq(Item)
      /\ reception_index \in 0 .. Len(buf[current_table]) /\ Ended \in Int
  <2>1. DoneWith \in Int /\ cmd_ready \in Int
    BY DEF Types, DoneWith
  <2>2. buf[current_table] \in Seq(Item) /\ line \in Seq(Item) /\ reception_index \in Nat
    BY DEF Types
  <2>3. reception_index <= Len(buf[current_table])
    BY DEF Streamed
  <2>4. QED
    BY <2>1, <2>2, <2>3 DEF Ended
<1>2. /\ done \in Seq(Item) /\ Len(done) = reception_index
      /\ \A i \in 1 .. reception_index : done[i] = buf[current_table][i]
  BY <1>1
<1>3. /\ new \in Seq(Item) /\ Len(new) = k
      /\ \A i \in 1 .. k : new[i] = line[i]
  BY <1>1
<1>4. Received(k) = done \o new
  BY DEF Received
<1> HIDE DEF done, new
<1>5. /\ Received(k) \in Seq(Item) /\ Len(Received(k)) = reception_index + k
      /\ \A i \in 1 .. reception_index + k :
           Received(k)[i] = IF i <= reception_index THEN done[i] ELSE new[i - reception_index]
  <2>1. /\ done \o new \in Seq(Item) /\ Len(done \o new) = Len(done) + Len(new)
        /\ \A i \in 1 .. Len(done) + Len(new) :
             (done \o new)[i] = IF i <= Len(done) THEN done[i] ELSE new[i - Len(done)]
    BY <1>2, <1>3, ConcatProperties
  <2>2. QED
    BY <1>2, <1>3, <1>4, <2>1, Zenon
<1>6. ASSUME NEW i \in 1 .. reception_index + k
      PROVE  Received(k)[i] = Stream(2 * Ended + i)
  <2>1. CASE i <= reception_index
    BY <1>1, <1>2, <1>5, <2>1 DEF Streamed
  <2>2. CASE i > reception_index
    <3>1. i - reception_index \in 1 .. k /\ i - reception_index \in 1 .. Len(line)
      BY <1>1, <2>2
    <3>2. 2 * Ended + reception_index + (i - reception_index) = 2 * Ended + i
      BY <1>1
    <3>3. Received(k)[i] = line[i - reception_index]
      BY <1>1, <1>3, <1>5, <2>2, <3>1
    <3>4. QED
      BY <3>1, <3>2, <3>3 DEF Streamed
  <2>3. QED  BY <1>1, <2>1, <2>2
<1>7. QED  BY <1>5, <1>6

\* The current buffer is none of those that wait, and comes behind them.
LEMMA CurrentIsFree ==
  ASSUME Types, cmd_ready < Buffers
  PROVE  /\ Slot(cmd_ready) = current_table
         /\ \A j \in 0 .. cmd_ready - 1 : Slot(j) # current_table /\ Slot(j) \in 0 .. Buffers - 1
BY GateAssumption DEF Types, Slot, Oldest, ConcernedTable

\* There is room for what is on the line.
LEMMA RoomForLine ==
  ASSUME Types, Counted, Enough, line # <<>>
  PROVE  cmd_ready < Buffers
<1>1. /\ DoneWith \in Nat /\ cmd_ready \in Nat /\ reception_index \in Nat
      /\ Len(line) \in Nat \ {0} /\ Len(kinds) \in Nat
      /\ MaxAhead \in Nat /\ Buffers \in Nat
  BY GateAssumption DEF Types, Counted, DoneWith
<1>2. /\ 2 * (DoneWith + cmd_ready) + reception_index + Len(line) = 2 * Len(kinds)
      /\ Len(kinds) <= DoneWith + MaxAhead /\ MaxAhead <= Buffers
  BY DEF Counted, AddUp, Ended, Enough
<1>3. QED  BY <1>1, <1>2

\* Bytes that do not end a command are kept behind those that were read.
LEMMA PartReceived ==
  ASSUME Types, Counted, Streamed, Loaded, InOrder, Enough, ~collided',
         NEW k \in 1 .. Len(line), ~line[k].end,
         line' = SubSeq(line, k + 1, Len(line)),
         buf' = [buf EXCEPT ![current_table] = Received(k)],
         reception_index' = Len(Received(k)),
         UNCHANGED <<kinds, cmd_ready, current_table, handled, thread>>
  PROVE  GateInv'
<1> USE GateAssumption
<1> HIDE DEF Item
<1>1. /\ Received(k) \in Seq(Item) /\ Len(Received(k)) = reception_index + k
      /\ \A i \in 1 .. reception_index + k : Received(k)[i] = Stream(2 * Ended + i)
  BY ReceivedStream
<1>2. DoneWith' = DoneWith /\ Ended' = Ended /\ Oldest' = Oldest
  BY DEF DoneWith, Ended, Oldest, ConcernedTable
<1>3. /\ DoneWith \in Nat /\ cmd_ready \in Nat /\ Ended \in Nat
      /\ reception_index \in Nat /\ Len(line) \in Nat /\ line \in Seq(Item)
      /\ buf \in [0 .. Buffers - 1 -> Seq(Item)] /\ current_table \in 0 .. Buffers - 1
  <2>1. DoneWith \in Nat /\ cmd_ready \in Nat
    BY DEF Types, Counted, DoneWith
  <2>2. QED
    BY <2>1 DEF Types, Ended
<1>4. /\ line' \in Seq(Item) /\ Len(line') = Len(line) - k
      /\ \A i \in 1 .. Len(line') : line'[i] = line[k + i]
  BY <1>3
<1>5. /\ buf' \in [0 .. Buffers - 1 -> Seq(Item)]
      /\ buf'[current_table] = Received(k)
      /\ \A j \in 0 .. Buffers - 1 : j # current_table => buf'[j] = buf[j]
  BY <1>1, <1>3
<1>6. reception_index' = reception_index + k /\ reception_index' \in Nat
  BY <1>1, <1>3
<1>7. Types'
  BY <1>4, <1>5, <1>6 DEF Types
<1>8. Counted'
  <2>1. AddUp(Ended, reception_index, Len(line), Len(kinds)) /\ Len(kinds) <= DoneWith + MaxAhead
    BY DEF Counted
  <2>2. AddUp(Ended, reception_index', Len(line'), Len(kinds))
    <3>1. /\ Ended \in Nat /\ reception_index \in Nat /\ Len(line) \in Nat
          /\ Len(kinds) \in Nat /\ k \in Nat
      BY <1>3 DEF Types
    <3>2. AddUp(Ended, reception_index + k, Len(line) - k, Len(kinds))
      BY <2>1, <3>1, AddUpPart, Zenon
    <3>3. QED
      BY <1>4, <1>6, <3>2, Zenon
  <2>3. QED
    BY <1>2, <2>1, <2>2 DEF Counted
<1>9. Streamed'
  <2>1. line # <<>> /\ cmd_ready < Buffers
    BY <1>3, RoomForLine
  <2>2. ASSUME NEW j \in 0 .. cmd_ready - 1
        PROVE  Slot(j)' = Slot(j) /\ buf'[Slot(j)] = buf[Slot(j)]
    BY <1>2, <1>5, <2>1, CurrentIsFree DEF Slot
  <2>3. reception_index' % 2 = 1
    <3>1. line[k] = Stream(2 * Ended + reception_index + k)
      BY DEF Streamed
    <3>2. (2 * Ended + reception_index + k) % 2 # 0 /\ 2 * Ended + reception_index + k \in Nat
      BY <1>3, <3>1, EvenEnds
    <3>3. QED
      BY <1>3, <1>6, <3>2
  <2>4. ASSUME NEW i \in 1 .. Len(line')
        PROVE  line'[i] = Stream(2 * Ended + reception_index' + i)
    <3>1. line'[i] = line[k + i] /\ k + i \in 1 .. Len(line)
      BY <1>3, <1>4
    <3>2. line[k + i] = Stream(2 * Ended + reception_index + (k + i))
      BY <3>1 DEF Streamed
    <3>3. 2 * Ended + reception_index + (k + i) = 2 * Ended + reception_index' + i
      BY <1>3, <1>4, <1>6
    <3>4. QED  BY <3>1, <3>2, <3>3
  <2>5. \A j \in 0 .. cmd_ready - 1 :
          buf'[Slot(j)'] = <<Body(DoneWith + j + 1), End(DoneWith + j + 1)>>
    BY <2>2 DEF Streamed
  <2>6. /\ reception_index' <= Len(buf'[current_table])
        /\ \A i \in 1 .. reception_index' : buf'[current_table][i] = Stream(2 * Ended + i)
    BY <1>1, <1>3, <1>5, <1>6
  <2>7. QED
    BY <1>2, <2>3, <2>4, <2>5, <2>6 DEF Streamed
<1>10. Loaded' /\ InOrder'
  BY <1>2 DEF Loaded, InOrder
<1>11. QED
  BY <1>7, <1>8, <1>9, <1>10 DEF GateInv

\* Until a command collides, one that ends has the buffer to itself.
LEMMA WholeReceived ==
  ASSUME Types, Counted, Streamed, Loaded, InOrder, Enough, ~collided',
         NEW k \in 1 .. Len(line), line[k].end, ~Collides(k),
         line' = SubSeq(line, k + 1, Len(line)),
         buf' = [buf EXCEPT ![current_table] = Received(k)],
         cmd_ready' = cmd_ready + 1, current_table' = NextTable, reception_index' = 0,
         UNCHANGED <<kinds, handled, thread>>
  PROVE  GateInv'
<1> USE GateAssumption
<1> HIDE DEF Item
<1>1. /\ Received(k) \in Seq(Item) /\ Len(Received(k)) = reception_index + k
      /\ \A i \in 1 .. reception_index + k : Received(k)[i] = Stream(2 * Ended + i)
  BY ReceivedStream
<1>2. /\ DoneWith \in Nat /\ cmd_ready \in Nat /\ Ended \in Nat
      /\ reception_index \in Nat /\ Len(line) \in Nat /\ line \in Seq(Item)
      /\ buf \in [0 .. Buffers - 1 -> Seq(Item)] /\ current_table \in 0 .. Buffers - 1
  <2>1. DoneWith \in Nat /\ cmd_ready \in Nat
    BY DEF Types, Counted, DoneWith
  <2>2. QED
    BY <2>1 DEF Types, Ended
<1>3. line # <<>> /\ cmd_ready < Buffers
  BY <1>2, RoomForLine
<1>4. reception_index + k = 2
  <2>1. line[k] = Stream(2 * Ended + reception_index + k)
    BY DEF Streamed
  <2>2. (2 * Ended + reception_index + k) % 2 = 0 /\ 2 * Ended + reception_index + k \in Nat
    BY <1>2, <2>1, EvenEnds
  <2>3. reception_index + k <= 2
    BY <1>1, <1>2 DEF Collides
  <2>4. k \in Nat \ {0}
    BY <1>2
  <2>5. reception_index + k \in {1, 2}
    BY <1>2, <2>3, <2>4
  <2>6. CASE reception_index + k = 1
    <3>1. 2 * Ended + reception_index + k = 2 * Ended + 1
      BY <1>2, <2>4, <2>6
    <3>2. (2 * Ended + 1) % 2 = 1
      BY <1>2
    <3>3. QED
      BY <2>2, <3>1, <3>2
  <2>7. QED
    BY <2>5, <2>6
<1>5. Received(k) = <<Body(Ended + 1), End(Ended + 1)>>
  <2>1. Received(k)[1] = Body(Ended + 1) /\ Received(k)[2] = End(Ended + 1)
    BY <1>1, <1>2, <1>4, StreamAt
  <2>2. QED
    BY <1>1, <1>4, <2>1
<1>6. DoneWith' = DoneWith /\ Ended' = Ended + 1
  <2>1. DoneWith' = DoneWith
    BY DEF DoneWith
  <2>2. QED
    BY <1>2, <2>1 DEF Ended
<1>7. Oldest' = Oldest /\ current_table' \in 0 .. Buffers - 1
  BY <1>2, <1>3 DEF Oldest, ConcernedTable, NextTable
<1>8. /\ line' \in Seq(Item) /\ Len(line') = Len(line) - k
      /\ \A i \in 1 .. Len(line') : line'[i] = line[k + i]
  BY <1>2
<1>9. /\ buf' \in [0 .. Buffers - 1 -> Seq(Item)]
      /\ buf'[current_table] = Received(k)
      /\ \A j \in 0 .. Buffers - 1 : j # current_table => buf'[j] = buf[j]
  BY <1>1, <1>2
<1>10. Types'
  BY <1>2, <1>3, <1>7, <1>8, <1>9 DEF Types
<1>11. Counted'
  <2>1. /\ AddUp(Ended, reception_index, Len(line), Len(kinds))
        /\ Len(kinds) <= DoneWith + MaxAhead
    BY DEF Counted
  <2>2. AddUp(Ended', reception_index', Len(line'), Len(kinds))
    <3>1. /\ Ended \in Nat /\ reception_index \in Nat /\ Len(line) \in Nat
          /\ Len(kinds) \in Nat /\ k \in Nat
      BY <1>2 DEF Types
    <3>2. AddUp(Ended + 1, 0, Len(line) - k, Len(kinds))
      BY <1>4, <2>1, <3>1, AddUpWhole, Zenon
    <3>3. QED
      BY <1>6, <1>8, <3>2, Zenon
  <2>3. cmd_ready' >= 1
    BY <1>2
  <2>4. QED
    BY <1>6, <2>1, <2>2, <2>3 DEF Counted
<1>12. Streamed'
  <2>1. ASSUME NEW j \in 0 .. cmd_ready' - 1
        PROVE  buf'[Slot(j)'] = <<Body(DoneWith + j + 1), End(DoneWith + j + 1)>>
    <3>1. Slot(j)' = Slot(j)
      BY <1>7 DEF Slot
    <3>2. CASE j < cmd_ready
      <4>1. j \in 0 .. cmd_ready - 1
        BY <1>2, <3>2
      <4>2. buf'[Slot(j)] = buf[Slot(j)]
        BY <1>3, <1>9, <4>1, CurrentIsFree
      <4>3. QED  BY <3>1, <4>1, <4>2 DEF Streamed
    <3>3. CASE j = cmd_ready
      <4>1. Slot(j) = current_table
        BY <1>3, <3>3, CurrentIsFree
      <4>2. DoneWith + j + 1 = Ended + 1
        BY <1>2, <3>3 DEF Ended
      <4>3. QED  BY <1>5, <1>9, <3>1, <4>1, <4>2
    <3>4. QED  BY <1>2, <3>2, <3>3
  <2>2. ASSUME NEW i \in 1 .. Len(line')
        PROVE  line'[i] = Stream(2 * Ended' + reception_index' + i)
    <3>1. line'[i] = line[k + i] /\ k + i \in 1 .. Len(line)
      BY <1>2, <1>8
    <3>2. line[k + i] = Stream(2 * Ended + reception_index + (k + i))
      BY <3>1 DEF Streamed
    <3>3. 2 * Ended + reception_index + (k + i) = 2 * Ended' + reception_index' + i
      <4>1. k \in Nat /\ i \in Nat
        BY <1>2, <1>8
      <4>2. QED
        BY <1>2, <1>4, <1>6, <4>1
    <3>4. QED  BY <3>1, <3>2, <3>3
  <2>3. /\ reception_index' <= Len(buf'[current_table'])
        /\ \A i \in 1 .. reception_index' : buf'[current_table'][i] = Stream(2 * Ended' + i)
    BY <1>7, <1>9
  <2>4. ~(reception_index' > 0)
    OBVIOUS
  <2>5. QED
    BY <1>6, <2>1, <2>2, <2>3, <2>4 DEF Streamed
<1>13. Loaded' /\ InOrder'
  <2>1. thread \in [pc : Pcs, table : {NotLoaded} \cup 0 .. Buffers - 1,
                    ready : {NotLoaded} \cup 0 .. Buffers, leave : BOOLEAN]
    BY DEF Types
  <2>2. thread.pc # "store"
    BY DEF Collides
  <2>3. thread.pc = "load" => \/ thread.table = NotLoaded /\ thread.ready = NotLoaded
                              \/ thread.table # NotLoaded /\ thread.ready # NotLoaded
    BY DEF Collides
  <2>4. QED
    BY <1>7, <2>2, <2>3 DEF Loaded, InOrder
<1>14. QED
  BY <1>10, <1>11, <1>12, <1>13 DEF GateInv

LEMMA ReceiveDataKeeps ==
  ASSUME GateInv, Enough, ReceiveData, ~collided'
  PROVE  GateInv'
<1>1. PICK k \in DOMAIN line :
        /\ line' = SubSeq(line, k + 1, Len(line))
        /\ buf' = [buf EXCEPT ![current_table] = Received(k)]
        /\ IF line[k].end
           THEN /\ cmd_ready' = cmd_ready + 1
                /\ current_table' = NextTable
                /\ reception_index' = 0
           ELSE /\ reception_index' = Len(Received(k))
                /\ UNCHANGED <<cmd_ready, current_table>>
        /\ collided' = (collided \/ Collides(k))
        /\ UNCHANGED <<kinds, loop_vars, thread>>
  BY DEF ReceiveData
<1>2. ~collided /\ ~Collides(k) /\ UNCHANGED <<kinds, handled, thread>>
  BY <1>1 DEF loop_vars
<1>3. Types /\ Counted /\ Streamed /\ Loaded /\ InOrder
  BY <1>2 DEF GateInv
<1>4. k \in 1 .. Len(line)
  BY <1>3 DEF Types
<1>5. CASE line[k].end
  BY <1>1, <1>2, <1>3, <1>4, <1>5, WholeReceived
<1>6. CASE ~line[k].end
  BY <1>1, <1>2, <1>3, <1>4, <1>6, PartReceived
<1>7. QED  BY <1>5, <1>6

-----------------------------------------------------------------------------
\* A step of the loop that only changes what it loaded.
LEMMA ThreadStepKeeps ==
  ASSUME Types, Counted, Streamed, InOrder,
         UNCHANGED <<kinds, line, buf, current_table, cmd_ready, reception_index, handled>>,
         thread' \in [pc : Pcs, table : {NotLoaded} \cup 0 .. Buffers - 1,
                      ready : {NotLoaded} \cup 0 .. Buffers, leave : BOOLEAN],
         thread'.pc \in {"drop", "store"} <=> thread.pc \in {"drop", "store"},
         thread'.pc = "load" => cmd_ready >= 1,
         Loaded'
  PROVE  GateInv'
<1>1. DoneWith' = DoneWith /\ Ended' = Ended /\ Oldest' = Oldest
  BY DEF DoneWith, Ended, Oldest, ConcernedTable
<1>2. Types'
  BY DEF Types
<1>3. Counted'
  BY <1>1 DEF Counted
<1>4. Streamed'
  <2>1. ASSUME NEW j \in 0 .. cmd_ready - 1 PROVE Slot(j)' = Slot(j)
    BY <1>1 DEF Slot
  <2>2. QED
    BY <1>1, <2>1 DEF Streamed
<1>5. InOrder'
  BY DEF InOrder
<1>6. QED
  BY <1>2, <1>3, <1>4, <1>5 DEF GateInv

LEMMA ControlStepKeeps ==
  ASSUME Types, Counted, Streamed, Loaded, InOrder,
         FormatData \/ TestReady \/ LoadTable \/ LoadReady \/ LoadCount \/ Detect
  PROVE  GateInv'
<1> USE GateAssumption
<1>1. UNCHANGED <<kinds, line, buf, current_table, cmd_ready, reception_index, handled>>
  BY DEF FormatData, TestReady, LoadTable, LoadReady, LoadCount, Detect, LoopUnchanged,
         irq_vars, loop_vars
<1>2. Oldest' = Oldest
  BY <1>1 DEF Oldest, ConcernedTable
<1>3. /\ thread \in [pc : Pcs, table : {NotLoaded} \cup 0 .. Buffers - 1,
                     ready : {NotLoaded} \cup 0 .. Buffers, leave : BOOLEAN]
      /\ cmd_ready \in 0 .. Buffers /\ current_table \in 0 .. Buffers - 1
  BY DEF Types
<1>4. CASE FormatData \/ TestReady \/ Detect
  <2>1. \E pc \in {"format", "test", "load", "detect"} :
          thread' = At(pc) /\ (pc = "load" => cmd_ready > 0)
    BY <1>4 DEF FormatData, TestReady, Detect
  <2>2. thread.pc \in {"format", "test", "detect"}
    BY <1>4 DEF FormatData, TestReady, Detect
  <2>3. /\ thread' \in [pc : Pcs, table : {NotLoaded} \cup 0 .. Buffers - 1,
                        ready : {NotLoaded} \cup 0 .. Buffers, leave : BOOLEAN]
        /\ thread'.pc \notin {"drop", "store"}
        /\ thread'.table = NotLoaded /\ thread'.ready = NotLoaded
        /\ thread'.pc = "load" => cmd_ready >= 1
    BY <1>3, <2>1 DEF At, Pcs, NotLoaded
  <2>4. Loaded'
    BY <2>3 DEF Loaded
  <2>5. QED
    BY <1>1, <2>2, <2>3, <2>4, ThreadStepKeeps
<1>5. CASE LoadTable
  <2>1. /\ thread.pc = "load" /\ thread.table = NotLoaded
        /\ thread' = [thread EXCEPT !.table = current_table]
    BY <1>5 DEF LoadTable
  <2>2. /\ thread' \in [pc : Pcs, table : {NotLoaded} \cup 0 .. Buffers - 1,
                        ready : {NotLoaded} \cup 0 .. Buffers, leave : BOOLEAN]
        /\ thread'.pc = "load" /\ thread'.table = current_table /\ thread'.ready = thread.ready
    BY <1>3, <2>1
  <2>3. Loaded'
    BY <1>1, <1>2, <2>1, <2>2 DEF Loaded, Oldest
  <2>4. QED
    BY <1>1, <2>1, <2>2, <2>3, ThreadStepKeeps DEF Counted
<1>6. CASE LoadReady
  <2>1. /\ thread.pc = "load" /\ thread.ready = NotLoaded
        /\ thread' = [thread EXCEPT !.ready = cmd_ready]
    BY <1>6 DEF LoadReady
  <2>2. /\ thread' \in [pc : Pcs, table : {NotLoaded} \cup 0 .. Buffers - 1,
                        ready : {NotLoaded} \cup 0 .. Buffers, leave : BOOLEAN]
        /\ thread'.pc = "load" /\ thread'.ready = cmd_ready /\ thread'.table = thread.table
    BY <1>3, <2>1
  <2>3. Loaded'
    BY <1>1, <1>2, <2>1, <2>2 DEF Loaded, Oldest
  <2>4. QED
    BY <1>1, <2>1, <2>2, <2>3, ThreadStepKeeps DEF Counted
<1>7. CASE LoadCount
  <2>1. /\ thread.pc = "drop"
        /\ thread' = [thread EXCEPT !.pc = "store", !.ready = cmd_ready]
    BY <1>7 DEF LoadCount
  <2>2. /\ thread' \in [pc : Pcs, table : {NotLoaded} \cup 0 .. Buffers - 1,
                        ready : {NotLoaded} \cup 0 .. Buffers, leave : BOOLEAN]
        /\ thread'.pc = "store" /\ thread'.ready = cmd_ready
    BY <1>3, <2>1 DEF Pcs
  <2>3. Loaded'
    BY <1>1, <2>2 DEF Loaded
  <2>4. QED
    BY <1>1, <2>1, <2>2, <2>3, ThreadStepKeeps
<1>8. QED
  BY <1>4, <1>5, <1>6, <1>7

\* The loop parses the oldest command that waits.
LEMMA ParseCommandKeeps ==
  ASSUME Types, Counted, Streamed, Loaded, InOrder, ParseCommand
  PROVE  GateInv'
<1> USE GateAssumption
<1>1. /\ thread \in [pc : Pcs, table : {NotLoaded} \cup 0 .. Buffers - 1,
                     ready : {NotLoaded} \cup 0 .. Buffers, leave : BOOLEAN]
      /\ cmd_ready \in 0 .. Buffers /\ current_table \in 0 .. Buffers - 1
      /\ buf \in [0 .. Buffers - 1 -> Seq(Item)] /\ handled \in Seq(Nat)
  BY DEF Types
<1>2. thread.pc = "load" /\ thread.table # NotLoaded /\ thread.ready # NotLoaded
  BY DEF ParseCommand
<1>3. cmd_ready >= 1 /\ DoneWith = Len(handled) /\ Len(handled) \in Nat
  BY <1>1, <1>2 DEF Counted, DoneWith
<1>4. Slot(0) = Oldest /\ Oldest \in 0 .. Buffers - 1
  BY <1>1, <1>3 DEF Slot, Oldest, ConcernedTable
<1>5. ConcernedTable(thread.table, thread.ready) = Oldest
  BY <1>2 DEF Loaded
<1>6. buf[Oldest] = <<Body(Len(handled) + 1), End(Len(handled) + 1)>>
  <2>1. 0 \in 0 .. cmd_ready - 1
    BY <1>1, <1>3
  <2>2. buf[Slot(0)] = <<Body(DoneWith + 0 + 1), End(DoneWith + 0 + 1)>>
    BY <2>1 DEF Streamed
  <2>3. QED
    BY <1>3, <1>4, <2>2
<1>7. Parsed(buf[Oldest]) = <<Len(handled) + 1>>
  <2>1. /\ Len(buf[Oldest]) = 2 /\ buf[Oldest][2] = End(Len(handled) + 1)
        /\ buf[Oldest][1] = Body(Len(handled) + 1)
    BY <1>6
  <2>2. buf[Oldest][1].cmd = Len(handled) + 1
    BY <2>1 DEF Body
  <2>3. QED
    BY <2>1, <2>2 DEF Parsed
<1>8. /\ handled' = handled \o <<Len(handled) + 1>>
      /\ \E leave \in BOOLEAN : thread' = [At("drop") EXCEPT !.leave = leave]
      /\ UNCHANGED <<kinds, line, buf, current_table, cmd_ready, reception_index>>
  <2>1. ConcernedTable(thread.table, thread.ready) \in DOMAIN buf
    BY <1>1, <1>4, <1>5
  <2>2. /\ handled' = handled \o Parsed(buf[Oldest])
        /\ thread' = [At("drop") EXCEPT !.leave = Leaves(Parsed(buf[Oldest]))]
        /\ UNCHANGED <<kinds, line, buf, current_table, cmd_ready, reception_index>>
    BY <1>5, <2>1 DEF ParseCommand, irq_vars
  <2>3. Leaves(Parsed(buf[Oldest])) \in BOOLEAN
    BY DEF Leaves
  <2>4. QED
    BY <1>7, <2>2, <2>3
<1>9. /\ handled' \in Seq(Nat) /\ Len(handled') = Len(handled) + 1
      /\ \A i \in 1 .. Len(handled) : handled'[i] = handled[i]
      /\ handled'[Len(handled) + 1] = Len(handled) + 1
  BY <1>1, <1>3, <1>8
<1>10. /\ thread' \in [pc : Pcs, table : {NotLoaded} \cup 0 .. Buffers - 1,
                       ready : {NotLoaded} \cup 0 .. Buffers, leave : BOOLEAN]
       /\ thread'.pc = "drop"
  BY <1>8 DEF At, Pcs, NotLoaded
<1>11. DoneWith' = DoneWith /\ Ended' = Ended
  <2>1. DoneWith' = DoneWith
    BY <1>3, <1>9, <1>10 DEF DoneWith
  <2>2. QED
    BY <1>8, <2>1 DEF Ended
<1>12. Types'
  BY <1>8, <1>9, <1>10 DEF Types
<1>13. Counted'
  BY <1>3, <1>8, <1>9, <1>11 DEF Counted
<1>14. Streamed'
  <2>1. Oldest' = Oldest
    BY <1>8 DEF Oldest, ConcernedTable
  <2>2. ASSUME NEW j \in 0 .. cmd_ready - 1 PROVE Slot(j)' = Slot(j)
    BY <2>1 DEF Slot
  <2>3. QED
    BY <1>8, <1>11, <2>2 DEF Streamed
<1>15. Loaded' /\ InOrder'
  <2>1. Loaded'
    BY <1>10 DEF Loaded
  <2>2. \A i \in 1 .. Len(handled') : handled'[i] = i
    <3>1. \A i \in 1 .. Len(handled) : handled[i] = i
      BY <1>1 DEF InOrder
    <3>2. QED
      BY <1>3, <1>9, <3>1
  <2>3. QED
    BY <1>9, <2>1, <2>2 DEF InOrder
<1>16. QED
  BY <1>12, <1>13, <1>14, <1>15 DEF GateInv

\* The count that is stored is the one that was loaded, less the command that
\* was handled: the next one is the oldest.
LEMMA StoreCountKeeps ==
  ASSUME Types, Counted, Streamed, Loaded, InOrder, StoreCount
  PROVE  GateInv'
<1> USE GateAssumption
<1>1. /\ thread \in [pc : Pcs, table : {NotLoaded} \cup 0 .. Buffers - 1,
                     ready : {NotLoaded} \cup 0 .. Buffers, leave : BOOLEAN]
      /\ cmd_ready \in 0 .. Buffers /\ current_table \in 0 .. Buffers - 1
      /\ handled \in Seq(Nat)
  BY DEF Types
<1>2. /\ thread.pc = "store" /\ cmd_ready' = cmd_ready - 1
      /\ \E pc \in {"detect", "test"} : thread' = At(pc)
      /\ UNCHANGED <<kinds, line, buf, current_table, reception_index, handled>>
  BY DEF StoreCount, Loaded, irq_vars, loop_vars
<1>3. cmd_ready >= 1 /\ Len(handled) >= 1 /\ DoneWith = Len(handled) - 1 /\ Len(handled) \in Nat
  BY <1>1, <1>2 DEF Counted, DoneWith
<1>4. /\ thread' \in [pc : Pcs, table : {NotLoaded} \cup 0 .. Buffers - 1,
                      ready : {NotLoaded} \cup 0 .. Buffers, leave : BOOLEAN]
      /\ thread'.pc \in {"detect", "test"}
  BY <1>2 DEF At, Pcs, NotLoaded
<1>5. DoneWith' = DoneWith + 1
  <2>1. DoneWith' = Len(handled)
    BY <1>2, <1>4 DEF DoneWith
  <2>2. QED
    BY <1>3, <2>1
<1>6. Ended' = Ended
  BY <1>1, <1>2, <1>3, <1>5 DEF Ended
<1>7. Types'
  BY <1>1, <1>2, <1>3, <1>4 DEF Types
<1>8. Counted'
  <2>1. Len(kinds) <= DoneWith + MaxAhead /\ Len(kinds) \in Nat
    BY DEF Counted, Types
  <2>2. Len(kinds) <= DoneWith' + MaxAhead
    BY <1>3, <1>5, <2>1
  <2>3. QED
    BY <1>2, <1>4, <1>6, <2>2 DEF Counted
<1>9. Streamed'
  <2>1. ASSUME NEW j \in 0 .. cmd_ready' - 1
        PROVE  buf[Slot(j)'] = <<Body(DoneWith' + j + 1), End(DoneWith' + j + 1)>>
    <3>1. j + 1 \in 0 .. cmd_ready - 1
      BY <1>1, <1>2
    <3>2. Slot(j)' = Slot(j + 1)
      BY <1>1, <1>2, <1>3, <3>1 DEF Slot, Oldest, ConcernedTable
    <3>3. buf[Slot(j + 1)] = <<Body(DoneWith + (j + 1) + 1), End(DoneWith + (j + 1) + 1)>>
      BY <3>1 DEF Streamed
    <3>4. DoneWith + (j + 1) + 1 = DoneWith' + j + 1
      BY <1>3, <1>5
    <3>5. QED
      BY <3>2, <3>3, <3>4
  <2>2. QED
    BY <1>2, <1>6, <2>1 DEF Streamed
<1>10. Loaded' /\ InOrder'
  BY <1>2, <1>4 DEF Loaded, InOrder
<1>11. QED
  BY <1>7, <1>8, <1>9, <1>10 DEF GateInv

-----------------------------------------------------------------------------
LEMMA GateStepKeeps == Enough /\ GateInv /\ [Next]_vars => GateInv'
<1>. SUFFICES ASSUME Enough, GateInv, [Next]_vars, ~collided'
              PROVE  GateInv'
  BY DEF GateInv
<1>1. CASE UNCHANGED vars
  BY <1>1 DEF vars, irq_vars, loop_vars, GateInv, Types, Counted, Streamed, Loaded, InOrder,
              DoneWith, Ended, Oldest, Slot, ConcernedTable
<1>2. CASE \E kind \in Kinds : HostSends(kind)
  BY <1>2, HostSendsKeeps
<1>3. CASE ReceiveData
  BY <1>3, ReceiveDataKeeps
<1>4. CASE Loop
  <2>1. collided' = collided
    BY <1>4 DEF Loop, FormatData, TestReady, LoadTable, LoadReady, ParseCommand, LoadCount,
                StoreCount, Detect, LoopUnchanged, irq_vars
  <2>2. Types /\ Counted /\ Streamed /\ Loaded /\ InOrder
    BY <2>1 DEF GateInv
  <2>3. QED
    BY <1>4, <2>2, ControlStepKeeps, ParseCommandKeeps, StoreCountKeeps DEF Loop
<1>5. QED
  BY <1>1, <1>2, <1>3, <1>4 DEF Next

\* A host that has at most as many commands in the Gate as the Gate has buffers
\* has them handled in order, once each, until one ends at a wrong moment: while
\* the main loop computes the buffer of a command or takes one off the count, or
\* behind another command that was read with it (cmd.c).
THEOREM CommandsHandledInOrder == Enough => (Spec => []CommandsInOrder)
<1>1. GateInv => CommandsInOrder
  BY DEF GateInv, InOrder, CommandsInOrder
<1>2. SUFFICES ASSUME Enough PROVE Spec => []CommandsInOrder
  OBVIOUS
<1>3. GateInv /\ [Next]_vars => GateInv'
  BY <1>2, GateStepKeeps
<1>4. QED
  BY <1>1, <1>3, InitGateInv, PTL DEF Spec
-----------------------------------------------------------------------------
\* What holds even after a command collided: the count may then be wrong and
\* buffers may hold anything that was sent, but the ring is never overrun.

Byte == [cmd : 1 .. Len(kinds), end : BOOLEAN]

\* The commands that end on the line
LineEnds == (Len(line) + 1) \div 2

ByteTypes ==
  /\ kinds \in Seq(Kinds) /\ Len(kinds) <= MaxCommands
  /\ line \in Seq(Byte) /\ buf \in [0 .. Buffers - 1 -> Seq(Byte)]
  /\ current_table \in 0 .. Buffers - 1 /\ cmd_ready \in Nat
  /\ reception_index \in 0 .. Len(buf[current_table])
  /\ handled \in Seq(1 .. Len(kinds))

LoopTypes ==
  /\ detection_ask \in Nat /\ detection_done \in BOOLEAN
  /\ answered \in 0 .. Len(handled) /\ updates \in 0 .. MaxUpdates
  /\ thread \in [pc : Pcs, table : {NotLoaded} \cup 0 .. Buffers - 1,
                 ready : {NotLoaded} \cup 0 .. Buffers, leave : BOOLEAN]

\* On the line, every second byte ends a command, the last one too.
LineAlternates == \A i \in 1 .. Len(line) : line[i].end <=> (Len(line) - i) % 2 = 0

\* With c commands that wait, l that end on the line and d that are done with,
\* at most a are in the Gate, of the n that were sent.
Within(c, l, d, a, n) == c + l <= a /\ c + l + d <= n

\* The host waits for a command to be done with, whatever was done with it; a
\* command is done with when it is no longer counted. An increment that is lost
\* only makes the count smaller.
CountBounded ==
  /\ Within(cmd_ready, LineEnds, DoneWith, MaxAhead, Len(kinds))
  /\ thread.pc \in {"load", "drop", "store"} => cmd_ready >= 1
  /\ thread.pc = "store" => thread.ready \in 1 .. cmd_ready

\* A count stays within its bounds when it does not grow, when a command moves
\* from the line to the ring, and when one is sent.
LEMMA WithinLess ==
  ASSUME NEW c \in Int, NEW l \in Int, NEW d \in Int, NEW a \in Int, NEW n \in Int,
         NEW c1 \in Int, NEW l1 \in Int, NEW d1 \in Int,
         Within(c, l, d, a, n), c1 + l1 <= c + l, c1 + l1 + d1 <= c + l + d
  PROVE  Within(c1, l1, d1, a, n)
  BY DEF Within

LEMMA WithinEnded ==
  ASSUME NEW c \in Int, NEW l \in Int, NEW d \in Int, NEW a \in Int, NEW n \in Int,
         NEW l1 \in Int, Within(c, l, d, a, n), l1 + 1 <= l
  PROVE  Within(c + 1, l1, d, a, n)
  BY DEF Within

LEMMA WithinSent ==
  ASSUME NEW c \in Int, NEW l \in Int, NEW d \in Int, NEW a \in Int, NEW n \in Int,
         Within(c, l, d, a, n), n < d + a
  PROVE  Within(c, l + 1, d, a, n + 1)
  BY DEF Within

RingSafe == ByteTypes /\ LoopTypes /\ LineAlternates /\ CountBounded

\* What is left of a sequence behind its first k elements
LEMMA RestOfSeq ==
  ASSUME NEW S, NEW s \in Seq(S), NEW k \in 1 .. Len(s)
  PROVE  /\ SubSeq(s, k + 1, Len(s)) \in Seq(S)
         /\ Len(SubSeq(s, k + 1, Len(s))) = Len(s) - k
         /\ \A i \in 1 .. Len(s) - k : SubSeq(s, k + 1, Len(s))[i] = s[i + k]
<1>1. Len(s) \in Nat /\ k + 1 \in Int /\ Len(s) \in Int
  OBVIOUS
<1>2. \A i \in k + 1 .. Len(s) : s[i] \in S
  OBVIOUS
<1>3. /\ SubSeq(s, k + 1, Len(s)) \in Seq(S)
      /\ Len(SubSeq(s, k + 1, Len(s))) = IF k + 1 <= Len(s) THEN Len(s) - (k + 1) + 1 ELSE 0
      /\ \A i \in 1 .. Len(s) - (k + 1) + 1 : SubSeq(s, k + 1, Len(s))[i] = s[k + 1 + i - 1]
  BY <1>1, <1>2, SubSeqProperties
<1>4. \A i \in 1 .. Len(s) - k : k + 1 + i - 1 = i + k /\ i \in 1 .. Len(s) - (k + 1) + 1
  BY <1>1
<1>5. (IF k + 1 <= Len(s) THEN Len(s) - (k + 1) + 1 ELSE 0) = Len(s) - k
  BY <1>1
<1>6. QED
  BY <1>3, <1>4, <1>5

LEMMA InitRingSafe == Init => RingSafe
<1>. SUFFICES ASSUME Init
              PROVE  RingSafe
  OBVIOUS
<1>. USE GateAssumption DEF Init
<1>1. Len(kinds) = 0 /\ Len(handled) = 0 /\ thread.pc = "format"
  BY DEF At
<1>2. LineEnds = 0 /\ DoneWith = 0
  BY <1>1 DEF LineEnds, DoneWith
<1>3. Within(cmd_ready, LineEnds, DoneWith, MaxAhead, Len(kinds))
  BY <1>1, <1>2 DEF Within
<1>4. CountBounded
  BY <1>1, <1>3 DEF CountBounded
<1>5. ByteTypes
  <2>1. buf \in [0 .. Buffers - 1 -> Seq(Byte)]
    BY EmptySeq
  <2>2. QED
    BY <1>1, <2>1 DEF ByteTypes
<1>6. LoopTypes /\ LineAlternates
  <2>1. LineAlternates
    BY <1>1 DEF LineAlternates
  <2>2. thread \in [pc : Pcs, table : {NotLoaded} \cup 0 .. Buffers - 1,
                    ready : {NotLoaded} \cup 0 .. Buffers, leave : BOOLEAN]
    BY DEF At, NotLoaded, Pcs
  <2>3. MaxUpdates \in Nat
    OBVIOUS
  <2>4. QED
    BY <1>1, <2>1, <2>2, <2>3 DEF LoopTypes
<1>7. QED
  BY <1>4, <1>5, <1>6 DEF RingSafe

\* As many commands wait as the ring has buffers, at most.
LEMMA CountFits == Enough /\ RingSafe => cmd_ready \in 0 .. Buffers /\ LineEnds \in Nat
<1>. SUFFICES ASSUME Enough, RingSafe
              PROVE  cmd_ready \in 0 .. Buffers /\ LineEnds \in Nat
  OBVIOUS
<1>1. Len(line) \in Nat /\ cmd_ready \in Nat
  BY DEF RingSafe, ByteTypes
<1>2. LineEnds \in Nat
  BY <1>1 DEF LineEnds
<1>3. cmd_ready + LineEnds <= MaxAhead
  BY DEF RingSafe, CountBounded, Within
<1>4. QED
  BY <1>1, <1>2, <1>3, GateAssumption DEF Enough

\* Two more bytes, the second of which ends a command.
LEMMA HostSendsSafe ==
  ASSUME NEW kind \in Kinds, HostSends(kind), RingSafe
  PROVE  RingSafe'
<1>. USE GateAssumption
<1>1. /\ kinds \in Seq(Kinds) /\ Len(kinds) \in Nat /\ Len(kinds) + 1 <= MaxCommands
      /\ kinds' = Append(kinds, kind)
  BY DEF RingSafe, ByteTypes, HostSends
<1>2. kinds' \in Seq(Kinds) /\ Len(kinds') = Len(kinds) + 1
  BY <1>1
<1>3. Byte \subseteq Byte' /\ 1 .. Len(kinds) \subseteq 1 .. Len(kinds')
  BY <1>1, <1>2 DEF Byte
<1>4. /\ Body(Len(kinds')) \in Byte' /\ End(Len(kinds')) \in Byte'
      /\ ~Body(Len(kinds')).end /\ End(Len(kinds')).end
  BY <1>1, <1>2 DEF Byte, Body, End
<1>. HIDE DEF Byte
<1>5. DEFINE two == <<Body(Len(kinds')), End(Len(kinds'))>>
<1>6. line' = line \o two
  BY DEF HostSends
<1>7. /\ two \in Seq(Byte') /\ Len(two) = 2 /\ ~two[1].end /\ two[2].end
      /\ line \in Seq(Byte')
  BY <1>3, <1>4 DEF RingSafe, ByteTypes
<1>. HIDE DEF two
<1>8. /\ line' \in Seq(Byte') /\ Len(line') = Len(line) + 2 /\ Len(line) \in Nat
      /\ \A i \in 1 .. Len(line') : line'[i] = IF i <= Len(line) THEN line[i] ELSE two[i - Len(line)]
  <2>1. /\ line \o two \in Seq(Byte') /\ Len(line \o two) = Len(line) + Len(two)
        /\ \A i \in 1 .. Len(line) + Len(two) :
             (line \o two)[i] = IF i <= Len(line) THEN line[i] ELSE two[i - Len(line)]
    <3>1. line \in Seq(Byte') /\ two \in Seq(Byte')
      BY <1>7
    <3>2. QED
      BY <3>1, ConcatProperties
  <2>2. Len(line) \in Nat
    BY <1>7
  <2>3. QED
    BY <1>6, <1>7, <2>1, <2>2, Zenon
<1>9. LineAlternates'
  <2>1. ASSUME NEW i \in 1 .. Len(line')
        PROVE  line'[i].end <=> (Len(line') - i) % 2 = 0
    <3>1. CASE i <= Len(line)
      BY <1>8, <3>1 DEF RingSafe, LineAlternates
    <3>2. CASE i = Len(line) + 1
      BY <1>7, <1>8, <3>2
    <3>3. CASE i = Len(line) + 2
      BY <1>7, <1>8, <3>3
    <3>4. QED
      BY <1>8, <3>1, <3>2, <3>3
  <2>2. QED
    BY <2>1 DEF LineAlternates
<1>10. UNCHANGED <<buf, current_table, reception_index, cmd_ready, handled, detection_ask,
                   detection_done, answered, updates, thread>>
  BY DEF HostSends, loop_vars
<1>11. ByteTypes'
  <2>1. buf \in [0 .. Buffers - 1 -> Seq(Byte')]
    BY <1>3 DEF RingSafe, ByteTypes
  <2>2. handled \in Seq(1 .. Len(kinds'))
    BY <1>3, SeqMonotonic DEF RingSafe, ByteTypes
  <2>3. QED
    BY <1>1, <1>2, <1>8, <1>10, <2>1, <2>2 DEF RingSafe, ByteTypes
<1>12. LoopTypes'
  BY <1>10 DEF RingSafe, LoopTypes
<1>13. CountBounded'
  <2>1. DoneWith' = DoneWith /\ DoneWith \in Int
    BY <1>10 DEF DoneWith, RingSafe, ByteTypes
  <2>2. LineEnds' = LineEnds + 1 /\ LineEnds \in Nat
    BY <1>8 DEF LineEnds
  <2>3. /\ Len(kinds) < DoneWith + MaxAhead
        /\ Within(cmd_ready, LineEnds, DoneWith, MaxAhead, Len(kinds))
        /\ cmd_ready \in Nat
    BY DEF HostSends, RingSafe, CountBounded, ByteTypes
  <2>4. Within(cmd_ready, LineEnds + 1, DoneWith, MaxAhead, Len(kinds) + 1)
    BY <1>1, <2>1, <2>2, <2>3, WithinSent
  <2>5. QED
    BY <1>2, <1>10, <2>1, <2>2, <2>4 DEF RingSafe, CountBounded
<1>14. QED
  BY <1>9, <1>11, <1>12, <1>13 DEF RingSafe

\* An interrupt counts a command only when it takes its end off the line.
LEMMA ReceiveDataSafe ==
  ASSUME RingSafe, Enough, ReceiveData
  PROVE  RingSafe'
<1>. USE GateAssumption
<1>1. PICK k \in DOMAIN line :
        /\ line' = SubSeq(line, k + 1, Len(line))
        /\ buf' = [buf EXCEPT ![current_table] = Received(k)]
        /\ IF line[k].end
           THEN /\ cmd_ready' = cmd_ready + 1
                /\ current_table' = NextTable
                /\ reception_index' = 0
           ELSE /\ reception_index' = Len(Received(k))
                /\ UNCHANGED <<cmd_ready, current_table>>
        /\ UNCHANGED <<kinds, loop_vars, thread>>
  BY DEF ReceiveData
<1>. HIDE DEF Byte
<1>2. /\ line \in Seq(Byte) /\ Len(line) \in Nat /\ k \in 1 .. Len(line)
      /\ buf \in [0 .. Buffers - 1 -> Seq(Byte)]
      /\ current_table \in 0 .. Buffers - 1 /\ cmd_ready \in Nat
      /\ reception_index \in 0 .. Len(buf[current_table])
  BY DEF RingSafe, ByteTypes
<1>3. Byte' = Byte
  BY <1>1 DEF Byte
<1>4. /\ line' \in Seq(Byte) /\ Len(line') = Len(line) - k
      /\ \A i \in 1 .. Len(line') : line'[i] = line[i + k]
  <2>2. /\ SubSeq(line, k + 1, Len(line)) \in Seq(Byte)
        /\ Len(SubSeq(line, k + 1, Len(line))) = Len(line) - k
        /\ \A i \in 1 .. Len(line) - k : SubSeq(line, k + 1, Len(line))[i] = line[i + k]
    BY <1>2, RestOfSeq
  <2>3. QED
    BY <1>1, <2>2
<1>5. Received(k) \in Seq(Byte)
  <2>1. SubSeq(buf[current_table], 1, reception_index) \in Seq(Byte)
    BY <1>2
  <2>2. SubSeq(line, 1, k) \in Seq(Byte)
    BY <1>2
  <2>3. QED
    BY <2>1, <2>2 DEF Received
<1>6. buf' \in [0 .. Buffers - 1 -> Seq(Byte)] /\ buf'[current_table] = Received(k)
  BY <1>1, <1>2, <1>5
<1>7. LineAlternates'
  <2>1. ASSUME NEW i \in 1 .. Len(line')
        PROVE  line'[i].end <=> (Len(line') - i) % 2 = 0
    <3>1. i + k \in 1 .. Len(line) /\ Len(line) - (i + k) = Len(line') - i
      <4>. DEFINE l == Len(line)
      <4>1. l \in Nat /\ k \in 1 .. l /\ i \in 1 .. l - k
        BY <1>2, <1>4
      <4>. HIDE DEF l
      <4>2. i + k \in 1 .. l /\ l - (i + k) = l - k - i
        BY <4>1
      <4>3. QED
        BY <1>4, <4>2 DEF l
    <3>2. line[i + k].end <=> (Len(line) - (i + k)) % 2 = 0
      BY <3>1 DEF RingSafe, LineAlternates
    <3>3. QED
      BY <1>4, <3>1, <3>2
  <2>2. QED
    BY <2>1 DEF LineAlternates
<1>8. UNCHANGED <<kinds, handled, detection_ask, detection_done, answered, updates, thread>>
  BY <1>1 DEF loop_vars
<1>9. LoopTypes'
  BY <1>8 DEF RingSafe, LoopTypes
<1>10. DoneWith' = DoneWith /\ DoneWith \in Int
  BY <1>8 DEF DoneWith, RingSafe, ByteTypes
<1>10b. cmd_ready \in Nat /\ Len(kinds) \in Nat /\ MaxAhead \in Nat
  BY <1>2 DEF RingSafe, ByteTypes
<1>10a. /\ Within(cmd_ready, LineEnds, DoneWith, MaxAhead, Len(kinds))
        /\ thread.pc \in {"load", "drop", "store"} => cmd_ready >= 1
        /\ thread.pc = "store" => thread.ready \in 1 .. cmd_ready
  BY <1>2 DEF RingSafe, CountBounded, ByteTypes
<1>11. CASE line[k].end
  <2>1. (Len(line) - k) % 2 = 0
    BY <1>2, <1>11 DEF RingSafe, LineAlternates
  <2>2. LineEnds' + 1 <= LineEnds /\ LineEnds \in Nat /\ LineEnds' \in Nat
    <3>1. ASSUME NEW l \in Nat, NEW j \in 1 .. l, (l - j) % 2 = 0
          PROVE  /\ ((l - j) + 1) \div 2 + 1 <= (l + 1) \div 2
                 /\ (l + 1) \div 2 \in Nat /\ ((l - j) + 1) \div 2 \in Nat
      BY <3>1
    <3>2. QED
      BY <1>2, <1>4, <2>1, <3>1 DEF LineEnds
  <2>3. NextTable \in 0 .. Buffers - 1
    BY <1>2 DEF NextTable
  <2>4. ByteTypes'
    <3>1. 0 \in 0 .. Len(buf'[current_table'])
      BY <1>1, <1>6, <1>11, <2>3
    <3>2. current_table' = NextTable /\ reception_index' = 0 /\ cmd_ready' = cmd_ready + 1
      BY <1>1, <1>11
    <3>3. /\ current_table' \in 0 .. Buffers - 1 /\ cmd_ready' \in Nat
          /\ reception_index' \in 0 .. Len(buf'[current_table'])
      BY <1>2, <2>3, <3>1, <3>2
    <3>4. /\ kinds' \in Seq(Kinds) /\ Len(kinds') <= MaxCommands
          /\ handled' \in Seq(1 .. Len(kinds'))
      BY <1>8 DEF RingSafe, ByteTypes
    <3>5. line' \in Seq(Byte') /\ buf' \in [0 .. Buffers - 1 -> Seq(Byte')]
      BY <1>3, <1>4, <1>6
    <3>6. QED
      BY <3>3, <3>4, <3>5 DEF ByteTypes
  <2>5. CountBounded'
    <3>1. cmd_ready' = cmd_ready + 1
      BY <1>1, <1>11
    <3>2. Within(cmd_ready + 1, LineEnds', DoneWith, MaxAhead, Len(kinds))
      <4>1. /\ cmd_ready \in Int /\ LineEnds \in Int /\ DoneWith \in Int /\ MaxAhead \in Int
            /\ Len(kinds) \in Int /\ LineEnds' \in Int /\ LineEnds' + 1 <= LineEnds
        <5>1. cmd_ready \in Int /\ Len(kinds) \in Int /\ MaxAhead \in Int
          BY <1>10b
        <5>2. LineEnds \in Int /\ LineEnds' \in Int
          BY <2>2
        <5>3. LineEnds' + 1 <= LineEnds
          BY <2>2
        <5>4. QED
          BY <1>10, <5>1, <5>2, <5>3, Zenon
      <4>2. Within(cmd_ready, LineEnds, DoneWith, MaxAhead, Len(kinds))
        BY <1>10a
      <4>3. QED
        BY <4>1, <4>2, WithinEnded, Zenon
    <3>3. /\ thread.pc \in {"load", "drop", "store"} => cmd_ready' >= 1
          /\ thread.pc = "store" => thread.ready \in 1 .. cmd_ready'
      BY <1>10a, <1>10b, <3>1
    <3>4. QED
      BY <1>8, <1>10, <3>1, <3>2, <3>3 DEF CountBounded
  <2>6. QED
    BY <1>7, <1>9, <2>4, <2>5 DEF RingSafe
<1>12. CASE ~line[k].end
  <2>1. LineEnds' <= LineEnds /\ LineEnds \in Nat /\ LineEnds' \in Nat
    BY <1>2, <1>4 DEF LineEnds
  <2>2. ByteTypes'
    <3>1. /\ reception_index' = Len(Received(k)) /\ UNCHANGED <<cmd_ready, current_table>>
      BY <1>1, <1>12
    <3>2. Len(Received(k)) \in Nat
      BY <1>5
    <3>3. /\ current_table' \in 0 .. Buffers - 1 /\ cmd_ready' \in Nat
          /\ reception_index' \in 0 .. Len(buf'[current_table'])
      BY <1>2, <1>6, <3>1, <3>2
    <3>4. /\ kinds' \in Seq(Kinds) /\ Len(kinds') <= MaxCommands
          /\ handled' \in Seq(1 .. Len(kinds'))
      BY <1>8 DEF RingSafe, ByteTypes
    <3>5. line' \in Seq(Byte') /\ buf' \in [0 .. Buffers - 1 -> Seq(Byte')]
      BY <1>3, <1>4, <1>6
    <3>6. QED
      BY <3>3, <3>4, <3>5 DEF ByteTypes
  <2>3. CountBounded'
    <3>1. cmd_ready' = cmd_ready
      BY <1>1, <1>12
    <3>2. Within(cmd_ready, LineEnds', DoneWith, MaxAhead, Len(kinds))
      <4>1. ASSUME NEW c \in Nat, NEW l \in Nat, NEW l1 \in Nat, NEW d \in Int, l1 <= l
            PROVE  c + l1 <= c + l /\ c + l1 + d <= c + l + d
        BY <4>1
      <4>2. QED
        BY <1>10, <1>10a, <1>10b, <2>1, <4>1, WithinLess
    <3>3. QED
      BY <1>8, <1>10, <1>10a, <3>1, <3>2 DEF CountBounded
  <2>4. QED
    BY <1>7, <1>9, <2>2, <2>3 DEF RingSafe
<1>13. QED
  BY <1>11, <1>12

\* The loop handles at most one command for each that it takes off the count.
LEMMA LoopSafe ==
  ASSUME RingSafe, Enough, Loop
  PROVE  RingSafe'
<1>. USE GateAssumption
<1>. HIDE DEF Byte
<1>1. /\ thread \in [pc : Pcs, table : {NotLoaded} \cup 0 .. Buffers - 1,
                     ready : {NotLoaded} \cup 0 .. Buffers, leave : BOOLEAN]
      /\ current_table \in 0 .. Buffers - 1
      /\ cmd_ready \in 0 .. Buffers /\ LineEnds \in Nat
      /\ handled \in Seq(1 .. Len(kinds)) /\ Len(handled) \in Nat /\ Len(kinds) \in Nat
      /\ answered \in 0 .. Len(handled) /\ detection_ask \in Nat /\ detection_done \in BOOLEAN
      /\ updates \in 0 .. MaxUpdates
  BY CountFits DEF RingSafe, ByteTypes, LoopTypes
<1>2. UNCHANGED <<kinds, line, buf, current_table, reception_index>>
  BY DEF Loop, FormatData, TestReady, LoadTable, LoadReady, ParseCommand, LoadCount, StoreCount,
         Detect, LoopUnchanged, irq_vars
<1>3. Byte' = Byte /\ LineEnds' = LineEnds /\ LineAlternates'
  BY <1>2 DEF Byte, LineEnds, RingSafe, LineAlternates
<1>4. ASSUME handled' \in Seq(1 .. Len(kinds)), cmd_ready' \in Nat
      PROVE  ByteTypes'
  BY <1>2, <1>3, <1>4 DEF RingSafe, ByteTypes
<1>5. ASSUME handled' = handled, cmd_ready' = cmd_ready, LoopTypes', DoneWith' <= DoneWith,
             thread'.pc \in {"load", "drop", "store"} => cmd_ready >= 1,
             thread'.pc = "store" => thread'.ready \in 1 .. cmd_ready
      PROVE  RingSafe'
  <2>1. ByteTypes'
    BY <1>1, <1>4, <1>5
  <2>2. DoneWith \in Int /\ DoneWith' \in Int
    BY <1>1, <1>5 DEF DoneWith
  <2>3. CountBounded'
    <3>1. Within(cmd_ready, LineEnds, DoneWith, MaxAhead, Len(kinds))
      BY DEF RingSafe, CountBounded
    <3>2. Within(cmd_ready, LineEnds, DoneWith', MaxAhead, Len(kinds))
      <4>1. ASSUME NEW c \in Nat, NEW l \in Nat, NEW d \in Int, NEW d1 \in Int, d1 <= d
            PROVE  c + l <= c + l /\ c + l + d1 <= c + l + d
        BY <4>1
      <4>2. QED
        BY <1>1, <1>5, <2>2, <3>1, <4>1, WithinLess
    <3>3. QED
      BY <1>2, <1>3, <1>5, <3>2 DEF CountBounded
  <2>4. QED
    BY <1>3, <1>5, <2>1, <2>3 DEF RingSafe
<1>6. CASE FormatData
  BY <1>1, <1>5, <1>6 DEF FormatData, TablesUpdated, At, Pcs, NotLoaded, LoopTypes, DoneWith
<1>7. CASE TestReady
  BY <1>1, <1>5, <1>7
     DEF TestReady, LoopUnchanged, loop_vars, At, Pcs, NotLoaded, LoopTypes, DoneWith
<1>8. CASE LoadTable \/ LoadReady
  <2>1. /\ thread' \in [pc : Pcs, table : {NotLoaded} \cup 0 .. Buffers - 1,
                        ready : {NotLoaded} \cup 0 .. Buffers, leave : BOOLEAN]
        /\ thread'.pc = "load" /\ thread.pc = "load"
    BY <1>1, <1>8 DEF LoadTable, LoadReady
  <2>2. UNCHANGED <<cmd_ready, handled, detection_ask, detection_done, answered, updates>>
    BY <1>8 DEF LoadTable, LoadReady, LoopUnchanged, loop_vars
  <2>3. QED
    BY <1>1, <1>5, <2>1, <2>2 DEF LoopTypes, DoneWith, RingSafe, CountBounded
<1>9. CASE LoadCount
  <2>1. /\ thread' \in [pc : Pcs, table : {NotLoaded} \cup 0 .. Buffers - 1,
                        ready : {NotLoaded} \cup 0 .. Buffers, leave : BOOLEAN]
        /\ thread'.pc = "store" /\ thread.pc = "drop" /\ thread'.ready = cmd_ready
    BY <1>1, <1>9 DEF LoadCount, Pcs
  <2>2. UNCHANGED <<cmd_ready, handled, detection_ask, detection_done, answered, updates>>
    BY <1>9 DEF LoadCount, LoopUnchanged, loop_vars
  <2>3. cmd_ready >= 1
    BY <2>1 DEF RingSafe, CountBounded
  <2>4. QED
    BY <1>1, <1>5, <2>1, <2>2, <2>3 DEF LoopTypes, DoneWith
<1>10. CASE Detect
  <2>1. /\ thread' = At("format") /\ thread.pc = "detect"
        /\ UNCHANGED <<cmd_ready, handled, updates>>
    BY <1>10 DEF Detect
  <2>2. /\ detection_ask' \in Nat /\ detection_done' \in BOOLEAN /\ answered' \in 0 .. Len(handled)
    <3>1. CASE detection_ask > 0
      BY <1>1, <1>10, <3>1 DEF Detect
    <3>2. CASE ~(detection_ask > 0)
      BY <1>1, <1>10, <3>2 DEF Detect
    <3>3. QED
      BY <3>1, <3>2
  <2>3. LoopTypes'
    BY <1>1, <2>1, <2>2 DEF LoopTypes, At, Pcs, NotLoaded
  <2>4. DoneWith' <= DoneWith /\ thread'.pc = "format"
    BY <1>1, <2>1 DEF DoneWith, At
  <2>5. QED
    BY <1>5, <2>1, <2>3, <2>4
<1>11. CASE ParseCommand
  <2>1. PICK content \in Seq(Byte) \cup {<<>>} :
          LET cmds == IF content = <<>> THEN <<>> ELSE Parsed(content)
          IN /\ handled' = handled \o cmds
             /\ detection_ask' = Asked(cmds)
             /\ thread' = [At("drop") EXCEPT !.leave = Leaves(cmds)]
    <3>1. CASE ConcernedTable(thread.table, thread.ready) \in DOMAIN buf
      <4>1. buf[ConcernedTable(thread.table, thread.ready)] \in Seq(Byte)
        BY <3>1 DEF RingSafe, ByteTypes
      <4>2. Parsed(<<>>) = <<>>
        BY DEF Parsed
      <4>3. QED
        BY <1>11, <3>1, <4>1, <4>2 DEF ParseCommand
    <3>2. CASE ConcernedTable(thread.table, thread.ready) \notin DOMAIN buf
      BY <1>11, <3>2 DEF ParseCommand
    <3>3. QED
      BY <3>1, <3>2
  <2>2. DEFINE cmds == IF content = <<>> THEN <<>> ELSE Parsed(content)
  <2>3. cmds \in Seq(1 .. Len(kinds)) /\ Len(cmds) \in {0, 1}
    <3>1. CASE content = <<>> \/ Len(content) < 2
      <4>1. cmds = <<>>
        BY <2>1, <3>1 DEF Parsed
      <4>2. QED
        BY <4>1, EmptySeq
    <3>2. CASE content \in Seq(Byte) /\ Len(content) >= 2
      <4>1. content[1] \in Byte
        BY <3>2
      <4>2. content[1].cmd \in 1 .. Len(kinds)
        BY <4>1 DEF Byte
      <4>3. Parsed(content) \in {<<>>, <<content[1].cmd>>}
        BY DEF Parsed
      <4>4. /\ <<content[1].cmd>> \in Seq(1 .. Len(kinds)) /\ Len(<<content[1].cmd>>) = 1
            /\ <<>> \in Seq(1 .. Len(kinds)) /\ Len(<<>>) = 0
        BY <4>2, EmptySeq
      <4>5. cmds \in {<<>>, <<content[1].cmd>>}
        BY <4>3
      <4>6. QED
        BY <4>4, <4>5
    <3>3. QED
      BY <2>1, <3>1, <3>2
  <2>. HIDE DEF cmds
  <2>4. /\ handled' \in Seq(1 .. Len(kinds))
        /\ Len(handled') \in Len(handled) .. Len(handled) + 1
    <3>1. handled' = handled \o cmds
      BY <2>1 DEF cmds
    <3>2. /\ handled \o cmds \in Seq(1 .. Len(kinds))
          /\ Len(handled \o cmds) = Len(handled) + Len(cmds)
      BY <1>1, <2>3, ConcatProperties, Zenon
    <3>3. Len(handled) + Len(cmds) \in Len(handled) .. Len(handled) + 1
      <4>1. Len(handled) \in Nat
        BY <1>1
      <4>2. Len(cmds) = 0 \/ Len(cmds) = 1
        BY <2>3
      <4>3. \A a \in Nat : a + 0 \in a .. a + 1 /\ a + 1 \in a .. a + 1
        OBVIOUS
      <4>4. QED
        BY <4>1, <4>2, <4>3, Zenon
    <3>4. QED
      BY <3>1, <3>2, <3>3, Zenon
  <2>5. detection_ask' \in Nat
    <3>1. detection_ask' = Asked(cmds)
      BY <2>1 DEF cmds
    <3>2. QED
      BY <1>1, <3>1 DEF Asked
  <2>6. /\ thread' \in [pc : Pcs, table : {NotLoaded} \cup 0 .. Buffers - 1,
                        ready : {NotLoaded} \cup 0 .. Buffers, leave : BOOLEAN]
        /\ thread'.pc = "drop" /\ thread.pc = "load"
    <3>1. thread' = [At("drop") EXCEPT !.leave = Leaves(cmds)] /\ thread.pc = "load"
      BY <1>11, <2>1 DEF cmds, ParseCommand
    <3>2. Leaves(cmds) \in BOOLEAN
      BY DEF Leaves
    <3>3. QED
      BY <3>1, <3>2 DEF At, Pcs, NotLoaded
  <2>7. UNCHANGED <<cmd_ready, detection_done, answered, updates>>
    BY <1>11 DEF ParseCommand
  <2>8. DoneWith' <= DoneWith /\ DoneWith \in Int /\ DoneWith' \in Int
    BY <1>1, <2>4, <2>6 DEF DoneWith
  <2>9. ByteTypes'
    BY <1>1, <1>4, <2>4, <2>7
  <2>10. LoopTypes'
    BY <1>1, <2>4, <2>5, <2>6, <2>7 DEF LoopTypes
  <2>11. CountBounded'
    <3>1. Within(cmd_ready, LineEnds, DoneWith, MaxAhead, Len(kinds))
      BY DEF RingSafe, CountBounded
    <3>2. Within(cmd_ready, LineEnds, DoneWith', MaxAhead, Len(kinds))
      <4>1. ASSUME NEW c \in Nat, NEW l \in Nat, NEW d \in Int, NEW d1 \in Int, d1 <= d
            PROVE  c + l <= c + l /\ c + l + d1 <= c + l + d
        BY <4>1
      <4>2. QED
        BY <1>1, <2>8, <3>1, <4>1, WithinLess
    <3>3. QED
      BY <1>2, <1>3, <2>6, <2>7, <3>2 DEF RingSafe, CountBounded
  <2>12. QED
    BY <1>3, <2>9, <2>10, <2>11 DEF RingSafe
<1>12. CASE StoreCount
  <2>1. /\ thread.pc = "store" /\ cmd_ready' = thread.ready - 1
        /\ \E pc \in {"detect", "test"} : thread' = At(pc)
        /\ UNCHANGED <<handled, detection_ask, detection_done, answered, updates>>
    BY <1>12 DEF StoreCount, loop_vars
  <2>2. thread.ready \in 1 .. cmd_ready
    BY <2>1 DEF RingSafe, CountBounded
  <2>3. cmd_ready' \in Nat /\ cmd_ready' <= cmd_ready - 1
    BY <1>1, <2>1, <2>2
  <2>4. /\ thread' \in [pc : Pcs, table : {NotLoaded} \cup 0 .. Buffers - 1,
                        ready : {NotLoaded} \cup 0 .. Buffers, leave : BOOLEAN]
        /\ thread'.pc \in {"detect", "test"}
    BY <2>1 DEF At, Pcs, NotLoaded
  <2>5. DoneWith' = DoneWith + 1 /\ DoneWith \in Int
    BY <1>1, <2>1, <2>4 DEF DoneWith
  <2>6. ByteTypes'
    BY <1>1, <1>4, <2>1, <2>3
  <2>7. LoopTypes'
    BY <1>1, <2>1, <2>4 DEF LoopTypes
  <2>8. CountBounded'
    <3>1. Within(cmd_ready, LineEnds, DoneWith, MaxAhead, Len(kinds))
      BY DEF RingSafe, CountBounded
    <3>2. Within(cmd_ready', LineEnds, DoneWith + 1, MaxAhead, Len(kinds))
      <4>1. ASSUME NEW c \in Nat, NEW c1 \in Nat, NEW l \in Nat, NEW d \in Int, c1 <= c - 1
            PROVE  c1 + l <= c + l /\ c1 + l + (d + 1) <= c + l + d
        BY <4>1
      <4>2. QED
        BY <1>1, <2>3, <2>5, <3>1, <4>1, WithinLess
    <3>3. QED
      BY <1>2, <1>3, <2>4, <2>5, <3>2 DEF CountBounded
  <2>9. QED
    BY <1>3, <2>6, <2>7, <2>8 DEF RingSafe
<1>13. QED
  BY <1>6, <1>7, <1>8, <1>9, <1>10, <1>11, <1>12 DEF Loop

LEMMA RingStaysSafe == Enough /\ RingSafe /\ [Next]_vars => RingSafe'
<1>. SUFFICES ASSUME Enough, RingSafe, [Next]_vars
              PROVE  RingSafe'
  OBVIOUS
<1>1. CASE UNCHANGED vars
  BY <1>1 DEF vars, irq_vars, loop_vars, RingSafe, ByteTypes, LoopTypes, LineAlternates,
              CountBounded, LineEnds, DoneWith, Byte
<1>2. CASE Next
  BY <1>2, HostSendsSafe, ReceiveDataSafe, LoopSafe DEF Next
<1>3. QED
  BY <1>1, <1>2

\* Whether or not commands collide, a host that has at most as many commands in
\* the Gate as it has buffers never makes the count exceed the buffers, nor an
\* index leave the ring or a buffer (cmd.c, gate.c).
THEOREM RingNeverOverrun ==
  ASSUME Enough
  PROVE  Spec => []GateTypeOK
<1>1. RingSafe => GateTypeOK
  <2>. SUFFICES ASSUME RingSafe
                PROVE  GateTypeOK
    OBVIOUS
  <2>1. \A i \in DOMAIN line : line[i].cmd \in DOMAIN kinds
    <3>1. \A i \in DOMAIN line : line[i] \in Byte
      BY DEF RingSafe, ByteTypes
    <3>2. QED
      BY <3>1 DEF Byte, RingSafe, ByteTypes
  <2>2. \A i \in DOMAIN handled : handled[i] \in DOMAIN kinds
    BY DEF RingSafe, ByteTypes
  <2>3. cmd_ready \in 0 .. Buffers
    BY CountFits
  <2>4. reception_index \in Nat /\ kinds \in Seq(Kinds) /\ Len(kinds) <= MaxCommands
        /\ DOMAIN buf = 0 .. Buffers - 1 /\ current_table \in 0 .. Buffers - 1
    <3>. HIDE DEF Byte
    <3>1. QED
      BY DEF RingSafe, ByteTypes
  <2>5. QED
    BY <2>1, <2>2, <2>3, <2>4 DEF RingSafe, LoopTypes, GateTypeOK, Pcs
<1>2. RingSafe /\ [Next]_vars => RingSafe'
  BY RingStaysSafe
<1>3. QED
  BY <1>1, <1>2, InitRingSafe, PTL DEF Spec
=============================================================================
