------------------------- MODULE StarNetwork_proofs -------------------------
(***************************************************************************)
(* Proofs about the star network, for any slaves, poll table and bounds:   *)
(* the parts of the inductive invariant one by one, and the step from it   *)
(* to the service.                                                         *)
(***************************************************************************)
EXTENDS StarNetworkInv, TLAPS

\* The master and the slaves are the nodes, and the poll table names slaves.
LEMMA NodesFacts ==
  /\ Master \in Nodes
  /\ Slaves \subseteq Nodes
  /\ Master \notin Slaves
  /\ NoNode \notin Nodes
  /\ \A n \in Nodes : n = Master \/ n \in Slaves
  /\ Len(slaveNode) \in Nat \ {0}
  /\ \A i \in 1 .. Len(slaveNode) : slaveNode[i] \in Slaves
BY SlaveNodeAssumption DEF Nodes, Slaves

\* The zeroed packet of setup() is a packet.
LEMMA ZeroPacketType ==
  ASSUME NEW c \in Nat, NEW b \in Nat
  PROVE  ZeroPacket(c, b) \in Packet
BY DEF ZeroPacket, Packet, MsgTypes

\* No call of the driver leaves the registers of a chip.
LEMMA ChipOps ==
  ASSUME NEW c \in Chip
  PROVE  /\ Idle(c) \in Chip
         /\ Receive(c) \in Chip
         /\ EndPacket(c) \in Chip
         /\ ParsePacket(c) \in Chip
         /\ HandleDio0Rise(c) \in Chip
         /\ \A p \in Packet : Transmit(c, p) \in Chip
         /\ \A n \in Nodes : [c EXCEPT !.lock = n] \in Chip
         /\ [c EXCEPT !.lock = NoNode] \in Chip
<1>1. \A d \in Chip, m \in Modes : SetMode(d, m) \in Chip
  BY DEF Chip, SetMode
<1>2. Idle(c) \in Chip /\ Receive(c) \in Chip
  BY <1>1 DEF Idle, Receive, Modes
<1>3. EndPacket(c) \in Chip
  BY DEF EndPacket, Chip
<1>4. [c EXCEPT !.irq = {}, !.fifo = NoPacket] \in Chip
  BY DEF Chip
<1>5. ParsePacket(c) \in Chip
  BY <1>1, <1>4 DEF ParsePacket, Idle, Modes
<1>6. HandleDio0Rise(c) \in Chip
  BY <1>4 DEF HandleDio0Rise
<1>7. ASSUME NEW p \in Packet PROVE Transmit(c, p) \in Chip
  <2>1. [Idle(c) EXCEPT !.fifo = p] \in Chip
    BY <1>2 DEF Chip
  <2>2. QED
    BY <1>1, <2>1 DEF Transmit, Modes
<1>8. /\ \A n \in Nodes : [c EXCEPT !.lock = n] \in Chip
      /\ [c EXCEPT !.lock = NoNode] \in Chip
  BY DEF Chip
<1>9. QED
  BY <1>2, <1>3, <1>5, <1>6, <1>7, <1>8

\* Nor does LoRa.begin(), with or without receive().
LEMMA BegunType == Begun \in Chip /\ Receive(Begun) \in Chip
<1>1. Begun \in Chip
  BY DEF Begun, Chip, Modes, Irqs
<1>2. QED
  BY <1>1, ChipOps

\* The nodes boot with well-typed globals.
LEMMA InitTypeOK == Init => TypeOK
<1> SUFFICES ASSUME Init PROVE TypeOK
  OBVIOUS
<1>1. MasterTypeOK
  BY NodesFacts, ZeroPacketType DEF Init, MasterInit, MasterTypeOK
<1>2. SlaveTypeOK
  BY ZeroPacketType DEF Init, SlaveInit, SlaveTypeOK, OwnClock
<1>3. ChipTypeOK
  BY BegunType DEF Init, ChipTypeOK
<1>4. QED
  BY <1>1, <1>2, <1>3 DEF TypeOK

-----------------------------------------------------------------------------
(* The radio actions keep the type of the radios.                          *)

\* Types while a packet goes on the air.
LEMMA StartTransmissionType ==
  ASSUME ChipTypeOK, NEW n \in Nodes, NEW p \in Packet, NEW hearers,
         StartTransmission(n, p, hearers)
  PROVE  ChipTypeOK'
BY ChipOps DEF ChipTypeOK, StartTransmission

\* Types of a receiver when a packet ends.
LEMMA ReceivedType ==
  ASSUME NEW c \in Chip, NEW p \in Packet \cup {NoPacket}, NEW bad, NEW again
  PROVE  Received(c, p, bad, again) \in Chip
BY DEF Received, Chip, Modes, Irqs

\* What the end of a transmission does to the chips, without its choices named.
LEMMA AirShape ==
  ASSUME NEW n \in Nodes, Air(n)
  PROVE  \E bad, again : chip' =
        [x \in Nodes |->
           IF x = n THEN [chip[n] EXCEPT !.mode = "stdby", !.irq = @ \cup {"TxDone"}]
           ELSE IF chip[x].lock = n THEN Received(chip[x], chip[n].fifo, x \in bad, x \in again)
           ELSE chip[x]]
<1>1. PICK polling : TransmissionDone(n, polling)
  BY DEF Air
<1>2. PICK bad \in SUBSET {x \in Nodes : Damage /\ chip[x].lock = n}, again \in SUBSET polling : chip' =
        [x \in Nodes |->
           IF x = n THEN [chip[n] EXCEPT !.mode = "stdby", !.irq = @ \cup {"TxDone"}]
           ELSE IF chip[x].lock = n THEN Received(chip[x], chip[n].fifo, x \in bad, x \in again)
           ELSE chip[x]]
  BY <1>1 DEF TransmissionDone
<1>3. QED
  BY <1>2

\* Types when a packet ends.
LEMMA TransmissionDoneType ==
  ASSUME ChipTypeOK, NEW n \in Nodes, Air(n)
  PROVE  ChipTypeOK'
<1>1. PICK bad, again : chip' =
        [x \in Nodes |->
           IF x = n THEN [chip[n] EXCEPT !.mode = "stdby", !.irq = @ \cup {"TxDone"}]
           ELSE IF chip[x].lock = n THEN Received(chip[x], chip[n].fifo, x \in bad, x \in again)
           ELSE chip[x]]
  BY AirShape
<1>2. [chip[n] EXCEPT !.mode = "stdby", !.irq = @ \cup {"TxDone"}] \in Chip
  BY DEF ChipTypeOK, Chip, Modes, Irqs
<1>3. chip[n].fifo \in Packet \cup {NoPacket}
  BY DEF ChipTypeOK, Chip
<1>4. \A x \in Nodes : Received(chip[x], chip[n].fifo, x \in bad, x \in again) \in Chip
  BY <1>3, ReceivedType DEF ChipTypeOK
<1>5. QED
  BY <1>1, <1>2, <1>4 DEF ChipTypeOK

\* Types when begin() resets a radio.
LEMMA ResetRadioType ==
  ASSUME ChipTypeOK, NEW n \in Nodes, NEW c \in Chip, ResetRadio(n, c)
  PROVE  ChipTypeOK'
BY ChipOps DEF ChipTypeOK, ResetRadio

-----------------------------------------------------------------------------
\* Types of what pktBuild() makes.
LEMMA PktBuildType ==
  ASSUME MasterTypeOK, pktBuild
  PROVE  mTX' \in Packet /\ mMsgCount' \in Nat \ {0} /\ mI' \in 1 .. Len(slaveNode)
<1>1. mI' \in 1 .. Len(slaveNode)
  BY NodesFacts DEF MasterTypeOK, pktBuild, NextSlave
<1>2. mMsgCount' \in Nat \ {0}
  BY DEF MasterTypeOK, pktBuild
<1>3. slaveNode[mI] \in Nodes
  BY NodesFacts DEF MasterTypeOK
<1>4. mTX' \in Packet
  BY <1>3, NodesFacts DEF MasterTypeOK, pktBuild, Packet, MsgTypes
<1>5. QED
  BY <1>1, <1>2, <1>4

\* Types over the steps of the master.
LEMMA MasterType ==
  ASSUME TypeOK, LockInv, MasterNext, UNCHANGED slaveVars
  PROVE  TypeOK'
<1> USE DEF TypeOK
<1>1. SlaveTypeOK'
  BY DEF SlaveTypeOK, slaveVars
<1>2. CASE NoNewMessage
  BY <1>1, <1>2, PktBuildType DEF NoNewMessage, MasterTypeOK, serverVars, ChipTypeOK
<1>3. CASE GetFailed
  BY <1>1, <1>3, PktBuildType DEF GetFailed, MasterTypeOK, serverVars, ChipTypeOK
<1>4. CASE NewCommand
  <2>1. Len(commandRows) \in Nat /\ Len(commandRows) > 0
    BY <1>4 DEF NewCommand, MasterTypeOK
  <2>2. commandRows[Len(commandRows)] \in Rows
    BY <2>1 DEF MasterTypeOK
  <2>3. mTX' \in Packet
    BY <1>4, <2>1, <2>2, NodesFacts DEF NewCommand, MasterTypeOK, Packet, MsgTypes, Rows
  <2>4. QED
    BY <1>1, <1>4, <2>1, <2>3 DEF NewCommand, MasterTypeOK, serverVars, ChipTypeOK
<1>5. CASE ErrorAnswer
  BY <1>1, <1>5 DEF ErrorAnswer, MasterTypeOK, serverVars, ChipTypeOK
<1>6. CASE MasterSend
  <2>1. ChipTypeOK'
    BY <1>6, NodesFacts, StartTransmissionType DEF MasterSend, MasterTypeOK
  <2>2. QED
    BY <1>1, <1>6, <2>1 DEF MasterSend, MasterTypeOK, serverVars
<1>7. CASE MasterSent
  <2>1. ChipTypeOK'
    BY <1>7, ChipOps, NodesFacts DEF MasterSent, ChipTypeOK
  <2>2. QED
    BY <1>1, <1>7, <2>1 DEF MasterSent, MasterTypeOK, serverVars
<1>8. CASE NothingArrived
  <2>1. ChipTypeOK'
    BY <1>8, ChipOps, NodesFacts DEF NothingArrived, ChipTypeOK
  <2>2. QED
    BY <1>1, <1>8, <2>1 DEF NothingArrived, MasterTypeOK, masterVars, serverVars
<1>9. CASE MasterReceive
  <2>1. ChipTypeOK'
    BY <1>9, ChipOps, NodesFacts DEF MasterReceive, ChipTypeOK
  <2>2. telemetryTbl' \in Seq(Packet)
    <3>1. CASE UNCHANGED telemetryTbl
      BY <3>1 DEF MasterTypeOK
    <3>2. CASE telemetryTbl' = Append(telemetryTbl, chip[Master].fifo)
      <4>1. chip[Master].fifo \in Packet
        BY <1>9, NodesFacts DEF MasterReceive, LockInv, ChipTypeOK, Chip
      <4>2. QED
        BY <3>2, <4>1 DEF MasterTypeOK
    <3>3. QED
      BY <1>9, <3>1, <3>2 DEF MasterReceive
  <2>3. QED
    BY <1>1, <1>9, <2>1, <2>2 DEF MasterReceive, MasterTypeOK
<1>10. CASE WindowOver
  BY <1>1, <1>10 DEF WindowOver, MasterTypeOK, serverVars, ChipTypeOK
<1>11. CASE MasterRestart
  <2>1. ChipTypeOK'
    BY <1>11, BegunType, NodesFacts, ResetRadioType DEF MasterRestart
  <2>2. mBoot' \in Nat \ {0} /\ mTX' \in Packet
    BY <1>11, ZeroPacketType DEF MasterRestart, MasterTypeOK
  <2>3. QED
    BY <1>1, <1>11, <2>1, <2>2, NodesFacts DEF MasterRestart, MasterTypeOK, serverVars
<1>12. CASE IssueCommand
  BY <1>1, <1>12 DEF IssueCommand, MasterTypeOK, masterVars, ChipTypeOK
<1>13. QED
  BY <1>2, <1>3, <1>4, <1>5, <1>6, <1>7, <1>8, <1>9, <1>10, <1>11, <1>12, MasterNext DEF MasterNext

\* Types over the steps of a slave.
LEMMA SlaveType ==
  ASSUME TypeOK, LockInv, NEW s \in Slaves, SlaveNext(s), UNCHANGED <<masterVars, serverVars>>
  PROVE  TypeOK'
<1> USE DEF TypeOK
<1>0. s \in Nodes
  BY NodesFacts
<1>1. MasterTypeOK'
  BY DEF MasterTypeOK, masterVars, serverVars
<1>2. CASE BadPacket(s)
  BY <1>0, <1>1, <1>2, ChipOps DEF BadPacket, ChipTypeOK, SlaveTypeOK, slaveVars
<1>3. CASE onReceive(s)
  <2>1. ChipTypeOK'
    BY <1>0, <1>3, ChipOps DEF onReceive, ChipTypeOK
  <2>2. chip[s].fifo \in Packet
    BY <1>0, <1>3 DEF onReceive, Interrupted, Arrived, LockInv, ChipTypeOK, Chip
  <2>3. /\ rxLedStatus' \in [Slaves -> {0, 1}]
        /\ timeSyncErr' \in [Slaves -> Nat]
    BY <1>3, <2>2 DEF onReceive, SlaveTypeOK, Packet
  <2>4. receiveflag' \in [Slaves -> BOOLEAN]
    BY <1>3 DEF onReceive, SlaveTypeOK
  <2>5. led' \in [Slaves -> {0, 1}] /\ obeyed' \in [Slaves -> Nat]
    <3>1. chip[s].fifo.ledStatus \in {0, 1} /\ chip[s].fifo.row \in Nat
      BY <2>2 DEF Packet
    <3>2. 1 - chip[s].fifo.ledStatus \in {0, 1}
      BY <3>1
    <3>3. CASE UNCHANGED <<led, obeyed>>
      BY <3>3 DEF SlaveTypeOK
    <3>4. CASE /\ led' = [led EXCEPT ![s] = 1 - chip[s].fifo.ledStatus]
               /\ obeyed' = [obeyed EXCEPT ![s] = chip[s].fifo.row]
      BY <3>1, <3>2, <3>4 DEF SlaveTypeOK
    <3>5. QED
      BY <1>3, <3>3, <3>4 DEF onReceive
  <2>6. QED
    BY <1>1, <1>3, <2>1, <2>3, <2>4, <2>5 DEF onReceive, SlaveTypeOK
<1>4. CASE TakeFlag(s)
  BY <1>1, <1>4 DEF TakeFlag, ChipTypeOK, SlaveTypeOK
<1>5. CASE Sensor_Reading(s)
  <2>1. sTX' \in [Slaves -> Packet]
    BY <1>0, <1>5, NodesFacts DEF Sensor_Reading, SlaveTypeOK, Packet, MsgTypes
  <2>2. QED
    BY <1>1, <1>5, <2>1 DEF Sensor_Reading, ChipTypeOK, SlaveTypeOK
<1>6. CASE SlaveSend(s)
  <2>1. ChipTypeOK'
    BY <1>0, <1>6, StartTransmissionType DEF SlaveSend, SlaveTypeOK
  <2>2. QED
    BY <1>1, <1>6, <2>1 DEF SlaveSend, SlaveTypeOK
<1>7. CASE SlaveSent(s)
  <2>1. ChipTypeOK'
    BY <1>0, <1>7, ChipOps DEF SlaveSent, ChipTypeOK
  <2>2. QED
    BY <1>1, <1>7, <2>1 DEF SlaveSent, SlaveTypeOK
<1>8. CASE SlaveRestart(s)
  <2>1. ChipTypeOK'
    BY <1>0, <1>8, BegunType, ResetRadioType DEF SlaveRestart
  <2>2. sBoot' \in [Slaves -> Nat \ {0}]
    BY <1>8 DEF SlaveRestart, SlaveTypeOK
  <2>3. sTX' \in [Slaves -> Packet]
    BY <1>8, <2>2, ZeroPacketType DEF SlaveRestart, SlaveTypeOK, OwnClock
  <2>4. QED
    BY <1>1, <1>8, <2>1, <2>2, <2>3 DEF SlaveRestart, SlaveTypeOK, OwnClock
<1>9. QED
  BY <1>2, <1>3, <1>4, <1>5, <1>6, <1>7, <1>8 DEF SlaveNext

\* TypeOK is inductive with LockInv, which says that a locked receiver hears a packet.
LEMMA TypeStep == TypeOK /\ LockInv /\ [Next]_vars => TypeOK'
<1> SUFFICES ASSUME TypeOK, LockInv, [Next]_vars PROVE TypeOK'
  OBVIOUS
<1>1. CASE MasterNext /\ UNCHANGED slaveVars
  BY <1>1, MasterType
<1>2. ASSUME NEW s \in Slaves, SlaveNext(s), UNCHANGED <<masterVars, serverVars>>
      PROVE  TypeOK'
  BY <1>2, SlaveType
<1>3. ASSUME NEW n \in Nodes, Air(n)
      PROVE  TypeOK'
  BY <1>3, TransmissionDoneType
     DEF Air, TypeOK, MasterTypeOK, SlaveTypeOK, masterVars, serverVars, slaveVars
<1>4. CASE UNCHANGED vars
  BY <1>4 DEF vars, TypeOK, MasterTypeOK, SlaveTypeOK, ChipTypeOK, masterVars, serverVars, slaveVars
<1>5. QED
  BY <1>1, <1>2, <1>3, <1>4 DEF Next

-----------------------------------------------------------------------------
(* What each driver call does to the registers of a chip.                  *)

\* The next lemmas say what each call of the driver leaves in the fields that RadioInv and
\* LockInv read.  receive() after endPacket(), as the slave calls them:
LEMMA ReceiveEffect ==
  ASSUME NEW c \in Chip
  PROVE  LET d == Receive(EndPacket(c)) IN
           /\ d.mode = "rxcont" /\ d.lock = NoNode /\ d.irq = c.irq \ {"TxDone"}
           /\ d.fifo = IF "RxDone" \in c.irq THEN c.fifo ELSE NoPacket
BY DEF Receive, EndPacket, SetMode, Chip

\* beginPacket(), write() and endPacket(true).
LEMMA TransmitEffect ==
  ASSUME NEW c \in Chip, NEW p
  PROVE  LET d == Transmit(c, p) IN
           d.mode = "tx" /\ d.lock = NoNode /\ d.irq = c.irq /\ d.fifo = p
BY DEF Transmit, Idle, SetMode, Chip

\* parsePacket().
LEMMA ParsePacketEffect ==
  ASSUME NEW c \in Chip
  PROVE  LET d == ParsePacket(c) IN
           /\ d.mode \in {"stdby", "rxsingle"} /\ d.irq = {} /\ d.fifo = NoPacket
           /\ d.lock = NoNode \/ (d.lock = c.lock /\ d.mode = c.mode)
<1>1. LET e == [c EXCEPT !.irq = {}, !.fifo = NoPacket] IN
        /\ e.irq = {} /\ e.fifo = NoPacket /\ e.mode = c.mode /\ e.lock = c.lock
        /\ \A m : LET d == SetMode(e, m) IN
             d.mode = m /\ d.irq = {} /\ d.fifo = NoPacket /\ d.lock = NoNode
  BY DEF SetMode, Chip
<1>2. QED
  BY <1>1 DEF ParsePacket, Idle

\* The interrupt handler.
LEMMA HandleDio0RiseEffect ==
  ASSUME NEW c \in Chip
  PROVE  LET d == HandleDio0Rise(c) IN
           d.mode = c.mode /\ d.lock = c.lock /\ d.irq = {} /\ d.fifo = NoPacket
BY DEF HandleDio0Rise, Chip

\* The end of a packet at a receiver.
LEMMA ReceivedEffect ==
  ASSUME NEW c \in Chip, NEW p, NEW bad, NEW again
  PROVE  LET d == Received(c, p, bad, again) IN
           /\ d.mode \in {c.mode, IF c.mode = "rxsingle" THEN "stdby" ELSE c.mode} /\ d.lock = NoNode
           /\ d.irq = c.irq \cup (IF bad THEN {"RxDone", "CrcError"} ELSE {"RxDone"})
           /\ d.fifo = IF bad THEN NoPacket ELSE p
BY DEF Received, Chip

\* A receiver that hears a preamble.
LEMMA LockEffect ==
  ASSUME NEW c \in Chip, NEW n
  PROVE  LET d == [c EXCEPT !.lock = n] IN
           d.mode = c.mode /\ d.lock = n /\ d.irq = c.irq /\ d.fifo = c.fifo
BY DEF Chip

\* The end of a transmission at the sender.
LEMMA TxDoneEffect ==
  ASSUME NEW c \in Chip
  PROVE  LET d == [c EXCEPT !.mode = "stdby", !.irq = @ \cup {"TxDone"}] IN
           d.mode = "stdby" /\ d.lock = c.lock /\ d.irq = c.irq \cup {"TxDone"} /\ d.fifo = c.fifo
BY DEF Chip

\* begin(), and receive() after it.
LEMMA BegunEffect ==
  /\ Begun.mode = "stdby" /\ Begun.lock = NoNode /\ Begun.irq = {} /\ Begun.fifo = NoPacket
  /\ LET d == Receive(Begun) IN
       d.mode = "rxcont" /\ d.lock = NoNode /\ d.irq = {} /\ d.fifo = NoPacket
BY DEF Begun, Receive, SetMode

-----------------------------------------------------------------------------
(* The radios and the places in the loops agree.                           *)

\* The radios start idle and locked on nobody.
LEMMA InitRadioLock == Init => RadioInv /\ LockInv
<1> SUFFICES ASSUME Init PROVE RadioInv /\ LockInv
  OBVIOUS
<1>1. /\ chip[Master] = Begun
      /\ \A s \in Slaves : chip[s] = Receive(Begun)
  BY NodesFacts DEF Init
<1>2. RadioInv
  BY <1>1, BegunEffect DEF RadioInv, Init, MasterInit, SlaveInit
<1>3. LockInv
  BY <1>1, BegunEffect, NodesFacts DEF LockInv, Arrived
<1>4. QED
  BY <1>2, <1>3

\* The master does not touch its radio: it stays what it was.
LEMMA MasterRadioIdle ==
  ASSUME TypeOK, RadioInv, LockInv, UNCHANGED <<chip, slaveVars>>,
         \/ mpc = "getData" /\ mpc' = "send"
         \/ mpc = "listen" /\ mpc' = "getData" /\ mTX' = mTX
         \/ UNCHANGED <<mpc, mTX>>
  PROVE  RadioInv' /\ LockInv'
BY DEF RadioInv, LockInv, Arrived, slaveVars

\* A driver call that neither starts nor stops sending, on node n.
LEMMA QuietChipLock ==
  ASSUME TypeOK, LockInv, NEW n \in Nodes, NEW d,
         chip' = [chip EXCEPT ![n] = d],
         chip[n].mode # "tx",
         Arrived(d) => d.fifo # NoPacket,
         d.lock = NoNode \/ (d.lock = chip[n].lock /\ d.mode = chip[n].mode)
  PROVE  LockInv'
<1>1. chip'[n] = d /\ \A x \in Nodes \ {n} : chip'[x] = chip[x]
  BY DEF TypeOK, ChipTypeOK
<1>2. \A x \in Nodes : chip[x].mode = "tx" => chip'[x].mode = "tx"
  BY <1>1
<1>3. \A x \in Nodes : chip[x].lock \in Nodes \cup {NoNode}
  BY DEF TypeOK, ChipTypeOK, Chip
<1>4. ASSUME NEW x \in Nodes
      PROVE  /\ chip'[x].lock # NoNode =>
                  /\ chip'[x].mode \in RxModes
                  /\ chip'[x].lock # x
                  /\ chip'[chip'[x].lock].mode = "tx"
             /\ Arrived(chip'[x]) => chip'[x].fifo # NoPacket
  <2>1. CASE x = n
    BY <1>1, <1>2, <1>3, <2>1 DEF LockInv
  <2>2. CASE x # n
    BY <1>1, <1>2, <1>3, <2>2 DEF LockInv
  <2>3. QED
    BY <2>1, <2>2
<1>5. QED
  BY <1>4 DEF LockInv, Arrived

\* A packet that starts locks its hearers on a radio that transmits.
LEMMA StartTransmissionLock ==
  ASSUME TypeOK, LockInv, NEW n \in Nodes, NEW p \in Packet,
         NEW hearers \in SUBSET Listening(n), StartTransmission(n, p, hearers)
  PROVE  LockInv'
<1>1. chip'[n].mode = "tx" /\ chip'[n].lock = NoNode /\ chip'[n].fifo = p
  BY TransmitEffect DEF StartTransmission, TypeOK, ChipTypeOK
<1>2. \A x \in Nodes \ {n} :
        /\ chip'[x].mode = chip[x].mode /\ chip'[x].irq = chip[x].irq
        /\ chip'[x].fifo = chip[x].fifo
        /\ chip'[x].lock = IF x \in hearers THEN n ELSE chip[x].lock
  BY LockEffect DEF StartTransmission, TypeOK, ChipTypeOK
<1>3. \A x \in hearers : chip[x].mode \in RxModes /\ x # n
  BY DEF Listening
<1>4. \A x \in Nodes : chip[x].lock \in Nodes \cup {NoNode}
  BY DEF TypeOK, ChipTypeOK, Chip
<1>5. p # NoPacket
  BY RadioAssumption
<1>6. \A x \in Nodes : chip[x].mode = "tx" => chip'[x].mode = "tx"
  BY <1>1, <1>2
<1>7. ASSUME NEW x \in Nodes, x # n
      PROVE  /\ chip'[x].lock # NoNode =>
                  /\ chip'[x].mode \in RxModes
                  /\ chip'[x].lock # x
                  /\ chip'[chip'[x].lock].mode = "tx"
             /\ Arrived(chip'[x]) => chip'[x].fifo # NoPacket
  <2>1. Arrived(chip'[x]) => chip'[x].fifo # NoPacket
    BY <1>2, <1>7 DEF Arrived, LockInv
  <2>2. CASE x \in hearers
    BY <1>1, <1>2, <1>3, <1>7, <2>1, <2>2
  <2>3. CASE x \notin hearers
    BY <1>2, <1>4, <1>6, <1>7, <2>1, <2>3 DEF LockInv
  <2>4. QED
    BY <2>2, <2>3
<1>8. QED
  BY <1>1, <1>5, <1>7 DEF LockInv, Arrived

\* A reset lets go of whoever was locked on the node.
LEMMA ResetRadioLock ==
  ASSUME TypeOK, LockInv, NEW n \in Nodes, NEW c, c.irq = {}, c.lock = NoNode,
         ResetRadio(n, c)
  PROVE  LockInv'
<1>1. chip'[n] = c
  BY DEF ResetRadio
<1>2. \A x \in Nodes \ {n} :
        /\ chip'[x].mode = chip[x].mode /\ chip'[x].irq = chip[x].irq
        /\ chip'[x].fifo = chip[x].fifo
        /\ chip'[x].lock = IF chip[x].lock = n THEN NoNode ELSE chip[x].lock
  BY LockEffect DEF ResetRadio, TypeOK, ChipTypeOK
<1>3. \A x \in Nodes : chip[x].lock \in Nodes \cup {NoNode}
  BY DEF TypeOK, ChipTypeOK, Chip
<1>4. QED
  BY <1>1, <1>2, <1>3 DEF LockInv, Arrived

\* When a packet ends, its receivers hold what is in the FIFO of the sender.
LEMMA TransmissionDoneEffect ==
  ASSUME TypeOK, RadioInv, LockInv, NEW n \in Nodes, Air(n)
  PROVE  /\ chip'[n].mode = "stdby" /\ chip'[n].irq = chip[n].irq \cup {"TxDone"}
         /\ chip'[n].fifo = chip[n].fifo /\ chip'[n].lock = NoNode
         /\ \A x \in Nodes \ {n} : chip[x].lock # n => chip'[x] = chip[x]
         /\ \A x \in Nodes \ {n} : chip[x].lock = n =>
              /\ chip[x].mode \in RxModes
              /\ chip'[x].mode \in {chip[x].mode, IF chip[x].mode = "rxsingle" THEN "stdby" ELSE chip[x].mode}
              /\ chip'[x].lock = NoNode
              /\ "RxDone" \in chip'[x].irq
              /\ "TxDone" \in chip'[x].irq => "TxDone" \in chip[x].irq
              /\ chip'[x].fifo = chip[n].fifo \/ chip'[x].fifo = NoPacket
              /\ "CrcError" \notin chip'[x].irq => chip'[x].fifo = chip[n].fifo
<1>1. PICK bad, again : chip' =
        [x \in Nodes |->
           IF x = n THEN [chip[n] EXCEPT !.mode = "stdby", !.irq = @ \cup {"TxDone"}]
           ELSE IF chip[x].lock = n THEN Received(chip[x], chip[n].fifo, x \in bad, x \in again)
           ELSE chip[x]]
  BY AirShape
<1>2. chip[n].lock = NoNode
  <2>1. chip[n].mode = "tx"
    BY DEF Air, TransmissionDone
  <2>2. QED
    BY <2>1 DEF LockInv, RxModes
<1>3. chip[n] \in Chip
  BY DEF TypeOK, ChipTypeOK
<1>4. /\ chip'[n].mode = "stdby" /\ chip'[n].irq = chip[n].irq \cup {"TxDone"}
      /\ chip'[n].fifo = chip[n].fifo /\ chip'[n].lock = NoNode
  BY <1>1, <1>2, <1>3, TxDoneEffect
<1>5. ASSUME NEW x \in Nodes \ {n}, chip[x].lock = n
      PROVE  /\ chip[x].mode \in RxModes
             /\ chip'[x].mode \in {chip[x].mode, IF chip[x].mode = "rxsingle" THEN "stdby" ELSE chip[x].mode}
             /\ chip'[x].lock = NoNode
             /\ "RxDone" \in chip'[x].irq
             /\ "TxDone" \in chip'[x].irq => "TxDone" \in chip[x].irq
             /\ chip'[x].fifo = chip[n].fifo \/ chip'[x].fifo = NoPacket
             /\ "CrcError" \notin chip'[x].irq => chip'[x].fifo = chip[n].fifo
  <2>1. chip'[x] = Received(chip[x], chip[n].fifo, x \in bad, x \in again) /\ chip[x] \in Chip
    BY <1>1, <1>5 DEF TypeOK, ChipTypeOK
  <2>2. chip[x].mode \in RxModes
    BY <1>5, NodesFacts DEF LockInv
  <2>3. QED
    BY <2>1, <2>2, ReceivedEffect
<1>6. \A x \in Nodes \ {n} : chip[x].lock # n => chip'[x] = chip[x]
  BY <1>1
<1>7. QED
  BY <1>4, <1>5, <1>6

\* RadioInv and LockInv over the steps of the master.
LEMMA MasterRadioLock ==
  ASSUME TypeOK, RadioInv, LockInv, MasterNext, UNCHANGED slaveVars
  PROVE  RadioInv' /\ LockInv'
<1>0. /\ chip[Master] \in Chip
      /\ \A s \in Slaves : s # Master /\ chip[s] \in Chip
  BY NodesFacts DEF TypeOK, ChipTypeOK
<1>1. CASE NoNewMessage
  BY <1>1, MasterRadioIdle DEF NoNewMessage
<1>2. CASE GetFailed
  BY <1>2, MasterRadioIdle DEF GetFailed
<1>3. CASE NewCommand
  BY <1>3, MasterRadioIdle DEF NewCommand
<1>4. CASE ErrorAnswer
  BY <1>4, MasterRadioIdle DEF ErrorAnswer
<1>5. CASE MasterSend
  <2>1. PICK hearers \in SUBSET Listening(Master) : StartTransmission(Master, mTX, hearers)
    BY <1>5 DEF MasterSend
  <2>2. mTX \in Packet
    BY DEF TypeOK, MasterTypeOK
  <2>3. LockInv'
    BY <2>1, <2>2, NodesFacts, StartTransmissionLock
  <2>4. chip'[Master] = Transmit(chip[Master], mTX)
    BY <2>1, NodesFacts DEF StartTransmission
  <2>5. \A s \in Slaves : /\ chip'[s].mode = chip[s].mode
                          /\ chip'[s].irq = chip[s].irq
                          /\ chip'[s].fifo = chip[s].fifo
    BY <1>0, <2>1, NodesFacts, LockEffect DEF StartTransmission
  <2>6. RadioInv'
    BY <1>0, <1>5, <2>4, <2>5, TransmitEffect DEF RadioInv, MasterSend, slaveVars
  <2>7. QED
    BY <2>3, <2>6
<1>6. CASE MasterSent
  <2>1. chip' = [chip EXCEPT ![Master] = Receive(EndPacket(chip[Master]))]
    BY <1>6 DEF MasterSent
  <2>2. chip[Master].mode # "tx"
    BY <1>6 DEF MasterSent, RadioInv
  <2>3. LockInv'
    BY <1>0, <2>1, <2>2, NodesFacts, QuietChipLock, ReceiveEffect DEF LockInv, Arrived
  <2>4. RadioInv'
    BY <1>0, <1>6, <2>1, NodesFacts, ReceiveEffect DEF RadioInv, MasterSent, slaveVars, TypeOK, ChipTypeOK
  <2>5. QED
    BY <2>3, <2>4
<1>7. ASSUME mpc = "listen", mpc' = "listen", mTX' = mTX,
             chip' = [chip EXCEPT ![Master] = ParsePacket(chip[Master])]
      PROVE  RadioInv' /\ LockInv'
  <2>1. chip[Master].mode # "tx"
    BY <1>7 DEF RadioInv
  <2>2. LockInv'
    BY <1>0, <1>7, <2>1, NodesFacts, QuietChipLock, ParsePacketEffect DEF Arrived
  <2>3. RadioInv'
    BY <1>0, <1>7, NodesFacts, ParsePacketEffect DEF RadioInv, slaveVars, TypeOK, ChipTypeOK
  <2>4. QED
    BY <2>2, <2>3
<1>8. CASE NothingArrived
  BY <1>7, <1>8 DEF NothingArrived, masterVars
<1>9. CASE MasterReceive
  BY <1>7, <1>9 DEF MasterReceive
<1>10. CASE WindowOver
  BY <1>10, MasterRadioIdle DEF WindowOver
<1>11. CASE MasterRestart
  <2>1. ResetRadio(Master, Begun)
    BY <1>11 DEF MasterRestart
  <2>2. LockInv'
    BY <2>1, NodesFacts, BegunEffect, ResetRadioLock
  <2>3. chip'[Master] = Begun
    BY <2>1, NodesFacts DEF ResetRadio
  <2>4. \A s \in Slaves : /\ chip'[s].mode = chip[s].mode
                          /\ chip'[s].irq = chip[s].irq
                          /\ chip'[s].fifo = chip[s].fifo
    BY <1>0, <2>1, NodesFacts, LockEffect DEF ResetRadio
  <2>5. RadioInv'
    BY <1>11, <2>3, <2>4, BegunEffect DEF RadioInv, MasterRestart, slaveVars
  <2>6. QED
    BY <2>2, <2>5
<1>12. CASE IssueCommand
  BY <1>12, MasterRadioIdle DEF IssueCommand, masterVars
<1>13. QED
  BY <1>1, <1>2, <1>3, <1>4, <1>5, <1>6, <1>8, <1>9, <1>10, <1>11, <1>12 DEF MasterNext

\* RadioInv looks at the radios of the other nodes only through these fields.
LEMMA OtherRadios ==
  ASSUME TypeOK, RadioInv, NEW s \in Slaves, UNCHANGED <<mpc, mTX>>,
         \A x \in Nodes \ {s} : /\ chip'[x].mode = chip[x].mode
                                /\ chip'[x].irq = chip[x].irq
                                /\ chip'[x].fifo = chip[x].fifo,
         \A r \in Slaves \ {s} : spc'[r] = spc[r] /\ sTX'[r] = sTX[r],
         /\ chip'[s].mode = "tx" => chip'[s].fifo = sTX'[s] /\ "TxDone" \notin chip'[s].irq
         /\ spc'[s] = "txWait" => chip'[s].mode \in {"tx", "stdby"} /\ "RxDone" \notin chip'[s].irq
         /\ spc'[s] # "txWait" => chip'[s].mode = "rxcont" /\ "TxDone" \notin chip'[s].irq
  PROVE  RadioInv'
BY NodesFacts DEF RadioInv

\* RadioInv and LockInv over the steps of a slave.
LEMMA SlaveRadioLock ==
  ASSUME TypeOK, RadioInv, LockInv, NEW s \in Slaves, SlaveNext(s),
         UNCHANGED <<masterVars, serverVars>>
  PROVE  RadioInv' /\ LockInv'
<1>0. s \in Nodes /\ s # Master /\ chip[s] \in Chip
  BY NodesFacts DEF TypeOK, ChipTypeOK
<1> UNCHANGED <<mpc, mTX>>
  BY DEF masterVars
<1>1. ASSUME Interrupted(s), chip' = [chip EXCEPT ![s] = HandleDio0Rise(chip[s])],
             UNCHANGED <<spc, sTX>>
      PROVE  RadioInv' /\ LockInv'
  <2>1. spc[s] # "txWait"
    BY <1>1 DEF RadioInv, Interrupted
  <2>2. chip[s].mode = "rxcont"
    BY <2>1 DEF RadioInv
  <2>3. LockInv'
    BY <1>0, <1>1, <2>2, QuietChipLock, HandleDio0RiseEffect DEF Arrived
  <2>4. RadioInv'
    BY <1>0, <1>1, <2>1, <2>2, OtherRadios, HandleDio0RiseEffect DEF TypeOK, ChipTypeOK
  <2>5. QED
    BY <2>3, <2>4
<1>2. CASE BadPacket(s)
  BY <1>1, <1>2 DEF BadPacket, slaveVars
<1>3. CASE onReceive(s)
  BY <1>1, <1>3 DEF onReceive
<1>4. CASE TakeFlag(s)
  BY <1>4 DEF TakeFlag, RadioInv, LockInv, Arrived, TypeOK, SlaveTypeOK
<1>5. CASE Sensor_Reading(s)
  BY <1>5 DEF Sensor_Reading, RadioInv, LockInv, Arrived, TypeOK, SlaveTypeOK
<1>6. CASE SlaveSend(s)
  <2>1. PICK hearers \in SUBSET Listening(s) : StartTransmission(s, sTX[s], hearers)
    BY <1>6 DEF SlaveSend
  <2>2. sTX[s] \in Packet
    BY DEF TypeOK, SlaveTypeOK
  <2>3. LockInv'
    BY <1>0, <2>1, <2>2, StartTransmissionLock
  <2>4. chip'[s] = Transmit(chip[s], sTX[s])
    BY <1>0, <2>1 DEF StartTransmission
  <2>5. \A x \in Nodes \ {s} : /\ chip'[x].mode = chip[x].mode
                               /\ chip'[x].irq = chip[x].irq
                               /\ chip'[x].fifo = chip[x].fifo
    BY <2>1, LockEffect DEF StartTransmission, TypeOK, ChipTypeOK
  <2>6. /\ "RxDone" \notin chip[s].irq /\ "TxDone" \notin chip[s].irq
        /\ spc' = [spc EXCEPT ![s] = "txWait"] /\ sTX' = sTX
    BY <1>6 DEF SlaveSend, Interrupted, RadioInv
  <2>7. RadioInv'
    BY <1>0, <2>4, <2>5, <2>6, TransmitEffect, OtherRadios DEF TypeOK, SlaveTypeOK
  <2>8. QED
    BY <2>3, <2>7
<1>7. CASE SlaveSent(s)
  <2>1. /\ chip' = [chip EXCEPT ![s] = Receive(EndPacket(chip[s]))]
        /\ spc[s] = "txWait" /\ "TxDone" \in chip[s].irq
        /\ spc' = [spc EXCEPT ![s] = "idle"] /\ sTX' = sTX
    BY <1>7 DEF SlaveSent
  <2>2. chip[s].mode # "tx" /\ "RxDone" \notin chip[s].irq
    BY <2>1 DEF RadioInv
  <2>3. LockInv'
    BY <1>0, <2>1, <2>2, QuietChipLock, ReceiveEffect DEF Arrived
  <2>4. RadioInv'
    BY <1>0, <2>1, ReceiveEffect, OtherRadios DEF TypeOK, SlaveTypeOK, ChipTypeOK
  <2>5. QED
    BY <2>3, <2>4
<1>8. CASE SlaveRestart(s)
  <2>1. ResetRadio(s, Receive(Begun))
    BY <1>8 DEF SlaveRestart
  <2>2. LockInv'
    BY <1>0, <2>1, BegunEffect, ResetRadioLock
  <2>3. chip'[s] = Receive(Begun)
    BY <1>0, <2>1 DEF ResetRadio
  <2>4. \A x \in Nodes \ {s} : /\ chip'[x].mode = chip[x].mode
                               /\ chip'[x].irq = chip[x].irq
                               /\ chip'[x].fifo = chip[x].fifo
    BY <2>1, LockEffect DEF ResetRadio, TypeOK, ChipTypeOK
  <2>5. /\ spc'[s] = "idle"
        /\ \A r \in Slaves \ {s} : spc'[r] = spc[r] /\ sTX'[r] = sTX[r]
    BY <1>8 DEF SlaveRestart, TypeOK, SlaveTypeOK
  <2>6. RadioInv'
    BY <2>3, <2>4, <2>5, BegunEffect, OtherRadios
  <2>7. QED
    BY <2>2, <2>6
<1>9. QED
  BY <1>2, <1>3, <1>4, <1>5, <1>6, <1>7, <1>8 DEF SlaveNext

\* RadioInv and LockInv when a transmission ends.
LEMMA RadioRadioLock ==
  ASSUME TypeOK, RadioInv, LockInv, NEW n \in Nodes, Air(n)
  PROVE  RadioInv' /\ LockInv'
<1>0. /\ chip[n].mode = "tx"
      /\ \A x \in Nodes : chip[x].lock \in Nodes \cup {NoNode}
  BY DEF Air, TransmissionDone, TypeOK, ChipTypeOK, Chip
<1>1. chip[n].fifo # NoPacket /\ (n \in Slaves => spc[n] = "txWait")
  <2>1. CASE n = Master
    BY <1>0, <2>1, RadioAssumption DEF RadioInv, TypeOK, MasterTypeOK
  <2>2. CASE n \in Slaves
    BY <1>0, <2>2, RadioAssumption DEF RadioInv, TypeOK, SlaveTypeOK
  <2>3. QED
    BY <2>1, <2>2, NodesFacts
<1>2. LockInv'
  <2>1. ASSUME NEW x \in Nodes
        PROVE  /\ chip'[x].lock # NoNode =>
                    /\ chip'[x].mode \in RxModes
                    /\ chip'[x].lock # x
                    /\ chip'[chip'[x].lock].mode = "tx"
               /\ Arrived(chip'[x]) => chip'[x].fifo # NoPacket
    <3>1. CASE x = n
      BY <1>1, <3>1, TransmissionDoneEffect
    <3>2. CASE x # n /\ chip[x].lock = n
      BY <1>1, <3>2, TransmissionDoneEffect DEF Arrived
    <3>3. CASE x # n /\ chip[x].lock # n
      <4>1. chip'[x] = chip[x]
        BY <3>3, TransmissionDoneEffect
      <4>2. ASSUME chip[x].lock # NoNode
            PROVE  chip'[chip[x].lock].mode = "tx"
        <5>1. chip[x].lock \in Nodes \ {n} /\ chip[chip[x].lock].mode = "tx"
          BY <1>0, <3>3, <4>2 DEF LockInv
        <5>2. chip[chip[x].lock].lock # n
          BY <5>1, NodesFacts DEF LockInv, RxModes
        <5>3. QED
          BY <5>1, <5>2, TransmissionDoneEffect
      <4>3. QED
        BY <4>1, <4>2 DEF LockInv
    <3>4. QED
      BY <3>1, <3>2, <3>3
  <2>2. QED
    BY <2>1 DEF LockInv, Arrived
<1>3. RadioInv'
  <2>1. chip'[Master].mode = "tx" => chip'[Master] = chip[Master]
    BY NodesFacts, TransmissionDoneEffect DEF RxModes
  <2>2. mpc # "txWait" => "TxDone" \notin chip'[Master].irq
    <3>1. CASE n = Master
      BY <1>0, <3>1 DEF RadioInv
    <3>2. CASE n # Master
      BY <3>2, NodesFacts, TransmissionDoneEffect DEF RadioInv
    <3>3. QED
      BY <3>1, <3>2
  <2>3. ASSUME NEW s \in Slaves
        PROVE  /\ chip'[s].mode = "tx" => chip'[s].fifo = sTX[s] /\ "TxDone" \notin chip'[s].irq
               /\ spc[s] = "txWait" => chip'[s].mode \in {"tx", "stdby"} /\ "RxDone" \notin chip'[s].irq
               /\ spc[s] # "txWait" => chip'[s].mode = "rxcont" /\ "TxDone" \notin chip'[s].irq
    <3>1. CASE s = n
      BY <1>0, <1>1, <3>1, TransmissionDoneEffect DEF RadioInv
    <3>2. CASE s # n /\ chip[s].lock = n
      BY <3>2, NodesFacts, TransmissionDoneEffect DEF RadioInv, RxModes
    <3>3. CASE s # n /\ chip[s].lock # n
      BY <3>3, NodesFacts, TransmissionDoneEffect DEF RadioInv
    <3>4. QED
      BY <3>1, <3>2, <3>3
  <2>4. QED
    BY <2>1, <2>2, <2>3 DEF Air, RadioInv, masterVars, slaveVars
<1>4. QED
  BY <1>2, <1>3

\* RadioInv and LockInv are inductive, given the types.
LEMMA RadioLockStep ==
  TypeOK /\ RadioInv /\ LockInv /\ [Next]_vars => RadioInv' /\ LockInv'
<1> SUFFICES ASSUME TypeOK, RadioInv, LockInv, [Next]_vars PROVE RadioInv' /\ LockInv'
  OBVIOUS
<1>1. CASE MasterNext /\ UNCHANGED slaveVars
  BY <1>1, MasterRadioLock
<1>2. ASSUME NEW s \in Slaves, SlaveNext(s), UNCHANGED <<masterVars, serverVars>>
      PROVE  RadioInv' /\ LockInv'
  BY <1>2, SlaveRadioLock
<1>3. ASSUME NEW n \in Nodes, Air(n)
      PROVE  RadioInv' /\ LockInv'
  BY <1>3, RadioRadioLock
<1>4. CASE UNCHANGED vars
  BY <1>4 DEF vars, RadioInv, LockInv, Arrived, masterVars, slaveVars
<1>5. QED
  BY <1>1, <1>2, <1>3, <1>4 DEF Next

-----------------------------------------------------------------------------
(* Where a packet in a FIFO comes from.                                    *)

\* The master leaves the chips of the slaves alone and writes only its packet into its own FIFO.
LEMMA MasterFifo ==
  ASSUME TypeOK, RadioInv, LockInv, MasterNext, UNCHANGED slaveVars
  PROVE  /\ \A s \in Slaves : chip'[s].fifo = chip[s].fifo /\ chip'[s].mode = chip[s].mode
         /\ \/ chip'[Master].fifo \in {chip[Master].fifo, NoPacket}
            \/ MasterSend /\ chip'[Master].fifo = mTX
<1>0. /\ chip[Master] \in Chip
      /\ \A s \in Slaves : s # Master /\ s \in Nodes /\ chip[s] \in Chip
  BY NodesFacts DEF TypeOK, ChipTypeOK
<1>1. CASE UNCHANGED chip
  BY <1>1
<1>2. CASE MasterSend
  <2>1. PICK hearers : StartTransmission(Master, mTX, hearers)
    BY <1>2 DEF MasterSend
  <2>2. QED
    BY <1>0, <1>2, <2>1, NodesFacts, TransmitEffect, LockEffect DEF StartTransmission
<1>3. ASSUME NEW d, chip' = [chip EXCEPT ![Master] = d], d.fifo \in {chip[Master].fifo, NoPacket}
      PROVE  /\ \A s \in Slaves : chip'[s].fifo = chip[s].fifo /\ chip'[s].mode = chip[s].mode
             /\ chip'[Master].fifo \in {chip[Master].fifo, NoPacket}
  BY <1>0, <1>3, NodesFacts DEF TypeOK, ChipTypeOK
<1>4. CASE MasterSent
  BY <1>0, <1>3, <1>4, ReceiveEffect DEF MasterSent
<1>5. CASE NothingArrived \/ MasterReceive
  BY <1>0, <1>3, <1>5, ParsePacketEffect DEF NothingArrived, MasterReceive
<1>6. CASE MasterRestart
  BY <1>0, <1>6, NodesFacts, BegunEffect, LockEffect DEF MasterRestart, ResetRadio
<1>7. QED
  BY <1>1, <1>2, <1>4, <1>5, <1>6
     DEF MasterNext, NoNewMessage, GetFailed, NewCommand, ErrorAnswer, WindowOver, IssueCommand

\* A slave leaves the other chips alone and writes only its packet into its own FIFO.
LEMMA SlaveFifo ==
  ASSUME TypeOK, RadioInv, LockInv, NEW s \in Slaves, SlaveNext(s)
  PROVE  /\ \A x \in Nodes \ {s} : chip'[x].fifo = chip[x].fifo /\ chip'[x].mode = chip[x].mode
         /\ \/ chip'[s].fifo \in {chip[s].fifo, NoPacket}
            \/ SlaveSend(s) /\ chip'[s].fifo = sTX[s]
         /\ chip'[s].mode = "tx" => chip[s].mode = "tx" \/ SlaveSend(s)
<1>0. s \in Nodes /\ \A x \in Nodes : chip[x] \in Chip
  BY NodesFacts DEF TypeOK, ChipTypeOK
<1>1. CASE UNCHANGED chip
  BY <1>1
<1>2. CASE SlaveSend(s)
  <2>1. PICK hearers : StartTransmission(s, sTX[s], hearers)
    BY <1>2 DEF SlaveSend
  <2>2. QED
    BY <1>0, <1>2, <2>1, TransmitEffect, LockEffect DEF StartTransmission
<1>3. ASSUME NEW d, chip' = [chip EXCEPT ![s] = d], d.fifo \in {chip[s].fifo, NoPacket},
             d.mode = "tx" => chip[s].mode = "tx"
      PROVE  /\ \A x \in Nodes \ {s} : chip'[x].fifo = chip[x].fifo /\ chip'[x].mode = chip[x].mode
             /\ chip'[s].fifo \in {chip[s].fifo, NoPacket}
             /\ chip'[s].mode = "tx" => chip[s].mode = "tx"
  BY <1>0, <1>3 DEF TypeOK, ChipTypeOK
<1>4. CASE BadPacket(s) \/ onReceive(s)
  BY <1>0, <1>3, <1>4, HandleDio0RiseEffect DEF BadPacket, onReceive
<1>5. CASE SlaveSent(s)
  BY <1>0, <1>3, <1>5, ReceiveEffect DEF SlaveSent
<1>6. CASE SlaveRestart(s)
  BY <1>0, <1>6, BegunEffect, LockEffect DEF SlaveRestart, ResetRadio
<1>7. QED
  BY <1>1, <1>2, <1>4, <1>5, <1>6 DEF SlaveNext, TakeFlag, Sensor_Reading

-----------------------------------------------------------------------------
(* Every packet was built by a node, and every reply follows a packet.     *)

\* There are no packets when the nodes boot.
LEMMA InitPacketSync == Init => PacketInv /\ SyncInv
<1> SUFFICES ASSUME Init PROVE PacketInv /\ SyncInv
  OBVIOUS
<1>1. \A n \in Nodes : chip[n].fifo = NoPacket
  BY BegunEffect DEF Init
<1>2. FromMaster(mTX)
  BY NodesFacts DEF Init, MasterInit, ZeroPacket, FromMaster
<1>3. PacketInv
  BY <1>1, <1>2 DEF PacketInv, Init, MasterInit, SlaveInit
<1>4. SyncInv
  BY DEF SyncInv, Init, MasterInit, SlaveInit, OwnClock
<1>5. QED
  BY <1>3, <1>4

\* Boots go up and rows are never changed, so an old packet stays a packet.
LEMMA PacketsStable ==
  ASSUME TypeOK, mBoot' \in Nat, mBoot' >= mBoot,
         UNCHANGED commandRows \/ \E r \in Rows : commandRows' = Append(commandRows, r)
  PROVE  /\ \A p : FromMaster(p) => FromMaster(p)'
         /\ \A p : FromSlave(p) => FromSlave(p)'
<1>0. mBoot \in Nat /\ commandRows \in Seq(Rows)
  BY DEF TypeOK, MasterTypeOK
<1>1. /\ Len(commandRows') \in Nat /\ Len(commandRows') >= Len(commandRows)
      /\ \A k \in 1 .. Len(commandRows) : commandRows'[k] = commandRows[k]
  BY <1>0
<1>2. QED
  BY <1>0, <1>1 DEF FromMaster, FromSlave

\* Boots and command rows only become more.
LEMMA HistoryGrows ==
  ASSUME TypeOK, [Next]_vars
  PROVE  /\ mBoot' \in Nat /\ mBoot' >= mBoot
         /\ UNCHANGED commandRows \/ \E r \in Rows : commandRows' = Append(commandRows, r)
<1>0. mBoot \in Nat
  BY DEF TypeOK, MasterTypeOK
<1>1. CASE MasterNext
  BY <1>0, <1>1 DEF MasterNext, NoNewMessage, GetFailed, NewCommand, ErrorAnswer, MasterSend, MasterSent,
     NothingArrived, MasterReceive, WindowOver, MasterRestart, IssueCommand, masterVars, serverVars
<1>2. CASE UNCHANGED <<masterVars, serverVars>>
  BY <1>0, <1>2 DEF masterVars, serverVars
<1>3. QED
  BY <1>1, <1>2 DEF Next, Air, vars

\* PacketInv and SyncInv over the steps of the master.
LEMMA MasterPacketSync ==
  ASSUME TypeOK, RadioInv, LockInv, PacketInv, SyncInv, MasterNext, UNCHANGED slaveVars
  PROVE  PacketInv' /\ SyncInv'
<1>0. /\ [Next]_vars
      /\ mBoot \in Nat \ {0} /\ mBoot' \in Nat /\ mBoot' >= mBoot
  BY HistoryGrows DEF Next, TypeOK, MasterTypeOK
<1>1. /\ \A p : FromMaster(p) => FromMaster(p)'
      /\ \A p : FromSlave(p) => FromSlave(p)'
  BY <1>0, HistoryGrows, PacketsStable
<1>2. SyncInv'
  BY <1>0 DEF SyncInv, slaveVars, TypeOK, SlaveTypeOK
<1>3. FromMaster(mTX)'
  <2>1. CASE UNCHANGED mTX
    <3>1. FromMaster(mTX)
      BY DEF PacketInv
    <3>2. QED
      BY <1>1, <2>1, <3>1 DEF FromMaster
  <2>2. CASE pktBuild /\ UNCHANGED mBoot
    BY <1>0, <2>2, NodesFacts DEF pktBuild, FromMaster, TypeOK, MasterTypeOK
  <2>3. CASE NewCommand
    <3>1. Len(commandRows) \in 1 .. Len(commandRows) /\ commandRows[Len(commandRows)] \in Rows
      BY <2>3 DEF NewCommand, TypeOK, MasterTypeOK
    <3>2. QED
      BY <1>0, <2>3, <3>1, NodesFacts DEF NewCommand, FromMaster, Rows, serverVars
  <2>4. CASE MasterRestart
    BY <1>0, <2>4, NodesFacts DEF MasterRestart, ZeroPacket, FromMaster, TypeOK, MasterTypeOK
  <2>5. QED
    BY <2>1, <2>2, <2>3, <2>4
       DEF MasterNext, NoNewMessage, GetFailed, ErrorAnswer, MasterSend, MasterSent,
           NothingArrived, MasterReceive, WindowOver, IssueCommand, masterVars
<1>4. \A s \in Slaves : spc'[s] \in {"send", "txWait"} => FromSlave(sTX[s])' /\ sTX'[s].nodeID = s
  BY <1>0 DEF PacketInv, FromSlave, slaveVars
<1>5. \A n \in Nodes : chip'[n].fifo # NoPacket => FromMaster(chip[n].fifo)' \/ FromSlave(chip[n].fifo)'
  <2>1. ASSUME NEW n \in Nodes, chip'[n].fifo # NoPacket
        PROVE  FromMaster(chip'[n].fifo) \/ FromSlave(chip'[n].fifo)
    <3>1. \/ chip'[n].fifo \in {chip[n].fifo, NoPacket}
          \/ chip'[n].fifo = mTX
      BY NodesFacts, MasterFifo
    <3>2. QED
      BY <2>1, <3>1 DEF PacketInv
  <2>2. QED
    BY <1>1, <2>1 DEF FromMaster, FromSlave
<1>6. \A k \in DOMAIN telemetryTbl' : FromSlave(telemetryTbl'[k])
  <2>1. CASE UNCHANGED telemetryTbl
    BY <2>1 DEF PacketInv
  <2>2. CASE MasterReceive /\ telemetryTbl' = Append(telemetryTbl, chip[Master].fifo)
                           /\ chip[Master].fifo.RXnodeID = Master
    <3>1. FromSlave(chip[Master].fifo)
      BY <2>2, NodesFacts DEF MasterReceive, LockInv, PacketInv, FromMaster
    <3>2. QED
      BY <2>2, <3>1 DEF PacketInv, TypeOK, MasterTypeOK
  <2>3. QED
    BY <2>1, <2>2
       DEF MasterNext, NoNewMessage, GetFailed, NewCommand, ErrorAnswer, MasterSend, MasterSent,
           NothingArrived, MasterReceive, WindowOver, MasterRestart, IssueCommand, serverVars
<1>7. PacketInv'
  <2>1. \A k \in DOMAIN telemetryTbl' : FromSlave(telemetryTbl[k])'
    BY <1>1, <1>6 DEF FromSlave
  <2>2. QED
    BY <1>3, <1>4, <1>5, <2>1 DEF PacketInv
<1>8. QED
  BY <1>2, <1>7

\* PacketInv and SyncInv over the steps of a slave.
LEMMA SlavePacketSync ==
  ASSUME TypeOK, RadioInv, LockInv, PacketInv, SyncInv, NEW s \in Slaves, SlaveNext(s),
         UNCHANGED <<masterVars, serverVars>>
  PROVE  PacketInv' /\ SyncInv'
<1>0. /\ UNCHANGED <<mBoot, commandRows, telemetryTbl, mTX>>
      /\ mBoot \in Nat \ {0} /\ s \in Nodes
  BY NodesFacts DEF masterVars, serverVars, TypeOK, MasterTypeOK
<1>1. FromMaster(mTX)' /\ \A k \in DOMAIN telemetryTbl' : FromSlave(telemetryTbl[k])'
  BY <1>0 DEF PacketInv, FromMaster, FromSlave
<1>2. \A n \in Nodes : chip'[n].fifo # NoPacket => FromMaster(chip[n].fifo)' \/ FromSlave(chip[n].fifo)'
  <2>1. ASSUME NEW n \in Nodes, chip'[n].fifo # NoPacket
        PROVE  FromMaster(chip'[n].fifo) \/ FromSlave(chip'[n].fifo)
    BY <2>1, SlaveFifo DEF PacketInv, SlaveSend
  <2>2. QED
    BY <1>0, <2>1 DEF FromMaster, FromSlave
<1>3. \A r \in Slaves : spc'[r] \in {"send", "txWait"} => FromSlave(sTX[r])' /\ sTX'[r].nodeID = r
  <2>1. CASE Sensor_Reading(s)
    <3>1. /\ spc' = [spc EXCEPT ![s] = "send"] /\ spc[s] = "build"
          /\ \A r \in Slaves \ {s} : sTX'[r] = sTX[r]
          /\ sTX'[s].nodeID = s /\ sTX'[s].RXnodeID = Master /\ sTX'[s].msgType = "Telemtry"
          /\ sTX'[s].timeStamp = timeSyncErr[s]
      BY <2>1 DEF Sensor_Reading, TypeOK, SlaveTypeOK
    <3>2. timeSyncErr[s] \in 1 .. mBoot
      BY <1>0, <3>1 DEF SyncInv, OwnClock
    <3>3. QED
      BY <1>0, <3>1, <3>2 DEF PacketInv, FromSlave, TypeOK, SlaveTypeOK
  <2>2. CASE SlaveRestart(s)
    BY <1>0, <2>2 DEF SlaveRestart, PacketInv, FromSlave, TypeOK, SlaveTypeOK
  <2>3. CASE SlaveSend(s)
    BY <1>0, <2>3 DEF SlaveSend, PacketInv, FromSlave, TypeOK, SlaveTypeOK
  <2>4. CASE BadPacket(s) \/ onReceive(s) \/ TakeFlag(s) \/ SlaveSent(s)
    <3>1. sTX' = sTX /\ \A r \in Slaves : spc'[r] \in {"send", "txWait"} => spc[r] \in {"send", "txWait"}
      BY <2>4 DEF BadPacket, onReceive, TakeFlag, SlaveSent, slaveVars, TypeOK, SlaveTypeOK
    <3>2. QED
      BY <1>0, <3>1 DEF PacketInv, FromSlave
  <2>5. QED
    BY <2>1, <2>2, <2>3, <2>4 DEF SlaveNext
<1>4. SyncInv'
  <2>1. CASE onReceive(s)
    <3>1. chip[s].fifo # NoPacket
      BY <1>0, <2>1 DEF onReceive, Interrupted, LockInv, Arrived
    <3>2. chip[s].fifo.timeStamp \in 1 .. mBoot
      BY <1>0, <3>1 DEF PacketInv, FromMaster, FromSlave
    <3>3. QED
      BY <1>0, <2>1, <3>2 DEF onReceive, SyncInv, OwnClock, TypeOK, SlaveTypeOK
  <2>2. CASE SlaveRestart(s)
    BY <1>0, <2>2 DEF SlaveRestart, SyncInv, OwnClock, TypeOK, SlaveTypeOK
  <2>3. CASE TakeFlag(s)
    BY <1>0, <2>3 DEF TakeFlag, SyncInv, TypeOK, SlaveTypeOK
  <2>4. CASE BadPacket(s) \/ Sensor_Reading(s) \/ SlaveSend(s) \/ SlaveSent(s)
    <3>1. /\ UNCHANGED <<timeSyncErr, receiveflag>>
          /\ \A r \in Slaves : spc'[r] = "build" => spc[r] = "build"
      BY <2>4 DEF BadPacket, Sensor_Reading, SlaveSend, SlaveSent, slaveVars, TypeOK, SlaveTypeOK
    <3>2. QED
      BY <1>0, <3>1 DEF SyncInv
  <2>5. QED
    BY <2>1, <2>2, <2>3, <2>4 DEF SlaveNext
<1>5. QED
  BY <1>1, <1>2, <1>3, <1>4 DEF PacketInv

\* PacketInv and SyncInv are inductive, given the parts before them.
LEMMA PacketSyncStep ==
  TypeOK /\ RadioInv /\ LockInv /\ PacketInv /\ SyncInv /\ [Next]_vars => PacketInv' /\ SyncInv'
<1> SUFFICES ASSUME TypeOK, RadioInv, LockInv, PacketInv, SyncInv, [Next]_vars
             PROVE  PacketInv' /\ SyncInv'
  OBVIOUS
<1>1. CASE MasterNext /\ UNCHANGED slaveVars
  BY <1>1, MasterPacketSync
<1>2. ASSUME NEW s \in Slaves, SlaveNext(s), UNCHANGED <<masterVars, serverVars>>
      PROVE  PacketInv' /\ SyncInv'
  BY <1>2, SlavePacketSync
<1>3. ASSUME NEW n \in Nodes, Air(n)
      PROVE  PacketInv' /\ SyncInv'
  <2>1. ASSUME NEW x \in Nodes, chip'[x].fifo # NoPacket
        PROVE  FromMaster(chip'[x].fifo) \/ FromSlave(chip'[x].fifo)
    BY <1>3, <2>1, TransmissionDoneEffect DEF PacketInv
  <2>2. QED
    BY <1>3, <2>1 DEF Air, PacketInv, SyncInv, FromMaster, FromSlave, masterVars, serverVars, slaveVars
<1>4. CASE UNCHANGED vars
  BY <1>4 DEF vars, PacketInv, SyncInv, FromMaster, FromSlave, masterVars, serverVars, slaveVars
<1>5. QED
  BY <1>1, <1>2, <1>3, <1>4 DEF Next

-----------------------------------------------------------------------------
(* Commands are obeyed in order.                                           *)

\* No slave has obeyed anything when the nodes boot.
LEMMA InitObey == Init => ObeyInv
<1> SUFFICES ASSUME Init PROVE ObeyInv
  OBVIOUS
<1>1. \A s \in Slaves : chip[s].fifo = NoPacket
  BY NodesFacts, BegunEffect DEF Init
<1>2. \A s \in Slaves : mTX.RXnodeID # s
  BY NodesFacts DEF Init, MasterInit, ZeroPacket
<1>3. \A s \in Slaves : obeyed[s] = 0 /\ led[s] = 1
  BY DEF Init, SlaveInit
<1>4. 0 \in 0 .. Len(commandRows)
  BY DEF Init, MasterInit
<1>5. QED
  BY <1>1, <1>2, <1>3, <1>4 DEF ObeyInv, CommandFor

\* The master sends no command older than one a slave has obeyed.
LEMMA MasterObey ==
  ASSUME TypeOK, RadioInv, LockInv, PacketInv, ObeyInv, MasterNext, UNCHANGED slaveVars
  PROVE  ObeyInv'
<1>0. /\ \A s \in Slaves : chip'[s].fifo = chip[s].fifo
      /\ commandRows \in Seq(Rows)
      /\ UNCHANGED commandRows \/ \E r \in Rows : commandRows' = Append(commandRows, r)
  BY MasterFifo, HistoryGrows DEF Next, TypeOK, MasterTypeOK
<1>1. /\ Len(commandRows) \in Nat /\ Len(commandRows') \in Nat /\ Len(commandRows') >= Len(commandRows)
      /\ \A k \in 1 .. Len(commandRows) : commandRows'[k] = commandRows[k]
  BY <1>0
<1>2. ASSUME NEW s \in Slaves
      PROVE  /\ obeyed'[s] \in 0 .. Len(commandRows')
             /\ obeyed'[s] = 0 => led'[s] = 1
             /\ obeyed'[s] > 0 => /\ commandRows'[obeyed'[s]].nodeID = s
                                  /\ led'[s] = 1 - commandRows'[obeyed'[s]].ledStatus
             /\ CommandFor(chip'[s].fifo, s) => chip'[s].fifo.row >= obeyed'[s]
  BY <1>0, <1>1 DEF ObeyInv, slaveVars
<1>3. ASSUME NEW s \in Slaves, CommandFor(mTX', s)
      PROVE  /\ mTX'.row >= obeyed'[s]
             /\ CommandFor(chip'[s].fifo, s) => mTX'.row >= chip'[s].fifo.row
  <2>1. CASE UNCHANGED mTX
    BY <1>0, <1>3, <2>1 DEF ObeyInv, slaveVars
  <2>2. CASE pktBuild
    BY <1>3, <2>2 DEF pktBuild, CommandFor
  <2>3. CASE NewCommand
    <3>1. mTX'.row = Len(commandRows)
      BY <2>3 DEF NewCommand
    <3>2. CommandFor(chip[s].fifo, s) => chip[s].fifo.row \in 1 .. Len(commandRows)
      BY NodesFacts DEF CommandFor, PacketInv, FromMaster, FromSlave
    <3>3. QED
      BY <1>0, <1>1, <3>1, <3>2 DEF ObeyInv, slaveVars
  <2>4. CASE MasterRestart
    BY <1>3, <2>4, NodesFacts DEF MasterRestart, ZeroPacket, CommandFor
  <2>5. QED
    BY <2>1, <2>2, <2>3, <2>4
       DEF MasterNext, NoNewMessage, GetFailed, ErrorAnswer, MasterSend, MasterSent,
           NothingArrived, MasterReceive, WindowOver, IssueCommand, masterVars
<1>4. QED
  BY <1>2, <1>3 DEF ObeyInv, CommandFor

\* A slave obeys what has arrived, which is no older than what it obeyed before.
LEMMA SlaveObey ==
  ASSUME TypeOK, RadioInv, LockInv, PacketInv, ObeyInv, NEW s \in Slaves, SlaveNext(s),
         UNCHANGED <<masterVars, serverVars>>
  PROVE  ObeyInv'
<1>0. /\ UNCHANGED <<commandRows, mTX>> /\ s \in Nodes
      /\ \A r \in Slaves \ {s} : chip'[r].fifo = chip[r].fifo
  BY SlaveFifo, NodesFacts DEF masterVars, serverVars
<1>1. CASE onReceive(s)
  <2>1. chip'[s].fifo = NoPacket
    BY <1>0, <1>1, HandleDio0RiseEffect DEF onReceive, TypeOK, ChipTypeOK
  <2>2. chip[s].fifo # NoPacket
    BY <1>0, <1>1 DEF onReceive, Interrupted, LockInv, Arrived
  <2>3. CASE UNCHANGED <<led, obeyed>>
    BY <1>0, <2>1, <2>3 DEF ObeyInv, CommandFor
  <2>4. CASE /\ chip[s].fifo.RXnodeID = s /\ chip[s].fifo.msgType # "CheckStatus"
             /\ led' = [led EXCEPT ![s] = 1 - chip[s].fifo.ledStatus]
             /\ obeyed' = [obeyed EXCEPT ![s] = chip[s].fifo.row]
    <3>1. CommandFor(chip[s].fifo, s)
      BY <2>2, <2>4 DEF CommandFor
    <3>2. /\ chip[s].fifo.row \in 1 .. Len(commandRows)
          /\ commandRows[chip[s].fifo.row].nodeID = s
          /\ commandRows[chip[s].fifo.row].ledStatus = chip[s].fifo.ledStatus
      BY <1>0, <2>2, <2>4, NodesFacts DEF PacketInv, FromMaster, FromSlave
    <3>3. CommandFor(mTX, s) => mTX.row >= chip[s].fifo.row
      BY <3>1 DEF ObeyInv
    <3>4. /\ obeyed'[s] = chip[s].fifo.row /\ led'[s] = 1 - chip[s].fifo.ledStatus
          /\ \A r \in Slaves \ {s} : obeyed'[r] = obeyed[r] /\ led'[r] = led[r]
      BY <2>4 DEF TypeOK, SlaveTypeOK
    <3>5. QED
      BY <1>0, <2>1, <3>2, <3>3, <3>4 DEF ObeyInv, CommandFor
  <2>5. QED
    BY <1>1, <2>3, <2>4 DEF onReceive
<1>2. CASE SlaveRestart(s)
  <2>1. chip'[s].fifo = NoPacket
    BY <1>0, <1>2, BegunEffect DEF SlaveRestart, ResetRadio
  <2>2. /\ obeyed'[s] = 0 /\ led'[s] = 1
        /\ \A r \in Slaves \ {s} : obeyed'[r] = obeyed[r] /\ led'[r] = led[r]
    BY <1>2 DEF SlaveRestart, TypeOK, SlaveTypeOK
  <2>3. mTX.row \in Nat /\ Len(commandRows) \in Nat
    BY DEF TypeOK, MasterTypeOK, Packet
  <2>4. QED
    BY <1>0, <2>1, <2>2, <2>3 DEF ObeyInv, CommandFor
<1>3. CASE UNCHANGED <<led, obeyed>>
  <2>1. ~ CommandFor(chip'[s].fifo, s) \/ chip'[s].fifo = chip[s].fifo
    <3>1. CASE SlaveSend(s)
      <4>1. sTX[s].RXnodeID = Master
        BY <3>1 DEF SlaveSend, PacketInv, FromSlave
      <4>2. QED
        BY <3>1, <4>1, SlaveFifo, NodesFacts DEF CommandFor
    <3>2. CASE ~ SlaveSend(s)
      BY <3>2, SlaveFifo DEF CommandFor
    <3>3. QED
      BY <3>1, <3>2
  <2>2. QED
    BY <1>0, <1>3, <2>1 DEF ObeyInv, CommandFor
<1>4. QED
  BY <1>1, <1>2, <1>3
     DEF SlaveNext, BadPacket, TakeFlag, Sensor_Reading, SlaveSend, SlaveSent, slaveVars

\* ObeyInv is inductive, given the parts before it.
LEMMA ObeyStep ==
  TypeOK /\ RadioInv /\ LockInv /\ PacketInv /\ ObeyInv /\ [Next]_vars => ObeyInv'
<1> SUFFICES ASSUME TypeOK, RadioInv, LockInv, PacketInv, ObeyInv, [Next]_vars PROVE ObeyInv'
  OBVIOUS
<1>1. CASE MasterNext /\ UNCHANGED slaveVars
  BY <1>1, MasterObey
<1>2. ASSUME NEW s \in Slaves, SlaveNext(s), UNCHANGED <<masterVars, serverVars>>
      PROVE  ObeyInv'
  BY <1>2, SlaveObey
<1>3. ASSUME NEW n \in Nodes, Air(n)
      PROVE  ObeyInv'
  <2>1. ASSUME NEW s \in Slaves, CommandFor(chip'[s].fifo, s)
        PROVE  chip'[s].fifo \in {chip[s].fifo, mTX}
    <3>1. chip'[s].fifo \in {chip[s].fifo, chip[n].fifo}
      BY <1>3, <2>1, NodesFacts, TransmissionDoneEffect DEF CommandFor
    <3>2. CASE n = Master
      BY <1>3, <3>1, <3>2 DEF Air, TransmissionDone, RadioInv
    <3>3. CASE n \in Slaves
      <4>1. chip[n].fifo = sTX[n] /\ spc[n] = "txWait"
        BY <1>3, <3>3 DEF Air, TransmissionDone, RadioInv
      <4>2. sTX[n].RXnodeID = Master
        BY <3>3, <4>1 DEF PacketInv, FromSlave
      <4>3. QED
        BY <2>1, <3>1, <4>1, <4>2, NodesFacts DEF CommandFor
    <3>4. QED
      BY <3>2, <3>3, NodesFacts
  <2>2. \A s \in Slaves : CommandFor(mTX, s) => mTX.row \in Nat
    BY DEF TypeOK, MasterTypeOK, Packet
  <2>3. QED
    BY <1>3, <2>1, <2>2 DEF Air, ObeyInv, CommandFor, masterVars, serverVars, slaveVars
<1>4. CASE UNCHANGED vars
  BY <1>4 DEF vars, ObeyInv, CommandFor, masterVars, serverVars, slaveVars
<1>5. QED
  BY <1>1, <1>2, <1>3, <1>4 DEF Next

-----------------------------------------------------------------------------
(* Telemetry is stored in the order it was made.                           *)

\* No reply exists when the nodes boot.
LEMMA InitOrder == Init => OrderInv
<1> SUFFICES ASSUME Init PROVE OrderInv
  OBVIOUS
<1>1. telemetryTbl = <<>> /\ chip[Master].fifo = NoPacket
  BY NodesFacts, BegunEffect DEF Init, MasterInit
<1>2. \A s \in Slaves : ~ Unsent(s)
  BY NodesFacts, BegunEffect DEF Init, SlaveInit, Unsent
<1>3. QED
  BY <1>1, <1>2 DEF OrderInv

\* The packets the order is about are typed, whoever sent them.
LEMMA PacketTypes ==
  ASSUME TypeOK
  PROVE  /\ \A k \in DOMAIN telemetryTbl : telemetryTbl[k] \in Packet
         /\ \A s \in Slaves : sTX[s] \in Packet /\ sBoot[s] \in Nat /\ sMsgCount[s] \in Nat
         /\ \A n \in Nodes : chip[n].fifo # NoPacket => chip[n].fifo \in Packet
         /\ \A p \in Packet : p.boot \in Nat /\ p.msgID \in Nat
<1>1. \A k \in DOMAIN telemetryTbl : telemetryTbl[k] \in Packet
  BY DEF TypeOK, MasterTypeOK
<1>2. \A s \in Slaves : sTX[s] \in Packet /\ sBoot[s] \in Nat /\ sMsgCount[s] \in Nat
  BY DEF TypeOK, SlaveTypeOK
<1>3. \A n \in Nodes : chip[n].fifo # NoPacket => chip[n].fifo \in Packet
  BY DEF TypeOK, ChipTypeOK, Chip
<1>4. \A p \in Packet : p.boot \in Nat /\ p.msgID \in Nat
  BY DEF Packet
<1>5. QED
  BY <1>1, <1>2, <1>3, <1>4

\* The master stores a reply that is newer than those it has stored.
LEMMA MasterOrder ==
  ASSUME TypeOK, RadioInv, LockInv, PacketInv, OrderInv, MasterNext, UNCHANGED slaveVars
  PROVE  OrderInv'
<1>0. /\ \A s \in Slaves : Unsent(s)' <=> Unsent(s)
      /\ UNCHANGED <<sTX, sBoot, sMsgCount>>
  BY MasterFifo DEF Unsent, slaveVars
<1>1. \A k \in DOMAIN telemetryTbl : telemetryTbl[k].nodeID \in Slaves
  BY DEF PacketInv, FromSlave
<1>2. CASE UNCHANGED telemetryTbl
  <2>1. \/ chip'[Master].fifo = chip[Master].fifo
        \/ chip'[Master].fifo = NoPacket
        \/ chip'[Master].fifo.nodeID \notin Slaves
    BY MasterFifo, NodesFacts DEF PacketInv, FromMaster
  <2>2. QED
    BY <1>0, <1>1, <1>2, <2>1 DEF OrderInv, MadeBeforeNext
<1>3. CASE /\ MasterReceive
           /\ telemetryTbl' = Append(telemetryTbl, chip[Master].fifo)
           /\ chip[Master].fifo.RXnodeID = Master
  <2>1. chip'[Master].fifo = NoPacket
    BY <1>3, NodesFacts, ParsePacketEffect DEF MasterReceive, TypeOK, ChipTypeOK
  <2>2. chip[Master].fifo # NoPacket /\ chip[Master].fifo.nodeID \in Slaves
    BY <1>3, NodesFacts DEF MasterReceive, LockInv, PacketInv, FromMaster, FromSlave
  <2>3. ASSUME NEW k \in DOMAIN telemetryTbl'
        PROVE  \/ k \in DOMAIN telemetryTbl /\ telemetryTbl'[k] = telemetryTbl[k]
               \/ telemetryTbl'[k] = chip[Master].fifo
    BY <1>3 DEF TypeOK, MasterTypeOK
  <2>4. ASSUME NEW k \in DOMAIN telemetryTbl'
        PROVE  LET p == telemetryTbl'[k] IN
                 /\ MadeBeforeNext(p)
                 /\ Unsent(p.nodeID) => Service!MadeAfter(sTX[p.nodeID], p)
    BY <2>2, <2>3 DEF OrderInv
  <2>5. ASSUME NEW s \in Slaves, Unsent(s)
        PROVE  MadeBeforeNext(sTX[s])
    BY <2>5 DEF OrderInv
  <2>6. QED
    BY <1>0, <2>1, <2>4, <2>5, <1>1, <2>2, <2>3 DEF OrderInv, MadeBeforeNext
<1>4. QED
  BY <1>2, <1>3
     DEF MasterNext, NoNewMessage, GetFailed, NewCommand, ErrorAnswer, MasterSend, MasterSent,
         NothingArrived, MasterReceive, WindowOver, MasterRestart, IssueCommand, serverVars

\* A slave builds a reply that is newer than those it has sent.
LEMMA SlaveOrder ==
  ASSUME TypeOK, RadioInv, LockInv, PacketInv, OrderInv, NEW s \in Slaves, SlaveNext(s),
         UNCHANGED <<masterVars, serverVars>>
  PROVE  OrderInv'
<1>0. /\ telemetryTbl' = telemetryTbl /\ chip'[Master].fifo = chip[Master].fifo
      /\ \A k \in DOMAIN telemetryTbl : telemetryTbl[k].nodeID \in Slaves
      /\ s \in Nodes
  BY SlaveFifo, NodesFacts DEF serverVars, PacketInv, FromSlave
<1>1. CASE Sensor_Reading(s)
  <2>1. /\ sTX'[s].boot = sBoot[s] /\ sTX'[s].msgID = sMsgCount[s] /\ sTX'[s].nodeID = s
        /\ sMsgCount'[s] = sMsgCount[s] + 1 /\ sBoot' = sBoot
        /\ spc'[s] = "send"
        /\ \A r \in Slaves \ {s} :
             sTX'[r] = sTX[r] /\ sMsgCount'[r] = sMsgCount[r] /\ spc'[r] = spc[r]
        /\ chip' = chip
    BY <1>1 DEF Sensor_Reading, TypeOK, SlaveTypeOK
  <2>2. sMsgCount[s] \in Nat /\ sBoot[s] \in Nat
    BY PacketTypes
  <2>3. \A p \in Packet : p.nodeID \in Slaves /\ MadeBeforeNext(p) => MadeBeforeNext(p)'
    BY <2>1, <2>2, PacketTypes DEF MadeBeforeNext
  <2>4. \A p \in Packet : p.nodeID = s /\ MadeBeforeNext(p) => Service!MadeAfter(sTX'[s], p)
    BY <2>1, <2>2, PacketTypes DEF MadeBeforeNext, Service!MadeAfter
  <2>5. \A r \in Slaves : Unsent(r)' <=> r = s \/ Unsent(r)
    BY <2>1 DEF Unsent
  <2>6. \A r \in Slaves : Unsent(r)' => MadeBeforeNext(sTX[r])'
    <3>1. MadeBeforeNext(sTX[s])'
      BY <2>1, <2>2 DEF MadeBeforeNext
    <3>2. ASSUME NEW r \in Slaves \ {s}, Unsent(r)
          PROVE  MadeBeforeNext(sTX[r])'
      <4>1. spc[r] \in {"send", "txWait"}
        BY <3>2 DEF Unsent, RadioInv, TypeOK, SlaveTypeOK
      <4>2. sTX[r].nodeID = r
        BY <4>1 DEF PacketInv
      <4>3. MadeBeforeNext(sTX[r])
        BY <3>2 DEF OrderInv
      <4>4. QED
        BY <2>1, <4>2, <4>3 DEF MadeBeforeNext
    <3>3. QED
      BY <2>5, <3>1, <3>2
  <2>7. QED
    BY <1>0, <2>1, <2>3, <2>4, <2>5, <2>6, PacketTypes, NodesFacts DEF OrderInv
<1>2. CASE SlaveRestart(s)
  <2>1. /\ sBoot'[s] = sBoot[s] + 1 /\ spc'[s] = "idle"
        /\ \A r \in Slaves \ {s} : /\ sTX'[r] = sTX[r] /\ sMsgCount'[r] = sMsgCount[r]
                                   /\ spc'[r] = spc[r] /\ sBoot'[r] = sBoot[r]
    BY <1>2 DEF SlaveRestart, TypeOK, SlaveTypeOK
  <2>2. chip'[s].mode = "rxcont"
    BY <1>0, <1>2, BegunEffect DEF SlaveRestart, ResetRadio
  <2>3. \A p \in Packet : p.nodeID \in Slaves /\ MadeBeforeNext(p) => MadeBeforeNext(p)'
    BY <2>1, PacketTypes DEF MadeBeforeNext
  <2>4. ~ Unsent(s)' /\ \A r \in Slaves \ {s} : Unsent(r)' <=> Unsent(r)
    BY <2>1, <2>2, SlaveFifo, NodesFacts DEF Unsent
  <2>5. \A r \in Slaves \ {s} : Unsent(r) => MadeBeforeNext(sTX[r])'
    <3>1. \A r \in Slaves : Unsent(r) => spc[r] \in {"send", "txWait"}
      BY DEF Unsent, RadioInv, TypeOK, SlaveTypeOK
    <3>2. \A r \in Slaves : Unsent(r) => sTX[r].nodeID = r
      BY <3>1 DEF PacketInv
    <3>3. QED
      BY <2>1, <3>2 DEF OrderInv, MadeBeforeNext
  <2>6. QED
    BY <1>0, <2>1, <2>3, <2>4, <2>5, PacketTypes, NodesFacts DEF OrderInv
<1>3. CASE BadPacket(s) \/ onReceive(s) \/ TakeFlag(s) \/ SlaveSend(s) \/ SlaveSent(s)
  <2>1. UNCHANGED <<sTX, sMsgCount, sBoot>>
    BY <1>3 DEF BadPacket, onReceive, TakeFlag, SlaveSend, SlaveSent, slaveVars
  <2>2. \A r \in Slaves : Unsent(r)' => Unsent(r)
    <3>1. Unsent(s)' => Unsent(s)
      <4>1. spc'[s] = "send" => spc[s] = "send"
        BY <1>3 DEF BadPacket, onReceive, TakeFlag, SlaveSend, SlaveSent, slaveVars, TypeOK, SlaveTypeOK
      <4>2. QED
        BY <4>1, SlaveFifo DEF Unsent, SlaveSend
    <3>2. \A r \in Slaves \ {s} : spc'[r] = spc[r]
      BY <1>3 DEF BadPacket, onReceive, TakeFlag, SlaveSend, SlaveSent, slaveVars, TypeOK, SlaveTypeOK
    <3>3. QED
      BY <3>1, <3>2, SlaveFifo, NodesFacts DEF Unsent
  <2>3. QED
    BY <1>0, <2>1, <2>2 DEF OrderInv, MadeBeforeNext
<1>4. QED
  BY <1>1, <1>2, <1>3 DEF SlaveNext

\* A reply that arrives is newer than those that are stored.
LEMMA RadioOrder ==
  ASSUME TypeOK, RadioInv, LockInv, PacketInv, OrderInv, NEW n \in Nodes, Air(n)
  PROVE  OrderInv'
<1>0. /\ telemetryTbl' = telemetryTbl
      /\ \A k \in DOMAIN telemetryTbl : telemetryTbl[k].nodeID \in Slaves
      /\ UNCHANGED <<sTX, sMsgCount, sBoot, spc>>
  BY DEF Air, serverVars, slaveVars, PacketInv, FromSlave
<1>1. \A r \in Slaves : Unsent(r)' => Unsent(r) /\ (r = n => spc[r] = "send")
  <2>1. \A r \in Slaves : chip'[r].mode = "tx" => chip[r].mode = "tx" /\ r # n
    BY NodesFacts, TransmissionDoneEffect DEF RxModes
  <2>2. QED
    BY <1>0, <2>1 DEF Unsent
<1>2. CASE chip'[Master].fifo \in {chip[Master].fifo, NoPacket}
  BY <1>0, <1>1, <1>2 DEF OrderInv, MadeBeforeNext
<1>3. CASE n \in Slaves /\ chip'[Master].fifo = sTX[n]
  <2>1. chip[n].mode = "tx" /\ spc[n] = "txWait"
    BY <1>3 DEF Air, TransmissionDone, RadioInv
  <2>2. sTX[n].nodeID = n /\ Unsent(n)
    BY <1>3, <2>1 DEF PacketInv, Unsent
  <2>3. ~ Unsent(n)'
    BY <1>1, <1>3, <2>1
  <2>4. QED
    BY <1>0, <1>1, <1>3, <2>2, <2>3 DEF OrderInv, MadeBeforeNext
<1>4. QED
  <2>1. \/ chip'[Master].fifo \in {chip[Master].fifo, NoPacket}
        \/ n # Master /\ chip'[Master].fifo = chip[n].fifo
    BY NodesFacts, TransmissionDoneEffect
  <2>2. n \in Slaves => chip[n].fifo = sTX[n]
    BY DEF Air, TransmissionDone, RadioInv
  <2>3. QED
    BY <1>2, <1>3, <2>1, <2>2, NodesFacts

\* OrderInv is inductive, given the parts before it.
LEMMA OrderStep ==
  TypeOK /\ RadioInv /\ LockInv /\ PacketInv /\ OrderInv /\ [Next]_vars => OrderInv'
<1> SUFFICES ASSUME TypeOK, RadioInv, LockInv, PacketInv, OrderInv, [Next]_vars PROVE OrderInv'
  OBVIOUS
<1>1. CASE MasterNext /\ UNCHANGED slaveVars
  BY <1>1, MasterOrder
<1>2. ASSUME NEW s \in Slaves, SlaveNext(s), UNCHANGED <<masterVars, serverVars>>
      PROVE  OrderInv'
  BY <1>2, SlaveOrder
<1>3. ASSUME NEW n \in Nodes, Air(n)
      PROVE  OrderInv'
  BY <1>3, RadioOrder
<1>4. CASE UNCHANGED vars
  BY <1>4 DEF vars, OrderInv, MadeBeforeNext, Unsent, masterVars, serverVars, slaveVars
<1>5. QED
  BY <1>1, <1>2, <1>3, <1>4 DEF Next

-----------------------------------------------------------------------------
(* The invariant and what follows from it.                                 *)

\* In every behaviour of the network the inductive invariant holds: the types,
\* the radios, the origin of packets, the clocks, and the order of commands and
\* of telemetry.
THEOREM Invariance == Spec => []IInv
<1>1. Init => IInv
  BY InitTypeOK, InitRadioLock, InitPacketSync, InitObey, InitOrder DEF IInv
<1>2. IInv /\ [Next]_vars => IInv'
  BY TypeStep, RadioLockStep, PacketSyncStep, ObeyStep, OrderStep DEF IInv
<1>3. QED
  BY <1>1, <1>2, PTL DEF Spec

\* Every variable of the network keeps its type.
THEOREM TypeCorrect == Spec => []TypeOK
<1>1. IInv => TypeOK
  BY DEF IInv
<1>2. QED
  BY <1>1, Invariance, PTL

\* Time sync: a time stamp in the telemetry table is on a clock of the master,
\* whatever the slaves took their sync from.
THEOREM TimeSync == Spec => []StoredTimesAreMasters
<1>1. IInv => StoredTimesAreMasters
  BY DEF IInv, PacketInv, FromSlave, StoredTimesAreMasters
<1>2. QED
  BY <1>1, Invariance, PTL

\* A packet in the air is the one its sender built, although the FIFO it is sent
\* from also takes what is received.
THEOREM FifoSafe == Spec => []SentAsBuilt
<1>1. IInv => SentAsBuilt
  BY DEF IInv, RadioInv, SentAsBuilt
<1>2. QED
  BY <1>1, Invariance, PTL

\* A slave is deaf only between the start of a transmission and the return of
\* endPacket.
THEOREM Listen == Spec => []SlavesListen
<1>1. IInv => SlavesListen
  BY DEF IInv, RadioInv, SlavesListen
<1>2. QED
  BY <1>1, Invariance, PTL

-----------------------------------------------------------------------------
(* The network implements the service.                                     *)

\* The service is about the same slaves.
LEMMA ServiceSlaves == Service!Slaves = Slaves
BY DEF Slaves, Service!Slaves

\* A step of the master is a step of the service, or shows nothing of it.
LEMMA ServiceStepMaster ==
  ASSUME IInv, MasterNext, UNCHANGED slaveVars
  PROVE  [Service!ServiceNext]_(Service!serviceVars)
<1>0. UNCHANGED <<obeyed, led>>
  BY DEF slaveVars
<1>1. CASE IssueCommand
  <2>1. PICK r \in Rows : commandRows' = Append(commandRows, r)
    BY <1>1 DEF IssueCommand
  <2>2. r = [nodeID |-> r.nodeID, ledStatus |-> r.ledStatus] /\ r.nodeID \in Slaves /\ r.ledStatus \in {0, 1}
    BY DEF Rows
  <2>3. Service!Issue
    BY <1>0, <1>1, <2>1, <2>2, ServiceSlaves DEF IssueCommand, Service!Issue
  <2>4. QED
    BY <2>3 DEF Service!ServiceNext
<1>2. CASE /\ MasterReceive
           /\ telemetryTbl' = Append(telemetryTbl, chip[Master].fifo)
           /\ chip[Master].fifo.RXnodeID = Master
  <2> DEFINE p == chip[Master].fifo
  <2>1. telemetryTbl \in Seq(Packet) /\ p \in Packet
    BY <1>2, NodesFacts, PacketTypes DEF MasterReceive, IInv, LockInv, TypeOK, MasterTypeOK
  <2>2. p # NoPacket /\ FromSlave(p)
    BY <1>2, NodesFacts DEF MasterReceive, IInv, LockInv, PacketInv, FromMaster
  <2>3. Service!Genuine(p)
    BY <2>2, ServiceSlaves DEF FromSlave, Service!Genuine
  <2>4. \A k \in DOMAIN telemetryTbl :
          telemetryTbl[k].nodeID = p.nodeID => Service!MadeAfter(p, telemetryTbl[k])
    BY <2>2 DEF IInv, OrderInv
  <2>5. telemetryTbl'[Len(telemetryTbl) + 1] = p /\ Len(telemetryTbl') = Len(telemetryTbl) + 1
    BY <1>2, <2>1
  <2>6. Service!Store
    BY <1>0, <1>2, <2>3, <2>4, <2>5 DEF MasterReceive, Service!Store
  <2>7. QED
    BY <2>6 DEF Service!ServiceNext
<1>3. CASE UNCHANGED <<commandRows, telemetryTbl>>
  BY <1>0, <1>3 DEF Service!serviceVars
<1>4. QED
  BY <1>1, <1>2, <1>3
     DEF MasterNext, NoNewMessage, GetFailed, NewCommand, ErrorAnswer, MasterSend, MasterSent,
         NothingArrived, MasterReceive, WindowOver, MasterRestart, serverVars

\* A step of a slave is a step of the service, or shows nothing of it.
LEMMA ServiceStepSlave ==
  ASSUME IInv, NEW s \in Slaves, SlaveNext(s), UNCHANGED <<masterVars, serverVars>>
  PROVE  [Service!ServiceNext]_(Service!serviceVars)
<1>0. UNCHANGED <<commandRows, telemetryTbl>> /\ s \in Nodes
  BY NodesFacts DEF serverVars
<1>1. CASE /\ onReceive(s)
           /\ chip[s].fifo.RXnodeID = s /\ chip[s].fifo.msgType # "CheckStatus"
           /\ led' = [led EXCEPT ![s] = 1 - chip[s].fifo.ledStatus]
           /\ obeyed' = [obeyed EXCEPT ![s] = chip[s].fifo.row]
  <2>1. chip[s].fifo # NoPacket
    BY <1>0, <1>1 DEF onReceive, Interrupted, IInv, LockInv, Arrived
  <2>2. /\ chip[s].fifo.row \in 1 .. Len(commandRows)
        /\ commandRows[chip[s].fifo.row].nodeID = s
        /\ commandRows[chip[s].fifo.row].ledStatus = chip[s].fifo.ledStatus
    BY <1>0, <1>1, <2>1, NodesFacts DEF IInv, PacketInv, FromMaster, FromSlave
  <2>3. chip[s].fifo.row >= obeyed[s]
    BY <1>1, <2>1 DEF IInv, ObeyInv, CommandFor
  <2>4. Service!Obey(s)
    BY <1>0, <1>1, <2>2, <2>3 DEF Service!Obey
  <2>5. QED
    BY <2>4, ServiceSlaves DEF Service!ServiceNext
<1>2. CASE SlaveRestart(s)
  <2>1. Service!Reset(s)
    BY <1>0, <1>2 DEF SlaveRestart, Service!Reset
  <2>2. QED
    BY <2>1, ServiceSlaves DEF Service!ServiceNext
<1>3. CASE UNCHANGED <<led, obeyed>>
  BY <1>0, <1>3 DEF Service!serviceVars
<1>4. QED
  BY <1>1, <1>2, <1>3
     DEF SlaveNext, BadPacket, onReceive, TakeFlag, Sensor_Reading, SlaveSend, SlaveSent, slaveVars

\* The network implements the service: commands are obeyed by the slave they were
\* issued for and never in a wrong order within a boot, the LED follows them, and
\* telemetry is stored genuine, in order and at most once, for any number of
\* slaves, commands, losses and restarts.
THEOREM Implements == Spec => ServiceSpec
<1>1. Init => Service!ServiceInit
  BY ServiceSlaves DEF Init, MasterInit, SlaveInit, Service!ServiceInit
<1>2. IInv /\ [Next]_vars => [Service!ServiceNext]_(Service!serviceVars)
  <2> SUFFICES ASSUME IInv, [Next]_vars PROVE [Service!ServiceNext]_(Service!serviceVars)
    OBVIOUS
  <2>1. CASE MasterNext /\ UNCHANGED slaveVars
    BY <2>1, ServiceStepMaster
  <2>2. ASSUME NEW s \in Slaves, SlaveNext(s), UNCHANGED <<masterVars, serverVars>>
        PROVE  [Service!ServiceNext]_(Service!serviceVars)
    BY <2>2, ServiceStepSlave
  <2>3. CASE UNCHANGED <<serverVars, slaveVars>>
    BY <2>3 DEF serverVars, slaveVars, Service!serviceVars
  <2>4. QED
    BY <2>1, <2>2, <2>3 DEF Next, Air, vars
<1>3. QED
  BY <1>1, <1>2, Invariance, PTL DEF Spec, ServiceSpec, Service!ServiceSpec
=============================================================================
