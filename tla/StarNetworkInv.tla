--------------------------- MODULE StarNetworkInv ---------------------------
(***************************************************************************)
(* The inductive invariant of the star network, in named parts.  The runs  *)
(* check it on small instances, StarNetwork_proofs proves it.              *)
(***************************************************************************)
EXTENDS StarNetwork

\* The radio of a node and its place in loop() agree: only the wait of
\* endPacket sees the radio sending, and what is sent is the transmit packet.
RadioInv ==
  /\ chip[Master].mode = "tx" =>
       mpc = "txWait" /\ chip[Master].fifo = mTX /\ "TxDone" \notin chip[Master].irq
  /\ mpc # "txWait" => "TxDone" \notin chip[Master].irq
  /\ \A s \in Slaves :
       /\ chip[s].mode = "tx" => chip[s].fifo = sTX[s] /\ "TxDone" \notin chip[s].irq
       /\ spc[s] = "txWait" => chip[s].mode \in {"tx", "stdby"} /\ "RxDone" \notin chip[s].irq
       /\ spc[s] # "txWait" => chip[s].mode = "rxcont" /\ "TxDone" \notin chip[s].irq

\* A receiver is in the middle of a packet only while its sender is sending
\* it, and a flag for a good packet stands for a packet in the FIFO.
LockInv ==
  \A n \in Nodes :
    /\ chip[n].lock # NoNode =>
         /\ chip[n].mode \in RxModes
         /\ chip[n].lock # n
         /\ chip[chip[n].lock].mode = "tx"
    /\ Arrived(chip[n]) => chip[n].fifo # NoPacket

-----------------------------------------------------------------------------
\* A packet of the master: to one of its slaves, stamped by the clock of one of
\* its boots, and a command is a copy of a row of the server.
FromMaster(p) ==
  /\ p.nodeID \in {Master, NoNode}
  /\ p.RXnodeID \in Slaves \cup {NoNode}
  /\ p.timeStamp \in 1 .. mBoot
  /\ p.msgType \in {"Zero", "CheckStatus", "Command"}
  /\ p.RXnodeID \in Slaves /\ p.msgType # "CheckStatus" =>
       /\ p.row \in 1 .. Len(commandRows)
       /\ commandRows[p.row].nodeID = p.RXnodeID
       /\ commandRows[p.row].ledStatus = p.ledStatus

\* A packet of a slave: telemetry for the master, on the clock of the master.
FromSlave(p) ==
  /\ p.nodeID \in Slaves
  /\ p.RXnodeID = Master
  /\ p.msgType = "Telemtry"
  /\ p.timeStamp \in 1 .. mBoot

\* Everything that is sent, on its way, or stored was built by a node.
PacketInv ==
  /\ FromMaster(mTX)
  /\ \A s \in Slaves : spc[s] \in {"send", "txWait"} => FromSlave(sTX[s]) /\ sTX[s].nodeID = s
  /\ \A n \in Nodes : chip[n].fifo # NoPacket =>
       FromMaster(chip[n].fifo) \/ FromSlave(chip[n].fifo)
  /\ \A k \in DOMAIN telemetryTbl : FromSlave(telemetryTbl[k])

\* A slave replies only after a packet has set its clock to the master's.
SyncInv ==
  \A s \in Slaves :
    /\ timeSyncErr[s] \in 0 .. mBoot
    /\ receiveflag[s] \/ spc[s] = "build" => timeSyncErr[s] # OwnClock

-----------------------------------------------------------------------------
\* p is a packet that slave s will obey as a command.
CommandFor(p, s) == p # NoPacket /\ p.RXnodeID = s /\ p.msgType # "CheckStatus"

\* What is obeyed is no newer than what has arrived, and that no newer than
\* what the master has in its transmit packet.
ObeyInv ==
  \A s \in Slaves :
    /\ obeyed[s] \in 0 .. Len(commandRows)
    /\ obeyed[s] = 0 => led[s] = 1
    /\ obeyed[s] > 0 => /\ commandRows[obeyed[s]].nodeID = s
                        /\ led[s] = 1 - commandRows[obeyed[s]].ledStatus
    /\ CommandFor(chip[s].fifo, s) => chip[s].fifo.row >= obeyed[s]
    /\ CommandFor(mTX, s) =>
         /\ mTX.row >= obeyed[s]
         /\ CommandFor(chip[s].fifo, s) => mTX.row >= chip[s].fifo.row

-----------------------------------------------------------------------------
\* The packet is older than the next one its slave will build.
MadeBeforeNext(p) ==
  LET s == p.nodeID IN
    \/ p.boot < sBoot[s]
    \/ p.boot = sBoot[s] /\ p.msgID < sMsgCount[s]

\* Slave s has a packet built that it has not finished sending.
Unsent(s) == spc[s] = "send" \/ chip[s].mode = "tx"

\* Stored before arrived before unsent before not yet built.
OrderInv ==
  LET arrived == chip[Master].fifo IN
  /\ \A k \in DOMAIN telemetryTbl :
       /\ MadeBeforeNext(telemetryTbl[k])
       /\ arrived # NoPacket /\ arrived.nodeID = telemetryTbl[k].nodeID =>
            Service!MadeAfter(arrived, telemetryTbl[k])
       /\ Unsent(telemetryTbl[k].nodeID) => Service!MadeAfter(sTX[telemetryTbl[k].nodeID], telemetryTbl[k])
  /\ arrived # NoPacket /\ arrived.nodeID \in Slaves =>
       /\ MadeBeforeNext(arrived)
       /\ Unsent(arrived.nodeID) => Service!MadeAfter(sTX[arrived.nodeID], arrived)
  /\ \A s \in Slaves : Unsent(s) => MadeBeforeNext(sTX[s])

IInv == TypeOK /\ RadioInv /\ LockInv /\ PacketInv /\ SyncInv /\ ObeyInv /\ OrderInv
=============================================================================
