----------------------------- MODULE MasterNode -----------------------------
(***************************************************************************)
(* MasterNode.ino, the gateway: it polls the server for a command, sends   *)
(* one packet to one slave, listens for 1200 ms and posts the telemetry    *)
(* it hears.  loop() is cut where the radio, the server or a reset can act *)
(* in between: mpc is the place in loop().                                 *)
(*                                                                         *)
(* The server is external: commandRows is the command table, of which      *)
(* data[0] of an answer is the newest row and the row number its msgID;    *)
(* telemetryTbl is what the POSTs inserted.                                *)
(***************************************************************************)
EXTENDS LoRa

CONSTANTS
  MaxMsgID,     \* bound on msgCount of the master
  MaxRows,      \* bound on the rows the server issues
  MaxBoots,     \* bound on the boots of each node
  ErrorAnswers  \* whether the server may answer with another code than 200

VARIABLES
  mpc,              \* "getData", "send", "txWait", "listen"
  mI,               \* static int i of pktBuild
  mMsgCount,        \* msgCount
  lastServerMsgID,  \* static int of getDataFromServer
  mTX,              \* telemtryPacketTX
  mBoot,            \* history: which boot the master is in
  commandRows,
  telemetryTbl

masterVars == <<mpc, mI, mMsgCount, lastServerMsgID, mTX, mBoot>>
serverVars == <<commandRows, telemetryTbl>>

Rows == [nodeID : Slaves, ledStatus : {0, 1}]

MasterTypeOK ==
  /\ mpc \in {"getData", "send", "txWait", "listen"}
  /\ mI \in 1 .. Len(slaveNode)
  /\ mMsgCount \in Nat \ {0}
  /\ lastServerMsgID \in Nat
  /\ mTX \in Packet
  /\ mBoot \in Nat \ {0}
  /\ commandRows \in Seq(Rows)
  /\ telemetryTbl \in Seq(Packet)

\* The globals and statics as a boot leaves them.
MasterInit ==
  /\ mpc = "getData"
  /\ mI = 1
  /\ mMsgCount = 1
  /\ lastServerMsgID = 0
  /\ mBoot = 1
  /\ mTX = ZeroPacket(1, 1)
  /\ commandRows = <<>>
  /\ telemetryTbl = <<>>

-----------------------------------------------------------------------------
\* The next entry of slaveNode[], round robin.
NextSlave(i) == IF i = Len(slaveNode) THEN 1 ELSE i + 1

pktBuild ==
  /\ mMsgCount <= MaxMsgID
  /\ mTX' = [nodeID |-> Master, RXnodeID |-> slaveNode[mI], msgType |-> "CheckStatus",
             msgID |-> mMsgCount, timeStamp |-> mBoot, ledStatus |-> 1,
             boot |-> mBoot, row |-> 0]
  /\ mMsgCount' = mMsgCount + 1
  /\ mI' = NextSlave(mI)

\* getDataFromServer, 200: data[0] is no newer than the last one routed; an
\* empty table reads as msgID 0.
NoNewMessage ==
  /\ mpc = "getData"
  /\ Len(commandRows) <= lastServerMsgID
  /\ pktBuild
  /\ mpc' = "send"
  /\ UNCHANGED <<lastServerMsgID, mBoot, chip, serverVars>>

\* getDataFromServer: the GET itself fails; or 200, but the answer does not
\* parse and every field of it, msgID too, reads as 0.
GetFailed ==
  /\ mpc = "getData"
  /\ pktBuild
  /\ mpc' = "send"
  /\ UNCHANGED <<lastServerMsgID, mBoot, chip, serverVars>>

\* getDataFromServer, 200 with a new msgID: the row becomes a command packet.
NewCommand ==
  /\ mpc = "getData"
  /\ Len(commandRows) > lastServerMsgID
  /\ mMsgCount <= MaxMsgID
  /\ LET k == Len(commandRows) IN
       /\ lastServerMsgID' = k
       /\ mTX' = [nodeID |-> Master, RXnodeID |-> commandRows[k].nodeID,
                  msgType |-> "Command", msgID |-> mMsgCount, timeStamp |-> mBoot,
                  ledStatus |-> commandRows[k].ledStatus, boot |-> mBoot, row |-> k]
  /\ mMsgCount' = mMsgCount + 1
  /\ mpc' = "send"
  /\ UNCHANGED <<mI, mBoot, chip, serverVars>>

\* getDataFromServer, any other code: no branch touches telemtryPacketTX.
ErrorAnswer ==
  /\ ErrorAnswers
  /\ mpc = "getData"
  /\ mpc' = "send"
  /\ UNCHANGED <<mI, mMsgCount, lastServerMsgID, mTX, mBoot, chip, serverVars>>

\* send() up to the wait of endPacket: whatever is in telemtryPacketTX goes out.
MasterSend ==
  /\ mpc = "send"
  /\ mpc' = "txWait"
  /\ \E hearers \in SUBSET Listening(Master) : StartTransmission(Master, mTX, hearers)
  /\ UNCHANGED <<mI, mMsgCount, lastServerMsgID, mTX, mBoot, serverVars>>

\* endPacket() returns, LoRa.receive(), and the listening window opens.
MasterSent ==
  /\ mpc = "txWait"
  /\ "TxDone" \in chip[Master].irq
  /\ chip' = [chip EXCEPT ![Master] = Receive(EndPacket(@))]
  /\ mpc' = "listen"
  /\ UNCHANGED <<mI, mMsgCount, lastServerMsgID, mTX, mBoot, serverVars>>

\* onreceive() while no packet has arrived.
NothingArrived ==
  /\ mpc = "listen"
  /\ ~ Arrived(chip[Master])
  /\ chip' = [chip EXCEPT ![Master] = ParsePacket(@)]
  /\ UNCHANGED <<masterVars, serverVars>>

\* onreceive() with a packet: one for somebody else is dropped, one for the
\* master is posted.  Nobody looks at the result of the POST: stored or lost.
MasterReceive ==
  /\ mpc = "listen"
  /\ Arrived(chip[Master])
  /\ chip' = [chip EXCEPT ![Master] = ParsePacket(@)]
  /\ \/ UNCHANGED telemetryTbl
     \/ /\ chip[Master].fifo.RXnodeID = Master
        /\ telemetryTbl' = Append(telemetryTbl, chip[Master].fifo)
  /\ UNCHANGED <<mpc, mI, mMsgCount, lastServerMsgID, mTX, mBoot, commandRows>>

\* The interval is over, loop() starts again.
WindowOver ==
  /\ mpc = "listen"
  /\ mpc' = "getData"
  /\ UNCHANGED <<mI, mMsgCount, lastServerMsgID, mTX, mBoot, chip, serverVars>>

\* Reset and setup(): every global and static is initialised again, and the
\* radio is reset and left idle.
MasterRestart ==
  /\ mBoot < MaxBoots
  /\ mBoot' = mBoot + 1
  /\ mpc' = "getData"
  /\ mI' = 1
  /\ mMsgCount' = 1
  /\ lastServerMsgID' = 0
  /\ mTX' = ZeroPacket(mBoot', mBoot')
  /\ ResetRadio(Master, Begun)
  /\ UNCHANGED serverVars

\* The server: somebody puts a new row into the command table.
IssueCommand ==
  /\ Len(commandRows) < MaxRows
  /\ \E r \in Rows : commandRows' = Append(commandRows, r)
  /\ UNCHANGED <<masterVars, chip, telemetryTbl>>

MasterNext ==
  \/ NoNewMessage \/ GetFailed \/ NewCommand \/ ErrorAnswer
  \/ MasterSend \/ MasterSent
  \/ NothingArrived \/ MasterReceive \/ WindowOver
  \/ MasterRestart
  \/ IssueCommand
=============================================================================
