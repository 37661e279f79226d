---------------------------- MODULE StarNetwork -----------------------------
(***************************************************************************)
(* The star network: one MasterNode.ino, the slaves of its table each      *)
(* running SlaveNode.ino, their LoRa radios and the external server.       *)
(***************************************************************************)
EXTENDS MasterNode, SlaveNode

vars == <<chip, masterVars, serverVars, slaveVars>>

\* Every node has been through setup(): the slaves receive, the master idles.
Init ==
  /\ MasterInit
  /\ SlaveInit
  /\ chip = [n \in Nodes |-> IF n = Master THEN Begun ELSE Receive(Begun)]

\* The master polls its radio in the listening window only.
Air(n) ==
  /\ TransmissionDone(n, IF mpc = "listen" THEN {Master} ELSE {})
  /\ UNCHANGED <<masterVars, serverVars, slaveVars>>

Next ==
  \/ MasterNext /\ UNCHANGED slaveVars
  \/ \E s \in Slaves : SlaveNext(s) /\ UNCHANGED <<masterVars, serverVars>>
  \/ \E n \in Nodes : Air(n)

\* loop() is called for ever on every node, an interrupt that is raised is
\* served, and a packet that is being sent comes to its end.  The loop of a
\* slave has strong fairness: an interrupt only suspends it, and it gets the
\* processor between two packets, which take far longer to arrive than to serve.
Fairness ==
  /\ WF_vars((MasterSend \/ MasterSent \/ WindowOver) /\ UNCHANGED slaveVars)
  /\ \A s \in Slaves :
       /\ WF_vars((BadPacket(s) \/ onReceive(s)) /\ UNCHANGED <<masterVars, serverVars>>)
       /\ SF_vars((TakeFlag(s) \/ Sensor_Reading(s) \/ SlaveSend(s) \/ SlaveSent(s))
                    /\ UNCHANGED <<masterVars, serverVars>>)
  /\ \A n \in Nodes : WF_vars(Air(n))

Spec == Init /\ [][Next]_vars
FairSpec == Spec /\ Fairness

ChipTypeOK == chip \in [Nodes -> Chip]

\* Every variable has its type.
TypeOK == MasterTypeOK /\ SlaveTypeOK /\ ChipTypeOK

-----------------------------------------------------------------------------
\* The network implements the service it is there for.
Service == INSTANCE StarService

ServiceSpec == Service!ServiceSpec

\* "time sync between all nodes of network": whatever slaves hear, from whom
\* and in which order, a time stamp that reaches the server is on the clock of
\* a boot of the master, never on the own clock of a slave.
StoredTimesAreMasters ==
  \A k \in DOMAIN telemetryTbl : telemetryTbl[k].timeStamp \in 1 .. mBoot

\* The FIFO of the radio serves both directions; nothing that is received
\* changes a packet while it is being sent.
SentAsBuilt ==
  /\ chip[Master].mode = "tx" => chip[Master].fifo = mTX
  /\ \A s \in Slaves : chip[s].mode = "tx" => chip[s].fifo = sTX[s]

\* "Default in listen mode": a slave that is not sending is receiving, so it
\* is deaf only while it transmits.
SlavesListen ==
  \A s \in Slaves : spc[s] # "txWait" => chip[s].mode = "rxcont"

\* A packet for the slave is answered by a reply that is built after it came in,
\* unless the slave is reset before: a flag that is raised while another reply
\* is made is not lost, and the interrupts cannot starve the reply for ever.
ReplyEventually ==
  \A s \in Slaves, b \in 1 .. MaxResets + 1, c \in 1 .. MaxReplies :
    receiveflag[s] /\ sBoot[s] = b /\ sMsgCount[s] = c
      ~> sBoot[s] # b \/ sMsgCount[s] > c

\* endPacket() waits for TxDone without a timeout, on every node: it returns, the
\* master comes back to its poll of the server and a slave to its wait.
LoopReturns ==
  /\ mpc # "getData" ~> mpc = "getData"
  /\ \A s \in Slaves : spc[s] = "txWait" ~> spc[s] = "idle"

-----------------------------------------------------------------------------
\* MasterNode/Readme.md: a packet of the server is sent on only "if is it new
\* packet (With new msgID)"; if not, "master creates it's own request packet".
CommandOnlyWhenNew ==
  [][mpc = "getData" /\ mpc' = "send" /\ mTX'.msgType = "Command"
       => lastServerMsgID' > lastServerMsgID]_vars
=============================================================================
