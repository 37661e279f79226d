----------------------------- MODULE SlaveNode ------------------------------
(***************************************************************************)
(* SlaveNode.ino, a field node: onReceive runs in the DIO0 interrupt and   *)
(* preempts loop(), which answers a packet by building and sending one     *)
(* telemetry packet.  spc is the place in loop(); the interrupt may come   *)
(* between any two of its steps, and none of them runs before it.          *)
(***************************************************************************)
EXTENDS LoRa

CONSTANTS
  MaxReplies,   \* bound on msgCount of a slave
  MaxResets     \* bound on the resets of each slave

VARIABLES
  spc,          \* "idle", "build", "send", "txWait"
  receiveflag,
  sMsgCount,    \* msgCount
  sTX,          \* telemtryPacketTX
  rxLedStatus,  \* telemtryPacketRX.ledStatus, all of it that is read later
  timeSyncErr,  \* the clock that syncMillis() follows
  led,          \* the level of LED_BUILTIN
  sBoot,        \* history: which boot the slave is in
  obeyed        \* history: the server row of the last command of this boot

slaveVars == <<spc, receiveflag, sMsgCount, sTX, rxLedStatus, timeSyncErr, led,
               sBoot, obeyed>>

SlaveTypeOK ==
  /\ spc \in [Slaves -> {"idle", "build", "send", "txWait"}]
  /\ receiveflag \in [Slaves -> BOOLEAN]
  /\ sMsgCount \in [Slaves -> Nat \ {0}]
  /\ sTX \in [Slaves -> Packet]
  /\ rxLedStatus \in [Slaves -> {0, 1}]
  /\ timeSyncErr \in [Slaves -> Nat]
  /\ led \in [Slaves -> {0, 1}]
  /\ sBoot \in [Slaves -> Nat \ {0}]
  /\ obeyed \in [Slaves -> Nat]

SlaveInit ==
  /\ spc = [s \in Slaves |-> "idle"]
  /\ receiveflag = [s \in Slaves |-> FALSE]
  /\ sMsgCount = [s \in Slaves |-> 1]
  /\ sTX = [s \in Slaves |-> ZeroPacket(OwnClock, 1)]
  /\ rxLedStatus = [s \in Slaves |-> 0]
  /\ timeSyncErr = [s \in Slaves |-> OwnClock]
  /\ led = [s \in Slaves |-> 1]
  /\ sBoot = [s \in Slaves |-> 1]
  /\ obeyed = [s \in Slaves |-> 0]

-----------------------------------------------------------------------------
\* DIO0 is high: the interrupt is taken before anything else on this node.
Interrupted(s) == "RxDone" \in chip[s].irq

\* handleDio0Rise for a damaged packet: no callback.
BadPacket(s) ==
  /\ Interrupted(s)
  /\ "CrcError" \in chip[s].irq
  /\ chip' = [chip EXCEPT ![s] = HandleDio0Rise(@)]
  /\ UNCHANGED slaveVars

\* Mutant: only a command is used to sync the clock, a CheckStatus is not.
onReceiveLateSync(s) ==
  LET p == chip[s].fifo IN
  /\ Interrupted(s)
  /\ "CrcError" \notin chip[s].irq
  /\ chip' = [chip EXCEPT ![s] = HandleDio0Rise(@)]
  /\ rxLedStatus' = [rxLedStatus EXCEPT ![s] = p.ledStatus]
  /\ \/ /\ p.RXnodeID # s
        /\ UNCHANGED <<receiveflag, timeSyncErr, led, obeyed>>
     \/ /\ p.RXnodeID = s
        /\ receiveflag' = [receiveflag EXCEPT ![s] = TRUE]
        /\ \/ p.msgType = "CheckStatus" /\ UNCHANGED <<timeSyncErr, led, obeyed>>
           \/ /\ p.msgType # "CheckStatus"
              /\ timeSyncErr' = [timeSyncErr EXCEPT ![s] = p.timeStamp]
              /\ led' = [led EXCEPT ![s] = 1 - p.ledStatus]
              /\ obeyed' = [obeyed EXCEPT ![s] = p.row]
  /\ UNCHANGED <<spc, sMsgCount, sTX, sBoot>>

\* onReceive: telemtryPacketRX and timeSyncErr follow every packet heard, also
\* one for somebody else; only then is its addressee looked at.
onReceive(s) ==
  LET p == chip[s].fifo IN
  /\ Interrupted(s)
  /\ "CrcError" \notin chip[s].irq
  /\ chip' = [chip EXCEPT ![s] = HandleDio0Rise(@)]
  /\ rxLedStatus' = [rxLedStatus EXCEPT ![s] = p.ledStatus]
  /\ timeSyncErr' = [timeSyncErr EXCEPT ![s] = p.timeStamp]
  /\ \/ /\ p.RXnodeID # s
        /\ UNCHANGED <<receiveflag, led, obeyed>>
     \/ /\ p.RXnodeID = s
        /\ receiveflag' = [receiveflag EXCEPT ![s] = TRUE]
        /\ \/ p.msgType = "CheckStatus" /\ UNCHANGED <<led, obeyed>>
           \/ /\ p.msgType # "CheckStatus"
              /\ led' = [led EXCEPT ![s] = 1 - p.ledStatus]
              /\ obeyed' = [obeyed EXCEPT ![s] = p.row]
  /\ UNCHANGED <<spc, sMsgCount, sTX, sBoot>>

\* loop(): the flag is taken down before the reply is made.
TakeFlag(s) ==
  /\ ~ Interrupted(s)
  /\ spc[s] = "idle"
  /\ receiveflag[s]
  /\ sMsgCount[s] <= MaxReplies
  /\ receiveflag' = [receiveflag EXCEPT ![s] = FALSE]
  /\ spc' = [spc EXCEPT ![s] = "build"]
  /\ UNCHANGED <<chip, sMsgCount, sTX, rxLedStatus, timeSyncErr, led, sBoot, obeyed>>

\* Sensor_Reading: ledStatus is copied from the last packet heard, and the
\* time stamp is on the clock of the last packet heard.
Sensor_Reading(s) ==
  /\ ~ Interrupted(s)
  /\ spc[s] = "build"
  /\ sTX' = [sTX EXCEPT ![s] =
       [nodeID |-> s, RXnodeID |-> Master, msgType |-> "Telemtry",
        msgID |-> sMsgCount[s], timeStamp |-> timeSyncErr[s],
        ledStatus |-> rxLedStatus[s], boot |-> sBoot[s], row |-> 0]]
  /\ sMsgCount' = [sMsgCount EXCEPT ![s] = @ + 1]
  /\ spc' = [spc EXCEPT ![s] = "send"]
  /\ UNCHANGED <<chip, receiveflag, rxLedStatus, timeSyncErr, led, sBoot, obeyed>>

\* send() up to the wait of endPacket.
SlaveSend(s) ==
  /\ ~ Interrupted(s)
  /\ spc[s] = "send"
  /\ \E hearers \in SUBSET Listening(s) : StartTransmission(s, sTX[s], hearers)
  /\ spc' = [spc EXCEPT ![s] = "txWait"]
  /\ UNCHANGED <<receiveflag, sMsgCount, sTX, rxLedStatus, timeSyncErr, led, sBoot, obeyed>>

\* Mutants: send() without its LoRa.receive(); the flag is cleared after send().
SlaveSentWithoutReceive(s) ==
  /\ ~ Interrupted(s)
  /\ spc[s] = "txWait"
  /\ "TxDone" \in chip[s].irq
  /\ chip' = [chip EXCEPT ![s] = EndPacket(@)]
  /\ spc' = [spc EXCEPT ![s] = "idle"]
  /\ UNCHANGED <<receiveflag, sMsgCount, sTX, rxLedStatus, timeSyncErr, led, sBoot, obeyed>>

SlaveSentClearsFlag(s) ==
  /\ ~ Interrupted(s)
  /\ spc[s] = "txWait"
  /\ "TxDone" \in chip[s].irq
  /\ chip' = [chip EXCEPT ![s] = Receive(EndPacket(@))]
  /\ spc' = [spc EXCEPT ![s] = "idle"]
  /\ receiveflag' = [receiveflag EXCEPT ![s] = FALSE]
  /\ UNCHANGED <<sMsgCount, sTX, rxLedStatus, timeSyncErr, led, sBoot, obeyed>>

\* endPacket() returns, LoRa.receive(), and loop() starts again.
SlaveSent(s) ==
  /\ ~ Interrupted(s)
  /\ spc[s] = "txWait"
  /\ "TxDone" \in chip[s].irq
  /\ chip' = [chip EXCEPT ![s] = Receive(EndPacket(@))]
  /\ spc' = [spc EXCEPT ![s] = "idle"]
  /\ UNCHANGED <<receiveflag, sMsgCount, sTX, rxLedStatus, timeSyncErr, led, sBoot, obeyed>>

\* Mutant: setup() leaves the LED pin as it was.
SlaveRestartKeepsLed(s) ==
  /\ sBoot[s] <= MaxResets
  /\ sBoot' = [sBoot EXCEPT ![s] = @ + 1]
  /\ spc' = [spc EXCEPT ![s] = "idle"]
  /\ receiveflag' = [receiveflag EXCEPT ![s] = FALSE]
  /\ sMsgCount' = [sMsgCount EXCEPT ![s] = 1]
  /\ sTX' = [sTX EXCEPT ![s] = ZeroPacket(OwnClock, sBoot'[s])]
  /\ rxLedStatus' = [rxLedStatus EXCEPT ![s] = 0]
  /\ timeSyncErr' = [timeSyncErr EXCEPT ![s] = OwnClock]
  /\ obeyed' = [obeyed EXCEPT ![s] = 0]
  /\ UNCHANGED led
  /\ ResetRadio(s, Receive(Begun))

\* Reset and setup(): globals initialised, radio receiving, LED pin set to 1.
SlaveRestart(s) ==
  /\ sBoot[s] <= MaxResets
  /\ sBoot' = [sBoot EXCEPT ![s] = @ + 1]
  /\ spc' = [spc EXCEPT ![s] = "idle"]
  /\ receiveflag' = [receiveflag EXCEPT ![s] = FALSE]
  /\ sMsgCount' = [sMsgCount EXCEPT ![s] = 1]
  /\ sTX' = [sTX EXCEPT ![s] = ZeroPacket(OwnClock, sBoot'[s])]
  /\ rxLedStatus' = [rxLedStatus EXCEPT ![s] = 0]
  /\ timeSyncErr' = [timeSyncErr EXCEPT ![s] = OwnClock]
  /\ led' = [led EXCEPT ![s] = 1]
  /\ obeyed' = [obeyed EXCEPT ![s] = 0]
  /\ ResetRadio(s, Receive(Begun))

SlaveNext(s) ==
  \/ BadPacket(s) \/ onReceive(s)
  \/ TakeFlag(s) \/ Sensor_Reading(s) \/ SlaveSend(s) \/ SlaveSent(s)
  \/ SlaveRestart(s)
=============================================================================
