---------------------------- MODULE StarService -----------------------------
(***************************************************************************)
(* What the star network promises the owner of the server, without radios, *)
(* packets and loops: a slave obeys commands that were issued for it, and  *)
(* never goes back to an older one while it stays up; its LED shows the    *)
(* command it obeyed last; the telemetry table holds genuine telemetry,    *)
(* each packet at most once and in the order the slave made them.          *)
(* Nothing is promised about delivery: a command may never be obeyed, and  *)
(* telemetry may be lost.                                                  *)
(***************************************************************************)
EXTENDS StarPacket

VARIABLES
  commandRows,   \* the commands issued, in order
  obeyed,        \* per slave, the last command of this boot (0: none yet)
  led,           \* per slave, the level of its LED
  telemetryTbl   \* the telemetry stored, in order

serviceVars == <<commandRows, obeyed, led, telemetryTbl>>

ServiceInit ==
  /\ commandRows = <<>>
  /\ obeyed = [s \in Slaves |-> 0]
  /\ led = [s \in Slaves |-> 1]
  /\ telemetryTbl = <<>>

Issue ==
  /\ \E s \in Slaves, v \in {0, 1} :
       commandRows' = Append(commandRows, [nodeID |-> s, ledStatus |-> v])
  /\ UNCHANGED <<obeyed, led, telemetryTbl>>

\* Slave s obeys command k, the one it obeyed last or a later one.
Obey(s) ==
  /\ \E k \in 1 .. Len(commandRows) :
       /\ commandRows[k].nodeID = s
       /\ k >= obeyed[s]
       /\ obeyed' = [obeyed EXCEPT ![s] = k]
       /\ led' = [led EXCEPT ![s] = 1 - commandRows[k].ledStatus]
  /\ UNCHANGED <<commandRows, telemetryTbl>>

Reset(s) ==
  /\ obeyed' = [obeyed EXCEPT ![s] = 0]
  /\ led' = [led EXCEPT ![s] = 1]
  /\ UNCHANGED <<commandRows, telemetryTbl>>

\* p was made after q: in a later boot, or later in the same boot.
MadeAfter(p, q) ==
  \/ p.boot > q.boot
  \/ p.boot = q.boot /\ p.msgID > q.msgID

Genuine(p) == p.nodeID \in Slaves /\ p.RXnodeID = Master /\ p.msgType = "Telemtry"

\* One genuine packet, made after all that is stored of the same slave.
Store ==
  /\ Len(telemetryTbl') = Len(telemetryTbl) + 1
  /\ LET p == telemetryTbl'[Len(telemetryTbl) + 1] IN
       /\ Genuine(p)
       /\ \A k \in DOMAIN telemetryTbl :
            telemetryTbl[k].nodeID = p.nodeID => MadeAfter(p, telemetryTbl[k])
       /\ telemetryTbl' = Append(telemetryTbl, p)
  /\ UNCHANGED <<commandRows, obeyed, led>>

ServiceNext == Issue \/ Store \/ \E s \in Slaves : Obey(s) \/ Reset(s)

ServiceSpec == ServiceInit /\ [][ServiceNext]_serviceVars
=============================================================================
