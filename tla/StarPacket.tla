----------------------------- MODULE StarPacket -----------------------------
(***************************************************************************)
(* The nodes of the star network and the one packet format they exchange:  *)
(* struct_message of MasterNode.ino and SlaveNode.ino.  Temperature,       *)
(* position and iCommType never decide anything in the sketches and are    *)
(* left out.  A timeStamp is abstracted to the clock it was read from: the *)
(* number of the master's boot whose millis() it is on, or OwnClock for a  *)
(* slave's own millis().                                                   *)
(*                                                                         *)
(* boot and row are history fields, not in the C struct: the boot of the   *)
(* sender that built the packet, and the server row a command was made     *)
(* from (0 in every other packet).  No guard reads them.                   *)
(***************************************************************************)
EXTENDS Naturals, Sequences

CONSTANTS
  Master,       \* #define node 10 of the master
  slaveNode,    \* the master's table of slaves, a sequence of node ids
  NoNode        \* the id 0 of a zero-initialised struct, no node has it

Slaves == {slaveNode[k] : k \in DOMAIN slaveNode}
Nodes  == Slaves \cup {Master}

ASSUME SlaveNodeAssumption ==
  /\ Len(slaveNode) \in Nat \ {0}
  /\ DOMAIN slaveNode = 1 .. Len(slaveNode)
  /\ Master \notin Slaves
  /\ NoNode \notin Nodes

OwnClock == 0

MsgTypes == {"Zero", "CheckStatus", "Command", "Telemtry"}

Packet == [nodeID    : Nodes \cup {NoNode},
           RXnodeID  : Nodes \cup {NoNode},
           msgType   : MsgTypes,
           msgID     : Nat,
           timeStamp : Nat,
           ledStatus : {0, 1},
           boot      : Nat,
           row       : Nat]

\* A struct_message global before anything is stored in it.  Its timeStamp 0
\* is the moment the clock of the sketch that owns it started.
ZeroPacket(clock, boot) ==
  [nodeID |-> NoNode, RXnodeID |-> NoNode, msgType |-> "Zero", msgID |-> 0,
   timeStamp |-> clock, ledStatus |-> 0, boot |-> boot, row |-> 0]
=============================================================================
