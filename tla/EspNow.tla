------------------------------- MODULE EspNow -------------------------------
(***************************************************************************)
(* The ESP-NOW star: Star_Master (two peers), Star_Slave and the sketch    *)
(* Bidirectional_Communication, which shows on its display what it hears   *)
(* (src/ComponentCodes/ESPNOW_StarNetwork).  On each node loop() runs on   *)
(* one task and the callbacks on the WiFi task, with no lock between them. *)
(* The readings are constants, so a message is the number of its round.    *)
(* ESP-NOW itself is external: frames are lost, or heard with the answer   *)
(* lost, and esp_now_send only takes frames for peers that were added.     *)
(***************************************************************************)
EXTENDS Integers, Sequences, SequencesExt, FiniteSets

CONSTANTS MaxRounds,    \* rounds of loop() on each node
          Powered       \* the sets of nodes that may be on together

Stars == {"master", "slave", "display"}
ASSUME StarAssumption == MaxRounds \in Nat \ {0} /\ Powered \subseteq SUBSET Stars

StarFields == <<"temp", "hum", "pres">>

\* broadcastAddress, broadcastAddress1: whom each sketch sends to, in order.
broadcastAddress == [master |-> <<"slave", "display">>, slave |-> <<"master">>,
                     display |-> <<"master">>]

VARIABLES addedPeers,                     \* the peers each node's driver knows
          hears,                          \* whether each node's OnDataRecv is registered
          isTold,                         \* whether each node's OnDataSent is registered
          loopPc,                         \* where each node's loop is
          rounds,                         \* rounds begun
          offered,                        \* the addresses this round's message went to, in order
          inbox,                          \* frames the WiFi task of a node has yet to hand over: [from, round]
          reports,                        \* send reports the WiFi task of a node has yet to hand over
          success,                        \* the status each node keeps of its last frame
          recvPc,                         \* the fields the display's OnDataRecv has written so far
          incomingReadings, incoming,     \* what the display keeps of its last message
          oled, serial,                   \* what one update has shown so far
          disturbed                       \* OnDataRecv ran during this update

setupVars == <<addedPeers, hears, isTold>>
keptVars == <<recvPc, incomingReadings, incoming>>
shownVars == <<oled, serial, disturbed>>
starVars == <<setupVars, loopPc, rounds, offered, inbox, reports, success, keptVars, shownVars>>

AtOnce(v) == [f \in Range(StarFields) |-> v]

(* What setup() may leave behind: an early return keeps what was           *)
(* registered so far.                                                      *)
SetUp(peers, told, heard) == [peers |-> peers, told |-> told, heard |-> heard, pc |-> "top"]
InitFails == SetUp({}, FALSE, FALSE)
IsOff == [InitFails EXCEPT !.pc = "off"]
MasterSetup ==
    {InitFails, SetUp({}, TRUE, FALSE), SetUp({broadcastAddress.master[1]}, TRUE, FALSE),
     SetUp(Range(broadcastAddress.master), TRUE, TRUE)}
SlaveSetup == {InitFails, SetUp({}, TRUE, FALSE), SetUp(Range(broadcastAddress.slave), TRUE, TRUE)}
\* Without memory for the display setup() never returns: as good as off.
DisplaySetup ==
    {IsOff, InitFails, SetUp({}, TRUE, FALSE), SetUp(Range(broadcastAddress.display), TRUE, TRUE)}

StarInit ==
    /\ \E on \in Powered :
       \E m \in IF "master" \in on THEN MasterSetup ELSE {IsOff},
          s \in IF "slave" \in on THEN SlaveSetup ELSE {IsOff},
          d \in IF "display" \in on THEN DisplaySetup ELSE {IsOff} :
          LET did == [master |-> m, slave |-> s, display |-> d] IN
          /\ addedPeers = [n \in Stars |-> did[n].peers]
          /\ isTold = [n \in Stars |-> did[n].told]
          /\ hears = [n \in Stars |-> did[n].heard]
          /\ loopPc = [n \in Stars |-> did[n].pc]
    /\ rounds = [n \in Stars |-> 0] /\ offered = [n \in Stars |-> <<>>]
    /\ inbox = [n \in Stars |-> <<>>] /\ reports = [n \in Stars |-> <<>>]
    /\ success = [n \in Stars |-> "none"]
    /\ recvPc = 0 /\ incomingReadings = AtOnce(0) /\ incoming = AtOnce(0)
    /\ oled = <<>> /\ serial = <<>> /\ disturbed = FALSE

(* esp_now_send (external): refused unless the address is a peer that was added. *)
(* The frame is heard or not; the sender is told that it was delivered     *)
(* only when it was heard and the answer came back.  Both callbacks come   *)
(* later, from the WiFi tasks.                                             *)
esp_now_send(n, to) ==
    \/ to \notin addedPeers[n] /\ UNCHANGED <<inbox, reports>>
    \/ /\ to \in addedPeers[n]
       /\ \E heard, answered \in BOOLEAN :
             /\ (answered => heard) /\ (heard => loopPc[to] # "off")
             /\ inbox' = [inbox EXCEPT ![to] =
                    IF heard /\ hears[to] THEN Append(@, [from |-> n, round |-> rounds'[n]]) ELSE @]
             /\ reports' = [reports EXCEPT ![n] =
                    IF isTold[n] THEN Append(@, IF answered THEN "delivered" ELSE "failed") ELSE @]

\* The send of this round to the k-th address, with getReadings() before the first.
SendsTo(n, k, next) ==
    /\ loopPc[n] = IF k = 1 THEN "top" ELSE "next"
    /\ rounds[n] < MaxRounds \/ k > 1
    /\ rounds' = [rounds EXCEPT ![n] = @ + (IF k = 1 THEN 1 ELSE 0)]
    /\ esp_now_send(n, broadcastAddress[n][k])
    /\ offered' = [offered EXCEPT ![n] = Append(IF k = 1 THEN <<>> ELSE @, broadcastAddress[n][k])]
    /\ loopPc' = [loopPc EXCEPT ![n] = next]
    /\ UNCHANGED <<setupVars, success, keptVars>>

MasterLoop == (SendsTo("master", 1, "next") \/ SendsTo("master", 2, "delay")) /\ UNCHANGED shownVars
SlaveLoop == SendsTo("slave", 1, "delay") /\ UNCHANGED shownVars
DisplayLoop ==
    /\ SendsTo("display", 1, "show")
    /\ oled' = <<>> /\ serial' = <<>> /\ disturbed' = (recvPc > 0)

(* updateDisplay(): the three readings and the status go to the display,   *)
(* then the struct to the serial monitor, each field when its turn comes.  *)
updateDisplay ==
    LET shows(shown, of) == Append(shown, of[StarFields[Len(shown) + 1]]) IN
    /\ loopPc["display"] = "show"
    /\ IF Len(oled) < 3 THEN oled' = shows(oled, incoming) /\ UNCHANGED serial
       ELSE IF Len(oled) = 3 THEN oled' = Append(oled, success["display"]) /\ UNCHANGED serial
       ELSE serial' = shows(serial, incomingReadings) /\ UNCHANGED oled
    /\ loopPc' = [loopPc EXCEPT !["display"] = IF Len(serial') = 3 THEN "delay" ELSE "show"]
    /\ UNCHANGED <<setupVars, rounds, offered, inbox, reports, success, keptVars, disturbed>>

\* delay(10000) ends.
DelayEnds(n) ==
    /\ loopPc[n] = "delay"
    /\ loopPc' = [loopPc EXCEPT ![n] = "top"]
    /\ UNCHANGED <<setupVars, rounds, offered, inbox, reports, success, keptVars, shownVars>>

\* One callback of a node's WiFi task; the display's OnDataRecv may be half way.
IsFree(n) == n # "display" \/ recvPc = 0

OnDataSent(n) ==
    /\ reports[n] # <<>> /\ IsFree(n)
    /\ success' = [success EXCEPT ![n] = Head(reports[n])]
    /\ reports' = [reports EXCEPT ![n] = Tail(@)]
    /\ UNCHANGED <<setupVars, loopPc, rounds, offered, inbox, keptVars, shownVars>>
MasterOnDataSent == OnDataSent("master")
SlaveOnDataSent == OnDataSent("slave")
DisplayOnDataSent == OnDataSent("display")

\* Master and slave print the message: nobody else reads what they copy.
Prints(n) ==
    /\ inbox[n] # <<>>
    /\ inbox' = [inbox EXCEPT ![n] = Tail(@)]
    /\ UNCHANGED <<setupVars, loopPc, rounds, offered, reports, success, keptVars, shownVars>>
MasterOnDataRecv == Prints("master")
SlaveOnDataRecv == Prints("slave")

(* The display's OnDataRecv: the struct word by word, then the three       *)
(* readings, which are constants there: 1 says that a message was heard.   *)
DisplayOnDataRecv ==
    /\ inbox["display"] # <<>>
    /\ IF recvPc < 3
       THEN /\ incomingReadings' = [incomingReadings EXCEPT ![StarFields[recvPc + 1]] = Head(inbox["display"]).round]
            /\ UNCHANGED incoming
       ELSE /\ incoming' = [incoming EXCEPT ![StarFields[recvPc - 2]] = 1]
            /\ UNCHANGED incomingReadings
    /\ recvPc' = (recvPc + 1) % 6
    /\ inbox' = IF recvPc = 5 THEN [inbox EXCEPT !["display"] = Tail(@)] ELSE inbox
    /\ disturbed' = (disturbed \/ loopPc["display"] = "show")
    /\ UNCHANGED <<setupVars, loopPc, rounds, offered, reports, success, oled, serial>>

StarNext ==
    \/ MasterLoop \/ SlaveLoop \/ DisplayLoop \/ updateDisplay
    \/ \E n \in Stars : DelayEnds(n)
    \/ MasterOnDataSent \/ SlaveOnDataSent \/ DisplayOnDataSent
    \/ MasterOnDataRecv \/ SlaveOnDataRecv \/ DisplayOnDataRecv

StarSpec == StarInit /\ [][StarNext]_starVars

---------------------------------------------------------------------------
(* What the star promises.                                                 *)

\* A round offers its message to each address once, in order, whatever setup() left undone.
RoundReachesAll ==
    \A n \in Stars : loopPc[n] \in {"delay", "show"} => offered[n] = broadcastAddress[n]

\* The display shows one message in one update, and one it heard, unless a
\* message came in while it was being shown.
ShownWhole ==
    loopPc["display"] = "delay" /\ ~disturbed =>
        /\ \A i, j \in 1..3 : oled[i] = oled[j] /\ serial[i] = serial[j]
        /\ (oled[1] = 1) <=> (serial[1] > 0)

\* A node whose setup() stopped before the end hears nothing, and one told of no peer sends nothing.
PartialSetup ==
    /\ ~hears["display"] => incomingReadings = AtOnce(0) /\ incoming = AtOnce(0)
    /\ \A n \in Stars : \A i \in DOMAIN inbox[n] : n \in addedPeers[inbox[n][i].from]
    /\ \A n \in Stars : hears[n] => addedPeers[n] = Range(broadcastAddress[n])

\* What the ESP-NOW sketches keep (Star_Master, Star_Slave, Bidirectional_Communication).
EspNowKept == RoundReachesAll /\ ShownWhole /\ PartialSetup
=============================================================================
