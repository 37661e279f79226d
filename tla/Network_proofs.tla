--------------------------- MODULE Network_proofs ---------------------------
(***************************************************************************)
(* Proofs about the parts of the libraries that hold connections, each for *)
(* every value of its constants: the ESP-NOW star sketches, AsyncServer,   *)
(* the TLS sessions of tcp_axtls.c, and the buffers of AsyncTCPbuffer and  *)
(* SyncClient.  A section has the inductive invariant of its part, a lemma *)
(* per action, and the theorem at its end.                                 *)
(***************************************************************************)
EXTENDS LibrariesKept, FiniteSetTheorems, SequenceTheorems, WellFoundedInduction, TLAPS

-----------------------------------------------------------------------------
(* Sequences.                                                              *)

\* Append puts one element behind the others, which stay.
LEMMA AppendFacts ==
  ASSUME NEW S, NEW q \in Seq(S), NEW e \in S
  PROVE  /\ Append(q, e) \in Seq(S)
         /\ Len(Append(q, e)) = Len(q) + 1
         /\ \A i \in 1 .. Len(q) : Append(q, e)[i] = q[i]
         /\ Append(q, e)[Len(q) + 1] = e
         /\ DOMAIN Append(q, e) = 1 .. Len(q) + 1
         /\ DOMAIN q = 1 .. Len(q) /\ Len(q) \in Nat
OBVIOUS

\* The head is the first element.
LEMMA HeadFacts ==
  ASSUME NEW S, NEW q \in Seq(S), q # <<>>
  PROVE  Head(q) = q[1] /\ Head(q) \in S /\ Len(q) \in Nat \ {0}
OBVIOUS

\* An element behind one other.
LEMMA AppendOne ==
  ASSUME NEW S, NEW a \in S, NEW b \in S
  PROVE  Append(<<a>>, b) = <<a, b>>
<1>1. /\ <<a>> \in Seq(S) /\ <<a, b>> \in Seq(S) /\ Len(<<a>>) = 1 /\ Len(<<a, b>>) = 2
      /\ <<a>>[1] = a /\ <<a, b>>[1] = a /\ <<a, b>>[2] = b
  OBVIOUS
<1>2. ASSUME NEW q \in Seq(S), NEW p \in Seq(S), Len(q) = 1, Len(p) = 2, q[1] = p[1], p[2] = b
      PROVE  Append(q, b) = p
  <2>1. /\ Append(q, b) \in Seq(S) /\ Len(Append(q, b)) = 2
        /\ Append(q, b)[1] = q[1] /\ Append(q, b)[2] = b
    <3>1. /\ Append(q, b) \in Seq(S)
          /\ Len(Append(q, b)) = Len(q) + 1
          /\ \A i \in 1 .. Len(q) : Append(q, b)[i] = q[i]
          /\ Append(q, b)[Len(q) + 1] = b
      BY AppendFacts
    <3>2. Len(q) + 1 = 2 /\ 1 \in 1 .. Len(q)
      BY <1>2
    <3> QED BY <3>1, <3>2
  <2> QED BY <1>2, <2>1, SeqEqual
<1> QED BY <1>1, <1>2

\* Append, and the head of what it gives.
LEMMA SeqFacts ==
  ASSUME NEW S, NEW q \in Seq(S), NEW e \in S
  PROVE  /\ Append(q, e) \in Seq(S)
         /\ Len(Append(q, e)) = Len(q) + 1
         /\ Append(q, e) # <<>>
         /\ \A i \in 1 .. Len(q) : Append(q, e)[i] = q[i]
         /\ Append(q, e)[Len(q) + 1] = e
         /\ DOMAIN Append(q, e) = 1 .. Len(q) + 1
         /\ q # <<>> => Head(Append(q, e)) = Head(q) /\ Head(q) = q[1] /\ Head(q) \in S
         /\ DOMAIN q = 1 .. Len(q) /\ Len(q) \in Nat
<1>1. /\ Append(q, e) \in Seq(S)
      /\ Len(Append(q, e)) = Len(q) + 1
      /\ \A i \in 1 .. Len(q) : Append(q, e)[i] = q[i]
      /\ Append(q, e)[Len(q) + 1] = e
      /\ DOMAIN Append(q, e) = 1 .. Len(q) + 1
      /\ DOMAIN q = 1 .. Len(q) /\ Len(q) \in Nat
  BY AppendFacts
<1>2. Append(q, e) # <<>>
  BY <1>1
<1>3. ASSUME q # <<>> PROVE Head(Append(q, e)) = Head(q) /\ Head(q) = q[1] /\ Head(q) \in S
  <2>1. Head(q) = q[1] /\ Head(q) \in S /\ Len(q) \in Nat \ {0}
    BY <1>3, HeadFacts
  <2>2. Head(Append(q, e)) = Append(q, e)[1]
    BY <1>1, <1>2, HeadFacts
  <2>3. Append(q, e)[1] = q[1]
    <3>1. 1 \in 1 .. Len(q)
      BY <2>1
    <3> QED BY <3>1, <1>1
  <2> QED BY <2>1, <2>2, <2>3
<1> QED BY <1>1, <1>2, <1>3

\* The tail is what follows the head.
LEMMA TailFacts ==
  ASSUME NEW S, NEW q \in Seq(S), q # <<>>
  PROVE  /\ Tail(q) \in Seq(S)
         /\ Head(q) \in S /\ Head(q) = q[1]
         /\ Len(Tail(q)) = Len(q) - 1
         /\ \A i \in DOMAIN Tail(q) : Tail(q)[i] = q[i + 1] /\ i + 1 \in DOMAIN q
OBVIOUS

\* An element in front of the others moves each by one place.
LEMMA FrontPlaces ==
  ASSUME NEW S, NEW q \in Seq(S), NEW e \in S
  PROVE  /\ <<e>> \o q \in Seq(S)
         /\ DOMAIN (<<e>> \o q) = 1 .. Len(q) + 1 /\ DOMAIN q = 1 .. Len(q)
         /\ (<<e>> \o q)[1] = e
         /\ \A i \in 1 .. Len(q) : (<<e>> \o q)[i + 1] = q[i]
         /\ \A i \in 2 .. Len(q) + 1 : (<<e>> \o q)[i] = q[i - 1]
         /\ Len(q) \in Nat
OBVIOUS

\* Without the head each element moves by one place.
LEMMA TailPlaces ==
  ASSUME NEW S, NEW q \in Seq(S), q # <<>>
  PROVE  /\ Tail(q) \in Seq(S) /\ Head(q) \in S /\ Head(q) = q[1]
         /\ DOMAIN Tail(q) = 1 .. Len(q) - 1 /\ DOMAIN q = 1 .. Len(q)
         /\ \A i \in 1 .. Len(q) - 1 : Tail(q)[i] = q[i + 1]
         /\ Len(q) \in Nat \ {0}
OBVIOUS

\* One element replaced.
LEMMA ExceptPlaces ==
  ASSUME NEW S, NEW q \in Seq(S), NEW i, NEW e \in S
  PROVE  /\ [q EXCEPT ![i] = e] \in Seq(S)
         /\ DOMAIN [q EXCEPT ![i] = e] = DOMAIN q
         /\ \A c \in DOMAIN q : [q EXCEPT ![i] = e][c] = IF c = i THEN e ELSE q[c]
<1> DEFINE r == [q EXCEPT ![i] = e]
<1>1. q \in [1 .. Len(q) -> S] /\ Len(q) \in Nat
  OBVIOUS
<1>2. r \in [1 .. Len(q) -> S]
  BY <1>1
<1>3. r \in Seq(S)
  BY <1>1, <1>2
<1>4. DOMAIN r = DOMAIN q
  OBVIOUS
<1>5. \A c \in DOMAIN q : r[c] = IF c = i THEN e ELSE q[c]
  OBVIOUS
<1> QED BY <1>3, <1>4, <1>5

-----------------------------------------------------------------------------
(* ESP-NOW star sketches.                                                  *)

\* What is on the air, and what a reading consists of.
StarFrame == [from : Stars, round : Nat \ {0}]
FieldNames == {"temp", "hum", "pres"}

\* What the variables of the boards hold; the screens are in ScreenOK.
StarTypeOK ==
  /\ addedPeers \in [Stars -> SUBSET Stars]
  /\ hears \in [Stars -> BOOLEAN]
  /\ loopPc \in [Stars -> {"off", "top", "next", "delay", "show"}]
  /\ rounds \in [Stars -> Nat]
  /\ inbox \in [Stars -> Seq(StarFrame)]
  /\ recvPc \in 0 .. 5
  /\ incomingReadings \in [FieldNames -> Nat]
  /\ incoming \in [FieldNames -> {0, 1}]

\* Where a loop is, its round was offered to whom it sends to.
LoopInv == \A n \in Stars :
  /\ loopPc[n] = "next" => n = "master" /\ offered[n] = <<"slave">> /\ rounds[n] > 0
  /\ loopPc[n] = "show" => n = "display"
  /\ loopPc[n] \in {"delay", "show"} => offered[n] = broadcastAddress[n]

\* Who hears has all its peers, and a frame is on its way between peers only.
HearInv == \A n \in Stars :
  /\ ~hears[n] => inbox[n] = <<>>
  /\ hears[n] => addedPeers[n] = Range(broadcastAddress[n])
  /\ \A i \in DOMAIN inbox[n] : n \in addedPeers[inbox[n][i].from]

\* The display's OnDataRecv has written what it has come to,
RecvInv ==
  /\ recvPc # 0 => inbox["display"] # <<>>
  /\ ~hears["display"] => incomingReadings = AtOnce(0) /\ incoming = AtOnce(0)
  /\ \A i \in 1 .. 3 : i <= recvPc => incomingReadings[StarFields[i]] = Head(inbox["display"]).round
  /\ \A i \in 1 .. 3 : i <= recvPc - 3 => incoming[StarFields[i]] = 1
  /\ recvPc = 0 => /\ \A i, j \in 1 .. 3 : /\ incomingReadings[StarFields[i]] = incomingReadings[StarFields[j]]
                                           /\ incoming[StarFields[i]] = incoming[StarFields[j]]
                   /\ incoming["temp"] = 1 <=> incomingReadings["temp"] > 0

\* and updateDisplay() has shown what was kept.
ShowInv ==
  loopPc["display"] = "show" =>
    /\ Len(oled) <= 4 /\ Len(serial) <= 2
    /\ Len(oled) < 4 => serial = <<>>
    /\ ~disturbed =>
         /\ recvPc = 0
         /\ \A i \in 1 .. 3 : i <= Len(oled) => oled[i] = incoming[StarFields[i]]
         /\ \A i \in 1 .. 3 : i <= Len(serial) => serial[i] = incomingReadings[StarFields[i]]

\* All of it, with the property that the display shows whole messages.
StarInv == StarTypeOK /\ LoopInv /\ HearInv /\ RecvInv /\ ShowInv /\ ShownWhole

\* What a line of the display shows: a reading, or how a message fared.
Shown == Nat \cup {"none", "delivered", "failed"}

\* What the screens and the callbacks hold.
ScreenOK ==
  /\ offered \in [Stars -> Seq(Stars)]
  /\ success \in [Stars -> {"none", "delivered", "failed"}]
  /\ reports \in [Stars -> Seq({"delivered", "failed"})]
  /\ oled \in Seq(Shown) /\ serial \in Seq(Nat)

\* The inductive invariant.
StarIndInv == StarInv /\ ScreenOK

\* The three readings, in the order of the message.
LEMMA Names ==
  /\ Range(StarFields) = FieldNames
  /\ StarFields[1] = "temp" /\ StarFields[2] = "hum" /\ StarFields[3] = "pres"
  /\ \A v : AtOnce(v) = [f \in FieldNames |-> v]
<1>1. Range(StarFields) = FieldNames
  BY DEF Range, StarFields, FieldNames
<1> QED BY <1>1 DEF StarFields, AtOnce

\* Whom each board sends to.
LEMMA Addresses ==
  /\ broadcastAddress["master"] = <<"slave", "display">>
  /\ broadcastAddress["slave"] = <<"master">>
  /\ broadcastAddress["display"] = <<"master">>
  /\ Range(broadcastAddress["master"]) = {"slave", "display"}
  /\ Range(broadcastAddress["slave"]) = {"master"}
  /\ Range(broadcastAddress["display"]) = {"master"}
BY DEF broadcastAddress, Range

\* What setup() may leave of board n: it hears only with all its peers added.
SetupOf(n) == {x \in [peers : SUBSET Stars, told : BOOLEAN, heard : BOOLEAN, pc : {"off", "top"}] :
                 x.heard => x.peers = Range(broadcastAddress[n])}

\* A setup that hears with all its peers added is one of them.
LEMMA SetUpOK ==
  ASSUME NEW n, NEW peers \in SUBSET Stars, NEW isTo \in BOOLEAN, NEW heard \in BOOLEAN,
         heard => peers = Range(broadcastAddress[n])
  PROVE  SetUp(peers, isTo, heard) \in SetupOf(n)
BY DEF SetUp, SetupOf

\* So is a board that is off, or whose ESP-NOW did not start.
LEMMA OffOK == \A n : IsOff \in SetupOf(n)
<1> DEFINE R == [peers : SUBSET Stars, told : BOOLEAN, heard : BOOLEAN, pc : {"off", "top"}]
<1>1. InitFails \in R /\ InitFails.heard = FALSE
  BY DEF InitFails, SetUp
<1>2. IsOff \in R /\ IsOff.heard = FALSE
  BY <1>1 DEF IsOff
<1> QED BY <1>2 DEF SetupOf

\* So is every setup of the master,
LEMMA MasterSetups == MasterSetup \subseteq SetupOf("master")
<1>1. {"slave", "display"} = Range(broadcastAddress["master"]) /\ broadcastAddress["master"][1] = "slave"
  BY Addresses
<1>2. MasterSetup = {SetUp({}, FALSE, FALSE), SetUp({}, TRUE, FALSE), SetUp({"slave"}, TRUE, FALSE),
                     SetUp({"slave", "display"}, TRUE, TRUE)}
  BY <1>1 DEF MasterSetup, InitFails
<1>3. /\ SetUp({}, FALSE, FALSE) \in SetupOf("master") /\ SetUp({}, TRUE, FALSE) \in SetupOf("master")
      /\ SetUp({"slave"}, TRUE, FALSE) \in SetupOf("master")
      /\ SetUp({"slave", "display"}, TRUE, TRUE) \in SetupOf("master")
  BY <1>1, SetUpOK DEF Stars
<1> QED BY <1>2, <1>3

\* of the slave and of the display.
LEMMA OtherSetups == SlaveSetup \subseteq SetupOf("slave") /\ DisplaySetup \subseteq SetupOf("display")
<1>1. {"master"} = Range(broadcastAddress["slave"]) /\ {"master"} = Range(broadcastAddress["display"])
  BY Addresses
<1>2. /\ SlaveSetup = {SetUp({}, FALSE, FALSE), SetUp({}, TRUE, FALSE), SetUp({"master"}, TRUE, TRUE)}
      /\ DisplaySetup = {IsOff} \cup SlaveSetup
  BY <1>1 DEF SlaveSetup, DisplaySetup, InitFails
<1>3. ASSUME NEW n \in {"slave", "display"}
      PROVE  /\ SetUp({}, FALSE, FALSE) \in SetupOf(n) /\ SetUp({}, TRUE, FALSE) \in SetupOf(n)
             /\ SetUp({"master"}, TRUE, TRUE) \in SetupOf(n)
  BY <1>1, SetUpOK DEF Stars
<1> QED BY <1>2, <1>3, OffOK

\* The boards start as their setups leave them.
LEMMA StarsSetUp == StarInit => \E did \in [Stars -> UNION {SetupOf(n) : n \in Stars}] :
                       /\ \A n \in Stars : did[n] \in SetupOf(n)
                       /\ addedPeers = [n \in Stars |-> did[n].peers]
                       /\ hears = [n \in Stars |-> did[n].heard]
                       /\ loopPc = [n \in Stars |-> did[n].pc]
<1> SUFFICES ASSUME StarInit
             PROVE  \E did \in [Stars -> UNION {SetupOf(n) : n \in Stars}] :
                       /\ \A n \in Stars : did[n] \in SetupOf(n)
                       /\ addedPeers = [n \in Stars |-> did[n].peers]
                       /\ hears = [n \in Stars |-> did[n].heard]
                       /\ loopPc = [n \in Stars |-> did[n].pc]
  OBVIOUS
<1>1. PICK on \in Powered :
    \E m \in IF "master" \in on THEN MasterSetup ELSE {IsOff},
       s \in IF "slave" \in on THEN SlaveSetup ELSE {IsOff},
       d \in IF "display" \in on THEN DisplaySetup ELSE {IsOff} :
       LET did == [master |-> m, slave |-> s, display |-> d] IN
       /\ addedPeers = [n \in Stars |-> did[n].peers]
       /\ isTold = [n \in Stars |-> did[n].told]
       /\ hears = [n \in Stars |-> did[n].heard]
       /\ loopPc = [n \in Stars |-> did[n].pc]
  BY DEF StarInit
<1>2. PICK m \in IF "master" \in on THEN MasterSetup ELSE {IsOff},
           s \in IF "slave" \in on THEN SlaveSetup ELSE {IsOff},
           d \in IF "display" \in on THEN DisplaySetup ELSE {IsOff} :
       LET did == [master |-> m, slave |-> s, display |-> d] IN
       /\ addedPeers = [n \in Stars |-> did[n].peers]
       /\ isTold = [n \in Stars |-> did[n].told]
       /\ hears = [n \in Stars |-> did[n].heard]
       /\ loopPc = [n \in Stars |-> did[n].pc]
  BY <1>1, Zenon
<1> DEFINE did == [n \in Stars |-> [master |-> m, slave |-> s, display |-> d][n]]
<1>3. m \in SetupOf("master") /\ s \in SetupOf("slave") /\ d \in SetupOf("display")
  BY MasterSetups, OtherSetups, OffOK
<1>4. \A n \in Stars : did[n] \in SetupOf(n)
  BY <1>3 DEF Stars
<1>5. did \in [Stars -> UNION {SetupOf(n) : n \in Stars}]
  BY <1>4
<1>6. /\ addedPeers = [n \in Stars |-> did[n].peers]
      /\ hears = [n \in Stars |-> did[n].heard]
      /\ loopPc = [n \in Stars |-> did[n].pc]
  BY <1>2
<1> HIDE DEF did
<1> QED BY <1>4, <1>5, <1>6

\* StarIndInv holds at first.
LEMMA StarStarts == StarInit => StarIndInv
<1> SUFFICES ASSUME StarInit PROVE StarIndInv
  OBVIOUS
<1>1. PICK did \in [Stars -> UNION {SetupOf(n) : n \in Stars}] :
         /\ \A n \in Stars : did[n] \in SetupOf(n)
         /\ addedPeers = [n \in Stars |-> did[n].peers]
         /\ hears = [n \in Stars |-> did[n].heard]
         /\ loopPc = [n \in Stars |-> did[n].pc]
  BY StarsSetUp
<1>2. /\ addedPeers \in [Stars -> SUBSET Stars] /\ hears \in [Stars -> BOOLEAN]
      /\ loopPc \in [Stars -> {"off", "top"}]
      /\ \A n \in Stars : hears[n] => addedPeers[n] = Range(broadcastAddress[n])
  BY <1>1 DEF SetupOf
<1>3. StarTypeOK
  BY <1>2, Names DEF StarInit, StarTypeOK, StarFrame
<1>4. LoopInv /\ HearInv /\ ShowInv /\ ShownWhole
  BY <1>2 DEF StarInit, LoopInv, HearInv, ShowInv, ShownWhole, Stars
<1>5. RecvInv
  BY Names DEF StarInit, RecvInv, FieldNames
<1>6. ScreenOK
  BY DEF StarInit, ScreenOK, Shown
<1> QED BY <1>3, <1>4, <1>5, <1>6 DEF StarIndInv, StarInv

\* What esp_now_send does to the frames, with the round it is called in.
LEMMA Sending ==
  ASSUME StarIndInv, NEW n \in Stars, NEW to \in Stars, rounds' \in [Stars -> Nat], rounds'[n] > 0,
         esp_now_send(n, to), UNCHANGED setupVars
  PROVE  /\ inbox' \in [Stars -> Seq(StarFrame)]
         /\ reports' \in [Stars -> Seq({"delivered", "failed"})]
         /\ HearInv'
         /\ inbox["display"] # <<>> => inbox'["display"] # <<>> /\ Head(inbox'["display"]) = Head(inbox["display"])
<1>1. CASE to \notin addedPeers[n]
  <2>1. inbox' = inbox /\ reports' = reports
    BY <1>1 DEF esp_now_send
  <2> QED BY <2>1 DEF StarIndInv, StarInv, StarTypeOK, HearInv, ScreenOK, setupVars
<1>2. CASE to \in addedPeers[n]
  <2> PICK heard \in BOOLEAN, answered \in BOOLEAN :
         /\ inbox' = [inbox EXCEPT ![to] =
                IF heard /\ hears[to] THEN Append(@, [from |-> n, round |-> rounds'[n]]) ELSE @]
         /\ reports' = [reports EXCEPT ![n] =
                IF isTold[n] THEN Append(@, IF answered THEN "delivered" ELSE "failed") ELSE @]
    BY <1>2 DEF esp_now_send
  <2> DEFINE f == [from |-> n, round |-> rounds'[n]]
  <2>1. f \in StarFrame /\ f.from = n
    BY DEF StarFrame
  <2>2. inbox \in [Stars -> Seq(StarFrame)] /\ reports \in [Stars -> Seq({"delivered", "failed"})]
    BY DEF StarIndInv, StarInv, StarTypeOK, ScreenOK
  <2>3. reports' \in [Stars -> Seq({"delivered", "failed"})]
    <3>1. \A e \in {"delivered", "failed"} : Append(reports[n], e) \in Seq({"delivered", "failed"})
      BY <2>2
    <3> QED BY <3>1, <2>2
  <2> HIDE DEF f
  <2>4. \/ inbox' = inbox
        \/ hears[to] /\ inbox' = [inbox EXCEPT ![to] = Append(inbox[to], f)]
    <3>1. CASE heard /\ hears[to]
      BY <3>1, <2>2 DEF f
    <3>2. CASE ~(heard /\ hears[to])
      <4>1. inbox' = [inbox EXCEPT ![to] = inbox[to]]
        BY <3>2
      <4> QED BY <4>1, <2>2
    <3> QED BY <3>1, <3>2
  <2>5. CASE inbox' = inbox
    BY <2>2, <2>3, <2>5 DEF StarIndInv, StarInv, HearInv, setupVars
  <2>6. CASE hears[to] /\ inbox' = [inbox EXCEPT ![to] = Append(inbox[to], f)]
    <3>1. /\ inbox[to] \in Seq(StarFrame) /\ inbox'[to] = Append(inbox[to], f)
          /\ \A k \in Stars : k # to => inbox'[k] = inbox[k]
      BY <2>2, <2>6
    <3>2. inbox' \in [Stars -> Seq(StarFrame)]
      BY <2>2, <2>6, <2>1, <3>1, SeqFacts
    <3>3. inbox["display"] # <<>> => inbox'["display"] # <<>> /\ Head(inbox'["display"]) = Head(inbox["display"])
      BY <3>1, <2>1, SeqFacts DEF Stars
    <3>4. HearInv'
      <4> SUFFICES ASSUME NEW k \in Stars
                   PROVE  /\ ~hears[k] => inbox'[k] = <<>>
                          /\ hears[k] => addedPeers[k] = Range(broadcastAddress[k])
                          /\ \A i \in DOMAIN inbox'[k] : k \in addedPeers[inbox'[k][i].from]
        BY DEF HearInv, setupVars
      <4>1. CASE k # to
        BY <4>1, <3>1 DEF StarIndInv, StarInv, HearInv
      <4>2. CASE k = to
        <5>1. \A i \in DOMAIN inbox[to] : to \in addedPeers[inbox[to][i].from]
          BY DEF StarIndInv, StarInv, HearInv
        <5>2. /\ DOMAIN inbox'[to] = 1 .. Len(inbox[to]) + 1 /\ DOMAIN inbox[to] = 1 .. Len(inbox[to])
              /\ \A i \in 1 .. Len(inbox[to]) : inbox'[to][i] = inbox[to][i]
              /\ inbox'[to][Len(inbox[to]) + 1] = f
              /\ Len(inbox[to]) \in Nat
          BY <3>1, <2>1, SeqFacts
        <5>3. \A i \in DOMAIN inbox'[to] : to \in addedPeers[inbox'[to][i].from]
          BY <5>1, <5>2, <2>1, <1>2
        <5>4. hears[to] => addedPeers[to] = Range(broadcastAddress[to])
          BY DEF StarIndInv, StarInv, HearInv
        <5> QED BY <2>6, <4>2, <5>3, <5>4
      <4> QED BY <4>1, <4>2
    <3> QED BY <2>3, <3>2, <3>3, <3>4
  <2> QED BY <2>4, <2>5, <2>6
<1> QED BY <1>1, <1>2

\* A send keeps what does not concern the screen.
LEMMA SendKeeps ==
  ASSUME StarIndInv, NEW n \in Stars, NEW k \in {1, 2}, NEW next \in {"next", "delay", "show"},
         k \in DOMAIN broadcastAddress[n], SendsTo(n, k, next)
  PROVE  /\ StarTypeOK' /\ HearInv' /\ RecvInv'
         /\ offered' \in [Stars -> Seq(Stars)]
         /\ offered'[n] = Append(IF k = 1 THEN <<>> ELSE offered[n], broadcastAddress[n][k])
         /\ reports' \in [Stars -> Seq({"delivered", "failed"})]
         /\ rounds'[n] > 0
         /\ loopPc'[n] = next
         /\ \A m \in Stars : m # n => offered'[m] = offered[m] /\ loopPc'[m] = loopPc[m] /\ rounds'[m] = rounds[m]
<1> DEFINE to == broadcastAddress[n][k]
<1>1. to \in Stars
  BY Addresses DEF Stars
<1>2. /\ rounds \in [Stars -> Nat] /\ loopPc \in [Stars -> {"off", "top", "next", "delay", "show"}]
      /\ offered \in [Stars -> Seq(Stars)]
  BY DEF StarIndInv, StarInv, StarTypeOK, ScreenOK
<1>3. rounds' = [rounds EXCEPT ![n] = rounds[n] + (IF k = 1 THEN 1 ELSE 0)]
  BY DEF SendsTo
<1>4. k = 2 => loopPc[n] = "next" /\ rounds[n] > 0
  BY DEF SendsTo, StarIndInv, StarInv, LoopInv
<1>5. rounds' \in [Stars -> Nat] /\ rounds'[n] > 0 /\ \A m \in Stars : m # n => rounds'[m] = rounds[m]
  BY <1>2, <1>3, <1>4
<1>6. loopPc' = [loopPc EXCEPT ![n] = next]
  BY DEF SendsTo
<1>7. loopPc' \in [Stars -> {"off", "top", "next", "delay", "show"}] /\ loopPc'[n] = next
      /\ \A m \in Stars : m # n => loopPc'[m] = loopPc[m]
  BY <1>2, <1>6
<1>8. UNCHANGED setupVars /\ UNCHANGED keptVars /\ esp_now_send(n, to)
  BY DEF SendsTo
<1>9. /\ inbox' \in [Stars -> Seq(StarFrame)]
      /\ reports' \in [Stars -> Seq({"delivered", "failed"})]
      /\ HearInv'
      /\ inbox["display"] # <<>> => inbox'["display"] # <<>> /\ Head(inbox'["display"]) = Head(inbox["display"])
  BY <1>1, <1>5, <1>8, Sending
<1>10. offered' = [offered EXCEPT ![n] = Append(IF k = 1 THEN <<>> ELSE offered[n], to)]
  BY DEF SendsTo
<1>11. Append(IF k = 1 THEN <<>> ELSE offered[n], to) \in Seq(Stars)
  <2>1. <<>> \in Seq(Stars) /\ offered[n] \in Seq(Stars)
    BY <1>2
  <2> QED BY <2>1, <1>1, SeqFacts
<1>12. /\ offered' \in [Stars -> Seq(Stars)]
       /\ offered'[n] = Append(IF k = 1 THEN <<>> ELSE offered[n], to)
       /\ \A m \in Stars : m # n => offered'[m] = offered[m]
  BY <1>2, <1>10, <1>11
<1>13. StarTypeOK'
  BY <1>5, <1>7, <1>8, <1>9 DEF StarIndInv, StarInv, StarTypeOK, setupVars, keptVars
<1>14. RecvInv'
  <2>1. RecvInv /\ recvPc \in 0 .. 5
    BY DEF StarIndInv, StarInv, StarTypeOK
  <2>2. UNCHANGED <<hears, recvPc, incomingReadings, incoming>>
    BY <1>8 DEF setupVars, keptVars
  <2>3. AtOnce(0)' = AtOnce(0)
    BY DEF AtOnce
  <2>4. \A i \in 1 .. 3 : i <= recvPc => incomingReadings[StarFields[i]] = Head(inbox'["display"]).round
    <3>1. recvPc # 0 => inbox["display"] # <<>>
      BY <2>1 DEF RecvInv
    <3> QED BY <2>1, <3>1, <1>9 DEF RecvInv
  <2> QED BY <2>1, <2>2, <2>4, <1>9 DEF RecvInv
<1> QED BY <1>5, <1>7, <1>9, <1>12, <1>13, <1>14

\* The lemmas from here to Receiving have one action of the sketches each.  loop() of
\* the master sends to the slave, then to the display,
LEMMA MasterSends == StarIndInv /\ MasterLoop => StarIndInv'
<1> SUFFICES ASSUME StarIndInv, MasterLoop PROVE StarIndInv'
  OBVIOUS
<1>1. PICK k \in {1, 2}, next \in {"next", "delay"} :
         SendsTo("master", k, next) /\ (k = 1 <=> next = "next") /\ UNCHANGED shownVars
  <2>1. CASE SendsTo("master", 1, "next") /\ UNCHANGED shownVars
    BY <2>1
  <2>2. CASE SendsTo("master", 2, "delay") /\ UNCHANGED shownVars
    BY <2>2
  <2> QED BY <2>1, <2>2 DEF MasterLoop
<1>2. "master" \in Stars /\ k \in DOMAIN broadcastAddress["master"] /\ broadcastAddress["master"][1] = "slave"
      /\ broadcastAddress["master"][2] = "display"
  BY <1>1, Addresses DEF Stars
<1>3. /\ StarTypeOK' /\ HearInv' /\ RecvInv'
      /\ offered' \in [Stars -> Seq(Stars)]
      /\ offered'["master"] = Append(IF k = 1 THEN <<>> ELSE offered["master"], broadcastAddress["master"][k])
      /\ reports' \in [Stars -> Seq({"delivered", "failed"})]
      /\ rounds'["master"] > 0
      /\ loopPc'["master"] = next
      /\ \A m \in Stars : m # "master" => offered'[m] = offered[m] /\ loopPc'[m] = loopPc[m] /\ rounds'[m] = rounds[m]
  <2>1. next \in {"next", "delay", "show"}
    OBVIOUS
  <2> QED BY <1>1, <1>2, <2>1, SendKeeps
<1>4. LoopInv'
  <2>1. k = 2 => offered["master"] = <<"slave">>
    BY <1>1 DEF SendsTo, StarIndInv, StarInv, LoopInv, Stars
  <2>2. k = 1 => offered'["master"] = <<"slave">>
    BY <1>2, <1>3
  <2>3. k = 2 => offered'["master"] = <<"slave", "display">>
    <3>1. Append(<<"slave">>, "display") = <<"slave", "display">>
      <4> "slave" \in Stars /\ "display" \in Stars
        BY DEF Stars
      <4> QED BY AppendOne
    <3> QED BY <1>2, <1>3, <2>1, <3>1
  <2>4. (broadcastAddress["master"] = <<"slave", "display">>)'
    BY Addresses
  <2>5. ASSUME NEW n \in Stars, n # "master"
        PROVE  /\ loopPc'[n] = "next" => n = "master" /\ offered'[n] = <<"slave">> /\ rounds'[n] > 0
               /\ loopPc'[n] = "show" => n = "display"
               /\ loopPc'[n] \in {"delay", "show"} => offered'[n] = broadcastAddress[n]
    BY <2>5, <1>3 DEF StarIndInv, StarInv, LoopInv
  <2>6. /\ loopPc'["master"] = "next" => offered'["master"] = <<"slave">> /\ rounds'["master"] > 0
        /\ loopPc'["master"] # "show"
        /\ loopPc'["master"] \in {"delay", "show"} => offered'["master"] = broadcastAddress["master"]
    BY <2>2, <2>3, <1>1, <1>3, Addresses
  <2> QED BY <2>5, <2>6 DEF LoopInv
<1>5. ShowInv' /\ ShownWhole' /\ ScreenOK'
  BY <1>1, <1>3 DEF StarIndInv, StarInv, ShowInv, ShownWhole, ScreenOK, shownVars, SendsTo, keptVars, Stars
<1> QED BY <1>3, <1>4, <1>5 DEF StarIndInv, StarInv

\* of the slave its readings to the master,
LEMMA SlaveSends == StarIndInv /\ SlaveLoop => StarIndInv'
<1> SUFFICES ASSUME StarIndInv, SlaveLoop PROVE StarIndInv'
  OBVIOUS
<1>1. SendsTo("slave", 1, "delay") /\ UNCHANGED shownVars
  BY DEF SlaveLoop
<1>2. "slave" \in Stars /\ 1 \in DOMAIN broadcastAddress["slave"] /\ broadcastAddress["slave"][1] = "master"
  BY Addresses DEF Stars
<1>3. /\ StarTypeOK' /\ HearInv' /\ RecvInv'
      /\ offered' \in [Stars -> Seq(Stars)]
      /\ offered'["slave"] = Append(<<>>, broadcastAddress["slave"][1])
      /\ reports' \in [Stars -> Seq({"delivered", "failed"})]
      /\ loopPc'["slave"] = "delay"
      /\ \A m \in Stars : m # "slave" => offered'[m] = offered[m] /\ loopPc'[m] = loopPc[m] /\ rounds'[m] = rounds[m]
  BY <1>1, <1>2, SendKeeps
<1>4. LoopInv'
  <2>1. offered'["slave"] = <<"master">>
    BY <1>2, <1>3
  <2>2. ASSUME NEW n \in Stars, n # "slave"
        PROVE  /\ loopPc'[n] = "next" => n = "master" /\ offered'[n] = <<"slave">> /\ rounds'[n] > 0
               /\ loopPc'[n] = "show" => n = "display"
               /\ loopPc'[n] \in {"delay", "show"} => offered'[n] = broadcastAddress[n]
    BY <2>2, <1>3 DEF StarIndInv, StarInv, LoopInv
  <2> QED BY <2>1, <2>2, <1>3, Addresses DEF LoopInv
<1>5. ShowInv' /\ ShownWhole' /\ ScreenOK'
  BY <1>1, <1>3 DEF StarIndInv, StarInv, ShowInv, ShownWhole, ScreenOK, shownVars, SendsTo, keptVars, Stars
<1> QED BY <1>3, <1>4, <1>5 DEF StarIndInv, StarInv

\* and of the display its own, before it shows what it has.
LEMMA DisplaySends == StarIndInv /\ DisplayLoop => StarIndInv'
<1> SUFFICES ASSUME StarIndInv, DisplayLoop PROVE StarIndInv'
  OBVIOUS
<1>1. SendsTo("display", 1, "show") /\ oled' = <<>> /\ serial' = <<>> /\ disturbed' = (recvPc > 0)
  BY DEF DisplayLoop
<1>2. "display" \in Stars /\ 1 \in DOMAIN broadcastAddress["display"] /\ broadcastAddress["display"][1] = "master"
  BY Addresses DEF Stars
<1>3. /\ StarTypeOK' /\ HearInv' /\ RecvInv'
      /\ offered' \in [Stars -> Seq(Stars)]
      /\ offered'["display"] = Append(<<>>, broadcastAddress["display"][1])
      /\ reports' \in [Stars -> Seq({"delivered", "failed"})]
      /\ loopPc'["display"] = "show"
      /\ \A m \in Stars : m # "display" => offered'[m] = offered[m] /\ loopPc'[m] = loopPc[m] /\ rounds'[m] = rounds[m]
  BY <1>1, <1>2, SendKeeps
<1>4. LoopInv'
  <2>1. offered'["display"] = <<"master">>
    BY <1>2, <1>3
  <2>2. ASSUME NEW n \in Stars, n # "display"
        PROVE  /\ loopPc'[n] = "next" => n = "master" /\ offered'[n] = <<"slave">> /\ rounds'[n] > 0
               /\ loopPc'[n] = "show" => n = "display"
               /\ loopPc'[n] \in {"delay", "show"} => offered'[n] = broadcastAddress[n]
    BY <2>2, <1>3 DEF StarIndInv, StarInv, LoopInv
  <2> QED BY <2>1, <2>2, <1>3, Addresses DEF LoopInv
<1>5. recvPc' = recvPc /\ recvPc \in 0 .. 5
  BY <1>1 DEF SendsTo, keptVars, StarIndInv, StarInv, StarTypeOK
<1>6. Len(oled') = 0 /\ Len(serial') = 0
  BY <1>1
<1>7. ShowInv' /\ ShownWhole'
  <2>1. ~disturbed' => ~(recvPc > 0)
    BY <1>1, Zenon
  <2>2. recvPc' = 0 \/ recvPc > 0
    BY <1>5
  <2> QED BY <1>1, <1>3, <1>6, <2>1, <2>2 DEF ShowInv, ShownWhole
<1>8. ScreenOK'
  BY <1>1, <1>3 DEF StarIndInv, ScreenOK, SendsTo
<1> QED BY <1>3, <1>4, <1>7, <1>8 DEF StarIndInv, StarInv

\* updateDisplay() shows one value more, the last of them on the serial monitor.
LEMMA Updating == StarIndInv /\ updateDisplay => StarIndInv'
<1> SUFFICES ASSUME StarIndInv, updateDisplay PROVE StarIndInv'
  OBVIOUS
<1>1. /\ loopPc["display"] = "show"
      /\ loopPc' = [loopPc EXCEPT !["display"] = IF Len(serial') = 3 THEN "delay" ELSE "show"]
      /\ UNCHANGED <<setupVars, rounds, offered, inbox, reports, success, keptVars, disturbed>>
  BY DEF updateDisplay
<1>2. /\ loopPc \in [Stars -> {"off", "top", "next", "delay", "show"}] /\ "display" \in Stars
      /\ oled \in Seq(Shown) /\ serial \in Seq(Nat)
      /\ \A i \in 1 .. 3 : incoming[StarFields[i]] \in {0, 1} /\ incomingReadings[StarFields[i]] \in Nat
      /\ success["display"] \in {"none", "delivered", "failed"}
  <2>1. /\ incoming \in [FieldNames -> {0, 1}] /\ incomingReadings \in [FieldNames -> Nat]
        /\ \A i \in 1 .. 3 : StarFields[i] \in FieldNames
    BY Names DEF StarIndInv, StarInv, StarTypeOK, FieldNames
  <2> QED BY <2>1 DEF StarIndInv, StarInv, StarTypeOK, ScreenOK, Stars
<1>3. /\ loopPc' \in [Stars -> {"off", "top", "next", "delay", "show"}]
      /\ loopPc'["display"] = IF Len(serial') = 3 THEN "delay" ELSE "show"
      /\ \A n \in Stars : n # "display" => loopPc'[n] = loopPc[n]
  BY <1>1, <1>2
<1>4. /\ Len(oled) \in Nat /\ Len(serial) \in Nat
      /\ Len(oled) <= 4 /\ Len(serial) <= 2
      /\ Len(oled) < 4 => serial = <<>>
  BY <1>1, <1>2 DEF StarIndInv, StarInv, ShowInv
<1>a. Len(serial) + 1 \in 1 .. 3
  <2>1. Len(serial) \in Nat /\ Len(serial) <= 2
    BY <1>4
  <2> QED BY <2>1
<1>b. Len(oled) < 3 \/ Len(oled) = 3 \/ Len(oled) = 4
  <2>1. Len(oled) \in Nat /\ Len(oled) <= 4
    BY <1>4
  <2>2. \A x \in Nat : x <= 4 => x < 3 \/ x = 3 \/ x = 4
    OBVIOUS
  <2> QED BY <2>1, <2>2
<1>5. ASSUME ~disturbed
      PROVE  /\ recvPc = 0
             /\ \A i \in 1 .. 3 : i <= Len(oled) => oled[i] = incoming[StarFields[i]]
             /\ \A i \in 1 .. 3 : i <= Len(serial) => serial[i] = incomingReadings[StarFields[i]]
             /\ \A i, j \in 1 .. 3 : /\ incomingReadings[StarFields[i]] = incomingReadings[StarFields[j]]
                                     /\ incoming[StarFields[i]] = incoming[StarFields[j]]
             /\ incoming["temp"] = 1 <=> incomingReadings["temp"] > 0
  <2>1. ShowInv /\ RecvInv
    BY DEF StarIndInv, StarInv
  <2>2. /\ recvPc = 0
        /\ \A i \in 1 .. 3 : i <= Len(oled) => oled[i] = incoming[StarFields[i]]
        /\ \A i \in 1 .. 3 : i <= Len(serial) => serial[i] = incomingReadings[StarFields[i]]
    BY <1>1, <1>5, <2>1 DEF ShowInv
  <2> QED BY <2>1, <2>2 DEF RecvInv
<1>6. StarTypeOK' /\ HearInv' /\ RecvInv'
  <2>1. AtOnce(0)' = AtOnce(0)
    BY DEF AtOnce
  <2> QED BY <1>1, <1>3, <2>1 DEF StarIndInv, StarInv, StarTypeOK, HearInv, RecvInv, setupVars, keptVars
<1>7. LoopInv'
  <2>1. offered["display"] = broadcastAddress["display"]
    BY <1>1, <1>2 DEF StarIndInv, StarInv, LoopInv
  <2> QED BY <1>1, <1>3, <2>1 DEF StarIndInv, StarInv, LoopInv
<1>8. ShowInv' /\ ShownWhole' /\ oled' \in Seq(Shown) /\ serial' \in Seq(Nat)
  <2>1. CASE Len(oled) < 3
    <3>1. oled' = Append(oled, incoming[StarFields[Len(oled) + 1]]) /\ serial' = serial
      BY <2>1 DEF updateDisplay
    <3>2. Len(oled) + 1 \in 1 .. 3 /\ incoming[StarFields[Len(oled) + 1]] \in Shown
      BY <1>2, <1>4, <2>1 DEF Shown
    <3>3. /\ oled' \in Seq(Shown) /\ Len(oled') = Len(oled) + 1
          /\ \A i \in 1 .. Len(oled) : oled'[i] = oled[i]
          /\ oled'[Len(oled) + 1] = incoming[StarFields[Len(oled) + 1]]
      BY <3>1, <3>2, <1>2, AppendFacts
    <3>4. Len(serial') = 0 /\ serial' = <<>>
      BY <3>1, <1>4, <2>1
    <3>5. loopPc'["display"] = "show"
      BY <3>4, <1>3
    <3>6. ASSUME ~disturbed
          PROVE \A i \in 1 .. 3 : i <= Len(oled') => oled'[i] = incoming[StarFields[i]]
      BY <3>3, <1>4, <1>5, <3>6
    <3>7. ShowInv'
      BY <1>1, <1>4, <1>5, <3>3, <3>4, <3>6, <2>1 DEF ShowInv, keptVars
    <3> QED BY <1>2, <3>1, <3>3, <3>5, <3>7 DEF ShownWhole
  <2>2. CASE Len(oled) = 3
    <3>1. oled' = Append(oled, success["display"]) /\ serial' = serial
      BY <2>2 DEF updateDisplay
    <3>2. success["display"] \in Shown
      BY <1>2 DEF Shown
    <3>3. /\ oled' \in Seq(Shown) /\ Len(oled') = Len(oled) + 1
          /\ \A i \in 1 .. Len(oled) : oled'[i] = oled[i]
      BY <3>1, <3>2, <1>2, AppendFacts
    <3>4. Len(serial') = 0 /\ serial' = <<>>
      BY <3>1, <1>4, <2>2
    <3>5. loopPc'["display"] = "show"
      BY <3>4, <1>3
    <3>6. ASSUME ~disturbed
          PROVE \A i \in 1 .. 3 : i <= Len(oled') => oled'[i] = incoming[StarFields[i]]
      BY <3>3, <1>4, <1>5, <3>6, <2>2
    <3>7. ShowInv'
      BY <1>1, <1>4, <1>5, <3>3, <3>4, <3>6, <2>2 DEF ShowInv, keptVars
    <3> QED BY <1>2, <3>1, <3>3, <3>5, <3>7 DEF ShownWhole
  <2>3. CASE Len(oled) = 4
    <3>1. oled' = oled /\ serial' = Append(serial, incomingReadings[StarFields[Len(serial) + 1]])
      BY <2>3 DEF updateDisplay
    <3>2. Len(serial) + 1 \in 1 .. 3 /\ incomingReadings[StarFields[Len(serial) + 1]] \in Nat
      <4>1. Len(serial) + 1 \in 1 .. 3
        BY <1>a
      <4> QED BY <4>1, <1>2
    <3>3. /\ serial' \in Seq(Nat) /\ Len(serial') = Len(serial) + 1
          /\ \A i \in 1 .. Len(serial) : serial'[i] = serial[i]
          /\ serial'[Len(serial) + 1] = incomingReadings[StarFields[Len(serial) + 1]]
      BY <3>1, <3>2, <1>2, AppendFacts
    <3>6. ASSUME ~disturbed
          PROVE /\ \A i \in 1 .. 3 : i <= Len(serial') => serial'[i] = incomingReadings[StarFields[i]]
                /\ \A i \in 1 .. 3 : oled'[i] = incoming[StarFields[i]]
      BY <3>1, <3>3, <1>4, <1>5, <3>6, <2>3
    <3>7. ShowInv'
      <4>1. loopPc'["display"] = "show" => Len(serial') <= 2
        <5>1. Len(serial') = Len(serial) + 1
          BY <3>3
        <5>3. Len(serial') = 3 => loopPc'["display"] = "delay"
          BY <1>3
        <5>2. Len(serial) \in Nat /\ Len(serial) <= 2
          BY <1>4
        <5>4. Len(serial') = 3 \/ Len(serial') <= 2
          BY <5>1, <5>2
        <5> QED BY <5>3, <5>4
      <4> QED BY <1>1, <1>4, <1>5, <3>1, <3>3, <3>6, <4>1, <2>3 DEF ShowInv, keptVars
    <3>8. ShownWhole'
      <4> SUFFICES ASSUME loopPc'["display"] = "delay", ~disturbed'
                   PROVE  /\ \A i, j \in 1 .. 3 : oled'[i] = oled'[j] /\ serial'[i] = serial'[j]
                          /\ (oled'[1] = 1) <=> (serial'[1] > 0)
        BY DEF ShownWhole
      <4>1. ~disturbed /\ Len(serial') = 3
        BY <1>1, <1>3
      <4>2. \A i \in 1 .. 3 : serial'[i] = incomingReadings[StarFields[i]] /\ oled'[i] = incoming[StarFields[i]]
        BY <4>1, <3>6
      <4>3. oled'[1] = incoming["temp"] /\ serial'[1] = incomingReadings["temp"]
        BY <4>2, Names
      <4>4. /\ \A i, j \in 1 .. 3 : /\ incomingReadings[StarFields[i]] = incomingReadings[StarFields[j]]
                                     /\ incoming[StarFields[i]] = incoming[StarFields[j]]
            /\ incoming["temp"] = 1 <=> incomingReadings["temp"] > 0
        BY <4>1, <1>5
      <4>5. \A i, j \in 1 .. 3 : oled'[i] = oled'[j] /\ serial'[i] = serial'[j]
        BY <4>2, <4>4
      <4>6. (oled'[1] = 1) <=> (serial'[1] > 0)
        BY <4>3, <4>4
      <4> QED BY <4>5, <4>6
    <3> QED BY <1>2, <3>1, <3>3, <3>7, <3>8
  <2> QED BY <1>b, <2>1, <2>2, <2>3
<1>9. ScreenOK'
  BY <1>1, <1>8 DEF StarIndInv, ScreenOK
<1> QED BY <1>6, <1>7, <1>8, <1>9 DEF StarIndInv, StarInv

\* A delay of loop() ends.
LEMMA Delaying == ASSUME NEW n \in Stars PROVE StarIndInv /\ DelayEnds(n) => StarIndInv'
<1> SUFFICES ASSUME StarIndInv, DelayEnds(n) PROVE StarIndInv'
  OBVIOUS
<1>1. /\ loopPc' = [loopPc EXCEPT ![n] = "top"]
      /\ UNCHANGED <<setupVars, rounds, offered, inbox, reports, success, keptVars, shownVars>>
  BY DEF DelayEnds
<1>2. /\ loopPc' \in [Stars -> {"off", "top", "next", "delay", "show"}]
      /\ loopPc'[n] = "top" /\ \A m \in Stars : m # n => loopPc'[m] = loopPc[m]
      /\ "display" \in Stars
  BY <1>1 DEF StarIndInv, StarInv, StarTypeOK, Stars
<1>3. AtOnce(0)' = AtOnce(0)
  BY DEF AtOnce
<1>4. StarTypeOK' /\ HearInv' /\ RecvInv'
  BY <1>1, <1>2, <1>3 DEF StarIndInv, StarInv, StarTypeOK, HearInv, RecvInv, setupVars, keptVars
<1>5. LoopInv' /\ ShowInv' /\ ShownWhole' /\ ScreenOK'
  BY <1>1, <1>2 DEF StarIndInv, StarInv, LoopInv, ShowInv, ShownWhole, ScreenOK, keptVars, shownVars
<1> QED BY <1>4, <1>5 DEF StarIndInv, StarInv

\* OnDataSent() is told how a frame fared.
LEMMA SentReported == ASSUME NEW n \in Stars PROVE StarIndInv /\ OnDataSent(n) => StarIndInv'
<1> SUFFICES ASSUME StarIndInv, OnDataSent(n) PROVE StarIndInv'
  OBVIOUS
<1>1. /\ reports[n] # <<>>
      /\ success' = [success EXCEPT ![n] = Head(reports[n])]
      /\ reports' = [reports EXCEPT ![n] = Tail(reports[n])]
      /\ UNCHANGED <<setupVars, loopPc, rounds, offered, inbox, keptVars, shownVars>>
  BY DEF OnDataSent
<1>2. /\ Head(reports[n]) \in {"delivered", "failed"} /\ Tail(reports[n]) \in Seq({"delivered", "failed"})
  <2>1. reports[n] \in Seq({"delivered", "failed"})
    BY DEF StarIndInv, ScreenOK
  <2> QED BY <1>1, <2>1, TailFacts
<1>3. AtOnce(0)' = AtOnce(0)
  BY DEF AtOnce
<1>4. StarTypeOK' /\ HearInv' /\ RecvInv'
  BY <1>1, <1>3 DEF StarIndInv, StarInv, StarTypeOK, HearInv, RecvInv, setupVars, keptVars
<1>5. LoopInv' /\ ShowInv' /\ ShownWhole'
  BY <1>1 DEF StarIndInv, StarInv, LoopInv, ShowInv, ShownWhole, keptVars, shownVars
<1>6. ScreenOK'
  BY <1>1, <1>2 DEF StarIndInv, ScreenOK, shownVars
<1> QED BY <1>4, <1>5, <1>6 DEF StarIndInv, StarInv

\* A board prints what it received.
LEMMA Printing == ASSUME NEW n \in Stars, n # "display" PROVE StarIndInv /\ Prints(n) => StarIndInv'
<1> SUFFICES ASSUME StarIndInv, Prints(n) PROVE StarIndInv'
  OBVIOUS
<1>1. /\ inbox[n] # <<>>
      /\ inbox' = [inbox EXCEPT ![n] = Tail(inbox[n])]
      /\ UNCHANGED <<setupVars, loopPc, rounds, offered, reports, success, keptVars, shownVars>>
  BY DEF Prints
<1>2. inbox \in [Stars -> Seq(StarFrame)] /\ "display" \in Stars
  BY DEF StarIndInv, StarInv, StarTypeOK, Stars
<1>3. /\ Tail(inbox[n]) \in Seq(StarFrame)
      /\ \A i \in DOMAIN Tail(inbox[n]) : Tail(inbox[n])[i] = inbox[n][i + 1] /\ i + 1 \in DOMAIN inbox[n]
  BY <1>1, <1>2, TailFacts
<1>4. /\ inbox' \in [Stars -> Seq(StarFrame)] /\ inbox'[n] = Tail(inbox[n])
      /\ \A m \in Stars : m # n => inbox'[m] = inbox[m]
  BY <1>1, <1>2, <1>3
<1>5. AtOnce(0)' = AtOnce(0) /\ inbox'["display"] = inbox["display"]
  BY <1>2, <1>4 DEF AtOnce
<1>6. StarTypeOK' /\ RecvInv'
  BY <1>1, <1>4, <1>5 DEF StarIndInv, StarInv, StarTypeOK, RecvInv, setupVars, keptVars
<1>7. HearInv'
  <2> SUFFICES ASSUME NEW k \in Stars
               PROVE  /\ ~hears[k] => inbox'[k] = <<>>
                      /\ hears[k] => addedPeers[k] = Range(broadcastAddress[k])
                      /\ \A i \in DOMAIN inbox'[k] : k \in addedPeers[inbox'[k][i].from]
    BY <1>1 DEF HearInv, setupVars
  <2>1. CASE k # n
    BY <2>1, <1>4 DEF StarIndInv, StarInv, HearInv
  <2>2. CASE k = n
    <3>1. hears[n] /\ (hears[n] => addedPeers[n] = Range(broadcastAddress[n]))
      BY <1>1 DEF StarIndInv, StarInv, HearInv
    <3>2. \A i \in DOMAIN inbox[n] : n \in addedPeers[inbox[n][i].from]
      BY DEF StarIndInv, StarInv, HearInv
    <3> QED BY <2>2, <3>1, <3>2, <1>3, <1>4
  <2> QED BY <2>1, <2>2
<1>8. LoopInv' /\ ShowInv' /\ ShownWhole' /\ ScreenOK'
  BY <1>1 DEF StarIndInv, StarInv, LoopInv, ShowInv, ShownWhole, ScreenOK, keptVars, shownVars
<1> QED BY <1>6, <1>7, <1>8 DEF StarIndInv, StarInv

\* OnDataRecv() of the display copies the message, field by field.
LEMMA Receiving == StarIndInv /\ DisplayOnDataRecv => StarIndInv'
<1> SUFFICES ASSUME StarIndInv, DisplayOnDataRecv PROVE StarIndInv'
  OBVIOUS
<1> DEFINE r == Head(inbox["display"]).round
<1>1. /\ inbox["display"] # <<>>
      /\ recvPc' = (recvPc + 1) % 6
      /\ inbox' = IF recvPc = 5 THEN [inbox EXCEPT !["display"] = Tail(inbox["display"])] ELSE inbox
      /\ disturbed' = (disturbed \/ loopPc["display"] = "show")
      /\ UNCHANGED <<setupVars, loopPc, rounds, offered, reports, success, oled, serial>>
  BY DEF DisplayOnDataRecv
<1>2. /\ inbox \in [Stars -> Seq(StarFrame)] /\ "display" \in Stars /\ recvPc \in 0 .. 5
      /\ incomingReadings \in [FieldNames -> Nat] /\ incoming \in [FieldNames -> {0, 1}]
  BY DEF StarIndInv, StarInv, StarTypeOK, Stars
<1>3. r \in Nat \ {0}
  <2>1. Head(inbox["display"]) \in StarFrame
    BY <1>1, <1>2, HeadFacts
  <2> QED BY <2>1 DEF StarFrame
<1>4. /\ Tail(inbox["display"]) \in Seq(StarFrame)
      /\ \A i \in DOMAIN Tail(inbox["display"]) :
            Tail(inbox["display"])[i] = inbox["display"][i + 1] /\ i + 1 \in DOMAIN inbox["display"]
  BY <1>1, <1>2, TailFacts
<1> HIDE DEF r
<1>5. /\ inbox' \in [Stars -> Seq(StarFrame)]
      /\ \A m \in Stars : m # "display" => inbox'[m] = inbox[m]
      /\ recvPc = 5 => inbox'["display"] = Tail(inbox["display"])
      /\ recvPc # 5 => inbox' = inbox
  <2>1. CASE recvPc = 5
    <3>1. inbox' = [inbox EXCEPT !["display"] = Tail(inbox["display"])]
      BY <1>1, <2>1
    <3> QED BY <3>1, <2>1, <1>2, <1>4
  <2>2. CASE recvPc # 5
    BY <1>1, <1>2, <2>2
  <2> QED BY <2>1, <2>2
<1>6. recvPc' = IF recvPc = 5 THEN 0 ELSE recvPc + 1
  <2>1. recvPc' = (recvPc + 1) % 6
    BY <1>1
  <2>2. recvPc \in 0 .. 5
    BY <1>2
  <2> QED BY <2>1, <2>2
<1>7. /\ recvPc < 3 => /\ incomingReadings' = [incomingReadings EXCEPT ![StarFields[recvPc + 1]] = r]
                       /\ incoming' = incoming
      /\ recvPc >= 3 => /\ incoming' = [incoming EXCEPT ![StarFields[recvPc - 2]] = 1]
                        /\ incomingReadings' = incomingReadings
  BY <1>2 DEF DisplayOnDataRecv, r
<1>8. hears["display"]
  BY <1>1, <1>2 DEF StarIndInv, StarInv, HearInv
<1>9. /\ \A i \in 1 .. 3 : i <= recvPc => incomingReadings[StarFields[i]] = r
      /\ \A i \in 1 .. 3 : i <= recvPc - 3 => incoming[StarFields[i]] = 1
  BY DEF StarIndInv, StarInv, RecvInv, r
<1>10. /\ incomingReadings' \in [FieldNames -> Nat] /\ incoming' \in [FieldNames -> {0, 1}]
       /\ \A i \in 1 .. 3 : i <= recvPc + 1 => incomingReadings'[StarFields[i]] = r
       /\ \A i \in 1 .. 3 : i <= recvPc - 2 => incoming'[StarFields[i]] = 1
  <2>1. CASE recvPc = 0
    BY <2>1, <1>2, <1>3, <1>7, <1>9, Names DEF FieldNames
  <2>2. CASE recvPc = 1
    BY <2>2, <1>2, <1>3, <1>7, <1>9, Names DEF FieldNames
  <2>3. CASE recvPc = 2
    BY <2>3, <1>2, <1>3, <1>7, <1>9, Names DEF FieldNames
  <2>4. CASE recvPc = 3
    BY <2>4, <1>2, <1>3, <1>7, <1>9, Names DEF FieldNames
  <2>5. CASE recvPc = 4
    BY <2>5, <1>2, <1>3, <1>7, <1>9, Names DEF FieldNames
  <2>6. CASE recvPc = 5
    BY <2>6, <1>2, <1>3, <1>7, <1>9, Names DEF FieldNames
  <2> QED BY <1>2, <2>1, <2>2, <2>3, <2>4, <2>5, <2>6
<1>11. StarTypeOK'
  BY <1>1, <1>2, <1>5, <1>6, <1>10 DEF StarIndInv, StarInv, StarTypeOK, setupVars
<1>12. RecvInv'
  <2>1. CASE recvPc = 5
    <3>1. recvPc' = 0
      BY <1>6, <2>1
    <3>2. \A i \in 1 .. 3 : incomingReadings'[StarFields[i]] = r /\ incoming'[StarFields[i]] = 1
      BY <1>10, <2>1
    <3>3. incoming'["temp"] = 1 /\ incomingReadings'["temp"] > 0
      BY <3>2, <1>3, Names
    <3> QED BY <3>1, <3>2, <3>3, <1>1, <1>8 DEF RecvInv, setupVars
  <2>2. CASE recvPc # 5
    <3>1. recvPc' = recvPc + 1 /\ inbox' = inbox
      BY <1>5, <1>6, <2>2
    <3> QED BY <3>1, <1>1, <1>2, <1>8, <1>10 DEF RecvInv, setupVars, r
  <2> QED BY <2>1, <2>2
<1>13. HearInv'
  <2> SUFFICES ASSUME NEW k \in Stars
               PROVE  /\ ~hears[k] => inbox'[k] = <<>>
                      /\ hears[k] => addedPeers[k] = Range(broadcastAddress[k])
                      /\ \A i \in DOMAIN inbox'[k] : k \in addedPeers[inbox'[k][i].from]
    BY <1>1 DEF HearInv, setupVars
  <2>1. CASE k # "display" \/ recvPc # 5
    BY <2>1, <1>5 DEF StarIndInv, StarInv, HearInv
  <2>2. CASE k = "display" /\ recvPc = 5
    <3>1. /\ \A i \in DOMAIN inbox["display"] : "display" \in addedPeers[inbox["display"][i].from]
          /\ hears["display"] => addedPeers["display"] = Range(broadcastAddress["display"])
      BY <1>2 DEF StarIndInv, StarInv, HearInv
    <3>2. inbox'[k] = Tail(inbox["display"])
      BY <2>2, <1>5
    <3>3. \A i \in DOMAIN inbox'[k] : k \in addedPeers[inbox'[k][i].from]
      BY <2>2, <3>1, <3>2, <1>4
    <3> QED BY <2>2, <3>1, <3>3, <1>8
  <2> QED BY <2>1, <2>2
<1>14. LoopInv' /\ ScreenOK'
  BY <1>1 DEF StarIndInv, StarInv, LoopInv, ScreenOK
<1>15. ShowInv' /\ ShownWhole'
  <2>1. loopPc["display"] = "show" => disturbed'
    BY <1>1, Zenon
  <2>2. ~disturbed' => ~disturbed
    BY <1>1, Zenon
  <2> QED BY <1>1, <2>1, <2>2 DEF StarIndInv, StarInv, ShowInv, ShownWhole
<1> QED BY <1>11, <1>12, <1>13, <1>14, <1>15 DEF StarIndInv, StarInv

\* StarIndInv is inductive.
LEMMA StarStays == StarIndInv /\ [StarNext]_starVars => StarIndInv'
<1> SUFFICES ASSUME StarIndInv, [StarNext]_starVars PROVE StarIndInv'
  OBVIOUS
<1>1. CASE StarNext
  <2>1. "master" \in Stars /\ "slave" \in Stars /\ "display" \in Stars
    BY DEF Stars
  <2> QED
    BY <1>1, <2>1, MasterSends, SlaveSends, DisplaySends, Updating, Delaying, SentReported, Printing, Receiving
    DEF StarNext, MasterOnDataSent, SlaveOnDataSent, DisplayOnDataSent, MasterOnDataRecv, SlaveOnDataRecv
<1>2. CASE UNCHANGED starVars
  <2>1. AtOnce(0)' = AtOnce(0)
    BY DEF AtOnce
  <2>2. StarTypeOK' /\ LoopInv' /\ HearInv'
    BY <1>2 DEF StarIndInv, StarInv, StarTypeOK, LoopInv, HearInv, starVars, setupVars, keptVars
  <2>3. RecvInv'
    BY <1>2, <2>1 DEF StarIndInv, StarInv, RecvInv, starVars, setupVars, keptVars
  <2>4. ShowInv' /\ ShownWhole' /\ ScreenOK'
    BY <1>2 DEF StarIndInv, StarInv, ShowInv, ShownWhole, ScreenOK, starVars, keptVars, shownVars
  <2> QED BY <2>2, <2>3, <2>4 DEF StarIndInv, StarInv
<1> QED BY <1>1, <1>2

\* It says what is to be kept.
LEMMA StarIndKeeps == StarIndInv => EspNowKept
<1> SUFFICES ASSUME StarIndInv PROVE EspNowKept
  OBVIOUS
<1>1. RoundReachesAll
  BY DEF StarIndInv, StarInv, LoopInv, RoundReachesAll
<1>2. PartialSetup
  BY DEF StarIndInv, StarInv, HearInv, RecvInv, PartialSetup
<1> QED BY <1>1, <1>2 DEF StarIndInv, StarInv, EspNowKept

\* The ESP-NOW star sketches, whichever boards are powered and however far their
\* setups got: a round offers its message to each address once, a board whose setup
\* stopped early hears nothing and sends nothing, and what one update of the display
\* shows is one message, unless another came in while it was being shown.
THEOREM EspNowIsKept == StarSpec => []EspNowKept
BY StarStarts, StarStays, StarIndKeeps, PTL DEF StarSpec

-----------------------------------------------------------------------------
(* AsyncServer.                                                            *)

\* What the variables of the servers hold.
ServerTypeOK ==
  /\ serverPcb \in [Servers -> Pcbs \cup {"NULL"}]
  /\ serverCb \in [Servers -> BOOLEAN]
  /\ serverPc \in [at : {"idle", "bind", "listen", "arg", "accept", "unarg", "unaccept", "close"},
                   server : Servers \cup {"NULL"}]
  /\ pcbs \in [Pcbs -> [state : {"free", "new", "bound", "listen"},
                        arg : Servers \cup {"NULL"}, accepts : BOOLEAN]]
  /\ conns \in Seq({"waits", "refused", "given", "lost"})
  /\ acceptPackets \in Seq([server : Servers, conn : Nat \ {0}])
  /\ gone \subseteq Servers
  /\ quiet \in BOOLEAN /\ serverFault \in BOOLEAN
  /\ InCall("idle") <=> serverPc.server = "NULL"

\* The pcb that server s has, while loop() is in the call pc.
PcbOf(s, pc) ==
  IF s # pc.server THEN [state |-> "listen", arg |-> s, accepts |-> TRUE]
  ELSE [state |-> IF pc.at = "bind" THEN "new" ELSE IF pc.at = "listen" THEN "bound" ELSE "listen",
        arg |-> IF pc.at \in {"accept", "unarg"} THEN s ELSE "NULL",
        accepts |-> IF pc.at \in {"unarg", "unaccept"} THEN TRUE ELSE FALSE]

\* What a server holds is its own, as far as begin() or end() has come with it,
HoldInv ==
  /\ ~serverFault
  /\ \A s \in Servers : serverPcb[s] # "NULL" => s \notin gone /\ pcbs[serverPcb[s]] = PcbOf(s, serverPc)
  /\ \A s, t \in Servers : serverPcb[s] # "NULL" /\ serverPcb[s] = serverPcb[t] => s = t
  /\ \A p \in Pcbs : pcbs[p].state = "listen" => \E s \in Servers : serverPcb[s] = p
  /\ serverPc.at \notin {"idle", "bind"} => Held # "NULL"

\* and a connection waits in one packet, of a server that can take it.
WaitInv ==
  /\ \A i \in DOMAIN acceptPackets :
       /\ acceptPackets[i].server \notin gone /\ serverCb[acceptPackets[i].server]
       /\ acceptPackets[i].conn \in DOMAIN conns
  /\ \A i, j \in DOMAIN acceptPackets : acceptPackets[i].conn = acceptPackets[j].conn => i = j
  /\ \A c \in DOMAIN conns : conns[c] = "waits" <=> \E i \in DOMAIN acceptPackets : acceptPackets[i].conn = c
  /\ \A c \in DOMAIN conns : conns[c] # "lost"

\* The inductive invariant.  It holds while quiet does: no bind has failed, no server
\* was deleted with a packet waiting, and no connection came between the two calls
\* with which end() takes argument and callback away.
ServerInv == ServerTypeOK /\ (quiet => HoldInv /\ WaitInv)

\* A pcb of lwIP, a packet that waits for the task, and how a connection fares.
AnyPcb == [state : {"free", "new", "bound", "listen"}, arg : Servers \cup {"NULL"}, accepts : BOOLEAN]
AnyPacket == [server : Servers, conn : Nat \ {0}]
Fates == {"waits", "refused", "given", "lost"}

\* Two pcbs with the same fields are the same.
LEMMA PcbFields ==
  ASSUME NEW x \in AnyPcb, NEW y \in AnyPcb, x.state = y.state, x.arg = y.arg, x.accepts = y.accepts
  PROVE  x = y
BY DEF AnyPcb

\* A packet is for a server.
LEMMA PacketTyped == ServerTypeOK => \A i \in DOMAIN acceptPackets : acceptPackets[i].server \in Servers
<1> SUFFICES ASSUME ServerTypeOK, NEW i \in DOMAIN acceptPackets PROVE acceptPackets[i].server \in Servers
  OBVIOUS
<1>1. acceptPackets \in Seq(AnyPacket)
  BY DEF ServerTypeOK, AnyPacket
<1>2. acceptPackets[i] \in AnyPacket
  BY <1>1
<1> QED BY <1>2 DEF AnyPacket

\* What tcp_new gives: a pcb without argument and callback.
LEMMA NewPcb == /\ [FreePcb EXCEPT !.state = "new"] \in AnyPcb
                /\ [FreePcb EXCEPT !.state = "new"].state = "new"
                /\ [FreePcb EXCEPT !.state = "new"].arg = "NULL"
                /\ [FreePcb EXCEPT !.state = "new"].accepts = FALSE
<1>1. FreePcb \in AnyPcb /\ FreePcb.arg = "NULL" /\ FreePcb.accepts = FALSE
  BY DEF FreePcb, AnyPcb
<1> QED BY <1>1 DEF AnyPcb

\* The pcb that a server has, by its fields.
LEMMA PcbOfTyped ==
  ASSUME NEW s \in Servers, NEW pc
  PROVE  /\ PcbOf(s, pc) \in AnyPcb
         /\ s # pc.server => PcbOf(s, pc) = [state |-> "listen", arg |-> s, accepts |-> TRUE]
         /\ s = pc.server => /\ PcbOf(s, pc).state =
                                 IF pc.at = "bind" THEN "new" ELSE IF pc.at = "listen" THEN "bound" ELSE "listen"
                             /\ PcbOf(s, pc).arg = IF pc.at \in {"accept", "unarg"} THEN s ELSE "NULL"
                             /\ PcbOf(s, pc).accepts = IF pc.at \in {"unarg", "unaccept"} THEN TRUE ELSE FALSE
BY DEF PcbOf, AnyPcb

\* By the call it is in:
LEMMA PcbAt ==
  ASSUME NEW s \in Servers, NEW pc, s = pc.server, NEW b, PcbOf(s, pc) = b
  PROVE  /\ b \in AnyPcb
         /\ pc.at = "bind" => b.state = "new" /\ b.arg = "NULL" /\ b.accepts = FALSE
         /\ pc.at = "listen" => b.state = "bound" /\ b.arg = "NULL" /\ b.accepts = FALSE
         /\ pc.at = "arg" => b.state = "listen" /\ b.arg = "NULL" /\ b.accepts = FALSE
         /\ pc.at = "accept" => b.state = "listen" /\ b.arg = s /\ b.accepts = FALSE
         /\ pc.at = "unarg" => b.state = "listen" /\ b.arg = s /\ b.accepts = TRUE
         /\ pc.at = "unaccept" => b.state = "listen" /\ b.arg = "NULL" /\ b.accepts = TRUE
         /\ pc.at = "close" => b.state = "listen" /\ b.arg = "NULL" /\ b.accepts = FALSE
BY PcbOfTyped

\* Of a server that is in no call.
LEMMA PcbElse ==
  ASSUME NEW s \in Servers, NEW pc, s # pc.server
  PROVE  /\ PcbOf(s, pc) = [state |-> "listen", arg |-> s, accepts |-> TRUE]
         /\ PcbOf(s, pc) \in AnyPcb /\ PcbOf(s, pc).arg = s
<1>1. PcbOf(s, pc) = [state |-> "listen", arg |-> s, accepts |-> TRUE]
  BY DEF PcbOf
<1> QED BY <1>1 DEF AnyPcb

\* The other way: a pcb with the fields of the call is the one of the call.
LEMMA PcbIs ==
  ASSUME NEW s \in Servers, NEW pc, s = pc.server, NEW e \in AnyPcb,
         \/ pc.at = "listen" /\ e.state = "bound" /\ e.arg = "NULL" /\ e.accepts = FALSE
         \/ pc.at = "arg" /\ e.state = "listen" /\ e.arg = "NULL" /\ e.accepts = FALSE
         \/ pc.at = "accept" /\ e.state = "listen" /\ e.arg = s /\ e.accepts = FALSE
         \/ pc.at = "unaccept" /\ e.state = "listen" /\ e.arg = "NULL" /\ e.accepts = TRUE
         \/ pc.at = "close" /\ e.state = "listen" /\ e.arg = "NULL" /\ e.accepts = FALSE
  PROVE  e = PcbOf(s, pc)
<1> DEFINE x == PcbOf(s, pc)
<1>1. x \in AnyPcb
  BY PcbOfTyped
<1>2. e.state = x.state
  BY PcbOfTyped
<1>3. e.arg = x.arg
  BY PcbOfTyped
<1>4. e.accepts = x.accepts
  BY PcbOfTyped
<1> HIDE DEF x
<1>5. e = x
  BY <1>1, <1>2, <1>3, <1>4, PcbFields
<1> QED BY <1>5 DEF x

\* Only while end() is between its calls does a pcb accept without its server.
LEMMA PcbAccepts ==
  ASSUME NEW s \in Servers, NEW pc, s = pc.server, pc.at # "unaccept"
  PROVE  PcbOf(s, pc).accepts => PcbOf(s, pc).arg = s
<1>1. PcbOf(s, pc).accepts = IF pc.at \in {"unarg", "unaccept"} THEN TRUE ELSE FALSE
  BY PcbOfTyped
<1>2. PcbOf(s, pc).arg = IF pc.at \in {"accept", "unarg"} THEN s ELSE "NULL"
  BY PcbOfTyped
<1>3. CASE pc.at = "unarg"
  BY <1>2, <1>3
<1>4. CASE pc.at # "unarg"
  BY <1>1, <1>4
<1> QED BY <1>3, <1>4

\* ServerInv holds at first.
LEMMA ServerStart == ServerInit => ServerInv
<1> SUFFICES ASSUME ServerInit PROVE ServerInv
  OBVIOUS
<1>1. ServerTypeOK
  <2>1. pcbs \in [Pcbs -> AnyPcb]
    BY DEF ServerInit, FreePcb, AnyPcb
  <2>2. serverPc.at = "idle" /\ serverPc.server = "NULL"
        /\ serverPc \in [at : {"idle", "bind", "listen", "arg", "accept", "unarg", "unaccept", "close"},
                         server : Servers \cup {"NULL"}]
    BY DEF ServerInit, NoCall
  <2>3. InCall("idle") <=> serverPc.server = "NULL"
    BY <2>2 DEF InCall
  <2>4. quiet \in BOOLEAN /\ serverFault \in BOOLEAN
    BY DEF ServerInit
  <2> QED BY <2>1, <2>2, <2>3, <2>4 DEF ServerInit, ServerTypeOK, AnyPcb
<1>2. HoldInv
  BY DEF ServerInit, HoldInv, NoCall, FreePcb, InCall
<1>3. WaitInv
  BY DEF ServerInit, WaitInv
<1> QED BY <1>1, <1>2, <1>3 DEF ServerInv

\* The pcbs and calls change, the connections do not.
LEMMA WaitKept ==
  ASSUME WaitInv, UNCHANGED <<conns, acceptPackets, gone>>,
         \A s \in Servers : serverCb[s] => serverCb'[s],
         ServerTypeOK
  PROVE  WaitInv'
<1>1. \A i \in DOMAIN acceptPackets : acceptPackets[i].server \in Servers
  BY PacketTyped
<1> QED BY <1>1 DEF WaitInv

\* onClient() sets the handler.
LEMMA ClientHandlerSet == ASSUME NEW s \in Servers, ServerInv, onClient(s) PROVE ServerInv'
<1>1. /\ serverCb' = [serverCb EXCEPT ![s] = TRUE]
      /\ UNCHANGED <<serverPcb, serverPc, pcbs, conns, acceptPackets, gone, quiet, serverFault>>
  BY DEF onClient
<1>2. ServerTypeOK'
  BY <1>1 DEF ServerInv, ServerTypeOK, InCall
<1>3. HoldInv => HoldInv'
  BY <1>1 DEF HoldInv, Held, PcbOf
<1>4. \A t \in Servers : serverCb[t] => serverCb'[t]
  BY <1>1 DEF ServerInv, ServerTypeOK
<1>5. WaitInv => WaitInv'
  BY <1>1, <1>4, WaitKept DEF ServerInv
<1> QED BY <1>1, <1>2, <1>3, <1>5 DEF ServerInv

\* begin() gets a pcb for a server without one, if lwIP has one.
LEMMA BeginStarts == ASSUME NEW s \in Servers, ServerInv, begin(s) PROVE ServerInv'
<1>1. /\ serverPcb[s] = "NULL" /\ InCall("idle") /\ s \notin gone
      /\ serverPc' = [at |-> "bind", server |-> s]
      /\ UNCHANGED <<serverCb, conns, acceptPackets, gone, quiet, serverFault>>
  BY DEF begin, CallOf
<1>2. s # "NULL" /\ serverPc.server = "NULL"
  BY <1>1, ServerAssumption DEF ServerInv, ServerTypeOK
<1>3. /\ serverPcb \in [Servers -> Pcbs \cup {"NULL"}] /\ pcbs \in [Pcbs -> AnyPcb]
  BY DEF ServerInv, ServerTypeOK, AnyPcb
<1>4. WaitInv => WaitInv'
  BY <1>1, WaitKept DEF ServerInv
<1>5. CASE UNCHANGED <<serverPcb, pcbs>>
  <2>1. ServerTypeOK'
    BY <1>1, <1>2, <1>5 DEF ServerInv, ServerTypeOK, InCall
  <2>2. HoldInv => HoldInv'
    <3> SUFFICES ASSUME HoldInv PROVE HoldInv'
      OBVIOUS
    <3>1. \A t \in Servers : serverPcb[t] # "NULL" => t # s /\ PcbOf(t, serverPc') = PcbOf(t, serverPc)
      BY <1>1, <1>2, ServerAssumption DEF PcbOf
    <3>2. serverPc'.at = "bind"
      BY <1>1
    <3> QED BY <1>1, <1>5, <3>1, <3>2 DEF HoldInv
  <2> QED BY <1>1, <1>4, <2>1, <2>2 DEF ServerInv
<1>6. ASSUME NEW p \in Pcbs, pcbs[p].state = "free",
             pcbs' = [pcbs EXCEPT ![p] = [FreePcb EXCEPT !.state = "new"]],
             serverPcb' = [serverPcb EXCEPT ![s] = p]
      PROVE  ServerInv'
  <2> DEFINE np == [FreePcb EXCEPT !.state = "new"]
  <2>1. np \in AnyPcb /\ np.state = "new" /\ np.arg = "NULL" /\ np.accepts = FALSE
    BY NewPcb
  <2> HIDE DEF np
  <2>2. /\ pcbs' \in [Pcbs -> AnyPcb] /\ pcbs'[p] = np
        /\ \A o \in Pcbs : o # p => pcbs'[o] = pcbs[o]
    BY <1>3, <1>6, <2>1 DEF np
  <2>3. /\ serverPcb' \in [Servers -> Pcbs \cup {"NULL"}] /\ serverPcb'[s] = p
        /\ \A t \in Servers : t # s => serverPcb'[t] = serverPcb[t]
    BY <1>3, <1>6
  <2>4. serverPc' \in [at : {"idle", "bind", "listen", "arg", "accept", "unarg", "unaccept", "close"},
                   server : Servers \cup {"NULL"}] /\ (InCall("idle")' <=> serverPc'.server = "NULL")
    BY <1>1, <1>2 DEF InCall
  <2>5. ServerTypeOK'
    BY <1>1, <2>2, <2>3, <2>4 DEF ServerInv, ServerTypeOK, AnyPcb
  <2>6. HoldInv => HoldInv'
    <3> SUFFICES ASSUME HoldInv PROVE HoldInv'
      OBVIOUS
    <3>1. \A t \in Servers : t # s => PcbOf(t, serverPc') = PcbOf(t, serverPc)
      BY <1>1, <1>2, ServerAssumption DEF PcbOf
    <3>2. PcbOf(s, serverPc') = np
      <4>1. /\ PcbOf(s, serverPc') \in AnyPcb /\ PcbOf(s, serverPc').state = "new"
            /\ PcbOf(s, serverPc').arg = "NULL" /\ PcbOf(s, serverPc').accepts = FALSE
        <5>1. serverPc'.at = "bind" /\ serverPc'.server = s
          BY <1>1
        <5> QED BY <5>1, PcbOfTyped
      <4> QED BY <4>1, <2>1, PcbFields
    <3>3. \A t \in Servers : PcbOf(t, serverPc).state # "free"
      BY DEF PcbOf
    <3>4. \A t \in Servers : serverPcb[t] # p
      BY <1>6, <3>3, ServerAssumption DEF HoldInv
    <3>5. serverPc'.at = "bind"
      BY <1>1
    <3>6. \A t \in Servers : serverPcb'[t] # "NULL" => t \notin gone /\ pcbs'[serverPcb'[t]] = PcbOf(t, serverPc')
      <4> SUFFICES ASSUME NEW t \in Servers, serverPcb'[t] # "NULL"
                   PROVE t \notin gone /\ pcbs'[serverPcb'[t]] = PcbOf(t, serverPc')
        OBVIOUS
      <4>1. CASE t = s
        BY <4>1, <2>2, <2>3, <3>2, <1>1
      <4>2. CASE t # s
        <5>1. serverPcb[t] \in Pcbs /\ serverPcb[t] # p
          BY <4>2, <2>3, <3>4, <1>3
        <5> QED BY <4>2, <5>1, <2>2, <2>3, <3>1 DEF HoldInv
      <4> QED BY <4>1, <4>2
    <3>7. \A t, u \in Servers : serverPcb'[t] # "NULL" /\ serverPcb'[t] = serverPcb'[u] => t = u
      BY <2>3, <3>4 DEF HoldInv
    <3>8. \A o \in Pcbs : pcbs'[o].state = "listen" => \E t \in Servers : serverPcb'[t] = o
      <4> SUFFICES ASSUME NEW o \in Pcbs, pcbs'[o].state = "listen" PROVE \E t \in Servers : serverPcb'[t] = o
        OBVIOUS
      <4>1. o # p /\ pcbs[o].state = "listen"
        BY <2>1, <2>2
      <4>2. PICK t \in Servers : serverPcb[t] = o
        BY <4>1 DEF HoldInv
      <4>3. t # s
        BY <1>1, <4>2, ServerAssumption
      <4> QED BY <4>2, <4>3, <2>3
    <3> QED BY <1>1, <3>5, <3>6, <3>7, <3>8 DEF HoldInv
  <2> QED BY <1>1, <1>4, <2>5, <2>6 DEF ServerInv
<1> QED BY <1>5, <1>6 DEF begin

\* If it has none, begin() gives up.
LEMMA NoMemoryLeft == ASSUME ServerInv, NoMemory PROVE ServerInv'
<1>1. /\ InCall("bind") /\ Held = "NULL" /\ serverPc' = NoCall
      /\ UNCHANGED <<serverPcb, serverCb, pcbs, conns, acceptPackets, gone, quiet, serverFault>>
  BY DEF NoMemory
<1>2. serverPc.server \in Servers
  BY <1>1 DEF ServerInv, ServerTypeOK, InCall
<1>3. ServerTypeOK'
  BY <1>1 DEF ServerInv, ServerTypeOK, InCall, NoCall
<1>4. HoldInv => HoldInv'
  <2> SUFFICES ASSUME HoldInv PROVE HoldInv'
    OBVIOUS
  <2>1. \A t \in Servers : serverPcb[t] # "NULL" => PcbOf(t, serverPc') = PcbOf(t, serverPc)
    BY <1>1, ServerAssumption DEF PcbOf, NoCall, Held
  <2>2. serverPc'.at = "idle"
    BY <1>1 DEF NoCall
  <2> QED BY <1>1, <2>1, <2>2 DEF HoldInv
<1>5. WaitInv => WaitInv'
  BY <1>1, WaitKept DEF ServerInv
<1> QED BY <1>1, <1>3, <1>4, <1>5 DEF ServerInv

\* In a call the server's pcb changes, which is its own, and the call goes on.
LEMMA StepKeeps ==
  ASSUME ServerInv, HoldInv, NEW e \in AnyPcb, serverPc.server \in Servers, Held \in Pcbs,
         pcbs' = [pcbs EXCEPT ![Held] = e],
         serverPc' \in [at : {"idle", "bind", "listen", "arg", "accept", "unarg", "unaccept", "close"},
                        server : Servers \cup {"NULL"}],
         serverPc'.server \in {serverPc.server, "NULL"}, serverPc'.server = "NULL" => serverPc'.at = "idle",
         serverPcb' = serverPcb,
         e.state = "listen" \/ pcbs[Held].state # "listen",
         e = PcbOf(serverPc.server, serverPc'),
         UNCHANGED <<gone, serverFault>>
  PROVE  HoldInv'
<1> DEFINE s == serverPc.server
<1>1. /\ serverPcb \in [Servers -> Pcbs \cup {"NULL"}] /\ pcbs \in [Pcbs -> AnyPcb]
  BY DEF ServerInv, ServerTypeOK, AnyPcb
<1>2. /\ pcbs'[Held] = e /\ \A o \in Pcbs : o # Held => pcbs'[o] = pcbs[o]
  BY <1>1
<1>3. \A t \in Servers : t # s => serverPcb[t] # Held /\ PcbOf(t, serverPc') = PcbOf(t, serverPc)
  BY ServerAssumption DEF PcbOf, HoldInv, Held
<1>4. \A t \in Servers : serverPcb'[t] # "NULL" => t \notin gone /\ pcbs'[serverPcb'[t]] = PcbOf(t, serverPc')
  <2> SUFFICES ASSUME NEW t \in Servers, serverPcb[t] # "NULL"
               PROVE t \notin gone /\ pcbs'[serverPcb[t]] = PcbOf(t, serverPc')
    OBVIOUS
  <2>1. CASE t = s
    BY <2>1, <1>2 DEF Held, HoldInv
  <2>2. CASE t # s
    <3>1. serverPcb[t] \in Pcbs /\ serverPcb[t] # Held
      BY <2>2, <1>1, <1>3
    <3> QED BY <3>1, <2>2, <1>2, <1>3 DEF HoldInv
  <2> QED BY <2>1, <2>2
<1>5. \A o \in Pcbs : pcbs'[o].state = "listen" => \E t \in Servers : serverPcb[t] = o
  BY <1>2 DEF HoldInv, Held
<1>6. serverPc'.at \notin {"idle", "bind"} => Held' # "NULL"
  <2>1. CASE serverPc'.server = s
    BY <2>1, ServerAssumption DEF Held
  <2>2. CASE serverPc'.server = "NULL"
    BY <2>2
  <2> QED BY <2>1, <2>2
<1> QED BY <1>4, <1>5, <1>6 DEF HoldInv

\* What is typed of a step from one call to the next, which changes the pcb that is held.
LEMMA PcTyped ==
  ASSUME ServerInv, NEW pc \in {"listen", "arg", "accept", "unaccept", "close"}, ~InCall("idle"),
         serverPc' = [serverPc EXCEPT !.at = pc]
  PROVE  /\ serverPc.server \in Servers
         /\ serverPc' \in [at : {"idle", "bind", "listen", "arg", "accept", "unarg", "unaccept", "close"},
                           server : Servers \cup {"NULL"}]
         /\ serverPc'.at = pc /\ serverPc'.server = serverPc.server /\ serverPc'.server # "NULL"
BY ServerAssumption DEF ServerInv, ServerTypeOK

\* What is typed of a step back to loop().
LEMMA BackTyped ==
  ASSUME ServerInv, ~InCall("idle"), serverPc' = NoCall
  PROVE  /\ serverPc.server \in Servers
         /\ serverPc' \in [at : {"idle", "bind", "listen", "arg", "accept", "unarg", "unaccept", "close"},
                           server : Servers \cup {"NULL"}]
         /\ serverPc'.at = "idle" /\ serverPc'.server = "NULL"
BY DEF ServerInv, ServerTypeOK, NoCall

\* What a call finds in _pcb.
LEMMA HeldTyped == ServerInv /\ ~InCall("idle") => Held \in Pcbs \cup {"NULL"}
BY DEF ServerInv, ServerTypeOK, Held, InCall

\* The pcb is bound to the port, or closed; then it is no longer quiet.
LEMMA TcpBind == ASSUME ServerInv, _tcp_bind PROVE ServerInv'
<1>1. /\ InCall("bind") /\ Held # "NULL"
      /\ UNCHANGED <<serverPcb, serverCb, conns, acceptPackets, gone, serverFault>>
  BY DEF _tcp_bind
<1>2. Held \in Pcbs /\ ~InCall("idle")
  BY <1>1, HeldTyped DEF InCall
<1>3. pcbs \in [Pcbs -> AnyPcb] /\ FreePcb \in AnyPcb
  BY DEF ServerInv, ServerTypeOK, AnyPcb, FreePcb
<1>4. WaitInv => WaitInv'
  BY <1>1, WaitKept DEF ServerInv
<1>5. CASE \E p \in Pcbs : pcbs[p].state \in {"bound", "listen"}
  <2>1. pcbs' = [pcbs EXCEPT ![Held] = FreePcb] /\ serverPc' = NoCall /\ quiet' = FALSE
    BY <1>5 DEF _tcp_bind
  <2>2. pcbs' \in [Pcbs -> AnyPcb]
    BY <2>1, <1>3
  <2>3. ServerTypeOK'
    BY <1>1, <1>2, <2>1, <2>2, BackTyped DEF ServerInv, ServerTypeOK, AnyPcb, InCall
  <2> QED BY <2>1, <2>3 DEF ServerInv
<1>6. CASE ~ \E p \in Pcbs : pcbs[p].state \in {"bound", "listen"}
  <2>1. /\ pcbs' = [pcbs EXCEPT ![Held].state = "bound"]
        /\ serverPc' = [serverPc EXCEPT !.at = "listen"] /\ UNCHANGED quiet
    BY <1>6 DEF _tcp_bind
  <2> DEFINE e == [pcbs[Held] EXCEPT !.state = "bound"]
  <2>2. /\ e \in AnyPcb /\ e.state = "bound" /\ e.arg = pcbs[Held].arg /\ e.accepts = pcbs[Held].accepts
        /\ pcbs[Held].state # "listen"
    BY <1>2, <1>3, <1>6 DEF AnyPcb
  <2>3. pcbs' = [pcbs EXCEPT ![Held] = e]
    BY <2>1
  <2> HIDE DEF e
  <2>4. pcbs' \in [Pcbs -> AnyPcb]
    BY <2>2, <2>3, <1>3
  <2>5. ServerTypeOK'
    BY <1>1, <1>2, <2>1, <2>4, PcTyped DEF ServerInv, ServerTypeOK, AnyPcb, InCall
  <2>6. HoldInv => HoldInv'
    <3> SUFFICES ASSUME HoldInv PROVE HoldInv'
      OBVIOUS
    <3>1. serverPc.server \in Servers /\ serverPc.at = "bind"
      BY <1>1, <1>2, <2>1, PcTyped DEF InCall
    <3>2. pcbs[Held] = PcbOf(serverPc.server, serverPc)
      BY <3>1, <1>1 DEF HoldInv, Held
    <3>3. pcbs[Held].arg = "NULL" /\ pcbs[Held].accepts = FALSE
      BY <3>1, <3>2, PcbAt
    <3>4. serverPc'.at = "listen" /\ serverPc'.server = serverPc.server
      BY <1>2, <2>1, PcTyped
    <3>5. e = PcbOf(serverPc.server, serverPc')
      BY <2>2, <3>1, <3>3, <3>4, PcbIs
    <3> QED BY <1>1, <1>2, <2>1, <2>2, <2>3, <3>1, <3>5, PcTyped, StepKeeps
  <2> QED BY <2>1, <2>5, <2>6, <1>4 DEF ServerInv
<1> QED BY <1>5, <1>6

\* A call that changes one field of the pcb, to what the next call finds.
LEMMA CallKeeps ==
  ASSUME ServerInv, NEW e \in AnyPcb, Held \in Pcbs, ~InCall("idle"),
         pcbs' = [pcbs EXCEPT ![Held] = e], serverPcb' = serverPcb,
         \/ \E pc \in {"arg", "accept", "unaccept", "close"} : serverPc' = [serverPc EXCEPT !.at = pc]
         \/ serverPc' = NoCall,
         HoldInv => /\ e.state = "listen" \/ pcbs[Held].state # "listen"
                    /\ e = PcbOf(serverPc.server, serverPc'),
         UNCHANGED <<serverCb, conns, acceptPackets, gone, quiet, serverFault>>
  PROVE  ServerInv'
<1>1. /\ serverPc.server \in Servers
      /\ serverPc' \in [at : {"idle", "bind", "listen", "arg", "accept", "unarg", "unaccept", "close"},
                        server : Servers \cup {"NULL"}]
      /\ serverPc'.server \in {serverPc.server, "NULL"}
      /\ serverPc'.server = "NULL" <=> serverPc'.at = "idle"
  BY PcTyped, BackTyped
<1>2. pcbs' \in [Pcbs -> AnyPcb]
  BY DEF ServerInv, ServerTypeOK, AnyPcb
<1>3. ServerTypeOK'
  BY <1>1, <1>2 DEF ServerInv, ServerTypeOK, AnyPcb, InCall
<1>4. HoldInv => HoldInv'
  BY <1>1, StepKeeps
<1>5. WaitInv => WaitInv'
  BY WaitKept DEF ServerInv
<1> QED BY <1>3, <1>4, <1>5 DEF ServerInv

\* What is held in a call from begin() or end(): a pcb with these fields.
LEMMA HeldFields ==
  ASSUME ServerInv, HoldInv, ~InCall("idle"), ~InCall("bind")
  PROVE  /\ Held \in Pcbs /\ serverPc.server \in Servers
         /\ pcbs[Held].state = IF serverPc.at = "listen" THEN "bound" ELSE "listen"
         /\ pcbs[Held].arg = IF serverPc.at \in {"accept", "unarg"} THEN serverPc.server ELSE "NULL"
         /\ pcbs[Held].accepts = IF serverPc.at \in {"unarg", "unaccept"} THEN TRUE ELSE FALSE
<1>1. serverPc.server \in Servers
  BY DEF ServerInv, ServerTypeOK
<1>2. Held # "NULL" /\ Held \in Pcbs
  BY HeldTyped DEF HoldInv, InCall, ServerInv, ServerTypeOK
<1>3. pcbs[Held] = PcbOf(serverPc.server, serverPc)
  BY <1>1, <1>2 DEF HoldInv, Held
<1>4. serverPc.at # "bind"
  BY DEF InCall
<1>6. pcbs[Held].state = IF serverPc.at = "listen" THEN "bound" ELSE "listen"
  <2>1. PcbOf(serverPc.server, serverPc).state =
          IF serverPc.at = "bind" THEN "new" ELSE IF serverPc.at = "listen" THEN "bound" ELSE "listen"
    BY <1>1, PcbOfTyped
  <2> QED BY <1>3, <1>4, <2>1
<1>7. pcbs[Held].arg = IF serverPc.at \in {"accept", "unarg"} THEN serverPc.server ELSE "NULL"
  BY <1>1, <1>3, PcbOfTyped
<1>8. pcbs[Held].accepts = IF serverPc.at \in {"unarg", "unaccept"} THEN TRUE ELSE FALSE
  BY <1>1, <1>3, PcbOfTyped
<1> QED BY <1>1, <1>2, <1>6, <1>7, <1>8

\* Nothing changes where nothing is held, except where the call has come to.
LEMMA NotHeld ==
  ASSUME ServerInv, ~quiet, quiet' = quiet,
         serverPcb' \in [Servers -> Pcbs \cup {"NULL"}], pcbs' \in [Pcbs -> AnyPcb], ~InCall("idle"),
         \/ \E pc \in {"arg", "accept", "unaccept", "close"} : serverPc' = [serverPc EXCEPT !.at = pc]
         \/ serverPc' = NoCall,
         UNCHANGED <<serverCb, conns, acceptPackets, gone>>, serverFault' \in BOOLEAN
  PROVE  ServerInv'
<1>1. /\ serverPc' \in [at : {"idle", "bind", "listen", "arg", "accept", "unarg", "unaccept", "close"},
                        server : Servers \cup {"NULL"}]
      /\ serverPc'.server = "NULL" <=> serverPc'.at = "idle"
  BY PcTyped, BackTyped
<1>2. ServerTypeOK'
  BY <1>1 DEF ServerInv, ServerTypeOK, AnyPcb, InCall
<1> QED BY <1>2 DEF ServerInv

\* Fields of a pcb change within its type.
LEMMA FieldTyped ==
  ASSUME NEW o, pcbs \in [Pcbs -> AnyPcb]
  PROVE  /\ \A v \in {"free", "new", "bound", "listen"} : [pcbs EXCEPT ![o].state = v] \in [Pcbs -> AnyPcb]
         /\ \A v \in Servers \cup {"NULL"} : [pcbs EXCEPT ![o].arg = v] \in [Pcbs -> AnyPcb]
         /\ \A v \in BOOLEAN : [pcbs EXCEPT ![o].accepts = v] \in [Pcbs -> AnyPcb]
<1>1. CASE o \in Pcbs
  <2>1. pcbs[o] \in AnyPcb
    BY <1>1
  <2>2. /\ \A v \in {"free", "new", "bound", "listen"} : [pcbs[o] EXCEPT !.state = v] \in AnyPcb
        /\ \A v \in Servers \cup {"NULL"} : [pcbs[o] EXCEPT !.arg = v] \in AnyPcb
        /\ \A v \in BOOLEAN : [pcbs[o] EXCEPT !.accepts = v] \in AnyPcb
    BY <2>1 DEF AnyPcb
  <2> QED BY <1>1, <2>2
<1>2. CASE o \notin Pcbs
  BY <1>2
<1> QED BY <1>1, <1>2

\* The pcb listens, or is forgotten.
LEMMA TcpListen == ASSUME ServerInv, _tcp_listen_with_backlog PROVE ServerInv'
<1>1. InCall("listen") /\ ~InCall("idle") /\ ~InCall("bind") /\ serverPc.at = "listen"
      /\ UNCHANGED <<serverCb, conns, acceptPackets, gone, quiet, serverFault>>
  BY DEF _tcp_listen_with_backlog, InCall
<1>2. pcbs \in [Pcbs -> AnyPcb] /\ serverPcb \in [Servers -> Pcbs \cup {"NULL"}] /\ serverFault \in BOOLEAN
  BY DEF ServerInv, ServerTypeOK, AnyPcb
<1>3. CASE pcbs' = [pcbs EXCEPT ![Held].state = "listen"] /\ ServerStep("arg", serverPcb)
  <2>1. serverPc' = [serverPc EXCEPT !.at = "arg"] /\ serverPcb' = serverPcb
    BY <1>3 DEF ServerStep
  <2>2. CASE ~quiet
    <3>1. pcbs' \in [Pcbs -> AnyPcb]
      BY <1>2, <1>3, FieldTyped
    <3> QED BY <1>1, <1>2, <2>1, <2>2, <3>1, NotHeld
  <2>3. CASE quiet
    <3>1. HoldInv
      BY <2>3 DEF ServerInv
    <3>2. /\ Held \in Pcbs /\ serverPc.server \in Servers
          /\ pcbs[Held].state = "bound" /\ pcbs[Held].arg = "NULL" /\ pcbs[Held].accepts = FALSE
      BY <1>1, <3>1, HeldFields
    <3> DEFINE e == [pcbs[Held] EXCEPT !.state = "listen"]
    <3>3. e \in AnyPcb /\ e.state = "listen" /\ e.arg = "NULL" /\ e.accepts = FALSE
      BY <1>2, <3>2 DEF AnyPcb
    <3>4. pcbs' = [pcbs EXCEPT ![Held] = e]
      BY <1>3
    <3> HIDE DEF e
    <3>5. serverPc'.at = "arg" /\ serverPc'.server = serverPc.server
      BY <1>1, <2>1, PcTyped
    <3>6. e = PcbOf(serverPc.server, serverPc')
      BY <3>2, <3>3, <3>5, PcbIs
    <3> QED BY <1>1, <2>1, <3>2, <3>3, <3>4, <3>6, CallKeeps
  <2> QED BY <2>2, <2>3
<1>4. CASE /\ serverPcb' = [serverPcb EXCEPT ![serverPc.server] = "NULL"]
           /\ serverPc' = NoCall /\ UNCHANGED pcbs
  <2>1. serverPcb' \in [Servers -> Pcbs \cup {"NULL"}]
    BY <1>2, <1>4
  <2>2. CASE ~quiet
    BY <1>1, <1>2, <1>4, <2>1, <2>2, NotHeld
  <2>3. CASE quiet
    <3>1. HoldInv /\ WaitInv
      BY <2>3 DEF ServerInv
    <3>2. /\ Held \in Pcbs /\ serverPc.server \in Servers /\ pcbs[Held].state = "bound"
      BY <1>1, <3>1, HeldFields
    <3>3. /\ serverPcb'[serverPc.server] = "NULL"
          /\ \A t \in Servers : t # serverPc.server => serverPcb'[t] = serverPcb[t]
      BY <1>2, <1>4, <3>2
    <3>4. serverPc'.at = "idle" /\ serverPc'.server = "NULL"
          /\ serverPc' \in [at : {"idle", "bind", "listen", "arg", "accept", "unarg", "unaccept", "close"},
                           server : Servers \cup {"NULL"}]
      BY <1>1, <1>4, BackTyped
    <3>5. \A t \in Servers : t # serverPc.server => PcbOf(t, serverPc') = PcbOf(t, serverPc)
      BY <3>4, ServerAssumption DEF PcbOf
    <3>6. ServerTypeOK'
      BY <1>1, <1>2, <1>4, <2>1, <3>4 DEF ServerInv, ServerTypeOK, InCall
    <3>7. \A o \in Pcbs : pcbs'[o].state = "listen" => \E t \in Servers : serverPcb'[t] = o
      <4> SUFFICES ASSUME NEW o \in Pcbs, pcbs[o].state = "listen" PROVE \E t \in Servers : serverPcb'[t] = o
        BY <1>4
      <4>1. PICK t \in Servers : serverPcb[t] = o
        BY <3>1 DEF HoldInv
      <4>2. t # serverPc.server
        BY <4>1, <3>2 DEF Held
      <4> QED BY <4>1, <4>2, <3>3
    <3>8. \A t \in Servers : serverPcb'[t] # "NULL" => t \notin gone /\ pcbs'[serverPcb'[t]] = PcbOf(t, serverPc')
      BY <3>1, <3>3, <3>5, <1>4 DEF HoldInv
    <3>9. \A t, u \in Servers : serverPcb'[t] # "NULL" /\ serverPcb'[t] = serverPcb'[u] => t = u
      BY <3>1, <3>3 DEF HoldInv
    <3>10. HoldInv'
      BY <1>1, <3>1, <3>4, <3>7, <3>8, <3>9 DEF HoldInv
    <3>11. WaitInv'
      BY <1>1, <3>1, WaitKept DEF ServerInv
    <3> QED BY <3>6, <3>10, <3>11 DEF ServerInv
  <2> QED BY <2>2, <2>3
<1> QED BY <1>3, <1>4 DEF _tcp_listen_with_backlog

\* tcp_arg and tcp_accept finish begin().
LEMMA BeginGoesOn == ASSUME ServerInv, BeginTail PROVE ServerInv'
<1>1. UNCHANGED <<serverPcb, serverCb, conns, acceptPackets, gone, quiet, serverFault>>
  BY DEF BeginTail
<1>2. pcbs \in [Pcbs -> AnyPcb] /\ serverPcb \in [Servers -> Pcbs \cup {"NULL"}] /\ serverFault \in BOOLEAN
  BY DEF ServerInv, ServerTypeOK, AnyPcb
<1>3. CASE InCall("arg") /\ pcbs' = [pcbs EXCEPT ![Held].arg = serverPc.server] /\ ServerStep("accept", <<>>)
  <2>1. serverPc' = [serverPc EXCEPT !.at = "accept"]
    BY <1>3 DEF ServerStep
  <2>a. ~InCall("idle") /\ ~InCall("bind") /\ serverPc.at = "arg"
    BY <1>3 DEF InCall
  <2>b. serverPc.server \in Servers
    BY <2>a DEF ServerInv, ServerTypeOK
  <2>2. CASE ~quiet
    <3>1. pcbs' \in [Pcbs -> AnyPcb]
      BY <1>2, <1>3, <2>b, FieldTyped
    <3> QED BY <1>1, <1>2, <2>a, <2>1, <2>2, <3>1, NotHeld
  <2>3. CASE quiet
    <3>1. HoldInv
      BY <2>3 DEF ServerInv
    <3>2. /\ Held \in Pcbs /\ serverPc.server \in Servers
          /\ pcbs[Held].state = "listen" /\ pcbs[Held].arg = "NULL" /\ pcbs[Held].accepts = FALSE
      BY <2>a, <3>1, HeldFields
    <3> DEFINE e == [pcbs[Held] EXCEPT !.arg = serverPc.server]
    <3>3. e \in AnyPcb /\ e.state = "listen" /\ e.arg = serverPc.server /\ e.accepts = FALSE
      BY <1>2, <3>2 DEF AnyPcb
    <3>4. pcbs' = [pcbs EXCEPT ![Held] = e]
      BY <1>3
    <3> HIDE DEF e
    <3>5. serverPc'.at = "accept" /\ serverPc'.server = serverPc.server
      BY <2>a, <2>1, PcTyped
    <3>6. e = PcbOf(serverPc.server, serverPc')
      BY <3>2, <3>3, <3>5, PcbIs
    <3> QED BY <1>1, <2>a, <2>1, <3>2, <3>3, <3>4, <3>6, CallKeeps
  <2> QED BY <2>2, <2>3
<1>4. CASE InCall("accept") /\ pcbs' = [pcbs EXCEPT ![Held].accepts = TRUE] /\ serverPc' = NoCall
  <2>a. ~InCall("idle") /\ ~InCall("bind") /\ serverPc.at = "accept"
    BY <1>4 DEF InCall
  <2>2. CASE ~quiet
    <3>1. pcbs' \in [Pcbs -> AnyPcb]
      BY <1>2, <1>4, FieldTyped
    <3> QED BY <1>1, <1>2, <1>4, <2>a, <2>2, <3>1, NotHeld
  <2>3. CASE quiet
    <3>1. HoldInv
      BY <2>3 DEF ServerInv
    <3>2. /\ Held \in Pcbs /\ serverPc.server \in Servers
          /\ pcbs[Held].state = "listen" /\ pcbs[Held].arg = serverPc.server
      BY <2>a, <3>1, HeldFields
    <3> DEFINE e == [pcbs[Held] EXCEPT !.accepts = TRUE]
    <3>3. e \in AnyPcb /\ e.state = "listen" /\ e.arg = serverPc.server /\ e.accepts = TRUE
      BY <1>2, <3>2 DEF AnyPcb
    <3>4. pcbs' = [pcbs EXCEPT ![Held] = e]
      BY <1>4
    <3> HIDE DEF e
    <3>5. serverPc'.at = "idle" /\ serverPc'.server = "NULL" /\ serverPc.server # "NULL"
      BY <2>a, <1>4, <3>2, BackTyped, ServerAssumption
    <3>6. e = PcbOf(serverPc.server, serverPc')
      <4>1. PcbOf(serverPc.server, serverPc') = [state |-> "listen", arg |-> serverPc.server, accepts |-> TRUE]
        BY <3>2, <3>5, PcbOfTyped
      <4>2. PcbOf(serverPc.server, serverPc') \in AnyPcb
        BY <3>2, PcbOfTyped
      <4> QED BY <3>3, <4>1, <4>2, PcbFields
    <3> QED BY <1>1, <1>4, <2>a, <3>2, <3>3, <3>4, <3>6, CallKeeps
  <2> QED BY <2>2, <2>3
<1> QED BY <1>1, <1>3, <1>4 DEF BeginTail

\* end() has a pcb to close:
LEMMA EndBegins == ASSUME NEW s \in Servers, ServerInv, end(s) PROVE ServerInv'
<1>1. /\ serverPcb[s] # "NULL" /\ InCall("idle") /\ s \notin gone /\ serverPc.at = "idle"
      /\ serverPc' = [at |-> "unarg", server |-> s]
      /\ UNCHANGED <<serverPcb, serverCb, pcbs, conns, acceptPackets, gone, quiet, serverFault>>
  BY DEF end, CallOf, InCall
<1>2. s # "NULL" /\ serverPc.server = "NULL" /\ serverPc'.at = "unarg" /\ serverPc'.server = s
  BY <1>1, ServerAssumption DEF ServerInv, ServerTypeOK
<1>3. ServerTypeOK'
  BY <1>1, <1>2 DEF ServerInv, ServerTypeOK, InCall
<1>4. HoldInv => HoldInv'
  <2> SUFFICES ASSUME HoldInv PROVE HoldInv'
    OBVIOUS
  <2>1. \A t \in Servers : t # s => PcbOf(t, serverPc') = PcbOf(t, serverPc)
    BY <1>2, ServerAssumption DEF PcbOf
  <2>2. PcbOf(s, serverPc') = PcbOf(s, serverPc)
    <3>1. PcbOf(s, serverPc) = [state |-> "listen", arg |-> s, accepts |-> TRUE] /\ PcbOf(s, serverPc) \in AnyPcb
      BY <1>2, PcbOfTyped
    <3>2. /\ PcbOf(s, serverPc') \in AnyPcb /\ PcbOf(s, serverPc').state = "listen"
          /\ PcbOf(s, serverPc').arg = s /\ PcbOf(s, serverPc').accepts = TRUE
      BY <1>2, PcbOfTyped
    <3> QED BY <3>1, <3>2, PcbFields
  <2>3. Held' # "NULL"
    BY <1>1, <1>2 DEF Held
  <2> QED BY <1>1, <2>1, <2>2, <2>3 DEF HoldInv
<1>5. WaitInv => WaitInv'
  BY <1>1, WaitKept DEF ServerInv
<1> QED BY <1>1, <1>3, <1>4, <1>5 DEF ServerInv

\* it takes the argument from it, then the callback, and closes it.
LEMMA EndGoesOn == ASSUME ServerInv, EndTail PROVE ServerInv'
<1>1. UNCHANGED <<serverCb, conns, acceptPackets, gone, quiet>>
  BY DEF EndTail
<1>2. pcbs \in [Pcbs -> AnyPcb] /\ serverPcb \in [Servers -> Pcbs \cup {"NULL"}] /\ serverFault \in BOOLEAN
      /\ FreePcb \in AnyPcb
  BY DEF ServerInv, ServerTypeOK, AnyPcb, FreePcb
<1>3. CASE /\ InCall("unarg") /\ pcbs' = [pcbs EXCEPT ![Held].arg = "NULL"]
           /\ ServerStep("unaccept", <<serverPcb, serverFault>>)
  <2>1. serverPc' = [serverPc EXCEPT !.at = "unaccept"] /\ UNCHANGED <<serverPcb, serverFault>>
    BY <1>3 DEF ServerStep
  <2>a. ~InCall("idle") /\ ~InCall("bind") /\ serverPc.at = "unarg"
    BY <1>3 DEF InCall
  <2>2. CASE ~quiet
    <3>1. pcbs' \in [Pcbs -> AnyPcb]
      BY <1>2, <1>3, FieldTyped
    <3> QED BY <1>1, <1>2, <2>a, <2>1, <2>2, <3>1, NotHeld
  <2>3. CASE quiet
    <3>1. HoldInv
      BY <2>3 DEF ServerInv
    <3>2. /\ Held \in Pcbs /\ serverPc.server \in Servers
          /\ pcbs[Held].state = "listen" /\ pcbs[Held].accepts = TRUE
      BY <2>a, <3>1, HeldFields
    <3> DEFINE e == [pcbs[Held] EXCEPT !.arg = "NULL"]
    <3>3. e \in AnyPcb /\ e.state = "listen" /\ e.arg = "NULL" /\ e.accepts = TRUE
      BY <1>2, <3>2 DEF AnyPcb
    <3>4. pcbs' = [pcbs EXCEPT ![Held] = e]
      BY <1>3
    <3> HIDE DEF e
    <3>5. serverPc'.at = "unaccept" /\ serverPc'.server = serverPc.server
      BY <2>a, <2>1, PcTyped
    <3>6. e = PcbOf(serverPc.server, serverPc')
      BY <3>2, <3>3, <3>5, PcbIs
    <3> QED BY <1>1, <2>a, <2>1, <3>2, <3>3, <3>4, <3>6, CallKeeps
  <2> QED BY <2>2, <2>3
<1>4. CASE /\ InCall("unaccept") /\ pcbs' = [pcbs EXCEPT ![Held].accepts = FALSE]
           /\ ServerStep("close", <<serverPcb, serverFault>>)
  <2>1. serverPc' = [serverPc EXCEPT !.at = "close"] /\ UNCHANGED <<serverPcb, serverFault>>
    BY <1>4 DEF ServerStep
  <2>a. ~InCall("idle") /\ ~InCall("bind") /\ serverPc.at = "unaccept"
    BY <1>4 DEF InCall
  <2>2. CASE ~quiet
    <3>1. pcbs' \in [Pcbs -> AnyPcb]
      BY <1>2, <1>4, FieldTyped
    <3> QED BY <1>1, <1>2, <2>a, <2>1, <2>2, <3>1, NotHeld
  <2>3. CASE quiet
    <3>1. HoldInv
      BY <2>3 DEF ServerInv
    <3>2. /\ Held \in Pcbs /\ serverPc.server \in Servers
          /\ pcbs[Held].state = "listen" /\ pcbs[Held].arg = "NULL"
      BY <2>a, <3>1, HeldFields
    <3> DEFINE e == [pcbs[Held] EXCEPT !.accepts = FALSE]
    <3>3. e \in AnyPcb /\ e.state = "listen" /\ e.arg = "NULL" /\ e.accepts = FALSE
      BY <1>2, <3>2 DEF AnyPcb
    <3>4. pcbs' = [pcbs EXCEPT ![Held] = e]
      BY <1>4
    <3> HIDE DEF e
    <3>5. serverPc'.at = "close" /\ serverPc'.server = serverPc.server
      BY <2>a, <2>1, PcTyped
    <3>6. e = PcbOf(serverPc.server, serverPc')
      BY <3>2, <3>3, <3>5, PcbIs
    <3> QED BY <1>1, <2>a, <2>1, <3>2, <3>3, <3>4, <3>6, CallKeeps
  <2> QED BY <2>2, <2>3
<1>5. CASE /\ InCall("close") /\ pcbs' = [pcbs EXCEPT ![Held] = FreePcb]
           /\ serverFault' = (serverFault \/ pcbs[Held].state = "free")
           /\ serverPcb' = [serverPcb EXCEPT ![serverPc.server] = "NULL"]
           /\ serverPc' = NoCall
  <2>1. serverPcb' \in [Servers -> Pcbs \cup {"NULL"}] /\ pcbs' \in [Pcbs -> AnyPcb] /\ serverFault' \in BOOLEAN
    BY <1>2, <1>5
  <2>a. ~InCall("idle") /\ ~InCall("bind") /\ serverPc.at = "close"
    BY <1>5 DEF InCall
  <2>2. CASE ~quiet
    BY <1>1, <1>5, <2>a, <2>1, <2>2, NotHeld
  <2>3. CASE quiet
    <3>1. HoldInv /\ WaitInv
      BY <2>3 DEF ServerInv
    <3>2. /\ Held \in Pcbs /\ serverPc.server \in Servers /\ pcbs[Held].state = "listen"
      BY <2>a, <3>1, HeldFields
    <3>3. /\ serverPcb'[serverPc.server] = "NULL"
          /\ \A t \in Servers : t # serverPc.server => serverPcb'[t] = serverPcb[t] /\ serverPcb[t] # Held
      BY <1>2, <1>5, <3>1, <3>2, ServerAssumption DEF HoldInv, Held
    <3>a. pcbs'[Held].state = "free" /\ \A o \in Pcbs : o # Held => pcbs'[o] = pcbs[o]
      BY <1>2, <1>5, <3>2 DEF FreePcb
    <3>b. ~serverFault'
      BY <1>5, <3>1, <3>2 DEF HoldInv
    <3>4. serverPc'.at = "idle" /\ serverPc'.server = "NULL"
          /\ serverPc' \in [at : {"idle", "bind", "listen", "arg", "accept", "unarg", "unaccept", "close"},
                           server : Servers \cup {"NULL"}]
      BY <2>a, <1>5, BackTyped
    <3>5. \A t \in Servers : t # serverPc.server => PcbOf(t, serverPc') = PcbOf(t, serverPc)
      BY <3>4, ServerAssumption DEF PcbOf
    <3>6. ServerTypeOK'
      BY <1>1, <2>1, <3>4 DEF ServerInv, ServerTypeOK, InCall, AnyPcb
    <3>7. \A o \in Pcbs : pcbs'[o].state = "listen" => \E t \in Servers : serverPcb'[t] = o
      <4> SUFFICES ASSUME NEW o \in Pcbs, pcbs'[o].state = "listen" PROVE \E t \in Servers : serverPcb'[t] = o
        OBVIOUS
      <4>1. o # Held /\ pcbs[o].state = "listen"
        BY <3>a
      <4>2. PICK t \in Servers : serverPcb[t] = o
        BY <3>1, <4>1 DEF HoldInv
      <4>3. t # serverPc.server
        BY <4>1, <4>2 DEF Held
      <4> QED BY <4>2, <4>3, <3>3
    <3>8. \A t \in Servers : serverPcb'[t] # "NULL" => t \notin gone /\ pcbs'[serverPcb'[t]] = PcbOf(t, serverPc')
      <4> SUFFICES ASSUME NEW t \in Servers, serverPcb'[t] # "NULL"
                   PROVE t \notin gone /\ pcbs'[serverPcb'[t]] = PcbOf(t, serverPc')
        OBVIOUS
      <4>1. t # serverPc.server /\ serverPcb'[t] = serverPcb[t] /\ serverPcb[t] # Held /\ serverPcb[t] \in Pcbs
        BY <3>3, <1>2
      <4> QED BY <4>1, <3>1, <3>5, <3>a DEF HoldInv
    <3>9. \A t, u \in Servers : serverPcb'[t] # "NULL" /\ serverPcb'[t] = serverPcb'[u] => t = u
      BY <3>1, <3>3 DEF HoldInv
    <3>10. HoldInv'
      BY <1>1, <3>b, <3>4, <3>7, <3>8, <3>9 DEF HoldInv
    <3>11. WaitInv'
      BY <1>1, <3>1, WaitKept DEF ServerInv
    <3> QED BY <3>6, <3>10, <3>11 DEF ServerInv
  <2> QED BY <2>2, <2>3
<1> QED BY <1>1, <1>3, <1>4, <1>5 DEF EndTail

\* A server without a pcb is deleted; it is no longer quiet if a packet waits for it.
LEMMA ServerDeleted == ASSUME NEW s \in Servers, ServerInv, Delete(s) PROVE ServerInv'
<1>1. /\ InCall("idle") /\ s \notin gone /\ serverPcb[s] = "NULL"
      /\ gone' = gone \cup {s}
      /\ quiet' = (quiet /\ \A i \in DOMAIN acceptPackets : acceptPackets[i].server # s)
      /\ UNCHANGED <<serverPcb, serverCb, serverPc, pcbs, conns, acceptPackets, serverFault>>
  BY DEF Delete
<1>2. quiet' \in BOOLEAN
  BY <1>1 DEF ServerInv, ServerTypeOK
<1>3. ServerTypeOK'
  BY <1>1, <1>2 DEF ServerInv, ServerTypeOK, InCall
<1>4. ASSUME quiet' PROVE HoldInv' /\ WaitInv'
  <2>1. quiet /\ \A i \in DOMAIN acceptPackets : acceptPackets[i].server # s
    BY <1>1, <1>4
  <2>2. HoldInv /\ WaitInv
    BY <2>1 DEF ServerInv
  <2>3. HoldInv'
    BY <1>1, <2>2 DEF HoldInv, Held, PcbOf
  <2>4. WaitInv'
    BY <1>1, <2>1, <2>2 DEF WaitInv
  <2> QED BY <2>3, <2>4
<1> QED BY <1>3, <1>4 DEF ServerInv

\* A connection comes to a pcb that listens: it waits at the front, or is refused.
LEMMA ServerAccepts == ASSUME NEW p \in Pcbs, ServerInv, _accept(p) PROVE ServerInv'
<1> DEFINE s == pcbs[p].arg
           takes == pcbs[p].accepts /\ s # "NULL" /\ serverCb[s]
           fate == IF takes THEN "waits" ELSE "refused"
           packet == [server |-> s, conn |-> Len(conns) + 1]
<1>1. /\ pcbs[p].state = "listen"
      /\ conns' = Append(conns, fate)
      /\ acceptPackets' = IF takes THEN <<packet>> \o acceptPackets ELSE acceptPackets
      /\ serverFault' = (serverFault \/ (pcbs[p].accepts /\ s = "NULL"))
      /\ quiet' = (quiet /\ ~InCall("unaccept"))
      /\ UNCHANGED <<serverPcb, serverCb, serverPc, pcbs, gone>>
  BY DEF _accept
<1>2. /\ conns \in Seq(Fates) /\ acceptPackets \in Seq(AnyPacket) /\ pcbs[p] \in AnyPcb
      /\ pcbs[p].arg \in Servers \cup {"NULL"}
  BY DEF ServerInv, ServerTypeOK, Fates, AnyPacket, AnyPcb
<1>3. /\ conns' \in Seq(Fates) /\ DOMAIN conns' = 1 .. Len(conns) + 1 /\ DOMAIN conns = 1 .. Len(conns)
      /\ \A c \in 1 .. Len(conns) : conns'[c] = conns[c]
      /\ conns'[Len(conns) + 1] = fate
      /\ Len(conns) \in Nat
  <2>1. fate \in Fates
    BY DEF Fates
  <2> HIDE DEF fate
  <2> QED BY <1>1, <1>2, <2>1, AppendFacts
<1>4. takes => packet \in AnyPacket /\ packet.server = s /\ packet.conn = Len(conns) + 1 /\ s \in Servers
  BY <1>2, <1>3 DEF AnyPacket
<1>5. takes => /\ acceptPackets' \in Seq(AnyPacket)
               /\ DOMAIN acceptPackets' = 1 .. Len(acceptPackets) + 1 /\ DOMAIN acceptPackets = 1 .. Len(acceptPackets)
               /\ acceptPackets'[1] = packet
               /\ \A i \in 1 .. Len(acceptPackets) : acceptPackets'[i + 1] = acceptPackets[i]
               /\ \A i \in 2 .. Len(acceptPackets) + 1 : acceptPackets'[i] = acceptPackets[i - 1]
               /\ Len(acceptPackets) \in Nat
  <2> HIDE DEF packet, takes
  <2> QED BY <1>1, <1>2, <1>4, FrontPlaces
<1>6. acceptPackets' \in Seq(AnyPacket)
  BY <1>1, <1>2, <1>5
<1>7. ServerTypeOK'
  <2>1. serverFault' \in BOOLEAN /\ quiet' \in BOOLEAN
    BY <1>1 DEF ServerInv, ServerTypeOK
  <2> QED BY <1>1, <1>3, <1>6, <2>1 DEF ServerInv, ServerTypeOK, InCall, AnyPacket, Fates
<1>8. ASSUME quiet' PROVE HoldInv' /\ WaitInv'
  <2>1. quiet /\ ~InCall("unaccept")
    BY <1>1, <1>8
  <2>2. HoldInv /\ WaitInv
    BY <2>1 DEF ServerInv
  <2>3. PICK t \in Servers : serverPcb[t] = p
    BY <1>1, <2>2 DEF HoldInv
  <2>4. t \notin gone /\ pcbs[p] = PcbOf(t, serverPc)
    BY <2>2, <2>3, ServerAssumption DEF HoldInv
  <2>5. pcbs[p].accepts => s = t
    <3>1. CASE t # serverPc.server
      <4>1. pcbs[p] = [state |-> "listen", arg |-> t, accepts |-> TRUE]
        BY <3>1, <2>4, PcbElse
      <4> QED BY <4>1
    <3>2. CASE t = serverPc.server
      <4>1. serverPc.at # "unaccept"
        BY <2>1 DEF InCall
      <4> QED BY <4>1, <3>2, <2>4, PcbAccepts
    <3> QED BY <3>1, <3>2
  <2>6. ~serverFault'
    <3>1. ~serverFault /\ t # "NULL"
      BY <2>2, ServerAssumption DEF HoldInv
    <3> QED BY <1>1, <2>5, <3>1
  <2>7. HoldInv'
    BY <1>1, <2>2, <2>6 DEF HoldInv, Held, PcbOf
  <2>8. CASE ~takes
    <3>1. acceptPackets' = acceptPackets /\ conns'[Len(conns) + 1] = "refused"
      BY <1>1, <1>3, <2>8
    <3> HIDE DEF takes, fate, packet
    <3>2. \A i \in DOMAIN acceptPackets : acceptPackets[i].conn # Len(conns) + 1
      BY <2>2, <1>3 DEF WaitInv
    <3>3. \A i \in DOMAIN acceptPackets : acceptPackets[i].conn \in DOMAIN conns'
      BY <1>3, <2>2 DEF WaitInv
    <3>4. \A c \in DOMAIN conns' : /\ conns'[c] # "lost"
                                   /\ conns'[c] = "waits" <=> \E i \in DOMAIN acceptPackets : acceptPackets[i].conn = c
      <4> SUFFICES ASSUME NEW c \in DOMAIN conns'
                   PROVE  /\ conns'[c] # "lost"
                          /\ conns'[c] = "waits" <=> \E i \in DOMAIN acceptPackets : acceptPackets[i].conn = c
        OBVIOUS
      <4>1. CASE c = Len(conns) + 1
        BY <4>1, <3>1, <3>2
      <4>2. CASE c \in DOMAIN conns
        BY <4>2, <1>3, <2>2 DEF WaitInv
      <4> QED BY <1>3, <4>1, <4>2
    <3>5. serverCb' = serverCb /\ gone' = gone
      BY <1>1
    <3>6. \A i \in DOMAIN acceptPackets : acceptPackets[i].server \notin gone /\ serverCb[acceptPackets[i].server]
      BY <2>2 DEF WaitInv
    <3>7. \A i, j \in DOMAIN acceptPackets : acceptPackets[i].conn = acceptPackets[j].conn => i = j
      BY <2>2 DEF WaitInv
    <3>8. acceptPackets' = acceptPackets
      BY <3>1
    <3>9. WaitInv'
      BY <3>3, <3>4, <3>5, <3>6, <3>7, <3>8 DEF WaitInv
    <3> QED BY <2>7, <3>9
  <2>9. CASE takes
    <3>1. conns'[Len(conns) + 1] = "waits" /\ serverCb[t] /\ s = t
      BY <1>3, <2>5, <2>9
    <3>2. packet.server = t /\ packet.conn = Len(conns) + 1
      BY <2>9, <1>4, <3>1
    <3> HIDE DEF takes, fate, packet, s
    <3>3. \A i \in 1 .. Len(acceptPackets) :
             /\ acceptPackets[i].server \notin gone /\ serverCb[acceptPackets[i].server]
             /\ acceptPackets[i].conn \in 1 .. Len(conns)
      BY <1>3, <1>5, <2>2, <2>9 DEF WaitInv
    <3>4. ASSUME NEW i \in DOMAIN acceptPackets'
          PROVE  \/ i = 1 /\ acceptPackets'[i] = packet
                 \/ i - 1 \in 1 .. Len(acceptPackets) /\ acceptPackets'[i] = acceptPackets[i - 1]
      <4>1. i \in 1 .. Len(acceptPackets) + 1 /\ Len(acceptPackets) \in Nat
        BY <1>5, <2>9
      <4>2. i = 1 \/ i \in 2 .. Len(acceptPackets) + 1
        BY <4>1
      <4>3. i \in 2 .. Len(acceptPackets) + 1 => i - 1 \in 1 .. Len(acceptPackets)
        BY <4>1
      <4> QED BY <4>2, <4>3, <1>5, <2>9
    <3>5. \A i \in DOMAIN acceptPackets' :
             /\ acceptPackets'[i].server \notin gone /\ serverCb[acceptPackets'[i].server]
             /\ acceptPackets'[i].conn \in DOMAIN conns'
      <4>1. Len(conns) + 1 \in DOMAIN conns' /\ \A c \in 1 .. Len(conns) : c \in DOMAIN conns'
        BY <1>3
      <4> QED BY <3>1, <3>2, <3>3, <3>4, <4>1, <2>4
    <3>6. \A i, j \in DOMAIN acceptPackets' : acceptPackets'[i].conn = acceptPackets'[j].conn => i = j
      <4> SUFFICES ASSUME NEW i \in DOMAIN acceptPackets', NEW j \in DOMAIN acceptPackets',
                          acceptPackets'[i].conn = acceptPackets'[j].conn
                   PROVE  i = j
        OBVIOUS
      <4>1. \A k \in 1 .. Len(acceptPackets) : acceptPackets[k].conn # Len(conns) + 1
        BY <3>3, <1>3
      <4>2. i = 1 <=> j = 1
        BY <3>2, <3>4, <4>1
      <4>3. i # 1 => i - 1 = j - 1
        BY <3>4, <4>2, <2>2, <1>5, <2>9 DEF WaitInv
      <4>4. i \in Nat /\ j \in Nat
        BY <1>5, <2>9
      <4> QED BY <4>2, <4>3, <4>4
    <3>7. \A c \in DOMAIN conns' : conns'[c] = "waits" <=> \E i \in DOMAIN acceptPackets' : acceptPackets'[i].conn = c
      <4> SUFFICES ASSUME NEW c \in DOMAIN conns'
                   PROVE conns'[c] = "waits" <=> \E i \in DOMAIN acceptPackets' : acceptPackets'[i].conn = c
        OBVIOUS
      <4>1. CASE c = Len(conns) + 1
        <5>1. 1 \in DOMAIN acceptPackets' /\ acceptPackets'[1].conn = c
          BY <1>5, <2>9, <3>2, <4>1
        <5> QED BY <3>1, <4>1, <5>1
      <4>2. CASE c \in 1 .. Len(conns)
        <5>1. conns'[c] = conns[c] /\ c # Len(conns) + 1
          BY <1>3, <4>2
        <5>2. conns[c] = "waits" <=> \E i \in 1 .. Len(acceptPackets) : acceptPackets[i].conn = c
          BY <1>3, <1>5, <2>2, <2>9, <4>2 DEF WaitInv
        <5>3. \A i \in 1 .. Len(acceptPackets) : i + 1 \in DOMAIN acceptPackets' /\ acceptPackets'[i + 1] = acceptPackets[i]
          BY <1>5, <2>9
        <5>4. \A i \in DOMAIN acceptPackets' : acceptPackets'[i].conn = c =>
                 \E k \in 1 .. Len(acceptPackets) : acceptPackets[k].conn = c
          BY <3>2, <3>4, <5>1
        <5> QED BY <5>1, <5>2, <5>3, <5>4
      <4> QED BY <1>3, <4>1, <4>2
    <3>8. \A c \in DOMAIN conns' : conns'[c] # "lost"
      BY <1>3, <2>2, <3>1 DEF WaitInv
    <3>9. WaitInv'
      BY <1>1, <3>5, <3>6, <3>7, <3>8 DEF WaitInv
    <3> QED BY <2>7, <3>9
  <2> QED BY <2>8, <2>9
<1> QED BY <1>7, <1>8 DEF ServerInv

\* The service task hands the first connection to its server.
LEMMA ServerHandsOver == ASSUME ServerInv, _accepted PROVE ServerInv'
<1> DEFINE a == Head(acceptPackets)
           fate == IF serverCb[a.server] THEN "given" ELSE "lost"
<1>1. /\ acceptPackets # <<>>
      /\ conns' = [conns EXCEPT ![a.conn] = fate]
      /\ serverFault' = (serverFault \/ a.server \in gone)
      /\ acceptPackets' = Tail(acceptPackets)
      /\ UNCHANGED <<serverPcb, serverCb, serverPc, pcbs, gone, quiet>>
  BY DEF _accepted
<1>2. conns \in Seq(Fates) /\ acceptPackets \in Seq(AnyPacket)
  BY DEF ServerInv, ServerTypeOK, Fates, AnyPacket
<1>3. /\ acceptPackets' \in Seq(AnyPacket) /\ a = acceptPackets[1] /\ a \in AnyPacket
      /\ DOMAIN acceptPackets' = 1 .. Len(acceptPackets) - 1 /\ DOMAIN acceptPackets = 1 .. Len(acceptPackets)
      /\ \A i \in 1 .. Len(acceptPackets) - 1 : acceptPackets'[i] = acceptPackets[i + 1]
      /\ Len(acceptPackets) \in Nat \ {0}
  BY <1>1, <1>2, TailPlaces
<1> HIDE DEF a
<1>4. /\ conns' \in Seq(Fates) /\ DOMAIN conns' = DOMAIN conns
      /\ \A c \in DOMAIN conns : conns'[c] = IF c = a.conn THEN fate ELSE conns[c]
  <2>1. fate \in Fates
    BY DEF Fates
  <2> HIDE DEF fate
  <2> QED BY <1>1, <1>2, <2>1, ExceptPlaces
<1>5. ServerTypeOK'
  <2>1. serverFault' \in BOOLEAN
    BY <1>1 DEF ServerInv, ServerTypeOK
  <2> QED BY <1>1, <1>3, <1>4, <2>1 DEF ServerInv, ServerTypeOK, InCall, AnyPacket, Fates
<1>6. ASSUME quiet PROVE HoldInv' /\ WaitInv'
  <2>1. HoldInv /\ WaitInv
    BY <1>6 DEF ServerInv
  <2>2. 1 \in DOMAIN acceptPackets
    BY <1>3
  <2>3. a.server \notin gone /\ serverCb[a.server] /\ a.conn \in DOMAIN conns
    BY <1>3, <2>1, <2>2 DEF WaitInv
  <2>4. HoldInv'
    BY <1>1, <2>1, <2>3 DEF HoldInv, Held, PcbOf
  <2>5. fate = "given"
    BY <2>3
  <2> HIDE DEF fate
  <2>6. \A i \in DOMAIN acceptPackets' :
          i \in Nat /\ i + 1 \in DOMAIN acceptPackets /\ acceptPackets'[i] = acceptPackets[i + 1] /\ i + 1 # 1
    BY <1>3
  <2>7. \A i \in DOMAIN acceptPackets : i # 1 => i - 1 \in DOMAIN acceptPackets' /\ acceptPackets'[i - 1] = acceptPackets[i]
    BY <1>3
  <2>8. \A i, j \in DOMAIN acceptPackets' : acceptPackets'[i].conn = acceptPackets'[j].conn => i = j
    <3> SUFFICES ASSUME NEW i \in DOMAIN acceptPackets', NEW j \in DOMAIN acceptPackets',
                        acceptPackets'[i].conn = acceptPackets'[j].conn
                 PROVE  i = j
      OBVIOUS
    <3>1. i + 1 = j + 1
      BY <2>1, <2>6 DEF WaitInv
    <3> QED BY <2>6, <3>1
  <2>9. \A i \in DOMAIN acceptPackets' : acceptPackets'[i].conn # a.conn
    BY <1>3, <2>1, <2>2, <2>6 DEF WaitInv
  <2>10. \A c \in DOMAIN conns' : conns'[c] = "waits" <=> \E i \in DOMAIN acceptPackets' : acceptPackets'[i].conn = c
    <3> SUFFICES ASSUME NEW c \in DOMAIN conns
                 PROVE conns'[c] = "waits" <=> \E i \in DOMAIN acceptPackets' : acceptPackets'[i].conn = c
      BY <1>4
    <3>1. CASE c = a.conn
      BY <3>1, <1>4, <2>5, <2>9
    <3>2. CASE c # a.conn
      <4>1. conns[c] = "waits" <=> \E i \in DOMAIN acceptPackets : acceptPackets[i].conn = c
        BY <2>1 DEF WaitInv
      <4>2. \A i \in DOMAIN acceptPackets : acceptPackets[i].conn = c => i # 1
        BY <1>3, <3>2
      <4> QED BY <1>4, <3>2, <4>1, <4>2, <2>6, <2>7
    <3> QED BY <3>1, <3>2
  <2>11. WaitInv'
    BY <1>1, <1>4, <2>1, <2>5, <2>6, <2>8, <2>10 DEF WaitInv
  <2> QED BY <2>4, <2>11
<1> QED BY <1>1, <1>5, <1>6 DEF ServerInv

\* ServerInv is inductive.
LEMMA ServerStays == ServerInv /\ [ServerNext]_serverVars => ServerInv'
<1> SUFFICES ASSUME ServerInv, [ServerNext]_serverVars PROVE ServerInv'
  OBVIOUS
<1>1. CASE ServerNext
  BY <1>1, ClientHandlerSet, BeginStarts, EndBegins, ServerDeleted, NoMemoryLeft,
     TcpBind, TcpListen, BeginGoesOn, EndGoesOn, ServerAccepts, ServerHandsOver
  DEF ServerNext
<1>2. CASE UNCHANGED serverVars
  BY <1>2 DEF serverVars, ServerInv, ServerTypeOK, HoldInv, WaitInv, InCall, Held, PcbOf
<1> QED BY <1>1, <1>2

\* It says what is to be kept.
LEMMA ServerInvKeeps == ServerInv => ServerKept
<1> SUFFICES ASSUME ServerInv, quiet PROVE
    /\ ~serverFault
    /\ \A p \in Pcbs : pcbs[p].state = "listen" =>
          Cardinality({s \in Servers : serverPcb[s] = p}) = 1
    /\ InCall("idle") => \A s \in Servers : serverPcb[s] # "NULL" =>
          pcbs[serverPcb[s]] = [state |-> "listen", arg |-> s, accepts |-> TRUE]
    /\ \A c \in DOMAIN conns : conns[c] = "waits" <=> \E i \in DOMAIN acceptPackets : acceptPackets[i].conn = c
    /\ \A c \in DOMAIN conns : conns[c] # "lost"
  BY DEF ServerKept
<1>1. HoldInv /\ WaitInv
  BY DEF ServerInv
<1>2. ASSUME NEW p \in Pcbs, pcbs[p].state = "listen"
      PROVE Cardinality({s \in Servers : serverPcb[s] = p}) = 1
  <2>1. PICK t \in Servers : serverPcb[t] = p
    BY <1>1, <1>2 DEF HoldInv
  <2>2. \A s \in Servers : serverPcb[s] = p => s = t
    BY <1>1, <2>1, ServerAssumption DEF HoldInv
  <2>3. {s \in Servers : serverPcb[s] = p} = {t}
    BY <2>1, <2>2
  <2> QED BY <2>3, FS_Singleton
<1>3. ASSUME InCall("idle"), NEW s \in Servers, serverPcb[s] # "NULL"
      PROVE pcbs[serverPcb[s]] = [state |-> "listen", arg |-> s, accepts |-> TRUE]
  <2>1. s # serverPc.server
    BY <1>3, ServerAssumption DEF ServerInv, ServerTypeOK
  <2>2. pcbs[serverPcb[s]] = PcbOf(s, serverPc)
    BY <1>1, <1>3 DEF HoldInv
  <2> QED BY <2>1, <2>2, PcbElse
<1>4. /\ \A c \in DOMAIN conns : conns[c] = "waits" <=> \E i \in DOMAIN acceptPackets : acceptPackets[i].conn = c
      /\ \A c \in DOMAIN conns : conns[c] # "lost"
  BY <1>1 DEF WaitInv
<1> QED BY <1>1, <1>2, <1>3, <1>4 DEF HoldInv

\* AsyncServer, for any servers and pcbs, while it is quiet: each pcb that listens is
\* held by one server and, but in its calls, set up for it; none is closed twice; and
\* each connection waits in one packet, was refused or was given to a server.
THEOREM ServerIsKept == ServerSpec => []ServerKept
BY ServerStart, ServerStays, ServerInvKeeps, PTL DEF ServerSpec

\* What the networks of the libraries keep, both together.
THEOREM NetworkIsKept == StarSpec /\ ServerSpec => []NetworkKept
<1>1. EspNowKept /\ ServerKept => NetworkKept
  BY DEF NetworkKept
<1> QED BY <1>1, EspNowIsKept, ServerIsKept, PTL

-----------------------------------------------------------------------------
(* TLS sessions.                                                           *)

\* A session, and the history of a packet.
SslItem == [tcp : Tcps, type : {"client", "server"}, fd : Nat, handshake : {"SSL_NOT_OK", "SSL_OK", "error"},
         tcp_pbuf : Nat, pbuf_offset : Nat, last_wr : Nat]
SslPacket == [freed : Nat, read : Nat, failed : BOOLEAN]

\* What the variables of tcp_axtls.c hold.
TlsTypeOK ==
  /\ tcp_ssl_array \in Seq(SslItem) /\ tcp_ssl_next_fd \in Nat
  /\ tcp_ssl_has_client \in BOOLEAN /\ packets \in Seq(SslPacket)
  /\ reading \in {NotReading} \cup
        [phase : {"round", "handler", "check", "closing"}, tcp : Tcps, p : Nat \ {0}]
  /\ writing \in {NotWriting} \cup [phase : {"writing"}, fd : Nat, left : Nat, taken : Nat]

\* No two sessions share a number or a connection, one is a server's.
SessionsInv ==
  /\ \A i \in DOMAIN tcp_ssl_array : tcp_ssl_array[i].fd < tcp_ssl_next_fd
  /\ \A i, j \in DOMAIN tcp_ssl_array :
        \/ tcp_ssl_array[i].fd = tcp_ssl_array[j].fd
        \/ tcp_ssl_array[i].tcp = tcp_ssl_array[j].tcp
        \/ tcp_ssl_array[i].type = "server" /\ tcp_ssl_array[j].type = "server"
        => i = j

\* A context per session of a client, and the flag says whether there is a server.
BooksInv ==
  /\ contexts = Cardinality(OfType("client"))
  /\ tcp_ssl_has_client <=> \E i \in DOMAIN tcp_ssl_array : tcp_ssl_array[i].type = "server"

\* A packet that is no longer read, and the one x that session s reads.
ReadToEnd(x) == x.freed = 1 /\ (~x.failed => x.read = TotLen)
BeingRead(x, s, rd) ==
  \/ /\ s.tcp_pbuf = rd.p /\ x.freed = 0
     /\ rd.phase # "closing" =>
          ~x.failed /\ x.read = s.pbuf_offset /\ s.pbuf_offset <= TotLen
     /\ rd.phase = "closing" => x.failed
  \/ rd.phase = "closing" /\ s.tcp_pbuf = NoPacket /\ x.freed = 1 /\ x.failed

\* Only the session of the connection that is read has a packet; every other packet
\* was read to its end, or its read failed, and it was freed once.
PacketInv ==
  /\ reading # NotReading => reading.p \in DOMAIN packets /\ SslHas(reading.tcp)
  /\ \A i \in DOMAIN tcp_ssl_array : tcp_ssl_array[i].tcp_pbuf # NoPacket =>
        reading # NotReading /\ tcp_ssl_array[i].tcp = reading.tcp
  /\ \A q \in DOMAIN packets : reading = NotReading \/ q # reading.p => ReadToEnd(packets[q])
  /\ \A i \in DOMAIN tcp_ssl_array : reading # NotReading /\ tcp_ssl_array[i].tcp = reading.tcp =>
        BeingRead(packets[reading.p], tcp_ssl_array[i], reading)

\* The session that is written, while nothing else runs.
WriteInv == writing # NotWriting =>
  /\ reading.phase \in {"none", "handler"}
  /\ \E i \in DOMAIN tcp_ssl_array :
        tcp_ssl_array[i].fd = writing.fd /\ tcp_ssl_array[i].last_wr = writing.taken

\* The inductive invariant.
TlsInv == TlsTypeOK /\ SessionsInv /\ BooksInv /\ PacketInv /\ WriteInv

\* Where the element i of a sequence without its element k was.
Was(i, k) == IF i < k THEN i ELSE i + 1

\* The places of what is left without one element.
LEMMA RemovePlaces ==
  ASSUME NEW S, NEW q \in Seq(S), NEW k \in DOMAIN q
  PROVE  /\ RemoveAt(q, k) \in Seq(S)
         /\ DOMAIN RemoveAt(q, k) = 1 .. Len(q) - 1 /\ DOMAIN q = 1 .. Len(q) /\ Len(q) \in Nat
         /\ \A i \in DOMAIN RemoveAt(q, k) : Was(i, k) \in DOMAIN q \ {k} /\ RemoveAt(q, k)[i] = q[Was(i, k)]
<1>1. k \in 1 .. Len(q) /\ Len(q) \in Nat
  OBVIOUS
<1> DEFINE a == SubSeq(q, 1, k - 1)
           b == SubSeq(q, k + 1, Len(q))
<1>2. a \in Seq(S) /\ Len(a) = k - 1 /\ \A i \in 1 .. k - 1 : a[i] = q[i]
  BY <1>1
<1>3. b \in Seq(S) /\ Len(b) = Len(q) - k /\ \A i \in 1 .. Len(q) - k : b[i] = q[k + i]
  BY <1>1
<1> HIDE DEF a, b
<1>4. /\ a \o b \in Seq(S) /\ Len(a \o b) = Len(q) - 1
      /\ \A i \in 1 .. Len(q) - 1 : (a \o b)[i] = IF i <= k - 1 THEN a[i] ELSE b[i - (k - 1)]
  <2>1. a \in Seq(S) /\ b \in Seq(S) /\ Len(a) = k - 1 /\ Len(b) = Len(q) - k
    BY <1>2, <1>3
  <2>2. /\ a \o b \in Seq(S) /\ Len(a \o b) = Len(a) + Len(b)
        /\ \A i \in 1 .. Len(a) + Len(b) : (a \o b)[i] = IF i <= Len(a) THEN a[i] ELSE b[i - Len(a)]
    BY <2>1, ConcatProperties
  <2>4. Len(a) + Len(b) = Len(q) - 1
    BY <1>1, <2>1
  <2> QED BY <2>1, <2>2, <2>4
<1>5. RemoveAt(q, k) = a \o b
  BY DEF RemoveAt, a, b
<1>6. DOMAIN RemoveAt(q, k) = 1 .. Len(q) - 1
  BY <1>1, <1>4, <1>5
<1>7. ASSUME NEW i \in 1 .. Len(q) - 1
      PROVE  Was(i, k) \in 1 .. Len(q) /\ Was(i, k) # k /\ RemoveAt(q, k)[i] = q[Was(i, k)]
  <2>1. CASE i < k
    BY <1>1, <1>2, <1>4, <1>5, <2>1 DEF Was
  <2>2. CASE ~(i < k)
    <3>1. i - (k - 1) \in 1 .. Len(q) - k /\ k + (i - (k - 1)) = i + 1 /\ ~(i <= k - 1) /\ i + 1 \in 1 .. Len(q)
      BY <1>1, <2>2
    <3>2. (a \o b)[i] = q[i + 1]
      BY <1>3, <1>4, <3>1
    <3> QED BY <1>1, <1>5, <2>2, <3>1, <3>2 DEF Was
  <2> QED BY <2>1, <2>2
<1> QED BY <1>1, <1>4, <1>5, <1>6, <1>7

\* Every other place is left, and once.
LEMMA WasFacts ==
  ASSUME NEW n \in Nat, NEW k \in 1 .. n
  PROVE  /\ \A i, j \in 1 .. n - 1 : Was(i, k) = Was(j, k) => i = j
         /\ \A j \in 1 .. n : j # k => \E i \in 1 .. n - 1 : Was(i, k) = j
<1>1. \A i, j \in 1 .. n - 1 : Was(i, k) = Was(j, k) => i = j
  BY DEF Was
<1>2. ASSUME NEW j \in 1 .. n, j # k PROVE \E i \in 1 .. n - 1 : Was(i, k) = j
  <2>1. CASE j < k
    <3>1. j \in 1 .. n - 1 /\ Was(j, k) = j
      BY <2>1 DEF Was
    <3> QED BY <3>1
  <2>2. CASE ~(j < k)
    <3>1. j - 1 \in 1 .. n - 1 /\ Was(j - 1, k) = j
      BY <1>2, <2>2 DEF Was
    <3> QED BY <3>1
  <2> QED BY <2>1, <2>2
<1> QED BY <1>1, <1>2

\* The elements of a sequence that are in A, counted.
LEMMA PlacesCounted ==
  ASSUME NEW S, NEW q \in Seq(S), NEW A
  PROVE  IsFiniteSet({i \in DOMAIN q : q[i] \in A}) /\ Cardinality({i \in DOMAIN q : q[i] \in A}) \in Nat
<1>1. DOMAIN q = 1 .. Len(q) /\ Len(q) \in Nat
  OBVIOUS
<1>2. IsFiniteSet(1 .. Len(q))
  BY <1>1, FS_Interval
<1>3. {i \in DOMAIN q : q[i] \in A} \subseteq 1 .. Len(q)
  BY <1>1
<1>4. IsFiniteSet({i \in DOMAIN q : q[i] \in A})
  BY <1>2, <1>3, FS_Subset
<1> QED BY <1>4, FS_CardinalityType

\* One more is counted if it is in A,
LEMMA AppendCounted ==
  ASSUME NEW S, NEW q \in Seq(S), NEW e \in S, NEW A
  PROVE  Cardinality({i \in DOMAIN Append(q, e) : Append(q, e)[i] \in A}) =
         Cardinality({i \in DOMAIN q : q[i] \in A}) + (IF e \in A THEN 1 ELSE 0)
<1> DEFINE B == {i \in DOMAIN q : q[i] \in A}
           C == {i \in DOMAIN Append(q, e) : Append(q, e)[i] \in A}
           n == Len(q) + 1
<1>1. /\ \A i \in 1 .. Len(q) : Append(q, e)[i] = q[i]
      /\ Append(q, e)[n] = e /\ DOMAIN Append(q, e) = 1 .. n
      /\ DOMAIN q = 1 .. Len(q) /\ Len(q) \in Nat
  BY AppendFacts
<1>2. IsFiniteSet(B) /\ Cardinality(B) \in Nat
  BY PlacesCounted
<1>3. n \notin B
  BY <1>1
<1>4. CASE e \in A
  <2>1. C = B \cup {n}
    BY <1>1, <1>4
  <2> HIDE DEF B, C
  <2>2. Cardinality(C) = Cardinality(B) + 1
    BY <1>2, <1>3, <2>1, FS_AddElement
  <2> QED BY <1>4, <2>2 DEF B, C
<1>5. CASE e \notin A
  <2>1. C = B
    BY <1>1, <1>5
  <2> HIDE DEF B, C
  <2>2. Cardinality(C) = Cardinality(B) + 0
    BY <1>2, <2>1
  <2> QED BY <1>5, <2>2 DEF B, C
<1> QED BY <1>4, <1>5

\* and one less if what goes was.
LEMMA RemoveCounted ==
  ASSUME NEW S, NEW q \in Seq(S), NEW k \in DOMAIN q, NEW A
  PROVE  Cardinality({i \in DOMAIN RemoveAt(q, k) : RemoveAt(q, k)[i] \in A}) =
         Cardinality({i \in DOMAIN q : q[i] \in A}) - (IF q[k] \in A THEN 1 ELSE 0)
<1> DEFINE r == RemoveAt(q, k)
           B == {i \in DOMAIN q : q[i] \in A}
           C == {i \in DOMAIN r : r[i] \in A}
           D == B \ {k}
           f == [i \in C |-> Was(i, k)]
<1>1. /\ r \in Seq(S) /\ DOMAIN r = 1 .. Len(q) - 1 /\ DOMAIN q = 1 .. Len(q) /\ Len(q) \in Nat
      /\ \A i \in DOMAIN r : Was(i, k) \in DOMAIN q \ {k} /\ r[i] = q[Was(i, k)]
  BY RemovePlaces
<1>2. IsFiniteSet(B) /\ Cardinality(B) \in Nat /\ IsFiniteSet(C) /\ Cardinality(C) \in Nat
  BY <1>1, PlacesCounted
<1>3. /\ \A i, j \in 1 .. Len(q) - 1 : Was(i, k) = Was(j, k) => i = j
      /\ \A j \in 1 .. Len(q) : j # k => \E i \in 1 .. Len(q) - 1 : Was(i, k) = j
  BY <1>1, WasFacts
<1> HIDE DEF r
<1>4. f \in [C -> D]
  BY <1>1
<1>5. \A i, j \in C : f[i] = f[j] => i = j
  BY <1>1, <1>3
<1>6. ASSUME NEW j \in D PROVE \E i \in C : f[i] = j
  <2>1. PICK i \in 1 .. Len(q) - 1 : Was(i, k) = j
    BY <1>1, <1>3
  <2>2. i \in C
    BY <1>1, <2>1
  <2> QED BY <2>1, <2>2
<1> HIDE DEF B, C, D, f
<1>7. f \in Bijection(C, D)
  BY <1>4, <1>5, <1>6 DEF Bijection, Injection, Surjection, IsInjective
<1>8. Cardinality(D) = Cardinality(C)
  BY <1>2, <1>7, FS_Bijection DEF ExistsBijection
<1>9. CASE q[k] \in A
  <2>1. k \in B
    BY <1>9 DEF B
  <2>2. Cardinality(D) = Cardinality(B) - 1
    BY <1>2, <2>1, FS_RemoveElement DEF D
  <2> QED BY <1>8, <1>9, <2>2 DEF B, C, r
<1>10. CASE q[k] \notin A
  <2>1. D = B
    BY <1>10 DEF B, D
  <2> QED BY <1>2, <1>8, <1>10, <2>1 DEF B, C, r
<1> QED BY <1>9, <1>10

\* Of one type, for counting.
OfSslType(type) == {s \in SslItem : s.type = type}

\* The sessions of a type are those in such a set.
LEMMA KindCounted ==
  ASSUME NEW a \in Seq(SslItem), NEW type
  PROVE  {i \in DOMAIN a : a[i].type = type} = {i \in DOMAIN a : a[i] \in OfSslType(type)}
BY DEF OfSslType

\* With the numbers and the connections different, what is looked up is it.
LEMMA SessionFound ==
  ASSUME tcp_ssl_array \in Seq(SslItem), SessionsInv, NEW k \in DOMAIN tcp_ssl_array
  PROVE  /\ SslGet(tcp_ssl_array[k].tcp) = k
         /\ GetByFd(tcp_ssl_array[k].fd) = k
         /\ Session(tcp_ssl_array[k].tcp) = tcp_ssl_array[k]
<1>1. DOMAIN tcp_ssl_array = 1 .. Len(tcp_ssl_array) /\ k \in Int
  OBVIOUS
<1>2. {i \in 1 .. Len(tcp_ssl_array) : tcp_ssl_array[i].tcp = tcp_ssl_array[k].tcp} = {k}
  BY <1>1 DEF SessionsInv
<1>3. {i \in 1 .. Len(tcp_ssl_array) : tcp_ssl_array[i].fd = tcp_ssl_array[k].fd} = {k}
  BY <1>1 DEF SessionsInv
<1>4. Min({k}) = k
  BY <1>1 DEF Min
<1>5. SslGet(tcp_ssl_array[k].tcp) = k
  BY <1>2, <1>4 DEF SslGet, SelectInSeq
<1>6. GetByFd(tcp_ssl_array[k].fd) = k
  BY <1>3, <1>4 DEF GetByFd, SelectInSeq
<1> QED BY <1>5, <1>6 DEF Session

\* The fields of a session,
LEMMA ItemTyped ==
  ASSUME tcp_ssl_array \in Seq(SslItem), NEW k \in DOMAIN tcp_ssl_array
  PROVE  /\ tcp_ssl_array[k] \in SslItem /\ tcp_ssl_array[k].tcp \in Tcps /\ tcp_ssl_array[k].fd \in Nat
         /\ tcp_ssl_array[k].tcp_pbuf \in Nat /\ tcp_ssl_array[k].pbuf_offset \in Nat
         /\ tcp_ssl_array[k].last_wr \in Nat /\ tcp_ssl_array[k].type \in {"client", "server"}
<1>1. tcp_ssl_array[k] \in SslItem
  OBVIOUS
<1> QED BY <1>1 DEF SslItem

\* One session of the list changes, but for its number, connection and type.
LEMMA ItemChanges ==
  ASSUME tcp_ssl_array \in Seq(SslItem), SessionsInv, BooksInv, NEW k \in DOMAIN tcp_ssl_array, NEW s \in SslItem,
         s.tcp = tcp_ssl_array[k].tcp, s.fd = tcp_ssl_array[k].fd, s.type = tcp_ssl_array[k].type,
         tcp_ssl_array' = [tcp_ssl_array EXCEPT ![k] = s],
         UNCHANGED <<tcp_ssl_next_fd, tcp_ssl_has_client, contexts>>
  PROVE  /\ tcp_ssl_array' \in Seq(SslItem) /\ DOMAIN tcp_ssl_array' = DOMAIN tcp_ssl_array
         /\ tcp_ssl_array'[k] = s
         /\ \A i \in DOMAIN tcp_ssl_array : i # k => tcp_ssl_array'[i] = tcp_ssl_array[i]
         /\ SessionsInv' /\ BooksInv'
         /\ \A tcp : SslHas(tcp)' <=> SslHas(tcp)
<1>1. /\ tcp_ssl_array' \in Seq(SslItem) /\ DOMAIN tcp_ssl_array' = DOMAIN tcp_ssl_array
      /\ \A c \in DOMAIN tcp_ssl_array : tcp_ssl_array'[c] = IF c = k THEN s ELSE tcp_ssl_array[c]
  BY ExceptPlaces
<1>2. \A c \in DOMAIN tcp_ssl_array : /\ tcp_ssl_array'[c].tcp = tcp_ssl_array[c].tcp
                                      /\ tcp_ssl_array'[c].fd = tcp_ssl_array[c].fd
                                      /\ tcp_ssl_array'[c].type = tcp_ssl_array[c].type
  BY <1>1
<1>3. SessionsInv'
  BY <1>1, <1>2 DEF SessionsInv
<1>4. OfType("client")' = OfType("client")
  BY <1>1, <1>2 DEF OfType
<1>5. BooksInv'
  BY <1>1, <1>2, <1>4 DEF BooksInv
<1>6. \A tcp : SslHas(tcp)' <=> SslHas(tcp)
  BY <1>1, <1>2 DEF SslHas
<1> QED BY <1>1, <1>3, <1>5, <1>6

\* A session more at the end.
LEMMA ItemAdded ==
  ASSUME tcp_ssl_array \in Seq(SslItem), SessionsInv, BooksInv, NEW s \in SslItem, tcp_ssl_next_fd \in Nat,
         ~SslHas(s.tcp), s.fd = tcp_ssl_next_fd, s.type = "server" => ~tcp_ssl_has_client,
         tcp_ssl_array' = Append(tcp_ssl_array, s), tcp_ssl_next_fd' = tcp_ssl_next_fd + 1,
         contexts' = IF s.type = "client" THEN contexts + 1 ELSE contexts,
         tcp_ssl_has_client' = IF s.type = "server" THEN TRUE ELSE tcp_ssl_has_client
  PROVE  /\ tcp_ssl_array' \in Seq(SslItem) /\ SessionsInv' /\ BooksInv'
         /\ \A i \in DOMAIN tcp_ssl_array : i \in DOMAIN tcp_ssl_array' /\ tcp_ssl_array'[i] = tcp_ssl_array[i]
         /\ \A i \in DOMAIN tcp_ssl_array' : i \in DOMAIN tcp_ssl_array \/ tcp_ssl_array'[i] = s
<1> DEFINE n == Len(tcp_ssl_array) + 1
<1>1. /\ tcp_ssl_array' \in Seq(SslItem) /\ \A i \in DOMAIN tcp_ssl_array : tcp_ssl_array'[i] = tcp_ssl_array[i]
      /\ tcp_ssl_array'[n] = s /\ DOMAIN tcp_ssl_array' = 1 .. n
      /\ DOMAIN tcp_ssl_array = 1 .. Len(tcp_ssl_array) /\ Len(tcp_ssl_array) \in Nat
  BY AppendFacts
<1>2. /\ \A i \in DOMAIN tcp_ssl_array : i \in DOMAIN tcp_ssl_array'
      /\ \A i \in DOMAIN tcp_ssl_array' : i \in DOMAIN tcp_ssl_array \/ i = n
      /\ n \in DOMAIN tcp_ssl_array'
  BY <1>1
<1> HIDE DEF n
<1>3. \A i \in DOMAIN tcp_ssl_array : tcp_ssl_array[i].fd \in Nat
  BY ItemTyped
<1>4. \A i \in DOMAIN tcp_ssl_array : /\ tcp_ssl_array[i].tcp # s.tcp /\ tcp_ssl_array[i].fd # s.fd
                                      /\ s.type = "server" => tcp_ssl_array[i].type # "server"
                                      /\ tcp_ssl_array[i].fd < tcp_ssl_next_fd + 1
  BY <1>3 DEF SslHas, SessionsInv, BooksInv
<1>5. SessionsInv'
  <2>1. \A i \in DOMAIN tcp_ssl_array' : tcp_ssl_array'[i].fd < tcp_ssl_next_fd'
    <3>1. tcp_ssl_next_fd < tcp_ssl_next_fd + 1
      OBVIOUS
    <3> QED BY <1>1, <1>2, <1>4, <3>1
  <2>2. \A i, j \in DOMAIN tcp_ssl_array' :
          \/ tcp_ssl_array'[i].fd = tcp_ssl_array'[j].fd
          \/ tcp_ssl_array'[i].tcp = tcp_ssl_array'[j].tcp
          \/ tcp_ssl_array'[i].type = "server" /\ tcp_ssl_array'[j].type = "server"
          => i = j
    BY <1>1, <1>2, <1>4 DEF SessionsInv
  <2> QED BY <2>1, <2>2 DEF SessionsInv
<1>6. BooksInv'
  <2>1. s.type \in {"client", "server"}
    BY DEF SslItem
  <2>2. Cardinality({i \in DOMAIN tcp_ssl_array' : tcp_ssl_array'[i] \in OfSslType("client")}) =
        Cardinality({i \in DOMAIN tcp_ssl_array : tcp_ssl_array[i] \in OfSslType("client")})
          + (IF s \in OfSslType("client") THEN 1 ELSE 0)
    BY AppendCounted
  <2>3. /\ OfType("client") = {i \in DOMAIN tcp_ssl_array : tcp_ssl_array[i] \in OfSslType("client")}
        /\ OfType("client")' = {i \in DOMAIN tcp_ssl_array' : tcp_ssl_array'[i] \in OfSslType("client")}
    BY <1>1, KindCounted DEF OfType
  <2>9. s \in OfSslType("client") <=> s.type = "client"
    BY DEF OfSslType
  <2>4. Cardinality(OfType("client")') = Cardinality(OfType("client")) + (IF s.type = "client" THEN 1 ELSE 0)
    <3>1. (IF s \in OfSslType("client") THEN 1 ELSE 0) = (IF s.type = "client" THEN 1 ELSE 0)
      BY <2>9
    <3> QED BY <2>2, <2>3, <3>1
  <2>5. Cardinality(OfType("client")) \in Nat
    <3>1. Cardinality({i \in DOMAIN tcp_ssl_array : tcp_ssl_array[i] \in OfSslType("client")}) \in Nat
      BY PlacesCounted
    <3> QED BY <2>3, <3>1
  <2>6. contexts = Cardinality(OfType("client"))
    BY DEF BooksInv
  <2>7. contexts' = Cardinality(OfType("client")')
    BY <2>4, <2>5, <2>6
  <2>8. tcp_ssl_has_client' <=> \E i \in DOMAIN tcp_ssl_array' : tcp_ssl_array'[i].type = "server"
    <3>1. CASE s.type = "server"
      BY <1>1, <1>2, <3>1
    <3>2. CASE s.type # "server"
      BY <1>1, <1>2, <3>2 DEF BooksInv
    <3> QED BY <3>1, <3>2
  <2> QED BY <2>7, <2>8 DEF BooksInv
<1> QED BY <1>1, <1>2, <1>5, <1>6

\* A session less.
LEMMA ItemGone ==
  ASSUME tcp_ssl_array \in Seq(SslItem), SessionsInv, BooksInv, NEW k \in DOMAIN tcp_ssl_array,
         ItemFreed(tcp_ssl_array[k].tcp), UNCHANGED tcp_ssl_next_fd
  PROVE  /\ tcp_ssl_array' \in Seq(SslItem) /\ SessionsInv' /\ BooksInv'
         /\ \A i \in DOMAIN tcp_ssl_array' : \E j \in DOMAIN tcp_ssl_array \ {k} : tcp_ssl_array'[i] = tcp_ssl_array[j]
         /\ \A j \in DOMAIN tcp_ssl_array \ {k} : \E i \in DOMAIN tcp_ssl_array' : tcp_ssl_array'[i] = tcp_ssl_array[j]
         /\ packets' = IF tcp_ssl_array[k].tcp_pbuf # NoPacket THEN FreedOnce(tcp_ssl_array[k].tcp_pbuf) ELSE packets
         /\ tcp_ssl_has_client' \in BOOLEAN
<1> DEFINE s == tcp_ssl_array[k]
<1>1. SslGet(s.tcp) = k /\ Session(s.tcp) = s
  BY SessionFound
<1>2. /\ tcp_ssl_array' = RemoveAt(tcp_ssl_array, k)
      /\ packets' = IF s.tcp_pbuf # NoPacket THEN FreedOnce(s.tcp_pbuf) ELSE packets
      /\ contexts' = IF s.type = "client" THEN contexts - 1 ELSE contexts
      /\ tcp_ssl_has_client' = (tcp_ssl_has_client /\ s.type # "server")
  BY <1>1 DEF ItemFreed
<1>3. /\ tcp_ssl_array' \in Seq(SslItem)
      /\ DOMAIN tcp_ssl_array' = 1 .. Len(tcp_ssl_array) - 1 /\ DOMAIN tcp_ssl_array = 1 .. Len(tcp_ssl_array)
      /\ Len(tcp_ssl_array) \in Nat
      /\ \A i \in DOMAIN tcp_ssl_array' : Was(i, k) \in DOMAIN tcp_ssl_array \ {k}
                                         /\ tcp_ssl_array'[i] = tcp_ssl_array[Was(i, k)]
  BY <1>2, RemovePlaces
<1>4. /\ \A i, j \in DOMAIN tcp_ssl_array' : Was(i, k) = Was(j, k) => i = j
      /\ \A j \in DOMAIN tcp_ssl_array : j # k => \E i \in DOMAIN tcp_ssl_array' : Was(i, k) = j
  <2> DEFINE n == Len(tcp_ssl_array)
  <2>1. n \in Nat /\ k \in 1 .. n
    BY <1>3
  <2>2. DOMAIN tcp_ssl_array' = 1 .. n - 1 /\ DOMAIN tcp_ssl_array = 1 .. n
    BY <1>3
  <2> HIDE DEF n
  <2>3. /\ \A i, j \in 1 .. n - 1 : Was(i, k) = Was(j, k) => i = j
        /\ \A j \in 1 .. n : j # k => \E i \in 1 .. n - 1 : Was(i, k) = j
    BY <2>1, WasFacts
  <2> QED BY <2>2, <2>3
<1>5. SessionsInv'
  BY <1>3, <1>4 DEF SessionsInv
<1>6. /\ \A i \in DOMAIN tcp_ssl_array' : \E j \in DOMAIN tcp_ssl_array \ {k} : tcp_ssl_array'[i] = tcp_ssl_array[j]
      /\ \A j \in DOMAIN tcp_ssl_array \ {k} : \E i \in DOMAIN tcp_ssl_array' : tcp_ssl_array'[i] = tcp_ssl_array[j]
  BY <1>3, <1>4
<1>7. BooksInv'
  <2>1. s \in SslItem /\ s.type \in {"client", "server"}
    BY ItemTyped
  <2>2. Cardinality({i \in DOMAIN tcp_ssl_array' : tcp_ssl_array'[i] \in OfSslType("client")}) =
        Cardinality({i \in DOMAIN tcp_ssl_array : tcp_ssl_array[i] \in OfSslType("client")})
          - (IF s \in OfSslType("client") THEN 1 ELSE 0)
    BY <1>2, RemoveCounted
  <2>3. /\ OfType("client") = {i \in DOMAIN tcp_ssl_array : tcp_ssl_array[i] \in OfSslType("client")}
        /\ OfType("client")' = {i \in DOMAIN tcp_ssl_array' : tcp_ssl_array'[i] \in OfSslType("client")}
    BY <1>3, KindCounted DEF OfType
  <2>9. s \in OfSslType("client") <=> s.type = "client"
    BY <2>1 DEF OfSslType
  <2>4. Cardinality(OfType("client")') = Cardinality(OfType("client")) - (IF s.type = "client" THEN 1 ELSE 0)
    BY <2>2, <2>3, <2>9
  <2>5. Cardinality(OfType("client")) \in Nat
    <3>1. Cardinality({i \in DOMAIN tcp_ssl_array : tcp_ssl_array[i] \in OfSslType("client")}) \in Nat
      BY PlacesCounted
    <3> QED BY <2>3, <3>1
  <2>6. contexts = Cardinality(OfType("client"))
    BY DEF BooksInv
  <2>7. contexts' = Cardinality(OfType("client")')
    BY <1>2, <2>4, <2>5, <2>6
  <2>8. tcp_ssl_has_client' <=> \E i \in DOMAIN tcp_ssl_array' : tcp_ssl_array'[i].type = "server"
    <3>1. CASE s.type = "server"
      <4>1. \A j \in DOMAIN tcp_ssl_array \ {k} : tcp_ssl_array[j].type # "server"
        BY <3>1 DEF SessionsInv
      <4> QED BY <1>2, <1>6, <3>1, <4>1
    <3>2. CASE s.type # "server"
      <4>1. tcp_ssl_has_client <=> \E j \in DOMAIN tcp_ssl_array \ {k} : tcp_ssl_array[j].type = "server"
        BY <3>2 DEF BooksInv
      <4> QED BY <1>2, <1>6, <3>2, <4>1
    <3> QED BY <3>1, <3>2
  <2> QED BY <2>7, <2>8 DEF BooksInv
<1> QED BY <1>2, <1>3, <1>5, <1>6, <1>7

\* The fields of a packet.
LEMMA PacketFields ==
  ASSUME packets \in Seq(SslPacket), NEW p \in DOMAIN packets
  PROVE  /\ packets[p] \in SslPacket /\ packets[p].freed \in Nat /\ packets[p].read \in Nat
         /\ packets[p].failed \in BOOLEAN /\ p \in Nat \ {0}
<1>1. packets[p] \in SslPacket /\ p \in Nat \ {0}
  OBVIOUS
<1> QED BY <1>1 DEF SslPacket

\* A new session has no packet; while a session is read another one opens.
LEMMA SessionOpened ==
  ASSUME TlsInv, NEW tcp \in Tcps, NEW type \in {"client", "server"}, Opens(tcp),
         type = "server" => ~tcp_ssl_has_client,
         tcp_ssl_array' = Append(tcp_ssl_array, NewItem(tcp, type)), tcp_ssl_next_fd' = tcp_ssl_next_fd + 1,
         contexts' = IF type = "client" THEN contexts + 1 ELSE contexts,
         tcp_ssl_has_client' = IF type = "server" THEN TRUE ELSE tcp_ssl_has_client,
         UNCHANGED <<reading, writing, packets>>
  PROVE  TlsInv'
<1> DEFINE s == NewItem(tcp, type)
<1>1. TlsTypeOK /\ SessionsInv /\ BooksInv /\ PacketInv /\ WriteInv
  BY DEF TlsInv
<1>2. /\ s \in SslItem /\ s.tcp = tcp /\ s.type = type /\ s.fd = tcp_ssl_next_fd /\ s.tcp_pbuf = NoPacket
  BY <1>1 DEF NewItem, SslItem, TlsTypeOK, NoPacket
<1>3. ~SslHas(s.tcp) /\ writing = NotWriting
  BY <1>2 DEF Opens, MayCall
<1>4. /\ tcp_ssl_array' = Append(tcp_ssl_array, s)
      /\ contexts' = IF s.type = "client" THEN contexts + 1 ELSE contexts
      /\ tcp_ssl_has_client' = IF s.type = "server" THEN TRUE ELSE tcp_ssl_has_client
      /\ s.type = "server" => ~tcp_ssl_has_client
  BY <1>2
<1> HIDE DEF s
<1>5. /\ tcp_ssl_array' \in Seq(SslItem) /\ SessionsInv' /\ BooksInv'
      /\ \A i \in DOMAIN tcp_ssl_array : i \in DOMAIN tcp_ssl_array' /\ tcp_ssl_array'[i] = tcp_ssl_array[i]
      /\ \A i \in DOMAIN tcp_ssl_array' : i \in DOMAIN tcp_ssl_array \/ tcp_ssl_array'[i] = s
  BY <1>1, <1>2, <1>3, <1>4, ItemAdded DEF TlsTypeOK
<1>6. TlsTypeOK'
  <2>1. tcp_ssl_next_fd + 1 \in Nat
    BY <1>1 DEF TlsTypeOK
  <2>2. tcp_ssl_has_client' \in BOOLEAN
    BY <1>1, Zenon DEF TlsTypeOK
  <2> QED BY <1>1, <1>5, <2>1, <2>2 DEF TlsTypeOK
<1>7. PacketInv'
  <2>1. reading # NotReading => reading.p \in DOMAIN packets /\ SslHas(reading.tcp)' /\ reading.tcp # s.tcp
    BY <1>1, <1>3, <1>5 DEF PacketInv, SslHas
  <2>2. \A i \in DOMAIN tcp_ssl_array' : tcp_ssl_array'[i].tcp_pbuf # NoPacket =>
          reading # NotReading /\ tcp_ssl_array'[i].tcp = reading.tcp
    BY <1>1, <1>2, <1>5 DEF PacketInv
  <2>3. \A i \in DOMAIN tcp_ssl_array' : reading # NotReading /\ tcp_ssl_array'[i].tcp = reading.tcp =>
          BeingRead(packets[reading.p], tcp_ssl_array'[i], reading)
    BY <1>1, <1>5, <2>1 DEF PacketInv
  <2> QED BY <1>1, <2>1, <2>2, <2>3 DEF PacketInv, BeingRead, ReadToEnd
<1>8. WriteInv'
  BY <1>3 DEF WriteInv
<1> QED BY <1>5, <1>6, <1>7, <1>8 DEF TlsInv

\* tcp_ssl_new_client and tcp_ssl_new_server open a session.
LEMMA SessionOpens ==
  ASSUME TlsInv, NEW tcp \in Tcps, NewClientSession(tcp) \/ NewServerSession(tcp)
  PROVE  TlsInv'
<1>1. CASE NewClientSession(tcp)
  <2> DEFINE type == "client"
  <2>1. type \in {"client", "server"}
    OBVIOUS
  <2> QED BY <1>1, <2>1, SessionOpened DEF NewClientSession
<1>2. CASE NewServerSession(tcp)
  <2> DEFINE type == "server"
  <2>1. type \in {"client", "server"}
    OBVIOUS
  <2> QED BY <1>2, <2>1, SessionOpened DEF NewServerSession
<1> QED BY <1>1, <1>2

\* The number of a session that failed to open is used up.
LEMMA SessionFails ==
  ASSUME TlsInv, NEW tcp \in Tcps, NewSessionFails(tcp)
  PROVE  TlsInv'
<1>1. /\ TlsTypeOK /\ SessionsInv /\ BooksInv /\ PacketInv /\ WriteInv
      /\ tcp_ssl_next_fd' = tcp_ssl_next_fd + 1
      /\ UNCHANGED <<tcp_ssl_array, tcp_ssl_has_client, contexts, reading, writing, packets>>
  BY DEF TlsInv, NewSessionFails
<1>2. TlsTypeOK'
  <2>1. tcp_ssl_next_fd + 1 \in Nat
    BY <1>1 DEF TlsTypeOK
  <2> QED BY <1>1, <2>1 DEF TlsTypeOK
<1>3. SessionsInv'
  <2>1. \A i \in DOMAIN tcp_ssl_array : tcp_ssl_array[i].fd \in Nat
    BY <1>1, ItemTyped DEF TlsTypeOK
  <2>2. \A i \in DOMAIN tcp_ssl_array : tcp_ssl_array[i].fd < tcp_ssl_next_fd + 1
    BY <1>1, <2>1 DEF TlsTypeOK, SessionsInv
  <2> QED BY <1>1, <2>2 DEF SessionsInv
<1>4. BooksInv' /\ PacketInv' /\ WriteInv'
  BY <1>1 DEF BooksInv, OfType, PacketInv, BeingRead, ReadToEnd, SslHas, WriteInv
<1> QED BY <1>2, <1>3, <1>4 DEF TlsInv

\* The session that a call names is in the list.
LEMMA SessionNamed ==
  ASSUME NEW tcp, SslHas(tcp)
  PROVE  \E k \in DOMAIN tcp_ssl_array : tcp_ssl_array[k].tcp = tcp
BY DEF SslHas

\* A session that is not the one being read has no packet to free.
LEMMA SessionFreed ==
  ASSUME TlsInv, NEW tcp \in Tcps, SslFree(tcp)
  PROVE  TlsInv'
<1>1. /\ TlsTypeOK /\ SessionsInv /\ BooksInv /\ PacketInv /\ WriteInv
      /\ writing = NotWriting /\ ~IsRead(tcp) /\ ItemFreed(tcp)
      /\ UNCHANGED <<tcp_ssl_next_fd, reading, writing>>
  BY DEF TlsInv, SslFree, MayCall
<1>2. PICK k \in DOMAIN tcp_ssl_array : tcp_ssl_array[k].tcp = tcp
  BY SessionNamed DEF SslFree
<1>3. tcp_ssl_array \in Seq(SslItem) /\ ItemFreed(tcp_ssl_array[k].tcp)
  BY <1>1, <1>2 DEF TlsTypeOK
<1>4. /\ tcp_ssl_array' \in Seq(SslItem) /\ SessionsInv' /\ BooksInv'
      /\ \A i \in DOMAIN tcp_ssl_array' : \E j \in DOMAIN tcp_ssl_array \ {k} : tcp_ssl_array'[i] = tcp_ssl_array[j]
      /\ \A j \in DOMAIN tcp_ssl_array \ {k} : \E i \in DOMAIN tcp_ssl_array' : tcp_ssl_array'[i] = tcp_ssl_array[j]
      /\ packets' = IF tcp_ssl_array[k].tcp_pbuf # NoPacket THEN FreedOnce(tcp_ssl_array[k].tcp_pbuf) ELSE packets
      /\ tcp_ssl_has_client' \in BOOLEAN
  BY <1>1, <1>3, ItemGone
<1>5. packets' = packets
  BY <1>1, <1>2, <1>4 DEF PacketInv, IsRead
<1>6. TlsTypeOK'
  BY <1>1, <1>4, <1>5 DEF TlsTypeOK
<1>7. PacketInv'
  <2>1. reading # NotReading => reading.p \in DOMAIN packets /\ SslHas(reading.tcp)'
    <3>1. SUFFICES ASSUME reading # NotReading PROVE reading.p \in DOMAIN packets /\ SslHas(reading.tcp)'
      OBVIOUS
    <3>2. PICK j \in DOMAIN tcp_ssl_array : tcp_ssl_array[j].tcp = reading.tcp
      BY <1>1, <3>1 DEF PacketInv, SslHas
    <3>3. j # k
      BY <1>1, <1>2, <3>1, <3>2 DEF IsRead
    <3> QED BY <1>1, <1>4, <3>1, <3>2, <3>3 DEF PacketInv, SslHas
  <2> QED BY <1>1, <1>4, <1>5, <2>1 DEF PacketInv, BeingRead, ReadToEnd
<1>8. WriteInv'
  BY <1>1 DEF WriteInv
<1> QED BY <1>4, <1>6, <1>7, <1>8 DEF TlsInv

\* After a read that failed the session goes; a packet it still has is freed.
LEMMA SessionClosed ==
  ASSUME TlsInv, RecvCloses
  PROVE  TlsInv'
<1> DEFINE p == reading.p
<1>1. /\ TlsTypeOK /\ SessionsInv /\ BooksInv /\ PacketInv /\ WriteInv
      /\ reading.phase = "closing" /\ reading' = NotReading /\ ItemFreed(reading.tcp)
      /\ UNCHANGED <<tcp_ssl_next_fd, writing>>
  BY DEF TlsInv, RecvCloses
<1>2. reading # NotReading /\ writing = NotWriting /\ p \in DOMAIN packets
  BY <1>1 DEF NotReading, WriteInv, PacketInv
<1>3. PICK k \in DOMAIN tcp_ssl_array : tcp_ssl_array[k].tcp = reading.tcp
  BY <1>1, <1>2, SessionNamed DEF PacketInv
<1> DEFINE s == tcp_ssl_array[k]
<1>4. tcp_ssl_array \in Seq(SslItem) /\ ItemFreed(tcp_ssl_array[k].tcp)
  BY <1>1, <1>3 DEF TlsTypeOK
<1>5. /\ tcp_ssl_array' \in Seq(SslItem) /\ SessionsInv' /\ BooksInv'
      /\ \A i \in DOMAIN tcp_ssl_array' : \E j \in DOMAIN tcp_ssl_array \ {k} : tcp_ssl_array'[i] = tcp_ssl_array[j]
      /\ packets' = IF s.tcp_pbuf # NoPacket THEN FreedOnce(s.tcp_pbuf) ELSE packets
      /\ tcp_ssl_has_client' \in BOOLEAN
  BY <1>1, <1>4, ItemGone
<1>6. BeingRead(packets[p], s, reading)
  BY <1>1, <1>2, <1>3 DEF PacketInv
<1>7. packets \in Seq(SslPacket) /\ packets[p] \in SslPacket /\ p \in Nat \ {0} /\ packets[p].freed \in Nat
  BY <1>1, <1>2, PacketFields DEF TlsTypeOK
<1>8. /\ packets' \in Seq(SslPacket) /\ DOMAIN packets' = DOMAIN packets /\ ReadToEnd(packets'[p])
      /\ \A q \in DOMAIN packets \ {p} : packets'[q] = packets[q]
  <2>1. CASE s.tcp_pbuf = NoPacket
    BY <1>1, <1>5, <1>6, <1>7, <2>1 DEF BeingRead, ReadToEnd, NoPacket
  <2>2. CASE s.tcp_pbuf # NoPacket
    <3> DEFINE x == [packets[p] EXCEPT !.freed = @ + 1]
    <3>1. s.tcp_pbuf = p /\ packets[p].freed = 0 /\ packets[p].failed
      BY <1>1, <1>6, <2>2 DEF BeingRead
    <3>2. x \in SslPacket /\ x.freed = 1 /\ x.failed
      BY <1>7, <3>1 DEF SslPacket
    <3>3. packets' = [packets EXCEPT ![p] = x]
      BY <1>5, <2>2, <3>1 DEF FreedOnce
    <3> HIDE DEF x
    <3>4. /\ packets' \in Seq(SslPacket) /\ DOMAIN packets' = DOMAIN packets
          /\ \A c \in DOMAIN packets : packets'[c] = IF c = p THEN x ELSE packets[c]
      BY <1>7, <3>2, <3>3, ExceptPlaces
    <3> QED BY <1>2, <3>2, <3>4 DEF ReadToEnd
  <2> QED BY <2>1, <2>2
<1>9. TlsTypeOK'
  BY <1>1, <1>5, <1>8 DEF TlsTypeOK
<1>10. PacketInv'
  <2>1. \A i \in DOMAIN tcp_ssl_array' : tcp_ssl_array'[i].tcp_pbuf = NoPacket
    <3>1. \A j \in DOMAIN tcp_ssl_array \ {k} : tcp_ssl_array[j].tcp_pbuf = NoPacket
      BY <1>1, <1>3 DEF PacketInv, SessionsInv
    <3> QED BY <1>5, <3>1
  <2>2. \A q \in DOMAIN packets' : ReadToEnd(packets'[q])
    BY <1>1, <1>8 DEF PacketInv
  <2> QED BY <1>1, <2>1, <2>2 DEF PacketInv, ReadToEnd
<1>11. WriteInv'
  BY <1>1, <1>2 DEF WriteInv
<1> QED BY <1>5, <1>9, <1>10, <1>11 DEF TlsInv

\* A change of what a session has written does not touch its packet.
LEMMA WrittenKeeps ==
  ASSUME TlsInv, NEW k \in DOMAIN tcp_ssl_array, NEW n \in Nat,
         tcp_ssl_array' = [tcp_ssl_array EXCEPT ![k].last_wr = n],
         UNCHANGED <<tcp_ssl_next_fd, tcp_ssl_has_client, contexts, reading, packets>>
  PROVE  /\ tcp_ssl_array' \in Seq(SslItem) /\ SessionsInv' /\ BooksInv' /\ PacketInv'
         /\ k \in DOMAIN tcp_ssl_array' /\ tcp_ssl_array'[k].last_wr = n
         /\ tcp_ssl_array'[k].fd = tcp_ssl_array[k].fd
<1> DEFINE s == [tcp_ssl_array[k] EXCEPT !.last_wr = n]
<1>1. TlsTypeOK /\ SessionsInv /\ BooksInv /\ PacketInv /\ WriteInv /\ tcp_ssl_array \in Seq(SslItem)
  BY DEF TlsInv, TlsTypeOK
<1>2. tcp_ssl_array[k] \in SslItem
  BY <1>1, ItemTyped
<1>3. /\ s \in SslItem /\ s.tcp = tcp_ssl_array[k].tcp /\ s.fd = tcp_ssl_array[k].fd /\ s.type = tcp_ssl_array[k].type
      /\ s.tcp_pbuf = tcp_ssl_array[k].tcp_pbuf /\ s.pbuf_offset = tcp_ssl_array[k].pbuf_offset /\ s.last_wr = n
  BY <1>2 DEF SslItem
<1>4. tcp_ssl_array' = [tcp_ssl_array EXCEPT ![k] = s]
  OBVIOUS
<1> HIDE DEF s
<1>5. /\ tcp_ssl_array' \in Seq(SslItem) /\ DOMAIN tcp_ssl_array' = DOMAIN tcp_ssl_array
      /\ tcp_ssl_array'[k] = s
      /\ \A i \in DOMAIN tcp_ssl_array : i # k => tcp_ssl_array'[i] = tcp_ssl_array[i]
      /\ SessionsInv' /\ BooksInv'
      /\ \A tcp : SslHas(tcp)' <=> SslHas(tcp)
  BY <1>1, <1>3, <1>4, ItemChanges
<1>6. \A i \in DOMAIN tcp_ssl_array : /\ tcp_ssl_array'[i].tcp = tcp_ssl_array[i].tcp
                                      /\ tcp_ssl_array'[i].tcp_pbuf = tcp_ssl_array[i].tcp_pbuf
                                      /\ tcp_ssl_array'[i].pbuf_offset = tcp_ssl_array[i].pbuf_offset
  BY <1>3, <1>5
<1>7. PacketInv'
  BY <1>1, <1>5, <1>6 DEF PacketInv, BeingRead, ReadToEnd
<1> QED BY <1>3, <1>5, <1>7

\* tcp_ssl_write finds its session,
LEMMA WriteBegun ==
  ASSUME TlsInv, NEW tcp \in Tcps, SslWrite(tcp)
  PROVE  TlsInv'
<1>1. /\ TlsTypeOK /\ SessionsInv /\ BooksInv /\ PacketInv /\ WriteInv /\ MayCall
      /\ tcp_ssl_array' = [tcp_ssl_array EXCEPT ![SslGet(tcp)].last_wr = 0]
      /\ writing' = [phase |-> "writing", fd |-> Session(tcp).fd, left |-> WriteLen, taken |-> 0]
      /\ UNCHANGED <<tcp_ssl_next_fd, tcp_ssl_has_client, contexts, reading, packets>>
  BY DEF TlsInv, SslWrite
<1>2. PICK k \in DOMAIN tcp_ssl_array : tcp_ssl_array[k].tcp = tcp
  BY SessionNamed DEF SslWrite
<1>3. SslGet(tcp) = k /\ Session(tcp) = tcp_ssl_array[k] /\ tcp_ssl_array[k].fd \in Nat
  BY <1>1, <1>2, SessionFound, ItemTyped DEF TlsTypeOK
<1>4. /\ tcp_ssl_array' \in Seq(SslItem) /\ SessionsInv' /\ BooksInv' /\ PacketInv'
      /\ k \in DOMAIN tcp_ssl_array' /\ tcp_ssl_array'[k].last_wr = 0
      /\ tcp_ssl_array'[k].fd = tcp_ssl_array[k].fd
  <2>1. tcp_ssl_array' = [tcp_ssl_array EXCEPT ![k].last_wr = 0]
    BY <1>1, <1>3
  <2>2. 0 \in Nat
    OBVIOUS
  <2> QED BY <1>1, <2>1, <2>2, WrittenKeeps
<1>5. /\ writing' \in [phase : {"writing"}, fd : Nat, left : Nat, taken : Nat]
      /\ writing'.fd = tcp_ssl_array[k].fd /\ writing'.taken = 0
  BY <1>1, <1>3, TlsAssumption
<1>6. TlsTypeOK'
  BY <1>1, <1>4, <1>5 DEF TlsTypeOK
<1>7. reading'.phase \in {"none", "handler"}
  BY <1>1 DEF MayCall
<1>8. WriteInv'
  BY <1>4, <1>5, <1>7 DEF WriteInv
<1> QED BY <1>4, <1>6, <1>8 DEF TlsInv

\* and its loop writes what lwIP takes,
LEMMA PortWritten ==
  ASSUME TlsInv, NEW sndbuf \in 1 .. WriteLen, PortWrite(sndbuf)
  PROVE  TlsInv'
<1> DEFINE tcp_len == FewerBytes(FewerBytes(writing.left, sndbuf), 2 * Mss)
<1>1. /\ TlsTypeOK /\ SessionsInv /\ BooksInv /\ PacketInv /\ WriteInv
      /\ writing.phase = "writing"
      /\ tcp_ssl_array' = [tcp_ssl_array EXCEPT ![GetByFd(writing.fd)].last_wr = @ + tcp_len]
      /\ writing' = [writing EXCEPT !.left = @ - tcp_len, !.taken = @ + tcp_len]
      /\ UNCHANGED <<tcp_ssl_next_fd, tcp_ssl_has_client, contexts, reading, packets>>
  BY DEF TlsInv, PortWrite
<1>2. writing # NotWriting /\ writing \in [phase : {"writing"}, fd : Nat, left : Nat, taken : Nat]
  BY <1>1 DEF NotWriting, TlsTypeOK
<1>3. tcp_len \in Nat /\ writing.left - tcp_len \in Nat
  <2>1. writing.left \in Nat /\ 2 * Mss \in Nat /\ sndbuf \in Nat
    BY <1>2, TlsAssumption
  <2> QED BY <2>1 DEF FewerBytes
<1>4. PICK k \in DOMAIN tcp_ssl_array : tcp_ssl_array[k].fd = writing.fd /\ tcp_ssl_array[k].last_wr = writing.taken
  BY <1>1, <1>2 DEF WriteInv
<1>5. GetByFd(writing.fd) = k
  BY <1>1, <1>4, SessionFound DEF TlsTypeOK
<1> HIDE DEF tcp_len
<1> DEFINE n == writing.taken + tcp_len
<1>6. n \in Nat
  BY <1>2, <1>3
<1>7. tcp_ssl_array' = [tcp_ssl_array EXCEPT ![k].last_wr = n]
  BY <1>1, <1>4, <1>5
<1>8. /\ writing' \in [phase : {"writing"}, fd : Nat, left : Nat, taken : Nat]
      /\ writing'.fd = writing.fd /\ writing'.taken = n
  BY <1>1, <1>2, <1>3, <1>6
<1> HIDE DEF n
<1>9. /\ tcp_ssl_array' \in Seq(SslItem) /\ SessionsInv' /\ BooksInv' /\ PacketInv'
      /\ k \in DOMAIN tcp_ssl_array' /\ tcp_ssl_array'[k].last_wr = n
      /\ tcp_ssl_array'[k].fd = tcp_ssl_array[k].fd
  BY <1>1, <1>6, <1>7, WrittenKeeps
<1>10. TlsTypeOK'
  BY <1>1, <1>8, <1>9 DEF TlsTypeOK
<1>11. WriteInv'
  BY <1>1, <1>2, <1>4, <1>8, <1>9 DEF WriteInv
<1> QED BY <1>9, <1>10, <1>11 DEF TlsInv

\* What each step of tcp_ssl_read does: to its session k, which becomes s, to
\* its packet p, and to the read itself.
LEMMA ReadMoves ==
  ASSUME TlsInv, NEW k \in DOMAIN tcp_ssl_array, NEW s \in SslItem, NEW p,
         reading = NotReading \/ (reading.tcp = tcp_ssl_array[k].tcp /\ reading.p = p),
         s.tcp = tcp_ssl_array[k].tcp, s.fd = tcp_ssl_array[k].fd, s.type = tcp_ssl_array[k].type,
         tcp_ssl_array' = [tcp_ssl_array EXCEPT ![k] = s],
         packets' \in Seq(SslPacket), p \in DOMAIN packets',
         \A q \in DOMAIN packets' \ {p} : q \in DOMAIN packets /\ packets'[q] = packets[q],
         \/ reading' = NotReading /\ s.tcp_pbuf = NoPacket /\ ReadToEnd(packets'[p])
         \/ /\ reading' \in [phase : {"round", "handler", "check", "closing"}, tcp : Tcps, p : Nat \ {0}]
            /\ reading'.tcp = s.tcp /\ reading'.p = p /\ BeingRead(packets'[p], s, reading'),
         writing = NotWriting,
         UNCHANGED <<tcp_ssl_next_fd, tcp_ssl_has_client, contexts, writing>>
  PROVE  TlsInv'
<1>1. TlsTypeOK /\ SessionsInv /\ BooksInv /\ PacketInv /\ WriteInv /\ tcp_ssl_array \in Seq(SslItem)
  BY DEF TlsInv, TlsTypeOK
<1>2. /\ tcp_ssl_array' \in Seq(SslItem) /\ DOMAIN tcp_ssl_array' = DOMAIN tcp_ssl_array
      /\ tcp_ssl_array'[k] = s
      /\ \A i \in DOMAIN tcp_ssl_array : i # k => tcp_ssl_array'[i] = tcp_ssl_array[i]
      /\ SessionsInv' /\ BooksInv'
  BY <1>1, ItemChanges
<1>3. TlsTypeOK'
  BY <1>1, <1>2 DEF TlsTypeOK
<1>4. \A i \in DOMAIN tcp_ssl_array : i # k => tcp_ssl_array[i].tcp # s.tcp /\ tcp_ssl_array'[i].tcp_pbuf = NoPacket
  BY <1>1, <1>2 DEF PacketInv, SessionsInv
<1>5. \A q \in DOMAIN packets' \ {p} : ReadToEnd(packets'[q])
  BY <1>1 DEF PacketInv
<1>6. PacketInv'
  <2>1. CASE reading' = NotReading /\ s.tcp_pbuf = NoPacket /\ ReadToEnd(packets'[p])
    BY <1>2, <1>4, <1>5, <2>1 DEF PacketInv, ReadToEnd
  <2>2. CASE /\ reading' \in [phase : {"round", "handler", "check", "closing"}, tcp : Tcps, p : Nat \ {0}]
             /\ reading'.tcp = s.tcp /\ reading'.p = p /\ BeingRead(packets'[p], s, reading')
    <3>1. SslHas(reading.tcp)'
      BY <1>2, <2>2 DEF SslHas
    <3>2. reading' # NotReading
      BY <2>2 DEF NotReading
    <3>3. \A i \in DOMAIN tcp_ssl_array' : tcp_ssl_array'[i].tcp_pbuf # NoPacket => tcp_ssl_array'[i].tcp = reading'.tcp
      BY <1>2, <1>4, <2>2
    <3>4. \A i \in DOMAIN tcp_ssl_array' : tcp_ssl_array'[i].tcp = reading'.tcp =>
            BeingRead(packets[reading.p], tcp_ssl_array[i], reading)'
      BY <1>2, <1>4, <2>2 DEF BeingRead
    <3> QED BY <1>5, <2>2, <3>1, <3>2, <3>3, <3>4 DEF PacketInv, ReadToEnd
  <2> QED BY <2>1, <2>2
<1>7. WriteInv'
  BY DEF WriteInv
<1> QED BY <1>2, <1>3, <1>6, <1>7 DEF TlsInv

\* A packet that arrives.
LEMMA ReadBegun ==
  ASSUME TlsInv, NEW tcp \in Tcps, SslReadBegins(tcp)
  PROVE  TlsInv'
<1> DEFINE x == [freed |-> 0, read |-> 0, failed |-> FALSE]
           p == Len(packets) + 1
<1>1. /\ TlsTypeOK /\ SessionsInv /\ PacketInv /\ reading = NotReading /\ writing = NotWriting
      /\ tcp_ssl_array \in Seq(SslItem) /\ packets \in Seq(SslPacket)
      /\ packets' = Append(packets, x)
      /\ tcp_ssl_array' = [tcp_ssl_array EXCEPT ![SslGet(tcp)].tcp_pbuf = Len(packets'),
                                                ![SslGet(tcp)].pbuf_offset = 0]
      /\ reading' = [phase |-> "round", tcp |-> tcp, p |-> Len(packets')]
      /\ UNCHANGED <<tcp_ssl_next_fd, tcp_ssl_has_client, contexts, writing>>
  BY DEF TlsInv, TlsTypeOK, SslReadBegins
<1>2. PICK k \in DOMAIN tcp_ssl_array : tcp_ssl_array[k].tcp = tcp
  BY SessionNamed DEF SslReadBegins
<1>3. SslGet(tcp) = k /\ tcp_ssl_array[k] \in SslItem
  BY <1>1, <1>2, SessionFound, ItemTyped
<1>4. x \in SslPacket
  BY DEF SslPacket
<1>5. /\ packets' \in Seq(SslPacket) /\ Len(packets') = p /\ packets'[p] = x
      /\ DOMAIN packets' = 1 .. p /\ \A q \in 1 .. Len(packets) : packets'[q] = packets[q]
      /\ DOMAIN packets = 1 .. Len(packets) /\ Len(packets) \in Nat
  BY <1>1, <1>4, AppendFacts
<1>6. /\ p \in DOMAIN packets' /\ p \in Nat \ {0}
      /\ \A q \in DOMAIN packets' \ {p} : q \in DOMAIN packets /\ packets'[q] = packets[q]
  BY <1>5
<1> DEFINE z == [tcp_ssl_array[k] EXCEPT !.tcp_pbuf = p]
           s == [z EXCEPT !.pbuf_offset = 0]
<1>7. /\ z \in SslItem /\ z.tcp = tcp_ssl_array[k].tcp /\ z.fd = tcp_ssl_array[k].fd
      /\ z.type = tcp_ssl_array[k].type /\ z.tcp_pbuf = p
  BY <1>3, <1>6 DEF SslItem
<1>8. tcp_ssl_array' = [tcp_ssl_array EXCEPT ![k] = s]
  BY <1>1, <1>3, <1>5
<1> HIDE DEF z
<1>9. /\ s \in SslItem /\ s.tcp = tcp_ssl_array[k].tcp /\ s.fd = tcp_ssl_array[k].fd
      /\ s.type = tcp_ssl_array[k].type /\ s.tcp_pbuf = p /\ s.pbuf_offset = 0
  BY <1>7 DEF SslItem
<1>10. /\ reading' \in [phase : {"round", "handler", "check", "closing"}, tcp : Tcps, p : Nat \ {0}]
       /\ reading'.tcp = s.tcp /\ reading'.p = p /\ reading'.phase = "round"
  BY <1>1, <1>2, <1>5, <1>6, <1>9
<1> HIDE DEF s, p
<1>11. BeingRead(packets'[p], s, reading')
  BY <1>5, <1>9, <1>10, TlsAssumption DEF BeingRead
<1> HIDE DEF x
<1>12. \/ reading' = NotReading /\ s.tcp_pbuf = NoPacket /\ ReadToEnd(packets'[p])
       \/ /\ reading' \in [phase : {"round", "handler", "check", "closing"}, tcp : Tcps, p : Nat \ {0}]
          /\ reading'.tcp = s.tcp /\ reading'.p = p /\ BeingRead(packets'[p], s, reading')
  BY <1>10, <1>11
<1>13. packets' \in Seq(SslPacket) /\ p \in DOMAIN packets'
  BY <1>5, <1>6
<1>14. \A q \in DOMAIN packets' \ {p} : q \in DOMAIN packets /\ packets'[q] = packets[q]
  BY <1>6
<1>15. writing = NotWriting /\ UNCHANGED <<tcp_ssl_next_fd, tcp_ssl_has_client, contexts, writing>>
  BY <1>1
<1>16. reading = NotReading
  BY <1>1
<1>17. (reading = NotReading) \/ (reading.tcp = tcp_ssl_array[k].tcp /\ reading.p = p)
  BY <1>16
<1> QED BY <1>8, <1>9, <1>12, <1>13, <1>14, <1>15, <1>17, ReadMoves

\* The session that is read, and its packet.
LEMMA ReadFacts ==
  ASSUME TlsInv, reading # NotReading
  PROVE  /\ reading \in [phase : {"round", "handler", "check", "closing"}, tcp : Tcps, p : Nat \ {0}]
         /\ reading.p \in DOMAIN packets /\ packets \in Seq(SslPacket) /\ packets[reading.p] \in SslPacket
         /\ tcp_ssl_array \in Seq(SslItem)
         /\ \E k \in DOMAIN tcp_ssl_array :
              /\ tcp_ssl_array[k].tcp = reading.tcp /\ tcp_ssl_array[k] \in SslItem
              /\ SslGet(reading.tcp) = k /\ Session(reading.tcp) = tcp_ssl_array[k]
              /\ BeingRead(packets[reading.p], tcp_ssl_array[k], reading)
<1>1. TlsTypeOK /\ SessionsInv /\ PacketInv /\ tcp_ssl_array \in Seq(SslItem) /\ packets \in Seq(SslPacket)
  BY DEF TlsInv, TlsTypeOK
<1>2. reading \in [phase : {"round", "handler", "check", "closing"}, tcp : Tcps, p : Nat \ {0}]
  BY <1>1 DEF TlsTypeOK
<1>3. reading.p \in DOMAIN packets /\ SslHas(reading.tcp)
  BY <1>1 DEF PacketInv
<1>4. PICK k \in DOMAIN tcp_ssl_array : tcp_ssl_array[k].tcp = reading.tcp
  BY <1>3, SessionNamed
<1>5. SslGet(reading.tcp) = k /\ Session(reading.tcp) = tcp_ssl_array[k] /\ tcp_ssl_array[k] \in SslItem
  BY <1>1, <1>4, SessionFound, ItemTyped
<1>6. BeingRead(packets[reading.p], tcp_ssl_array[k], reading)
  BY <1>1, <1>4 DEF PacketInv
<1>7. packets[reading.p] \in SslPacket
  BY <1>1, <1>3, PacketFields
<1> QED BY <1>1, <1>2, <1>3, <1>4, <1>5, <1>6, <1>7

\* The loop of tcp_ssl_read is left, at the end of the packet or on an error.
LEMMA LoopEnds ==
  ASSUME TlsInv, reading.phase \in {"round", "handler", "check"}, NEW failed \in BOOLEAN, LoopLeft(failed),
         ~failed => ~LoopGoesOn(Session(reading.tcp)),
         writing = NotWriting, UNCHANGED <<tcp_ssl_next_fd, tcp_ssl_has_client, contexts, writing>>
  PROVE  TlsInv'
<1> DEFINE p == reading.p
<1>1. /\ reading' = IF failed THEN [reading EXCEPT !.phase = "closing"] ELSE NotReading
      /\ tcp_ssl_array' = [tcp_ssl_array EXCEPT ![SslGet(reading.tcp)].tcp_pbuf = NoPacket]
      /\ packets' = [packets EXCEPT ![p].freed = @ + 1, ![p].failed = failed]
  BY DEF LoopLeft
<1>2. reading # NotReading
  BY DEF NotReading
<1>3. PICK k \in DOMAIN tcp_ssl_array :
              /\ tcp_ssl_array[k].tcp = reading.tcp /\ tcp_ssl_array[k] \in SslItem
              /\ SslGet(reading.tcp) = k /\ Session(reading.tcp) = tcp_ssl_array[k]
              /\ BeingRead(packets[p], tcp_ssl_array[k], reading)
  BY <1>2, ReadFacts
<1>4. /\ reading \in [phase : {"round", "handler", "check", "closing"}, tcp : Tcps, p : Nat \ {0}]
      /\ p \in DOMAIN packets /\ packets \in Seq(SslPacket) /\ packets[p] \in SslPacket
  BY <1>2, ReadFacts
<1>5. /\ packets[p].freed = 0 /\ ~packets[p].failed /\ packets[p].read = tcp_ssl_array[k].pbuf_offset
      /\ tcp_ssl_array[k].pbuf_offset <= TotLen
  BY <1>3 DEF BeingRead
<1>6. tcp_ssl_array[k].pbuf_offset \in Nat
  BY <1>3 DEF SslItem
<1>7. ~failed => packets[p].read = TotLen
  <2>1. ~failed => ~(TotLen - tcp_ssl_array[k].pbuf_offset > 0)
    BY <1>3 DEF LoopGoesOn
  <2>2. ~(TotLen - tcp_ssl_array[k].pbuf_offset > 0) => tcp_ssl_array[k].pbuf_offset = TotLen
    BY <1>5, <1>6, TlsAssumption
  <2> QED BY <1>5, <2>1, <2>2
<1> DEFINE z == [packets[p] EXCEPT !.freed = 1]
           x == [z EXCEPT !.failed = failed]
           s == [tcp_ssl_array[k] EXCEPT !.tcp_pbuf = NoPacket]
<1>8. z \in SslPacket /\ z.freed = 1 /\ z.read = packets[p].read
  BY <1>4 DEF SslPacket
<1>9. packets' = [packets EXCEPT ![p] = x]
  <2>1. packets[p].freed + 1 = 1
    BY <1>5
  <2>2. [packets EXCEPT ![p].freed = @ + 1, ![p].failed = failed] =
        [packets EXCEPT ![p] = [packets[p] EXCEPT !.freed = @ + 1, !.failed = failed]]
    BY <1>4
  <2> QED BY <1>1, <2>1, <2>2
<1> HIDE DEF z
<1>10. x \in SslPacket /\ x.freed = 1 /\ x.read = packets[p].read /\ x.failed = failed
  BY <1>8 DEF SslPacket
<1> HIDE DEF x
<1>11. /\ packets' \in Seq(SslPacket) /\ DOMAIN packets' = DOMAIN packets
       /\ \A c \in DOMAIN packets : packets'[c] = IF c = p THEN x ELSE packets[c]
  BY <1>4, <1>9, <1>10, ExceptPlaces
<1>12. /\ s \in SslItem /\ s.tcp = tcp_ssl_array[k].tcp /\ s.fd = tcp_ssl_array[k].fd
       /\ s.type = tcp_ssl_array[k].type /\ s.tcp_pbuf = NoPacket
  BY <1>3 DEF SslItem, NoPacket
<1>13. tcp_ssl_array' = [tcp_ssl_array EXCEPT ![k] = s]
  BY <1>1, <1>3
<1> HIDE DEF s
<1>14. packets'[p] = x /\ p \in DOMAIN packets'
  BY <1>4, <1>11
<1>15. \/ reading' = NotReading /\ s.tcp_pbuf = NoPacket /\ ReadToEnd(packets'[p])
       \/ /\ reading' \in [phase : {"round", "handler", "check", "closing"}, tcp : Tcps, p : Nat \ {0}]
          /\ reading'.tcp = s.tcp /\ reading'.p = p /\ BeingRead(packets'[p], s, reading')
  <2>1. CASE ~failed
    BY <1>1, <1>7, <1>10, <1>12, <1>14, <2>1 DEF ReadToEnd
  <2>2. CASE failed
    <3>1. /\ reading' \in [phase : {"round", "handler", "check", "closing"}, tcp : Tcps, p : Nat \ {0}]
          /\ reading'.tcp = reading.tcp /\ reading'.p = p /\ reading'.phase = "closing"
      BY <1>1, <1>4, <2>2
    <3>2. BeingRead(packets'[p], s, reading')
      BY <1>10, <1>12, <1>14, <2>2, <3>1 DEF BeingRead
    <3> QED BY <1>3, <1>12, <3>1, <3>2
  <2> QED BY <2>1, <2>2
<1>16. \A q \in DOMAIN packets' \ {p} : q \in DOMAIN packets /\ packets'[q] = packets[q]
  BY <1>11
<1>17. reading = NotReading \/ (reading.tcp = tcp_ssl_array[k].tcp /\ reading.p = p)
  BY <1>3
<1> HIDE DEF p
<1> QED BY <1>11, <1>12, <1>13, <1>14, <1>15, <1>16, <1>17, ReadMoves

\* One round: n bytes more of the packet, and what ssl_read said of them.
LEMMA RoundRead ==
  ASSUME TlsInv, NEW n \in 0 .. TotLen, SslReadRound(n)
  PROVE  TlsInv'
<1> DEFINE p == reading.p
<1>1. reading.phase = "round" /\ reading # NotReading /\ writing = NotWriting
      /\ UNCHANGED <<tcp_ssl_next_fd, tcp_ssl_has_client, contexts, writing>>
  <2>1. reading.phase = "round" /\ UNCHANGED <<tcp_ssl_next_fd, tcp_ssl_has_client, contexts, writing>>
    BY DEF SslReadRound
  <2> QED BY <2>1 DEF NotReading, TlsInv, WriteInv
<1>2. PICK k \in DOMAIN tcp_ssl_array :
              /\ tcp_ssl_array[k].tcp = reading.tcp /\ tcp_ssl_array[k] \in SslItem
              /\ SslGet(reading.tcp) = k /\ Session(reading.tcp) = tcp_ssl_array[k]
              /\ BeingRead(packets[p], tcp_ssl_array[k], reading)
  BY <1>1, ReadFacts
<1>3. /\ reading \in [phase : {"round", "handler", "check", "closing"}, tcp : Tcps, p : Nat \ {0}]
      /\ p \in DOMAIN packets /\ packets \in Seq(SslPacket) /\ packets[p] \in SslPacket
  BY <1>1, ReadFacts
<1>4. /\ tcp_ssl_array[k].tcp_pbuf = p /\ packets[p].freed = 0 /\ ~packets[p].failed
      /\ packets[p].read = tcp_ssl_array[k].pbuf_offset
  BY <1>1, <1>2 DEF BeingRead
<1> DEFINE o == tcp_ssl_array[k].pbuf_offset + n
           y == [tcp_ssl_array[k] EXCEPT !.pbuf_offset = o]
<1>5. o \in Nat /\ o <= TotLen
  <2>1. n <= TotLen - tcp_ssl_array[k].pbuf_offset
    BY <1>2 DEF SslReadRound
  <2>2. tcp_ssl_array[k].pbuf_offset \in Nat
    BY <1>2 DEF SslItem
  <2> QED BY <2>1, <2>2, TlsAssumption
<1>6. PICK s, goesTo :
        /\ tcp_ssl_array' = [tcp_ssl_array EXCEPT ![SslGet(s.tcp)] = s]
        /\ reading' = [reading EXCEPT !.phase = goesTo]
        /\ packets' = [packets EXCEPT ![p].read = @ + n, ![p].failed = goesTo = "closing"]
        /\ goesTo \in {"handler", "check", "closing"}
        /\ \/ s = y
           \/ \E h \in {"SSL_OK", "error"} : s = [y EXCEPT !.handshake = h]
  <2> DEFINE Change(item, goesTo) ==
               /\ tcp_ssl_array' = [tcp_ssl_array EXCEPT ![SslGet(item.tcp)] = item]
               /\ reading' = [reading EXCEPT !.phase = goesTo]
               /\ packets' = [packets EXCEPT ![p].read = @ + n, ![p].failed = goesTo = "closing"]
  <2>1. \/ Change(y, "handler") \/ Change([y EXCEPT !.handshake = "SSL_OK"], "handler")
        \/ Change(y, "check") \/ Change([y EXCEPT !.handshake = "error"], "closing")
    BY <1>2 DEF SslReadRound
  <2> HIDE DEF y
  <2> QED BY <2>1
<1>7. y \in SslItem /\ y.tcp = tcp_ssl_array[k].tcp /\ y.fd = tcp_ssl_array[k].fd
      /\ y.type = tcp_ssl_array[k].type /\ y.tcp_pbuf = p /\ y.pbuf_offset = o
  BY <1>2, <1>4, <1>5 DEF SslItem
<1> HIDE DEF y
<1>8. s \in SslItem /\ s.tcp = tcp_ssl_array[k].tcp /\ s.fd = tcp_ssl_array[k].fd
      /\ s.type = tcp_ssl_array[k].type /\ s.tcp_pbuf = p /\ s.pbuf_offset = o
  BY <1>6, <1>7 DEF SslItem
<1>9. tcp_ssl_array' = [tcp_ssl_array EXCEPT ![k] = s]
  BY <1>2, <1>6, <1>8
<1> DEFINE z == [packets[p] EXCEPT !.read = o]
           x == [z EXCEPT !.failed = goesTo = "closing"]
<1>10. z \in SslPacket /\ z.read = o /\ z.freed = 0
  BY <1>3, <1>4, <1>5 DEF SslPacket
<1>11. packets' = [packets EXCEPT ![p] = x]
  <2>1. packets[p].read + n = o
    BY <1>4
  <2> HIDE DEF o
  <2>2. [packets EXCEPT ![p].read = @ + n, ![p].failed = goesTo = "closing"] =
        [packets EXCEPT ![p] = [packets[p] EXCEPT !.read = @ + n, !.failed = goesTo = "closing"]]
    BY <1>3
  <2> QED BY <1>6, <2>1, <2>2
<1> HIDE DEF z, o
<1>12. x \in SslPacket /\ x.read = o /\ x.freed = 0 /\ x.failed = (goesTo = "closing")
  BY <1>10 DEF SslPacket
<1> HIDE DEF x
<1>13. /\ packets' \in Seq(SslPacket) /\ DOMAIN packets' = DOMAIN packets
       /\ \A c \in DOMAIN packets : packets'[c] = IF c = p THEN x ELSE packets[c]
  BY <1>3, <1>11, <1>12, ExceptPlaces
<1>14. packets'[p] = x /\ p \in DOMAIN packets'
  BY <1>3, <1>13
<1>15. /\ reading' \in [phase : {"round", "handler", "check", "closing"}, tcp : Tcps, p : Nat \ {0}]
       /\ reading'.tcp = reading.tcp /\ reading'.p = p /\ reading'.phase = goesTo
  BY <1>3, <1>6
<1>16. BeingRead(packets'[p], s, reading')
  <2>1. goesTo = "closing" => x.failed
    BY <1>12
  <2>2. goesTo # "closing" => ~x.failed
    BY <1>12
  <2> QED BY <1>5, <1>8, <1>12, <1>14, <1>15, <2>1, <2>2 DEF BeingRead
<1>17. \/ reading' = NotReading /\ s.tcp_pbuf = NoPacket /\ ReadToEnd(packets'[p])
       \/ /\ reading' \in [phase : {"round", "handler", "check", "closing"}, tcp : Tcps, p : Nat \ {0}]
          /\ reading'.tcp = s.tcp /\ reading'.p = p /\ BeingRead(packets'[p], s, reading')
  BY <1>2, <1>8, <1>15, <1>16
<1>18. \A q \in DOMAIN packets' \ {p} : q \in DOMAIN packets /\ packets'[q] = packets[q]
  BY <1>13
<1>19. reading = NotReading \/ (reading.tcp = tcp_ssl_array[k].tcp /\ reading.p = p)
  BY <1>2
<1> HIDE DEF p
<1> QED BY <1>1, <1>8, <1>9, <1>13, <1>14, <1>17, <1>18, <1>19, ReadMoves

\* The loop goes on, or the packet is at its end.
LEMMA NextRound ==
  ASSUME TlsInv, SslReadNext
  PROVE  TlsInv'
<1>1. /\ writing = NotWriting /\ reading.phase \in {"handler", "check"}
      /\ UNCHANGED <<tcp_ssl_next_fd, tcp_ssl_has_client, contexts, writing>>
  BY DEF SslReadNext
<1>2. CASE LoopGoesOn(Session(reading.tcp))
  <2>1. reading' = [reading EXCEPT !.phase = "round"] /\ UNCHANGED <<tcp_ssl_array, packets>>
    BY <1>2 DEF SslReadNext
  <2>2. reading # NotReading
    BY <1>1 DEF NotReading
  <2>3. reading \in [phase : {"round", "handler", "check", "closing"}, tcp : Tcps, p : Nat \ {0}]
    BY <2>2, ReadFacts
  <2>4. /\ reading' \in [phase : {"round", "handler", "check", "closing"}, tcp : Tcps, p : Nat \ {0}]
        /\ reading'.tcp = reading.tcp /\ reading'.p = reading.p /\ reading'.phase = "round"
        /\ reading' # NotReading
    BY <2>1, <2>3 DEF NotReading
  <2>5. TlsTypeOK' /\ SessionsInv' /\ BooksInv' /\ WriteInv'
    BY <1>1, <2>1, <2>4 DEF TlsInv, TlsTypeOK, SessionsInv, BooksInv, OfType, WriteInv
  <2>6. PacketInv'
    BY <1>1, <2>1, <2>2, <2>4 DEF TlsInv, PacketInv, SslHas, BeingRead, ReadToEnd
  <2> QED BY <2>5, <2>6 DEF TlsInv
<1>3. CASE ~LoopGoesOn(Session(reading.tcp))
  <2> DEFINE failed == FALSE
  <2>1. LoopLeft(failed) /\ failed \in BOOLEAN
    BY <1>3 DEF SslReadNext
  <2> QED BY <1>1, <1>3, <2>1, LoopEnds
<1> QED BY <1>2, <1>3

\* ssl_read reports an error.
LEMMA ReadFails ==
  ASSUME TlsInv, SslReadError
  PROVE  TlsInv'
<1> DEFINE failed == TRUE
<1>1. /\ reading.phase = "round" /\ LoopLeft(failed) /\ failed \in BOOLEAN
      /\ UNCHANGED <<tcp_ssl_next_fd, tcp_ssl_has_client, contexts, writing>>
  BY DEF SslReadError
<1>2. writing = NotWriting
  BY <1>1 DEF TlsInv, WriteInv
<1> QED BY <1>1, <1>2, LoopEnds

\* until it returns.
LEMMA WriteReturned ==
  ASSUME TlsInv, SslWriteReturns
  PROVE  TlsInv'
BY DEF TlsInv, SslWriteReturns, TlsTypeOK, SessionsInv, BooksInv, OfType, PacketInv, BeingRead, ReadToEnd, SslHas,
       WriteInv

\* TlsInv holds at first.
LEMMA TlsStarts ==
  TlsInit => TlsInv
<1> SUFFICES ASSUME TlsInit PROVE TlsInv
  OBVIOUS
<1>1. DOMAIN tcp_ssl_array = {} /\ DOMAIN packets = {}
  BY DEF TlsInit
<1>2. TlsTypeOK
  <2>1. <<>> \in Seq(SslItem) /\ <<>> \in Seq(SslPacket) /\ 0 \in Nat /\ FALSE \in BOOLEAN
    OBVIOUS
  <2> QED BY <2>1 DEF TlsInit, TlsTypeOK
<1>3. OfType("client") = {}
  BY <1>1 DEF OfType
<1>4. Cardinality(OfType("client")) = 0
  BY <1>3, FS_EmptySet
<1> QED BY <1>1, <1>2, <1>4 DEF TlsInit, TlsInv, SessionsInv, BooksInv, PacketInv, WriteInv

\* TlsInv is inductive.
LEMMA TlsStays ==
  TlsInv /\ [TlsNext]_tlsVars => TlsInv'
<1> SUFFICES ASSUME TlsInv, [TlsNext]_tlsVars PROVE TlsInv'
  OBVIOUS
<1>1. ASSUME NEW tcp \in Tcps, NewClientSession(tcp) \/ NewServerSession(tcp) PROVE TlsInv'
  BY <1>1, SessionOpens
<1>2. ASSUME NEW tcp \in Tcps, NewSessionFails(tcp) PROVE TlsInv'
  BY <1>2, SessionFails
<1>3. ASSUME NEW tcp \in Tcps, SslFree(tcp) PROVE TlsInv'
  BY <1>3, SessionFreed
<1>4. ASSUME NEW tcp \in Tcps, SslReadBegins(tcp) PROVE TlsInv'
  BY <1>4, ReadBegun
<1>5. ASSUME NEW tcp \in Tcps, SslWrite(tcp) PROVE TlsInv'
  BY <1>5, WriteBegun
<1>6. ASSUME NEW sndbuf \in 1 .. WriteLen, PortWrite(sndbuf) PROVE TlsInv'
  BY <1>6, PortWritten
<1>7. ASSUME NEW n \in 0 .. TotLen, SslReadRound(n) PROVE TlsInv'
  BY <1>7, RoundRead
<1>8. CASE SslWriteReturns
  BY <1>8, WriteReturned
<1>9. CASE SslReadNext
  BY <1>9, NextRound
<1>10. CASE SslReadError
  BY <1>10, ReadFails
<1>11. CASE RecvCloses
  BY <1>11, SessionClosed
<1>12. CASE UNCHANGED tlsVars
  BY <1>12 DEF tlsVars, TlsInv, TlsTypeOK, SessionsInv, BooksInv, OfType, PacketInv, BeingRead, ReadToEnd, SslHas, WriteInv
<1> QED BY <1>1, <1>2, <1>3, <1>4, <1>5, <1>6, <1>7, <1>8, <1>9, <1>10, <1>11, <1>12 DEF TlsNext

\* The invariant says what the books promise.
LEMMA TlsInvKeeps ==
  TlsInv => TlsKept
<1> SUFFICES ASSUME TlsInv PROVE TlsKept
  OBVIOUS
<1>1. /\ TlsTypeOK /\ SessionsInv /\ BooksInv /\ PacketInv /\ WriteInv
      /\ tcp_ssl_array \in Seq(SslItem) /\ packets \in Seq(SslPacket)
  BY DEF TlsInv, TlsTypeOK
<1>2. ASSUME NEW p \in DOMAIN packets
      PROVE  /\ packets[p].freed + Cardinality(Holds(p)) = 1
             /\ packets[p].freed = 1 /\ ~packets[p].failed => packets[p].read = TotLen
  <2>1. p # NoPacket
    BY <1>1 DEF NoPacket
  <2>2. CASE ReadToEnd(packets[p]) /\ Holds(p) = {}
    <3>1. Cardinality(Holds(p)) = 0
      BY <2>2, FS_EmptySet
    <3> QED BY <2>2, <3>1 DEF ReadToEnd
  <2>3. CASE reading = NotReading \/ p # reading.p
    <3>1. ReadToEnd(packets[p])
      BY <1>1, <2>3 DEF PacketInv
    <3>2. ASSUME NEW i \in DOMAIN tcp_ssl_array, tcp_ssl_array[i].tcp_pbuf = p PROVE FALSE
      <4>1. reading # NotReading /\ tcp_ssl_array[i].tcp = reading.tcp
        BY <1>1, <2>1, <3>2 DEF PacketInv
      <4>2. BeingRead(packets[reading.p], tcp_ssl_array[i], reading)
        BY <1>1, <4>1 DEF PacketInv
      <4> QED BY <2>1, <2>3, <3>2, <4>1, <4>2 DEF BeingRead
    <3> QED BY <2>2, <3>1, <3>2 DEF Holds
  <2>4. CASE reading # NotReading /\ p = reading.p
    <3>1. PICK k \in DOMAIN tcp_ssl_array : /\ tcp_ssl_array[k].tcp = reading.tcp
                                            /\ BeingRead(packets[p], tcp_ssl_array[k], reading)
      BY <2>4, ReadFacts
    <3>2. \A i \in DOMAIN tcp_ssl_array : i # k => tcp_ssl_array[i].tcp_pbuf # p
      BY <1>1, <2>1, <3>1 DEF PacketInv, SessionsInv
    <3>3. CASE tcp_ssl_array[k].tcp_pbuf = p /\ packets[p].freed = 0
      <4>1. Holds(p) = {k}
        BY <3>2, <3>3 DEF Holds
      <4>2. Cardinality(Holds(p)) = 1
        BY <4>1, FS_Singleton
      <4> QED BY <3>3, <4>2
    <3>4. CASE tcp_ssl_array[k].tcp_pbuf = NoPacket /\ packets[p].freed = 1 /\ packets[p].failed
      <4>1. Holds(p) = {}
        BY <2>1, <3>2, <3>4 DEF Holds
      <4>2. Cardinality(Holds(p)) = 0
        BY <4>1, FS_EmptySet
      <4> QED BY <3>4, <4>2
    <3> QED BY <2>4, <3>1, <3>3, <3>4 DEF BeingRead
  <2> QED BY <2>3, <2>4
<1>3. SessionsDiffer
  BY <1>1 DEF SessionsInv, SessionsDiffer
<1>4. ContextsFollow
  BY <1>1 DEF BooksInv, ContextsFollow, OfType
<1>5. WriteCounts
  <2>1. SUFFICES ASSUME writing # NotWriting PROVE tcp_ssl_array[GetByFd(writing.fd)].last_wr = writing.taken
    BY DEF WriteCounts
  <2>2. PICK k \in DOMAIN tcp_ssl_array : tcp_ssl_array[k].fd = writing.fd /\ tcp_ssl_array[k].last_wr = writing.taken
    BY <1>1, <2>1 DEF WriteInv
  <2> QED BY <1>1, <2>2, SessionFound
<1> QED BY <1>2, <1>3, <1>4, <1>5 DEF TlsKept, PacketsOnce

\* For any connections, packet length, window and write: every packet is with
\* the one session that reads it or was freed once, and was read to its end
\* unless its read failed; numbers and connections of sessions differ; the
\* server flag and the contexts follow the sessions; a write counts what lwIP
\* took (tcp_axtls.c).
THEOREM TlsIsKept == TlsSpec => []TlsKept
<1>1. TlsInit => TlsInv
  BY TlsStarts
<1>2. TlsInv /\ [TlsNext]_tlsVars => TlsInv'
  BY TlsStays
<1>3. TlsInv => TlsKept
  BY TlsInvKeeps
<1> QED BY <1>1, <1>2, <1>3, PTL DEF TlsSpec

-----------------------------------------------------------------------------
(* Rows of sequences, one after the other: induction by a least counterexample.*)

\* Numbers have a least one.
LEMMA LeastNumber ==
  ASSUME NEW T \in SUBSET Nat, T # {}
  PROVE  \E m \in T : \A n \in T : m <= n
<1>1. PICK m \in T : \A n \in T : <<n, m>> \notin OpToRel(<, Nat)
  BY WFMin, NatLessThanWellFounded, Zenon
<1>2. \A n \in T : ~(n < m)
  BY <1>1, Zenon DEF OpToRel
<1> QED BY <1>2

\* What the sequences make up one after the other, up to each of the first n.
Piled(f, ss, n, S) ==
  /\ f \in [0 .. n -> Seq(S)]
  /\ f[0] = <<>>
  /\ \A i \in 1 .. n : f[i] = f[i - 1] \o ss[i]

\* One sequence more.
LEMMA PileGrows ==
  ASSUME NEW S, NEW ss \in Seq(Seq(S)), NEW n \in Nat, n < Len(ss), NEW f, Piled(f, ss, n, S)
  PROVE  \E g : Piled(g, ss, n + 1, S)
<1> DEFINE g == [i \in 0 .. n + 1 |-> IF i = n + 1 THEN f[n] \o ss[n + 1] ELSE f[i]]
<1>1. ss[n + 1] \in Seq(S)
  OBVIOUS
<1>2. f[n] \o ss[n + 1] \in Seq(S)
  <2>1. f[n] \in Seq(S)
    BY DEF Piled
  <2> QED BY <1>1, <2>1, ConcatProperties
<1>3. \A i \in 0 .. n + 1 : g[i] \in Seq(S)
  BY <1>2 DEF Piled
<1>4. g \in [0 .. n + 1 -> Seq(S)]
  BY <1>3
<1>5. g[0] = <<>>
  BY DEF Piled
<1>6. \A i \in 1 .. n + 1 : g[i] = g[i - 1] \o ss[i]
  <2>1. TAKE i \in 1 .. n + 1
  <2>2. i - 1 \in 0 .. n + 1 /\ i - 1 # n + 1 /\ g[i - 1] = f[i - 1]
    OBVIOUS
  <2>3. CASE i = n + 1
    <3>1. i - 1 = n
      BY <2>3
    <3>a. n + 1 \in 0 .. n + 1
      OBVIOUS
    <3>2. g[n + 1] = f[n] \o ss[n + 1]
      BY <3>a, Zenon
    <3> HIDE DEF g
    <3> QED BY <2>2, <2>3, <3>1, <3>2
  <2>4. CASE i # n + 1
    <3>1. i \in 1 .. n /\ g[i] = f[i]
      BY <2>4
    <3>2. f[i] = f[i - 1] \o ss[i]
      BY <3>1 DEF Piled
    <3> HIDE DEF g
    <3> QED BY <2>2, <3>1, <3>2
  <2> QED BY <2>3, <2>4
<1>7. Piled(g, ss, n + 1, S)
  BY <1>4, <1>5, <1>6 DEF Piled
<1> QED BY <1>7

\* There is such a pile,
LEMMA PileThere ==
  ASSUME NEW S, NEW ss \in Seq(Seq(S))
  PROVE  \E f : Piled(f, ss, Len(ss), S)
<1> DEFINE T == {n \in 0 .. Len(ss) : ~ \E f : Piled(f, ss, n, S)}
<1>0. Len(ss) \in Nat
  OBVIOUS
<1>1. SUFFICES ASSUME T # {} PROVE FALSE
  BY <1>0
<1>2. PICK m \in T : \A n \in T : m <= n
  <2>1. T \in SUBSET Nat
    BY <1>0
  <2> HIDE DEF T
  <2> QED BY <1>1, <2>1, LeastNumber
<1>3. Piled([i \in 0 .. 0 |-> <<>>], ss, 0, S)
  BY DEF Piled
<1>4. m # 0
  BY <1>3
<1>a. m \in 0 .. Len(ss)
  BY <1>2
<1>b. m - 1 \notin T
  <2> HIDE DEF T
  <2>1. ~(m <= m - 1)
    BY <1>a
  <2> QED BY <1>2, <2>1
<1>5. m - 1 \in 0 .. Len(ss) /\ m - 1 \in Nat /\ m - 1 < Len(ss) /\ m - 1 + 1 = m
  BY <1>0, <1>a, <1>4
<1>6. PICK f : Piled(f, ss, m - 1, S)
  BY <1>5, <1>b
<1>7. \E g : Piled(g, ss, m - 1 + 1, S)
  BY <1>5, <1>6, PileGrows
<1> QED BY <1>5, <1>7

Flattens(f, ss) == f = [i \in 1 .. Len(ss) |-> IF i = 1 THEN ss[i] ELSE f[i - 1] \o ss[i]]

\* FlattenSeq reads its end off a function that meets its recursion, if there is one,
LEMMA FlattenIs ==
    ASSUME NEW ss, Len(ss) # 0, NEW f, Flattens(f, ss)
    PROVE  \E g : Flattens(g, ss) /\ FlattenSeq(ss) = g[Len(ss)]
<1> DEFINE P(g) == g = [i \in 1 .. Len(ss) |-> IF i = 1 THEN ss[i] ELSE g[i - 1] \o ss[i]]
<1> DEFINE g == CHOOSE h : P(h)
<1>1. P(f) BY DEF Flattens
<1>2. P(g) BY <1>1, Zenon
<1>3. FlattenSeq(ss) = g[Len(ss)] BY Zenon DEF FlattenSeq
<1>4. Flattens(g, ss) BY <1>2, Zenon DEF Flattens
<1> QED BY <1>3, <1>4

\* and there is only one: the pile.
LEMMA FlattenPiled ==
  ASSUME NEW S, NEW ss \in Seq(Seq(S)), NEW f, Piled(f, ss, Len(ss), S)
  PROVE  FlattenSeq(ss) = f[Len(ss)] /\ FlattenSeq(ss) \in Seq(S)
<1>0. Len(ss) \in Nat /\ f[Len(ss)] \in Seq(S)
  BY DEF Piled
<1>1. CASE Len(ss) = 0
  <2>1. ss = <<>>
    BY <1>1
  <2> QED BY <1>0, <1>1, <2>1 DEF FlattenSeq, Piled
<1>2. CASE Len(ss) # 0
  <2> DEFINE h == [i \in 1 .. Len(ss) |-> f[i]]
  <2>1. \A i \in 1 .. Len(ss) : h[i] = IF i = 1 THEN ss[i] ELSE h[i - 1] \o ss[i]
    <3>1. TAKE i \in 1 .. Len(ss)
    <3>2. f[i] = f[i - 1] \o ss[i] /\ f[0] = <<>> /\ ss[i] \in Seq(S)
      BY DEF Piled
    <3>3. CASE i = 1
      <4>1. <<>> \o ss[1] = ss[1]
        BY <3>2, <3>3, ConcatEmptySeq
      <4>a. i - 1 = 0
        BY <3>3
      <4>2. f[1] = ss[1]
        BY <3>2, <3>3, <4>1, <4>a, Zenon
      <4>3. h[1] = f[1]
        BY <3>1, <3>3
      <4> HIDE DEF h
      <4> QED BY <3>3, <4>2, <4>3
    <3>4. CASE i # 1
      <4>1. i - 1 \in 1 .. Len(ss) /\ h[i] = f[i] /\ h[i - 1] = f[i - 1]
        BY <1>0, <3>1, <3>4
      <4> QED BY <3>2, <3>4, <4>1
    <3> QED BY <3>3, <3>4
  <2>2. Flattens(h, ss)
    BY <2>1 DEF Flattens
  <2>a. h[Len(ss)] = f[Len(ss)]
    BY <1>0, <1>2
  <2> HIDE DEF h
  <2>3. PICK g : Flattens(g, ss) /\ FlattenSeq(ss) = g[Len(ss)]
    BY <1>2, <2>2, FlattenIs
  <2> DEFINE T == {n \in 1 .. Len(ss) : g[n] # h[n]}
  <2>b. Len(ss) \in 1 .. Len(ss)
    BY <1>0, <1>2
  <2>4. SUFFICES ASSUME T # {} PROVE FALSE
    BY <1>0, <2>3, <2>a, <2>b, Zenon
  <2>5. PICK m \in T : \A n \in T : m <= n
    <3>1. T \in SUBSET Nat
      BY <1>0
    <3> HIDE DEF T
    <3> QED BY <2>4, <3>1, LeastNumber
  <2>6. m \in 1 .. Len(ss) /\ g[m] # h[m]
    BY <2>5
  <2>7. /\ g[m] = IF m = 1 THEN ss[m] ELSE g[m - 1] \o ss[m]
        /\ h[m] = IF m = 1 THEN ss[m] ELSE h[m - 1] \o ss[m]
    BY <2>2, <2>3, <2>6, Zenon DEF Flattens
  <2>8. m # 1 => m - 1 \in 1 .. Len(ss) /\ m - 1 \notin T
    BY <1>0, <2>5, <2>6
  <2> QED BY <2>6, <2>7, <2>8
<1> QED BY <1>1, <1>2

\* Two rows of sequences make up one after the other what they make up together.
LEMMA FlattenConcat ==
  ASSUME NEW S, NEW a \in Seq(Seq(S)), NEW b \in Seq(Seq(S))
  PROVE  /\ FlattenSeq(a \o b) = FlattenSeq(a) \o FlattenSeq(b)
         /\ FlattenSeq(a) \in Seq(S) /\ FlattenSeq(b) \in Seq(S)
<1>0. Len(a) \in Nat /\ Len(b) \in Nat
  OBVIOUS
<1>a. (\A i \in 1 .. Len(a) : a[i] \in Seq(S)) /\ (\A i \in 1 .. Len(b) : b[i] \in Seq(S))
  OBVIOUS
<1>1. PICK f : Piled(f, a, Len(a), S)
  BY PileThere
<1>2. PICK g : Piled(g, b, Len(b), S)
  BY PileThere
<1>3. /\ FlattenSeq(a) = f[Len(a)] /\ FlattenSeq(a) \in Seq(S)
      /\ FlattenSeq(b) = g[Len(b)] /\ FlattenSeq(b) \in Seq(S)
  BY <1>1, <1>2, FlattenPiled
<1> DEFINE n == Len(a) + Len(b)
           h == [i \in 0 .. n |-> IF i <= Len(a) THEN f[i] ELSE f[Len(a)] \o g[i - Len(a)]]
<1>4. /\ a \o b \in Seq(Seq(S)) /\ Len(a \o b) = n
      /\ \A i \in 1 .. n : (a \o b)[i] = IF i <= Len(a) THEN a[i] ELSE b[i - Len(a)]
  BY ConcatProperties
<1>5. \A i \in 0 .. n : i > Len(a) => i - Len(a) \in 1 .. Len(b)
  BY <1>0
<1>6. \A i \in 0 .. n : i <= Len(a) => h[i] = f[i] /\ h[i] \in Seq(S)
  BY <1>0, <1>1 DEF Piled
<1>7. \A i \in 0 .. n : i > Len(a) => h[i] = f[Len(a)] \o g[i - Len(a)] /\ h[i] \in Seq(S)
  <2>1. TAKE i \in 0 .. n
  <2>2. HAVE i > Len(a)
  <2>3. i - Len(a) \in 0 .. Len(b)
    BY <1>0, <2>2
  <2>4. f[Len(a)] \in Seq(S) /\ g[i - Len(a)] \in Seq(S)
    BY <1>2, <1>3, <2>3 DEF Piled
  <2>5. f[Len(a)] \o g[i - Len(a)] \in Seq(S)
    BY <2>4, ConcatProperties
  <2>6. ~(i <= Len(a))
    BY <1>0, <2>2
  <2>7. h[i] = f[Len(a)] \o g[i - Len(a)]
    BY <2>1, <2>6, Zenon
  <2> QED BY <2>5, <2>7
<1>8. h \in [0 .. n -> Seq(S)]
  <2>1. \A i \in 0 .. n : i <= Len(a) \/ i > Len(a)
    BY <1>0
  <2>2. \A i \in 0 .. n : h[i] \in Seq(S)
    BY <1>6, <1>7, <2>1, Zenon
  <2> QED BY <2>2
<1> HIDE DEF h
<1>9. h[0] = <<>>
  BY <1>0, <1>1, <1>6 DEF Piled
<1>10. \A i \in 1 .. n : h[i] = h[i - 1] \o (a \o b)[i]
  <2>1. TAKE i \in 1 .. n
  <2>0. i \in 0 .. n /\ i - 1 \in 0 .. n
    BY <1>0
  <2>2. CASE i <= Len(a)
    <3>1. i \in 1 .. Len(a) /\ i - 1 <= Len(a)
      BY <1>0, <2>2
    <3>2. f[i] = f[i - 1] \o a[i]
      BY <1>1, <3>1 DEF Piled
    <3>3. h[i] = f[i] /\ h[i - 1] = f[i - 1]
      BY <1>6, <2>0, <2>2, <3>1, Zenon
    <3>4. (a \o b)[i] = a[i]
      BY <1>4, <2>2
    <3> QED BY <3>2, <3>3, <3>4
  <2>3. CASE i = Len(a) + 1
    <3>1. i - 1 = Len(a) /\ i - Len(a) = 1 /\ 1 \in 1 .. Len(b) /\ i > Len(a) /\ ~(i <= Len(a))
          /\ Len(a) <= Len(a) /\ 1 - 1 = 0
      BY <1>0, <2>3
    <3>2. g[1] = g[1 - 1] \o b[1] /\ g[0] = <<>> /\ b[1] \in Seq(S)
      BY <1>2, <1>a, <3>1, Zenon DEF Piled
    <3>3. h[i - 1] = f[Len(a)]
      BY <1>6, <2>0, <3>1, Zenon
    <3>4. h[i] = f[Len(a)] \o g[1]
      BY <1>7, <2>0, <3>1, Zenon
    <3>5. (a \o b)[i] = b[1]
      BY <1>4, <3>1, Zenon
    <3>6. g[1] = b[1]
      <4>1. <<>> \o b[1] = b[1]
        BY <3>2, ConcatEmptySeq
      <4> QED BY <3>1, <3>2, <4>1, Zenon
    <3> QED BY <3>3, <3>4, <3>5, <3>6, Zenon
  <2>4. CASE i > Len(a) + 1
    <3> DEFINE k == i - Len(a)
    <3>1. /\ k \in 1 .. Len(b) /\ k - 1 \in 0 .. Len(b) /\ i > Len(a) /\ ~(i <= Len(a)) /\ i - 1 > Len(a)
          /\ i - 1 - Len(a) = k - 1
      BY <1>0, <2>4
    <3>2. g[k] = g[k - 1] \o b[k] /\ g[k - 1] \in Seq(S) /\ b[k] \in Seq(S) /\ f[Len(a)] \in Seq(S)
      <4> HIDE DEF k
      <4>1. g[k] = g[k - 1] \o b[k]
        BY <1>2, <3>1, Zenon DEF Piled
      <4>2. g[k - 1] \in Seq(S) /\ f[Len(a)] \in Seq(S)
        BY <1>2, <1>3, <3>1 DEF Piled
      <4> QED BY <1>a, <3>1, <4>1, <4>2, Zenon
    <3>3. h[i] = f[Len(a)] \o g[k]
      BY <1>7, <2>0, <3>1, Zenon
    <3>4. h[i - 1] = f[Len(a)] \o g[k - 1]
      <4>1. h[i - 1] = f[Len(a)] \o g[i - 1 - Len(a)]
        BY <1>7, <2>0, <3>1, Zenon
      <4> QED BY <3>1, <4>1
    <3>5. (a \o b)[i] = b[k]
      BY <1>4, <3>1, Zenon
    <3> HIDE DEF k
    <3>6. \A x, y, z \in Seq(S) : (x \o y) \o z = x \o (y \o z)
      BY ConcatAssociative
    <3>7. (f[Len(a)] \o g[k - 1]) \o b[k] = f[Len(a)] \o (g[k - 1] \o b[k])
      BY <3>2, <3>6, Zenon
    <3>8. h[i - 1] \o (a \o b)[i] = (f[Len(a)] \o g[k - 1]) \o b[k]
      BY <3>4, <3>5, Zenon
    <3>9. h[i] = f[Len(a)] \o (g[k - 1] \o b[k])
      BY <3>2, <3>3, Zenon
    <3> QED BY <3>7, <3>8, <3>9, Zenon
  <2>5. i <= Len(a) \/ i = Len(a) + 1 \/ i > Len(a) + 1
    BY <1>0
  <2> QED BY <2>2, <2>3, <2>4, <2>5, Zenon
<1>11. Piled(h, a \o b, Len(a \o b), S)
  BY <1>4, <1>8, <1>9, <1>10, Zenon DEF Piled
<1>12. FlattenSeq(a \o b) = h[n]
  BY <1>4, <1>11, FlattenPiled
<1>13. h[n] = f[Len(a)] \o g[Len(b)]
  <2>1. CASE Len(b) = 0
    <3>1. g[Len(b)] = <<>> /\ n = Len(a) /\ n \in 0 .. n /\ n <= Len(a)
      BY <1>0, <1>2, <2>1 DEF Piled
    <3>2. f[Len(a)] \o <<>> = f[Len(a)]
      BY <1>3, ConcatEmptySeq
    <3>3. h[n] = f[n]
      BY <1>6, <3>1, Zenon
    <3> HIDE DEF n
    <3> QED BY <3>1, <3>2, <3>3, Zenon
  <2>2. CASE Len(b) # 0
    <3>1. n - Len(a) = Len(b) /\ n \in 0 .. n /\ n > Len(a)
      BY <1>0, <2>2
    <3>2. h[n] = f[Len(a)] \o g[n - Len(a)]
      BY <1>7, <3>1, Zenon
    <3> HIDE DEF n
    <3> QED BY <3>1, <3>2
  <2> QED BY <2>1, <2>2
<1> QED BY <1>3, <1>12, <1>13

\* A row of one sequence, and of none.
LEMMA FlattenOne ==
  ASSUME NEW S, NEW s \in Seq(S)
  PROVE  FlattenSeq(<<s>>) = s /\ FlattenSeq(<<>>) = <<>>
<1>1. <<s>> \in Seq(Seq(S)) /\ Len(<<s>>) = 1 /\ <<s>>[1] = s /\ Len(<<>>) = 0
  OBVIOUS
<1> DEFINE f == [i \in 0 .. 1 |-> IF i = 0 THEN <<>> ELSE s]
<1>2. f \in [0 .. 1 -> Seq(S)] /\ f[0] = <<>> /\ f[1] = s
  OBVIOUS
<1>3. <<>> \o s = s
  BY ConcatEmptySeq
<1> HIDE DEF f
<1>4. \A i \in 1 .. 1 : f[i] = f[i - 1] \o <<s>>[i]
  <2>1. TAKE i \in 1 .. 1
  <2>2. i = 1 /\ i - 1 = 0
    BY <2>1
  <2> QED BY <1>1, <1>2, <1>3, <2>2, Zenon
<1>5. Piled(f, <<s>>, Len(<<s>>), S)
  BY <1>1, <1>2, <1>4, Zenon DEF Piled
<1>6. FlattenSeq(<<s>>) = f[1]
  BY <1>1, <1>5, FlattenPiled
<1>7. FlattenSeq(<<>>) = <<>>
  BY <1>1 DEF FlattenSeq
<1> QED BY <1>2, <1>6, <1>7

-----------------------------------------------------------------------------
(* The size of a row of chunks.                                            *)

\* A chunk: what is left of it, and its size.
Chunk == [left : Seq(Nat), size : Nat]

\* What a row of chunks holds is a chunk, with its size and its bytes.
LEMMA ChunkAt ==
  ASSUME NEW cs \in Seq(Chunk), NEW i \in 1 .. Len(cs)
  PROVE  cs[i] \in Chunk /\ cs[i].size \in Nat /\ cs[i].left \in Seq(Nat)
<1>1. cs[i] \in Chunk
  BY ElementOfSeq
<1> QED BY <1>1 DEF Chunk

\* The sizes of the first chunks, up to each of the first n.
Summed(f, cs, n) ==
  /\ f \in [0 .. n -> Nat]
  /\ f[0] = 0
  /\ \A i \in 1 .. n : f[i] = f[i - 1] + cs[i].size

\* One chunk more.
LEMMA SumGrows ==
  ASSUME NEW cs \in Seq(Chunk), NEW n \in Nat, n < Len(cs), NEW f, Summed(f, cs, n)
  PROVE  \E g : Summed(g, cs, n + 1)
<1> DEFINE g == [i \in 0 .. n + 1 |-> IF i = n + 1 THEN f[n] + cs[n + 1].size ELSE f[i]]
<1>1. cs[n + 1].size \in Nat
  <2>1. n + 1 \in 1 .. Len(cs)
    OBVIOUS
  <2> QED BY <2>1, ChunkAt
<1>2. f[n] + cs[n + 1].size \in Nat
  BY <1>1 DEF Summed
<1>3. \A i \in 0 .. n + 1 : g[i] \in Nat
  BY <1>2 DEF Summed
<1>4. g \in [0 .. n + 1 -> Nat]
  BY <1>3
<1>5. g[0] = 0
  BY DEF Summed
<1>6. \A i \in 1 .. n + 1 : g[i] = g[i - 1] + cs[i].size
  <2>1. TAKE i \in 1 .. n + 1
  <2>2. i - 1 \in 0 .. n + 1 /\ i - 1 # n + 1 /\ g[i - 1] = f[i - 1]
    OBVIOUS
  <2>3. CASE i = n + 1
    <3>1. i - 1 = n
      BY <2>3
    <3>a. n + 1 \in 0 .. n + 1
      OBVIOUS
    <3>2. g[n + 1] = f[n] + cs[n + 1].size
      BY <3>a, Zenon
    <3> HIDE DEF g
    <3> QED BY <2>2, <2>3, <3>1, <3>2
  <2>4. CASE i # n + 1
    <3>1. i \in 1 .. n /\ g[i] = f[i]
      BY <2>4
    <3>2. f[i] = f[i - 1] + cs[i].size
      BY <3>1 DEF Summed
    <3> HIDE DEF g
    <3> QED BY <2>2, <3>1, <3>2
  <2> QED BY <2>3, <2>4
<1>7. Summed(g, cs, n + 1)
  BY <1>4, <1>5, <1>6 DEF Summed
<1> QED BY <1>7

\* There are such sums,
LEMMA SumThere ==
  ASSUME NEW cs \in Seq(Chunk)
  PROVE  \E f : Summed(f, cs, Len(cs))
<1> DEFINE T == {n \in 0 .. Len(cs) : ~ \E f : Summed(f, cs, n)}
<1>0. Len(cs) \in Nat
  OBVIOUS
<1>1. SUFFICES ASSUME T # {} PROVE FALSE
  BY <1>0
<1>2. PICK m \in T : \A n \in T : m <= n
  <2>1. T \in SUBSET Nat
    BY <1>0
  <2> HIDE DEF T
  <2> QED BY <1>1, <2>1, LeastNumber
<1>3. Summed([i \in 0 .. 0 |-> 0], cs, 0)
  BY DEF Summed
<1>4. m # 0
  BY <1>3
<1>a. m \in 0 .. Len(cs)
  BY <1>2
<1>b. m - 1 \notin T
  <2> HIDE DEF T
  <2>1. ~(m <= m - 1)
    BY <1>a
  <2> QED BY <1>2, <2>1
<1>5. m - 1 \in 0 .. Len(cs) /\ m - 1 \in Nat /\ m - 1 < Len(cs) /\ m - 1 + 1 = m
  BY <1>0, <1>a, <1>4
<1>6. PICK f : Summed(f, cs, m - 1)
  BY <1>5, <1>b
<1>7. \E g : Summed(g, cs, m - 1 + 1)
  BY <1>5, <1>6, SumGrows
<1> QED BY <1>5, <1>7

\* and they are what SizeOf computes.
LEMMA SizeSummed ==
  ASSUME NEW cs \in Seq(Chunk), NEW f, Summed(f, cs, Len(cs))
  PROVE  SizeOf(cs) = f[Len(cs)] /\ SizeOf(cs) \in Nat
<1> DEFINE P(g) == g = [i \in 0 .. Len(cs) |-> IF i = 0 THEN 0 ELSE g[i - 1] + cs[i].size]
           g == CHOOSE h : P(h)
<1>0. Len(cs) \in Nat
  OBVIOUS
<1>1. P(f)
  <2>1. f \in [0 .. Len(cs) -> Nat] /\ f[0] = 0
    BY DEF Summed
  <2>2. \A i \in 0 .. Len(cs) : f[i] = IF i = 0 THEN 0 ELSE f[i - 1] + cs[i].size
    BY <1>0 DEF Summed
  <2> QED BY <2>1, <2>2
<1>2. P(g)
  BY <1>1, Zenon
<1>3. SizeOf(cs) = g[Len(cs)]
  BY Zenon DEF SizeOf
<1> HIDE DEF g
<1> DEFINE T == {n \in 0 .. Len(cs) : g[n] # f[n]}
<1>b. Len(cs) \in 0 .. Len(cs) /\ f[Len(cs)] \in Nat
  BY <1>0 DEF Summed
<1>4. SUFFICES ASSUME T # {} PROVE FALSE
  BY <1>3, <1>b, Zenon
<1>5. PICK m \in T : \A n \in T : m <= n
  <2>1. T \in SUBSET Nat
    BY <1>0
  <2> HIDE DEF T
  <2> QED BY <1>4, <2>1, LeastNumber
<1>6. m \in 0 .. Len(cs) /\ g[m] # f[m]
  BY <1>5
<1>7. /\ g[m] = IF m = 0 THEN 0 ELSE g[m - 1] + cs[m].size
      /\ f[m] = IF m = 0 THEN 0 ELSE f[m - 1] + cs[m].size
  BY <1>1, <1>2, <1>6, Zenon
<1>8. m # 0 => m - 1 \in 0 .. Len(cs) /\ m - 1 \notin T
  <2>1. m # 0 => m - 1 \in 0 .. Len(cs) /\ ~(m <= m - 1)
    BY <1>0, <1>6
  <2> HIDE DEF T
  <2> QED BY <1>5, <2>1, Zenon
<1> QED BY <1>6, <1>7, <1>8

\* The size of two rows of chunks is that of one and the other.
LEMMA SizeConcat ==
  ASSUME NEW a \in Seq(Chunk), NEW b \in Seq(Chunk)
  PROVE  /\ SizeOf(a \o b) = SizeOf(a) + SizeOf(b)
         /\ SizeOf(a) \in Nat /\ SizeOf(b) \in Nat
<1>0. Len(a) \in Nat /\ Len(b) \in Nat
  OBVIOUS
<1>1. PICK f : Summed(f, a, Len(a))
  BY SumThere
<1>2. PICK g : Summed(g, b, Len(b))
  BY SumThere
<1>3. /\ SizeOf(a) = f[Len(a)] /\ SizeOf(a) \in Nat
      /\ SizeOf(b) = g[Len(b)] /\ SizeOf(b) \in Nat
  BY <1>1, <1>2, SizeSummed
<1> DEFINE n == Len(a) + Len(b)
           h == [i \in 0 .. n |-> IF i <= Len(a) THEN f[i] ELSE f[Len(a)] + g[i - Len(a)]]
<1>4. /\ a \o b \in Seq(Chunk) /\ Len(a \o b) = n
      /\ \A i \in 1 .. n : (a \o b)[i] = IF i <= Len(a) THEN a[i] ELSE b[i - Len(a)]
  BY ConcatProperties
<1>5. /\ f[0] = 0 /\ \A i \in 0 .. Len(a) : f[i] \in Nat
      /\ \A i \in 1 .. Len(a) : f[i] = f[i - 1] + a[i].size
  BY <1>1 DEF Summed
<1>6. /\ g[0] = 0 /\ \A i \in 0 .. Len(b) : g[i] \in Nat
      /\ \A i \in 1 .. Len(b) : g[i] = g[i - 1] + b[i].size
  BY <1>2 DEF Summed
<1>7. /\ \A i \in 1 .. Len(a) : a[i].size \in Nat
      /\ \A i \in 1 .. Len(b) : b[i].size \in Nat
  BY ChunkAt
<1>8. Summed(h, a \o b, n)
  <2>1. \A i \in 0 .. n : h[i] \in Nat
    <3>1. TAKE i \in 0 .. n
    <3>2. CASE i <= Len(a)
      <4>1. i \in 0 .. Len(a) /\ h[i] = f[i]
        BY <1>0, <3>2
      <4> QED BY <1>5, <4>1
    <3>3. CASE ~(i <= Len(a))
      <4>1. i - Len(a) \in 0 .. Len(b) /\ Len(a) \in 0 .. Len(a)
        BY <1>0, <3>3
      <4>2. h[i] = f[Len(a)] + g[i - Len(a)]
        BY <3>3
      <4> QED BY <1>5, <1>6, <4>1, <4>2
    <3> QED BY <3>2, <3>3
  <2>2. h \in [0 .. n -> Nat]
    BY <2>1
  <2>3. h[0] = 0
    BY <1>0, <1>5
  <2>4. ASSUME NEW i \in 1 .. n PROVE h[i] = h[i - 1] + (a \o b)[i].size
    <3>1. CASE i <= Len(a)
      <4>1. i \in 1 .. Len(a) /\ i - 1 <= Len(a) /\ i \in 0 .. n /\ i - 1 \in 0 .. n
        BY <1>0, <3>1
      <4>2. h[i] = f[i] /\ h[i - 1] = f[i - 1] /\ (a \o b)[i] = a[i]
        BY <1>4, <3>1, <4>1, Zenon
      <4> QED BY <1>5, <4>1, <4>2
    <3>2. CASE i > Len(a)
      <4> DEFINE k == i - Len(a)
      <4>1. /\ k \in 1 .. Len(b) /\ k - 1 \in 0 .. Len(b) /\ i \in 0 .. n /\ i - 1 \in 0 .. n
            /\ ~(i <= Len(a)) /\ i - 1 - Len(a) = k - 1
            /\ Len(a) \in 0 .. Len(a)
        BY <1>0, <3>2
      <4>2. h[i] = f[Len(a)] + g[k] /\ (a \o b)[i] = b[k]
        BY <1>4, <3>2, <4>1, Zenon
      <4>3. h[i - 1] = f[Len(a)] + g[k - 1]
        <5>1. CASE i - 1 <= Len(a)
          <6>1. i - 1 = Len(a) /\ k - 1 = 0
            BY <1>0, <3>2, <5>1
          <6>2. h[i - 1] = f[i - 1]
            BY <4>1, <5>1, Zenon
          <6> QED BY <1>5, <1>6, <4>1, <6>1, <6>2
        <5>2. CASE ~(i - 1 <= Len(a))
          <6>1. h[i - 1] = f[Len(a)] + g[i - 1 - Len(a)]
            BY <4>1, <5>2, Zenon
          <6> QED BY <4>1, <6>1
        <5> QED BY <5>1, <5>2
      <4>4. g[k] = g[k - 1] + b[k].size /\ g[k - 1] \in Nat /\ f[Len(a)] \in Nat /\ b[k].size \in Nat
        BY <1>5, <1>6, <1>7, <4>1
      <4> HIDE DEF k, h, n
      <4> QED BY <4>2, <4>3, <4>4
    <3> QED BY <1>0, <3>1, <3>2
  <2> HIDE DEF h, n
  <2> QED BY <2>2, <2>3, <2>4 DEF Summed
<1>9. h[n] = f[Len(a)] + g[Len(b)]
  BY <1>0, <1>3, <1>6
<1>10. SizeOf(a \o b) = h[n]
  BY <1>4, <1>8, SizeSummed
<1> QED BY <1>3, <1>9, <1>10

\* The size is that of the chunks, whatever is left of them.
LEMMA SizeSame ==
  ASSUME NEW a \in Seq(Chunk), NEW b \in Seq(Chunk), Len(a) = Len(b),
         \A i \in 1 .. Len(a) : a[i].size = b[i].size
  PROVE  SizeOf(a) = SizeOf(b) /\ SizeOf(a) \in Nat
<1>1. PICK f : Summed(f, a, Len(a))
  BY SumThere
<1>2. Summed(f, b, Len(b))
  BY <1>1 DEF Summed
<1> QED BY <1>1, <1>2, SizeSummed

\* A row of one chunk, and of none.
LEMMA SizeOne ==
  ASSUME NEW c \in Chunk
  PROVE  SizeOf(<<c>>) = c.size /\ SizeOf(<<>>) = 0
<1>1. /\ <<c>> \in Seq(Chunk) /\ Len(<<c>>) = 1 /\ <<c>>[1] = c
      /\ <<>> \in Seq(Chunk) /\ Len(<<>>) = 0 /\ c.size \in Nat
  BY DEF Chunk
<1> DEFINE f == [i \in 0 .. 1 |-> IF i = 0 THEN 0 ELSE c.size]
<1>2. Summed(f, <<c>>, 1)
  BY <1>1 DEF Summed
<1>3. Summed([i \in 0 .. 0 |-> 0], <<>>, 0)
  BY DEF Summed
<1>4. SizeOf(<<c>>) = f[1]
  BY <1>1, <1>2, SizeSummed
<1>5. SizeOf(<<>>) = 0
  <2>1. SizeOf(<<>>) = [i \in 0 .. 0 |-> 0][0]
    BY <1>1, <1>3, SizeSummed
  <2> QED BY <2>1
<1> QED BY <1>4, <1>5

-----------------------------------------------------------------------------
(* The first n bytes, and sequences in two.                                *)

\* The first n bytes.
Numbers(n) == [i \in 1 .. n |-> i]

\* After the first m bytes come the next n.
LEMMA NumbersGrow ==
  ASSUME NEW m \in Nat, NEW n \in Nat
  PROVE  /\ Numbers(m + n) = Numbers(m) \o [i \in 1 .. n |-> m + i]
         /\ Numbers(m) \in Seq(Nat) /\ [i \in 1 .. n |-> m + i] \in Seq(Nat)
         /\ Len([i \in 1 .. n |-> m + i]) = n
<1> DEFINE a == Numbers(m)
           b == [i \in 1 .. n |-> m + i]
<1>1. /\ a \in Seq(Nat) /\ Len(a) = m /\ \A i \in 1 .. m : a[i] = i
      /\ b \in Seq(Nat) /\ Len(b) = n /\ \A i \in 1 .. n : b[i] = m + i
      /\ Numbers(m + n) \in Seq(Nat) /\ Len(Numbers(m + n)) = m + n
      /\ \A i \in 1 .. m + n : Numbers(m + n)[i] = i
  BY DEF Numbers
<1> HIDE DEF a, b
<1>2. /\ a \o b \in Seq(Nat) /\ Len(a \o b) = m + n
      /\ \A i \in 1 .. m + n : (a \o b)[i] = IF i <= m THEN a[i] ELSE b[i - m]
  <2>1. /\ a \o b \in Seq(Nat) /\ Len(a \o b) = Len(a) + Len(b)
        /\ \A i \in 1 .. Len(a) + Len(b) : (a \o b)[i] = IF i <= Len(a) THEN a[i] ELSE b[i - Len(a)]
    BY <1>1, ConcatProperties
  <2> QED BY <1>1, <2>1
<1>3. \A i \in 1 .. m + n : (a \o b)[i] = i
  <2>1. TAKE i \in 1 .. m + n
  <2>2. CASE i <= m
    BY <1>1, <1>2, <2>2
  <2>3. CASE ~(i <= m)
    <3>1. i - m \in 1 .. n /\ m + (i - m) = i
      BY <2>3
    <3>2. (a \o b)[i] = b[i - m]
      BY <1>2, <2>3
    <3>3. b[i - m] = m + (i - m)
      BY <1>1, <3>1
    <3> QED BY <3>1, <3>2, <3>3
  <2> QED BY <2>2, <2>3
<1>4. Numbers(m + n) = a \o b
  BY <1>1, <1>2, <1>3, SeqEqual
<1> QED BY <1>1, <1>4 DEF a, b

\* A sequence is its head and its tail, and all but the last and the last.
LEMMA SplitFirst ==
  ASSUME NEW T, NEW q \in Seq(T), q # <<>>, NEW e \in T
  PROVE  /\ q = <<q[1]>> \o Tail(q) /\ [q EXCEPT ![1] = e] = <<e>> \o Tail(q)
         /\ [q EXCEPT ![1] = e] \in Seq(T)
         /\ q[1] \in T /\ Tail(q) \in Seq(T) /\ Head(q) = q[1]
         /\ Len(q) \in Nat \ {0} /\ Len(Tail(q)) = Len(q) - 1
         /\ \A i \in 1 .. Len(q) - 1 : Tail(q)[i] = q[i + 1]
         /\ Len([q EXCEPT ![1] = e]) = Len(q)
         /\ \A i \in 1 .. Len(q) : [q EXCEPT ![1] = e][i] = IF i = 1 THEN e ELSE q[i]
<1>1. /\ q[1] \in T /\ Tail(q) \in Seq(T) /\ Head(q) = q[1]
      /\ Len(q) \in Nat \ {0} /\ Len(Tail(q)) = Len(q) - 1
      /\ \A i \in 1 .. Len(q) - 1 : Tail(q)[i] = q[i + 1]
  OBVIOUS
<1>2. ASSUME NEW x \in T
      PROVE  /\ <<x>> \o Tail(q) \in Seq(T) /\ Len(<<x>> \o Tail(q)) = Len(q)
             /\ \A i \in 1 .. Len(q) : (<<x>> \o Tail(q))[i] = IF i = 1 THEN x ELSE q[i]
  <2>1. <<x>> \in Seq(T) /\ Len(<<x>>) = 1 /\ <<x>>[1] = x
    OBVIOUS
  <2>2. /\ <<x>> \o Tail(q) \in Seq(T) /\ Len(<<x>> \o Tail(q)) = Len(<<x>>) + Len(Tail(q))
        /\ \A i \in 1 .. Len(<<x>>) + Len(Tail(q)) :
              (<<x>> \o Tail(q))[i] = IF i <= Len(<<x>>) THEN <<x>>[i] ELSE Tail(q)[i - Len(<<x>>)]
    BY <1>1, <2>1, ConcatProperties
  <2>3. \A i \in 1 .. Len(q) : (<<x>> \o Tail(q))[i] = IF i = 1 THEN x ELSE q[i]
    <3>1. TAKE i \in 1 .. Len(q)
    <3>2. (<<x>> \o Tail(q))[i] = IF i <= 1 THEN <<x>>[i] ELSE Tail(q)[i - 1]
      BY <1>1, <2>1, <2>2
    <3>3. i # 1 => i - 1 \in 1 .. Len(q) - 1 /\ ~(i <= 1) /\ i - 1 + 1 = i
      BY <1>1
    <3>4. i = 1 => i <= 1
      OBVIOUS
    <3> QED BY <1>1, <2>1, <3>2, <3>3, <3>4
  <2> QED BY <1>1, <2>1, <2>2, <2>3
<1>3. /\ [q EXCEPT ![1] = e] \in Seq(T) /\ Len([q EXCEPT ![1] = e]) = Len(q)
      /\ \A i \in 1 .. Len(q) : [q EXCEPT ![1] = e][i] = IF i = 1 THEN e ELSE q[i]
  <2>1. 1 \in 1 .. Len(q)
    BY <1>1
  <2> QED BY <2>1, ExceptSeq
<1>4. q = <<q[1]>> \o Tail(q)
  <2>1. /\ <<q[1]>> \o Tail(q) \in Seq(T) /\ Len(<<q[1]>> \o Tail(q)) = Len(q)
        /\ \A i \in 1 .. Len(q) : (<<q[1]>> \o Tail(q))[i] = IF i = 1 THEN q[1] ELSE q[i]
    BY <1>1, <1>2
  <2>2. \A i \in 1 .. Len(q) : (<<q[1]>> \o Tail(q))[i] = q[i]
    BY <2>1
  <2> QED BY <2>1, <2>2, SeqEqual
<1>5. [q EXCEPT ![1] = e] = <<e>> \o Tail(q)
  <2>1. /\ <<e>> \o Tail(q) \in Seq(T) /\ Len(<<e>> \o Tail(q)) = Len(q)
        /\ \A i \in 1 .. Len(q) : (<<e>> \o Tail(q))[i] = IF i = 1 THEN e ELSE q[i]
    BY <1>2
  <2>2. \A i \in 1 .. Len([q EXCEPT ![1] = e]) : [q EXCEPT ![1] = e][i] = (<<e>> \o Tail(q))[i]
    BY <1>3, <2>1
  <2> QED BY <1>3, <2>1, <2>2, SeqEqual
<1> QED BY <1>1, <1>3, <1>4, <1>5

\* A sequence is all but its last element, and the last.
LEMMA SplitLast ==
  ASSUME NEW T, NEW q \in Seq(T), q # <<>>, NEW e \in T
  PROVE  /\ SubSeq(q, 1, Len(q) - 1) \in Seq(T)
         /\ q = SubSeq(q, 1, Len(q) - 1) \o <<q[Len(q)]>>
         /\ [q EXCEPT ![Len(q)] = e] = SubSeq(q, 1, Len(q) - 1) \o <<e>>
         /\ q[Len(q)] \in T /\ Len(q) \in Nat \ {0}
         /\ [q EXCEPT ![Len(q)] = e] \in Seq(T) /\ Len([q EXCEPT ![Len(q)] = e]) = Len(q)
         /\ \A i \in 1 .. Len(q) : [q EXCEPT ![Len(q)] = e][i] = IF i = Len(q) THEN e ELSE q[i]
<1> DEFINE p == SubSeq(q, 1, Len(q) - 1)
           r == [q EXCEPT ![Len(q)] = e]
<1>1. q[Len(q)] \in T /\ Len(q) \in Nat \ {0} /\ \A i \in 1 .. Len(q) : q[i] \in T
  OBVIOUS
<1>2. /\ p \in Seq(T) /\ Len(p) = Len(q) - 1
      /\ \A i \in 1 .. Len(q) - 1 : p[i] = q[i]
  <2>1. p \in Seq(T)
    BY <1>1
  <2>2. Len(p) = Len(q) - 1
    <3>0. Len(q) - 1 \in 0 .. Len(q)
      BY <1>1
    <3>1. PICK n \in 0 .. Len(q) : n = Len(q) - 1
      BY <3>0, Zenon
    <3>2. Len(SubSeq(q, 1, n)) = n
      BY <1>1
    <3> QED BY <3>1, <3>2
  <2>3. \A i \in 1 .. Len(q) - 1 : p[i] = q[i]
    BY <1>1
  <2> QED BY <2>1, <2>2, <2>3
<1> HIDE DEF p
<1>3. ASSUME NEW x \in T
      PROVE  /\ p \o <<x>> \in Seq(T) /\ Len(p \o <<x>>) = Len(q)
             /\ \A i \in 1 .. Len(q) : (p \o <<x>>)[i] = IF i = Len(q) THEN x ELSE q[i]
  <2>1. <<x>> \in Seq(T) /\ Len(<<x>>) = 1 /\ <<x>>[1] = x
    OBVIOUS
  <2>2. /\ p \o <<x>> \in Seq(T) /\ Len(p \o <<x>>) = Len(p) + Len(<<x>>)
        /\ \A i \in 1 .. Len(p) + Len(<<x>>) : (p \o <<x>>)[i] = IF i <= Len(p) THEN p[i] ELSE <<x>>[i - Len(p)]
    BY <1>2, <2>1, ConcatProperties
  <2>3. ASSUME NEW i \in 1 .. Len(q) PROVE (p \o <<x>>)[i] = IF i = Len(q) THEN x ELSE q[i]
    <3>1. (p \o <<x>>)[i] = IF i <= Len(p) THEN p[i] ELSE <<x>>[i - Len(p)]
      BY <1>1, <1>2, <2>1, <2>2
    <3>2. i # Len(q) => i \in 1 .. Len(q) - 1 /\ i <= Len(p)
      BY <1>1, <1>2
    <3>3. i = Len(q) => ~(i <= Len(p)) /\ i - Len(p) = 1
      BY <1>1, <1>2
    <3> QED BY <1>2, <2>1, <3>1, <3>2, <3>3
  <2> QED BY <1>1, <1>2, <2>1, <2>2, <2>3
<1>4. /\ r \in Seq(T) /\ Len(r) = Len(q)
      /\ \A i \in 1 .. Len(q) : r[i] = IF i = Len(q) THEN e ELSE q[i]
  <2>1. Len(q) \in 1 .. Len(q)
    BY <1>1
  <2> QED BY <2>1, ExceptSeq
<1> HIDE DEF r
<1>5. q = p \o <<q[Len(q)]>>
  <2>1. /\ p \o <<q[Len(q)]>> \in Seq(T) /\ Len(p \o <<q[Len(q)]>>) = Len(q)
        /\ \A i \in 1 .. Len(q) : (p \o <<q[Len(q)]>>)[i] = IF i = Len(q) THEN q[Len(q)] ELSE q[i]
    BY <1>1, <1>3
  <2>2. \A i \in 1 .. Len(q) : (p \o <<q[Len(q)]>>)[i] = q[i]
    BY <2>1
  <2> QED BY <2>1, <2>2, SeqEqual
<1>6. r = p \o <<e>>
  <2>1. /\ p \o <<e>> \in Seq(T) /\ Len(p \o <<e>>) = Len(q)
        /\ \A i \in 1 .. Len(q) : (p \o <<e>>)[i] = IF i = Len(q) THEN e ELSE q[i]
    BY <1>3
  <2>2. \A i \in 1 .. Len(r) : r[i] = (p \o <<e>>)[i]
    BY <1>4, <2>1
  <2> QED BY <1>4, <2>1, <2>2, SeqEqual
<1> QED BY <1>1, <1>2, <1>4, <1>5, <1>6 DEF p, r

\* Taking a piece off the front.
LEMMA TakenFacts ==
  ASSUME NEW S, NEW q \in Seq(S), NEW n \in 0 .. Len(q)
  PROVE  /\ Taken(q, n) \in Seq(S) /\ Without(q, n) \in Seq(S)
         /\ Taken(q, n) \o Without(q, n) = q
         /\ Len(Taken(q, n)) = n /\ Len(Without(q, n)) = Len(q) - n
<1>1. Len(q) \in Nat /\ \A i \in 1 .. Len(q) : q[i] \in S
  OBVIOUS
<1>2. Taken(q, n) \o Without(q, n) = q
  <2>1. 1 \in 1 .. Len(q) + 1 /\ n \in 1 - 1 .. Len(q) /\ Len(q) \in n .. Len(q)
    BY <1>1
  <2>2. SubSeq(q, 1, n) \o SubSeq(q, n + 1, Len(q)) = SubSeq(q, 1, Len(q))
    BY <2>1, ConcatAdjacentSubSeq
  <2>3. SubSeq(q, 1, Len(q)) = q
    BY SubSeqFull
  <2> QED BY <2>2, <2>3 DEF Taken, Without
<1>3. Taken(q, n) \in Seq(S) /\ Len(Taken(q, n)) = n
  BY <1>1 DEF Taken
<1>4. Without(q, n) \in Seq(S) /\ Len(Without(q, n)) = Len(q) - n
  BY <1>1 DEF Without
<1> QED BY <1>2, <1>3, <1>4

-----------------------------------------------------------------------------
(* AsyncTCPbuffer: what is in the chain and in the read buffer.            *)

\* FlattenSeq, of sequences of bytes.
LEMMA BytesFlatten ==
  /\ \A a, b \in Seq(Seq(Nat)) : /\ FlattenSeq(a \o b) = FlattenSeq(a) \o FlattenSeq(b)
                                 /\ FlattenSeq(a) \in Seq(Nat)
  /\ \A s \in Seq(Nat) : FlattenSeq(<<s>>) = s /\ <<s>> \in Seq(Seq(Nat))
  /\ FlattenSeq(<<>>) = <<>> /\ <<>> \in Seq(Nat)
<1>1. \A a, b \in Seq(Seq(Nat)) : /\ FlattenSeq(a \o b) = FlattenSeq(a) \o FlattenSeq(b)
                                 /\ FlattenSeq(a) \in Seq(Nat)
  BY FlattenConcat
<1>2. \A s \in Seq(Nat) : FlattenSeq(<<s>>) = s /\ FlattenSeq(<<>>) = <<>>
  BY FlattenOne
<1>3. <<>> \in Seq(Nat) /\ \A s \in Seq(Nat) : <<s>> \in Seq(Seq(Nat))
  OBVIOUS
<1> QED BY <1>1, <1>2, <1>3, Zenon

\* Concatenation, of sequences of bytes.
LEMMA BytesConcat ==
  /\ \A a, b \in Seq(Nat) : a \o b \in Seq(Nat) /\ Len(a \o b) = Len(a) + Len(b)
  /\ \A a, b, c \in Seq(Nat) : (a \o b) \o c = a \o (b \o c)
  /\ \A a \in Seq(Nat) : a \o <<>> = a /\ <<>> \o a = a
<1>1. \A a, b \in Seq(Nat) : a \o b \in Seq(Nat) /\ Len(a \o b) = Len(a) + Len(b)
  BY ConcatProperties
<1>2. \A a, b, c \in Seq(Nat) : (a \o b) \o c = a \o (b \o c)
  BY ConcatAssociative
<1>3. \A a \in Seq(Nat) : a \o <<>> = a /\ <<>> \o a = a
  BY ConcatEmptySeq
<1> QED BY <1>1, <1>2, <1>3, Zenon

\* Types of what is sent and of what is received.
TxTypeOK ==
  /\ chain \in Seq(Seq(Nat)) /\ chain # <<>>
  /\ sending \in [phase : {"idle", "fill", "send"}, left : Nat, flush : BOOLEAN]
  /\ stack \in Seq(Nat) /\ written \in Nat

RxTypeOK ==
  /\ rxBuffer \in Seq(Nat)
  /\ rxMode \in [kind : {"NONE", "FREE", "READ_BYTES", "TERMINATOR_STRING"}, size : Nat]
  /\ rxCall \in [phase : {"idle", "first", "more", "store", "rest"}, buf : Seq(Nat)]
  /\ handed \in Seq(Nat) /\ received \in Nat

\* No buffer before the last is empty, nor is the last once it was filled.
ChainInv ==
  /\ \A i \in 1 .. Len(chain) : Len(chain[i]) <= CbufSize
  /\ \A i \in 1 .. Len(chain) - 1 : chain[i] # <<>>
  /\ sending.phase = "fill" => sending.left > 0
  /\ sending.phase # "fill" /\ Len(chain) > 1 => chain[Len(chain)] # <<>>

\* What lwIP has and what waits is what was written; what the readers have, what
\* they have left and what is on its way to them is what was received.
TxFlow == stack \o FlattenSeq(chain) = Numbers(written)
RxFlow ==
  /\ handed \o (rxBuffer \o rxCall.buf) = Numbers(received)
  /\ rxCall.phase \in {"idle", "rest"} => rxCall.buf = <<>>

TxInv == TxTypeOK /\ ChainInv /\ TxFlow
RxInv == RxTypeOK /\ RxFlow

\* Nothing moves on one side while the other works.
LEMMA TxStays == TxInv /\ UNCHANGED txVars => TxInv'
BY DEF TxInv, TxTypeOK, ChainInv, TxFlow, txVars
\* What the reading part is about may stay as it is.
LEMMA RxStays == RxInv /\ UNCHANGED rxVars => RxInv'
BY DEF RxInv, RxTypeOK, RxFlow, rxVars

\* The buffer starts with nothing written and nothing received.
LEMMA BufferStarts == BufferInit => TxInv /\ RxInv
<1> SUFFICES ASSUME BufferInit PROVE TxInv /\ RxInv
  OBVIOUS
<1> USE DEF BufferInit
<1>1. Numbers(0) = <<>>
  BY DEF Numbers
<1>2. FlattenSeq(<<<<>>>>) = <<>>
  BY BytesFlatten, Zenon
<1>3. TxTypeOK
  BY DEF TxTypeOK
<1>4. ChainInv
  <2>1. Len(chain) = 1 /\ chain[1] = <<>> /\ Len(<<>>) = 0 /\ CbufSize \in Nat
    BY StreamAssumption
  <2> QED BY <2>1 DEF ChainInv
<1>5. TxFlow
  <2>1. <<>> \o <<>> = <<>>
    OBVIOUS
  <2> QED BY <1>1, <1>2, <2>1 DEF TxFlow
<1>6. RxTypeOK
  BY DEF RxTypeOK, Free
<1>7. RxFlow
  <2>1. <<>> \o (<<>> \o <<>>) = <<>>
    OBVIOUS
  <2>2. rxCall.buf = <<>> /\ rxBuffer = <<>> /\ handed = <<>> /\ received = 0
    OBVIOUS
  <2> QED BY <1>1, <2>1, <2>2 DEF RxFlow
<1> QED BY <1>3, <1>4, <1>5, <1>6, <1>7 DEF TxInv, RxInv

\* Bytes put into the last buffer come last.
Grown(c, d, w) ==
  /\ d \in Seq(Seq(Nat)) /\ d # <<>> /\ Len(d) = Len(c) /\ Len(c) \in Nat \ {0}
  /\ \A i \in 1 .. Len(c) : d[i] = IF i = Len(c) THEN c[Len(c)] \o w ELSE c[i]
  /\ FlattenSeq(d) = FlattenSeq(c) \o w
  /\ c[Len(c)] \in Seq(Nat)
  /\ Len(c[Len(c)] \o w) = Len(c[Len(c)]) + Len(w)

\* Bytes put behind the last element come last of all.
LEMMA LastGrows ==
  ASSUME NEW c \in Seq(Seq(Nat)), c # <<>>, NEW w \in Seq(Nat)
  PROVE  Grown(c, [c EXCEPT ![Len(c)] = @ \o w], w)
<1> DEFINE l == c[Len(c)]
           d == [c EXCEPT ![Len(c)] = l \o w]
<1>1. l \in Seq(Nat) /\ Len(c) \in Nat \ {0}
  OBVIOUS
<1>2. l \o w \in Seq(Nat) /\ Len(l \o w) = Len(l) + Len(w)
  BY <1>1, ConcatProperties
<1>3. /\ \E p \in Seq(Seq(Nat)) : c = p \o <<l>> /\ d = p \o <<l \o w>>
      /\ d \in Seq(Seq(Nat)) /\ Len(d) = Len(c)
      /\ \A i \in 1 .. Len(c) : d[i] = IF i = Len(c) THEN l \o w ELSE c[i]
  <2>1. ASSUME NEW e \in Seq(Nat)
        PROVE  /\ SubSeq(c, 1, Len(c) - 1) \in Seq(Seq(Nat))
               /\ c = SubSeq(c, 1, Len(c) - 1) \o <<c[Len(c)]>>
               /\ [c EXCEPT ![Len(c)] = e] = SubSeq(c, 1, Len(c) - 1) \o <<e>>
               /\ c[Len(c)] \in Seq(Nat) /\ Len(c) \in Nat \ {0}
               /\ [c EXCEPT ![Len(c)] = e] \in Seq(Seq(Nat)) /\ Len([c EXCEPT ![Len(c)] = e]) = Len(c)
               /\ \A i \in 1 .. Len(c) : [c EXCEPT ![Len(c)] = e][i] = IF i = Len(c) THEN e ELSE c[i]
    BY SplitLast
  <2> QED BY <1>2, <2>1, Zenon
<1> HIDE DEF d, l
<1>4. PICK p \in Seq(Seq(Nat)) : c = p \o <<l>> /\ d = p \o <<l \o w>>
  BY <1>3, Zenon
<1>a. l \in Seq(Nat) /\ l \o w \in Seq(Nat)
  BY <1>1, <1>2 DEF l
<1>b. /\ FlattenSeq(<<l>>) = l /\ <<l>> \in Seq(Seq(Nat))
      /\ FlattenSeq(<<l \o w>>) = l \o w /\ <<l \o w>> \in Seq(Seq(Nat))
  BY <1>a, BytesFlatten, Zenon
<1>c. /\ FlattenSeq(p \o <<l>>) = FlattenSeq(p) \o FlattenSeq(<<l>>) /\ FlattenSeq(p) \in Seq(Nat)
      /\ FlattenSeq(p \o <<l \o w>>) = FlattenSeq(p) \o FlattenSeq(<<l \o w>>)
  BY <1>b, BytesFlatten, Zenon
<1>5. FlattenSeq(c) = FlattenSeq(p) \o l /\ FlattenSeq(p) \in Seq(Nat)
  BY <1>4, <1>b, <1>c
<1>6. FlattenSeq(d) = FlattenSeq(p) \o (l \o w)
  BY <1>4, <1>b, <1>c
<1>7. (FlattenSeq(p) \o l) \o w = FlattenSeq(p) \o (l \o w)
  BY <1>1, <1>5, BytesConcat, Zenon
<1>8. d # <<>>
  BY <1>1, <1>3
<1>9. FlattenSeq(d) = FlattenSeq(c) \o w
  BY <1>5, <1>6, <1>7, Zenon
<1>10. Grown(c, d, w)
  BY <1>1, <1>2, <1>3, <1>8, <1>9 DEF l, Grown
<1> QED BY <1>10 DEF d, l

\* What is sent from the first buffer came first.
Shrunk(c, d, n) ==
  /\ d \in Seq(Seq(Nat)) /\ d # <<>>
  /\ FlattenSeq(c) = Taken(Head(c), n) \o FlattenSeq(d)
  /\ Taken(Head(c), n) \in Seq(Nat) /\ FlattenSeq(d) \in Seq(Nat)
  /\ \/ n = Len(Head(c)) /\ Len(c) > 1 /\ d = Tail(c) /\ Len(d) = Len(c) - 1
     \/ /\ ~(n = Len(Head(c)) /\ Len(c) > 1) /\ Len(d) = Len(c)
        /\ \A i \in 1 .. Len(c) : d[i] = IF i = 1 THEN Without(Head(c), n) ELSE c[i]
  /\ Len(Without(Head(c), n)) = Len(Head(c)) - n
  /\ \A i \in 1 .. Len(c) - 1 : Tail(c)[i] = c[i + 1]

\* Bytes taken from the first element were the first of all.
LEMMA FirstShrinks ==
  ASSUME NEW c \in Seq(Seq(Nat)), c # <<>>, NEW taken, NEW n \in 0 .. Len(Head(c))
  PROVE  Shrunk(c, Shifted(c, taken, n), n)
<1> DEFINE h == Head(c)
           t == Taken(h, n)
           w == Without(h, n)
           d == Shifted(c, taken, n)
<1>0. Len(c) \in Nat \ {0} /\ h = c[1] /\ h \in Seq(Nat) /\ Tail(c) \in Seq(Seq(Nat))
      /\ Len(Tail(c)) = Len(c) - 1 /\ \A i \in 1 .. Len(c) - 1 : Tail(c)[i] = c[i + 1]
  BY SplitFirst
<1>1. t \in Seq(Nat) /\ w \in Seq(Nat) /\ t \o w = h /\ Len(w) = Len(h) - n /\ Len(h) \in Nat
  <2>1. Len(h) \in Nat
    BY <1>0
  <2>2. /\ t \in Seq(Nat) /\ w \in Seq(Nat) /\ t \o w = h
        /\ Len(t) = n /\ Len(w) = Len(h) - n
    BY <1>0, TakenFacts
  <2> QED BY <2>1, <2>2
<1>2. /\ c = <<h>> \o Tail(c) /\ [c EXCEPT ![1] = w] = <<w>> \o Tail(c)
      /\ [c EXCEPT ![1] = w] \in Seq(Seq(Nat)) /\ Len([c EXCEPT ![1] = w]) = Len(c)
      /\ \A i \in 1 .. Len(c) : [c EXCEPT ![1] = w][i] = IF i = 1 THEN w ELSE c[i]
  BY <1>0, <1>1, SplitFirst
<1>3. [c EXCEPT ![1] = Without(@, n)] = [c EXCEPT ![1] = w]
  BY <1>0
<1>4. <<h>> \in Seq(Seq(Nat)) /\ <<w>> \in Seq(Seq(Nat))
  BY <1>0, <1>1
<1>5. FlattenSeq(c) = h \o FlattenSeq(Tail(c)) /\ FlattenSeq(Tail(c)) \in Seq(Nat)
  <2>1. FlattenSeq(<<h>>) = h
    BY <1>0, BytesFlatten, Zenon
  <2>2. /\ FlattenSeq(<<h>> \o Tail(c)) = FlattenSeq(<<h>>) \o FlattenSeq(Tail(c))
        /\ FlattenSeq(Tail(c)) \in Seq(Nat)
    BY <1>0, <1>4, BytesFlatten, Zenon
  <2> QED BY <1>2, <2>1, <2>2
<1> HIDE DEF h, t, w
<1>6. CASE n = Len(h) /\ Len(c) > 1
  <2>1. d = Tail(c)
    BY <1>6 DEF Shifted, h
  <2>2. w = <<>>
    BY <1>1, <1>6
  <2>3. t = h
    BY <1>1, <2>2, BytesConcat
  <2>4. Tail(c) # <<>>
    <3>1. Len(Tail(c)) = Len(c) - 1 /\ Len(c) \in Nat
      BY <1>0
    <3>2. Len(<<>>) = 0
      OBVIOUS
    <3>a. \A k \in Nat : k > 1 => k - 1 # 0
      OBVIOUS
    <3>3. Len(c) - 1 # 0
      BY <1>6, <3>1, <3>a, Zenon
    <3> QED BY <3>1, <3>2, <3>3, Zenon
  <2> HIDE DEF d
  <2> QED BY <1>0, <1>1, <1>5, <1>6, <2>1, <2>3, <2>4 DEF h, t, w, d, Shrunk
<1>7. CASE ~(n = Len(h) /\ Len(c) > 1)
  <2>1. d = [c EXCEPT ![1] = w]
    BY <1>3, <1>7, Zenon DEF Shifted, h
  <2>2. FlattenSeq(d) = w \o FlattenSeq(Tail(c)) /\ FlattenSeq(d) \in Seq(Nat)
    <3>1. FlattenSeq(<<w>> \o Tail(c)) = FlattenSeq(<<w>>) \o FlattenSeq(Tail(c))
      BY <1>0, <1>4, BytesFlatten, Zenon
    <3>2. FlattenSeq(<<w>>) = w
      BY <1>1, BytesFlatten, Zenon
    <3>3. w \o FlattenSeq(Tail(c)) \in Seq(Nat)
      BY <1>1, <1>5, BytesConcat, Zenon
    <3> HIDE DEF d
    <3> QED BY <1>2, <2>1, <3>1, <3>2, <3>3
  <2>3. t \o (w \o FlattenSeq(Tail(c))) = (t \o w) \o FlattenSeq(Tail(c))
    BY <1>1, <1>5, BytesConcat, Zenon
  <2> HIDE DEF d
  <2>4. d # <<>>
    BY <1>0, <1>2, <2>1
  <2>5. FlattenSeq(c) = t \o FlattenSeq(d)
    BY <1>1, <1>5, <2>2, <2>3, Zenon
  <2> QED BY <1>0, <1>1, <1>2, <1>7, <2>1, <2>2, <2>4, <2>5 DEF h, t, w, d, Shrunk
<1> QED BY <1>6, <1>7

\* A chain has a last element, which is a sequence of bytes.
LEMMA LastOfChain == ASSUME NEW c PROVE Last(c) = c[Len(c)]
BY DEF Last

\* Append, of a sequence of bytes to a chain.
LEMMA BytesAppend ==
  ASSUME NEW q \in Seq(Seq(Nat)), NEW e \in Seq(Nat)
  PROVE  /\ Append(q, e) \in Seq(Seq(Nat)) /\ Append(q, e) # <<>>
         /\ Len(Append(q, e)) = Len(q) + 1
         /\ \A i \in 1 .. Len(q) : Append(q, e)[i] = q[i]
         /\ Append(q, e)[Len(q) + 1] = e
         /\ Append(q, e) = q \o <<e>>
<1>1. /\ Append(q, e) \in Seq(Seq(Nat)) /\ Append(q, e) # <<>>
      /\ Len(Append(q, e)) = Len(q) + 1
      /\ \A i \in 1 .. Len(q) : Append(q, e)[i] = q[i]
      /\ Append(q, e)[Len(q) + 1] = e
  BY AppendProperties
<1>2. Append(q, e) = q \o <<e>>
  BY AppendIsConcat
<1> QED BY <1>1, <1>2

\* A write fills the last buffer of the chain.
LEMMA FillKeeps == TxInv /\ FillBuffer => TxInv'
<1> SUFFICES ASSUME TxInv, FillBuffer PROVE TxInv'
  OBVIOUS
<1> USE DEF TxInv
<1>0. CbufSize \in Nat \ {0}
  BY StreamAssumption
<1>1. /\ chain \in Seq(Seq(Nat)) /\ chain # <<>> /\ stack \in Seq(Nat) /\ written \in Nat
      /\ sending \in [phase : {"idle", "fill", "send"}, left : Nat, flush : BOOLEAN]
      /\ sending.left \in Nat /\ sending.left > 0 /\ sending.phase = "fill"
  BY DEF TxTypeOK, ChainInv, FillBuffer
<1> DEFINE l == chain[Len(chain)]
           n == Smaller(CbufSize - Len(l), sending.left)
           w == [i \in 1 .. n |-> written + i]
<1>2. Len(chain) \in Nat \ {0} /\ l \in Seq(Nat) /\ Len(l) \in Nat /\ Len(l) <= CbufSize
  <2>1. Len(chain) \in Nat \ {0} /\ l \in Seq(Nat) /\ Len(l) \in Nat
    BY <1>1
  <2>2. Len(chain) \in 1 .. Len(chain)
    BY <2>1
  <2> QED BY <2>1, <2>2 DEF ChainInv
<1>3. n \in Nat /\ n <= CbufSize - Len(l) /\ n <= sending.left /\ (Len(l) = 0 => n > 0)
  BY <1>0, <1>1, <1>2 DEF Smaller
<1>4. /\ chain' = [chain EXCEPT ![Len(chain)] = @ \o w]
      /\ written' = written + n
      /\ sending' = [sending EXCEPT !.phase = "send", !.left = @ - n]
      /\ stack' = stack
  BY LastOfChain, Zenon DEF FillBuffer
<1> HIDE DEF n
<1>5. /\ Numbers(written + n) = Numbers(written) \o w /\ w \in Seq(Nat) /\ Len(w) = n
  BY <1>1, <1>3, NumbersGrow
<1> HIDE DEF w
<1>6. /\ chain' \in Seq(Seq(Nat)) /\ chain' # <<>> /\ Len(chain') = Len(chain)
      /\ \A i \in 1 .. Len(chain) : chain'[i] = IF i = Len(chain) THEN l \o w ELSE chain[i]
      /\ FlattenSeq(chain') = FlattenSeq(chain) \o w
      /\ Len(l \o w) = Len(l) + Len(w)
  <2>1. Grown(chain, [chain EXCEPT ![Len(chain)] = @ \o w], w)
    BY <1>1, <1>5, LastGrows, Zenon
  <2>2. Grown(chain, chain', w)
    BY <1>4, <2>1, Zenon
  <2> QED BY <2>2 DEF Grown
<1> HIDE DEF l
<1>7. TxTypeOK'
  <2>1. sending' \in [phase : {"idle", "fill", "send"}, left : Nat, flush : BOOLEAN]
    <3>1. sending.left - n \in Nat
      BY <1>1, <1>3
    <3> QED BY <1>1, <1>4, <3>1
  <2>2. written' \in Nat
    BY <1>1, <1>3, <1>4
  <2> QED BY <1>1, <1>4, <1>6, <2>1, <2>2 DEF TxTypeOK
<1>8. ChainInv'
  <2>1. \A i \in 1 .. Len(chain) : Len(chain'[i]) <= CbufSize
    <3>1. Len(l \o w) <= CbufSize
      BY <1>0, <1>2, <1>3, <1>5, <1>6
    <3>2. TAKE i \in 1 .. Len(chain)
    <3>3. Len(chain[i]) <= CbufSize
      BY DEF ChainInv
    <3> QED BY <1>6, <3>1, <3>3, Zenon
  <2>2. \A i \in 1 .. Len(chain) - 1 : chain'[i] # <<>>
    <3>1. TAKE i \in 1 .. Len(chain) - 1
    <3>2. i \in 1 .. Len(chain) /\ i # Len(chain)
      BY <1>2
    <3>3. chain[i] # <<>>
      BY DEF ChainInv
    <3> QED BY <1>6, <3>2, <3>3, Zenon
  <2>3. sending'.phase = "send"
    BY <1>1, <1>4
  <2>4. chain'[Len(chain)] # <<>>
    <3>1. Len(chain) \in 1 .. Len(chain)
      BY <1>2
    <3>2. chain'[Len(chain)] = l \o w
      BY <1>6, <3>1, Zenon
    <3>3. Len(l \o w) # 0 /\ Len(<<>>) = 0
      BY <1>2, <1>3, <1>5, <1>6
    <3> QED BY <3>2, <3>3, Zenon
  <2> QED BY <1>6, <2>1, <2>2, <2>3, <2>4 DEF ChainInv
<1>9. TxFlow'
  <2>1. stack \o FlattenSeq(chain) = Numbers(written) /\ FlattenSeq(chain) \in Seq(Nat)
    BY <1>1, BytesFlatten DEF TxFlow
  <2>2. stack \o (FlattenSeq(chain) \o w) = (stack \o FlattenSeq(chain)) \o w
    BY <1>1, <1>5, <2>1, BytesConcat, Zenon
  <2>3. stack' \o FlattenSeq(chain') = Numbers(written + n)
    BY <1>4, <1>5, <1>6, <2>1, <2>2
  <2> QED BY <1>4, <2>3 DEF TxFlow
<1> QED BY <1>7, <1>8, <1>9

\* What is handed to the stack was first in the chain.
LEMMA SendChainKeeps == TxInv /\ SendPiece => TxInv'
<1> SUFFICES ASSUME TxInv, SendPiece PROVE TxInv'
  OBVIOUS
<1> USE DEF TxInv
<1>1. /\ chain \in Seq(Seq(Nat)) /\ chain # <<>> /\ stack \in Seq(Nat) /\ written \in Nat
      /\ sending \in [phase : {"idle", "fill", "send"}, left : Nat, flush : BOOLEAN]
      /\ sending.phase = "send" /\ sending' = sending /\ written' = written
  BY DEF TxTypeOK, SendPiece
<1>2. Len(chain) \in Nat \ {0} /\ Head(chain) = chain[1] /\ Head(chain) \in Seq(Nat)
      /\ Len(Head(chain)) \in Nat /\ 1 \in 1 .. Len(chain)
  BY <1>1
<1>3. PICK space \in 1 .. Len(Head(chain)), n \in 0 .. Len(Head(chain)) :
        /\ stack' = stack \o Taken(Head(chain), n)
        /\ chain' = Shifted(chain, space, n)
  <2>1. PICK space \in 1 .. Len(Head(chain)) : \E sent \in 0 .. space :
           /\ stack' = stack \o Taken(Head(chain), sent)
           /\ chain' = Shifted(chain, space, sent)
    BY DEF SendPiece
  <2>2. \A sent \in 0 .. space : sent \in 0 .. Len(Head(chain))
    BY <1>2
  <2> QED BY <2>1, <2>2
<1> DEFINE t == Taken(Head(chain), n)
           r == Without(Head(chain), n)
<1>4. /\ chain' \in Seq(Seq(Nat)) /\ chain' # <<>>
      /\ FlattenSeq(chain) = t \o FlattenSeq(chain')
      /\ t \in Seq(Nat) /\ FlattenSeq(chain') \in Seq(Nat)
      /\ \/ n = Len(Head(chain)) /\ Len(chain) > 1 /\ chain' = Tail(chain) /\ Len(chain') = Len(chain) - 1
         \/ /\ ~(n = Len(Head(chain)) /\ Len(chain) > 1) /\ Len(chain') = Len(chain)
            /\ \A i \in 1 .. Len(chain) : chain'[i] = IF i = 1 THEN r ELSE chain[i]
      /\ Len(r) = Len(Head(chain)) - n
      /\ \A i \in 1 .. Len(chain) - 1 : Tail(chain)[i] = chain[i + 1]
  <2>1. Shrunk(chain, chain', n)
    BY <1>1, <1>3, FirstShrinks, Zenon
  <2> QED BY <2>1, Zenon DEF Shrunk
<1> HIDE DEF t, r
<1>5. TxTypeOK'
  <2>1. stack' \in Seq(Nat)
    BY <1>1, <1>3, <1>4, BytesConcat, Zenon DEF t
  <2> QED BY <1>1, <1>4, <2>1 DEF TxTypeOK
<1>6. TxFlow'
  <2>1. stack \o FlattenSeq(chain) = Numbers(written)
    BY DEF TxFlow
  <2>a. t \in Seq(Nat) /\ FlattenSeq(chain') \in Seq(Nat)
    BY <1>4
  <2>2. (stack \o t) \o FlattenSeq(chain') = stack \o (t \o FlattenSeq(chain'))
    <3>1. stack \in Seq(Nat)
      BY <1>1
    <3>2. \A a, b, c \in Seq(Nat) : (a \o b) \o c = a \o (b \o c)
      BY BytesConcat
    <3> QED BY <2>a, <3>1, <3>2, Zenon
  <2>3. stack' = stack \o t
    BY <1>3 DEF t
  <2> QED BY <1>1, <1>4, <2>1, <2>2, <2>3 DEF TxFlow
<1>7. ChainInv'
  <2>0. /\ \A i \in 1 .. Len(chain) : Len(chain[i]) <= CbufSize
        /\ \A i \in 1 .. Len(chain) - 1 : chain[i] # <<>>
        /\ Len(chain) > 1 => chain[Len(chain)] # <<>>
        /\ CbufSize \in Nat /\ sending'.phase = "send"
    BY <1>1, StreamAssumption DEF ChainInv
  <2>1. CASE n = Len(Head(chain)) /\ Len(chain) > 1 /\ chain' = Tail(chain) /\ Len(chain') = Len(chain) - 1
    <3>1. \A i \in 1 .. Len(chain') : chain'[i] = chain[i + 1] /\ i + 1 \in 1 .. Len(chain)
      <4>1. TAKE i \in 1 .. Len(chain')
      <4>2. i \in 1 .. Len(chain) - 1 /\ i + 1 \in 1 .. Len(chain)
        BY <1>2, <2>1
      <4>3. \A j \in 1 .. Len(chain) - 1 : Tail(chain)[j] = chain[j + 1]
        BY <1>4
      <4> QED BY <2>1, <4>2, <4>3
    <3>2. \A i \in 1 .. Len(chain') : Len(chain'[i]) <= CbufSize
      BY <2>0, <3>1
    <3>3. \A i \in 1 .. Len(chain') - 1 : i \in 1 .. Len(chain') /\ i + 1 \in 1 .. Len(chain) - 1
      BY <1>2, <2>1
    <3>4. \A i \in 1 .. Len(chain') - 1 : chain'[i] # <<>>
      BY <2>0, <3>1, <3>3, Zenon
    <3>5. chain'[Len(chain')] # <<>>
      <4>1. Len(chain') \in 1 .. Len(chain') /\ Len(chain') + 1 = Len(chain) /\ Len(chain) > 1
        BY <1>2, <2>1
      <4> QED BY <2>0, <3>1, <4>1
    <3> QED BY <2>0, <3>2, <3>4, <3>5 DEF ChainInv
  <2>2. CASE /\ ~(n = Len(Head(chain)) /\ Len(chain) > 1) /\ Len(chain') = Len(chain)
             /\ \A i \in 1 .. Len(chain) : chain'[i] = IF i = 1 THEN r ELSE chain[i]
    <3>0. Len(r) <= CbufSize /\ (Len(chain) > 1 => Len(r) # 0)
      <4>1. Len(Head(chain)) <= CbufSize
        BY <1>2, <2>0
      <4> QED BY <1>2, <1>3, <1>4, <2>0, <2>2, <4>1
    <3>1. \A i \in 1 .. Len(chain') : Len(chain'[i]) <= CbufSize
      BY <2>0, <2>2, <3>0
    <3>2. Len(chain) > 1 => r # <<>>
      <4>1. Len(<<>>) = 0
        OBVIOUS
      <4> QED BY <3>0, <4>1
    <3>3. \A i \in 1 .. Len(chain') - 1 : chain'[i] # <<>>
      <4>1. TAKE i \in 1 .. Len(chain') - 1
      <4>2. i \in 1 .. Len(chain) /\ i \in 1 .. Len(chain) - 1 /\ Len(chain) > 1
        BY <1>2, <2>2
      <4> QED BY <2>0, <2>2, <3>2, <4>2, Zenon
    <3>4. Len(chain') > 1 => chain'[Len(chain')] # <<>>
      <4>a. \A k \in Nat : k > 1 => k \in 1 .. k /\ k # 1
        OBVIOUS
      <4>b. Len(chain) \in Nat
        BY <1>2
      <4>1. Len(chain) > 1 => Len(chain) \in 1 .. Len(chain) /\ Len(chain) # 1
        BY <4>a, <4>b, Zenon
      <4> QED BY <2>0, <2>2, <4>1, Zenon
    <3> QED BY <2>0, <3>1, <3>3, <3>4 DEF ChainInv
  <2> QED BY <1>4, <2>1, <2>2
<1> QED BY <1>5, <1>6, <1>7

\* The end of a send drops no byte.
LEMMA SendEndKeeps == TxInv /\ SendEnds => TxInv'
<1> SUFFICES ASSUME TxInv, SendEnds PROVE TxInv'
  OBVIOUS
<1> USE DEF TxInv
<1>1. /\ chain \in Seq(Seq(Nat)) /\ chain # <<>> /\ stack \in Seq(Nat) /\ written \in Nat
      /\ sending \in [phase : {"idle", "fill", "send"}, left : Nat, flush : BOOLEAN]
      /\ sending.phase = "send" /\ stack' = stack /\ written' = written
      /\ sending.left \in Nat
  BY DEF TxTypeOK, SendEnds
<1>2. Len(chain) \in Nat \ {0}
  BY <1>1
<1>3. /\ \A i \in 1 .. Len(chain) : Len(chain[i]) <= CbufSize
      /\ \A i \in 1 .. Len(chain) - 1 : chain[i] # <<>>
      /\ Len(chain) > 1 => chain[Len(chain)] # <<>>
      /\ CbufSize \in Nat \ {0}
  BY <1>1, StreamAssumption DEF ChainInv
<1>4. stack \o FlattenSeq(chain) = Numbers(written)
  BY DEF TxFlow
<1>5. CASE /\ sending.left > 0
           /\ chain' = IF Len(Last(chain)) = CbufSize THEN Append(chain, <<>>) ELSE chain
           /\ sending' = [sending EXCEPT !.phase = "fill"]
  <2>1. /\ sending' \in [phase : {"idle", "fill", "send"}, left : Nat, flush : BOOLEAN]
        /\ sending'.phase = "fill" /\ sending'.left > 0
    BY <1>1, <1>5
  <2>2. CASE Len(Last(chain)) = CbufSize
    <3>1. chain' = Append(chain, <<>>)
      BY <1>5, <2>2, Zenon
    <3>2. /\ chain' \in Seq(Seq(Nat)) /\ chain' # <<>> /\ Len(chain') = Len(chain) + 1
          /\ \A i \in 1 .. Len(chain) : chain'[i] = chain[i]
          /\ chain'[Len(chain) + 1] = <<>>
      <4>1. <<>> \in Seq(Nat)
        OBVIOUS
      <4>2. /\ Append(chain, <<>>) \in Seq(Seq(Nat)) /\ Append(chain, <<>>) # <<>>
            /\ Len(Append(chain, <<>>)) = Len(chain) + 1
            /\ \A i \in 1 .. Len(chain) : Append(chain, <<>>)[i] = chain[i]
            /\ Append(chain, <<>>)[Len(chain) + 1] = <<>>
        BY <1>1, <4>1, BytesAppend, Zenon
      <4> QED BY <3>1, <4>2
    <3>3. FlattenSeq(chain') = FlattenSeq(chain)
      <4>1. <<>> \in Seq(Nat) /\ chain' = chain \o <<<<>>>>
        <5>1. <<>> \in Seq(Nat)
          OBVIOUS
        <5> QED BY <1>1, <3>1, <5>1, BytesAppend, Zenon
      <4>2. FlattenSeq(<<<<>>>>) = <<>> /\ <<<<>>>> \in Seq(Seq(Nat))
        BY <4>1, BytesFlatten, Zenon
      <4>3. FlattenSeq(chain \o <<<<>>>>) = FlattenSeq(chain) \o FlattenSeq(<<<<>>>>) /\ FlattenSeq(chain) \in Seq(Nat)
        BY <1>1, <4>2, BytesFlatten, Zenon
      <4>4. FlattenSeq(chain) \o <<>> = FlattenSeq(chain)
        BY <4>3, BytesConcat, Zenon
      <4> QED BY <4>1, <4>2, <4>3, <4>4
    <3>4. chain[Len(chain)] # <<>>
      <4>1. Len(chain[Len(chain)]) = CbufSize /\ Len(<<>>) = 0
        BY <2>2 DEF Last
      <4> QED BY <1>3, <4>1
    <3>5. ChainInv'
      <4>1. \A i \in 1 .. Len(chain') : Len(chain'[i]) <= CbufSize
        <5>1. TAKE i \in 1 .. Len(chain')
        <5>2. CASE i \in 1 .. Len(chain)
          BY <1>3, <3>2, <5>2
        <5>3. CASE i = Len(chain) + 1
          <6>1. Len(<<>>) = 0
            OBVIOUS
          <6> QED BY <1>3, <3>2, <5>3, <6>1
        <5> QED BY <1>2, <3>2, <5>2, <5>3
      <4>2. \A i \in 1 .. Len(chain') - 1 : chain'[i] # <<>>
        <5>1. TAKE i \in 1 .. Len(chain') - 1
        <5>2. i \in 1 .. Len(chain) /\ (i = Len(chain) \/ i \in 1 .. Len(chain) - 1)
          BY <1>2, <3>2
        <5> QED BY <1>3, <3>2, <3>4, <5>2, Zenon
      <4> QED BY <2>1, <4>1, <4>2 DEF ChainInv
    <3> QED BY <1>1, <1>4, <2>1, <3>2, <3>3, <3>5 DEF TxTypeOK, TxFlow
  <2>3. CASE Len(Last(chain)) # CbufSize
    <3>1. chain' = chain
      BY <1>5, <2>3, Zenon
    <3> QED BY <1>1, <1>3, <1>4, <2>1, <3>1 DEF TxTypeOK, TxFlow, ChainInv
  <2> QED BY <2>2, <2>3
<1>6. CASE sending' = [sending EXCEPT !.phase = "idle", !.left = 0] /\ chain' = chain
  <2>1. /\ sending' \in [phase : {"idle", "fill", "send"}, left : Nat, flush : BOOLEAN]
        /\ sending'.phase = "idle"
    BY <1>1, <1>6
  <2> QED BY <1>1, <1>3, <1>4, <1>6, <2>1 DEF TxTypeOK, TxFlow, ChainInv
<1> QED BY <1>5, <1>6 DEF SendEnds

\* Calls that begin and end.
LEMMA CallRxKeeps ==
  TxInv /\ (WriteBytes \/ FlushBegins \/ SendAgain \/ FlushEnds) => TxInv'
<1> SUFFICES ASSUME TxInv, WriteBytes \/ FlushBegins \/ SendAgain \/ FlushEnds PROVE TxInv'
  OBVIOUS
<1>1. /\ sending \in [phase : {"idle", "fill", "send"}, left : Nat, flush : BOOLEAN]
      /\ sending.phase = "idle" /\ chain' = chain /\ stack' = stack /\ written' = written
  BY DEF TxInv, TxTypeOK, WriteBytes, FlushBegins, SendAgain, FlushEnds, Quiet
<1>2. /\ sending' \in [phase : {"idle", "fill", "send"}, left : Nat, flush : BOOLEAN]
      /\ sending'.phase = "fill" => sending'.left > 0
  <2>1. CASE WriteBytes
    <3>1. PICK len \in 1 .. MaxWritten - written : sending' = [sending EXCEPT !.phase = "fill", !.left = len]
      BY <2>1 DEF WriteBytes
    <3>2. len \in Nat /\ len > 0
      BY StreamAssumption DEF TxInv, TxTypeOK
    <3> QED BY <1>1, <3>1, <3>2
  <2>2. CASE FlushBegins
    BY <1>1, <2>2 DEF FlushBegins
  <2>3. CASE SendAgain
    BY <1>1, <2>3 DEF SendAgain
  <2>4. CASE FlushEnds
    BY <1>1, <2>4 DEF FlushEnds
  <2> QED BY <2>1, <2>2, <2>3, <2>4
<1> QED BY <1>1, <1>2 DEF TxInv, TxTypeOK, TxFlow, ChainInv

\* A terminator or everything.
LEMMA UntilFacts ==
  ASSUME NEW s \in Seq(Nat)
  PROVE  /\ Until(s) \in 0 .. Len(s)
         /\ Until(s) # Len(s) => EndsIn(s, Until(s))
<1> DEFINE hits == {i \in 1 .. Len(s) : s[i] \in Terminators}
<1>0. Len(s) \in Nat
  OBVIOUS
<1>1. CASE hits = {}
  <2>1. Until(s) = Len(s)
    BY <1>1 DEF Until
  <2> QED BY <1>0, <2>1
<1>2. CASE hits # {}
  <2> DEFINE P(i) == i \in hits /\ \A j \in hits : i <= j
  <2>1. \E i : P(i)
    <3>1. hits \in SUBSET Nat
      BY <1>0
    <3> HIDE DEF hits
    <3>2. \E m \in hits : \A n \in hits : m <= n
      BY <1>2, <3>1, LeastNumber
    <3> QED BY <3>2
  <2>2. Until(s) = CHOOSE i \in hits : \A j \in hits : i <= j
    BY <1>2, Zenon DEF Until
  <2>3. Until(s) \in hits
    <3> HIDE DEF hits
    <3> QED BY <2>1, <2>2, Zenon
  <2> QED BY <1>0, <2>3 DEF EndsIn
<1> QED BY <1>1, <1>2

\* What a reader takes: from the buffer, and from what comes after it only with
\* the whole buffer; and then what it wants next.
Fits(o, buf) ==
  /\ o.fromBuffer \in 0 .. Len(rxBuffer) /\ o.fromBuf \in 0 .. Len(buf)
  /\ o.fromBuf # 0 => o.fromBuffer = Len(rxBuffer)
  /\ o.mode \in [kind : {"NONE", "FREE", "READ_BYTES", "TERMINATOR_STRING"}, size : Nat]

\* The modes of a reader.
LEMMA ModesTyped == Modes \subseteq [kind : {"NONE", "FREE", "READ_BYTES", "TERMINATOR_STRING"}, size : Nat]
<1>1. /\ NoMode \in [kind : {"NONE", "FREE", "READ_BYTES", "TERMINATOR_STRING"}, size : Nat]
      /\ Free \in [kind : {"NONE", "FREE", "READ_BYTES", "TERMINATOR_STRING"}, size : Nat]
      /\ [kind |-> "TERMINATOR_STRING", size |-> 0] \in [kind : {"NONE", "FREE", "READ_BYTES", "TERMINATOR_STRING"}, size : Nat]
  BY DEF NoMode, Free
<1>2. [kind : {"READ_BYTES"}, size : 1 .. 2] \subseteq [kind : {"NONE", "FREE", "READ_BYTES", "TERMINATOR_STRING"}, size : Nat]
  OBVIOUS
<1> QED BY <1>1, <1>2 DEF Modes

\* What a reader takes is there to be taken.
LEMMA OutcomesFit ==
  ASSUME RxTypeOK, NEW buf \in Seq(Nat), NEW o \in Outcomes(buf)
  PROVE  Fits(o, buf)
<1> DEFINE ModeType == [kind : {"NONE", "FREE", "READ_BYTES", "TERMINATOR_STRING"}, size : Nat]
<1>0. /\ rxBuffer \in Seq(Nat) /\ Len(rxBuffer) \in Nat /\ Len(buf) \in Nat
      /\ rxMode \in ModeType /\ rxMode.size \in Nat
  BY DEF RxTypeOK
<1>1. CASE ~open \/ rxMode.kind = "NONE"
  <2>1. o = [fromBuffer |-> 0, fromBuf |-> 0, mode |-> rxMode]
    BY <1>1 DEF Outcomes
  <2> QED BY <1>0, <2>1 DEF Fits
<1>2. CASE open /\ rxMode.kind = "FREE"
  <2>1. o \in OutcomeFree(buf) /\ (o.fromBuf > 0 => o.fromBuffer = Len(rxBuffer))
    BY <1>2 DEF Outcomes
  <2>2. PICK r \in 0 .. Len(rxBuffer), n \in 0 .. Len(buf), m \in Modes :
          o = [fromBuffer |-> r, fromBuf |-> n, mode |-> m]
    BY <2>1 DEF OutcomeFree
  <2>3. m \in ModeType
    BY ModesTyped
  <2>4. o.fromBuffer = r /\ o.fromBuf = n /\ o.mode = m
    BY <2>2
  <2>5. n # 0 => r = Len(rxBuffer)
    BY <1>0, <2>1, <2>4
  <2> QED BY <2>3, <2>4, <2>5 DEF Fits
<1>3. CASE open /\ rxMode.kind = "READ_BYTES"
  <2> DEFINE r == Smaller(rxMode.size, Len(rxBuffer))
             n == IF r = Len(rxBuffer) THEN Smaller(rxMode.size - r, Len(buf)) ELSE 0
             rest == rxMode.size - r - n
  <2>1. r \in 0 .. Len(rxBuffer) /\ r <= rxMode.size
    BY <1>0 DEF Smaller
  <2>2. n \in 0 .. Len(buf) /\ rest \in Nat /\ (n # 0 => r = Len(rxBuffer))
    <3>1. rxMode.size - r \in Nat
      BY <1>0, <2>1
    <3>2. Smaller(rxMode.size - r, Len(buf)) \in 0 .. Len(buf) /\ Smaller(rxMode.size - r, Len(buf)) <= rxMode.size - r
      BY <1>0, <3>1 DEF Smaller
    <3> HIDE DEF r
    <3> QED BY <1>0, <2>1, <3>1, <3>2
  <2>3. o \in OutcomeBytes(buf)
    BY <1>3 DEF Outcomes
  <2>4. PICK m \in (IF rest = 0 THEN Modes ELSE {[rxMode EXCEPT !.size = rest]}) :
          o = [fromBuffer |-> r, fromBuf |-> n, mode |-> m]
    BY <2>3, Zenon DEF OutcomeBytes
  <2> HIDE DEF r, n, rest
  <2>5. m \in ModeType
    <3>1. CASE rest = 0
      BY <2>4, <3>1, ModesTyped
    <3>2. CASE rest # 0
      BY <1>0, <2>2, <2>4, <3>2
    <3> QED BY <3>1, <3>2
  <2>6. o.fromBuffer = r /\ o.fromBuf = n /\ o.mode = m
    BY <2>4
  <2> QED BY <2>1, <2>2, <2>5, <2>6 DEF Fits
<1>4. CASE open /\ rxMode.kind = "TERMINATOR_STRING"
  <2> DEFINE r == Until(rxBuffer)
             n == IF EndsIn(rxBuffer, r) THEN 0 ELSE Until(buf)
  <2>1. r \in 0 .. Len(rxBuffer) /\ (r # Len(rxBuffer) => EndsIn(rxBuffer, r))
    BY <1>0, UntilFacts
  <2>2. Until(buf) \in 0 .. Len(buf) /\ 0 \in 0 .. Len(buf)
    BY <1>0, UntilFacts
  <2>3. o \in OutcomeString(buf)
    BY <1>4 DEF Outcomes
  <2>4. PICK m \in (IF EndsIn(rxBuffer, r) \/ EndsIn(buf, n) THEN Modes ELSE {rxMode}) :
          o = [fromBuffer |-> r, fromBuf |-> n, mode |-> m]
    BY <2>3, Zenon DEF OutcomeString
  <2>5. n \in 0 .. Len(buf) /\ (n # 0 => r = Len(rxBuffer))
    <3> HIDE DEF r
    <3> QED BY <2>1, <2>2
  <2> HIDE DEF r, n
  <2>6. m \in ModeType
    BY <1>0, <2>4, ModesTyped
  <2>7. o.fromBuffer = r /\ o.fromBuf = n /\ o.mode = m
    BY <2>4
  <2> QED BY <2>1, <2>5, <2>6, <2>7 DEF Fits
<1> QED BY <1>0, <1>1, <1>2, <1>3, <1>4

\* Three sequences one after the other, however they are joined.
LEMMA Joined ==
  ASSUME NEW x \in Seq(Nat), NEW y \in Seq(Nat), NEW z \in Seq(Nat)
  PROVE  (x \o y) \o z = x \o (y \o z)
BY BytesConcat

\* Two sequences of bytes one after the other are one.
LEMMA JoinedTyped ==
  ASSUME NEW x \in Seq(Nat), NEW y \in Seq(Nat)
  PROVE  x \o y \in Seq(Nat)
BY BytesConcat

Reordered(h, tr, wr, tb, wb) ==
  /\ ((h \o tr) \o tb) \o (wr \o wb) = h \o ((tr \o wr) \o (tb \o wb))
  /\ (h \o tr) \o tb \in Seq(Nat)

\* A reader that takes nothing of the second sequence before the first is empty takes them in order.
LEMMA JoinedInOrder ==
  ASSUME NEW h \in Seq(Nat), NEW tr \in Seq(Nat), NEW wr \in Seq(Nat), NEW tb \in Seq(Nat), NEW wb \in Seq(Nat),
         tb \o wr = wr \o tb
  PROVE  Reordered(h, tr, wr, tb, wb)
<1>1. h \o tr \in Seq(Nat)
  BY JoinedTyped
<1>2. wr \o wb \in Seq(Nat)
  BY JoinedTyped
<1>3. tb \o wb \in Seq(Nat)
  BY JoinedTyped
<1>4. wr \o (tb \o wb) \in Seq(Nat)
  BY <1>3, JoinedTyped
<1>5. (h \o tr) \o tb \in Seq(Nat)
  BY <1>1, JoinedTyped
<1>6. ((h \o tr) \o tb) \o (wr \o wb) = (h \o tr) \o (tb \o (wr \o wb))
  BY <1>1, <1>2, Joined
<1>7. (tb \o wr) \o wb = tb \o (wr \o wb)
  BY Joined
<1>8. (wr \o tb) \o wb = wr \o (tb \o wb)
  BY Joined
<1>9. (h \o tr) \o (wr \o (tb \o wb)) = h \o (tr \o (wr \o (tb \o wb)))
  BY <1>4, Joined
<1>10. (tr \o wr) \o (tb \o wb) = tr \o (wr \o (tb \o wb))
  BY <1>3, Joined
<1>11. tb \o (wr \o wb) = wr \o (tb \o wb)
  BY <1>7, <1>8, Zenon
<1>12. ((h \o tr) \o tb) \o (wr \o wb) = h \o ((tr \o wr) \o (tb \o wb))
  BY <1>6, <1>9, <1>10, <1>11, Zenon
<1> QED BY <1>5, <1>12 DEF Reordered

\* What a reader takes is what comes next.
ReadOn(h, r, b, k, n) ==
  /\ ((h \o Taken(r, k)) \o Taken(b, n)) \o (Without(r, k) \o Without(b, n)) = h \o (r \o b)
  /\ (h \o Taken(r, k)) \o Taken(b, n) \in Seq(Nat)
  /\ Without(r, k) \in Seq(Nat) /\ Without(b, n) \in Seq(Nat)

\* What a reader takes is the next of what is there.
LEMMA ReadNext ==
  ASSUME NEW h \in Seq(Nat), NEW r \in Seq(Nat), NEW b \in Seq(Nat),
         NEW k \in 0 .. Len(r), NEW n \in 0 .. Len(b), n # 0 => k = Len(r)
  PROVE  ReadOn(h, r, b, k, n)
<1> DEFINE tr == Taken(r, k)  wr == Without(r, k)  tb == Taken(b, n)  wb == Without(b, n)
<1>1. /\ tr \in Seq(Nat) /\ wr \in Seq(Nat) /\ tr \o wr = r
      /\ Len(tr) = k /\ Len(wr) = Len(r) - k
  BY TakenFacts
<1>2. /\ tb \in Seq(Nat) /\ wb \in Seq(Nat) /\ tb \o wb = b
      /\ Len(tb) = n /\ Len(wb) = Len(b) - n
  BY TakenFacts
<1> HIDE DEF tr, wr, tb, wb
<1>3. tb \o wr = wr \o tb
  <2>1. \A a \in Seq(Nat) : a \o <<>> = a /\ <<>> \o a = a
    BY BytesConcat
  <2>2. CASE n = 0
    <3>1. tb = <<>>
      BY <1>2, <2>2
    <3> QED BY <1>1, <2>1, <3>1
  <2>3. CASE n # 0
    <3>1. wr = <<>>
      BY <1>1, <2>3
    <3> QED BY <1>2, <2>1, <3>1
  <2> QED BY <2>2, <2>3
<1>a. tr \in Seq(Nat) /\ wr \in Seq(Nat) /\ tb \in Seq(Nat) /\ wb \in Seq(Nat)
  BY <1>1, <1>2
<1>4. /\ ((h \o tr) \o tb) \o (wr \o wb) = h \o ((tr \o wr) \o (tb \o wb))
      /\ (h \o tr) \o tb \in Seq(Nat)
  <2>1. Reordered(h, tr, wr, tb, wb)
    BY <1>a, <1>3, JoinedInOrder, Zenon
  <2> QED BY <2>1, Zenon DEF Reordered
<1>5. h \o ((tr \o wr) \o (tb \o wb)) = h \o (r \o b)
  BY <1>1, <1>2, Zenon
<1>6. /\ ((h \o tr) \o tb) \o (wr \o wb) = h \o (r \o b)
      /\ (h \o tr) \o tb \in Seq(Nat) /\ wr \in Seq(Nat) /\ wb \in Seq(Nat)
  BY <1>1, <1>2, <1>4, <1>5, Zenon
<1> QED BY <1>6, Zenon DEF tr, wr, tb, wb, ReadOn

\* _handleRxBuffer keeps the bytes in order.
LEMMA HandleKeeps ==
  ASSUME RxInv, NEW buf \in Seq(Nat), NEW o \in Outcomes(buf), HandleRx(buf, o)
  PROVE  /\ handed' \o (rxBuffer' \o Without(buf, o.fromBuf)) = handed \o (rxBuffer \o buf)
         /\ handed' \in Seq(Nat) /\ rxBuffer' \in Seq(Nat) /\ Without(buf, o.fromBuf) \in Seq(Nat)
         /\ rxMode' \in [kind : {"NONE", "FREE", "READ_BYTES", "TERMINATOR_STRING"}, size : Nat]
<1> DEFINE k == o.fromBuffer
           n == o.fromBuf
<1>1. /\ k \in 0 .. Len(rxBuffer) /\ n \in 0 .. Len(buf) /\ (n # 0 => k = Len(rxBuffer))
      /\ o.mode \in [kind : {"NONE", "FREE", "READ_BYTES", "TERMINATOR_STRING"}, size : Nat]
  BY OutcomesFit DEF RxInv, Fits
<1>2. handed \in Seq(Nat) /\ rxBuffer \in Seq(Nat)
  BY DEF RxInv, RxTypeOK
<1>3. /\ handed' = (handed \o Taken(rxBuffer, k)) \o Taken(buf, n)
      /\ rxBuffer' = Without(rxBuffer, k) /\ rxMode' = o.mode
  BY Zenon DEF HandleRx
<1> HIDE DEF k, n
<1>4. /\ ((handed \o Taken(rxBuffer, k)) \o Taken(buf, n)) \o (Without(rxBuffer, k) \o Without(buf, n)) = handed \o (rxBuffer \o buf)
      /\ (handed \o Taken(rxBuffer, k)) \o Taken(buf, n) \in Seq(Nat)
      /\ Without(rxBuffer, k) \in Seq(Nat) /\ Without(buf, n) \in Seq(Nat)
  <2>1. ReadOn(handed, rxBuffer, buf, k, n)
    BY <1>1, <1>2, ReadNext, Zenon
  <2> QED BY <2>1, Zenon DEF ReadOn
<1> QED BY <1>1, <1>3, <1>4 DEF k, n

\* A round of _rxData keeps the bytes in order.
LEMMA RxStepKeeps == RxInv /\ (RxData \/ HandleFirst \/ StoreRest \/ HandleRest) => RxInv'
<1> SUFFICES ASSUME RxInv, RxData \/ HandleFirst \/ StoreRest \/ HandleRest PROVE RxInv'
  OBVIOUS
<1> USE DEF RxInv
<1>0. /\ rxBuffer \in Seq(Nat) /\ handed \in Seq(Nat) /\ received \in Nat
      /\ rxMode \in [kind : {"NONE", "FREE", "READ_BYTES", "TERMINATOR_STRING"}, size : Nat]
      /\ rxCall \in [phase : {"idle", "first", "more", "store", "rest"}, buf : Seq(Nat)]
      /\ rxCall.buf \in Seq(Nat)
      /\ handed \o (rxBuffer \o rxCall.buf) = Numbers(received)
      /\ rxCall.phase \in {"idle", "rest"} => rxCall.buf = <<>>
  BY DEF RxTypeOK, RxFlow
<1>1. \A x, y, z \in Seq(Nat) : (x \o y) \o z = x \o (y \o z)
  BY BytesConcat
<1>2. \A x, y \in Seq(Nat) : x \o y \in Seq(Nat) /\ x \o <<>> = x /\ <<>> \o x = x
  BY BytesConcat
<1>3. CASE RxData
  <2>1. PICK n \in 1 .. MaxReceived - received :
          /\ rxCall' = [phase |-> "first", buf |-> [i \in 1 .. n |-> received + i]]
          /\ received' = received + n
    BY <1>3 DEF RxData
  <2>2. n \in Nat
    BY <1>0, StreamAssumption
  <2>3. rxBuffer' = rxBuffer /\ rxMode' = rxMode /\ handed' = handed /\ rxCall.phase = "idle"
    BY <1>3 DEF RxData, Quiet
  <2> DEFINE w == [i \in 1 .. n |-> received + i]
  <2>4. Numbers(received + n) = Numbers(received) \o w /\ w \in Seq(Nat)
    BY <1>0, <2>2, NumbersGrow
  <2>5. rxCall' = [phase |-> "first", buf |-> w]
    BY <2>1
  <2> HIDE DEF w
  <2>6. rxCall'.buf = w /\ rxCall'.phase = "first"
        /\ rxCall' \in [phase : {"idle", "first", "more", "store", "rest"}, buf : Seq(Nat)]
    BY <2>4, <2>5
  <2>7. handed \o rxBuffer = Numbers(received)
    BY <1>0, <1>2, <2>3
  <2>8. (handed \o rxBuffer) \o w = handed \o (rxBuffer \o w)
    BY <1>0, <1>1, <2>4, Zenon
  <2>9. RxTypeOK'
    BY <1>0, <2>1, <2>2, <2>3, <2>6 DEF RxTypeOK
  <2>10. RxFlow'
    BY <2>1, <2>3, <2>4, <2>6, <2>7, <2>8 DEF RxFlow
  <2> QED BY <2>9, <2>10
<1>4. CASE HandleFirst
  <2>1. PICK o \in Outcomes(rxCall.buf) :
          /\ HandleRx(rxCall.buf, o)
          /\ rxCall' = [phase |-> IF rxBuffer' = <<>> /\ o.fromBuf # 0 THEN "more" ELSE "store",
                        buf   |-> Without(rxCall.buf, o.fromBuf)]
    BY <1>4 DEF HandleFirst
  <2>2. /\ handed' \o (rxBuffer' \o Without(rxCall.buf, o.fromBuf)) = handed \o (rxBuffer \o rxCall.buf)
        /\ handed' \in Seq(Nat) /\ rxBuffer' \in Seq(Nat) /\ Without(rxCall.buf, o.fromBuf) \in Seq(Nat)
        /\ rxMode' \in [kind : {"NONE", "FREE", "READ_BYTES", "TERMINATOR_STRING"}, size : Nat]
    BY <1>0, <2>1, HandleKeeps
  <2>3. /\ rxCall'.buf = Without(rxCall.buf, o.fromBuf) /\ rxCall'.phase \in {"more", "store"}
        /\ rxCall' \in [phase : {"idle", "first", "more", "store", "rest"}, buf : Seq(Nat)]
    BY <2>1, <2>2
  <2>4. received' = received
    BY <1>4 DEF HandleFirst
  <2>5. RxTypeOK'
    BY <1>0, <2>2, <2>3, <2>4 DEF RxTypeOK
  <2>6. RxFlow'
    BY <1>0, <2>2, <2>3, <2>4 DEF RxFlow
  <2> QED BY <2>5, <2>6
<1>5. CASE StoreRest
  <2>1. /\ rxBuffer' = rxBuffer \o rxCall.buf /\ rxCall' = [phase |-> "rest", buf |-> <<>>]
        /\ rxMode' = rxMode /\ handed' = handed /\ received' = received
    BY <1>5 DEF StoreRest
  <2>2. rxBuffer' \in Seq(Nat) /\ rxBuffer' \o <<>> = rxBuffer \o rxCall.buf
    BY <1>0, <1>2, <2>1
  <2>3. rxCall' \in [phase : {"idle", "first", "more", "store", "rest"}, buf : Seq(Nat)] /\ rxCall'.buf = <<>>
    BY <2>1
  <2>4. RxTypeOK'
    BY <1>0, <2>1, <2>2, <2>3 DEF RxTypeOK
  <2>5. RxFlow'
    BY <1>0, <2>1, <2>2, <2>3 DEF RxFlow
  <2> QED BY <2>4, <2>5
<1>6. CASE HandleRest
  <2>1. /\ rxCall.buf = <<>> /\ rxCall' = [rxCall EXCEPT !.phase = "idle"] /\ received' = received
    BY <1>0, <1>6 DEF HandleRest
  <2>2. rxCall' \in [phase : {"idle", "first", "more", "store", "rest"}, buf : Seq(Nat)] /\ rxCall'.buf = <<>>
    BY <1>0, <2>1
  <2>3. /\ handed' \o (rxBuffer' \o <<>>) = handed \o (rxBuffer \o <<>>)
        /\ handed' \in Seq(Nat) /\ rxBuffer' \in Seq(Nat)
        /\ rxMode' \in [kind : {"NONE", "FREE", "READ_BYTES", "TERMINATOR_STRING"}, size : Nat]
    <3>1. CASE UNCHANGED <<rxBuffer, rxMode, handed>>
      BY <1>0, <3>1
    <3>2. CASE \E o \in Outcomes(<<>>) : HandleRx(<<>>, o)
      <4>1. PICK o \in Outcomes(<<>>) : HandleRx(<<>>, o)
        BY <3>2
      <4>2. <<>> \in Seq(Nat)
        OBVIOUS
      <4>3. /\ handed' \o (rxBuffer' \o Without(<<>>, o.fromBuf)) = handed \o (rxBuffer \o <<>>)
            /\ handed' \in Seq(Nat) /\ rxBuffer' \in Seq(Nat) /\ Without(<<>>, o.fromBuf) \in Seq(Nat)
            /\ rxMode' \in [kind : {"NONE", "FREE", "READ_BYTES", "TERMINATOR_STRING"}, size : Nat]
        BY <4>1, <4>2, HandleKeeps
      <4>4. Without(<<>>, o.fromBuf) = <<>>
        <5>1. o.fromBuf \in 0 .. Len(<<>>) /\ Len(<<>>) = 0
          BY <4>1, <4>2, OutcomesFit DEF Fits
        <5>2. o.fromBuf = 0
          BY <5>1
        <5> QED BY <5>2 DEF Without
      <4> QED BY <4>3, <4>4
    <3> QED BY <1>6, <3>1, <3>2 DEF HandleRest
  <2>4. RxTypeOK'
    BY <1>0, <2>1, <2>2, <2>3 DEF RxTypeOK
  <2>5. RxFlow'
    BY <1>0, <2>1, <2>2, <2>3 DEF RxFlow
  <2> QED BY <2>4, <2>5
<1> QED BY <1>3, <1>4, <1>5, <1>6

\* A new mode of the reader moves no byte.
LEMMA ModeKeeps == RxInv /\ (SetMode \/ StopClient) => RxInv'
<1> SUFFICES ASSUME RxInv, SetMode \/ StopClient PROVE RxInv'
  OBVIOUS
<1>1. rxMode' \in [kind : {"NONE", "FREE", "READ_BYTES", "TERMINATOR_STRING"}, size : Nat]
  BY ModesTyped DEF RxInv, RxTypeOK, SetMode, StopClient, NoMode
<1>2. rxBuffer' = rxBuffer /\ rxCall' = rxCall /\ handed' = handed /\ received' = received
  BY DEF SetMode, StopClient
<1> QED BY <1>1, <1>2 DEF RxInv, RxTypeOK, RxFlow

\* A step that changes nothing of the buffer keeps its invariant.
LEMMA BufferStays == TxInv /\ RxInv /\ [BufferNext]_asyncBufferVars => (TxInv /\ RxInv)'
<1> SUFFICES ASSUME TxInv, RxInv, [BufferNext]_asyncBufferVars PROVE TxInv' /\ RxInv'
  OBVIOUS
<1>1. CASE UNCHANGED asyncBufferVars
  BY <1>1, TxStays, RxStays DEF asyncBufferVars
<1>2. CASE WriteBytes \/ FillBuffer \/ SendPiece \/ SendEnds \/ FlushBegins \/ SendAgain \/ FlushEnds
  <2>1. UNCHANGED rxVars
    BY <1>2 DEF WriteBytes, FillBuffer, SendPiece, SendEnds, FlushBegins, SendAgain, FlushEnds
  <2> QED BY <1>2, <2>1, RxStays, CallRxKeeps, FillKeeps, SendChainKeeps, SendEndKeeps
<1>3. CASE RxData \/ HandleFirst \/ StoreRest \/ HandleRest \/ SetMode \/ StopClient
  <2>1. UNCHANGED txVars
    BY <1>3 DEF RxData, HandleFirst, StoreRest, HandleRest, SetMode, StopClient
  <2> QED BY <1>3, <2>1, TxStays, RxStepKeeps, ModeKeeps
<1> QED BY <1>1, <1>2, <1>3 DEF BufferNext

\* Every step keeps the invariant of the buffer.
LEMMA BufferInvKeeps == TxInv /\ RxInv => StreamKept
<1> SUFFICES ASSUME TxInv, RxInv PROVE StreamKept
  OBVIOUS
<1>1. stack \o FlattenSeq(chain) = [i \in 1 .. written |-> i]
  BY DEF TxInv, TxFlow, Numbers
<1>2. handed \o rxBuffer \o rxCall.buf = [i \in 1 .. received |-> i]
  <2>1. handed \in Seq(Nat) /\ rxBuffer \in Seq(Nat) /\ rxCall.buf \in Seq(Nat)
    BY DEF RxInv, RxTypeOK
  <2>2. (handed \o rxBuffer) \o rxCall.buf = handed \o (rxBuffer \o rxCall.buf)
    BY <2>1, BytesConcat, Zenon
  <2> QED BY <2>2 DEF RxInv, RxFlow, Numbers
<1>3. sending.phase = "idle" /\ Len(chain) > 1 => Head(chain) # <<>> /\ Last(chain) # <<>>
  <2>1. SUFFICES ASSUME sending.phase = "idle", Len(chain) > 1 PROVE Head(chain) # <<>> /\ Last(chain) # <<>>
    OBVIOUS
  <2>2. chain \in Seq(Seq(Nat)) /\ chain # <<>> /\ Head(chain) = chain[1] /\ 1 \in 1 .. Len(chain) - 1
    BY <2>1 DEF TxInv, TxTypeOK
  <2>3. chain[1] # <<>> /\ chain[Len(chain)] # <<>>
    BY <2>1, <2>2 DEF TxInv, ChainInv
  <2> QED BY <2>2, <2>3, LastOfChain
<1> QED BY <1>1, <1>2, <1>3 DEF StreamKept

\* The bytes written reach the stack, and those received the reader, in
\* order and whole; no buffer of the chain is empty but a chain of one.
THEOREM StreamIsKept == BufferSpec => []StreamKept
<1>1. TxInv /\ RxInv => StreamKept
  BY BufferInvKeeps
<1> QED BY BufferStarts, BufferStays, <1>1, PTL DEF BufferSpec

-----------------------------------------------------------------------------
(* SyncClient: what is left of the chunks.                                 *)

\* What is left of a row of chunks.
Lefts(cs) == [i \in 1 .. Len(cs) |-> cs[i].left]
Left(cs) == FlattenSeq(Lefts(cs))

\* What is left of a row of chunks is a row of sequences of bytes.
LEMMA LeftsTyped ==
  ASSUME NEW cs \in Seq(Chunk)
  PROVE  /\ Lefts(cs) \in Seq(Seq(Nat)) /\ Len(Lefts(cs)) = Len(cs) /\ Len(cs) \in Nat
         /\ \A i \in 1 .. Len(cs) : Lefts(cs)[i] = cs[i].left
         /\ Left(cs) \in Seq(Nat)
<1>1. Len(cs) \in Nat /\ \A i \in 1 .. Len(cs) : cs[i].left \in Seq(Nat)
  BY ChunkAt
<1>2. /\ Lefts(cs) \in Seq(Seq(Nat)) /\ Len(Lefts(cs)) = Len(cs)
      /\ \A i \in 1 .. Len(cs) : Lefts(cs)[i] = cs[i].left
  BY <1>1 DEF Lefts
<1>3. Left(cs) \in Seq(Nat)
  BY <1>2, BytesFlatten, Zenon DEF Left
<1> QED BY <1>1, <1>2, <1>3

\* Concatenation, of rows of sequences of bytes.
LEMMA RowConcat ==
  ASSUME NEW x \in Seq(Seq(Nat)), NEW y \in Seq(Seq(Nat))
  PROVE  /\ x \o y \in Seq(Seq(Nat)) /\ Len(x \o y) = Len(x) + Len(y)
         /\ \A i \in 1 .. Len(x) + Len(y) : (x \o y)[i] = IF i <= Len(x) THEN x[i] ELSE y[i - Len(x)]
<1> DEFINE S == Seq(Nat)
<1>1. x \in Seq(S) /\ y \in Seq(S)
  OBVIOUS
<1> HIDE DEF S
<1>2. /\ x \o y \in Seq(S) /\ Len(x \o y) = Len(x) + Len(y)
      /\ \A i \in 1 .. Len(x) + Len(y) : (x \o y)[i] = IF i <= Len(x) THEN x[i] ELSE y[i - Len(x)]
  BY <1>1, ConcatProperties
<1> QED BY <1>2 DEF S

\* What is left of two rows of chunks is what is left of one and of the other.
LEMMA LeftConcat ==
  ASSUME NEW a \in Seq(Chunk), NEW b \in Seq(Chunk)
  PROVE  Left(a \o b) = Left(a) \o Left(b)
<1>1. /\ Lefts(a) \in Seq(Seq(Nat)) /\ Len(Lefts(a)) = Len(a) /\ Len(a) \in Nat
      /\ \A i \in 1 .. Len(a) : Lefts(a)[i] = a[i].left
  BY LeftsTyped
<1>2. /\ Lefts(b) \in Seq(Seq(Nat)) /\ Len(Lefts(b)) = Len(b) /\ Len(b) \in Nat
      /\ \A i \in 1 .. Len(b) : Lefts(b)[i] = b[i].left
  BY LeftsTyped
<1>3. /\ a \o b \in Seq(Chunk) /\ Len(a \o b) = Len(a) + Len(b)
      /\ \A i \in 1 .. Len(a) + Len(b) : (a \o b)[i] = IF i <= Len(a) THEN a[i] ELSE b[i - Len(a)]
  BY ConcatProperties
<1>4. /\ Lefts(a \o b) \in Seq(Seq(Nat)) /\ Len(Lefts(a \o b)) = Len(a \o b)
      /\ \A i \in 1 .. Len(a \o b) : Lefts(a \o b)[i] = (a \o b)[i].left
  BY <1>3, LeftsTyped
<1>5. /\ Lefts(a) \o Lefts(b) \in Seq(Seq(Nat)) /\ Len(Lefts(a) \o Lefts(b)) = Len(a) + Len(b)
      /\ \A i \in 1 .. Len(a) + Len(b) :
            (Lefts(a) \o Lefts(b))[i] = IF i <= Len(a) THEN Lefts(a)[i] ELSE Lefts(b)[i - Len(a)]
  <2>1. /\ Lefts(a) \o Lefts(b) \in Seq(Seq(Nat)) /\ Len(Lefts(a) \o Lefts(b)) = Len(Lefts(a)) + Len(Lefts(b))
        /\ \A i \in 1 .. Len(Lefts(a)) + Len(Lefts(b)) :
            (Lefts(a) \o Lefts(b))[i] = IF i <= Len(Lefts(a)) THEN Lefts(a)[i] ELSE Lefts(b)[i - Len(Lefts(a))]
    <3>1. Lefts(a) \in Seq(Seq(Nat)) /\ Lefts(b) \in Seq(Seq(Nat))
      BY <1>1, <1>2
    <3> QED BY <3>1, RowConcat
  <2> QED BY <1>1, <1>2, <2>1
<1>6. \A i \in 1 .. Len(Lefts(a \o b)) : Lefts(a \o b)[i] = (Lefts(a) \o Lefts(b))[i]
  <2>1. TAKE i \in 1 .. Len(Lefts(a \o b))
  <2>2. i \in 1 .. Len(a) + Len(b) /\ i \in 1 .. Len(a \o b)
    BY <1>3, <1>4
  <2>3. CASE i <= Len(a)
    <3>1. i \in 1 .. Len(a)
      BY <1>1, <1>2, <2>2, <2>3
    <3> QED BY <1>1, <1>3, <1>4, <1>5, <2>2, <2>3, <3>1
  <2>4. CASE ~(i <= Len(a))
    <3>1. i - Len(a) \in 1 .. Len(b)
      BY <1>1, <1>2, <2>2, <2>4
    <3>2. Lefts(a \o b)[i] = b[i - Len(a)].left
      BY <1>3, <1>4, <2>2, <2>4
    <3>3. (Lefts(a) \o Lefts(b))[i] = Lefts(b)[i - Len(a)]
      BY <1>5, <2>2, <2>4
    <3> QED BY <1>2, <3>1, <3>2, <3>3
  <2> QED BY <2>3, <2>4
<1>7. Lefts(a \o b) = Lefts(a) \o Lefts(b)
  <2>1. Len(Lefts(a \o b)) = Len(Lefts(a) \o Lefts(b))
    BY <1>3, <1>4, <1>5
  <2> QED BY <1>4, <1>5, <1>6, <2>1, SeqEqual
<1>8. FlattenSeq(Lefts(a) \o Lefts(b)) = FlattenSeq(Lefts(a)) \o FlattenSeq(Lefts(b))
  BY <1>1, <1>2, BytesFlatten, Zenon
<1> QED BY <1>7, <1>8 DEF Left

\* A row of one chunk, and of none.
LEMMA LeftOne ==
  ASSUME NEW c \in Chunk
  PROVE  Left(<<c>>) = c.left /\ Left(<<>>) = <<>> /\ c.left \in Seq(Nat) /\ <<c>> \in Seq(Chunk)
<1>1. c.left \in Seq(Nat) /\ <<c>> \in Seq(Chunk) /\ Len(<<c>>) = 1 /\ <<c>>[1] = c /\ Len(<<>>) = 0
  BY DEF Chunk
<1>2. Lefts(<<c>>) = <<c.left>>
  <2>1. /\ Lefts(<<c>>) \in Seq(Seq(Nat)) /\ Len(Lefts(<<c>>)) = 1
        /\ \A i \in 1 .. 1 : Lefts(<<c>>)[i] = c.left
    BY <1>1 DEF Lefts
  <2>2. <<c.left>> \in Seq(Seq(Nat)) /\ Len(<<c.left>>) = 1 /\ \A i \in 1 .. 1 : <<c.left>>[i] = c.left
    BY <1>1
  <2>3. \A i \in 1 .. Len(Lefts(<<c>>)) : Lefts(<<c>>)[i] = <<c.left>>[i]
    BY <2>1, <2>2
  <2> QED BY <2>1, <2>2, <2>3, SeqEqual
<1>3. Lefts(<<>>) = <<>>
  BY <1>1 DEF Lefts
<1>4. FlattenSeq(<<c.left>>) = c.left /\ FlattenSeq(<<>>) = <<>>
  BY <1>1, BytesFlatten, Zenon
<1> QED BY <1>1, <1>2, <1>3, <1>4 DEF Left

\* The beginning of two sequences one after the other.
LEMMA PrefixIs ==
  ASSUME NEW a \in Seq(Nat), NEW b \in Seq(Nat)
  PROVE  SubSeq(a \o b, 1, Len(a)) = a
<1>0. Len(a) \in Nat /\ Len(b) \in Nat /\ \A i \in 1 .. Len(a) : a[i] \in Nat
  OBVIOUS
<1>1. /\ a \o b \in Seq(Nat) /\ Len(a \o b) = Len(a) + Len(b)
      /\ \A i \in 1 .. Len(a) + Len(b) : (a \o b)[i] = IF i <= Len(a) THEN a[i] ELSE b[i - Len(a)]
  BY ConcatProperties
<1>2. \A i \in 1 .. Len(a) : (a \o b)[i] = a[i]
  BY <1>0, <1>1
<1> DEFINE u == a \o b
<1>3. u \in Seq(Nat) /\ Len(u) = Len(a) + Len(b) /\ \A i \in 1 .. Len(a) : u[i] = a[i]
  BY <1>1, <1>2
<1> HIDE DEF u
<1>4. SubSeq(u, 1, Len(a)) \in Seq(Nat) /\ Len(SubSeq(u, 1, Len(a))) = Len(a)
      /\ \A i \in 1 .. Len(a) : SubSeq(u, 1, Len(a))[i] = u[i]
  BY <1>0, <1>3
<1>5. \A i \in 1 .. Len(SubSeq(u, 1, Len(a))) : SubSeq(u, 1, Len(a))[i] = a[i]
  BY <1>3, <1>4
<1> QED BY <1>4, <1>5, SeqEqual DEF u

\* A row of chunks in two.
LEMMA ChunksCut ==
  ASSUME NEW cs \in Seq(Chunk), NEW k \in 0 .. Len(cs)
  PROVE  /\ SubSeq(cs, 1, k) \in Seq(Chunk) /\ SubSeq(cs, k + 1, Len(cs)) \in Seq(Chunk)
         /\ cs = SubSeq(cs, 1, k) \o SubSeq(cs, k + 1, Len(cs))
         /\ Len(SubSeq(cs, 1, k)) = k /\ Len(SubSeq(cs, k + 1, Len(cs))) = Len(cs) - k
         /\ FlattenSeq([i \in 1 .. k |-> cs[i].left]) = Left(SubSeq(cs, 1, k))
         /\ \A i \in 1 .. Len(cs) - k : SubSeq(cs, k + 1, Len(cs))[i] = cs[k + i]
<1>0. Len(cs) \in Nat
  OBVIOUS
<1>1. SubSeq(cs, 1, k) \in Seq(Chunk) /\ Len(SubSeq(cs, 1, k)) = k /\ \A i \in 1 .. k : SubSeq(cs, 1, k)[i] = cs[i]
  BY <1>0
<1>2. SubSeq(cs, k + 1, Len(cs)) \in Seq(Chunk) /\ Len(SubSeq(cs, k + 1, Len(cs))) = Len(cs) - k
  BY <1>0
<1>3. \A i \in 1 .. Len(cs) - k : SubSeq(cs, k + 1, Len(cs))[i] = cs[k + i]
  BY <1>0
<1>4. cs = SubSeq(cs, 1, k) \o SubSeq(cs, k + 1, Len(cs))
  <2>1. 1 \in 1 .. Len(cs) + 1 /\ k \in 1 - 1 .. Len(cs) /\ Len(cs) \in k .. Len(cs)
    BY <1>0
  <2>2. SubSeq(cs, 1, k) \o SubSeq(cs, k + 1, Len(cs)) = SubSeq(cs, 1, Len(cs))
    BY <2>1, ConcatAdjacentSubSeq
  <2>3. SubSeq(cs, 1, Len(cs)) = cs
    BY SubSeqFull
  <2> QED BY <2>2, <2>3
<1>5. [i \in 1 .. k |-> cs[i].left] = Lefts(SubSeq(cs, 1, k))
  BY <1>1 DEF Lefts
<1> QED BY <1>1, <1>2, <1>3, <1>4, <1>5 DEF Left

\* What the first k chunks hold.
FirstOf(cs, k) == FlattenSeq([i \in 1 .. k |-> cs[i].left])

\* The chunks that stay: those behind the first k, the first of them shortened.
StayOf(cs, k, some) ==
  LET rest == SubSeq(cs, k + 1, Len(cs))
  IN  IF some = 0 THEN rest ELSE [rest EXCEPT ![1].left = SubSeq(@, some + 1, Len(@))]

\* A set of numbers up to l that is not empty has a greatest one.
LEMMA GreatestNumber ==
  ASSUME NEW l \in Nat, NEW T \in SUBSET (0 .. l), T # {}
  PROVE  \E m \in T : \A n \in T : n <= m
<1> DEFINE D == {l - n : n \in T}
<1>0. \A n \in T : n \in 0 .. l /\ l - n \in Nat
  OBVIOUS
<1>1. D \in SUBSET Nat /\ D # {}
  BY <1>0, Zenon
<1> HIDE DEF D
<1>2. PICK d \in D : \A e \in D : d <= e
  BY <1>1, LeastNumber
<1>3. PICK m \in T : d = l - m
  BY <1>2 DEF D
<1>4. ASSUME NEW n \in T PROVE n <= m
  <2>1. l - n \in D
    BY DEF D
  <2>2. d <= l - n
    BY <1>2, <2>1
  <2>3. l \in Nat /\ m \in 0 .. l /\ n \in 0 .. l
    BY <1>0, <1>3, <1>4
  <2> QED BY <1>3, <2>2, <2>3
<1> QED BY <1>4

\* One chunk shortened.
LEMMA Shortened ==
  ASSUME NEW r \in Seq(Chunk), r # <<>>, NEW some \in Nat, some < Len(r[1].left)
  PROVE  /\ [r EXCEPT ![1].left = SubSeq(@, some + 1, Len(@))] \in Seq(Chunk)
         /\ SizeOf([r EXCEPT ![1].left = SubSeq(@, some + 1, Len(@))]) = SizeOf(r)
         /\ Taken(r[1].left, some) \in Seq(Nat) /\ Len(Taken(r[1].left, some)) = some
         /\ Taken(r[1].left, some) \o Left([r EXCEPT ![1].left = SubSeq(@, some + 1, Len(@))]) = Left(r)
<1> DEFINE c == r[1]
           b == c.left
           e == [c EXCEPT !.left = Without(b, some)]
           w == [r EXCEPT ![1] = e]
<1>1. 1 \in 1 .. Len(r) /\ Len(r) \in Nat
  OBVIOUS
<1>2. c \in Chunk /\ c.size \in Nat /\ b \in Seq(Nat)
  BY <1>1, ChunkAt
<1>3. some \in 0 .. Len(b)
  BY <1>2
<1>4. /\ Taken(b, some) \in Seq(Nat) /\ Without(b, some) \in Seq(Nat)
      /\ Taken(b, some) \o Without(b, some) = b /\ Len(Taken(b, some)) = some
  BY <1>2, <1>3, TakenFacts
<1>5. e \in Chunk /\ e.size = c.size /\ e.left = Without(b, some)
  BY <1>2, <1>4 DEF Chunk
<1>6. [r EXCEPT ![1].left = SubSeq(@, some + 1, Len(@))] = w
  BY DEF Without
<1>7. /\ r = <<c>> \o Tail(r) /\ w = <<e>> \o Tail(r) /\ w \in Seq(Chunk)
      /\ Tail(r) \in Seq(Chunk) /\ Len(w) = Len(r)
      /\ \A i \in 1 .. Len(r) : w[i] = IF i = 1 THEN e ELSE r[i]
  BY <1>5, SplitFirst
<1> HIDE DEF w, e
<1>8. SizeOf(w) = SizeOf(r)
  <2>1. \A i \in 1 .. Len(w) : w[i].size = r[i].size
    BY <1>1, <1>5, <1>7
  <2> QED BY <1>7, <2>1, SizeSame
<1>9. /\ Left(<<c>>) = b /\ <<c>> \in Seq(Chunk)
      /\ Left(<<e>>) = Without(b, some) /\ <<e>> \in Seq(Chunk)
  BY <1>2, <1>5, LeftOne
<1> HIDE DEF c
<1>10. Left(<<c>> \o Tail(r)) = Left(<<c>>) \o Left(Tail(r))
  BY <1>7, <1>9, LeftConcat
<1>11. Left(<<e>> \o Tail(r)) = Left(<<e>>) \o Left(Tail(r))
  BY <1>7, <1>9, LeftConcat
<1>12. Left(Tail(r)) \in Seq(Nat)
  BY <1>7, LeftsTyped
<1> HIDE DEF b
<1>13. (Taken(b, some) \o Without(b, some)) \o Left(Tail(r)) = Taken(b, some) \o (Without(b, some) \o Left(Tail(r)))
  BY <1>4, <1>12, Joined
<1>14. Taken(b, some) \o Left(w) = Left(r)
  BY <1>4, <1>7, <1>9, <1>10, <1>11, <1>13, Zenon
<1>15. b = r[1].left
  BY DEF b, c
<1> QED BY <1>4, <1>6, <1>7, <1>8, <1>14, <1>15, Zenon

\* What is read is what comes next.
CutWell(cs, k, n, some) ==
  /\ StayOf(cs, k, some) \in Seq(Chunk)
  /\ SubSeq(Left(cs), 1, n) \o Left(StayOf(cs, k, some)) = Left(cs)
  /\ SubSeq(Left(cs), 1, n) \in Seq(Nat)
  /\ SizeOf(cs) = SizeOf(SubSeq(cs, 1, k)) + SizeOf(StayOf(cs, k, some))
  /\ SizeOf(SubSeq(cs, 1, k)) \in Nat /\ SizeOf(StayOf(cs, k, some)) \in Nat
  /\ FirstOf(cs, k) \in Seq(Nat) /\ Left(SubSeq(cs, k + 1, Len(cs))) \in Seq(Nat)
  /\ Left(cs) = FirstOf(cs, k) \o Left(SubSeq(cs, k + 1, Len(cs)))

\* Chunks read to their end and a part of the next one are a cut of the row.
LEMMA CutsWell ==
  ASSUME NEW cs \in Seq(Chunk), NEW k \in 0 .. Len(cs), NEW some \in Nat,
         some # 0 => k < Len(cs) /\ some < Len(cs[k + 1].left)
  PROVE  CutWell(cs, k, Len(FirstOf(cs, k)) + some, some)
<1> DEFINE f == SubSeq(cs, 1, k)
           r == SubSeq(cs, k + 1, Len(cs))
<1>1. /\ f \in Seq(Chunk) /\ r \in Seq(Chunk) /\ cs = f \o r
      /\ Len(f) = k /\ Len(r) = Len(cs) - k /\ FirstOf(cs, k) = Left(f)
      /\ \A i \in 1 .. Len(cs) - k : r[i] = cs[k + i]
  BY ChunksCut DEF FirstOf
<1>2. StayOf(cs, k, some) = IF some = 0 THEN r ELSE [r EXCEPT ![1].left = SubSeq(@, some + 1, Len(@))]
  BY Zenon DEF StayOf
<1> HIDE DEF f, r
<1>3. Left(f) \in Seq(Nat) /\ Left(r) \in Seq(Nat) /\ Left(cs) = Left(f) \o Left(r)
  <2>1. Left(f \o r) = Left(f) \o Left(r)
    BY <1>1, LeftConcat
  <2> QED BY <1>1, <2>1, LeftsTyped
<1>4. SizeOf(cs) = SizeOf(f) + SizeOf(r) /\ SizeOf(f) \in Nat /\ SizeOf(r) \in Nat
  <2>1. SizeOf(f \o r) = SizeOf(f) + SizeOf(r) /\ SizeOf(f) \in Nat /\ SizeOf(r) \in Nat
    BY <1>1, SizeConcat
  <2> QED BY <1>1, <2>1
<1>5. \E t \in Seq(Nat) : /\ Len(t) = some /\ t \o Left(StayOf(cs, k, some)) = Left(r)
                          /\ StayOf(cs, k, some) \in Seq(Chunk)
                          /\ SizeOf(StayOf(cs, k, some)) = SizeOf(r)
  <2>1. CASE some = 0
    <3>1. <<>> \in Seq(Nat) /\ Len(<<>>) = 0
      OBVIOUS
    <3>2. <<>> \o Left(r) = Left(r)
      BY <1>3, BytesConcat
    <3>3. StayOf(cs, k, some) = r
      BY <1>2, <2>1
    <3> QED BY <1>1, <2>1, <3>1, <3>2, <3>3
  <2>2. CASE some # 0
    <3>1. k < Len(cs) /\ some < Len(cs[k + 1].left)
      BY <2>2
    <3>2. 1 \in 1 .. Len(cs) - k
      BY <3>1
    <3>3. r # <<>> /\ r[1] = cs[k + 1]
      BY <1>1, <3>2
    <3>4. some < Len(r[1].left)
      BY <3>1, <3>3, Zenon
    <3>a. StayOf(cs, k, some) = [r EXCEPT ![1].left = SubSeq(@, some + 1, Len(@))]
      BY <1>2, <2>2
    <3>5. /\ [r EXCEPT ![1].left = SubSeq(@, some + 1, Len(@))] \in Seq(Chunk)
          /\ SizeOf([r EXCEPT ![1].left = SubSeq(@, some + 1, Len(@))]) = SizeOf(r)
          /\ Taken(r[1].left, some) \in Seq(Nat) /\ Len(Taken(r[1].left, some)) = some
          /\ Taken(r[1].left, some) \o Left([r EXCEPT ![1].left = SubSeq(@, some + 1, Len(@))]) = Left(r)
      BY <1>1, <3>3, <3>4, Shortened
    <3> QED BY <3>a, <3>5
  <2> QED BY <2>1, <2>2
<1> DEFINE s == StayOf(cs, k, some)
<1> HIDE DEF s
<1>6. PICK t \in Seq(Nat) : Len(t) = some /\ t \o Left(s) = Left(r) /\ s \in Seq(Chunk) /\ SizeOf(s) = SizeOf(r)
  BY <1>5 DEF s
<1>7. Left(s) \in Seq(Nat) /\ Left(f) \o t \in Seq(Nat) /\ Len(Left(f) \o t) = Len(Left(f)) + some
  BY <1>3, <1>6, LeftsTyped, BytesConcat
<1>8. (Left(f) \o t) \o Left(s) = Left(f) \o (t \o Left(s))
  BY <1>3, <1>6, <1>7, Joined
<1>9. Left(cs) = (Left(f) \o t) \o Left(s)
  BY <1>3, <1>6, <1>8
<1>10. SubSeq((Left(f) \o t) \o Left(s), 1, Len(Left(f) \o t)) = Left(f) \o t
  BY <1>7, PrefixIs
<1>11. SubSeq(Left(cs), 1, Len(Left(f)) + some) = Left(f) \o t
  BY <1>7, <1>9, <1>10
<1>12. SubSeq(Left(cs), 1, Len(Left(f)) + some) \o Left(s) = Left(cs)
  BY <1>9, <1>11
<1>13. /\ SubSeq(cs, 1, k) = f /\ SubSeq(cs, k + 1, Len(cs)) = r /\ StayOf(cs, k, some) = s
  BY DEF f, r, s
<1> QED BY <1>1, <1>3, <1>4, <1>6, <1>7, <1>11, <1>12, <1>13 DEF CutWell

\* Nothing one after the other is nothing.
LEMMA FlattenNone == FlattenSeq(<<>>) = <<>>
<1>1. <<>> \in Seq(Nat)
  OBVIOUS
<1> QED BY <1>1, BytesFlatten, Zenon

\* What the first chunks hold is a sequence of bytes.
LEMMA FirstTyped ==
  ASSUME NEW cs \in Seq(Chunk), NEW k \in 0 .. Len(cs)
  PROVE  FirstOf(cs, k) \in Seq(Nat) /\ Len(FirstOf(cs, k)) \in Nat
<1>1. SubSeq(cs, 1, k) \in Seq(Chunk) /\ FirstOf(cs, k) = Left(SubSeq(cs, 1, k))
  BY ChunksCut DEF FirstOf
<1>2. FirstOf(cs, k) \in Seq(Nat)
  BY <1>1, LeftsTyped
<1> QED BY <1>2

\* The first chunks and one more.
LEMMA FirstGrows ==
  ASSUME NEW cs \in Seq(Chunk), NEW k \in 0 .. Len(cs), k < Len(cs)
  PROVE  /\ Len(FirstOf(cs, k + 1)) = Len(FirstOf(cs, k)) + Len(cs[k + 1].left)
         /\ Len(FirstOf(cs, k)) \in Nat /\ Len(cs[k + 1].left) \in Nat
<1>1. Len(cs) \in Nat
  OBVIOUS
<1>2. k + 1 \in 0 .. Len(cs) /\ k + 1 \in 1 .. Len(cs)
  BY <1>1
<1>3. cs[k + 1] \in Chunk /\ cs[k + 1].left \in Seq(Nat)
  BY <1>2, ChunkAt
<1>4. SubSeq(cs, 1, k) \in Seq(Chunk) /\ FirstOf(cs, k) = Left(SubSeq(cs, 1, k))
  BY ChunksCut DEF FirstOf
<1>5. FirstOf(cs, k + 1) = Left(SubSeq(cs, 1, k + 1))
  BY <1>2, ChunksCut DEF FirstOf
<1>6. SubSeq(cs, 1, k + 1) = SubSeq(cs, 1, k) \o <<cs[k + 1]>>
  <2>1. SubSeq(cs, 1, k + 1) \in Seq(Chunk) /\ Len(SubSeq(cs, 1, k + 1)) = k + 1
        /\ \A i \in 1 .. k + 1 : SubSeq(cs, 1, k + 1)[i] = cs[i]
    <3>1. PICK n \in 0 .. Len(cs) : n = k + 1
      BY <1>2
    <3>2. SubSeq(cs, 1, n) \in Seq(Chunk) /\ Len(SubSeq(cs, 1, n)) = n /\ \A i \in 1 .. n : SubSeq(cs, 1, n)[i] = cs[i]
      BY <1>1
    <3> QED BY <3>1, <3>2
  <2>2. Len(SubSeq(cs, 1, k)) = k /\ \A i \in 1 .. k : SubSeq(cs, 1, k)[i] = cs[i]
    BY <1>1
  <2>3. <<cs[k + 1]>> \in Seq(Chunk) /\ Len(<<cs[k + 1]>>) = 1 /\ <<cs[k + 1]>>[1] = cs[k + 1]
    BY <1>3
  <2>4. /\ SubSeq(cs, 1, k) \o <<cs[k + 1]>> \in Seq(Chunk)
        /\ Len(SubSeq(cs, 1, k) \o <<cs[k + 1]>>) = Len(SubSeq(cs, 1, k)) + Len(<<cs[k + 1]>>)
        /\ \A i \in 1 .. Len(SubSeq(cs, 1, k)) + Len(<<cs[k + 1]>>) :
              (SubSeq(cs, 1, k) \o <<cs[k + 1]>>)[i]
                = IF i <= Len(SubSeq(cs, 1, k)) THEN SubSeq(cs, 1, k)[i] ELSE <<cs[k + 1]>>[i - Len(SubSeq(cs, 1, k))]
    BY <1>4, <2>3, ConcatProperties
  <2>5. \A i \in 1 .. k + 1 : SubSeq(cs, 1, k + 1)[i] = (SubSeq(cs, 1, k) \o <<cs[k + 1]>>)[i]
    <3>1. TAKE i \in 1 .. k + 1
    <3>2. (SubSeq(cs, 1, k) \o <<cs[k + 1]>>)[i] = IF i <= k THEN SubSeq(cs, 1, k)[i] ELSE <<cs[k + 1]>>[i - k]
      BY <2>2, <2>3, <2>4
    <3>3. i <= k => i \in 1 .. k
      OBVIOUS
    <3>4. ~(i <= k) => i = k + 1 /\ i - k = 1
      OBVIOUS
    <3> QED BY <2>1, <2>2, <2>3, <3>2, <3>3, <3>4
  <2> QED BY <2>1, <2>2, <2>3, <2>4, <2>5, SeqEqual
<1>7. Left(<<cs[k + 1]>>) = cs[k + 1].left /\ <<cs[k + 1]>> \in Seq(Chunk)
  BY <1>3, LeftOne
<1>8. Left(SubSeq(cs, 1, k) \o <<cs[k + 1]>>) = Left(SubSeq(cs, 1, k)) \o Left(<<cs[k + 1]>>)
  BY <1>4, <1>7, LeftConcat
<1>9. Left(SubSeq(cs, 1, k)) \in Seq(Nat)
  BY <1>4, LeftsTyped
<1>10. Len(Left(SubSeq(cs, 1, k)) \o cs[k + 1].left) = Len(Left(SubSeq(cs, 1, k))) + Len(cs[k + 1].left)
  BY <1>3, <1>9, BytesConcat
<1>11. Len(Left(SubSeq(cs, 1, k))) \in Nat /\ Len(cs[k + 1].left) \in Nat
  BY <1>3, <1>9
<1>12. FirstOf(cs, k + 1) = Left(SubSeq(cs, 1, k)) \o cs[k + 1].left
  BY <1>5, <1>6, <1>7, <1>8, Zenon
<1> QED BY <1>4, <1>10, <1>11, <1>12, Zenon

-----------------------------------------------------------------------------
(* SyncClient: the inductive invariant, and an action at a time.           *)

Fitting(t) == t \in Seq(Nat \ {0}) /\ Len(t) <= TxBufSize

\* What arrived is what was read and what is left.
RxPart ==
  /\ chunks \in Seq(Chunk) /\ rxAckLen \in Nat /\ arrived \in Nat /\ readBytes \in Seq(Nat)
  /\ readBytes \o Left(chunks) = Numbers(arrived)

\* What is not acknowledged yet is in chunks.
AckPart ==
  /\ client \in {"none", "made", "connecting", "connected"}
  /\ client = "connecting" => call.phase = "connect" /\ rxAckLen = 0
  /\ connected => rxAckLen <= SizeOf(chunks)

\* A write in its loop, or waiting in it, has put what it need not send any more.
PutPart ==
  /\ printer \in BOOLEAN
  /\ tx = NoBuffer \/ Fitting(tx)
  /\ call \in [phase : {"idle", "connect", "panic", "loop", "wait", "waitLast", "written"},
               len : Nat, toSend : Nat]
  /\ put \in Seq(Nat)
  /\ call.phase = "loop" => HasBuffer
  /\ connected /\ call.phase \in {"wait", "waitLast"} => HasBuffer
  /\ call.phase \in {"loop", "wait"} =>
        call.toSend \in 1 .. call.len /\ Len(put) = call.len - call.toSend
  /\ call.phase \in {"waitLast", "written"} =>
        /\ Len(put) = call.len
        /\ put[call.len] = call.len
        /\ call.toSend = call.len => put = Numbers(call.len)

SyncInv == RxPart /\ AckPart /\ PutPart

SyncConsts == TxBufSize \in Nat /\ MaxLen \in Nat /\ MaxArrived \in Nat

\* What was read and what is left may stay as they are.
LEMMA RxPartStays == RxPart /\ UNCHANGED rxState => RxPart'
BY DEF RxPart, rxState

\* The writing part may stay as it is, and the client may be lost.
LEMMA PutPartStays == PutPart /\ UNCHANGED <<printer, tx, call, put>> /\ (connected' => connected) => PutPart'
BY DEF PutPart, HasBuffer

\* The position 0 is not in a buffer, so no buffer is a missing one.
LEMMA NoBufferUnfit ==
  ASSUME NEW t, Fitting(t)
  PROVE  t # NoBuffer
<1>1. ASSUME t = NoBuffer PROVE FALSE
  <2>1. <<0>> \in Seq(Nat \ {0})
    BY <1>1 DEF Fitting, NoBuffer
  <2>2. 1 \in 1 .. Len(<<0>>) /\ <<0>>[1] = 0
    OBVIOUS
  <2>3. <<0>>[1] \in Nat \ {0}
    BY <2>1, <2>2, ElementOfSeq
  <2> QED BY <2>2, <2>3
<1> QED BY <1>1

\* What _sendBuffer leaves in the buffer fits in it.
LEMMA SentFits ==
  ASSUME SyncConsts, NEW s, Fitting(s), NEW t \in SendBuffer(s)
  PROVE  Fitting(t) /\ t # NoBuffer
<1>1. PICK n \in 0 .. Len(s) : t = SubSeq(s, n + 1, Len(s))
  BY DEF SendBuffer
<1>2. s \in Seq(Nat \ {0}) /\ Len(s) \in Nat /\ Len(s) <= TxBufSize
  BY DEF Fitting
<1>3. t \in Seq(Nat \ {0}) /\ Len(t) = Len(s) - n
  BY <1>1, <1>2
<1>4. Fitting(t)
  BY <1>2, <1>3 DEF Fitting, SyncConsts
<1> QED BY <1>4, NoBufferUnfit

\* A new buffer fits.
LEMMA EmptyFits == SyncConsts => Fitting(<<>>) /\ <<>> # NoBuffer
<1>1. SyncConsts => Fitting(<<>>)
  BY DEF Fitting, SyncConsts
<1> QED BY <1>1, NoBufferUnfit

\* connect().
LEMMA ConnectKeeps == SyncConsts /\ SyncInv /\ Connect => SyncInv'
<1> SUFFICES ASSUME SyncConsts, SyncInv, Connect PROVE SyncInv'
  OBVIOUS
<1>1. RxPart'
  BY DEF SyncInv, RxPart, Connect
<1>2. AckPart'
  BY DEF SyncInv, AckPart, PutPart, Connect, connected, Idle
<1>3. PutPart'
  BY DEF SyncInv, PutPart, Connect, connected, Idle, HasBuffer
<1> QED BY <1>1, <1>2, <1>3 DEF SyncInv

\* _onConnect().
LEMMA OnConnectKeeps == SyncConsts /\ SyncInv /\ OnConnect => SyncInv'
<1> SUFFICES ASSUME SyncConsts, SyncInv, OnConnect PROVE SyncInv'
  OBVIOUS
<1>1. RxPart'
  BY RxPartStays DEF SyncInv, OnConnect
<1>2. AckPart'
  <2>1. SizeOf(chunks) \in Nat
    BY SizeConcat DEF SyncInv, RxPart
  <2> QED BY <2>1 DEF SyncInv, AckPart, OnConnect, connected, rxState
<1>3. PutPart'
  <2>1. tx' = NoBuffer \/ Fitting(tx')
    BY EmptyFits DEF OnConnect
  <2>2. call'.phase \in {"panic", "idle"} /\ call'.len = 0 /\ call'.toSend = 0
        /\ call' \in [phase : {"idle", "connect", "panic", "loop", "wait", "waitLast", "written"},
                      len : Nat, toSend : Nat]
    BY DEF OnConnect, Idle
  <2>3. printer' \in BOOLEAN /\ put' \in Seq(Nat)
    BY DEF OnConnect, SyncInv, PutPart
  <2> QED BY <2>1, <2>2, <2>3 DEF PutPart
<1> QED BY <1>1, <1>2, <1>3 DEF SyncInv

\* A client that is lost leaves a call that writes its history.
LEMMA LostKeeps == SyncInv /\ Disconnected /\ call.phase # "loop" /\ UNCHANGED <<printer, put>> => PutPart' 
<1> SUFFICES ASSUME SyncInv, Disconnected, call.phase # "loop", UNCHANGED <<printer, put>> PROVE PutPart'
  OBVIOUS
<1>1. CASE call.phase = "connect"
  BY <1>1 DEF SyncInv, PutPart, Disconnected, connected, Idle
<1>2. CASE call.phase # "connect"
  BY <1>2 DEF SyncInv, PutPart, Disconnected, connected, HasBuffer
<1> QED BY <1>1, <1>2

\* _onDisconnect(), in a call that waits or outside of one.
LEMMA OnDisconnectKeeps == SyncConsts /\ SyncInv /\ OnDisconnect => SyncInv'
<1> SUFFICES ASSUME SyncConsts, SyncInv, OnDisconnect PROVE SyncInv'
  OBVIOUS
<1>1. RxPart'
  BY RxPartStays DEF SyncInv, OnDisconnect
<1>2. AckPart'
  BY DEF AckPart, OnDisconnect, Disconnected, connected
<1>3. PutPart'
  BY LostKeeps DEF OnDisconnect
<1> QED BY <1>1, <1>2, <1>3 DEF SyncInv

\* Before anything arrives there is nothing to read.
LEMMA NothingYet == <<>> \o Left(<<>>) = Numbers(0) /\ SizeOf(<<>>) = 0 /\ <<>> \in Seq(Chunk)
<1>1. [left |-> <<>>, size |-> 0] \in Chunk
  BY DEF Chunk
<1>2. Left(<<>>) = <<>> /\ SizeOf(<<>>) = 0
  BY <1>1, LeftOne, SizeOne
<1>3. <<>> \o <<>> = <<>> /\ Numbers(0) = <<>>
  BY DEF Numbers
<1> QED BY <1>2, <1>3

\* operator= starts anew.
LEMMA AssignKeeps == SyncConsts /\ SyncInv /\ Assign => SyncInv'
<1> SUFFICES ASSUME SyncConsts, SyncInv, Assign PROVE SyncInv'
  OBVIOUS
<1>1. RxPart'
  BY NothingYet DEF RxPart, Assign
<1>2. AckPart'
  BY NothingYet DEF AckPart, Assign, connected
<1>3. PutPart'
  <2>1. tx' # NoBuffer /\ Fitting(tx')
    BY EmptyFits DEF Assign
  <2>2. call' = call /\ put' = put /\ printer' = printer /\ call.phase = "idle"
    BY DEF Assign
  <2> QED BY <2>1, <2>2 DEF SyncInv, PutPart
<1> QED BY <1>1, <1>2, <1>3 DEF SyncInv

\* operator= over a connected client ends in the panic.
LEMMA AssignOverKeeps == SyncConsts /\ SyncInv /\ AssignOverConnected => SyncInv'
<1> SUFFICES ASSUME SyncConsts, SyncInv, AssignOverConnected PROVE SyncInv'
  OBVIOUS
<1>1. RxPart'
  BY RxPartStays DEF SyncInv, AssignOverConnected
<1>2. AckPart'
  BY DEF AckPart, AssignOverConnected, connected
<1>3. PutPart'
  BY DEF SyncInv, PutPart, AssignOverConnected, connected, Idle
<1> QED BY <1>1, <1>2, <1>3 DEF SyncInv

\* A write, and what it calls.
LEMMA WriteKeeps == SyncConsts /\ SyncInv /\ Write => SyncInv'
<1> SUFFICES ASSUME SyncConsts, SyncInv, Write PROVE SyncInv'
  OBVIOUS
<1>1. RxPart'
  BY RxPartStays DEF SyncInv, Write
<1>2. AckPart'
  BY DEF SyncInv, AckPart, Write, connected, rxState
<1>3. PutPart'
  <2>1. PICK n \in 1 .. MaxLen : call' = [phase |-> "loop", len |-> n, toSend |-> n]
    BY DEF Write
  <2>2. n \in Nat /\ n \in 1 .. n /\ n - n = 0
    BY <2>1 DEF SyncConsts
  <2>3. put' = <<>> /\ tx' = tx /\ printer' = printer /\ tx # NoBuffer
    BY DEF Write, HasBuffer
  <2> QED BY <2>1, <2>2, <2>3 DEF SyncInv, PutPart, HasBuffer
<1> QED BY <1>1, <1>2, <1>3 DEF SyncInv

\* What is not acknowledged may stay as it is.
LEMMA AckPartStays == AckPart /\ client' = client /\ client # "connecting" /\ UNCHANGED rxState => AckPart'
BY DEF AckPart, connected, rxState

\* The bytes put in the buffer.
LEMMA PutFits ==
  ASSUME NEW t \in Seq(Nat \ {0}), NEW n \in Nat, NEW f \in [1 .. n -> Nat \ {0}]
  PROVE  t \o f \in Seq(Nat \ {0}) /\ Len(t \o f) = Len(t) + n
<1>1. f \in Seq(Nat \ {0}) /\ Len(f) = n
  OBVIOUS
<1> QED BY <1>1, ConcatProperties

\* The bytes a write has put, and some more.
LEMMA PutGrows ==
  ASSUME NEW t \in Seq(Nat), NEW n \in Nat, NEW f \in [1 .. n -> Nat]
  PROVE  /\ t \o f \in Seq(Nat) /\ Len(t \o f) = Len(t) + n
         /\ n # 0 => (t \o f)[Len(t) + n] = f[n]
<1>1. f \in Seq(Nat) /\ Len(f) = n /\ Len(t) \in Nat
  OBVIOUS
<1>2. /\ t \o f \in Seq(Nat) /\ Len(t \o f) = Len(t) + Len(f)
      /\ \A i \in 1 .. Len(t) + Len(f) : (t \o f)[i] = IF i <= Len(t) THEN t[i] ELSE f[i - Len(t)]
  BY <1>1, ConcatProperties
<1>3. ASSUME n # 0 PROVE (t \o f)[Len(t) + n] = f[n]
  <2>1. PICK k \in Nat : k = Len(t) + n
    BY <1>1
  <2>2. k \in 1 .. Len(t) + Len(f) /\ ~(k <= Len(t)) /\ k - Len(t) = n
    BY <1>1, <1>3, <2>1
  <2>3. (t \o f)[k] = IF k <= Len(t) THEN t[k] ELSE f[k - Len(t)]
    BY <1>2, <2>2
  <2> QED BY <2>1, <2>2, <2>3
<1> QED BY <1>1, <1>2, <1>3

\* A round of write() that fills the buffer.
LEMMA FillWaitKeeps == SyncConsts /\ SyncInv /\ FillAndWait => SyncInv'
<1> SUFFICES ASSUME SyncConsts, SyncInv, FillAndWait PROVE SyncInv'
  OBVIOUS
<1>0. call.phase = "loop" /\ client # "connecting"
  BY DEF FillAndWait, SyncInv, AckPart
<1>1. RxPart'
  BY RxPartStays DEF SyncInv, FillAndWait
<1>2. AckPart'
  BY <1>0, AckPartStays DEF SyncInv, FillAndWait
<1>3. PutPart'
  <2>1. /\ tx \in Seq(Nat \ {0}) /\ Len(tx) <= TxBufSize /\ Len(tx) \in Nat
        /\ call.len \in Nat /\ call.toSend \in 1 .. call.len /\ Len(put) = call.len - call.toSend
        /\ put \in Seq(Nat) /\ printer \in BOOLEAN
    BY <1>0 DEF SyncInv, PutPart, HasBuffer, Fitting
  <2>2. PICK n \in Nat : n = Room
    BY <2>1 DEF Room, SyncConsts
  <2>3. n < call.toSend /\ Len(tx) + n = TxBufSize
    BY <2>1, <2>2 DEF FillAndWait, Room, SyncConsts
  <2> DEFINE f == [i \in 1 .. n |-> i]
  <2>4. tx' = tx \o f /\ put' = put \o f /\ printer' = printer
        /\ call' = [call EXCEPT !.phase = "wait", !.toSend = call.toSend - n]
    BY <2>2 DEF FillAndWait
  <2>5. f \in [1 .. n -> Nat \ {0}] /\ f \in [1 .. n -> Nat]
    BY <2>2
  <2> HIDE DEF f
  <2>6. tx' \in Seq(Nat \ {0}) /\ Len(tx') = TxBufSize
    <3>1. tx \o f \in Seq(Nat \ {0}) /\ Len(tx \o f) = Len(tx) + n
      BY <2>1, <2>5, PutFits
    <3> QED BY <2>3, <2>4, <3>1
  <2>7. put' \in Seq(Nat) /\ Len(put') = call.len - call.toSend + n
    <3>1. put \o f \in Seq(Nat) /\ Len(put \o f) = Len(put) + n
      BY <2>1, <2>5, PutGrows
    <3> QED BY <2>1, <2>4, <3>1
  <2>8. Fitting(tx') /\ tx' # NoBuffer
    <3>1. Fitting(tx')
      BY <2>6 DEF Fitting, SyncConsts
    <3> QED BY <3>1, NoBufferUnfit
  <2>9. /\ call' \in [phase : {"idle", "connect", "panic", "loop", "wait", "waitLast", "written"},
                      len : Nat, toSend : Nat]
        /\ call'.phase = "wait" /\ call'.len = call.len /\ call'.toSend = call.toSend - n
        /\ call'.toSend \in 1 .. call'.len
    <3>1. call.toSend - n \in 1 .. call.len /\ call.toSend - n \in Nat
      BY <2>1, <2>3
    <3>2. call \in [phase : {"idle", "connect", "panic", "loop", "wait", "waitLast", "written"},
                    len : Nat, toSend : Nat]
      BY DEF SyncInv, PutPart
    <3> QED BY <2>4, <3>1, <3>2
  <2>10. Len(put') = call'.len - call'.toSend
    <3>1. Len(put') = call.len - call.toSend + n /\ call'.len = call.len /\ call'.toSend = call.toSend - n
      BY <2>7, <2>9
    <3>2. \A l, s \in Nat : l - s + n = l - (s - n)
      OBVIOUS
    <3>3. call.len - call.toSend + n = call.len - (call.toSend - n)
      BY <2>1, <3>2
    <3> QED BY <3>1, <3>3
  <2> QED BY <2>1, <2>4, <2>7, <2>8, <2>9, <2>10 DEF PutPart, HasBuffer
<1> QED BY <1>1, <1>2, <1>3 DEF SyncInv

\* The last round of write(), whose bytes fit.
LEMMA PutLastKeeps == SyncConsts /\ SyncInv /\ PutLast => SyncInv'
<1> SUFFICES ASSUME SyncConsts, SyncInv, PutLast PROVE SyncInv'
  OBVIOUS
<1>0. call.phase = "loop" /\ client # "connecting"
  BY DEF PutLast, SyncInv, AckPart
<1>1. RxPart'
  BY RxPartStays DEF SyncInv, PutLast
<1>2. AckPart'
  BY <1>0, AckPartStays DEF SyncInv, PutLast
<1>3. PutPart'
  <2>1. /\ tx \in Seq(Nat \ {0}) /\ Len(tx) <= TxBufSize /\ Len(tx) \in Nat
        /\ call.len \in Nat /\ call.toSend \in 1 .. call.len /\ Len(put) = call.len - call.toSend
        /\ put \in Seq(Nat) /\ printer \in BOOLEAN
    BY <1>0 DEF SyncInv, PutPart, HasBuffer, Fitting
  <2>2. PICK n \in Nat : n = call.toSend
    BY <2>1
  <2>3. n # 0 /\ Len(tx) + n <= TxBufSize
    BY <2>1, <2>2 DEF PutLast, Room, SyncConsts
  <2> DEFINE f == [i \in 1 .. n |-> call.len - n + i]
  <2>4. /\ tx' \in IF printer THEN {tx \o f} ELSE SendBuffer(tx \o f)
        /\ put' = put \o f /\ printer' = printer
        /\ call' = [call EXCEPT !.phase = IF printer THEN "waitLast" ELSE "written"]
    BY <2>2 DEF PutLast, LastPart
  <2>5. f \in [1 .. n -> Nat \ {0}] /\ f \in [1 .. n -> Nat] /\ f[n] = call.len
    <3>1. \A i \in 1 .. n : call.len - n + i \in Nat \ {0}
      BY <2>1, <2>2
    <3>2. n \in 1 .. n /\ call.len - n + n = call.len
      BY <2>1, <2>3
    <3>3. f[n] = call.len - n + n
      BY <3>2
    <3> QED BY <3>1, <3>2, <3>3
  <2>a. n = call.len => f = Numbers(call.len)
    <3>1. ASSUME n = call.len PROVE \A i \in 1 .. n : call.len - n + i = i
      BY <2>1, <3>1
    <3> QED BY <3>1 DEF Numbers
  <2> HIDE DEF f
  <2>6. Fitting(tx \o f)
    <3>1. tx \o f \in Seq(Nat \ {0}) /\ Len(tx \o f) = Len(tx) + n
      BY <2>1, <2>5, PutFits
    <3> QED BY <2>3, <3>1 DEF Fitting
  <2>7. put' \in Seq(Nat) /\ Len(put') = call.len /\ put'[call.len] = call.len
    <3>1. put \o f \in Seq(Nat) /\ Len(put \o f) = Len(put) + n /\ (n # 0 => (put \o f)[Len(put) + n] = f[n])
      BY <2>1, <2>5, PutGrows
    <3>2. Len(put) + n = call.len
      BY <2>1, <2>2
    <3> QED BY <2>3, <2>4, <2>5, <3>1, <3>2
  <2>8. Fitting(tx') /\ tx' # NoBuffer
    <3>1. CASE printer
      <4>1. tx' = tx \o f
        BY <2>4, <3>1
      <4> QED BY <2>6, <4>1, NoBufferUnfit
    <3>2. CASE ~printer
      <4>1. tx' \in SendBuffer(tx \o f)
        BY <2>4, <3>2
      <4> QED BY <2>6, <4>1, SentFits
    <3> QED BY <3>1, <3>2
  <2>9. /\ call' \in [phase : {"idle", "connect", "panic", "loop", "wait", "waitLast", "written"},
                      len : Nat, toSend : Nat]
        /\ call'.phase \in {"waitLast", "written"} /\ call'.len = call.len /\ call'.toSend = n
    <3>2. call \in [phase : {"idle", "connect", "panic", "loop", "wait", "waitLast", "written"},
                    len : Nat, toSend : Nat]
      BY DEF SyncInv, PutPart
    <3> QED BY <2>2, <2>4, <3>2
  <2>10. n = call.len => put' = Numbers(call.len)
    <3>1. ASSUME n = call.len PROVE put = <<>>
      <4>1. Len(put) = 0
        BY <2>1, <2>2, <3>1
      <4> QED BY <2>1, <4>1
    <3>2. f \in Seq(Nat)
      BY <2>5
    <3>3. <<>> \o f = f
      BY <3>2, ConcatEmptySeq
    <3> QED BY <2>4, <2>a, <3>1, <3>3
  <2> QED BY <2>1, <2>4, <2>7, <2>8, <2>9, <2>10 DEF PutPart, HasBuffer
<1> QED BY <1>1, <1>2, <1>3 DEF SyncInv

\* delay() returns: the client can send again, or is lost.
LEMMA AfterWaitKeeps == SyncConsts /\ SyncInv /\ AfterWait => SyncInv'
<1> SUFFICES ASSUME SyncConsts, SyncInv, AfterWait PROVE SyncInv'
  OBVIOUS
<1>0. call.phase \in {"wait", "waitLast"} /\ client # "connecting"
  BY DEF AfterWait, SyncInv, AckPart
<1>1. RxPart'
  BY RxPartStays DEF SyncInv, AfterWait
<1>2. AckPart'
  BY <1>0, AckPartStays DEF SyncInv, AfterWait
<1>3. PutPart'
  <2>1. CASE connected
    <3>1. tx # NoBuffer /\ Fitting(tx)
      BY <1>0, <2>1 DEF SyncInv, PutPart, HasBuffer
    <3>2. tx' \in SendBuffer(tx)
      BY <2>1 DEF AfterWait
    <3>3. Fitting(tx') /\ tx' # NoBuffer
      BY <3>1, <3>2, SentFits
    <3>4. call' = [call EXCEPT !.phase = IF call.phase = "wait" THEN "loop" ELSE "written"]
      BY <2>1 DEF AfterWait
    <3>5. put' = put /\ printer' = printer
      BY DEF AfterWait
    <3>6. CASE call.phase = "wait"
      <4>1. call' = [call EXCEPT !.phase = "loop"]
        BY <3>4, <3>6
      <4> QED BY <3>3, <3>5, <3>6, <4>1 DEF SyncInv, PutPart, HasBuffer
    <3>7. CASE call.phase = "waitLast"
      <4>1. call' = [call EXCEPT !.phase = "written"]
        BY <3>4, <3>7
      <4> QED BY <3>3, <3>5, <3>7, <4>1 DEF SyncInv, PutPart, HasBuffer
    <3> QED BY <1>0, <3>6, <3>7
  <2>2. CASE ~connected
    <3>1. tx' = tx /\ call' = Idle /\ put' = put /\ printer' = printer
      BY <2>2 DEF AfterWait
    <3> QED BY <3>1 DEF SyncInv, PutPart, Idle
  <2> QED BY <2>1, <2>2
<1> QED BY <1>1, <1>2, <1>3 DEF SyncInv

\* The callbacks send what the buffer holds.
LEMMA SendMoreKeeps == SyncConsts /\ SyncInv /\ SendMore => SyncInv'
<1> SUFFICES ASSUME SyncConsts, SyncInv, SendMore PROVE SyncInv'
  OBVIOUS
<1>0. client # "connecting" /\ call.phase # "loop"
  BY DEF SendMore, connected
<1>1. RxPart'
  BY RxPartStays DEF SyncInv, SendMore
<1>2. AckPart'
  BY <1>0, AckPartStays DEF SyncInv, SendMore
<1>3. PutPart'
  <2>1. CASE HasBuffer /\ tx' \in SendBuffer(tx) /\ call' = call
    <3>1. tx # NoBuffer /\ Fitting(tx)
      BY <2>1 DEF SyncInv, PutPart, HasBuffer
    <3>2. Fitting(tx') /\ tx' # NoBuffer
      BY <2>1, <3>1, SentFits
    <3>3. put' = put /\ printer' = printer /\ call' = call
      BY <2>1 DEF SendMore
    <3> QED BY <1>0, <3>2, <3>3 DEF SyncInv, PutPart, HasBuffer
  <2>2. CASE tx' = tx /\ call' = [call EXCEPT !.phase = "panic"]
    <3>1. put' = put /\ printer' = printer
      BY DEF SendMore
    <3> QED BY <2>2, <3>1 DEF SyncInv, PutPart
  <2> QED BY <2>1, <2>2 DEF SendMore
<1> QED BY <1>1, <1>2, <1>3 DEF SyncInv

\* write() returns.
LEMMA WriteEndKeeps == SyncConsts /\ SyncInv /\ Written => SyncInv'
<1> SUFFICES ASSUME SyncConsts, SyncInv, Written PROVE SyncInv'
  OBVIOUS
<1>0. client # "connecting"
  BY DEF Written, SyncInv, AckPart
<1>1. RxPart'
  BY RxPartStays DEF SyncInv, Written
<1>2. AckPart'
  BY <1>0, AckPartStays DEF SyncInv, Written
<1>3. PutPart'
  BY DEF SyncInv, PutPart, Written, Idle
<1> QED BY <1>1, <1>2, <1>3 DEF SyncInv

\* What arrives, and is read.
LEMMA OneMoreChunk ==
  ASSUME NEW cs \in Seq(Chunk), NEW c \in Chunk
  PROVE  /\ Append(cs, c) \in Seq(Chunk)
         /\ Left(Append(cs, c)) = Left(cs) \o c.left
         /\ SizeOf(Append(cs, c)) = SizeOf(cs) + c.size
         /\ SizeOf(cs) \in Nat
<1>1. Append(cs, c) \in Seq(Chunk) /\ Append(cs, c) = cs \o <<c>>
  BY AppendIsConcat
<1>2. Left(<<c>>) = c.left /\ <<c>> \in Seq(Chunk) /\ SizeOf(<<c>>) = c.size
  BY LeftOne, SizeOne
<1>3. Left(cs \o <<c>>) = Left(cs) \o Left(<<c>>)
  BY <1>2, LeftConcat
<1>4. SizeOf(cs \o <<c>>) = SizeOf(cs) + SizeOf(<<c>>) /\ SizeOf(cs) \in Nat
  BY <1>2, SizeConcat
<1> QED BY <1>1, <1>2, <1>3, <1>4

\* _onData() appends a chunk, or aborts the client.
LEMMA OnDataKeeps == SyncConsts /\ SyncInv /\ OnData => SyncInv'
<1> SUFFICES ASSUME SyncConsts, SyncInv, OnData PROVE SyncInv'
  OBVIOUS
<1>0. client = "connected" /\ call.phase # "loop"
  BY DEF OnData, connected
<1>1. PICK n \in 1 .. MaxArrived - arrived :
        \/ /\ chunks' = Append(chunks, [left |-> [i \in 1 .. n |-> arrived + i], size |-> n])
           /\ rxAckLen' = rxAckLen + n
           /\ arrived' = arrived + n
           /\ UNCHANGED <<client, tx, call>>
        \/ Disconnected /\ UNCHANGED <<chunks, rxAckLen, arrived>>
  BY DEF OnData
<1>2. CASE Disconnected /\ UNCHANGED <<chunks, rxAckLen, arrived>>
  <2>1. RxPart'
    BY <1>2, RxPartStays DEF SyncInv, OnData, rxState
  <2>2. AckPart'
    BY <1>2 DEF AckPart, Disconnected, connected
  <2>3. PutPart'
    BY <1>0, <1>2, LostKeeps DEF OnData
  <2> QED BY <2>1, <2>2, <2>3 DEF SyncInv
<1>3. CASE /\ chunks' = Append(chunks, [left |-> [i \in 1 .. n |-> arrived + i], size |-> n])
           /\ rxAckLen' = rxAckLen + n
           /\ arrived' = arrived + n
           /\ UNCHANGED <<client, tx, call>>
  <2> DEFINE f == [i \in 1 .. n |-> arrived + i]
             c == [left |-> f, size |-> n]
  <2>1. /\ chunks \in Seq(Chunk) /\ rxAckLen \in Nat /\ arrived \in Nat /\ readBytes \in Seq(Nat)
        /\ readBytes \o Left(chunks) = Numbers(arrived)
    BY DEF SyncInv, RxPart
  <2>2. n \in Nat
    BY <1>1, <2>1 DEF SyncConsts
  <2>3. /\ Numbers(arrived + n) = Numbers(arrived) \o f
        /\ f \in Seq(Nat)
    BY <2>1, <2>2, NumbersGrow
  <2> HIDE DEF f
  <2>4. c \in Chunk /\ c.left = f /\ c.size = n
    BY <2>2, <2>3 DEF Chunk
  <2>5. chunks' = Append(chunks, c)
    BY <1>3 DEF f
  <2> HIDE DEF c
  <2>6. /\ Append(chunks, c) \in Seq(Chunk)
        /\ Left(Append(chunks, c)) = Left(chunks) \o c.left
        /\ SizeOf(Append(chunks, c)) = SizeOf(chunks) + c.size
        /\ SizeOf(chunks) \in Nat
    BY <2>1, <2>4, OneMoreChunk
  <2>7. readBytes' = readBytes
    BY DEF OnData
  <2>8. (readBytes \o Left(chunks)) \o f = readBytes \o (Left(chunks) \o f)
    BY <2>1, <2>3, LeftsTyped, Joined
  <2>9. readBytes' \o Left(chunks') = Numbers(arrived')
    <3>1. readBytes' \o Left(chunks') = readBytes \o (Left(chunks) \o f)
      BY <2>4, <2>5, <2>6, <2>7, Zenon
    <3>2. Numbers(arrived') = Numbers(arrived + n)
      BY <1>3, Zenon
    <3> QED BY <2>1, <2>3, <2>8, <3>1, <3>2, Zenon
  <2>10. RxPart'
    <3>1. rxAckLen' \in Nat /\ arrived' \in Nat
      BY <1>3, <2>1, <2>2
    <3>2. chunks' \in Seq(Chunk) /\ readBytes' \in Seq(Nat)
      BY <2>1, <2>5, <2>6, <2>7
    <3> QED BY <2>9, <3>1, <3>2 DEF RxPart
  <2>11. AckPart'
    <3>1. rxAckLen <= SizeOf(chunks)
      BY <1>0 DEF SyncInv, AckPart, connected
    <3>2. SizeOf(chunks') = SizeOf(chunks) + n /\ rxAckLen' = rxAckLen + n
      BY <1>3, <2>4, <2>5, <2>6
    <3>3. rxAckLen' <= SizeOf(chunks')
      BY <2>1, <2>2, <2>6, <3>1, <3>2
    <3> QED BY <1>0, <1>3, <3>3 DEF AckPart, connected
  <2>12. PutPart'
    <3>1. UNCHANGED <<printer, tx, call, put>> /\ (connected' => connected)
      BY <1>3 DEF OnData, connected
    <3> QED BY <3>1, PutPartStays DEF SyncInv
  <2> QED BY <2>10, <2>11, <2>12 DEF SyncInv
<1> QED BY <1>1, <1>2, <1>3

\* As many chunks as can be are read to their end.
WholeOf(len, k) ==
  /\ k \in 0 .. Len(chunks)
  /\ Len(FirstOf(chunks, k)) <= len
  /\ k < Len(chunks) => Len(FirstOf(chunks, k + 1)) > len

\* There is a greatest number of chunks that a read ends.
LEMMA WholeThere ==
  ASSUME NEW len \in Nat, chunks \in Seq(Chunk)
  PROVE  WholeOf(len, Whole(len))
<1> DEFINE ends == {k \in 0 .. Len(chunks) : Len(FirstOf(chunks, k)) <= len}
<1>1. Len(chunks) \in Nat
  OBVIOUS
<1>2. 0 \in ends
  <2>1. FirstOf(chunks, 0) = <<>>
    <3>1. [i \in 1 .. 0 |-> chunks[i].left] = <<>>
      OBVIOUS
    <3> QED BY <3>1, NothingYet, FlattenNone DEF FirstOf
  <2> QED BY <1>1, <2>1
<1>3. \E m \in ends : \A j \in ends : j <= m
  <2>1. ends \in SUBSET (0 .. Len(chunks)) /\ ends # {}
    BY <1>2
  <2> HIDE DEF ends
  <2> QED BY <1>1, <2>1, GreatestNumber
<1>4. Whole(len) = CHOOSE k \in ends : \A j \in ends : j <= k
  BY DEF Whole, FirstOf
<1> DEFINE w == Whole(len)
<1>5. w \in ends /\ \A j \in ends : j <= w
  <2> HIDE DEF ends
  <2> QED BY <1>3, <1>4, Zenon
<1> HIDE DEF w
<1>6. w \in 0 .. Len(chunks) /\ Len(FirstOf(chunks, w)) <= len
  BY <1>5
<1>7. ASSUME w < Len(chunks) PROVE Len(FirstOf(chunks, w + 1)) > len
  <2>1. w + 1 \in 0 .. Len(chunks) /\ ~(w + 1 <= w)
    BY <1>1, <1>6, <1>7
  <2>2. w + 1 \notin ends
    <3> HIDE DEF ends
    <3> QED BY <1>5, <2>1
  <2>3. ~(Len(FirstOf(chunks, w + 1)) <= len)
    BY <2>1, <2>2
  <2>4. Len(FirstOf(chunks, w + 1)) \in Nat
    BY <2>1, FirstTyped
  <2> QED BY <2>3, <2>4
<1> QED BY <1>6, <1>7 DEF WholeOf, w

\* What read(len) does, said with the operators above.
ReadStep(len) ==
  LET k    == Whole(len)
      n    == FewerOf(len, Len(Left(chunks)))
      some == n - (Len(Left(chunks)) - Len(Left(SubSeq(chunks, k + 1, Len(chunks)))))
  IN  /\ readBytes' = readBytes \o SubSeq(Left(chunks), 1, n)
      /\ chunks' = StayOf(chunks, k, some)
      /\ rxAckLen' = IF connected
                     THEN rxAckLen - FewerOf(rxAckLen, SizeOf(SubSeq(chunks, 1, k)))
                     ELSE rxAckLen

\* read() does what ReadStep says.
LEMMA ReadIsStep == Read => \E len \in 1 .. MaxArrived : ReadStep(len)
BY DEF Read, ReadStep, StayOf, Unread, Left, Lefts

\* A read takes the first of what is left, and acknowledges the chunks it ended.
LEMMA ReadStepKeeps ==
  ASSUME SyncConsts, RxPart, AckPart, call.phase = "idle", NEW len \in 1 .. MaxArrived, ReadStep(len),
         UNCHANGED <<client, call, arrived>>
  PROVE  RxPart' /\ AckPart'
<1> DEFINE k == Whole(len)
           u == Left(chunks)
           r == Left(SubSeq(chunks, k + 1, Len(chunks)))
           n == FewerOf(len, Len(u))
           some == n - (Len(u) - Len(r))
<1>1. /\ chunks \in Seq(Chunk) /\ rxAckLen \in Nat /\ arrived \in Nat /\ readBytes \in Seq(Nat)
      /\ readBytes \o Left(chunks) = Numbers(arrived)
  BY DEF RxPart
<1>2. len \in Nat
  BY DEF SyncConsts
<1>3. WholeOf(len, k)
  BY <1>1, <1>2, WholeThere
<1>4. /\ readBytes' = readBytes \o SubSeq(u, 1, n)
      /\ chunks' = StayOf(chunks, k, some)
      /\ rxAckLen' = IF connected
                     THEN rxAckLen - FewerOf(rxAckLen, SizeOf(SubSeq(chunks, 1, k)))
                     ELSE rxAckLen
  BY DEF ReadStep
<1> HIDE DEF k
<1>5. k \in 0 .. Len(chunks) /\ Len(FirstOf(chunks, k)) <= len
  BY <1>3 DEF WholeOf
<1>6. FirstOf(chunks, k) \in Seq(Nat) /\ Len(FirstOf(chunks, k)) \in Nat
  BY <1>1, <1>5, FirstTyped
<1>7. r \in Seq(Nat) /\ u = FirstOf(chunks, k) \o r
  <2>1. CutWell(chunks, k, Len(FirstOf(chunks, k)) + 0, 0)
    BY <1>1, <1>5, CutsWell
  <2> QED BY <2>1, Zenon DEF CutWell
<1> HIDE DEF u, r
<1>8. Len(u) = Len(FirstOf(chunks, k)) + Len(r) /\ Len(u) \in Nat /\ Len(r) \in Nat
  <2>1. Len(FirstOf(chunks, k) \o r) = Len(FirstOf(chunks, k)) + Len(r)
    BY <1>6, <1>7, BytesConcat
  <2>2. Len(r) \in Nat
    BY <1>7
  <2> QED BY <1>6, <1>7, <2>1, <2>2
<1>9. n \in Nat /\ some = n - Len(FirstOf(chunks, k)) /\ some \in Nat
      /\ n = Len(FirstOf(chunks, k)) + some /\ n <= len /\ n <= Len(u)
  BY <1>2, <1>5, <1>6, <1>8 DEF FewerOf
<1> HIDE DEF n, some
<1>10. some # 0 => k < Len(chunks) /\ some < Len(chunks[k + 1].left)
  <2>1. SUFFICES ASSUME some # 0 PROVE k < Len(chunks) /\ some < Len(chunks[k + 1].left)
    OBVIOUS
  <2>2. k < Len(chunks)
    <3>1. SUFFICES ASSUME ~(k < Len(chunks)) PROVE FALSE
      OBVIOUS
    <3>2. k = Len(chunks)
      BY <1>1, <1>5, <3>1
    <3>3. FirstOf(chunks, k) = u
      BY <3>2 DEF FirstOf, u, Left, Lefts
    <3> QED BY <1>6, <1>8, <1>9, <2>1, <3>3
  <2>3. Len(FirstOf(chunks, k + 1)) > len
    BY <1>3, <2>2 DEF WholeOf
  <2>4. /\ Len(FirstOf(chunks, k + 1)) = Len(FirstOf(chunks, k)) + Len(chunks[k + 1].left)
        /\ Len(chunks[k + 1].left) \in Nat
    BY <1>1, <1>5, <2>2, FirstGrows
  <2> QED BY <1>2, <1>6, <1>9, <2>2, <2>3, <2>4
<1>11. CutWell(chunks, k, n, some)
  <2>1. CutWell(chunks, k, Len(FirstOf(chunks, k)) + some, some)
    BY <1>1, <1>5, <1>9, <1>10, CutsWell
  <2> QED BY <1>9, <2>1
<1>12. /\ chunks' \in Seq(Chunk) /\ SubSeq(u, 1, n) \o Left(chunks') = u /\ SubSeq(u, 1, n) \in Seq(Nat)
       /\ SizeOf(chunks) = SizeOf(SubSeq(chunks, 1, k)) + SizeOf(chunks')
       /\ SizeOf(SubSeq(chunks, 1, k)) \in Nat /\ SizeOf(chunks') \in Nat
  BY <1>4, <1>11, Zenon DEF CutWell, u
<1>13. readBytes' \o Left(chunks') = Numbers(arrived')
  <2>1. Left(chunks') \in Seq(Nat)
    BY <1>12, LeftsTyped
  <2>2. (readBytes \o SubSeq(u, 1, n)) \o Left(chunks') = readBytes \o (SubSeq(u, 1, n) \o Left(chunks'))
    BY <1>1, <1>12, <2>1, Joined
  <2>3. readBytes \o u = Numbers(arrived)
    BY <1>1 DEF u
  <2> QED BY <1>4, <1>12, <2>2, <2>3, Zenon
<1>14. readBytes' \in Seq(Nat)
  BY <1>1, <1>4, <1>12, JoinedTyped
<1>15. /\ rxAckLen' \in Nat
       /\ rxAckLen <= SizeOf(chunks) /\ connected => rxAckLen' <= SizeOf(chunks')
  <2>1. CASE connected
    <3>1. rxAckLen' = rxAckLen - FewerOf(rxAckLen, SizeOf(SubSeq(chunks, 1, k)))
      BY <1>4, <2>1
    <3> QED BY <1>1, <1>12, <3>1 DEF FewerOf
  <2>2. CASE ~connected
    BY <1>1, <1>4, <2>2
  <2> QED BY <2>1, <2>2
<1>16. RxPart'
  BY <1>1, <1>12, <1>13, <1>14, <1>15 DEF RxPart
<1>17. AckPart'
  <2>1. client # "connecting" /\ client' = client
    BY DEF AckPart
  <2>2. connected' => rxAckLen' <= SizeOf(chunks')
    BY <1>15, <2>1 DEF AckPart, connected
  <2> QED BY <2>1, <2>2 DEF AckPart
<1> QED BY <1>16, <1>17

\* read().
LEMMA ReadKeeps == SyncConsts /\ SyncInv /\ Read => SyncInv'
<1> SUFFICES ASSUME SyncConsts, SyncInv, Read PROVE SyncInv'
  OBVIOUS
<1>1. PICK len \in 1 .. MaxArrived : ReadStep(len)
  BY ReadIsStep
<1>2. call.phase = "idle" /\ UNCHANGED <<printer, client, tx, call, put, arrived>>
  BY DEF Read
<1>3. RxPart' /\ AckPart'
  BY <1>1, <1>2, ReadStepKeeps DEF SyncInv
<1>4. PutPart'
  <2>1. connected' => connected
    BY <1>2 DEF connected
  <2> QED BY <1>2, <2>1, PutPartStays DEF SyncInv
<1> QED BY <1>3, <1>4 DEF SyncInv

\* An object starts with nothing written and nothing arrived.
LEMMA SyncStarts == SyncConsts /\ SyncInit => SyncInv
<1> SUFFICES ASSUME SyncConsts, SyncInit PROVE SyncInv
  OBVIOUS
<1>1. RxPart /\ AckPart
  BY NothingYet DEF SyncInit, RxPart, AckPart, connected
<1>2. PutPart
  <2>1. tx = NoBuffer \/ Fitting(tx)
    BY EmptyFits DEF SyncInit
  <2>2. call = Idle /\ put = <<>> /\ printer \in BOOLEAN
    BY DEF SyncInit
  <2> QED BY <2>1, <2>2 DEF PutPart, Idle
<1> QED BY <1>1, <1>2 DEF SyncInv

\* A step that changes nothing of the client keeps its invariant.
LEMMA SyncStays == SyncInv /\ UNCHANGED syncVars => SyncInv'
<1> SUFFICES ASSUME SyncInv, UNCHANGED syncVars PROVE SyncInv'
  OBVIOUS
<1>1. RxPart'
  BY RxPartStays DEF SyncInv, syncVars, rxState
<1>2. AckPart'
  BY DEF SyncInv, AckPart, syncVars, connected
<1>3. PutPart'
  BY PutPartStays DEF SyncInv, syncVars, connected
<1> QED BY <1>1, <1>2, <1>3 DEF SyncInv

\* Every step keeps the invariant of the client.
LEMMA SyncInvKeeps == SyncConsts /\ SyncInv /\ [SyncNext]_syncVars => SyncInv'
BY SyncStays, ConnectKeeps, OnConnectKeeps, OnDisconnectKeeps, AssignKeeps, AssignOverKeeps, WriteKeeps,
   FillWaitKeeps, PutLastKeeps, AfterWaitKeeps, SendMoreKeeps, WriteEndKeeps, OnDataKeeps, ReadKeeps, Zenon
   DEF SyncNext

\* The invariant implies what the client keeps.
LEMMA SyncInvShows == SyncConsts /\ SyncInv => SyncKept
<1> SUFFICES ASSUME SyncConsts, SyncInv PROVE SyncKept
  OBVIOUS
<1>1. ~printer => readBytes \o Unread = [i \in 1 .. arrived |-> i]
  BY DEF SyncInv, RxPart, Unread, Left, Lefts, Numbers
<1>2. connected => rxAckLen <= SizeOf(chunks)
  BY DEF SyncInv, AckPart
<1>3. HasBuffer => Len(tx) <= TxBufSize
  BY DEF SyncInv, PutPart, HasBuffer, Fitting
<1>4. call.phase = "written" =>
          /\ Len(put) = call.len
          /\ Last(put) = call.len
          /\ call.toSend = call.len => put = [i \in 1 .. call.len |-> i]
  BY DEF SyncInv, PutPart, Last, Numbers
<1> QED BY <1>1, <1>2, <1>3, <1>4 DEF SyncKept

\* SyncKept: what arrives is read in order and whole, no byte stays without an
\* acknowledgement to come, and a write that returns its length has put its bytes.
THEOREM SyncIsKept == SyncSpec => []SyncKept
<1>0. SyncConsts
  BY SyncAssumption DEF SyncConsts
<1>1. SyncInit => SyncInv
  BY <1>0, SyncStarts
<1>2. SyncInv /\ [SyncNext]_syncVars => SyncInv'
  BY <1>0, SyncInvKeeps
<1>3. SyncInv => SyncKept
  BY <1>0, SyncInvShows
<1> QED BY <1>1, <1>2, <1>3, PTL DEF SyncSpec

\* StreamsKept: no byte of a stream is lost, doubled or out of order between a
\* sketch and its client.
THEOREM StreamsAreKept == BufferSpec /\ SyncSpec => []StreamsKept
<1>1. BufferSpec => []StreamKept
  BY StreamIsKept
<1>2. SyncSpec => []SyncKept
  BY SyncIsKept
<1> QED BY <1>1, <1>2, PTL DEF StreamsKept
=============================================================================
