-------------------------- MODULE AsyncTCP_proofs --------------------------
(***************************************************************************)
(* AsyncTCP for any number of clients, slots and packets: a slot is taken  *)
(* exactly while one live client holds it; and, as long as no packet was   *)
(* queued in the middle of a removal, events are handled in the order lwIP *)
(* reported them, and a deleted client is never used again unless loop()   *)
(* called it or lwIP's thread closed it in the middle of _close().         *)
(***************************************************************************)
EXTENDS AsyncTCP, SequenceTheorems, TLAPS

\* What the slots' part of the invariant is about.
SlotTypes ==
    /\ closedSlots \in [Slots -> Nat] /\ closedIndex \in Nat \ {0}
    /\ slot \in [Clients -> Slots \cup {NoSlot}]
    /\ life \in [Clients -> {"none", "live", "deleted"}]
\* An object holds no slot before it is made and after it was deleted.
Unheld == \A c \in Clients : life[c] # "live" => slot[c] = NoSlot
SlotInv == SlotTypes /\ SlotsAccounted /\ Unheld

WorkTypes ==
    /\ queue \in Seq(Packets) /\ lwip \in Packets /\ sweep.packet \in Packets
    /\ number \in [Clients -> Nat]
    /\ call \in [Tasks -> {NoCall} \cup [op : Ops, c : Clients, slot : Slots \cup {NoSlot}]]
    /\ task \in [Tasks -> {Idle} \cup Work]
AsyncInv == SlotInv /\ WorkTypes /\ Len(queue) <= QueueLength

-----------------------------------------------------------------------------
(* The slots.                                                              *)

\* Giving a slot back, by a client that lives on or is deleted.
LEMMA FreeKeepsSlots ==
    ASSUME SlotInv, NEW c \in Clients, FreeClosedSlot(c),
           life' = life \/ life' = [life EXCEPT ![c] = "deleted"]
    PROVE  SlotInv'
<1> USE AsyncAssumption DEF SlotInv, SlotTypes, Unheld, SlotsAccounted, Holder, NoSlot, Slots
<1>1. CASE slot[c] = NoSlot
  <2>1. UNCHANGED slotVars
    BY <1>1 DEF FreeClosedSlot
  <2> QED
    BY <1>1, <2>1 DEF slotVars
<1>2. CASE slot[c] # NoSlot
  <2>1. /\ closedSlots' = [closedSlots EXCEPT ![slot[c]] = closedIndex]
        /\ closedIndex' = closedIndex + 1
        /\ slot' = [slot EXCEPT ![c] = NoSlot]
    BY <1>2 DEF FreeClosedSlot
  <2>2. life[c] = "live" /\ slot[c] \in Slots
    BY <1>2
  <2>3. SlotTypes'
    BY <2>1, <2>2
  <2>4. Unheld'
    BY <2>1, <2>2
  <2>5. SlotsAccounted'
    BY <2>1, <2>2
  <2> QED
    BY <2>3, <2>4, <2>5
<1> QED
  BY <1>1, <1>2

\* A new object of an accepted connection takes a free slot, or none.
LEMMA AllocateKeepsSlots ==
    ASSUME SlotInv, NEW c \in Clients, AllocateClosedSlot(c),
           life[c] = "none", life' = [life EXCEPT ![c] = "live"], UNCHANGED closedIndex
    PROVE  SlotInv'
<1> USE AsyncAssumption DEF SlotInv, SlotTypes, Unheld, SlotsAccounted, Holder, NoSlot, Slots
<1>1. slot[c] = NoSlot
  OBVIOUS
<1>2. ASSUME NEW s \in Slots, Longest(s),
             slot' = [slot EXCEPT ![c] = s], closedSlots' = [closedSlots EXCEPT ![s] = 0]
      PROVE  SlotInv'
  <2>1. closedSlots[s] # 0 /\ \A d \in Clients : ~Holder(d, s)
    BY <1>2 DEF Longest
  <2> QED
    BY <1>1, <1>2, <2>1
<1>3. CASE UNCHANGED <<slot, closedSlots>>
  BY <1>1, <1>3
<1> QED
  BY <1>2, <1>3 DEF AllocateClosedSlot

\* A step that touches no slot and no life keeps the slots accounted.
LEMMA OthersKeepSlots ==
    ASSUME SlotInv, UNCHANGED <<slotVars, life>>
    PROVE  SlotInv'
BY DEF SlotInv, SlotTypes, Unheld, SlotsAccounted, Holder, slotVars

-----------------------------------------------------------------------------
(* The types of the rest.                                                  *)

\* A packet added at either end leaves a queue of packets.
LEMMA QueueTypes ==
    ASSUME NEW q \in Seq(Packets), NEW p \in Packets
    PROVE  /\ Append(q, p) \in Seq(Packets) /\ Len(Append(q, p)) = Len(q) + 1
           /\ <<p>> \o q \in Seq(Packets) /\ Len(<<p>> \o q) = Len(q) + 1
           /\ q # <<>> => /\ Head(q) \in Packets
                          /\ Tail(q) \in Seq(Packets) /\ Len(Tail(q)) = Len(q) - 1
                          /\ Len(q) \in Nat
<1>1. <<p>> \in Seq(Packets) /\ Len(<<p>>) = 1
  OBVIOUS
<1>2. <<p>> \o q \in Seq(Packets) /\ Len(<<p>> \o q) = Len(<<p>>) + Len(q)
  BY <1>1, ConcatProperties
<1>3. Append(q, p) \in Seq(Packets) /\ Len(Append(q, p)) = Len(q) + 1
  BY AppendProperties
<1>4. q # <<>> => Head(q) \in Packets /\ Tail(q) \in Seq(Packets) /\ Len(Tail(q)) = Len(q) - 1 /\ Len(q) \in Nat
  BY HeadTailProperties, LenProperties
<1> QED
  BY <1>1, <1>2, <1>3, <1>4, LenProperties

\* Every report is a packet.
LEMMA PacketTypes ==
    ASSUME NEW e \in Events, NEW c \in Clients \cup {NoClient}, NEW n \in Nat
    PROVE  Packet(e, c, n) \in Packets /\ NoPacket \in Packets
BY DEF Packet, NoPacket, Packets

\* Where a task stands after a step on the client c
LEMMA TaskTypes ==
    ASSUME NEW c \in Clients, NEW at \in Places, NEW op \in Ops
    PROVE  /\ [at |-> at, op |-> op, c |-> c] \in Work
           /\ \A w \in Work : [w EXCEPT !.at = at] \in Work /\ w.c \in Clients /\ w.op \in Ops
BY DEF Work

\* Where a task goes on is a place it can be at.
LEMMA AfterTypes ==
    ASSUME NEW c \in Clients, NEW op \in Ops, NEW ok \in BOOLEAN
    PROVE  After(op, c, ok) \in {Idle} \cup Work
<1>1. CASE op \in {"ackClose", "closeAbort"}
  BY <1>1 DEF After, Work, Places, Ops
<1>2. CASE op = "close" /\ ok = TRUE
  BY <1>2 DEF After, Work, Places, Ops
<1>3. CASE op = "close" /\ ok = FALSE
  BY <1>3 DEF After, Work, Places, Ops
<1>4. CASE op \notin {"ackClose", "closeAbort", "close"}
  BY <1>4 DEF After, Work, Places, Ops
<1> QED
  BY <1>1, <1>2, <1>3, <1>4

\* What a callback of lwIP is about to queue is a packet.
LEMMA ReportTypes ==
    ASSUME NEW e \in Events, NEW c \in Clients, NEW n \in Nat, Report(e, c, n)
    PROVE  lwip' \in Packets
<1>1. Packet(e, c, n) \in Packets /\ Packet(e, NoClient, 0) \in Packets /\ NoPacket \in Packets
  BY PacketTypes
<1> QED
  BY <1>1 DEF Report

\* ... with its number, which stays a natural number.
LEMMA NumberedTypes ==
    ASSUME AsyncInv, NEW e \in Events, NEW c \in Clients, Numbered(e, c)
    PROVE  lwip' \in Packets /\ number' \in [Clients -> Nat]
<1>1. number \in [Clients -> Nat] /\ number[c] + 1 \in Nat
  BY DEF AsyncInv, WorkTypes
<1>2. Report(e, c, number[c] + 1) /\ number' = [number EXCEPT ![c] = @ + 1]
  BY DEF Numbered
<1>3. lwip' \in Packets
  BY <1>1, <1>2, ReportTypes
<1> QED
  BY <1>1, <1>2, <1>3

-----------------------------------------------------------------------------
(* The steps of the tasks.                                                 *)

\* A client that is told of its end keeps its slot or is deleted and gives it back.
LEMMA GoodbyeKeepsSlots ==
    ASSUME AsyncInv, NEW c \in Clients, Goodbye(c)
    PROVE  SlotInv'
<1>1. CASE UNCHANGED <<life, slotVars>>
  BY <1>1, OthersKeepSlots DEF AsyncInv
<1>2. CASE life' = [life EXCEPT ![c] = "deleted"] /\ FreeClosedSlot(c)
  BY <1>2, FreeKeepsSlots DEF AsyncInv
<1> QED
  BY <1>1, <1>2 DEF Goodbye

\* The task of the invariant, when it is not idle
LEMMA BusyTask ==
    ASSUME AsyncInv, NEW t \in Tasks, task[t].at # "idle"
    PROVE  /\ task[t] \in Work
           /\ task[t].c \in Clients /\ task[t].op \in Ops
BY DEF AsyncInv, WorkTypes, Idle, Work

\* A task that moves to a legal place leaves both at legal places.
LEMMA MoveTypes ==
    ASSUME AsyncInv, NEW t \in Tasks,
           NEW s \in {Idle} \cup Work,
           task' = [task EXCEPT ![t] = s]
    PROVE  task' \in [Tasks -> {Idle} \cup Work]
BY DEF AsyncInv, WorkTypes

\* A step of a task between two calls keeps the types and the slots;
LEMMA StepKeeps ==
    ASSUME AsyncInv, NEW t \in Tasks, Step(t)
    PROVE  AsyncInv'
<1> DEFINE c == task[t].c
<1>0. task[t].at # "idle"
  BY DEF Step, ReadPcb, ReadSlot, TestPcb, Unregister, ClearEvents, Discard
<1>1. task[t] \in Work /\ c \in Clients /\ task[t].op \in Ops
  BY <1>0, BusyTask
<1>2. CASE ReadPcb(t)
  <2>1. PICK s \in {Idle} \cup Work : task' = [task EXCEPT ![t] = s]
    <3>1. CASE pcb[c]
      <4>1. task' = [task EXCEPT ![t] = [task[t] EXCEPT !.at = "slot"]]
        BY <1>2, <3>1 DEF ReadPcb
      <4>2. [task[t] EXCEPT !.at = "slot"] \in Work
        BY <1>1 DEF Work, Places
      <4> QED
        BY <4>1, <4>2
    <3>2. CASE ~pcb[c]
      <4>1. task' = [task EXCEPT ![t] = After(task[t].op, c, FALSE)]
        BY <1>2, <3>2 DEF ReadPcb
      <4> QED
        BY <4>1, <1>1, AfterTypes
    <3> QED
      BY <3>1, <3>2
  <2>2. task' \in [Tasks -> {Idle} \cup Work]
    BY <2>1, MoveTypes
  <2>3. SlotInv'
    BY <1>2, OthersKeepSlots DEF AsyncInv, ReadPcb
  <2> QED
    BY <1>2, <2>2, <2>3 DEF AsyncInv, WorkTypes, ReadPcb, lwipVars
<1>3. CASE ReadSlot(t)
  <2>1. task' = [task EXCEPT ![t] = [task[t] EXCEPT !.at = "wait"]]
    BY <1>3 DEF ReadSlot
  <2>2. [task[t] EXCEPT !.at = "wait"] \in Work
    BY <1>1 DEF Work, Places
  <2>3. task' \in [Tasks -> {Idle} \cup Work]
    BY <2>1, <2>2, MoveTypes
  <2>4. slot[c] \in Slots \cup {NoSlot}
    BY <1>1 DEF AsyncInv, SlotInv, SlotTypes
  <2>5. call' \in [Tasks -> {NoCall} \cup [op : Ops, c : Clients, slot : Slots \cup {NoSlot}]]
    BY <1>1, <1>3, <2>4 DEF AsyncInv, WorkTypes, ReadSlot
  <2>6. SlotInv'
    BY <1>3, OthersKeepSlots DEF AsyncInv, ReadSlot
  <2> QED
    BY <1>3, <2>3, <2>5, <2>6 DEF AsyncInv, WorkTypes, ReadSlot, lwipVars
<1>7. CASE TestPcb(t)
  <2>1. PICK s \in {Idle} \cup Work : task' = [task EXCEPT ![t] = s]
    <3>1. CASE pcb[c]
      <4>1. task' = [task EXCEPT ![t] = [task[t] EXCEPT !.at = "unregister"]]
        BY <1>7, <3>1 DEF TestPcb
      <4>2. [task[t] EXCEPT !.at = "unregister"] \in Work
        BY <1>1 DEF Work, Places
      <4> QED
        BY <4>1, <4>2
    <3>2. CASE ~pcb[c]
      BY <1>7, <3>2 DEF TestPcb
    <3> QED
      BY <3>1, <3>2
  <2>2. task' \in [Tasks -> {Idle} \cup Work]
    BY <2>1, MoveTypes
  <2>3. SlotInv'
    BY <1>7, OthersKeepSlots DEF AsyncInv, TestPcb
  <2> QED
    BY <1>7, <2>2, <2>3 DEF AsyncInv, WorkTypes, TestPcb, lwipVars
<1>4. CASE Unregister(t)
  <2>1. task' = [task EXCEPT ![t] = [task[t] EXCEPT !.at = "clear"]]
    BY <1>4 DEF Unregister
  <2>4. [task[t] EXCEPT !.at = "clear"] \in Work
    BY <1>1 DEF Work, Places
  <2>2. task' \in [Tasks -> {Idle} \cup Work]
    BY <2>1, <2>4, MoveTypes
  <2>3. SlotInv'
    BY <1>4, OthersKeepSlots DEF AsyncInv, Unregister
  <2> QED
    BY <1>4, <2>2, <2>3 DEF AsyncInv, WorkTypes, Unregister
<1>5. CASE ClearEvents(t)
  <2>1. PICK s \in Work : task' = [task EXCEPT ![t] = s]
    <3>1. CASE task[t].at = "clear"
      BY <1>1, <1>5, <3>1 DEF ClearEvents, Work, Places, Ops
    <3>2. CASE task[t].at # "clear"
      BY <1>1, <1>5, <3>2 DEF ClearEvents, Work, Places, Ops
    <3> QED
      BY <3>1, <3>2
  <2>2. task' \in [Tasks -> {Idle} \cup Work]
    BY <2>1, MoveTypes
  <2>3. Packet("CLEAR", c, 0) \in Packets
    BY <1>1, PacketTypes DEF Events
  <2>4. queue' \in Seq(Packets) /\ Len(queue') <= QueueLength
    BY <1>5, <2>3, QueueTypes, LenProperties, AsyncAssumption DEF ClearEvents, AsyncInv, WorkTypes
  <2>5. SlotInv'
    BY <1>5, OthersKeepSlots DEF AsyncInv, ClearEvents
  <2> QED
    BY <1>5, <2>2, <2>4, <2>5 DEF AsyncInv, WorkTypes, ClearEvents, lwipVars
<1>6. CASE Discard(t)
  <2>1. task' = [task EXCEPT ![t] = Idle]
    BY <1>6 DEF Discard
  <2>2. task' \in [Tasks -> {Idle} \cup Work]
    BY <2>1, MoveTypes
  <2>3. SlotInv'
    BY <1>1, <1>6, GoodbyeKeepsSlots DEF Discard
  <2> QED
    BY <1>6, <2>2, <2>3 DEF AsyncInv, WorkTypes, Discard, lwipVars
<1> QED
  BY <1>2, <1>3, <1>4, <1>5, <1>6, <1>7 DEF Step

\* Taking the first packet of the queue leaves a queue of packets.
LEMMA TailTypes ==
    ASSUME AsyncInv, queue # <<>>, queue' = Tail(queue)
    PROVE  queue' \in Seq(Packets) /\ Len(queue') <= QueueLength /\ Head(queue) \in Packets
<1>1. queue \in Seq(Packets) /\ Len(queue) \in Nat /\ Len(queue) <= QueueLength
  BY LenProperties DEF AsyncInv, WorkTypes
<1>2. Tail(queue) \in Seq(Packets) /\ Len(Tail(queue)) = Len(queue) - 1 /\ Head(queue) \in Packets
  BY <1>1, HeadTailProperties
<1> QED
  BY <1>1, <1>2, AsyncAssumption

\* What the service task takes is a packet of a client.
LEMMA TakeTypes ==
    ASSUME AsyncInv, NEW e, Take(e)
    PROVE  /\ queue' \in Seq(Packets) /\ Len(queue') <= QueueLength
           /\ Head(queue).client \in Clients /\ Head(queue).no \in Nat
<1>1. queue # <<>> /\ queue' = Tail(queue) /\ Head(queue).client # NoClient
  BY DEF Take
<1> QED
  BY <1>1, TailTypes DEF Packets

\* the service task when it calls the program back,
LEMMA CallbackKeeps ==
    ASSUME AsyncInv, HandleCallback
    PROVE  AsyncInv'
<1> DEFINE c == Head(queue).client
<1>1. PICK e : Take(e)
  BY DEF HandleCallback
<1>2. c \in Clients /\ queue' \in Seq(Packets) /\ Len(queue') <= QueueLength
  BY <1>1, TakeTypes
<1>3. [at |-> "pcb", op |-> "ack", c |-> c] \in Work /\ [at |-> "close", op |-> "timeout", c |-> c] \in Work
  BY <1>2 DEF Work, Places, Ops
<1>4. Answer(c) \subseteq {Idle} \cup Work
  BY <1>2 DEF Answer, Starts, Work, Places, Ops
<1>5. task' = task \/ \E s \in {Idle} \cup Work : task' = [task EXCEPT !["service"] = s]
  BY <1>3, <1>4 DEF HandleCallback
<1>6. task' \in [Tasks -> {Idle} \cup Work]
  BY <1>5, MoveTypes DEF AsyncInv, WorkTypes, Tasks
<1>7. SlotInv'
  BY OthersKeepSlots DEF HandleCallback, AsyncInv
<1> QED
  BY <1>2, <1>6, <1>7 DEF AsyncInv, WorkTypes, HandleCallback, lwipVars

\* and all it does;
LEMMA ServiceKeeps ==
    ASSUME AsyncInv, Service
    PROVE  AsyncInv'
<1> DEFINE p == Head(queue)
           c == Head(queue).client
<1>0. "service" \in Tasks
  BY DEF Tasks
<1>1. CASE HandleNothing
  <2>1. queue' \in Seq(Packets) /\ Len(queue') <= QueueLength
    BY <1>1, TailTypes DEF HandleNothing
  <2>2. SlotInv'
    BY <1>1, OthersKeepSlots DEF HandleNothing, AsyncInv
  <2> QED
    BY <1>1, <2>1, <2>2 DEF AsyncInv, WorkTypes, HandleNothing, lwipVars, taskVars
<1>2. CASE HandleCallback
  BY <1>2, CallbackKeeps
<1>3. CASE HandleFin
  <2>1. c \in Clients /\ queue' \in Seq(Packets) /\ Len(queue') <= QueueLength
    BY <1>3, TakeTypes DEF HandleFin
  <2>2. task' = [task EXCEPT !["service"] = [at |-> "finClear", op |-> "none", c |-> c]]
    BY <1>3 DEF HandleFin
  <2>3. [at |-> "finClear", op |-> "none", c |-> c] \in Work
    BY <2>1 DEF Work, Places, Ops
  <2>4. task' \in [Tasks -> {Idle} \cup Work]
    BY <1>0, <2>2, <2>3, MoveTypes
  <2>5. SlotInv'
    BY <1>3, OthersKeepSlots DEF HandleFin, AsyncInv
  <2> QED
    BY <1>3, <2>1, <2>4, <2>5 DEF AsyncInv, WorkTypes, HandleFin, lwipVars
<1>4. CASE HandleError
  <2>1. c \in Clients /\ queue' \in Seq(Packets) /\ Len(queue') <= QueueLength
    BY <1>4, TakeTypes DEF HandleError
  <2>2. SlotInv'
    BY <1>4, <2>1, GoodbyeKeepsSlots DEF HandleError
  <2> QED
    BY <1>4, <2>1, <2>2 DEF AsyncInv, WorkTypes, HandleError, taskVars
<1>5. CASE HandleDns
  <2>1. c \in Clients /\ queue' \in Seq(Packets) /\ Len(queue') <= QueueLength
    BY <1>5, TakeTypes DEF HandleDns
  <2>2. CASE Take("DNS") /\ UNCHANGED <<lwip, life, pcb, slotVars, reported, number, sweep, call, history>>
    <3>1. task' = task \/ task' = [task EXCEPT !["service"] = [at |-> "slot", op |-> "connect", c |-> c]]
      BY <1>5, <2>2 DEF HandleDns, Take
    <3>2. [at |-> "slot", op |-> "connect", c |-> c] \in Work
      BY <2>1 DEF Work, Places, Ops
    <3>3. task' \in [Tasks -> {Idle} \cup Work]
      BY <1>0, <3>1, <3>2, MoveTypes DEF AsyncInv, WorkTypes
    <3>4. SlotInv'
      BY <2>2, OthersKeepSlots DEF AsyncInv
    <3> QED
      BY <2>1, <2>2, <3>3, <3>4 DEF AsyncInv, WorkTypes
  <2>3. CASE Goodbye(c) /\ UNCHANGED <<lwip, lwipVars, taskVars, seen, mixed>>
    <3>1. SlotInv'
      BY <2>1, <2>3, GoodbyeKeepsSlots
    <3> QED
      BY <2>1, <2>3, <3>1 DEF AsyncInv, WorkTypes, taskVars, lwipVars
  <2> QED
    BY <1>5, <2>2, <2>3 DEF HandleDns
<1>6. CASE HandleClear
  <2>1. c \in Clients /\ queue' \in Seq(Packets) /\ Len(queue') <= QueueLength
    BY <1>6, TakeTypes DEF HandleClear
  <2>2. [at |-> "removing", op |-> "none", c |-> c] \in Work
    BY <2>1 DEF Work, Places, Ops
  <2>3. task' \in [Tasks -> {Idle} \cup Work]
    BY <1>0, <1>6, <2>2, MoveTypes DEF HandleClear
  <2>4. SlotInv'
    BY <1>6, OthersKeepSlots DEF HandleClear, AsyncInv
  <2>5. sweep'.packet \in Packets
    BY <1>6 DEF HandleClear, NoSweep, NoPacket, Packet, Packets
  <2> QED
    BY <1>6, <2>1, <2>3, <2>4, <2>5 DEF AsyncInv, WorkTypes, HandleClear, lwipVars
<1>7. CASE RemoveEvents
  <2>0. SlotInv'
    BY <1>7, OthersKeepSlots DEF RemoveEvents, AsyncInv
  <2>1. CASE queue = <<>> \/ p.first
    <3>1. queue' \in Seq(Packets) /\ Len(queue') <= QueueLength
      <4>1. CASE queue = <<>>
        BY <1>7, <4>1 DEF RemoveEvents, AsyncInv, WorkTypes
      <4>2. CASE queue # <<>>
        <5> DEFINE q == [p EXCEPT !.first = FALSE]
        <5>1. queue' = <<q>> \o Tail(queue)
          BY <1>7, <2>1, <4>2 DEF RemoveEvents
        <5>2. queue \in Seq(Packets) /\ Len(queue) \in Nat /\ Len(queue) <= QueueLength
          BY LenProperties DEF AsyncInv, WorkTypes
        <5>3. p \in Packets /\ Tail(queue) \in Seq(Packets) /\ Len(Tail(queue)) = Len(queue) - 1
          BY <4>2, <5>2, HeadTailProperties
        <5>4. q \in Packets
          BY <5>3 DEF Packets
        <5> HIDE DEF q, p
        <5>5. <<q>> \o Tail(queue) \in Seq(Packets) /\ Len(<<q>> \o Tail(queue)) = Len(Tail(queue)) + 1
          BY <5>3, <5>4, QueueTypes
        <5> QED
          BY <5>1, <5>2, <5>3, <5>5, AsyncAssumption
      <4> QED
        BY <4>1, <4>2
    <3>2. task' = [task EXCEPT !["service"] = Idle] /\ sweep' = NoSweep
      BY <1>7, <2>1 DEF RemoveEvents
    <3>3. task' \in [Tasks -> {Idle} \cup Work]
      BY <1>0, <3>2, MoveTypes
    <3>4. sweep'.packet \in Packets
      BY <3>2 DEF NoSweep, NoPacket, Packet, Packets
    <3> QED
      BY <1>7, <2>0, <3>1, <3>3, <3>4 DEF AsyncInv, WorkTypes, RemoveEvents, lwipVars
  <2>2. CASE ~(queue = <<>> \/ p.first)
    <3>1. queue # <<>> /\ queue' = Tail(queue)
      BY <1>7, <2>2 DEF RemoveEvents
    <3>2. queue' \in Seq(Packets) /\ Len(queue') <= QueueLength /\ p \in Packets
      BY <3>1, TailTypes
    <3>3. CASE UNCHANGED <<task, sweep>>
      BY <1>7, <2>0, <3>2, <3>3 DEF AsyncInv, WorkTypes, RemoveEvents, lwipVars
    <3>4. CASE /\ task' = [task EXCEPT !["service"].at = "putBack"]
               /\ sweep' = [started |-> TRUE, packet |-> [p EXCEPT !.first = ~sweep.started]]
      <4>1. task["service"].at # "idle"
        BY <1>7 DEF RemoveEvents
      <4>2. task["service"] \in Work
        BY <1>0, <4>1, BusyTask
      <4>3. [task["service"] EXCEPT !.at = "putBack"] \in Work
        BY <4>2 DEF Work, Places
      <4>4. task' = [task EXCEPT !["service"] = [task["service"] EXCEPT !.at = "putBack"]]
        BY <3>4
      <4>5. task' \in [Tasks -> {Idle} \cup Work]
        BY <1>0, <4>3, <4>4, MoveTypes
      <4>6. sweep'.packet \in Packets
        BY <3>2, <3>4 DEF Packets
      <4> QED
        BY <1>7, <2>0, <3>2, <4>5, <4>6 DEF AsyncInv, WorkTypes, RemoveEvents, lwipVars
    <3> QED
      BY <1>7, <2>2, <3>3, <3>4 DEF RemoveEvents
  <2> QED
    BY <2>1, <2>2
<1>8. CASE PutBack
  <2>0. SlotInv'
    BY <1>8, OthersKeepSlots DEF PutBack, AsyncInv
  <2>1. queue' \in Seq(Packets) /\ Len(queue') <= QueueLength
    BY <1>8, QueueTypes, LenProperties, AsyncAssumption DEF PutBack, AsyncInv, WorkTypes
  <2>2. task["service"] \in Work
    BY <1>0, <1>8, BusyTask DEF PutBack
  <2>3. [task["service"] EXCEPT !.at = "removing"] \in Work
    BY <2>2 DEF Work, Places
  <2>4. task' = [task EXCEPT !["service"] = [task["service"] EXCEPT !.at = "removing"]]
    BY <1>8 DEF PutBack
  <2>5. task' \in [Tasks -> {Idle} \cup Work]
    BY <1>0, <2>3, <2>4, MoveTypes
  <2>6. sweep'.packet \in Packets
    BY <1>8 DEF PutBack, AsyncInv, WorkTypes, NoPacket, Packet, Packets
  <2> QED
    BY <1>8, <2>0, <2>1, <2>5, <2>6 DEF AsyncInv, WorkTypes, PutBack, lwipVars
<1> QED
  BY <1>1, <1>2, <1>3, <1>4, <1>5, <1>6, <1>7, <1>8 DEF Service

-----------------------------------------------------------------------------
(* lwIP, the network and loop().                                           *)

\* lwIP's thread when it queues or serves a call;
LEMMA LwipKeeps ==
    ASSUME AsyncInv, Lwip
    PROVE  AsyncInv'
<1>1. CASE LwipQueues
  <2>1. queue' \in Seq(Packets) /\ Len(queue') <= QueueLength
    BY <1>1, QueueTypes, LenProperties, AsyncAssumption DEF LwipQueues, AsyncInv, WorkTypes
  <2>2. lwip' \in Packets
    BY <1>1 DEF LwipQueues, NoPacket, Packet, Packets
  <2>3. SlotInv'
    BY <1>1, OthersKeepSlots DEF LwipQueues, AsyncInv
  <2> QED
    BY <1>1, <2>1, <2>2, <2>3 DEF AsyncInv, WorkTypes, LwipQueues, lwipVars, taskVars
<1>2. ASSUME NEW t \in Tasks, Serve(t)
      PROVE  AsyncInv'
  <2> DEFINE c == call[t].c
             op == call[t].op
  <2>1. c \in Clients /\ op \in Ops
    BY <1>2 DEF Serve, AsyncInv, WorkTypes, NoCall
  <2>2. PICK ok \in BOOLEAN : task' = [task EXCEPT ![t] = After(op, c, ok)]
    BY <1>2 DEF Serve
  <2>3. task' \in [Tasks -> {Idle} \cup Work]
    BY <2>1, <2>2, AfterTypes, MoveTypes
  <2>4. Numbered("ERROR", c) \/ UNCHANGED <<lwip, number>>
    BY <1>2 DEF Serve
  <2>5. lwip' \in Packets /\ number' \in [Clients -> Nat]
    <3>1. CASE Numbered("ERROR", c)
      BY <2>1, <3>1, NumberedTypes DEF Events
    <3>2. CASE UNCHANGED <<lwip, number>>
      BY <3>2 DEF AsyncInv, WorkTypes
    <3> QED
      BY <2>4, <3>1, <3>2
  <2>6. call' \in [Tasks -> {NoCall} \cup [op : Ops, c : Clients, slot : Slots \cup {NoSlot}]]
    BY <1>2 DEF Serve, AsyncInv, WorkTypes
  <2>7. SlotInv'
    BY <1>2, OthersKeepSlots DEF Serve, AsyncInv
  <2> QED
    BY <1>2, <2>3, <2>5, <2>6, <2>7 DEF AsyncInv, WorkTypes, Serve
<1> QED
  BY <1>1, <1>2 DEF Lwip

\* whatever comes from the network;
LEMMA NetworkKeeps ==
    ASSUME AsyncInv, Network
    PROVE  AsyncInv'
<1>1. ASSUME NEW c \in Clients, Accept(c)
      PROVE  AsyncInv'
  <2>1. SlotInv'
    BY <1>1, AllocateKeepsSlots DEF Accept, AsyncInv
  <2>2. lwip' \in Packets /\ number' \in [Clients -> Nat]
    BY <1>1, PacketTypes DEF Accept, AsyncInv, WorkTypes, Events
  <2> QED
    BY <1>1, <2>1, <2>2 DEF AsyncInv, WorkTypes, Accept, taskVars
<1>2. ASSUME NEW c \in Clients, Connected(c) \/ Transfer(c) \/ Error(c)
      PROVE  AsyncInv'
  <2>1. PICK e \in Events : Numbered(e, c)
    BY <1>2 DEF Connected, Transfer, Error, Events
  <2>2. lwip' \in Packets /\ number' \in [Clients -> Nat]
    BY <2>1, NumberedTypes
  <2>3. UNCHANGED <<queue, life, slotVars, taskVars>>
    BY <1>2 DEF Connected, Transfer, Error
  <2>4. SlotInv'
    BY <2>3, OthersKeepSlots DEF AsyncInv
  <2> QED
    BY <2>2, <2>3, <2>4 DEF AsyncInv, WorkTypes, taskVars
<1>3. ASSUME NEW c \in Clients, Poll(c)
      PROVE  AsyncInv'
  <2>1. lwip' \in Packets
    BY <1>3, ReportTypes DEF Poll, Events
  <2>2. SlotInv'
    BY <1>3, OthersKeepSlots DEF Poll, AsyncInv
  <2> QED
    BY <1>3, <2>1, <2>2 DEF AsyncInv, WorkTypes, Poll, taskVars
<1>4. ASSUME NEW c \in Clients, Fin(c)
      PROVE  AsyncInv'
  <2>1. lwip' \in Packets /\ number' \in [Clients -> Nat]
    BY <1>4, NumberedTypes DEF Fin, Events
  <2>2. life' = life /\ (FreeClosedSlot(c) \/ UNCHANGED slotVars)
    BY <1>4 DEF Fin
  <2>3. SlotInv'
    BY <2>2, FreeKeepsSlots, OthersKeepSlots DEF AsyncInv
  <2> QED
    BY <1>4, <2>1, <2>3 DEF AsyncInv, WorkTypes, Fin, taskVars
<1>5. ASSUME NEW c \in Clients, DnsFound(c)
      PROVE  AsyncInv'
  <2>1. lwip' \in Packets
    BY <1>5, PacketTypes DEF DnsFound, Events
  <2>2. SlotInv'
    BY <1>5, OthersKeepSlots DEF DnsFound, AsyncInv
  <2> QED
    BY <1>5, <2>1, <2>2 DEF AsyncInv, WorkTypes, DnsFound, taskVars
<1> QED
  BY <1>1, <1>2, <1>3, <1>4, <1>5 DEF Network

\* and the calls of loop().
LEMMA LoopKeeps ==
    ASSUME AsyncInv, NEW c \in Clients, LoopConnects(c) \/ LoopCallsClient(c)
    PROVE  AsyncInv'
<1>0. "loop" \in Tasks
  BY DEF Tasks
<1>1. CASE LoopConnects(c)
  <2>1. task' = task \/ task' = [task EXCEPT !["loop"] = [at |-> "slot", op |-> "connect", c |-> c]]
    BY <1>1 DEF LoopConnects
  <2>2. [at |-> "slot", op |-> "connect", c |-> c] \in Work
    BY DEF Work, Places, Ops
  <2>3. task' \in [Tasks -> {Idle} \cup Work]
    BY <1>0, <2>1, <2>2, MoveTypes DEF AsyncInv, WorkTypes
  <2>4. SlotInv'
    BY <1>1 DEF LoopConnects, AsyncInv, SlotInv, SlotTypes, SlotsAccounted, Unheld, Holder, slotVars, Slots, NoSlot
  <2> QED
    BY <1>1, <2>3, <2>4 DEF AsyncInv, WorkTypes, LoopConnects
<1>2. CASE LoopCallsClient(c)
  <2>1. PICK s \in Starts(c, LoopCalls) \ {Idle} : task' = [task EXCEPT !["loop"] = s]
    BY <1>2 DEF LoopCallsClient
  <2>2. s \in Work
    BY <2>1 DEF Starts, Work, Places, Ops
  <2>3. task' \in [Tasks -> {Idle} \cup Work]
    BY <1>0, <2>1, <2>2, MoveTypes
  <2>4. SlotInv'
    BY <1>2, OthersKeepSlots DEF LoopCallsClient, AsyncInv
  <2> QED
    BY <1>2, <2>3, <2>4 DEF AsyncInv, WorkTypes, LoopCallsClient, lwipVars
<1> QED
  BY <1>1, <1>2

-----------------------------------------------------------------------------

\* No slot is taken at the start.
LEMMA InitAsyncInv == Init => AsyncInv
<1> SUFFICES ASSUME Init PROVE AsyncInv
  OBVIOUS
<1>1. SlotInv
  BY AsyncAssumption DEF Init, SlotInv, SlotTypes, SlotsAccounted, Unheld, Holder, NoSlot, Slots
<1>2. NoPacket \in Packets
  BY DEF NoPacket, Packet, Packets
<1>3. queue \in Seq(Packets) /\ Len(queue) = 0
  BY DEF Init
<1> QED
  BY <1>1, <1>2, <1>3, AsyncAssumption DEF Init, AsyncInv, WorkTypes, NoSweep

\* Every step keeps the types and the slots.
LEMMA NextAsyncInv == AsyncInv /\ [Next]_vars => AsyncInv'
<1> SUFFICES ASSUME AsyncInv, [Next]_vars PROVE AsyncInv'
  OBVIOUS
<1>3. CASE \E t \in Tasks : Step(t)
  BY <1>3, StepKeeps
<1>4. CASE Service
  BY <1>4, ServiceKeeps
<1>5. CASE Lwip
  BY <1>5, LwipKeeps
<1>6. CASE Network
  BY <1>6, NetworkKeeps
<1>7. CASE Loop
  BY <1>7, LoopKeeps, AsyncAssumption DEF Loop
<1>8. CASE UNCHANGED vars
  <2>1. SlotInv'
    BY <1>8, OthersKeepSlots DEF AsyncInv, vars
  <2> QED
    BY <1>8, <2>1 DEF AsyncInv, WorkTypes, vars, lwipVars, taskVars
<1> QED
  BY <1>3, <1>4, <1>5, <1>6, <1>7, <1>8 DEF Next, Runs

\* In every state of AsyncTCP, with any number of clients, slots and reports,
\* the queue holds no more than its length and every value is of its type.
THEOREM AsyncTypes == Spec => []AsyncTypeOK
<1>2. AsyncInv => AsyncTypeOK
  BY DEF AsyncInv, SlotInv, SlotTypes, WorkTypes, AsyncTypeOK
<1> QED
  BY <1>2, InitAsyncInv, NextAsyncInv, PTL DEF Spec

\* A closed slot is taken exactly while one live client holds it: no sequence of
\* accepts, FINs of the peer and deletions leaks a slot or gives it out twice.
THEOREM SlotsAreAccounted == Spec => []SlotsAccounted
<1>2. AsyncInv => SlotsAccounted
  BY DEF AsyncInv, SlotInv
<1> QED
  BY <1>2, InitAsyncInv, NextAsyncInv, PTL DEF Spec

-----------------------------------------------------------------------------
(* The order of the packets.                                               *)

\* The service task is in _remove_events_with_arg; between taking a packet and
\* putting it back it has one in its hand.
Sweeping == task["service"].at \in {"removing", "putBack"}
InHand == task["service"].at = "putBack"

\* The place of the packet the removal began with, or the end of the queue: what
\* is before it has still to be looked at and comes after what is behind it.
Cut(m) ==
    /\ \A i \in 1 .. Len(queue) : queue[i].first <=> i = m
    /\ task["service"].at = "removing" => (sweep.started <=> m <= Len(queue))
    /\ InHand => sweep.started /\ (sweep.packet.first <=> m = Len(queue) + 1)
    /\ ~Sweeping => m = Len(queue) + 1

\* The packet at i is handled before the one at j.
Sooner(i, j, m) == IF i < m THEN i < j /\ j < m ELSE i < j \/ j < m

\* p may be handled before q: the events of a client in the order of their
\* numbers, and for an accepted one ACCEPT first, nothing but CLEAR before CLEAR,
\* and nothing after its end.
MayPrecede(p, q, others) ==
    p.client = q.client /\ p.client # NoClient =>
        /\ p.no > 0 /\ q.no > 0 => p.no < q.no
        /\ p.client \notin others =>
              /\ q.event \in {"ACCEPT", "CLEAR"} => p.event = "CLEAR"
              /\ p.event \notin {"ERROR", "FIN"}

Ordered(m, O) ==
    /\ \A i, j \in 1 .. Len(queue) : Sooner(i, j, m) => MayPrecede(queue[i], queue[j], O)
    /\ InHand => \A i \in 1 .. Len(queue) :
          IF i < m THEN MayPrecede(sweep.packet, queue[i], O)
                   ELSE MayPrecede(queue[i], sweep.packet, O)

\* What the removal has looked at and kept is not of its client.
Swept(m) ==
    /\ Sweeping => \A i \in 1 .. Len(queue) : Matches(queue[i], task["service"].c) => i < m
    /\ InHand => ~Matches(sweep.packet, task["service"].c)

QueueInv(O) == \E m \in 1 .. Len(queue) + 1 : Cut(m) /\ Ordered(m, O) /\ Swept(m)

\* The packets in the queue and in the hand of the removal, without its mark
What(p) == [event |-> p.event, client |-> p.client, no |-> p.no]
Held == {What(queue[i]) : i \in 1 .. Len(queue)} \cup {What(p) : p \in {h \in {sweep.packet} : InHand}}

OrderTypes ==
    /\ seen \in [Clients -> Nat]
    /\ pcb \in [Clients -> BOOLEAN]
    /\ tcp \in [Clients -> {"none", "new", "resolving", "connecting", "open", "halfClosed", "ended", "freed", "closed"}]
    /\ registered \in [Clients -> {"client", "null", "removed"}]
    /\ sweep \in [started : BOOLEAN, packet : Packets]
    /\ mixed \in BOOLEAN

\* The queue without its first packet, index by index;
LEMMA TailAt ==
    ASSUME NEW q \in Seq(Packets), q # <<>>
    PROVE  /\ Len(q) \in Nat \ {0} /\ Len(Tail(q)) = Len(q) - 1 /\ Head(q) = q[1]
           /\ \A i \in 1 .. Len(q) - 1 : Tail(q)[i] = q[i + 1]
BY HeadTailProperties, LenProperties

\* with one more at its front;
LEMMA FrontAt ==
    ASSUME NEW q \in Seq(Packets), NEW p \in Packets
    PROVE  /\ Len(q) \in Nat /\ Len(<<p>> \o q) = Len(q) + 1 /\ (<<p>> \o q)[1] = p
           /\ \A i \in 1 .. Len(q) : (<<p>> \o q)[i + 1] = q[i]
           /\ \A i \in 2 .. Len(q) + 1 : (<<p>> \o q)[i] = q[i - 1]
<1>1. <<p>> \in Seq(Packets) /\ Len(<<p>>) = 1 /\ <<p>>[1] = p
  OBVIOUS
<1>2. /\ Len(<<p>> \o q) = Len(<<p>>) + Len(q)
      /\ \A i \in 1 .. Len(<<p>>) + Len(q) :
            (<<p>> \o q)[i] = IF i <= Len(<<p>>) THEN <<p>>[i] ELSE q[i - Len(<<p>>)]
  BY <1>1, ConcatProperties
<1> QED
  BY <1>1, <1>2, LenProperties

\* and with one more at its end.
LEMMA AppendAt ==
    ASSUME NEW q \in Seq(Packets), NEW p \in Packets
    PROVE  /\ Len(q) \in Nat /\ Len(Append(q, p)) = Len(q) + 1 /\ Append(q, p)[Len(q) + 1] = p
           /\ \A i \in 1 .. Len(q) : Append(q, p)[i] = q[i]
BY AppendProperties, LenProperties

\* Taking the packet that comes first, to handle it
LEMMA PopKeepsOrder ==
    ASSUME NEW O, queue \in Seq(Packets), QueueInv(O), ~Sweeping, queue # <<>>, queue' = Tail(queue),
           Sweeping' => task'["service"].at = "removing" /\ sweep' = NoSweep
    PROVE  /\ QueueInv(O)'
           /\ Held = Held' \cup {What(Head(queue))}
           /\ \A p \in Held' : MayPrecede(Head(queue), p, O)
<1>0. PICK n \in Nat : n = Len(queue)
  BY LenProperties
<1>1. /\ n # 0 /\ n = Len(queue) /\ Len(queue') = n - 1 /\ Head(queue) = queue[1]
      /\ \A i \in 1 .. n - 1 : queue'[i] = queue[i + 1]
  BY <1>0, TailAt
<1>2. Cut(n + 1) /\ Ordered(n + 1, O)
  BY <1>1 DEF QueueInv, Cut
<1>3. ~InHand /\ ~InHand'
  BY DEF Sweeping, InHand
<1>4. Cut(n)'
  BY <1>1, <1>2, <1>3 DEF Cut, Sweeping, NoSweep
<1>5. Ordered(n, O)'
  BY <1>1, <1>2, <1>3 DEF Ordered, Sooner
<1>6. Swept(n)'
  BY <1>1, <1>3 DEF Swept
<1>7. Held = {What(queue[i]) : i \in 1 .. n} /\ Held' = {What(queue'[i]) : i \in 1 .. n - 1}
  BY <1>1, <1>3 DEF Held
<1>8. \A i \in 1 .. n - 1 : MayPrecede(queue[1], queue'[i], O)
  BY <1>1, <1>2 DEF Ordered, Sooner
<1>9. Held = Held' \cup {What(queue[1])}
  <2>1. ASSUME NEW i \in 1 .. n, i # 1 PROVE What(queue[i]) \in Held'
    <3>1. i - 1 \in 1 .. n - 1 /\ queue[i] = queue'[i - 1]
      BY <1>1, <2>1
    <3> QED
      BY <1>7, <3>1
  <2>2. ASSUME NEW i \in 1 .. n - 1 PROVE What(queue'[i]) \in Held
    <3>1. i + 1 \in 1 .. n /\ queue'[i] = queue[i + 1]
      BY <1>1
    <3> QED
      BY <1>7, <3>1
  <2>3. 1 \in 1 .. n
    BY <1>1
  <2> QED
    BY <1>7, <2>1, <2>2, <2>3
<1>10. \A i \in 1 .. n - 1 : MayPrecede(queue[1], What(queue'[i]), O)
  BY <1>8 DEF MayPrecede, What
<1>11. QueueInv(O)'
  <2>1. n \in 1 .. Len(queue') + 1
    BY <1>1
  <2> QED
    BY <1>4, <1>5, <1>6, <2>1 DEF QueueInv
<1> QED
  BY <1>1, <1>7, <1>9, <1>10, <1>11

\* The mark of the removal does not matter to the order of two packets.
LEMMA WhatPrecedes ==
    ASSUME NEW p, NEW q, NEW others
    PROVE  /\ MayPrecede(What(p), q, others) <=> MayPrecede(p, q, others)
           /\ MayPrecede(p, What(q), others) <=> MayPrecede(p, q, others)
BY DEF MayPrecede, What

\* A packet that goes to the front: CLEAR, or the start of a connection
LEMMA FrontKeepsOrder ==
    ASSUME NEW O, queue \in Seq(Packets), QueueInv(O), NEW p \in Packets, ~p.first, queue' = <<p>> \o queue,
           UNCHANGED <<sweep>>,
           (~Sweeping /\ ~Sweeping') \/ task'["service"] = task["service"],
           \A h \in Held : MayPrecede(p, h, O),
           Sweeping => \A h \in Held : MayPrecede(h, p, O)
    PROVE  QueueInv(O)' /\ Held' = Held \cup {What(p)}
<1>0. PICK n \in Nat : n = Len(queue)
  BY LenProperties
<1>1. /\ n = Len(queue) /\ Len(queue') = n + 1 /\ queue'[1] = p
      /\ \A i \in 1 .. n : queue'[i + 1] = queue[i]
      /\ \A i \in 2 .. n + 1 : queue'[i] = queue[i - 1]
  BY <1>0, FrontAt
<1>2. PICK m \in 1 .. n + 1 : Cut(m) /\ Ordered(m, O) /\ Swept(m)
  BY <1>1 DEF QueueInv
<1>3. (Sweeping' <=> Sweeping) /\ (InHand' <=> InHand)
  BY DEF Sweeping, InHand
<1>4. /\ Held = {What(queue[i]) : i \in 1 .. n} \cup {What(h) : h \in {h \in {sweep.packet} : InHand}}
      /\ Held' = {What(queue'[i]) : i \in 1 .. n + 1} \cup {What(h) : h \in {h \in {sweep.packet} : InHand}}
  BY <1>1, <1>3 DEF Held
<1>5. \A i \in 1 .. n : MayPrecede(p, queue[i], O) /\ (Sweeping => MayPrecede(queue[i], p, O))
  <2>1. \A i \in 1 .. n : What(queue[i]) \in Held
    BY <1>4
  <2> QED
    BY <2>1, WhatPrecedes
<1>6. InHand => MayPrecede(p, sweep.packet, O) /\ MayPrecede(sweep.packet, p, O)
  <2> SUFFICES ASSUME InHand
               PROVE  MayPrecede(p, sweep.packet, O) /\ MayPrecede(sweep.packet, p, O)
    OBVIOUS
  <2>1. What(sweep.packet) \in Held /\ Sweeping
    BY <1>4 DEF InHand, Sweeping
  <2> QED
    BY <2>1, WhatPrecedes
<1>7. Cut(m + 1)'
  BY <1>1, <1>2, <1>3 DEF Cut, Sweeping, InHand
<1>8. Ordered(m + 1, O)'
  <2>1. ASSUME NEW i \in 1 .. n + 1, NEW j \in 1 .. n + 1, Sooner(i, j, m + 1)
        PROVE  MayPrecede(queue'[i], queue'[j], O)
    <3>1. CASE i = 1
      <4>1. j \in 2 .. n + 1
        BY <2>1, <3>1, <1>2 DEF Sooner
      <4> QED
        BY <1>1, <1>5, <3>1, <4>1
    <3>2. CASE i # 1 /\ j = 1
      <4>1. m # n + 1
        BY <2>1, <3>2, <1>2 DEF Sooner
      <4>2. Sweeping
        BY <1>1, <1>2, <4>1 DEF Cut
      <4> QED
        BY <1>1, <1>5, <3>2, <4>2
    <3>3. CASE i # 1 /\ j # 1
      <4>1. i - 1 \in 1 .. n /\ j - 1 \in 1 .. n /\ Sooner(i - 1, j - 1, m)
        BY <2>1, <3>3 DEF Sooner
      <4>2. MayPrecede(queue[i - 1], queue[j - 1], O)
        BY <1>1, <1>2, <4>1 DEF Ordered
      <4> QED
        BY <1>1, <3>3, <4>2
    <3> QED
      BY <3>1, <3>2, <3>3
  <2>2. ASSUME InHand, NEW i \in 1 .. n + 1
        PROVE  IF i < m + 1 THEN MayPrecede(sweep.packet, queue'[i], O)
                            ELSE MayPrecede(queue'[i], sweep.packet, O)
    <3>1. CASE i = 1
      BY <1>1, <1>2, <1>6, <2>2, <3>1
    <3>2. CASE i # 1
      <4>1. i - 1 \in 1 .. n /\ queue'[i] = queue[i - 1]
        BY <1>1, <3>2
      <4> QED
        BY <1>1, <1>2, <2>2, <4>1 DEF Ordered
    <3> QED
      BY <3>1, <3>2
  <2> QED
    BY <1>1, <1>3, <2>1, <2>2 DEF Ordered
<1>9. Swept(m + 1)'
  <2>1. CASE Sweeping
    <3>1. task'["service"] = task["service"]
      BY <2>1
    <3>2. ASSUME NEW i \in 1 .. n + 1, Matches(queue'[i], task["service"].c) PROVE i < m + 1
      <4>1. CASE i = 1
        BY <1>2, <4>1
      <4>2. CASE i # 1
        <5>1. i - 1 \in 1 .. n /\ queue'[i] = queue[i - 1]
          BY <1>1, <4>2
        <5> QED
          BY <1>1, <1>2, <2>1, <3>2, <5>1 DEF Swept
      <4> QED
        BY <4>1, <4>2
    <3> QED
      BY <1>1, <1>2, <1>3, <2>1, <3>1, <3>2 DEF Swept
  <2>2. CASE ~Sweeping
    BY <1>3, <2>2 DEF Swept, Sweeping, InHand
  <2> QED
    BY <2>1, <2>2
<1>10. Held' = Held \cup {What(p)}
  <2>1. ASSUME NEW i \in 1 .. n PROVE What(queue[i]) \in Held'
    <3>1. i + 1 \in 1 .. n + 1 /\ queue[i] = queue'[i + 1]
      BY <1>1
    <3> QED
      BY <1>4, <3>1
  <2>2. ASSUME NEW i \in 1 .. n + 1, i # 1 PROVE What(queue'[i]) \in Held
    <3>1. i - 1 \in 1 .. n /\ queue'[i] = queue[i - 1]
      BY <1>1, <2>2
    <3> QED
      BY <1>4, <3>1
  <2>3. What(p) \in Held'
    <3>1. 1 \in 1 .. n + 1 /\ What(queue'[1]) = What(p)
      BY <1>1
    <3> QED
      BY <1>4, <3>1
  <2> QED
    BY <1>1, <1>4, <2>1, <2>2, <2>3
<1>11. m + 1 \in 1 .. Len(queue') + 1
  BY <1>1
<1> QED
  BY <1>7, <1>8, <1>9, <1>10, <1>11 DEF QueueInv

\* A packet that goes to the end, while nothing is removed
LEMMA AppendKeepsOrder ==
    ASSUME NEW O, queue \in Seq(Packets), QueueInv(O), ~Sweeping, NEW p \in Packets, ~p.first, queue' = Append(queue, p),
           UNCHANGED <<sweep, task>>,
           \A h \in Held : MayPrecede(h, p, O)
    PROVE  QueueInv(O)' /\ Held' = Held \cup {What(p)}
<1>0. PICK n \in Nat : n = Len(queue)
  BY LenProperties
<1>1. /\ n = Len(queue) /\ Len(queue') = n + 1 /\ queue'[n + 1] = p
      /\ \A i \in 1 .. n : queue'[i] = queue[i]
  BY <1>0, AppendAt
<1>2. Cut(n + 1) /\ Ordered(n + 1, O)
  BY <1>1 DEF QueueInv, Cut
<1>3. ~Sweeping' /\ ~InHand' /\ ~InHand
  BY DEF Sweeping, InHand
<1>4. Held = {What(queue[i]) : i \in 1 .. n} /\ Held' = {What(queue'[i]) : i \in 1 .. n + 1}
  BY <1>1, <1>3 DEF Held
<1>5. \A i \in 1 .. n : MayPrecede(queue[i], p, O)
  <2>1. \A i \in 1 .. n : What(queue[i]) \in Held
    BY <1>4
  <2> QED
    BY <2>1, WhatPrecedes
<1>6. Cut(n + 2)'
  BY <1>1, <1>2, <1>3 DEF Cut, Sweeping
<1>7. Ordered(n + 2, O)'
  BY <1>1, <1>2, <1>3, <1>5 DEF Ordered, Sooner
<1>8. Swept(n + 2)'
  BY <1>3 DEF Swept
<1>9. n + 2 \in 1 .. Len(queue') + 1
  BY <1>1
<1>10. Held' = Held \cup {What(p)}
  <2>1. \A i \in 1 .. n : What(queue'[i]) = What(queue[i]) /\ i \in 1 .. n + 1
    BY <1>1
  <2>2. What(queue'[n + 1]) = What(p) /\ n + 1 \in 1 .. n + 1
    BY <1>1
  <2>3. \A i \in 1 .. n + 1 : i = n + 1 \/ i \in 1 .. n
    OBVIOUS
  <2> QED
    BY <1>4, <2>1, <2>2, <2>3
<1> QED
  BY <1>6, <1>7, <1>8, <1>9, <1>10 DEF QueueInv

\* A packet the removal takes out of the queue: it keeps it in its hand, or drops
\* it when it is of its client.
LEMMA LookKeepsOrder ==
    ASSUME NEW O, queue \in Seq(Packets), QueueInv(O), sweep \in [started : BOOLEAN, packet : Packets],
           RemoveEvents, queue # <<>>, ~Head(queue).first,
           task \in [Tasks -> {Idle} \cup Work]
    PROVE  /\ QueueInv(O)'
           /\ Held' \subseteq Held
           /\ \A h \in Held : h \in Held' \/ (h.event # "ACCEPT" /\ h.client = task["service"].c)
           /\ Sweeping' /\ task'["service"].c = task["service"].c
<1> DEFINE p == Head(queue)
<1>0. PICK n \in Nat : n = Len(queue)
  BY LenProperties
<1>1. /\ n # 0 /\ n = Len(queue) /\ Len(queue') = n - 1 /\ p = queue[1]
      /\ \A i \in 1 .. n - 1 : queue'[i] = queue[i + 1]
  BY <1>0, TailAt DEF RemoveEvents
<1>2. PICK m \in 1 .. n + 1 : Cut(m) /\ Ordered(m, O) /\ Swept(m)
  BY <1>1 DEF QueueInv
<1>3. m - 1 \in 1 .. n /\ task["service"].at = "removing" /\ ~InHand
  BY <1>1, <1>2 DEF Cut, RemoveEvents, InHand
<1>4. Held = {What(queue[i]) : i \in 1 .. n}
  BY <1>1, <1>3 DEF Held
<1>5. \A i \in 1 .. n : i # 1 => i - 1 \in 1 .. n - 1 /\ queue[i] = queue'[i - 1]
  BY <1>1
<1>6. \A i \in 1 .. n - 1 : i + 1 \in 1 .. n /\ queue'[i] = queue[i + 1]
  BY <1>1
<1>7. 1 \in 1 .. n /\ "service" \in Tasks
  BY <1>1 DEF Tasks
<1>8. CASE Matches(p, task["service"].c)
  <2>1. UNCHANGED <<task, sweep>>
    BY <1>8 DEF RemoveEvents
  <2>2. ~InHand' /\ Sweeping'
    BY <1>3, <2>1 DEF InHand, Sweeping
  <2>3. Cut(m - 1)'
    BY <1>1, <1>2, <1>3, <2>1, <2>2 DEF Cut, Sweeping
  <2>4. Ordered(m - 1, O)'
    <3>1. ASSUME NEW i \in 1 .. n - 1, NEW j \in 1 .. n - 1, Sooner(i, j, m - 1)
          PROVE  MayPrecede(queue'[i], queue'[j], O)
      <4>1. Sooner(i + 1, j + 1, m)
        BY <3>1 DEF Sooner
      <4> QED
        BY <1>1, <1>2, <1>6, <4>1 DEF Ordered
    <3> QED
      BY <1>1, <2>2, <3>1 DEF Ordered
  <2>5. Swept(m - 1)'
    BY <1>1, <1>2, <1>3, <1>6, <2>1, <2>2 DEF Swept, Sweeping
  <2>6. Held' = {What(queue'[i]) : i \in 1 .. n - 1}
    BY <1>1, <2>2 DEF Held
  <2>7. Held' \subseteq Held
    BY <1>4, <1>6, <2>6
  <2>8. ASSUME NEW i \in 1 .. n
        PROVE  \/ What(queue[i]) \in Held'
               \/ What(queue[i]).event # "ACCEPT" /\ What(queue[i]).client = task["service"].c
    <3>1. CASE i = 1
      BY <1>1, <1>8, <3>1 DEF Matches, What
    <3>2. CASE i # 1
      <4>1. i - 1 \in 1 .. n - 1 /\ queue[i] = queue'[i - 1]
        BY <1>5, <3>2
      <4> QED
        BY <2>6, <4>1
    <3> QED
      BY <3>1, <3>2
  <2>9. m - 1 \in 1 .. Len(queue') + 1
    BY <1>1, <1>3
  <2> QED
    BY <1>4, <2>1, <2>2, <2>3, <2>4, <2>5, <2>7, <2>8, <2>9 DEF QueueInv
<1>9. CASE ~Matches(p, task["service"].c)
  <2>1. /\ task' = [task EXCEPT !["service"].at = "putBack"]
        /\ sweep' = [started |-> TRUE, packet |-> [p EXCEPT !.first = ~sweep.started]]
    BY <1>9 DEF RemoveEvents
  <2>2. task["service"] \in Work
    BY <1>3, <1>7 DEF Idle
  <2>3. task'["service"].at = "putBack" /\ task'["service"].c = task["service"].c
    BY <1>7, <2>1, <2>2 DEF Work
  <2>4. InHand' /\ Sweeping'
    BY <2>3 DEF InHand, Sweeping
  <2>5. p \in Packets
    BY TailTypes, HeadTailProperties
  <2>6. sweep'.started /\ (sweep'.packet.first <=> ~sweep.started) /\ What(sweep'.packet) = What(p)
    BY <2>1, <2>5 DEF What, Packets
  <2>7. Cut(m - 1)'
    <3>1. \A i \in 1 .. Len(queue') : queue'[i].first <=> i = m - 1
      BY <1>1, <1>2, <1>3 DEF Cut
    <3>2. ~sweep.started <=> m - 1 = Len(queue') + 1
      BY <1>1, <1>2, <1>3 DEF Cut
    <3> QED
      BY <2>3, <2>4, <2>6, <3>1, <3>2 DEF Cut
  <2>8. \A i \in 1 .. n - 1 : IF i < m - 1 THEN MayPrecede(p, queue'[i], O)
                                           ELSE MayPrecede(queue'[i], p, O)
    <3>1. ASSUME NEW i \in 1 .. n - 1, i < m - 1 PROVE MayPrecede(p, queue'[i], O)
      <4>1. Sooner(1, i + 1, m)
        BY <3>1 DEF Sooner
      <4> QED
        BY <1>1, <1>2, <1>6, <1>7, <4>1 DEF Ordered
    <3>2. ASSUME NEW i \in 1 .. n - 1, ~(i < m - 1) PROVE MayPrecede(queue'[i], p, O)
      <4>1. Sooner(i + 1, 1, m)
        BY <1>3, <3>2 DEF Sooner
      <4> QED
        BY <1>1, <1>2, <1>6, <1>7, <4>1 DEF Ordered
    <3> QED
      BY <3>1, <3>2
  <2>9. \A i \in 1 .. n - 1 : IF i < m - 1 THEN MayPrecede(sweep'.packet, queue'[i], O)
                                           ELSE MayPrecede(queue'[i], sweep'.packet, O)
    BY <2>6, <2>8, WhatPrecedes
  <2>10. Ordered(m - 1, O)'
    <3>1. ASSUME NEW i \in 1 .. n - 1, NEW j \in 1 .. n - 1, Sooner(i, j, m - 1)
          PROVE  MayPrecede(queue'[i], queue'[j], O)
      <4>1. Sooner(i + 1, j + 1, m)
        BY <3>1 DEF Sooner
      <4> QED
        BY <1>1, <1>2, <1>6, <4>1 DEF Ordered
    <3> QED
      BY <1>1, <2>4, <2>9, <3>1 DEF Ordered
  <2>11. Swept(m - 1)'
    <3>1. \A i \in 1 .. n - 1 : Matches(queue'[i], task["service"].c) => i < m - 1
      BY <1>1, <1>2, <1>3, <1>6 DEF Swept, Sweeping
    <3>2. ~Matches(sweep'.packet, task["service"].c)
      BY <1>9, <2>6 DEF Matches, What
    <3> QED
      BY <1>1, <2>3, <3>1, <3>2 DEF Swept
  <2>12. Held' = {What(queue'[i]) : i \in 1 .. n - 1} \cup {What(p)}
    BY <1>1, <2>4, <2>6 DEF Held
  <2>13. Held' = Held
    <3>1. ASSUME NEW i \in 1 .. n PROVE What(queue[i]) \in Held'
      <4>1. i = 1 \/ (i - 1 \in 1 .. n - 1 /\ queue[i] = queue'[i - 1])
        BY <1>5
      <4> QED
        BY <1>1, <2>12, <4>1
    <3>2. ASSUME NEW i \in 1 .. n - 1 PROVE What(queue'[i]) \in Held
      <4>1. i + 1 \in 1 .. n /\ queue'[i] = queue[i + 1]
        BY <1>6
      <4> QED
        BY <1>4, <4>1
    <3>3. What(p) \in Held
      BY <1>1, <1>4, <1>7
    <3> QED
      BY <1>4, <2>12, <3>1, <3>2, <3>3
  <2>14. m - 1 \in 1 .. Len(queue') + 1
    BY <1>1, <1>3
  <2>15. QueueInv(O)'
    BY <2>7, <2>10, <2>11, <2>14 DEF QueueInv
  <2> QED
    BY <2>3, <2>4, <2>13, <2>15
<1> QED
  BY <1>8, <1>9

\* ... and what it keeps, it puts at the end.
LEMMA PutBackKeepsOrder ==
    ASSUME NEW O, queue \in Seq(Packets), QueueInv(O), sweep \in [started : BOOLEAN, packet : Packets],
           PutBack, task \in [Tasks -> {Idle} \cup Work]
    PROVE  /\ QueueInv(O)'
           /\ Held' = Held
           /\ Sweeping' /\ task'["service"].c = task["service"].c
<1> DEFINE p == sweep.packet
<1>0. PICK n \in Nat : n = Len(queue)
  BY LenProperties
<1>1. /\ n = Len(queue) /\ Len(queue') = n + 1 /\ queue'[n + 1] = p
      /\ \A i \in 1 .. n : queue'[i] = queue[i]
  BY <1>0, AppendAt DEF PutBack
<1>2. PICK m \in 1 .. n + 1 : Cut(m) /\ Ordered(m, O) /\ Swept(m)
  BY <1>1 DEF QueueInv
<1>3. "service" \in Tasks /\ task["service"] \in Work
  BY DEF Tasks, PutBack, Idle
<1>4. task'["service"].at = "removing" /\ task'["service"].c = task["service"].c /\ sweep'.started = sweep.started
  BY <1>3 DEF PutBack, Work
<1>5. Sweeping /\ InHand /\ Sweeping' /\ ~InHand'
  BY <1>4 DEF PutBack, Sweeping, InHand
<1>6. Cut(m)'
  BY <1>1, <1>2, <1>4, <1>5 DEF Cut
<1>7. Ordered(m, O)'
  <2>1. ASSUME NEW i \in 1 .. n + 1, NEW j \in 1 .. n + 1, Sooner(i, j, m)
        PROVE  MayPrecede(queue'[i], queue'[j], O)
    <3>1. CASE i \in 1 .. n /\ j \in 1 .. n
      BY <1>1, <1>2, <2>1, <3>1 DEF Ordered
    <3>2. CASE i = n + 1 /\ j \in 1 .. n
      <4>1. j < m
        BY <2>1, <3>2 DEF Sooner
      <4> QED
        BY <1>1, <1>2, <1>5, <3>2, <4>1 DEF Ordered
    <3>3. CASE i \in 1 .. n /\ j = n + 1
      <4>1. ~(i < m)
        BY <2>1, <3>3 DEF Sooner
      <4> QED
        BY <1>1, <1>2, <1>5, <3>3, <4>1 DEF Ordered
    <3>4. i # n + 1 \/ j # n + 1
      BY <2>1 DEF Sooner
    <3> QED
      BY <3>1, <3>2, <3>3, <3>4
  <2> QED
    BY <1>1, <1>5, <2>1 DEF Ordered
<1>8. Swept(m)'
  BY <1>1, <1>2, <1>4, <1>5 DEF Swept
<1>9. Held' = Held
  <2>1. /\ Held = {What(queue[i]) : i \in 1 .. n} \cup {What(p)}
        /\ Held' = {What(queue'[i]) : i \in 1 .. n + 1}
    BY <1>1, <1>5 DEF Held
  <2>2. \A i \in 1 .. n : What(queue'[i]) = What(queue[i]) /\ i \in 1 .. n + 1
    BY <1>1
  <2>3. What(queue'[n + 1]) = What(p) /\ n + 1 \in 1 .. n + 1
    BY <1>1
  <2>4. \A i \in 1 .. n + 1 : i = n + 1 \/ i \in 1 .. n
    OBVIOUS
  <2> QED
    BY <2>1, <2>2, <2>3, <2>4
<1>10. m \in 1 .. Len(queue') + 1
  BY <1>1
<1> QED
  BY <1>4, <1>5, <1>6, <1>7, <1>8, <1>9, <1>10 DEF QueueInv

\* The end of a removal: no packet of its client is left.
LEMMA StopKeepsOrder ==
    ASSUME NEW O, queue \in Seq(Packets), QueueInv(O),
           RemoveEvents, queue = <<>> \/ Head(queue).first,
           task \in [Tasks -> {Idle} \cup Work]
    PROVE  /\ QueueInv(O)'
           /\ Held' = Held
           /\ ~Sweeping' /\ task' = [task EXCEPT !["service"] = Idle]
           /\ \A h \in Held : h.client = task["service"].c => h.event = "ACCEPT"
<1>0. PICK n \in Nat : n = Len(queue)
  BY LenProperties
<1>1. "service" \in Tasks /\ task' = [task EXCEPT !["service"] = Idle]
  BY DEF RemoveEvents, Tasks
<1>2. Sweeping /\ ~InHand /\ ~Sweeping' /\ ~InHand'
  BY <1>1 DEF RemoveEvents, Sweeping, InHand, Idle
<1>3. PICK m \in 1 .. n + 1 : Cut(m) /\ Ordered(m, O) /\ Swept(m)
  BY <1>0 DEF QueueInv
<1>4. \/ n = 0 /\ queue = <<>>
      \/ n # 0 /\ m = 1 /\ queue # <<>> /\ Head(queue) = queue[1] /\ 1 \in 1 .. n
  <2>1. CASE queue = <<>>
    BY <1>0, <2>1
  <2>2. CASE queue # <<>>
    <3>1. n # 0 /\ 1 \in 1 .. n /\ Head(queue) = queue[1]
      BY <1>0, <2>2, TailAt
    <3> QED
      BY <1>0, <1>3, <2>2, <3>1 DEF Cut
  <2> QED
    BY <2>1, <2>2
<1>5. \A i \in 1 .. n : ~Matches(queue[i], task["service"].c)
  BY <1>0, <1>2, <1>3, <1>4 DEF Swept
<1>6. /\ Len(queue') = n
      /\ \A i \in 1 .. n : What(queue'[i]) = What(queue[i]) /\ ~queue'[i].first
  <2>1. CASE n = 0
    <3>1. queue' = queue
      BY <1>4, <2>1 DEF RemoveEvents
    <3>2. Len(queue') = n
      BY <1>0, <3>1
    <3> QED
      BY <2>1, <3>2
  <2>2. CASE n # 0
    <3> DEFINE q == [Head(queue) EXCEPT !.first = FALSE]
    <3>1. queue' = <<q>> \o Tail(queue)
      BY <1>4, <2>2 DEF RemoveEvents
    <3>2. /\ Tail(queue) \in Seq(Packets) /\ Len(Tail(queue)) = n - 1
          /\ \A i \in 1 .. n - 1 : Tail(queue)[i] = queue[i + 1]
          /\ Head(queue) \in Packets
      BY <1>0, <1>4, <2>2, TailAt, HeadTailProperties
    <3>3. q \in Packets /\ What(q) = What(queue[1]) /\ ~q.first
      BY <1>4, <2>2, <3>2 DEF Packets, What
    <3> HIDE DEF q
    <3>4. /\ Len(queue') = n /\ queue'[1] = q
          /\ \A i \in 2 .. n : queue'[i] = Tail(queue)[i - 1]
      BY <3>1, <3>2, <3>3, FrontAt
    <3>5. \A i \in 2 .. n : queue'[i] = queue[i] /\ ~queue[i].first
      BY <1>0, <1>3, <1>4, <2>2, <3>2, <3>4 DEF Cut
    <3>6. \A i \in 1 .. n : i = 1 \/ i \in 2 .. n
      OBVIOUS
    <3> QED
      BY <3>3, <3>4, <3>5, <3>6
  <2> QED
    BY <2>1, <2>2
<1>7. Cut(n + 1)'
  BY <1>2, <1>6 DEF Cut, Sweeping, InHand
<1>8. Ordered(n + 1, O)'
  <2>1. ASSUME NEW i \in 1 .. n, NEW j \in 1 .. n, Sooner(i, j, n + 1)
        PROVE  MayPrecede(queue'[i], queue'[j], O)
    <3>1. Sooner(i, j, m)
      BY <1>4, <2>1 DEF Sooner
    <3>2. MayPrecede(queue[i], queue[j], O)
      BY <1>0, <1>3, <3>1 DEF Ordered
    <3> QED
      BY <1>6, <3>2, WhatPrecedes
  <2> QED
    BY <1>2, <1>6, <2>1 DEF Ordered
<1>9. Swept(n + 1)'
  BY <1>2 DEF Swept
<1>10. /\ Held = {What(queue[i]) : i \in 1 .. n}
       /\ Held' = {What(queue'[i]) : i \in 1 .. n}
  BY <1>0, <1>2, <1>6 DEF Held
<1>11. Held' = Held
  BY <1>6, <1>10
<1>12. \A h \in Held : h.client = task["service"].c => h.event = "ACCEPT"
  BY <1>5, <1>10 DEF Matches, What
<1>13. n + 1 \in 1 .. Len(queue') + 1
  BY <1>6
<1> QED
  BY <1>1, <1>2, <1>7, <1>8, <1>9, <1>11, <1>12, <1>13 DEF QueueInv

\* A step that leaves the queue and the removal alone
LEMMA SameKeepsOrder ==
    ASSUME NEW O, QueueInv(O), UNCHANGED <<queue, sweep>>,
           (~Sweeping /\ ~Sweeping') \/ task'["service"] = task["service"]
    PROVE  QueueInv(O)' /\ Held' = Held
<1>1. /\ queue' = queue /\ sweep' = sweep
      /\ (Sweeping' <=> Sweeping) /\ (InHand' <=> InHand)
  BY DEF Sweeping, InHand
<1>2. PICK m \in 1 .. Len(queue) + 1 : Cut(m) /\ Ordered(m, O) /\ Swept(m)
  BY DEF QueueInv
<1>3. Cut(m)'
  BY <1>1, <1>2 DEF Cut, Sweeping, InHand
<1>4. Ordered(m, O)'
  BY <1>1, <1>2 DEF Ordered
<1>5. Swept(m)'
  BY <1>1, <1>2 DEF Swept, Sweeping, InHand
<1>6. Held' = Held
  BY <1>1 DEF Held
<1> QED
  BY <1>1, <1>3, <1>4, <1>5, <1>6 DEF QueueInv

-----------------------------------------------------------------------------
(* The connections and the objects.                                        *)

Early(c) == tcp[c] \in {"none", "new", "connecting", "resolving"}
Of(c, P) == {p \in P : p.client = c}
Pending == Held \cup {What(lwip)}

\* The numbers of what has to be handled lie between the last that was handled
\* and the last there is; what lwIP's thread is about to queue comes last, or is
\* the first of its connection.
NumbersInv(O) ==
    /\ ~lwip.first
    /\ \A p \in Held : MayPrecede(p, lwip, O)
    /\ lwip.event \in {"ACCEPT", "CONNECTED"} => lwip.no <= 1
    /\ \A p \in Pending : p.no > 0 => /\ p.client \in Clients
                                      /\ seen[p.client] < p.no /\ p.no <= number[p.client]
    /\ \A c \in Clients : /\ seen[c] <= number[c]
                          /\ Early(c) => number[c] = 0
                          /\ life[c] = "none" => tcp[c] = "none" /\ Of(c, Pending) = {}

Accepted(O) == Clients \ O
\* lwIP reports c to the program no more.
Silent(c) == registered[c] # "client" \/ tcp[c] \in {"freed", "closed"}
\* The service task is in a call on c that a callback made, or in _fin.
Working(c) == task["service"].at \notin {"idle", "removing", "putBack"} /\ task["service"].c = c
Closing(c) == Working(c) /\ task["service"].op \in {"close", "closeAbort"}
ConnectionInv(c) ==
    /\ tcp[c] \in {"none", "open", "ended", "freed", "closed"}
    /\ tcp[c] = "open" /\ registered[c] = "client" => pcb[c]
    /\ tcp[c] = "ended" => registered[c] # "client" /\ ~pcb[c]
    /\ life[c] = "deleted" => Silent(c) /\ ~Working(c)

\* ERROR and FIN are the last lwIP reports, ACCEPT the first.
PacketInv(c) ==
    /\ \A p \in Of(c, Pending) :
          /\ p.event \notin {"DNS", "NODNS", "CONNECTED"}
          /\ p.event = "ERROR" => tcp[c] = "freed"
          /\ p.event = "FIN" => tcp[c] = "ended"
          /\ p.event = "ACCEPT" => life[c] = "live" /\ ~Working(c)
    /\ lwip.client = c => lwip.event # "CLEAR"
    /\ lwip.client = c /\ lwip.event = "ACCEPT" => Of(c, Held) = {}

OnlyClear(c) == \A p \in Of(c, Held) : p.event = "CLEAR"
SomeClear(c) == \E p \in Of(c, Held) : p.event = "CLEAR"
\* Whatever is left of a deleted client is removed before it can be handled.
Covered(c) ==
    /\ lwip.client # c
    /\ OnlyClear(c) \/ SomeClear(c) \/ (Sweeping /\ task["service"].c = c)

\* A client on its way through _close() or _fin()
CloseInv(c) ==
    /\ life[c] = "deleted" => Covered(c)
    /\ Working(c) /\ task["service"].at = "unregister" => pcb[c]
    /\ Working(c) /\ task["service"].at = "clear" => registered[c] = "removed" /\ pcb[c]
    /\ Closing(c) =>
          /\ registered[c] = "removed" /\ pcb[c] /\ SomeClear(c)
          /\ task["service"].op = "closeAbort" \/ task["service"].at = "discard" => lwip.client # c
    /\ Working(c) /\ task["service"].at \in {"finClear", "goodbye"} =>
          tcp[c] = "ended" /\ lwip.client # c /\ OnlyClear(c)
    /\ Working(c) /\ task["service"].at = "discard" => Closing(c)
    /\ call["service"].c = c /\ call["service"].op = "abort" => Silent(c) \/ call["service"].slot = slot[c]

ClientInv(c) == ConnectionInv(c) /\ PacketInv(c) /\ CloseInv(c)

TaskInv(O) ==
    /\ \A t \in Tasks : call[t].op # "none" =>
          task[t].at = "wait" /\ task[t].c = call[t].c /\ task[t].op = call[t].op
    /\ task["loop"].at # "idle" => task["loop"].c \in O
    /\ \A t \in Tasks : task[t].at # "idle" => life[task[t].c] # "none"
    /\ \A c \in Clients : tcp[c] = "resolving" => c \in O

QuietInv(O) == QueueInv(O) /\ NumbersInv(O) /\ TaskInv(O) /\ \A c \in Accepted(O) : ClientInv(c)
CoreInv == AsyncInv /\ OrderTypes

\* A step that does not touch c: what the queue and lwIP's thread hold of it, its
\* connection and what the service task does with it stay.
LEMMA Elsewhere ==
    ASSUME NEW c, ClientInv(c),
           tcp'[c] = tcp[c], registered'[c] = registered[c], pcb'[c] = pcb[c], life'[c] = life[c], slot'[c] = slot[c],
           Of(c, Held)' = Of(c, Held),
           lwip' = lwip \/ (lwip.client # c /\ lwip'.client # c),
           task'["service"] = task["service"] \/ (task["service"].c # c /\ task'["service"].c # c),
           call'["service"] = call["service"] \/ call'["service"].c # c \/ call'["service"].op # "abort"
    PROVE  ClientInv(c)'
<1>1. /\ Working(c)' <=> Working(c)
      /\ Working(c) => task'["service"] = task["service"]
  BY DEF Working
<1>2. Of(c, Pending)' = Of(c, Pending)
  BY DEF Of, Pending, What
<1>3. Silent(c)' <=> Silent(c)
  BY DEF Silent
<1>4. ConnectionInv(c)'
  BY <1>1, <1>2, <1>3 DEF ClientInv, ConnectionInv
<1>5. PacketInv(c)'
  BY <1>1, <1>2 DEF ClientInv, PacketInv
<1>6. (OnlyClear(c)' <=> OnlyClear(c)) /\ (SomeClear(c)' <=> SomeClear(c))
  BY DEF OnlyClear, SomeClear
<1>7. Covered(c) => Covered(c)'
  BY <1>6 DEF Covered, Sweeping
<1>8. Closing(c)' <=> Closing(c)
  BY <1>1 DEF Closing
<1>9. CloseInv(c)'
  <2>0. CloseInv(c)
    BY DEF ClientInv
  <2>1. life'[c] = "deleted" => Covered(c)'
    BY <2>0, <1>7 DEF CloseInv
  <2>2. Working(c)' /\ task'["service"].at = "clear" => registered'[c] = "removed" /\ pcb'[c]
    BY <2>0, <1>1 DEF CloseInv
  <2>7. Working(c)' /\ task'["service"].at = "unregister" => pcb'[c]
    BY <2>0, <1>1 DEF CloseInv
  <2>3. Closing(c)' =>
          /\ registered'[c] = "removed" /\ pcb'[c] /\ SomeClear(c)'
          /\ task'["service"].op = "closeAbort" \/ task'["service"].at = "discard" => lwip'.client # c
    BY <2>0, <1>1, <1>6, <1>8 DEF CloseInv, Closing
  <2>4. Working(c)' /\ task'["service"].at \in {"finClear", "goodbye"} =>
          tcp'[c] = "ended" /\ lwip'.client # c /\ OnlyClear(c)'
    BY <2>0, <1>1, <1>6 DEF CloseInv
  <2>5. Working(c)' /\ task'["service"].at = "discard" => Closing(c)'
    BY <2>0, <1>1, <1>8 DEF CloseInv
  <2>6. call'["service"].c = c /\ call'["service"].op = "abort" => Silent(c)' \/ call'["service"].slot = slot'[c]
    BY <2>0, <1>3 DEF CloseInv
  <2> QED
    BY <2>1, <2>2, <2>3, <2>4, <2>5, <2>6, <2>7 DEF CloseInv
<1> QED
  BY <1>4, <1>5, <1>9 DEF ClientInv

-----------------------------------------------------------------------------
(* The calls and _close(), in either task.                                 *)

\* Where a step of a task leads: it stays with its client or is done.
LEMMA StepMoves ==
    ASSUME CoreInv, NEW t \in Tasks, Step(t)
    PROVE  \E s \in {Idle} \cup Work :
              /\ task' = [task EXCEPT ![t] = s]
              /\ s.at \notin {"removing", "putBack"} /\ s.c \in {task[t].c, NoClient}
              /\ task[t].at \notin {"idle", "removing", "putBack"} /\ task[t] \in Work /\ task[t].c \in Clients
<1> DEFINE c == task[t].c
<1>0. task[t].at \notin {"idle", "removing", "putBack"}
  BY DEF Step, ReadPcb, ReadSlot, TestPcb, Unregister, ClearEvents, Discard
<1>1. task[t] \in Work /\ c \in Clients /\ task[t].op \in Ops
  BY <1>0, BusyTask DEF CoreInv
<1> SUFFICES \E s \in {Idle} \cup Work :
                 task' = [task EXCEPT ![t] = s] /\ s.at \notin {"removing", "putBack"} /\ s.c \in {c, NoClient}
  BY <1>0, <1>1
<1>9. Idle.c = NoClient /\ Idle.at = "idle"
  BY DEF Idle
<1>2. CASE ReadPcb(t)
  <2>1. CASE pcb[c]
    <3>1. task' = [task EXCEPT ![t] = [task[t] EXCEPT !.at = "slot"]]
      BY <1>2, <2>1 DEF ReadPcb
    <3>2. [task[t] EXCEPT !.at = "slot"] \in Work /\ [task[t] EXCEPT !.at = "slot"].c = c
          /\ [task[t] EXCEPT !.at = "slot"].at = "slot"
      BY <1>1 DEF Work, Places
    <3> QED
      BY <3>1, <3>2
  <2>2. CASE ~pcb[c]
    <3>1. task' = [task EXCEPT ![t] = After(task[t].op, c, FALSE)]
      BY <1>2, <2>2 DEF ReadPcb
    <3>2. After(task[t].op, c, FALSE) \in {Idle} \cup Work
      BY <1>1, AfterTypes
    <3>3. After(task[t].op, c, FALSE).c \in {c, NoClient} /\ After(task[t].op, c, FALSE).at \notin {"removing", "putBack"}
      BY <1>1 DEF After, Idle
    <3> QED
      BY <3>1, <3>2, <3>3
  <2> QED
    BY <2>1, <2>2
<1>3. CASE ReadSlot(t)
  <2>1. task' = [task EXCEPT ![t] = [task[t] EXCEPT !.at = "wait"]]
    BY <1>3 DEF ReadSlot
  <2>2. [task[t] EXCEPT !.at = "wait"] \in Work /\ [task[t] EXCEPT !.at = "wait"].c = c
        /\ [task[t] EXCEPT !.at = "wait"].at = "wait"
    BY <1>1 DEF Work, Places
  <2> QED
    BY <2>1, <2>2
<1>4. CASE TestPcb(t)
  <2>1. CASE pcb[c]
    <3>1. task' = [task EXCEPT ![t] = [task[t] EXCEPT !.at = "unregister"]]
      BY <1>4, <2>1 DEF TestPcb
    <3>2. [task[t] EXCEPT !.at = "unregister"] \in Work /\ [task[t] EXCEPT !.at = "unregister"].c = c
          /\ [task[t] EXCEPT !.at = "unregister"].at = "unregister"
      BY <1>1 DEF Work, Places
    <3> QED
      BY <3>1, <3>2
  <2>2. CASE ~pcb[c]
    <3>1. task' = [task EXCEPT ![t] = Idle]
      BY <1>4, <2>2 DEF TestPcb
    <3> QED
      BY <1>9, <3>1
  <2> QED
    BY <2>1, <2>2
<1>7. CASE Unregister(t)
  <2>1. task' = [task EXCEPT ![t] = [task[t] EXCEPT !.at = "clear"]]
    BY <1>7 DEF Unregister
  <2>2. [task[t] EXCEPT !.at = "clear"] \in Work /\ [task[t] EXCEPT !.at = "clear"].c = c
        /\ [task[t] EXCEPT !.at = "clear"].at = "clear"
    BY <1>1 DEF Work, Places
  <2> QED
    BY <2>1, <2>2
<1>5. CASE ClearEvents(t)
  <2>1. \/ task' = [task EXCEPT ![t] = [at |-> "pcb", op |-> "close", c |-> c]]
        \/ task' = [task EXCEPT ![t] = [at |-> "goodbye", op |-> "none", c |-> c]]
    BY <1>5 DEF ClearEvents
  <2>2. [at |-> "pcb", op |-> "close", c |-> c] \in Work /\ [at |-> "goodbye", op |-> "none", c |-> c] \in Work
    BY <1>1 DEF Work, Places, Ops
  <2> QED
    BY <2>1, <2>2
<1>6. CASE Discard(t)
  <2>1. task' = [task EXCEPT ![t] = Idle]
    BY <1>6 DEF Discard
  <2> QED
    BY <1>9, <2>1
<1> QED
  BY <1>2, <1>3, <1>4, <1>5, <1>6, <1>7 DEF Step

\* A task that calls for a client that loop() made is loop(), or the service
\* task is in it; only the service task has to do with accepted ones.
LEMMA StepQueue ==
    ASSUME NEW O, CoreInv, QuietInv(O), NEW t \in Tasks, Step(t)
    PROVE  /\ QueueInv(O)'
           /\ t = "service" => ~Sweeping /\ ~Sweeping'
           /\ t = "loop" => task'["service"] = task["service"] /\ task[t].c \in O
           /\ IF ClearEvents(t) THEN Held' = Held \cup {What(Packet("CLEAR", task[t].c, 0))} ELSE Held' = Held
<1> DEFINE p == Packet("CLEAR", task[t].c, 0)
<1>0. QueueInv(O) /\ TaskInv(O) /\ queue \in Seq(Packets) /\ task \in [Tasks -> {Idle} \cup Work]
  BY DEF QuietInv, CoreInv, AsyncInv, WorkTypes
<1>1. PICK s \in {Idle} \cup Work :
              /\ task' = [task EXCEPT ![t] = s]
              /\ s.at \notin {"removing", "putBack"}
              /\ task[t].at \notin {"idle", "removing", "putBack"} /\ task[t].c \in Clients
  BY StepMoves
<1>2. t = "service" => ~Sweeping /\ ~Sweeping'
  BY <1>0, <1>1 DEF Sweeping
<1>3. t = "loop" => task'["service"] = task["service"] /\ task[t].c \in O
  BY <1>0, <1>1 DEF TaskInv
<1>4. (~Sweeping /\ ~Sweeping') \/ (task'["service"] = task["service"] /\ task[t].c \in O)
  BY <1>2, <1>3 DEF Tasks
<1>5. CASE ClearEvents(t)
  <2>1. queue' = <<p>> \o queue /\ sweep' = sweep
    BY <1>5 DEF ClearEvents
  <2>2. p \in Packets /\ ~p.first /\ p.event = "CLEAR" /\ p.no = 0 /\ p.client = task[t].c
    BY <1>1, PacketTypes DEF Packet, Events
  <2> HIDE DEF p
  <2>3. \A h \in Held : MayPrecede(p, h, O)
    BY <2>2 DEF MayPrecede
  <2>4. Sweeping => \A h \in Held : MayPrecede(h, p, O)
    BY <1>4, <2>2 DEF MayPrecede
  <2>5. QueueInv(O)' /\ Held' = Held \cup {What(p)}
    BY <1>0, <1>4, <2>1, <2>2, <2>3, <2>4, FrontKeepsOrder
  <2> QED
    BY <1>2, <1>3, <1>5, <2>5 DEF p
<1>6. CASE ~ClearEvents(t)
  <2>1. UNCHANGED <<queue, sweep>>
    BY <1>6 DEF Step, ReadPcb, ReadSlot, TestPcb, Unregister, Discard
  <2>2. QueueInv(O)' /\ Held' = Held
    BY <1>0, <1>4, <2>1, SameKeepsOrder
  <2> QED
    BY <1>2, <1>3, <1>6, <2>2
<1> QED
  BY <1>5, <1>6

\* Nothing new is reported and nothing handled: only CLEAR may have been added.
LEMMA NumbersStay ==
    ASSUME NEW O, NumbersInv(O), UNCHANGED <<lwip, number, seen>>,
           \A c \in Clients : /\ tcp'[c] = tcp[c] \/ ~Early(c)' \/ number[c] = 0
                              /\ life'[c] = "none" => life[c] = "none" /\ tcp'[c] = tcp[c],
           \A h \in Held' : h \in Held \/ (h.no = 0 /\ h.event = "CLEAR" /\ life'[h.client] # "none")
    PROVE  NumbersInv(O)'
<1>1. \A h \in Held' : MayPrecede(h, lwip, O)
  BY DEF NumbersInv, MayPrecede
<1>2. \A h \in Pending' : h \in Pending \/ (h.no = 0 /\ life'[h.client] # "none")
  BY DEF Pending
<1>3. ASSUME NEW c \in Clients, life'[c] = "none" PROVE tcp'[c] = "none" /\ Of(c, Pending)' = {}
  <2>1. tcp[c] = "none" /\ Of(c, Pending) = {} /\ tcp'[c] = tcp[c]
    BY <1>3 DEF NumbersInv
  <2> QED
    BY <1>2, <1>3, <2>1 DEF Of
<1>4. \A h \in Pending' : h.no > 0 => /\ h.client \in Clients
                                      /\ seen[h.client] < h.no /\ h.no <= number[h.client]
  BY <1>2 DEF NumbersInv
<1> QED
  BY <1>1, <1>3, <1>4 DEF NumbersInv, Early

\* A step of a task queues nothing that has a number.
LEMMA StepNumbers ==
    ASSUME NEW O, CoreInv, QuietInv(O), NEW t \in Tasks, Step(t)
    PROVE  NumbersInv(O)'
<1>1. \A h \in Held' : h \in Held \/ (h.no = 0 /\ h.event = "CLEAR" /\ life'[h.client] # "none")
  <2> DEFINE p == What(Packet("CLEAR", task[t].c, 0))
  <2>1. p.no = 0 /\ p.event = "CLEAR" /\ p.client = task[t].c
    BY DEF What, Packet
  <2>2. life[task[t].c] # "none"
    BY StepMoves DEF QuietInv, TaskInv
  <2>3. ClearEvents(t) => life' = life
    BY DEF ClearEvents
  <2>4. IF ClearEvents(t) THEN Held' = Held \cup {p} ELSE Held' = Held
    BY StepQueue
  <2> HIDE DEF p
  <2> QED
    BY <2>1, <2>2, <2>3, <2>4
<1>2. UNCHANGED <<lwip, number, seen, tcp>>
  BY DEF Step, ReadPcb, ReadSlot, TestPcb, Unregister, ClearEvents, Discard, lwipVars, history
<1>3. \A c \in Clients : life'[c] = "none" => life[c] = "none"
  BY DEF Step, ReadPcb, ReadSlot, TestPcb, Unregister, ClearEvents, Discard, Goodbye, CoreInv, AsyncInv, SlotInv, SlotTypes
<1> QED
  BY <1>1, <1>2, <1>3, NumbersStay DEF QuietInv

\* A task stays with its client.
LEMMA StepTask ==
    ASSUME NEW O, CoreInv, QuietInv(O), NEW t \in Tasks, Step(t)
    PROVE  TaskInv(O)'
<1>0. /\ TaskInv(O) /\ task \in [Tasks -> {Idle} \cup Work]
      /\ call \in [Tasks -> {NoCall} \cup [op : Ops, c : Clients, slot : Slots \cup {NoSlot}]]
  BY DEF QuietInv, CoreInv, AsyncInv, WorkTypes
<1>1. PICK s \in {Idle} \cup Work :
              /\ task' = [task EXCEPT ![t] = s]
              /\ s.c \in {task[t].c, NoClient}
              /\ task[t].at \notin {"idle", "removing", "putBack"} /\ task[t].c \in Clients /\ task[t] \in Work
  BY StepMoves
<1>5. ASSUME NEW r \in Tasks, task'[r].at # "idle" PROVE life'[task'[r].c] # "none"
  <2>1. task[r].at # "idle" /\ task'[r].c = task[r].c
    BY <1>0, <1>1, <1>5, AsyncAssumption DEF Work, Idle
  <2>2. life[task[r].c] # "none" /\ task[r].c \in Clients
    BY <1>0, <2>1, BusyTask DEF TaskInv, CoreInv
  <2>3. \A c \in Clients : life'[c] = "none" => life[c] = "none"
    BY DEF Step, ReadPcb, ReadSlot, TestPcb, Unregister, ClearEvents, Discard, Goodbye, CoreInv, AsyncInv, SlotInv, SlotTypes
  <2> QED
    BY <2>1, <2>2, <2>3
<1>2. tcp' = tcp
  BY DEF Step, ReadPcb, ReadSlot, TestPcb, Unregister, ClearEvents, Discard, lwipVars
<1>3. task'["loop"].at # "idle" => task'["loop"].c \in O
  <2>1. CASE t = "loop"
    <3>1. s = Idle \/ s.c # NoClient
      BY <1>1, AsyncAssumption DEF Work
    <3> QED
      BY <1>0, <1>1, <2>1, <3>1 DEF TaskInv, Idle
  <2>2. CASE t # "loop"
    BY <1>0, <1>1, <2>2 DEF TaskInv, Tasks
  <2> QED
    BY <2>1, <2>2
<1>4. ASSUME NEW r \in Tasks, call'[r].op # "none"
      PROVE  task'[r].at = "wait" /\ task'[r].c = call'[r].c /\ task'[r].op = call'[r].op
  <2>1. CASE ReadSlot(t) /\ r = t
    <3>1. call'[t] = [op |-> task[t].op, c |-> task[t].c, slot |-> slot[task[t].c]]
      BY <1>0, <2>1 DEF ReadSlot
    <3>2. task'[t] = [task[t] EXCEPT !.at = "wait"]
      BY <1>0, <2>1 DEF ReadSlot
    <3>3. task'[t].at = "wait" /\ task'[t].c = task[t].c /\ task'[t].op = task[t].op
      BY <1>1, <3>2 DEF Work
    <3> QED
      BY <2>1, <3>1, <3>3
  <2>2. CASE r # t
    <3>1. call'[r] = call[r] /\ task'[r] = task[r]
      BY <1>0, <1>1, <2>2 DEF Step, ReadPcb, ReadSlot, TestPcb, Unregister, ClearEvents, Discard
    <3> QED
      BY <1>0, <1>4, <3>1 DEF TaskInv
  <2>3. CASE ~ReadSlot(t) /\ r = t
    <3>1. call' = call /\ task[t].at # "wait"
      BY <2>3 DEF Step, ReadPcb, ReadSlot, TestPcb, Unregister, ClearEvents, Discard
    <3> QED
      BY <1>0, <1>4, <2>3, <3>1 DEF TaskInv
  <2> QED
    BY <2>1, <2>2, <2>3
<1> QED
  BY <1>0, <1>2, <1>3, <1>4, <1>5 DEF TaskInv

\* What a step leaves alone for the clients it is not about
LEMMA StepElsewhere ==
    ASSUME NEW O, CoreInv, QuietInv(O), NEW t \in Tasks, Step(t),
           NEW c \in Accepted(O), t = "loop" \/ task[t].c # c
    PROVE  ClientInv(c)'
<1> DEFINE d == task[t].c
<1>0. /\ ClientInv(c) /\ c \in Clients /\ c # NoClient
      /\ task \in [Tasks -> {Idle} \cup Work]
      /\ call \in [Tasks -> {NoCall} \cup [op : Ops, c : Clients, slot : Slots \cup {NoSlot}]]
      /\ pcb \in [Clients -> BOOLEAN] /\ life \in [Clients -> {"none", "live", "deleted"}]
      /\ slot \in [Clients -> Slots \cup {NoSlot}]
      /\ registered \in [Clients -> {"client", "null", "removed"}]
  BY AsyncAssumption DEF QuietInv, CoreInv, AsyncInv, WorkTypes, SlotInv, SlotTypes, OrderTypes, Accepted
<1>1. PICK s \in {Idle} \cup Work :
              /\ task' = [task EXCEPT ![t] = s]
              /\ s.c \in {task[t].c, NoClient} /\ d \in Clients
  BY StepMoves
<1>2. c # d
  BY StepQueue DEF Accepted
<1>3. Of(c, Held)' = Of(c, Held)
  <2>1. Held' = Held \/ Held' = Held \cup {What(Packet("CLEAR", d, 0))}
    BY StepQueue
  <2>2. What(Packet("CLEAR", d, 0)).client # c
    BY <1>2 DEF What, Packet
  <2> QED
    BY <2>1, <2>2 DEF Of
<1>4. task'["service"] = task["service"] \/ (task["service"].c # c /\ task'["service"].c # c)
  <2>1. CASE t = "service"
    BY <1>0, <1>1, <1>2, <2>1
  <2>2. CASE t = "loop"
    BY <2>2, StepQueue
  <2> QED
    BY <2>1, <2>2 DEF Tasks
<1>5. call'["service"] = call["service"] \/ call'["service"].c # c
  <2>1. CASE ReadSlot(t)
    BY <1>0, <1>2, <2>1 DEF ReadSlot, Tasks
  <2>2. CASE ~ReadSlot(t)
    BY <2>2 DEF Step, ReadPcb, TestPcb, Unregister, ClearEvents, Discard
  <2> QED
    BY <2>1, <2>2
<1>6. /\ tcp' = tcp /\ lwip' = lwip /\ registered'[c] = registered[c]
      /\ pcb'[c] = pcb[c] /\ life'[c] = life[c] /\ slot'[c] = slot[c]
  BY <1>0, <1>1, <1>2 DEF Step, ReadPcb, ReadSlot, TestPcb, Unregister, ClearEvents, Discard, Goodbye, FreeClosedSlot, slotVars, lwipVars
<1> QED
  BY <1>0, <1>3, <1>4, <1>5, <1>6, Elsewhere

\* What the invariant says of a client the service task is in a call on
LEMMA WorkingFacts ==
    ASSUME NEW O, CoreInv, QuietInv(O), NEW c \in Accepted(O), Working(c)
    PROVE  /\ life[c] = "live" /\ c \in Clients /\ c # NoClient
           /\ \A p \in Of(c, Pending) : p.event # "ACCEPT"
           /\ ~(lwip.client = c /\ lwip.event = "ACCEPT")
           /\ ~Sweeping
<1>1. ClientInv(c) /\ c \in Clients /\ c # NoClient /\ life \in [Clients -> {"none", "live", "deleted"}]
  BY AsyncAssumption DEF QuietInv, CoreInv, AsyncInv, SlotInv, SlotTypes, Accepted
<1>2. life[c] = "live"
  <2>1. life[c] # "none"
    BY DEF QuietInv, TaskInv, Working, Tasks
  <2> QED
    BY <1>1, <2>1 DEF ClientInv, ConnectionInv
<1>3. \A p \in Of(c, Pending) : p.event # "ACCEPT"
  BY <1>1 DEF ClientInv, PacketInv
<1>4. ~(lwip.client = c /\ lwip.event = "ACCEPT")
  <2>1. What(lwip) \in Pending /\ What(lwip).client = lwip.client /\ What(lwip).event = lwip.event
    BY DEF Pending, What
  <2> QED
    BY <1>3, <2>1 DEF Of
<1> QED
  BY <1>1, <1>2, <1>3, <1>4 DEF Working, Sweeping

\* A step of the service task on the accepted client it is busy with
LEMMA StepClient ==
    ASSUME NEW O, CoreInv, QuietInv(O), Step("service"),
           NEW c \in Accepted(O), task["service"].c = c
    PROVE  ClientInv(c)' /\ (misused = {} => c \notin misused')
<1> DEFINE w == task["service"]
           w1 == task'["service"]
<1>0. /\ ClientInv(c) /\ TaskInv(O) /\ c \in Clients /\ c # NoClient /\ "service" \in Tasks
      /\ task \in [Tasks -> {Idle} \cup Work]
      /\ call \in [Tasks -> {NoCall} \cup [op : Ops, c : Clients, slot : Slots \cup {NoSlot}]]
      /\ pcb \in [Clients -> BOOLEAN] /\ life \in [Clients -> {"none", "live", "deleted"}]
      /\ slot \in [Clients -> Slots \cup {NoSlot}]
      /\ registered \in [Clients -> {"client", "null", "removed"}]
  BY AsyncAssumption DEF QuietInv, CoreInv, AsyncInv, WorkTypes, SlotInv, SlotTypes, OrderTypes, Accepted, Tasks
<1>1. w.at \notin {"idle", "removing", "putBack"} /\ w \in Work
  BY <1>0, StepMoves
<1>2. Working(c)
  BY <1>1 DEF Working
<1>3. /\ life[c] = "live" /\ \A p \in Of(c, Pending) : p.event # "ACCEPT"
      /\ ~(lwip.client = c /\ lwip.event = "ACCEPT") /\ ~Sweeping
  BY <1>2, WorkingFacts
<1>4. ~Sweeping'
  BY <1>0, StepQueue
<1>5. UNCHANGED <<lwip, tcp>>
  BY DEF Step, ReadPcb, ReadSlot, TestPcb, Unregister, ClearEvents, Discard, lwipVars
<1>6. /\ \A p \in Of(c, Pending)' : p \in Of(c, Pending) \/ p.event = "CLEAR"
      /\ OnlyClear(c) => OnlyClear(c)'
      /\ SomeClear(c) => SomeClear(c)'
      /\ ClearEvents("service") => SomeClear(c)'
  <2> DEFINE p == What(Packet("CLEAR", c, 0))
  <2>1. IF ClearEvents("service") THEN Held' = Held \cup {p} ELSE Held' = Held
    BY <1>0, StepQueue
  <2>2. p.event = "CLEAR" /\ p.client = c
    BY DEF What, Packet
  <2> HIDE DEF p
  <2> QED
    BY <1>5, <2>1, <2>2 DEF Of, Pending, OnlyClear, SomeClear
<1>7. PacketInv(c)'
  <2>1. PacketInv(c)
    BY <1>0 DEF ClientInv
  <2>2. \A p \in Of(c, Pending)' :
          /\ p.event \notin {"DNS", "NODNS", "CONNECTED"}
          /\ p.event = "ERROR" => tcp'[c] = "freed"
          /\ p.event = "FIN" => tcp'[c] = "ended"
          /\ p.event # "ACCEPT"
    BY <1>3, <1>5, <1>6, <2>1 DEF PacketInv
  <2> QED
    BY <1>3, <1>5, <2>1, <2>2 DEF PacketInv
<1>8. CASE \/ ReadPcb("service") \/ ReadSlot("service") \/ TestPcb("service")
           \/ Unregister("service") \/ ClearEvents("service")
  <2>1. life' = life /\ slot' = slot /\ pcb' = pcb /\ registered'[c] \in {registered[c], "removed"}
    BY <1>0, <1>8 DEF ReadPcb, ReadSlot, TestPcb, Unregister, ClearEvents, slotVars, lwipVars
  <2>2. ConnectionInv(c)'
    BY <1>0, <1>3, <1>5, <2>1 DEF ClientInv, ConnectionInv
  <2>3. misused = {} => c \notin misused'
    BY <1>0, <1>3, <1>8 DEF ReadPcb, ReadSlot, TestPcb, Unregister, ClearEvents, Uses
  <2>4. CloseInv(c)'
    <3>0. CloseInv(c) /\ life'[c] # "deleted"
      BY <1>0, <1>3, <2>1 DEF ClientInv
    <3>1. CASE ReadPcb("service")
      <4>1. CASE pcb[c]
        <5>1. w1 = [w EXCEPT !.at = "slot"] /\ call' = call /\ registered' = registered
          BY <1>0, <3>1, <4>1 DEF ReadPcb, lwipVars
        <5>2. w1.at = "slot" /\ w1.op = w.op /\ w1.c = c /\ w.at = "pcb"
          BY <1>1, <3>1, <5>1 DEF Work, ReadPcb
        <5> QED
          BY <1>2, <1>5, <1>6, <2>1, <3>0, <5>1, <5>2 DEF CloseInv, Closing, Working, Silent
      <4>2. CASE ~pcb[c]
        <5>1. ~Closing(c)
          BY <3>0, <4>2 DEF CloseInv
        <5>2. w1 = After(w.op, c, FALSE) /\ call' = call /\ registered' = registered
          BY <1>0, <3>1, <4>2 DEF ReadPcb, lwipVars
        <5>3. w.op \notin {"close", "closeAbort"}
          BY <1>2, <5>1 DEF Closing
        <5>4. w1.at \in {"close", "idle"} /\ w1.op \notin {"close", "closeAbort"}
          BY <5>2, <5>3 DEF After, Idle
        <5> QED
          BY <2>1, <1>5, <3>0, <5>2, <5>4 DEF CloseInv, Closing, Working, Silent
      <4> QED
        BY <4>1, <4>2
    <3>2. CASE ReadSlot("service")
      <4>1. w1 = [w EXCEPT !.at = "wait"] /\ call'["service"].slot = slot[c] /\ registered' = registered
        BY <1>0, <3>2 DEF ReadSlot, lwipVars
      <4>2. w1.at = "wait" /\ w1.op = w.op /\ w1.c = c /\ w.at = "slot"
        BY <1>1, <3>2, <4>1 DEF Work, ReadSlot
      <4> QED
        BY <1>2, <1>5, <1>6, <2>1, <3>0, <4>1, <4>2 DEF CloseInv, Closing, Working, Silent
    <3>5. CASE TestPcb("service")
      <4>1. CASE pcb[c]
        <5>1. w1 = [w EXCEPT !.at = "unregister"] /\ call' = call /\ registered' = registered
          BY <1>0, <3>5, <4>1 DEF TestPcb, lwipVars
        <5>2. w1.at = "unregister" /\ w1.op = w.op /\ w1.c = c /\ w.at = "close"
          BY <1>1, <3>5, <5>1 DEF Work, TestPcb
        <5> QED
          BY <1>2, <1>5, <1>6, <2>1, <3>0, <4>1, <5>1, <5>2 DEF CloseInv, Closing, Working, Silent
      <4>2. CASE ~pcb[c]
        <5>1. w1 = Idle /\ call' = call /\ registered' = registered
          BY <1>0, <3>5, <4>2 DEF TestPcb, lwipVars
        <5> QED
          BY <2>1, <1>5, <3>0, <5>1 DEF CloseInv, Closing, Working, Silent, Idle
      <4> QED
        BY <4>1, <4>2
    <3>3. CASE Unregister("service")
      <4>1. w.at = "unregister" /\ pcb[c]
        BY <1>2, <3>0, <3>3 DEF Unregister, CloseInv
      <4>2. w1 = [w EXCEPT !.at = "clear"] /\ call' = call /\ registered'[c] = "removed"
        BY <1>0, <3>3, <4>1 DEF Unregister
      <4>3. w1.at = "clear" /\ w1.op = w.op /\ w1.c = c
        BY <1>1, <3>3, <4>2 DEF Work, Unregister
      <4> QED
        BY <1>2, <1>5, <1>6, <2>1, <3>0, <4>1, <4>2, <4>3 DEF CloseInv, Closing, Working, Silent
    <3>4. CASE ClearEvents("service")
      <4>0. call' = call /\ registered' = registered /\ w.at \in {"clear", "finClear"}
        BY <3>4 DEF ClearEvents, lwipVars, taskVars
      <4>1. CASE w.at = "clear"
        <5>1. w1 = [at |-> "pcb", op |-> "close", c |-> c]
          BY <1>0, <3>4, <4>1 DEF ClearEvents
        <5> QED
          BY <1>2, <1>5, <1>6, <2>1, <3>0, <3>4, <4>0, <4>1, <5>1 DEF CloseInv, Closing, Working, Silent
      <4>2. CASE w.at = "finClear"
        <5>1. w1 = [at |-> "goodbye", op |-> "none", c |-> c]
          BY <1>0, <3>4, <4>2 DEF ClearEvents
        <5> QED
          BY <1>2, <1>5, <1>6, <2>1, <3>0, <4>0, <4>2, <5>1 DEF CloseInv, Closing, Working, Silent
      <4> QED
        BY <4>0, <4>1, <4>2
    <3> QED
      BY <1>8, <3>1, <3>2, <3>3, <3>4, <3>5
  <2> QED
    BY <1>7, <2>2, <2>3, <2>4 DEF ClientInv
<1>9. CASE Discard("service")
  <2>0. CloseInv(c) /\ ConnectionInv(c)
    BY <1>0 DEF ClientInv
  <2>1. w.at \in {"discard", "goodbye"} /\ w1 = Idle /\ registered' = registered /\ call' = call /\ Goodbye(c)
    BY <1>0, <1>9 DEF Discard, lwipVars
  <2>2. pcb'[c] = FALSE
    <3>1. CASE w.at = "discard"
      BY <1>0, <1>9, <3>1 DEF Discard
    <3>2. CASE w.at = "goodbye"
      <4>1. pcb' = pcb
        BY <1>9, <3>2 DEF Discard
      <4> QED
        BY <1>0, <1>2, <2>0, <3>2, <4>1 DEF CloseInv, ConnectionInv
    <3> QED
      BY <2>1, <3>1, <3>2
  <2>3. lwip.client # c /\ (OnlyClear(c) \/ SomeClear(c)) /\ registered[c] # "client"
    BY <1>2, <2>0, <2>1 DEF CloseInv, ConnectionInv, Closing
  <2>4. ~Working(c)' /\ ~Closing(c)'
    BY <2>1 DEF Working, Closing, Idle
  <2>5. life'[c] \in {"live", "deleted"}
    BY <1>0, <1>3, <2>1 DEF Goodbye
  <2>6. ConnectionInv(c)'
    BY <1>5, <2>0, <2>1, <2>2, <2>3, <2>4, <2>5 DEF ConnectionInv, Silent
  <2>7. call["service"].op = "none"
    BY <1>0, <2>1 DEF TaskInv
  <2>8. Covered(c)'
    BY <1>5, <1>6, <2>3 DEF Covered
  <2>9. CloseInv(c)'
    BY <2>1, <2>4, <2>7, <2>8 DEF CloseInv, Closing
  <2>10. c \notin misused'
    BY <1>3, <2>1, <2>2 DEF Goodbye, Uses
  <2> QED
    BY <1>7, <2>6, <2>9, <2>10 DEF ClientInv
<1> QED
  BY <1>8, <1>9 DEF Step

\* Every step of a task keeps the order and uses no deleted client of a server.
LEMMA StepQuiet ==
    ASSUME NEW O, CoreInv, QuietInv(O), misused = {}, NEW t \in Tasks, Step(t)
    PROVE  QuietInv(O)' /\ misused' \subseteq O
<1>1. QueueInv(O)' /\ NumbersInv(O)' /\ TaskInv(O)'
  BY StepQueue, StepNumbers, StepTask
<1>2. ASSUME NEW c \in Accepted(O) PROVE ClientInv(c)' /\ c \notin misused'
  <2>1. CASE t = "loop" \/ task[t].c # c
    <3>1. ClientInv(c)'
      BY <2>1, StepElsewhere
    <3>2. task[t].c # c
      BY <1>2, <2>1, StepQueue DEF Accepted
    <3> QED
      BY <3>1, <3>2 DEF Step, ReadPcb, ReadSlot, TestPcb, Unregister, ClearEvents, Discard, Goodbye, Uses
  <2>2. CASE t = "service" /\ task[t].c = c
    BY <1>2, <2>2, StepClient
  <2> QED
    BY <2>1, <2>2 DEF Tasks
<1>3. misused' \subseteq Clients
  <2>1. misused' \subseteq {task[t].c}
    BY DEF Step, ReadPcb, ReadSlot, TestPcb, Unregister, ClearEvents, Discard, Goodbye, Uses
  <2> QED
    BY <2>1, StepMoves
<1> QED
  BY <1>1, <1>2, <1>3 DEF QuietInv, Accepted

-----------------------------------------------------------------------------
(* The service task takes a packet.                                        *)

\* The service task is idle and takes the packet p that comes first; seen is the
\* number of p, or stays.
Takes(p) ==
    /\ task["service"].at = "idle" /\ queue # <<>> /\ p = Head(queue) /\ queue' = Tail(queue)
    /\ lwip' = lwip /\ number' = number /\ call' = call
    /\ seen' = seen \/ (p.client \in Clients /\ seen' = [seen EXCEPT ![p.client] = p.no])
    /\ task'["loop"] = task["loop"]
    /\ \/ ~Sweeping'
       \/ p.event = "CLEAR" /\ task'["service"].at = "removing" /\ sweep' = NoSweep

\* Each of the handlers takes a packet.
LEMMA HandlersTake ==
    ASSUME CoreInv,
           HandleNothing \/ HandleCallback \/ HandleFin \/ HandleError \/ HandleDns \/ HandleClear
    PROVE  Takes(Head(queue)) /\ Head(queue) \in Packets
<1> DEFINE p == Head(queue)
<1>0. /\ task \in [Tasks -> {Idle} \cup Work] /\ "service" \in Tasks /\ "loop" \in Tasks /\ queue \in Seq(Packets)
  BY DEF CoreInv, AsyncInv, WorkTypes, Tasks
<1>1. queue # <<>> /\ task["service"].at = "idle" /\ queue' = Tail(queue)
  BY DEF HandleNothing, HandleCallback, HandleFin, HandleError, HandleDns, HandleClear, Take
<1>2. p \in Packets
  BY <1>0, <1>1, HeadTailProperties
<1>3. lwip' = lwip /\ number' = number /\ call' = call
  BY DEF HandleNothing, HandleCallback, HandleFin, HandleError, HandleDns, HandleClear, lwipVars, taskVars
<1>4. HandleNothing \/ p.client \in Clients
  BY <1>2 DEF HandleCallback, HandleFin, HandleError, HandleDns, HandleClear, Take, Packets
<1>5. seen' = seen \/ (p.client \in Clients /\ seen' = [seen EXCEPT ![p.client] = p.no])
  BY <1>4 DEF HandleNothing, HandleCallback, HandleFin, HandleError, HandleDns, HandleClear, Handled, history
<1>6. task' = task \/ \E s : task' = [task EXCEPT !["service"] = s]
  BY DEF HandleNothing, HandleCallback, HandleFin, HandleError, HandleDns, HandleClear, taskVars
<1>7. task'["loop"] = task["loop"]
  BY <1>0, <1>6
<1>8. CASE HandleClear
  <2>1. p.event = "CLEAR" /\ task'["service"] = [at |-> "removing", op |-> "none", c |-> p.client] /\ sweep' = NoSweep
    BY <1>0, <1>8 DEF HandleClear, Take
  <2> QED
    BY <1>1, <1>2, <1>3, <1>5, <1>7, <2>1 DEF Takes
<1>9. CASE ~HandleClear
  <2>1. \/ task' = task
        \/ \E s \in Answer(p.client) \cup {[at |-> "pcb", op |-> "ack", c |-> p.client],
                                           [at |-> "close", op |-> "timeout", c |-> p.client],
                                           [at |-> "finClear", op |-> "none", c |-> p.client],
                                           [at |-> "slot", op |-> "connect", c |-> p.client]} :
              task' = [task EXCEPT !["service"] = s]
    <3>1. CASE HandleCallback
      BY <3>1 DEF HandleCallback
    <3>2. CASE ~HandleCallback
      BY <1>9, <3>2 DEF HandleNothing, HandleFin, HandleError, HandleDns, taskVars
    <3> QED
      BY <3>1, <3>2
  <2>2. \A s \in Answer(p.client) : s.at \in {"idle", "pcb"}
    BY DEF Answer, Starts, Idle
  <2>3. ~Sweeping'
    BY <1>0, <1>1, <2>1, <2>2 DEF Sweeping
  <2> QED
    BY <1>1, <1>2, <1>3, <1>5, <1>7, <2>3 DEF Takes
<1> QED
  BY <1>8, <1>9

\* What comes after the packet that is taken, and what does not
LEMMA TakesOrder ==
    ASSUME NEW O, CoreInv, QuietInv(O), NEW p \in Packets, Takes(p)
    PROVE  /\ QueueInv(O)'
           /\ Held = Held' \cup {What(p)}
           /\ \A h \in Held' : MayPrecede(p, h, O)
           /\ MayPrecede(p, lwip, O)
           /\ ~Sweeping
<1>1. queue \in Seq(Packets) /\ QueueInv(O) /\ ~Sweeping
  BY DEF CoreInv, AsyncInv, WorkTypes, QuietInv, Takes, Sweeping
<1>2. QueueInv(O)' /\ Held = Held' \cup {What(p)} /\ \A h \in Held' : MayPrecede(p, h, O)
  BY <1>1, PopKeepsOrder DEF Takes
<1>3. MayPrecede(p, lwip, O)
  BY <1>2, WhatPrecedes DEF QuietInv, NumbersInv
<1> QED
  BY <1>1, <1>2, <1>3

\* What is taken from the front is the next number of its client.
LEMMA TakesNumbers ==
    ASSUME NEW O, CoreInv, QuietInv(O), NEW p \in Packets, Takes(p),
           \A c \in Clients : Early(c)' => Early(c),
           \A c \in Clients : life'[c] = "none" => life[c] = "none" /\ tcp'[c] = tcp[c]
    PROVE  NumbersInv(O)'
<1>0. NumbersInv(O) /\ seen \in [Clients -> Nat] /\ number \in [Clients -> Nat] /\ p.no \in Nat
  BY DEF QuietInv, CoreInv, OrderTypes, AsyncInv, WorkTypes, Packets
<1>1. lwip' = lwip /\ number' = number
  BY DEF Takes
<1>2. /\ Held = Held' \cup {What(p)} /\ \A h \in Held' : MayPrecede(p, h, O)
      /\ MayPrecede(p, What(lwip), O)
  BY TakesOrder, WhatPrecedes
<1>3. Pending' \subseteq Pending /\ \A h \in Pending' : MayPrecede(p, h, O)
  BY <1>1, <1>2 DEF Pending
<1>4. p.no > 0 => p.client \in Clients /\ p.no <= number[p.client]
  <2>1. What(p) \in Pending /\ What(p).no = p.no /\ What(p).client = p.client
    BY <1>2 DEF Pending, What
  <2> QED
    BY <1>0, <2>1 DEF NumbersInv
<1>5. ASSUME NEW h \in Pending', h.no > 0
      PROVE  h.client \in Clients /\ seen'[h.client] < h.no /\ h.no <= number'[h.client]
  <2>1. h.client \in Clients /\ seen[h.client] < h.no /\ h.no <= number[h.client]
    BY <1>0, <1>3, <1>5 DEF NumbersInv
  <2>2. CASE seen' = seen \/ h.client # p.client
    BY <1>0, <1>1, <2>1, <2>2 DEF Takes
  <2>3. CASE h.client = p.client /\ seen' = [seen EXCEPT ![p.client] = p.no]
    <3>1. seen'[h.client] = p.no /\ h.client # NoClient
      BY <1>0, <2>1, <2>3, AsyncAssumption
    <3>2. p.no > 0 => p.no < h.no
      BY <1>3, <1>5, <2>3, <3>1 DEF MayPrecede
    <3> QED
      BY <1>0, <1>1, <1>5, <2>1, <3>1, <3>2
  <2> QED
    BY <2>2, <2>3 DEF Takes
<1>6. ASSUME NEW c \in Clients PROVE seen'[c] <= number[c]
  <2>1. seen[c] <= number[c] /\ number[c] \in Nat
    BY <1>0 DEF NumbersInv
  <2>2. seen'[c] = seen[c] \/ (c = p.client /\ seen'[c] = p.no)
    BY <1>0 DEF Takes
  <2> QED
    BY <1>0, <1>4, <2>1, <2>2
<1>7. \A h \in Held' : MayPrecede(h, lwip, O)
  BY <1>0, <1>2 DEF NumbersInv
<1>8. ASSUME NEW c \in Clients, life'[c] = "none" PROVE tcp'[c] = "none" /\ Of(c, Pending)' = {}
  <2>1. tcp'[c] = "none" /\ Of(c, Pending) = {}
    BY <1>0, <1>8 DEF NumbersInv
  <2> QED
    BY <1>3, <2>1 DEF Of
<1> QED
  BY <1>0, <1>1, <1>5, <1>6, <1>7, <1>8 DEF NumbersInv

\* Nothing is called by an idle task.
LEMMA TakesTask ==
    ASSUME NEW O, CoreInv, QuietInv(O), NEW p \in Packets, Takes(p),
           \A c \in Clients : /\ tcp'[c] = "resolving" => tcp[c] = "resolving"
                              /\ life'[c] = "none" => life[c] = "none",
           task'["service"].at = "idle" \/ (task'["service"].c = p.client /\ p.client \in Clients)
    PROVE  TaskInv(O)' /\ call["service"].op = "none" /\ call'["service"].op = "none"
<1>1. TaskInv(O) /\ call["service"].op = "none" /\ call' = call /\ task'["loop"] = task["loop"]
  BY DEF QuietInv, TaskInv, Takes, Tasks
<1>2. task["loop"].at # "idle" => life'[task["loop"].c] # "none"
  <2>1. task["loop"].at # "idle" => task["loop"].c \in Clients
    BY BusyTask DEF CoreInv, Tasks
  <2> QED
    BY <1>1, <2>1 DEF TaskInv, Tasks
<1>3. task'["service"].at # "idle" => life'[task'["service"].c] # "none"
  <2>1. What(p) \in Of(p.client, Pending)
    BY TakesOrder DEF Of, Pending, What
  <2>2. p.client \in Clients => life[p.client] # "none"
    BY <2>1 DEF QuietInv, NumbersInv
  <2> QED
    BY <2>2
<1>4. \A t \in Tasks : t = "service" \/ t = "loop"
  BY DEF Tasks
<1>5. call'["service"].op = "none"
  BY <1>1
<1>6. \A t \in Tasks : call'[t].op # "none" =>
          task'[t].at = "wait" /\ task'[t].c = call'[t].c /\ task'[t].op = call'[t].op
  BY <1>1, <1>4 DEF TaskInv
<1>7. \A t \in Tasks : task'[t].at # "idle" => life'[task'[t].c] # "none"
  BY <1>1, <1>2, <1>3, <1>4
<1>8. /\ task'["loop"].at # "idle" => task'["loop"].c \in O
      /\ \A c \in Clients : tcp'[c] = "resolving" => c \in O
  BY <1>1 DEF TaskInv
<1> QED
  BY <1>1, <1>6, <1>7, <1>8 DEF TaskInv

\* A handler leaves the clients alone that the packet is not for.
LEMMA TakesElsewhere ==
    ASSUME NEW O, CoreInv, QuietInv(O), NEW p \in Packets, Takes(p),
           NEW c \in Accepted(O), p.client # c, task'["service"].c # c,
           tcp'[c] = tcp[c], registered'[c] = registered[c], pcb'[c] = pcb[c], life'[c] = life[c], slot'[c] = slot[c]
    PROVE  ClientInv(c)'
<1>1. ClientInv(c) /\ lwip' = lwip /\ call' = call
  BY DEF QuietInv, Takes
<1>2. Of(c, Held)' = Of(c, Held)
  <2>1. Held = Held' \cup {What(p)} /\ What(p).client # c
    BY TakesOrder DEF What
  <2> QED
    BY <2>1 DEF Of
<1>3. task["service"].c # c
  BY AsyncAssumption DEF Takes, CoreInv, AsyncInv, WorkTypes, Tasks, Work, Idle, Accepted, Places
<1> QED
  BY <1>1, <1>2, <1>3, Elsewhere

\* The client of an accepted connection's packet is alive when the packet is
\* taken, no CLEAR nor ACCEPT of it is left, and nothing after its end.
LEMMA TakesAlive ==
    ASSUME NEW O, CoreInv, QuietInv(O), NEW p \in Packets, Takes(p),
           p.client \in Accepted(O), p.event # "CLEAR"
    PROVE  LET c == p.client IN
           /\ life[c] = "live"
           /\ \A h \in Of(c, Pending)' : h.event \notin {"ACCEPT", "CLEAR"}
           /\ p.event \in {"ERROR", "FIN"} => Of(c, Held)' = {} /\ lwip.client # c
           /\ p.event \notin {"DNS", "NODNS", "CONNECTED"}
           /\ p.event = "ERROR" => tcp[c] = "freed"
           /\ p.event = "FIN" => tcp[c] = "ended"
<1> DEFINE c == p.client
<1>0. /\ ClientInv(c) /\ c \in Clients /\ c # NoClient /\ c \notin O
      /\ life \in [Clients -> {"none", "live", "deleted"}]
  BY AsyncAssumption DEF QuietInv, Accepted, CoreInv, AsyncInv, SlotInv, SlotTypes
<1>1. /\ Held = Held' \cup {What(p)} /\ \A h \in Held' : MayPrecede(p, h, O)
      /\ MayPrecede(p, lwip, O) /\ ~Sweeping /\ lwip' = lwip
  BY TakesOrder DEF Takes
<1>2. What(p) \in Of(c, Held) /\ What(p) \in Of(c, Pending) /\ What(p).event = p.event
  BY <1>1 DEF What, Of, Pending
<1>3. \A h \in Of(c, Held)' : h.event \notin {"ACCEPT", "CLEAR"} /\ p.event \notin {"ERROR", "FIN"}
  BY <1>0, <1>1 DEF Of, MayPrecede
<1>4. lwip.client = c => lwip.event \notin {"ACCEPT", "CLEAR"} /\ p.event \notin {"ERROR", "FIN"}
  BY <1>0, <1>1 DEF MayPrecede
<1>5. life[c] # "none"
  BY <1>0, <1>2 DEF QuietInv, NumbersInv
<1>6. life[c] # "deleted"
  <2>1. ~OnlyClear(c)
    BY <1>2 DEF OnlyClear
  <2>2. ~SomeClear(c)
    BY <1>1, <1>2, <1>3 DEF SomeClear, Of
  <2> QED
    BY <1>0, <1>1, <2>1, <2>2 DEF ClientInv, CloseInv, Covered
<1>7. \A h \in Of(c, Pending)' : h.event \notin {"ACCEPT", "CLEAR"}
  BY <1>1, <1>3, <1>4 DEF Of, Pending, What
<1>8. /\ p.event \notin {"DNS", "NODNS", "CONNECTED"}
      /\ p.event = "ERROR" => tcp[c] = "freed"
      /\ p.event = "FIN" => tcp[c] = "ended"
  BY <1>0, <1>2 DEF ClientInv, PacketInv
<1> QED
  BY <1>0, <1>3, <1>4, <1>5, <1>6, <1>7, <1>8

\* The invariant of the packets after one of them was taken
LEMMA TakesPackets ==
    ASSUME NEW O, CoreInv, QuietInv(O), NEW p \in Packets, Takes(p),
           p.client \in Accepted(O), tcp' = tcp,
           p.event = "CLEAR" => life' = life /\ ~Working(p.client)'
    PROVE  PacketInv(p.client)' /\ Of(p.client, Pending)' \subseteq Of(p.client, Pending)
<1> DEFINE c == p.client
<1>0. PacketInv(c) /\ lwip' = lwip
  BY DEF QuietInv, ClientInv, Takes
<1>1. Held' \subseteq Held /\ Pending' \subseteq Pending
  BY <1>0, TakesOrder DEF Pending
<1>2. Of(c, Pending)' \subseteq Of(c, Pending) /\ Of(c, Held)' \subseteq Of(c, Held)
  BY <1>1 DEF Of
<1>3. CASE p.event = "CLEAR"
  BY <1>0, <1>2, <1>3 DEF PacketInv
<1>4. CASE p.event # "CLEAR"
  <2>1. \A h \in Of(c, Pending)' : h.event # "ACCEPT"
    BY <1>4, TakesAlive
  <2> QED
    BY <1>0, <1>2, <2>1 DEF PacketInv
<1> QED
  BY <1>2, <1>3, <1>4

\* An event whose argument is NULL is dropped.
LEMMA TakesNothing ==
    ASSUME NEW O, CoreInv, QuietInv(O), misused = {}, HandleNothing
    PROVE  QuietInv(O)' /\ misused' \subseteq O
<1>0. UNCHANGED <<lwip, life, pcb, closedSlots, closedIndex, slot, tcp, registered, reported, number, task, sweep, call, misused>>
  BY DEF HandleNothing, slotVars, lwipVars, taskVars
<1>1. Takes(Head(queue)) /\ Head(queue) \in Packets /\ Head(queue).client = NoClient
  BY HandlersTake DEF HandleNothing
<1>2. QueueInv(O)' /\ TaskInv(O)' /\ NumbersInv(O)'
  <2>1. task'["service"].at = "idle"
    BY <1>0, <1>1 DEF Takes
  <2> QED
    BY <1>0, <1>1, <2>1, TakesOrder, TakesNumbers, TakesTask DEF Early
<1>3. ASSUME NEW c \in Accepted(O) PROVE ClientInv(c)'
  <2>1. c # NoClient
    BY AsyncAssumption DEF Accepted
  <2>2. task'["service"].c # c
    BY <1>0, <1>1, <2>1 DEF Takes, CoreInv, AsyncInv, WorkTypes, Tasks, Work, Idle, Places
  <2> QED
    BY <1>0, <1>1, <2>1, <2>2, TakesElsewhere
<1> QED
  BY <1>0, <1>2, <1>3 DEF QuietInv, Accepted

\* A callback of a client that is alive
LEMMA TakesCallback ==
    ASSUME NEW O, CoreInv, QuietInv(O), misused = {}, HandleCallback
    PROVE  QuietInv(O)' /\ misused' \subseteq O
<1>9. PICK p \in Packets : p = Head(queue) /\ Takes(p)
  BY HandlersTake
<1> DEFINE d == p.client
           w1 == task'["service"]
<1>0. /\ UNCHANGED <<lwip, life, closedSlots, closedIndex, slot, tcp, registered, reported, number, sweep, call>>
      /\ \E e \in {"ACCEPT", "CONNECTED", "SENT", "RECV", "POLL"} :
            p.event = e /\ (e # "CONNECTED" => pcb' = pcb) /\ (\A c : c # d => pcb'[c] = pcb[c])
      /\ d # NoClient /\ misused' = {c \in {d} : life[c] # "live"}
  <2>1. \A c : c # d => [pcb EXCEPT ![d] = TRUE][c] = pcb[c]
    BY DEF CoreInv, OrderTypes
  <2> QED
    BY <1>9, <2>1 DEF HandleCallback, slotVars, lwipVars, Handled, Uses, Take
<1>1. Takes(p) /\ p \in Packets /\ d \in Clients
  BY <1>0, <1>9 DEF Packets
<1>3. /\ w1.c \in {d, NoClient} /\ (w1.at = "idle" \/ w1.c = d)
      /\ w1.at = "idle" \/ (w1.at = "pcb" /\ w1.op \in {"write", "abort", "ackClose", "ack"})
                        \/ (w1.at = "close" /\ w1.op = "timeout")
  <2>1. \/ task' = task
        \/ \E s \in Answer(d) \cup {[at |-> "pcb", op |-> "ack", c |-> d], [at |-> "close", op |-> "timeout", c |-> d]} :
              task' = [task EXCEPT !["service"] = s]
    BY <1>9 DEF HandleCallback
  <2>2. \A s \in Answer(d) : \/ s.at = "idle" /\ s.c = NoClient
                             \/ s.at = "pcb" /\ s.op \in {"write", "abort", "ackClose"} /\ s.c = d
    BY DEF Answer, Starts, Idle
  <2>3. task \in [Tasks -> {Idle} \cup Work] /\ "service" \in Tasks /\ task["service"].at = "idle"
    BY <1>1 DEF CoreInv, AsyncInv, WorkTypes, Tasks, Takes
  <2>4. task["service"].c = NoClient
    BY <2>3 DEF Work, Idle, Places
  <2> QED
    BY <2>1, <2>2, <2>3, <2>4
<1>2. QueueInv(O)' /\ TaskInv(O)' /\ NumbersInv(O)' /\ call["service"].op = "none"
  BY <1>0, <1>1, <1>3, TakesOrder, TakesNumbers, TakesTask DEF Early
<1>4. ASSUME NEW c \in Accepted(O), c # d PROVE ClientInv(c)'
  <2>1. c # NoClient
    BY AsyncAssumption DEF Accepted
  <2> QED
    BY <1>0, <1>1, <1>3, <1>4, <2>1, TakesElsewhere
<1>5. ASSUME d \in Accepted(O) PROVE ClientInv(d)' /\ d \notin misused'
  <2>0. ClientInv(d) /\ p.event # "CLEAR"
    BY <1>0, <1>5 DEF QuietInv
  <2>1. life[d] = "live" /\ p.event # "CONNECTED"
    BY <1>1, <1>5, <2>0, TakesAlive
  <2>2. pcb' = pcb
    BY <1>0, <2>1
  <2>3. PacketInv(d)'
    BY <1>0, <1>1, <1>5, <2>0, TakesPackets
  <2>4. ConnectionInv(d)'
    BY <1>0, <2>0, <2>1, <2>2 DEF ClientInv, ConnectionInv
  <2>5. ~Closing(d)' /\ (Working(d)' => w1.at \in {"pcb", "close"})
    BY <1>3 DEF Closing, Working
  <2>6. CloseInv(d)'
    BY <1>0, <1>2, <2>1, <2>5 DEF CloseInv
  <2> QED
    BY <1>0, <2>1, <2>3, <2>4, <2>6 DEF ClientInv
<1> QED
  BY <1>0, <1>1, <1>2, <1>4, <1>5 DEF QuietInv, Accepted

\* _fin: nothing of the client is left in the queue.
LEMMA TakesFin ==
    ASSUME NEW O, CoreInv, QuietInv(O), misused = {}, HandleFin
    PROVE  QuietInv(O)' /\ misused' \subseteq O
<1>9. PICK p \in Packets : p = Head(queue) /\ Takes(p)
  BY HandlersTake
<1> DEFINE d == p.client
<1>0. /\ UNCHANGED <<lwip, life, closedSlots, closedIndex, slot, tcp, registered, pcb, reported, number, sweep, call>>
      /\ p.event = "FIN" /\ d # NoClient /\ misused' = {c \in {d} : life[c] # "live"}
  BY <1>9 DEF HandleFin, slotVars, lwipVars, Handled, Uses, Take
<1>1. Takes(p) /\ p \in Packets /\ d \in Clients
  BY <1>0, <1>9 DEF Packets
<1>3. task'["service"] = [at |-> "finClear", op |-> "none", c |-> d]
  BY <1>9 DEF HandleFin, CoreInv, AsyncInv, WorkTypes, Tasks
<1>2. QueueInv(O)' /\ TaskInv(O)' /\ NumbersInv(O)' /\ call["service"].op = "none"
  BY <1>0, <1>1, <1>3, TakesOrder, TakesNumbers, TakesTask DEF Early
<1>4. ASSUME NEW c \in Accepted(O), c # d PROVE ClientInv(c)'
  BY <1>0, <1>1, <1>3, <1>4, TakesElsewhere
<1>5. ASSUME d \in Accepted(O) PROVE ClientInv(d)' /\ d \notin misused'
  <2>0. ClientInv(d)
    BY <1>5 DEF QuietInv
  <2>1. /\ life[d] = "live" /\ Of(d, Held)' = {} /\ lwip.client # d /\ tcp[d] = "ended"
        /\ \A h \in Of(d, Pending)' : h.event # "ACCEPT"
    BY <1>0, <1>1, <1>5, TakesAlive
  <2>3. PacketInv(d)'
    BY <1>0, <1>1, <1>5, TakesPackets
  <2>4. ConnectionInv(d)'
    BY <1>0, <2>0, <2>1 DEF ClientInv, ConnectionInv
  <2>5. ~Closing(d)' /\ OnlyClear(d)'
    BY <1>3, <2>1 DEF Closing, OnlyClear
  <2>6. CloseInv(d)'
    BY <1>0, <1>2, <1>3, <2>1, <2>5 DEF CloseInv
  <2> QED
    BY <1>0, <2>1, <2>3, <2>4, <2>6 DEF ClientInv
<1> QED
  BY <1>0, <1>1, <1>2, <1>4, <1>5 DEF QuietInv, Accepted

\* _error: lwIP has said its last of the client.
LEMMA TakesError ==
    ASSUME NEW O, CoreInv, QuietInv(O), misused = {}, HandleError
    PROVE  QuietInv(O)' /\ misused' \subseteq O
<1>9. PICK p \in Packets : p = Head(queue) /\ Takes(p)
  BY HandlersTake
<1> DEFINE d == p.client
<1>0. /\ UNCHANGED <<lwip, tcp, reported, number, task, sweep, call>>
      /\ p.event = "ERROR" /\ d # NoClient /\ pcb' = [pcb EXCEPT ![d] = FALSE]
      /\ registered' = registered \/ registered' = [registered EXCEPT ![d] = "null"]
      /\ Goodbye(d)
  BY <1>9 DEF HandleError, Take, taskVars
<1>1. Takes(p) /\ p \in Packets /\ d \in Clients
  BY <1>0, <1>9 DEF Packets
<1>2. /\ life \in [Clients -> {"none", "live", "deleted"}] /\ pcb \in [Clients -> BOOLEAN]
      /\ registered \in [Clients -> {"client", "null", "removed"}]
      /\ slot \in [Clients -> Slots \cup {NoSlot}]
  BY DEF CoreInv, AsyncInv, SlotInv, SlotTypes, OrderTypes
<1>3. /\ \A c \in Clients : c # d => /\ life'[c] = life[c] /\ pcb'[c] = pcb[c]
                                    /\ registered'[c] = registered[c] /\ slot'[c] = slot[c]
      /\ life'[d] \in {life[d], "deleted"} /\ ~pcb'[d]
      /\ misused' \subseteq {d} /\ (life[d] = "live" => misused' = {})
  BY <1>0, <1>1, <1>2 DEF Goodbye, FreeClosedSlot, slotVars, Uses
<1>5. task'["service"].at = "idle" /\ task'["service"].c = NoClient
  BY <1>0, <1>1 DEF Takes, CoreInv, AsyncInv, WorkTypes, Tasks, Work, Idle, Places
<1>4. QueueInv(O)' /\ TaskInv(O)' /\ NumbersInv(O)' /\ call["service"].op = "none"
  <2>1. \A c \in Clients : life'[c] = "none" => life[c] = "none"
    BY <1>1, <1>3
  <2> QED
    BY <1>0, <1>1, <1>5, <2>1, TakesOrder, TakesNumbers, TakesTask DEF Early
<1>6. ASSUME NEW c \in Accepted(O), c # d PROVE ClientInv(c)'
  <2>1. c # NoClient /\ c \in Clients
    BY AsyncAssumption DEF Accepted
  <2> QED
    BY <1>0, <1>1, <1>3, <1>5, <1>6, <2>1, TakesElsewhere
<1>7. ASSUME d \in Accepted(O) PROVE ClientInv(d)' /\ d \notin misused'
  <2>0. ClientInv(d)
    BY <1>7 DEF QuietInv
  <2>1. life[d] = "live" /\ Of(d, Held)' = {} /\ lwip.client # d /\ tcp[d] = "freed"
    BY <1>0, <1>1, <1>7, TakesAlive
  <2>2. PacketInv(d)'
    BY <1>0, <1>1, <1>7, TakesPackets
  <2>3. ~Working(d)' /\ ~Closing(d)'
    BY <1>5 DEF Working, Closing
  <2>4. ConnectionInv(d)'
    BY <1>0, <1>3, <2>0, <2>1, <2>3 DEF ClientInv, ConnectionInv, Silent
  <2>5. Covered(d)'
    BY <1>0, <2>1 DEF Covered, OnlyClear
  <2>6. CloseInv(d)'
    BY <1>0, <1>4, <2>3, <2>5 DEF CloseInv
  <2> QED
    BY <1>3, <2>1, <2>2, <2>4, <2>6 DEF ClientInv
<1> QED
  BY <1>1, <1>3, <1>4, <1>6, <1>7, <1>0 DEF QuietInv, Accepted

\* A name is looked up for a client of loop() only.
LEMMA TakesDns ==
    ASSUME NEW O, CoreInv, QuietInv(O), misused = {}, HandleDns
    PROVE  QuietInv(O)' /\ misused' \subseteq O
<1>1. PICK p \in Packets : p = Head(queue) /\ Takes(p)
  BY HandlersTake
<1> DEFINE d == p.client
<1>2. /\ p.event \in {"DNS", "NODNS"} /\ d \in Clients /\ lwip' = lwip /\ number' = number
      /\ misused' \subseteq {d} /\ pcb' = pcb
      /\ tcp' = tcp \/ (tcp[d] = "none" /\ tcp' = [tcp EXCEPT ![d] = "new"])
      /\ registered' = registered \/ registered' = [registered EXCEPT ![d] = "client"]
      /\ life' = life \/ (tcp' = tcp /\ life' = [life EXCEPT ![d] = "deleted"])
      /\ slot' = slot \/ slot' = [slot EXCEPT ![d] = NoSlot]
  BY <1>1 DEF HandleDns, Take, Packets, Goodbye, FreeClosedSlot, Uses, slotVars, lwipVars, history
<1>3. /\ life \in [Clients -> {"none", "live", "deleted"}]
      /\ registered \in [Clients -> {"client", "null", "removed"}]
      /\ slot \in [Clients -> Slots \cup {NoSlot}]
      /\ tcp \in [Clients -> {"none", "new", "resolving", "connecting", "open", "halfClosed", "ended", "freed", "closed"}]
      /\ task \in [Tasks -> {Idle} \cup Work]
  BY DEF CoreInv, AsyncInv, SlotInv, SlotTypes, OrderTypes, WorkTypes
<1>4. d \notin Accepted(O)
  BY <1>1, <1>2, TakesAlive
<1>5. \A c \in Clients : c # d => /\ tcp'[c] = tcp[c] /\ registered'[c] = registered[c] /\ pcb'[c] = pcb[c]
                                  /\ life'[c] = life[c] /\ slot'[c] = slot[c]
  BY <1>2, <1>3
<1>6. \A c \in Clients : /\ Early(c)' => Early(c)
                         /\ tcp'[c] = "resolving" => tcp[c] = "resolving"
  BY <1>2, <1>3, <1>5 DEF Early
<1>7. life[d] # "none"
  <2>1. What(p) \in Of(d, Pending)
    BY <1>1, TakesOrder DEF Of, Pending, What
  <2> QED
    BY <1>2, <2>1 DEF QuietInv, NumbersInv
<1>8. \A c \in Clients : life'[c] = "none" => life[c] = "none" /\ tcp'[c] = tcp[c]
  BY <1>2, <1>3, <1>5, <1>7
<1>9. task'["service"].c \in {d, NoClient} /\ (task'["service"].at = "idle" \/ task'["service"].c = d)
  <2>1. task["service"].at = "idle" /\ task["service"].c = NoClient /\ "service" \in Tasks
    BY <1>1, <1>3 DEF Takes, Idle, Work, Places, Tasks
  <2>2. task' = task \/ task' = [task EXCEPT !["service"] = [at |-> "slot", op |-> "connect", c |-> d]]
    BY <1>1 DEF HandleDns, taskVars
  <2> QED
    BY <1>3, <2>1, <2>2
<1>10. QueueInv(O)' /\ TaskInv(O)' /\ NumbersInv(O)'
  BY <1>1, <1>2, <1>6, <1>8, <1>9, TakesOrder, TakesNumbers, TakesTask
<1>11. ASSUME NEW c \in Accepted(O) PROVE ClientInv(c)'
  <2>1. c # d /\ c # NoClient /\ c \in Clients
    BY <1>4, AsyncAssumption DEF Accepted
  <2> QED
    BY <1>1, <1>5, <1>9, <2>1, TakesElsewhere
<1> QED
  BY <1>2, <1>4, <1>10, <1>11 DEF QuietInv, Accepted

\* CLEAR covers what is left of a deleted client, and so does the removal.
LEMMA TakesClear ==
    ASSUME NEW O, CoreInv, QuietInv(O), misused = {}, HandleClear
    PROVE  QuietInv(O)' /\ misused' \subseteq O
<1>1. PICK p \in Packets : p = Head(queue) /\ Takes(p)
  BY HandlersTake
<1> DEFINE d == p.client
<1>2. /\ p.event = "CLEAR" /\ d \in Clients
      /\ task'["service"] = [at |-> "removing", op |-> "none", c |-> d]
      /\ UNCHANGED <<lwip, life, pcb, closedSlots, closedIndex, slot, tcp, registered, reported, number, call, misused>>
  BY <1>1 DEF HandleClear, Take, Packets, slotVars, lwipVars, CoreInv, AsyncInv, WorkTypes, Tasks
<1>3. QueueInv(O)' /\ TaskInv(O)' /\ NumbersInv(O)' /\ call["service"].op = "none"
  BY <1>1, <1>2, TakesOrder, TakesNumbers, TakesTask DEF Early
<1>4. ASSUME NEW c \in Accepted(O), c # d PROVE ClientInv(c)'
  BY <1>1, <1>2, <1>4, TakesElsewhere
<1>5. ASSUME d \in Accepted(O) PROVE ClientInv(d)'
  <2>0. ClientInv(d)
    BY <1>5 DEF QuietInv
  <2>1. ~Working(d)' /\ ~Closing(d)' /\ Sweeping'
    BY <1>2 DEF Working, Closing, Sweeping
  <2>2. PacketInv(d)'
    BY <1>1, <1>2, <1>5, <2>1, TakesPackets
  <2>3. ConnectionInv(d)'
    BY <1>2, <2>0, <2>1 DEF ClientInv, ConnectionInv, Silent
  <2>4. Covered(d) => Covered(d)'
    BY <1>2, <2>1 DEF Covered
  <2>5. CloseInv(d)'
    BY <1>2, <1>3, <2>0, <2>1, <2>4 DEF ClientInv, CloseInv
  <2> QED
    BY <2>2, <2>3, <2>5 DEF ClientInv
<1> QED
  BY <1>2, <1>3, <1>4, <1>5 DEF QuietInv, Accepted

\* The removal drops packets of its client only, and ends when none is left.
LEMMA RemovalQuiet ==
    ASSUME NEW O, CoreInv, QuietInv(O), misused = {}, RemoveEvents \/ PutBack
    PROVE  QuietInv(O)' /\ misused' \subseteq O
<1> DEFINE d == task["service"].c
<1>0. /\ queue \in Seq(Packets) /\ sweep \in [started : BOOLEAN, packet : Packets] /\ QueueInv(O)
      /\ task \in [Tasks -> {Idle} \cup Work] /\ "service" \in Tasks
      /\ UNCHANGED <<lwip, life, pcb, closedSlots, closedIndex, slot, tcp, registered, reported, number, seen, call, misused>>
      /\ Sweeping /\ d \in Clients /\ task'["loop"] = task["loop"]
  <2>1. /\ queue \in Seq(Packets) /\ sweep \in [started : BOOLEAN, packet : Packets] /\ QueueInv(O)
        /\ task \in [Tasks -> {Idle} \cup Work] /\ "service" \in Tasks
    BY DEF CoreInv, QuietInv, AsyncInv, WorkTypes, OrderTypes, Tasks
  <2>2. task["service"].at \in {"removing", "putBack"}
    BY DEF RemoveEvents, PutBack
  <2>3. d \in Clients
    BY <2>1, <2>2, BusyTask DEF CoreInv
  <2>4. task'["loop"] = task["loop"]
    <3>1. task' = task \/ \E s : task' = [task EXCEPT !["service"] = s]
      BY DEF RemoveEvents, PutBack
    <3>2. "loop" \in Tasks /\ "loop" # "service"
      BY DEF Tasks
    <3> QED
      BY <2>1, <3>1, <3>2
  <2>5. UNCHANGED <<lwip, life, pcb, closedSlots, closedIndex, slot, tcp, registered, reported, number, seen, call, misused>>
    BY DEF RemoveEvents, PutBack, slotVars, lwipVars, history
  <2> QED
    BY <2>1, <2>2, <2>3, <2>4, <2>5 DEF Sweeping
<1>1. /\ QueueInv(O)' /\ Held' \subseteq Held
      /\ \A h \in Held : h \in Held' \/ (h.event # "ACCEPT" /\ h.client = d)
      /\ \/ Sweeping' /\ task'["service"].c = d
         \/ task'["service"] = Idle /\ \A h \in Held : h.client = d => h.event = "ACCEPT"
  <2>1. CASE PutBack
    BY <1>0, <2>1, PutBackKeepsOrder
  <2>2. CASE RemoveEvents /\ (queue = <<>> \/ Head(queue).first)
    <3>1. /\ QueueInv(O)' /\ Held' = Held /\ task' = [task EXCEPT !["service"] = Idle]
          /\ \A h \in Held : h.client = d => h.event = "ACCEPT"
      BY <1>0, <2>2, StopKeepsOrder
    <3> QED
      BY <1>0, <3>1
  <2>3. CASE RemoveEvents /\ queue # <<>> /\ ~Head(queue).first
    BY <1>0, <2>3, LookKeepsOrder
  <2> QED
    BY <2>1, <2>2, <2>3
<1>2. TaskInv(O) /\ call["service"].op = "none"
  BY <1>0 DEF QuietInv, TaskInv, Sweeping
<1>3. task'["service"].at = "idle" \/ task'["service"].c = d
  BY <1>1 DEF Idle
<1>4. TaskInv(O)'
  <2>1. \A t \in Tasks : t = "service" \/ t = "loop"
    BY DEF Tasks
  <2>2. \A t \in Tasks : call'[t].op # "none" =>
          task'[t].at = "wait" /\ task'[t].c = call'[t].c /\ task'[t].op = call'[t].op
    BY <1>0, <1>2, <2>1 DEF TaskInv
  <2>3. life[d] # "none"
    BY <1>0, <1>2 DEF TaskInv, Sweeping
  <2>4. \A t \in Tasks : task'[t].at # "idle" => life'[task'[t].c] # "none"
    BY <1>0, <1>2, <1>3, <2>1, <2>3 DEF TaskInv
  <2>5. /\ task'["loop"].at # "idle" => task'["loop"].c \in O
        /\ \A c \in Clients : tcp'[c] = "resolving" => c \in O
    BY <1>0, <1>2 DEF TaskInv
  <2> QED
    BY <2>2, <2>4, <2>5 DEF TaskInv
<1>5. NumbersInv(O)'
  BY <1>0, <1>1, NumbersStay DEF QuietInv
<1>6. ASSUME NEW c \in Accepted(O), c # d PROVE ClientInv(c)'
  <2>1. c # NoClient /\ c \in Clients /\ ClientInv(c)
    BY AsyncAssumption DEF Accepted, QuietInv
  <2>2. Of(c, Held)' = Of(c, Held)
    BY <1>1, <1>6 DEF Of
  <2>3. task'["service"].c # c
    BY <1>1, <1>6, <2>1 DEF Idle
  <2> QED
    BY <1>0, <1>6, <2>1, <2>2, <2>3, Elsewhere
<1>7. ASSUME NEW c \in Accepted(O), c = d PROVE ClientInv(c)'
  <2>0. ClientInv(c)
    BY DEF QuietInv
  <2>1. ~Working(c)' /\ ~Closing(c)'
    BY <1>1 DEF Working, Closing, Sweeping, Idle
  <2>2. Of(c, Held)' \subseteq Of(c, Held) /\ Of(c, Pending)' \subseteq Of(c, Pending)
    BY <1>0, <1>1 DEF Of, Pending
  <2>3. PacketInv(c)'
    BY <1>0, <2>0, <2>1, <2>2 DEF ClientInv, PacketInv
  <2>4. ConnectionInv(c)'
    BY <1>0, <2>0, <2>1 DEF ClientInv, ConnectionInv, Silent
  <2>5. life[c] = "deleted" => Covered(c)'
    <3>1. CASE Sweeping' /\ task'["service"].c = d
      BY <1>0, <1>7, <2>0, <3>1 DEF ClientInv, CloseInv, Covered
    <3>2. CASE \A h \in Held : h.client = d => h.event = "ACCEPT"
      <4>1. life[c] = "deleted" => Of(c, Held) = {}
        BY <1>7, <2>0, <3>2 DEF ClientInv, PacketInv, Of, Pending
      <4> QED
        BY <1>0, <2>0, <2>2, <4>1 DEF ClientInv, CloseInv, Covered, OnlyClear
    <3> QED
      BY <1>1, <3>1, <3>2
  <2>6. CloseInv(c)'
    BY <1>0, <1>2, <2>1, <2>5 DEF CloseInv
  <2> QED
    BY <2>3, <2>4, <2>6 DEF ClientInv
<1> QED
  BY <1>0, <1>1, <1>4, <1>5, <1>6, <1>7 DEF QuietInv, Accepted

\* Every step of the service task keeps the order.
LEMMA ServiceQuiet ==
    ASSUME NEW O, CoreInv, QuietInv(O), misused = {}, Service
    PROVE  QuietInv(O)' /\ misused' \subseteq O
BY TakesNothing, TakesCallback, TakesFin, TakesError, TakesDns, TakesClear, RemovalQuiet DEF Service

-----------------------------------------------------------------------------
(* lwIP's thread.                                                          *)

\* What is still to be handled are packets.
LEMMA PendingTypes ==
    ASSUME CoreInv
    PROVE  \A h \in Pending : h.no \in Nat /\ h.client \in Clients \cup {NoClient} /\ h.event \in Events \cup {"none"}
<1>1. queue \in Seq(Packets) /\ lwip \in Packets /\ sweep.packet \in Packets
  BY DEF CoreInv, AsyncInv, WorkTypes
<1>2. \A i \in 1 .. Len(queue) : queue[i] \in Packets
  BY <1>1, ElementOfSeq
<1>3. \A p \in Packets : /\ What(p).no \in Nat /\ What(p).client \in Clients \cup {NoClient}
                         /\ What(p).event \in Events \cup {"none"}
  BY DEF What, Packets
<1> QED
  BY <1>1, <1>2, <1>3 DEF Pending, Held

\* Its packet goes into the queue, while nothing is removed.
LEMMA QueuesQuiet ==
    ASSUME NEW O, CoreInv, QuietInv(O), misused = {}, LwipQueues, ~mixed'
    PROVE  QuietInv(O)' /\ misused' \subseteq O
<1>0. /\ queue \in Seq(Packets) /\ lwip \in Packets /\ QueueInv(O) /\ NumbersInv(O) /\ TaskInv(O) /\ ~lwip.first
      /\ UNCHANGED <<life, pcb, closedSlots, closedIndex, slot, tcp, registered, number, seen, task, sweep, call, misused>>
      /\ lwip' = NoPacket /\ ~Sweeping /\ ~Sweeping'
  <2>1. queue \in Seq(Packets) /\ lwip \in Packets /\ QueueInv(O) /\ NumbersInv(O) /\ TaskInv(O) /\ ~lwip.first
    BY DEF CoreInv, QuietInv, AsyncInv, WorkTypes, NumbersInv
  <2>2. /\ UNCHANGED <<life, pcb, closedSlots, closedIndex, slot, tcp, registered, number, seen, task, sweep, call, misused>>
        /\ lwip' = NoPacket /\ ~Sweeping
    BY DEF LwipQueues, slotVars, lwipVars, taskVars, Sweeping
  <2> QED
    BY <2>1, <2>2 DEF Sweeping
<1>1. PICK p \in Packets : p = lwip
  BY <1>0
<1>2. NoPacket.client = NoClient /\ NoPacket.no = 0 /\ NoPacket.event = "none" /\ ~NoPacket.first
  BY DEF NoPacket, Packet
<1>3. QueueInv(O)' /\ Held' = Held \cup {What(p)}
  <2>1. CASE p.event \in {"ACCEPT", "CONNECTED"}
    <3>1. queue' = <<p>> \o queue
      BY <1>1, <2>1 DEF LwipQueues
    <3>2. ASSUME NEW h \in Held PROVE MayPrecede(p, h, O)
      <4>1. p.no > 0 /\ h.no > 0 /\ h.client = p.client => h.client \in Clients /\ h.no < p.no
        <5> SUFFICES ASSUME p.no > 0, h.no > 0, h.client = p.client PROVE h.client \in Clients /\ h.no < p.no
          OBVIOUS
        <5>1. h.client \in Clients /\ h.client # NoClient
          BY <1>0, AsyncAssumption DEF NumbersInv, Pending
        <5>2. MayPrecede(h, p, O)
          BY <1>0, <1>1 DEF NumbersInv
        <5> QED
          BY <5>1, <5>2 DEF MayPrecede
      <4>2. h.no \in Nat
        BY PendingTypes DEF Pending
      <4>3. ~(p.no > 0 /\ h.no > 0 /\ h.client = p.client)
        BY <1>0, <1>1, <2>1, <4>1, <4>2 DEF NumbersInv, Packets
      <4>4. p.client \notin O /\ p.client # NoClient => h.client # p.client
        <5> SUFFICES ASSUME p.client \notin O, p.client # NoClient PROVE h.client # p.client
          OBVIOUS
        <5>1. p.client \in Accepted(O)
          BY DEF Packets, Accepted
        <5>2. p.event = "ACCEPT" /\ Of(p.client, Held) = {}
          <6>1. What(p) \in Of(p.client, Pending) /\ What(p).event = p.event
            BY <1>1 DEF Of, Pending, What
          <6> QED
            BY <1>1, <2>1, <5>1, <6>1 DEF QuietInv, ClientInv, PacketInv
        <5> QED
          BY <5>2 DEF Of
      <4> QED
        BY <4>3, <4>4 DEF MayPrecede
    <3> QED
      BY <1>0, <1>1, <3>1, <3>2, FrontKeepsOrder
  <2>2. CASE p.event \notin {"ACCEPT", "CONNECTED"}
    <3>1. queue' = Append(queue, p)
      BY <1>1, <2>2 DEF LwipQueues
    <3> QED
      BY <1>0, <1>1, <3>1, AppendKeepsOrder DEF NumbersInv
  <2> QED
    BY <2>1, <2>2
<1>4. NumbersInv(O)'
  <2>1. \A h \in Pending' : h \in Pending \/ (h.no = 0 /\ h.client = NoClient)
    BY <1>0, <1>1, <1>2, <1>3 DEF Pending, What
  <2>2. \A h \in Held' : MayPrecede(h, NoPacket, O)
    BY <1>2 DEF MayPrecede
  <2>3. ASSUME NEW c \in Clients, life[c] = "none" PROVE Of(c, Pending)' = {}
    BY <1>0, <2>1, <2>3, AsyncAssumption DEF NumbersInv, Of
  <2> QED
    BY <1>0, <1>2, <2>1, <2>2, <2>3 DEF NumbersInv, Early
<1>5. TaskInv(O)'
  BY <1>0 DEF TaskInv
<1>6. ASSUME NEW c \in Accepted(O) PROVE ClientInv(c)'
  <2>0. ClientInv(c) /\ c # NoClient
    BY AsyncAssumption DEF QuietInv, Accepted
  <2>1. CASE p.client # c
    <3>1. Of(c, Held)' = Of(c, Held)
      BY <1>3, <2>1 DEF Of, What
    <3> QED
      BY <1>0, <1>1, <1>2, <2>0, <2>1, <3>1, Elsewhere
  <2>2. CASE p.client = c
    <3>1. /\ Of(c, Pending)' = Of(c, Pending)
          /\ Of(c, Held) \subseteq Of(c, Held)'
      BY <1>0, <1>1, <1>2, <1>3, <2>0 DEF Of, Pending, What
    <3>2. SomeClear(c) => SomeClear(c)'
      BY <3>1 DEF SomeClear
    <3>3. ConnectionInv(c)'
      BY <1>0, <2>0 DEF ClientInv, ConnectionInv, Silent, Working
    <3>4. PacketInv(c)'
      BY <1>0, <1>2, <2>0, <3>1 DEF ClientInv, PacketInv, Working
    <3>5. CloseInv(c)'
      BY <1>0, <1>1, <1>2, <2>0, <2>2, <3>2 DEF ClientInv, CloseInv, Covered, Working, Closing, Silent
    <3> QED
      BY <3>3, <3>4, <3>5 DEF ClientInv
  <2> QED
    BY <2>1, <2>2
<1> QED
  BY <1>0, <1>3, <1>4, <1>5, <1>6 DEF QuietInv, Accepted

\* A callback has the client as its argument only while it is registered so.
LEMMA ReportFacts ==
    ASSUME NEW d \in Clients, NEW e \in Events, NEW n \in Nat, Report(e, d, n)
    PROVE  /\ ~lwip'.first /\ lwip'.event \in {e, "none"} /\ lwip'.no \in {n, 0} /\ lwip'.client \in {d, NoClient}
           /\ lwip'.client = d => registered[d] = "client" /\ lwip'.event = e /\ lwip'.no = n
           /\ lwip'.client # d => lwip'.no = 0
<1>1. d # NoClient
  BY AsyncAssumption
<1>2. CASE registered[d] = "client"
  BY <1>1, <1>2 DEF Report, Packet
<1>3. CASE registered[d] = "null"
  BY <1>1, <1>3 DEF Report, Packet
<1>4. CASE registered[d] \notin {"client", "null"}
  BY <1>1, <1>4 DEF Report, Packet, NoPacket
<1> QED
  BY <1>2, <1>3, <1>4

\* What lwIP reports of a client comes after all there is of it; an end of an
\* accepted one is not among that, or lwIP would not report any more.
LEMMA ReportsNumbers ==
    ASSUME NEW O, CoreInv, QuietInv(O), NEW d \in Clients, NEW e \in Events \ {"ACCEPT", "CLEAR"},
           \/ Numbered(e, d) /\ ~Early(d)'
           \/ Report(e, d, 0) /\ number' = number /\ tcp' = tcp,
           e = "CONNECTED" => number[d] = 0,
           tcp[d] \notin {"none", "freed"}, Held' = Held, UNCHANGED <<seen, life>>,
           \A c \in Clients : c # d => tcp'[c] = tcp[c]
    PROVE  NumbersInv(O)'
<1>0. /\ NumbersInv(O) /\ seen \in [Clients -> Nat] /\ number \in [Clients -> Nat] /\ d # NoClient
      /\ \A h \in Pending : h.no \in Nat
  BY AsyncAssumption, PendingTypes DEF QuietInv, CoreInv, OrderTypes, AsyncInv, WorkTypes
<1>1. PICK n \in Nat :
         /\ Report(e, d, n) /\ (n = 0 \/ n = number[d] + 1)
         /\ \/ number' = number /\ tcp' = tcp /\ n = 0
            \/ number' = [number EXCEPT ![d] = n] /\ n = number[d] + 1 /\ ~Early(d)'
  BY <1>0 DEF Numbered
<1>2. /\ ~lwip'.first /\ lwip'.event \in {e, "none"} /\ lwip'.no \in {n, 0} /\ lwip'.client \in {d, NoClient}
      /\ lwip'.client = d => registered[d] = "client" /\ lwip'.event = e /\ lwip'.no = n
      /\ lwip'.client # d => lwip'.no = 0
  BY <1>1, ReportFacts
<1>3. ASSUME NEW h \in Held, lwip'.client = d, h.client = d
      PROVE  MayPrecede(h, lwip', O)
  <2>1. h \in Of(d, Pending) /\ (h.no > 0 => h.no <= number[d])
    BY <1>0, <1>3 DEF NumbersInv, Pending, Of
  <2>2. d \in Accepted(O) => h.event \notin {"ERROR", "FIN"}
    BY <1>2, <1>3, <2>1 DEF QuietInv, ClientInv, PacketInv, ConnectionInv
  <2>3. h.no > 0 /\ lwip'.no > 0 => h.no < lwip'.no
    <3>1. h.no \in Nat /\ (lwip'.no = 0 \/ lwip'.no = number[d] + 1) /\ number[d] \in Nat
      BY <1>0, <1>1, <1>2, <1>3 DEF Pending
    <3> QED
      BY <2>1, <3>1
  <2>4. lwip'.event \notin {"ACCEPT", "CLEAR"}
    BY <1>2, <1>3
  <2> QED
    BY <1>0, <1>3, <2>2, <2>3, <2>4 DEF MayPrecede, Accepted
<1>4. \A h \in Held' : MayPrecede(h, lwip', O)
  <2>1. \A h \in Held : h.client = lwip'.client /\ h.client # NoClient => lwip'.client = d
    BY <1>2
  <2> QED
    BY <1>3, <2>1 DEF MayPrecede
<1>5. lwip'.event \in {"ACCEPT", "CONNECTED"} => lwip'.no <= 1
  BY <1>0, <1>1, <1>2
<1>6. \A h \in Pending' : h \in Pending \/ h = What(lwip)'
  BY DEF Pending
<1>7. ASSUME NEW h \in Pending', h.no > 0
      PROVE  h.client \in Clients /\ seen[h.client] < h.no /\ h.no <= number'[h.client]
  <2>1. CASE h \in Pending
    <3>1. h.client \in Clients /\ seen[h.client] < h.no /\ h.no <= number[h.client] /\ h.no \in Nat
      BY <1>0, <1>7, <2>1 DEF NumbersInv
    <3>2. number'[h.client] \in {number[h.client], number[h.client] + 1}
      BY <1>0, <1>1, <3>1
    <3> QED
      BY <1>0, <3>1, <3>2
  <2>2. CASE h = What(lwip)'
    <3>1. h.client = d /\ h.no = n /\ n = number[d] + 1 /\ number'[d] = n
      BY <1>0, <1>1, <1>2, <1>7, <2>2 DEF What
    <3> QED
      BY <1>0, <3>1 DEF NumbersInv
  <2> QED
    BY <1>6, <2>1, <2>2
<1>8. ASSUME NEW c \in Clients
      PROVE  /\ seen[c] <= number'[c] /\ (Early(c)' => number'[c] = 0)
             /\ life[c] = "none" => tcp'[c] = "none" /\ Of(c, Pending)' = {}
  <2>1. CASE c = d
    <3>1. life[d] # "none"
      BY <1>0 DEF NumbersInv
    <3> QED
      BY <1>0, <1>1, <2>1, <3>1 DEF NumbersInv, Early
  <2>2. CASE c # d
    <3>1. number'[c] = number[c] /\ tcp'[c] = tcp[c]
      BY <1>0, <1>1, <2>2
    <3>2. What(lwip)'.client # c
      BY <1>2, <2>2, AsyncAssumption DEF What
    <3> QED
      BY <1>0, <1>6, <2>2, <3>1, <3>2 DEF NumbersInv, Early, Of
  <2> QED
    BY <2>1, <2>2
<1> QED
  BY <1>2, <1>4, <1>5, <1>7, <1>8 DEF NumbersInv

-----------------------------------------------------------------------------
(* The network.                                                            *)

\* A report of lwIP's does not touch the other clients.
LEMMA NetworkElsewhere ==
    ASSUME NEW O, CoreInv, QuietInv(O), NEW d \in Clients,
           Accept(d) \/ Connected(d) \/ Poll(d) \/ Transfer(d) \/ Fin(d) \/ Error(d) \/ DnsFound(d)
    PROVE  /\ QueueInv(O)' /\ Held' = Held /\ misused' = misused
           /\ lwip = NoPacket /\ lwip'.client \in {d, NoClient}
           /\ UNCHANGED <<queue, task, call, sweep, seen>>
           /\ \A c \in Accepted(O) : c # d => ClientInv(c)'
<1>0. /\ UNCHANGED <<queue, task, sweep, call, seen, misused>> /\ lwip = NoPacket
  BY DEF Accept, Connected, Poll, Transfer, Fin, Error, DnsFound, taskVars, history, LwipFree
<1>1. QueueInv(O)' /\ Held' = Held
  BY <1>0, SameKeepsOrder DEF QuietInv
<1>2. lwip'.client \in {d, NoClient}
  <2>1. CASE \E e \in Events, n \in Nat : Report(e, d, n)
    BY <2>1, ReportFacts
  <2>2. CASE Accept(d) \/ DnsFound(d)
    BY <2>2 DEF Accept, DnsFound, Packet
  <2>3. CASE Connected(d) \/ Transfer(d) \/ Fin(d) \/ Error(d)
    <3>1. \E e \in Events : Numbered(e, d)
      BY <2>3 DEF Connected, Transfer, Fin, Error, Events
    <3>2. number[d] + 1 \in Nat
      BY DEF CoreInv, AsyncInv, WorkTypes
    <3> QED
      BY <2>1, <3>1, <3>2 DEF Numbered
  <2>4. CASE Poll(d)
    BY <2>1, <2>4 DEF Poll, Events
  <2> QED
    BY <2>2, <2>3, <2>4
<1>3. /\ life \in [Clients -> {"none", "live", "deleted"}] /\ pcb \in [Clients -> BOOLEAN]
      /\ registered \in [Clients -> {"client", "null", "removed"}]
      /\ slot \in [Clients -> Slots \cup {NoSlot}]
      /\ tcp \in [Clients -> {"none", "new", "resolving", "connecting", "open", "halfClosed", "ended", "freed", "closed"}]
  BY DEF CoreInv, AsyncInv, SlotInv, SlotTypes, OrderTypes
<1>4. ASSUME NEW c \in Accepted(O), c # d PROVE ClientInv(c)'
  <2>1. ClientInv(c) /\ c # NoClient /\ c \in Clients
    BY AsyncAssumption DEF QuietInv, Accepted
  <2>2. /\ tcp'[c] = tcp[c] /\ registered'[c] = registered[c] /\ pcb'[c] = pcb[c]
        /\ life'[c] = life[c] /\ slot'[c] = slot[c]
    BY <1>3, <1>4, <2>1 DEF Accept, Connected, Poll, Transfer, Fin, Error, DnsFound,
         AllocateClosedSlot, FreeClosedSlot, slotVars
  <2>3. lwip.client # c /\ lwip'.client # c
    BY <1>0, <1>2, <1>4, <2>1 DEF NoPacket, Packet
  <2> QED
    BY <1>0, <1>1, <2>1, <2>2, <2>3, Elsewhere DEF Of
<1> QED
  BY <1>0, <1>1, <1>2, <1>4

\* A report of a known connection takes the next number.
LEMMA NetworkNumbers ==
    ASSUME NEW O, CoreInv, QuietInv(O), NEW d \in Clients,
           Connected(d) \/ Poll(d) \/ Transfer(d) \/ Fin(d) \/ Error(d)
    PROVE  NumbersInv(O)'
<1>0. /\ Held' = Held /\ UNCHANGED <<seen, life>>
      /\ tcp \in [Clients -> {"none", "new", "resolving", "connecting", "open", "halfClosed", "ended", "freed", "closed"}]
  BY NetworkElsewhere DEF Connected, Poll, Transfer, Fin, Error, CoreInv, OrderTypes
<1>1. tcp[d] \notin {"none", "freed"} /\ \A c \in Clients : c # d => tcp'[c] = tcp[c]
  BY <1>0 DEF Connected, Poll, Transfer, Fin, Error
<1>2. CASE Connected(d)
  <2>1. Numbered("CONNECTED", d) /\ ~Early(d)' /\ number[d] = 0
    BY <1>0, <1>2 DEF Connected, Early, QuietInv, NumbersInv
  <2> QED
    BY <1>0, <1>1, <2>1, ReportsNumbers DEF Events
<1>3. CASE Poll(d)
  <2>1. Report("POLL", d, 0) /\ number' = number /\ tcp' = tcp
    BY <1>3 DEF Poll
  <2> QED
    BY <1>0, <1>1, <2>1, ReportsNumbers DEF Events
<1>4. CASE Transfer(d) \/ Fin(d) \/ Error(d)
  <2>1. ~Early(d)' /\ \E e \in {"RECV", "SENT", "FIN", "ERROR"} : Numbered(e, d)
    BY <1>0, <1>4 DEF Transfer, Fin, Error, Early
  <2> QED
    BY <1>0, <1>1, <2>1, ReportsNumbers DEF Events
<1> QED
  BY <1>2, <1>3, <1>4

\* Data, a poll or an error of an accepted connection
LEMMA ReportClient ==
    ASSUME NEW O, CoreInv, QuietInv(O), NEW d \in Accepted(O), Poll(d) \/ Transfer(d) \/ Error(d)
    PROVE  ClientInv(d)'
<1>0. /\ ClientInv(d) /\ d \in Clients /\ d # NoClient
      /\ tcp \in [Clients -> {"none", "new", "resolving", "connecting", "open", "halfClosed", "ended", "freed", "closed"}]
  BY AsyncAssumption DEF QuietInv, Accepted, CoreInv, OrderTypes
<1>1. Held' = Held /\ lwip = NoPacket /\ UNCHANGED <<task, call>>
  BY <1>0, NetworkElsewhere
<1>2. /\ UNCHANGED <<life, pcb, slot, registered>>
      /\ tcp'[d] = tcp[d] \/ (tcp[d] = "open" /\ tcp'[d] = "freed")
      /\ tcp[d] = "open" \/ (tcp[d] = "ended" /\ Poll(d))
  BY <1>0 DEF Poll, Transfer, Error, slotVars, ClientInv, ConnectionInv
<1>3. PICK e \in {"POLL", "RECV", "SENT", "ERROR"} :
         (e = "ERROR" => tcp'[d] = "freed") /\ \E n \in Nat : Report(e, d, n)
  <2>1. number[d] + 1 \in Nat
    BY <1>0 DEF CoreInv, AsyncInv, WorkTypes
  <2>2. CASE Poll(d)
    BY <2>2 DEF Poll
  <2>3. CASE Transfer(d)
    BY <2>1, <2>3 DEF Transfer, Numbered
  <2>4. CASE Error(d)
    BY <1>0, <2>1, <2>4 DEF Error, Numbered
  <2> QED
    BY <2>2, <2>3, <2>4
<1>4. /\ lwip'.client \in {d, NoClient} /\ lwip'.event \in {e, "none"}
      /\ lwip'.client = d => registered[d] = "client" /\ lwip'.event = e
  BY <1>0, <1>3, ReportFacts DEF Events
<1>5. lwip'.client = d => tcp[d] = "open"
  BY <1>0, <1>2, <1>4 DEF ClientInv, ConnectionInv
<1>6. ConnectionInv(d)'
  BY <1>0, <1>1, <1>2 DEF ClientInv, ConnectionInv, Silent, Working
<1>7. PacketInv(d)'
  <2>1. \A h \in Of(d, Pending)' : h \in Of(d, Pending) \/ h.event = e
    BY <1>1, <1>4 DEF Of, Pending, What
  <2>2. \A h \in Of(d, Pending) : /\ h.event = "ERROR" => tcp[d] = "freed"
                                  /\ h.event = "FIN" => tcp[d] = "ended"
    BY <1>0 DEF ClientInv, PacketInv
  <2>3. \A h \in Of(d, Pending)' :
          /\ h.event \notin {"DNS", "NODNS", "CONNECTED"}
          /\ h.event = "ERROR" => tcp'[d] = "freed"
          /\ h.event = "FIN" => tcp'[d] = "ended"
          /\ h.event = "ACCEPT" => life'[d] = "live" /\ ~Working(d)'
    BY <1>0, <1>1, <1>2, <1>3, <2>1, <2>2 DEF ClientInv, PacketInv, Working
  <2> QED
    BY <1>4, <2>3 DEF PacketInv
<1>8. CloseInv(d)'
  <2>1. /\ Working(d)' <=> Working(d)
        /\ Closing(d)' <=> Closing(d)
        /\ OnlyClear(d)' <=> OnlyClear(d)
        /\ SomeClear(d)' <=> SomeClear(d)
        /\ Silent(d) => Silent(d)'
    BY <1>1, <1>2 DEF Working, Closing, OnlyClear, SomeClear, Of, Silent
  <2>2. life[d] = "deleted" => lwip'.client # d
    BY <1>0, <1>4, <1>5 DEF ClientInv, ConnectionInv, Silent
  <2>3. life[d] = "deleted" => Covered(d)'
    BY <1>0, <1>1, <2>1, <2>2 DEF ClientInv, CloseInv, Covered, Sweeping
  <2>4. Closing(d) => lwip'.client # d
    BY <1>0, <1>4 DEF ClientInv, CloseInv
  <2>5. Working(d) /\ task["service"].at \in {"finClear", "goodbye"} => tcp'[d] = "ended" /\ lwip'.client # d
    BY <1>0, <1>2, <1>5 DEF ClientInv, CloseInv
  <2> QED
    BY <1>0, <1>1, <1>2, <2>1, <2>3, <2>4, <2>5 DEF ClientInv, CloseInv
<1> QED
  BY <1>6, <1>7, <1>8 DEF ClientInv

\* The peer of an accepted connection closes, and not in the middle of _close():
\* the client is alive, and lwIP has no more to say of it.
LEMMA FinClient ==
    ASSUME NEW O, CoreInv, QuietInv(O), NEW d \in Accepted(O), Fin(d), ~Exposes(d)'
    PROVE  ClientInv(d)'
<1>0. /\ ClientInv(d) /\ d \in Clients /\ d # NoClient /\ pcb[d] /\ tcp[d] = "open" /\ registered[d] = "client"
      /\ tcp \in [Clients -> {"none", "new", "resolving", "connecting", "open", "halfClosed", "ended", "freed", "closed"}]
      /\ pcb \in [Clients -> BOOLEAN] /\ registered \in [Clients -> {"client", "null", "removed"}]
  BY AsyncAssumption DEF QuietInv, Accepted, CoreInv, OrderTypes, Fin, ClientInv, ConnectionInv
<1>1. Held' = Held /\ lwip = NoPacket /\ UNCHANGED <<task, call>>
  BY <1>0, NetworkElsewhere
<1>2. life' = life /\ tcp'[d] = "ended" /\ registered'[d] = "null" /\ pcb'[d] = FALSE
  BY <1>0 DEF Fin
<1>3. lwip'.client = d /\ lwip'.event = "FIN"
  BY <1>0 DEF Fin, Numbered, Report, Packet
<1>4. life[d] # "deleted" /\ ~Closing(d)
  BY <1>0 DEF ClientInv, ConnectionInv, CloseInv, Silent
<1>5. ConnectionInv(d)'
  BY <1>1, <1>2, <1>4 DEF ConnectionInv
<1>6. PacketInv(d)'
  <2>1. \A h \in Of(d, Pending)' : h \in Of(d, Pending) \/ h.event = "FIN"
    BY <1>1, <1>3 DEF Of, Pending, What
  <2> QED
    BY <1>0, <1>1, <1>2, <1>3, <2>1 DEF ClientInv, PacketInv, Working
<1>7. CloseInv(d)'
  <2>1. ~(Working(d) /\ task["service"].at = "unregister")
    BY <1>1, <1>2 DEF Exposes, Working, Tasks
  <2> QED
    BY <1>0, <1>1, <1>2, <1>4, <2>1 DEF ClientInv, CloseInv, Working, Closing, Silent
<1> QED
  BY <1>5, <1>6, <1>7 DEF ClientInv

\* A new connection of a server: nothing has been said of its client before.
LEMMA AcceptFacts ==
    ASSUME NEW O, CoreInv, QuietInv(O), NEW d \in Clients, life[d] = "none"
    PROVE  /\ tcp[d] = "none" /\ Of(d, Pending) = {} /\ number[d] = 0 /\ seen[d] = 0
           /\ ~Working(d) /\ ~(call["service"].c = d /\ call["service"].op # "none")
<1>0. /\ NumbersInv(O) /\ TaskInv(O) /\ seen \in [Clients -> Nat] /\ number \in [Clients -> Nat] /\ "service" \in Tasks
  BY DEF QuietInv, CoreInv, OrderTypes, AsyncInv, WorkTypes, Tasks
<1>1. tcp[d] = "none" /\ Of(d, Pending) = {}
  BY <1>0 DEF NumbersInv
<1>2. number[d] = 0 /\ seen[d] <= number[d]
  BY <1>0, <1>1 DEF NumbersInv, Early
<1>3. ~Working(d) /\ ~(call["service"].c = d /\ call["service"].op # "none")
  BY <1>0 DEF TaskInv, Working
<1> QED
  BY <1>0, <1>1, <1>2, <1>3

\* The client of a new connection has nothing but its ACCEPT.
LEMMA AcceptClient ==
    ASSUME NEW O, CoreInv, QuietInv(O), NEW d \in Accepted(O), Accept(d)
    PROVE  ClientInv(d)'
<1>0. /\ d \in Clients /\ d # NoClient /\ life[d] = "none"
      /\ life \in [Clients -> {"none", "live", "deleted"}] /\ pcb \in [Clients -> BOOLEAN]
      /\ registered \in [Clients -> {"client", "null", "removed"}]
      /\ tcp \in [Clients -> {"none", "new", "resolving", "connecting", "open", "halfClosed", "ended", "freed", "closed"}]
  BY AsyncAssumption DEF CoreInv, AsyncInv, SlotInv, SlotTypes, OrderTypes, Accepted, Accept
<1>1. /\ Of(d, Pending) = {} /\ ~Working(d) /\ ~(call["service"].c = d /\ call["service"].op # "none")
  BY <1>0, AcceptFacts
<1>2. Held' = Held /\ UNCHANGED <<task, call>>
  BY <1>0, NetworkElsewhere
<1>3. /\ life'[d] = "live" /\ pcb'[d] = TRUE /\ tcp'[d] = "open" /\ registered'[d] = "client"
      /\ lwip'.client = d /\ lwip'.event = "ACCEPT"
  BY <1>0 DEF Accept, Packet
<1>4. ~Working(d)' /\ ~(call'["service"].c = d /\ call'["service"].op # "none")
  BY <1>1, <1>2 DEF Working
<1>5. Of(d, Held)' = {} /\ \A p \in Of(d, Pending)' : p.event = "ACCEPT"
  BY <1>1, <1>2, <1>3 DEF Of, Pending, What
<1>6. ConnectionInv(d)'
  BY <1>3 DEF ConnectionInv
<1>7. PacketInv(d)'
  BY <1>3, <1>4, <1>5 DEF PacketInv
<1>8. CloseInv(d)'
  BY <1>3, <1>4 DEF CloseInv, Closing
<1> QED
  BY <1>6, <1>7, <1>8 DEF ClientInv

\* A new connection begins with number one, a name has none.
LEMMA NewNumbers ==
    ASSUME NEW O, CoreInv, QuietInv(O), NEW d \in Clients, Accept(d) \/ DnsFound(d)
    PROVE  NumbersInv(O)'
<1>0. /\ NumbersInv(O) /\ TaskInv(O) /\ Held' = Held /\ UNCHANGED <<seen>> /\ d # NoClient
      /\ life \in [Clients -> {"none", "live", "deleted"}] /\ number \in [Clients -> Nat]
      /\ tcp \in [Clients -> {"none", "new", "resolving", "connecting", "open", "halfClosed", "ended", "freed", "closed"}]
  BY NetworkElsewhere, AsyncAssumption DEF QuietInv, CoreInv, AsyncInv, SlotInv, SlotTypes, WorkTypes, OrderTypes
<1>1. CASE Accept(d)
  <2>1. /\ number' = [number EXCEPT ![d] = 1] /\ tcp' = [tcp EXCEPT ![d] = "open"] /\ life' = [life EXCEPT ![d] = "live"]
        /\ lwip' = Packet("ACCEPT", d, 1) /\ life[d] = "none"
    BY <1>1 DEF Accept
  <2>2. Of(d, Pending) = {} /\ seen[d] = 0
    BY <2>1, AcceptFacts
  <2>3. lwip'.event = "ACCEPT" /\ lwip'.client = d /\ lwip'.no = 1 /\ ~lwip'.first
    BY <2>1 DEF Packet
  <2>4. \A h \in Held : h.client # d
    BY <2>2 DEF Of, Pending
  <2>5. \A h \in Held' : MayPrecede(h, lwip', O)
    BY <1>0, <2>3, <2>4 DEF MayPrecede
  <2>6. \A h \in Pending' : (h \in Pending /\ h.client # d) \/ (h.client = d /\ h.no = 1)
    BY <1>0, <2>3, <2>4 DEF Pending, What
  <2>7. ASSUME NEW c \in Clients, c # d PROVE Of(c, Pending)' \subseteq Of(c, Pending)
    BY <2>6, <2>7 DEF Of
  <2>8. ASSUME NEW c \in Clients
        PROVE  /\ seen[c] <= number'[c] /\ (Early(c)' => number'[c] = 0)
               /\ life'[c] = "none" => tcp'[c] = "none" /\ Of(c, Pending)' = {}
    BY <1>0, <2>1, <2>2, <2>7 DEF NumbersInv, Early
  <2>9. \A h \in Pending' : h.no > 0 => /\ h.client \in Clients
                                        /\ seen[h.client] < h.no /\ h.no <= number'[h.client]
    BY <1>0, <2>1, <2>2, <2>6 DEF NumbersInv
  <2> QED
    BY <1>0, <2>3, <2>5, <2>8, <2>9 DEF NumbersInv
<1>2. CASE DnsFound(d)
  <2>1. /\ number' = number /\ tcp' = [tcp EXCEPT ![d] = "none"] /\ life' = life /\ tcp[d] = "resolving"
        /\ \E e \in {"DNS", "NODNS"} : lwip' = Packet(e, d, 0)
    BY <1>2 DEF DnsFound
  <2>2. d \in O /\ life[d] # "none"
    BY <1>0, <2>1 DEF TaskInv, NumbersInv
  <2>3. lwip'.event \in {"DNS", "NODNS"} /\ lwip'.client = d /\ lwip'.no = 0 /\ ~lwip'.first
    BY <2>1 DEF Packet
  <2>4. \A h \in Held' : MayPrecede(h, lwip', O)
    BY <2>2, <2>3 DEF MayPrecede
  <2>5. \A h \in Pending' : h \in Pending \/ (h.client = d /\ h.no = 0)
    BY <1>0, <2>3 DEF Pending, What
  <2>6. ASSUME NEW c \in Clients
        PROVE  /\ seen[c] <= number'[c] /\ (Early(c)' => number'[c] = 0)
               /\ life'[c] = "none" => tcp'[c] = "none" /\ Of(c, Pending)' = {}
    BY <1>0, <2>1, <2>2, <2>5 DEF NumbersInv, Early, Of
  <2> QED
    BY <1>0, <2>1, <2>3, <2>4, <2>5, <2>6 DEF NumbersInv
<1> QED
  BY <1>1, <1>2

\* Whatever comes from the network keeps the order.
LEMMA NetworkQuiet ==
    ASSUME NEW O, CoreInv, QuietInv(O), misused = {}, Network,
           \A c \in Clients : Exposes(c)' => c \in O
    PROVE  QuietInv(O)' /\ misused' \subseteq O
<1>1. PICK d \in Clients :
         Accept(d) \/ Connected(d) \/ Poll(d) \/ Transfer(d) \/ Fin(d) \/ Error(d) \/ DnsFound(d)
  BY DEF Network
<1>2. /\ QueueInv(O)' /\ misused' = misused /\ UNCHANGED <<task, call>>
      /\ \A c \in Accepted(O) : c # d => ClientInv(c)'
  BY <1>1, NetworkElsewhere
<1>3. NumbersInv(O)'
  BY <1>1, NetworkNumbers, NewNumbers
<1>4. TaskInv(O)'
  <2>1. TaskInv(O) /\ \A t \in Tasks : task[t].at # "idle" => task[t].c \in Clients
    BY BusyTask DEF QuietInv, CoreInv
  <2>2. \A c \in Clients : (life[c] # "none" => life'[c] # "none") /\ (tcp'[c] = "resolving" => tcp[c] = "resolving")
    <3>1. /\ life \in [Clients -> {"none", "live", "deleted"}]
          /\ tcp \in [Clients -> {"none", "new", "resolving", "connecting", "open", "halfClosed", "ended", "freed", "closed"}]
      BY DEF CoreInv, AsyncInv, SlotInv, SlotTypes, OrderTypes
    <3> QED
      BY <1>1, <3>1 DEF Accept, Connected, Poll, Transfer, Fin, Error, DnsFound
  <2> QED
    BY <1>2, <2>1, <2>2 DEF TaskInv
<1>5. ASSUME d \in Accepted(O) PROVE ClientInv(d)'
  <2>1. tcp[d] \notin {"connecting", "resolving"}
    BY <1>5 DEF QuietInv, ClientInv, ConnectionInv
  <2> QED
    BY <1>1, <1>5, <2>1, AcceptClient, ReportClient, FinClient DEF Connected, DnsFound, Accepted
<1> QED
  BY <1>2, <1>3, <1>4, <1>5 DEF QuietInv, Accepted

-----------------------------------------------------------------------------
(* lwIP's thread serves a call.                                            *)

\* A call is that of a waiting task, on its client.
LEMMA ServeFacts ==
    ASSUME NEW O, CoreInv, QuietInv(O), NEW t \in Tasks, Serve(t)
    PROVE  /\ call[t].c \in Clients /\ call[t].op \in Ops \ {"none"}
           /\ task[t].at = "wait" /\ task[t].c = call[t].c /\ task[t].op = call[t].op
           /\ life[call[t].c] # "none"
           /\ call' = [call EXCEPT ![t] = NoCall] /\ lwip = NoPacket
           /\ UNCHANGED <<queue, life, closedSlots, closedIndex, slot, registered, reported, sweep, seen, told, mixed, misused>>
           /\ \A ok \in BOOLEAN : LET s == After(call[t].op, call[t].c, ok) IN
                 /\ s.at \notin {"removing", "putBack"} /\ s.c \in {call[t].c, NoClient}
                 /\ s.at # "idle" => s.c = call[t].c
<1>0. /\ TaskInv(O) /\ Serve(t)
      /\ call \in [Tasks -> {NoCall} \cup [op : Ops, c : Clients, slot : Slots \cup {NoSlot}]]
  BY DEF QuietInv, CoreInv, AsyncInv, WorkTypes
<1>1. /\ call[t].op # "none" /\ lwip = NoPacket /\ call' = [call EXCEPT ![t] = NoCall]
      /\ UNCHANGED <<queue, life, closedSlots, closedIndex, slot, registered, reported, sweep, seen, told, mixed, misused>>
  BY <1>0 DEF Serve, LwipFree, slotVars, history
<1>2. call[t].c \in Clients /\ call[t].op \in Ops
  BY <1>0, <1>1 DEF NoCall
<1>3. task[t].at = "wait" /\ task[t].c = call[t].c /\ task[t].op = call[t].op /\ life[call[t].c] # "none"
  BY <1>0, <1>1 DEF TaskInv
<1>4. ASSUME NEW ok \in BOOLEAN
      PROVE  LET s == After(call[t].op, call[t].c, ok) IN
                 /\ s.at \notin {"removing", "putBack"} /\ s.c \in {call[t].c, NoClient}
                 /\ s.at # "idle" => s.c = call[t].c
  BY DEF After, Idle
<1> QED
  BY <1>1, <1>2, <1>3, <1>4

\* A call on one client does not touch the others.
LEMMA ServeElsewhere ==
    ASSUME NEW O, CoreInv, QuietInv(O), NEW t \in Tasks, Serve(t)
    PROVE  /\ QueueInv(O)' /\ Held' = Held
           /\ \A c \in Accepted(O) : t = "loop" \/ call[t].c # c => ClientInv(c)'
<1> DEFINE d == call[t].c
<1>0. /\ task \in [Tasks -> {Idle} \cup Work] /\ "service" \in Tasks /\ "loop" \in Tasks /\ t \in {"service", "loop"}
      /\ call \in [Tasks -> {NoCall} \cup [op : Ops, c : Clients, slot : Slots \cup {NoSlot}]]
      /\ pcb \in [Clients -> BOOLEAN]
      /\ tcp \in [Clients -> {"none", "new", "resolving", "connecting", "open", "halfClosed", "ended", "freed", "closed"}]
      /\ number \in [Clients -> Nat]
  BY DEF CoreInv, AsyncInv, WorkTypes, OrderTypes, Tasks
<1>1. /\ d \in Clients /\ task[t].at = "wait" /\ task[t].c = d
      /\ call' = [call EXCEPT ![t] = NoCall] /\ lwip = NoPacket
      /\ UNCHANGED <<queue, life, slot, registered, sweep>>
  BY ServeFacts
<1>2. PICK s \in {Idle} \cup Work :
         task' = [task EXCEPT ![t] = s] /\ s.at \notin {"removing", "putBack"} /\ s.c \in {d, NoClient}
  <2>1. PICK ok \in BOOLEAN : task' = [task EXCEPT ![t] = After(call[t].op, d, ok)]
    BY DEF Serve
  <2>2. After(call[t].op, d, ok) \in {Idle} \cup Work
    BY <1>1, ServeFacts, AfterTypes
  <2>3. After(call[t].op, d, ok).at \notin {"removing", "putBack"} /\ After(call[t].op, d, ok).c \in {d, NoClient}
    BY ServeFacts
  <2> QED
    BY <2>1, <2>2, <2>3
<1>3. (~Sweeping /\ ~Sweeping') \/ task'["service"] = task["service"]
  BY <1>0, <1>1, <1>2 DEF Sweeping
<1>4. QueueInv(O)' /\ Held' = Held
  BY <1>1, <1>3, SameKeepsOrder DEF QuietInv
<1>5. lwip' = lwip \/ lwip'.client \in {d, NoClient}
  <2>1. number[d] + 1 \in Nat
    BY <1>0, <1>1
  <2>2. Numbered("ERROR", d) => lwip'.client \in {d, NoClient}
    BY <1>1, <2>1, ReportFacts DEF Numbered, Events
  <2> QED
    BY <2>2 DEF Serve
<1>6. ASSUME NEW c \in Accepted(O), t = "loop" \/ d # c PROVE ClientInv(c)'
  <2>1. ClientInv(c) /\ c # NoClient /\ c \in Clients
    BY AsyncAssumption DEF QuietInv, Accepted
  <2>2. d # c
    BY <1>1, <1>6 DEF QuietInv, TaskInv, Accepted
  <2>3. tcp'[c] = tcp[c] /\ pcb'[c] = pcb[c]
    BY <1>0, <1>1, <2>1, <2>2 DEF Serve
  <2>4. lwip' = lwip \/ (lwip.client # c /\ lwip'.client # c)
    BY <1>1, <1>5, <2>1, <2>2 DEF NoPacket, Packet
  <2>5. task'["service"] = task["service"] \/ (task["service"].c # c /\ task'["service"].c # c)
    BY <1>0, <1>1, <1>2, <2>1, <2>2
  <2>6. call'["service"] = call["service"] \/ call'["service"].op # "abort"
    BY <1>0, <1>1 DEF NoCall
  <2> QED
    BY <1>1, <1>4, <2>1, <2>3, <2>4, <2>5, <2>6, Elsewhere DEF Of
<1> QED
  BY <1>4, <1>6

\* A call that aborts a connection reports its last event.
LEMMA ServeNumbers ==
    ASSUME NEW O, CoreInv, QuietInv(O), NEW t \in Tasks, Serve(t)
    PROVE  NumbersInv(O)' /\ TaskInv(O)'
<1>d. PICK d \in Clients : d = call[t].c
  BY ServeFacts
<1>0. /\ task \in [Tasks -> {Idle} \cup Work] /\ NumbersInv(O) /\ TaskInv(O)
      /\ call \in [Tasks -> {NoCall} \cup [op : Ops, c : Clients, slot : Slots \cup {NoSlot}]]
      /\ tcp \in [Clients -> {"none", "new", "resolving", "connecting", "open", "halfClosed", "ended", "freed", "closed"}]
      /\ Held' = Held
  BY ServeElsewhere DEF QuietInv, CoreInv, AsyncInv, WorkTypes, OrderTypes
<1>1. /\ call[t].c = d /\ task[t].at = "wait" /\ task[t].c = d /\ life[d] # "none"
      /\ call' = [call EXCEPT ![t] = NoCall]
      /\ UNCHANGED <<life, seen>>
  BY <1>d, ServeFacts
<1>2. PICK ok \in BOOLEAN :
         /\ task' = [task EXCEPT ![t] = After(call[t].op, d, ok)]
         /\ \/ Alive(d) /\ tcp' = [tcp EXCEPT ![d] = "freed"] /\ Numbered("ERROR", d)
            \/ /\ UNCHANGED <<lwip, number>>
               /\ \/ tcp' = tcp
                  \/ tcp' = [tcp EXCEPT ![d] = "closed"]
                  \/ tcp[d] = "new" /\ tcp' = [tcp EXCEPT ![d] = "connecting"]
  BY <1>d DEF Serve
<1>3. NumbersInv(O)'
  <2>1. CASE Alive(d) /\ tcp' = [tcp EXCEPT ![d] = "freed"] /\ Numbered("ERROR", d)
    <3>1. ~Early(d)' /\ tcp[d] \notin {"none", "freed"} /\ \A c \in Clients : c # d => tcp'[c] = tcp[c]
      BY <1>0, <1>1, <2>1 DEF Alive, Early
    <3> QED
      BY <1>0, <1>1, <2>1, <3>1, ReportsNumbers DEF Events
  <2>2. CASE /\ UNCHANGED <<lwip, number>>
             /\ \/ tcp' = tcp
                \/ tcp' = [tcp EXCEPT ![d] = "closed"]
                \/ tcp[d] = "new" /\ tcp' = [tcp EXCEPT ![d] = "connecting"]
    <3>1. \A c \in Clients : /\ tcp'[c] = tcp[c] \/ ~Early(c)' \/ number[c] = 0
                             /\ life'[c] = "none" => life[c] = "none" /\ tcp'[c] = tcp[c]
      BY <1>0, <1>1, <2>2 DEF Early, NumbersInv
    <3> QED
      BY <1>0, <1>1, <2>2, <3>1, NumbersStay
  <2> QED
    BY <1>2, <2>1, <2>2
<1>4. TaskInv(O)'
  <2>1. \A r \in Tasks : r # t => task'[r] = task[r] /\ call'[r] = call[r]
    BY <1>0, <1>1, <1>2
  <2>2. task'[t].at # "idle" => task'[t].c = d
    <3>1. task'[t] = After(call[t].op, d, ok)
      BY <1>0, <1>2
    <3> QED
      BY <3>1 DEF After, Idle
  <2>3. call'[t].op = "none"
    BY <1>0, <1>1 DEF NoCall
  <2>4. \A c \in Clients : tcp'[c] = "resolving" => tcp[c] = "resolving"
    BY <1>0, <1>1, <1>2
  <2>5. \A r \in Tasks : task'[r].at # "idle" => task[r].at # "idle" /\ task'[r].c = task[r].c
    BY <1>1, <2>1, <2>2
  <2> QED
    BY <1>0, <1>1, <2>1, <2>3, <2>4, <2>5 DEF TaskInv, Tasks
<1> QED
  BY <1>3, <1>4

\* A call of the service task's on its own client: abort() ends the connection,
\* or lwIP had already done so, and close() is followed by abort() when it fails.
LEMMA ServeClient ==
    ASSUME NEW O, CoreInv, QuietInv(O), Serve("service"),
           NEW d \in Accepted(O), call["service"].c = d
    PROVE  ClientInv(d)'
<1> DEFINE op == call["service"].op
<1>0. /\ ClientInv(d) /\ d \in Clients /\ d # NoClient /\ "service" \in Tasks
      /\ task \in [Tasks -> {Idle} \cup Work]
      /\ call \in [Tasks -> {NoCall} \cup [op : Ops, c : Clients, slot : Slots \cup {NoSlot}]]
      /\ pcb \in [Clients -> BOOLEAN]
      /\ tcp \in [Clients -> {"none", "new", "resolving", "connecting", "open", "halfClosed", "ended", "freed", "closed"}]
      /\ number \in [Clients -> Nat] /\ slot \in [Clients -> Slots \cup {NoSlot}]
  BY AsyncAssumption DEF QuietInv, Accepted, CoreInv, OrderTypes, AsyncInv, WorkTypes, SlotInv, SlotTypes, Tasks
<1>1. /\ op # "none" /\ task["service"].at = "wait" /\ task["service"].c = d /\ task["service"].op = op
      /\ call' = [call EXCEPT !["service"] = NoCall] /\ lwip = NoPacket
      /\ UNCHANGED <<life, slot, registered>>
  BY <1>0, ServeFacts
<1>2. Working(d) /\ Held' = Held
  BY <1>0, <1>1, ServeElsewhere DEF Working
<1>3. life[d] = "live" /\ \A p \in Of(d, Pending) : p.event # "ACCEPT"
  BY <1>2, WorkingFacts
<1>4. PICK ok \in BOOLEAN :
         /\ op # "close" =>
               (ok <=> call["service"].slot \in {NoSlot} \cup {s \in Slots : closedSlots[s] = 0})
         /\ task' = [task EXCEPT !["service"] = After(op, d, ok)]
         /\ \/ ok /\ Alive(d) /\ op \in {"abort", "closeAbort"} /\ tcp' = [tcp EXCEPT ![d] = "freed"] /\ Numbered("ERROR", d)
            \/ op = "close" /\ Alive(d) /\ tcp' = [tcp EXCEPT ![d] = "closed"] /\ lwip' = lwip
            \/ tcp[d] = "new"
            \/ ~(ok /\ Alive(d) /\ op \in {"abort", "closeAbort"}) /\ tcp' = tcp /\ lwip' = lwip
         /\ pcb' = IF op = "abort" THEN [pcb EXCEPT ![d] = FALSE] ELSE pcb
  <2>1. PICK ok \in BOOLEAN :
          /\ ok => call["service"].slot \in {NoSlot} \cup {s \in Slots : closedSlots[s] = 0}
          /\ op # "close" => (ok = (call["service"].slot \in {NoSlot} \cup {s \in Slots : closedSlots[s] = 0}))
          /\ task' = [task EXCEPT !["service"] = After(op, d, ok)]
          /\ IF ok /\ Alive(d) /\ op \in {"abort", "closeAbort"}
             THEN /\ tcp' = [tcp EXCEPT ![d] = "freed"]
                  /\ Numbered("ERROR", d)
             ELSE /\ tcp' = CASE ok /\ Alive(d) /\ op = "close" -> [tcp EXCEPT ![d] = "closed"]
                              [] ok /\ op = "connect" /\ tcp[d] = "new" -> [tcp EXCEPT ![d] = "connecting"]
                              [] OTHER -> tcp
                  /\ UNCHANGED <<lwip, number>>
          /\ pcb' = IF op = "abort" THEN [pcb EXCEPT ![d] = FALSE] ELSE pcb
    BY Zenon DEF Serve
  <2> QED
    BY <2>1
<1>5. NoPacket.client # d /\ call'["service"].op = "none"
  BY <1>0, <1>1 DEF NoPacket, Packet, NoCall
<1>6. tcp[d] \in {"none", "open", "ended", "freed", "closed"}
  BY <1>0 DEF ClientInv, ConnectionInv
<1>7. Alive(d) <=> tcp[d] = "open"
  BY <1>6 DEF Alive
<1>8. task'["service"] = After(op, d, ok)
  BY <1>0, <1>4
<1>9. Idle.at = "idle"
  BY DEF Idle
\* What holds of the packets whatever the call was
<1>10. ASSUME tcp'[d] = tcp[d] \/ tcp[d] = "open", lwip' = lwip \/ (lwip'.event \in {"ERROR", "none"} /\ tcp'[d] = "freed")
       PROVE  PacketInv(d)'
  <2>1. \A p \in Of(d, Pending)' : p \in Of(d, Pending) \/ (p.event \in {"ERROR", "none"} /\ tcp'[d] = "freed")
    BY <1>2, <1>10 DEF Of, Pending, What
  <2>2. lwip'.client = d => lwip'.event \notin {"CLEAR", "ACCEPT"}
    BY <1>1, <1>5, <1>10
  <2>3. ASSUME NEW p \in Of(d, Pending)
        PROVE  /\ p.event \notin {"DNS", "NODNS", "CONNECTED", "ACCEPT"}
               /\ p.event = "ERROR" => tcp'[d] = "freed"
               /\ p.event = "FIN" => tcp'[d] = "ended"
    BY <1>0, <1>3, <1>10 DEF ClientInv, PacketInv
  <2> QED
    BY <2>1, <2>2, <2>3 DEF PacketInv
<1>11. Numbered("ERROR", d) => /\ lwip'.event \in {"ERROR", "none"}
                               /\ lwip'.client = d => registered[d] = "client"
  <2>1. number[d] + 1 \in Nat
    BY <1>0
  <2> QED
    BY <1>0, <2>1, ReportFacts DEF Numbered, Events
<1>12. CASE op = "abort"
  <2>1. ok \/ Silent(d)
    <3>1. Silent(d) \/ call["service"].slot = slot[d]
      BY <1>0, <1>12 DEF ClientInv, CloseInv
    <3>2. slot[d] \in {NoSlot} \cup {s \in Slots : closedSlots[s] = 0}
      BY <1>0, <1>3 DEF CoreInv, AsyncInv, SlotInv, SlotsAccounted, Holder
    <3> QED
      BY <1>4, <1>12, <3>1, <3>2
  <2>2. ~Working(d)'
    BY <1>8, <1>9, <1>12 DEF Working, After
  <2>3. /\ tcp'[d] = tcp[d] \/ (tcp[d] = "open" /\ tcp'[d] = "freed")
        /\ tcp'[d] = "open" => Silent(d)
        /\ lwip' = lwip \/ (lwip'.event \in {"ERROR", "none"} /\ tcp'[d] = "freed")
        /\ pcb'[d] = FALSE
    BY <1>0, <1>4, <1>6, <1>7, <1>11, <1>12, <2>1
  <2>4. ConnectionInv(d)'
    BY <1>0, <1>1, <1>3, <1>6, <2>3 DEF ClientInv, ConnectionInv, Silent
  <2>5. CloseInv(d)'
    BY <1>1, <1>3, <1>5, <2>2 DEF CloseInv, Closing
  <2> QED
    BY <1>10, <2>3, <2>4, <2>5 DEF ClientInv
<1>13. CASE op \in {"close", "closeAbort"}
  <2>1. Closing(d) /\ registered[d] = "removed" /\ pcb[d] /\ SomeClear(d)
    BY <1>0, <1>1, <1>2, <1>13 DEF Closing, ClientInv, CloseInv
  <2>2. /\ pcb' = pcb
        /\ tcp'[d] = tcp[d] \/ (tcp[d] = "open" /\ tcp'[d] \in {"freed", "closed"})
        /\ lwip' = lwip \/ (lwip'.event \in {"ERROR", "none"} /\ tcp'[d] = "freed" /\ lwip'.client # d)
    BY <1>0, <1>4, <1>6, <1>7, <1>11, <1>13, <2>1
  <2>3. lwip'.client # d
    BY <1>1, <1>5, <2>2
  <2>4. /\ task'["service"].at \notin {"clear", "finClear", "goodbye"} /\ task'["service"].op \in {"close", "closeAbort"}
    BY <1>8, <1>13 DEF After
  <2>5. ConnectionInv(d)'
    BY <1>0, <1>1, <1>3, <1>6, <2>1, <2>2 DEF ClientInv, ConnectionInv, Silent
  <2>6. SomeClear(d)'
    BY <1>2, <2>1 DEF SomeClear, Of
  <2>7. CloseInv(d)'
    BY <1>1, <1>3, <1>5, <2>1, <2>2, <2>3, <2>4, <2>6 DEF CloseInv, Closing
  <2> QED
    BY <1>10, <2>2, <2>5, <2>7 DEF ClientInv
<1>14. CASE op \notin {"abort", "close", "closeAbort"}
  <2>1. tcp' = tcp /\ lwip' = lwip /\ pcb' = pcb
    BY <1>4, <1>6, <1>14
  <2>2. task'["service"].at \in {"close", "idle"} /\ task'["service"].op \notin {"close", "closeAbort"}
    BY <1>8, <1>14 DEF After, Idle
  <2>3. ConnectionInv(d)'
    BY <1>0, <1>1, <1>3, <2>1 DEF ClientInv, ConnectionInv, Silent
  <2>4. CloseInv(d)'
    BY <1>1, <1>3, <1>5, <2>1, <2>2 DEF CloseInv, Closing
  <2> QED
    BY <1>10, <2>1, <2>3, <2>4 DEF ClientInv
<1> QED
  BY <1>12, <1>13, <1>14

\* Every call into lwIP keeps the order.
LEMMA ServeQuiet ==
    ASSUME NEW O, CoreInv, QuietInv(O), misused = {}, NEW t \in Tasks, Serve(t)
    PROVE  QuietInv(O)' /\ misused' \subseteq O
<1>1. misused' = misused /\ QueueInv(O)' /\ NumbersInv(O)' /\ TaskInv(O)'
  BY ServeFacts, ServeElsewhere, ServeNumbers
<1>2. ASSUME NEW c \in Accepted(O) PROVE ClientInv(c)'
  BY ServeElsewhere, ServeClient DEF Tasks
<1> QED
  BY <1>1, <1>2 DEF QuietInv, Accepted

-----------------------------------------------------------------------------
(* loop(), and all of it.                                                  *)

\* loop() calls only the clients it has connected itself.
LEMMA LoopQuiet ==
    ASSUME NEW O, CoreInv, QuietInv(O), misused = {}, Loop,
           \A c \in Clients : Exposes(c)' => c \in O
    PROVE  QuietInv(O)' /\ misused' \subseteq O
<1>1. PICK d \in Clients : LoopConnects(d) \/ LoopCallsClient(d)
  BY AsyncAssumption DEF Loop
<1>0. /\ QueueInv(O) /\ NumbersInv(O) /\ TaskInv(O) /\ task \in [Tasks -> {Idle} \cup Work]
      /\ life \in [Clients -> {"none", "live", "deleted"}]
      /\ registered \in [Clients -> {"client", "null", "removed"}]
      /\ tcp \in [Clients -> {"none", "new", "resolving", "connecting", "open", "halfClosed", "ended", "freed", "closed"}]
  BY <1>1 DEF CoreInv, QuietInv, Accepted, AsyncInv, WorkTypes, SlotInv, SlotTypes, OrderTypes
<1>2. /\ UNCHANGED <<queue, lwip, pcb, slot, number, sweep, call, seen, misused>>
      /\ task["loop"].at = "idle"
      /\ life[d] # "deleted" /\ life' = [life EXCEPT ![d] = "live"]
      /\ \/ tcp' = tcp
         \/ life[d] = "none" /\ tcp' \in {[tcp EXCEPT ![d] = "resolving"], [tcp EXCEPT ![d] = "new"]}
      /\ registered' = registered \/ registered' = [registered EXCEPT ![d] = "client"]
      /\ \/ task' = task
         \/ \E s \in [at : {"pcb", "slot"}, op : {"connect", "write", "abort", "ackClose"}, c : {d}] :
               task' = [task EXCEPT !["loop"] = s]
  <2>1. CASE LoopConnects(d)
    BY <1>0, <2>1 DEF LoopConnects, slotVars, history
  <2>2. CASE LoopCallsClient(d)
    <3>1. PICK s \in Starts(d, LoopCalls) \ {Idle} : task' = [task EXCEPT !["loop"] = s]
      BY <2>2 DEF LoopCallsClient
    <3>2. s \in [at : {"pcb", "slot"}, op : {"connect", "write", "abort", "ackClose"}, c : {d}]
      BY <3>1 DEF Starts
    <3>3. life' = [life EXCEPT ![d] = "live"]
      BY <1>0, <2>2 DEF LoopCallsClient
    <3> QED
      BY <2>2, <3>1, <3>2, <3>3 DEF LoopCallsClient, slotVars, lwipVars, history
  <2> QED
    BY <1>1, <2>1, <2>2
<1>8. d \in O
  <2>1. CASE LoopConnects(d)
    <3>1. tcp'[d] = "resolving" \/ task'["loop"] = [at |-> "slot", op |-> "connect", c |-> d]
      BY <1>0, <2>1 DEF LoopConnects, Tasks
    <3> QED
      BY <3>1 DEF Exposes
  <2>2. CASE LoopCallsClient(d)
    <3>1. PICK s \in Starts(d, LoopCalls) \ {Idle} : task' = [task EXCEPT !["loop"] = s]
      BY <2>2 DEF LoopCallsClient
    <3>2. s.c = d
      BY <3>1 DEF Starts
    <3>3. task'["loop"].c = d
      BY <1>0, <3>1, <3>2 DEF Tasks
    <3> QED
      BY <3>3 DEF Exposes
  <2> QED
    BY <1>1, <2>1, <2>2
<1>3. task'["service"] = task["service"]
  BY <1>0, <1>2 DEF Tasks
<1>4. QueueInv(O)' /\ Held' = Held
  BY <1>0, <1>2, <1>3, SameKeepsOrder
<1>5. NumbersInv(O)'
  <2>1. \A c \in Clients : /\ tcp'[c] = tcp[c] \/ ~Early(c)' \/ number[c] = 0
                           /\ life'[c] = "none" => life[c] = "none" /\ tcp'[c] = tcp[c]
    BY <1>0, <1>2 DEF NumbersInv, Early
  <2> QED
    BY <1>0, <1>2, <1>4, <2>1, NumbersStay
<1>6. TaskInv(O)'
  <2>1. \A t \in Tasks : call'[t].op # "none" => t # "loop" /\ task'[t] = task[t]
    BY <1>0, <1>2 DEF TaskInv, Tasks
  <2>2. task'["loop"].at # "idle" => task'["loop"].c = d
    BY <1>0, <1>2 DEF Tasks
  <2>3. \A c \in Clients : life[c] # "none" => life'[c] # "none"
    BY <1>0, <1>2
  <2>4. \A c \in Clients : tcp'[c] = "resolving" => tcp[c] = "resolving" \/ c = d
    BY <1>0, <1>2
  <2>5. \A t \in Tasks : task[t].at # "idle" => task[t].c \in Clients
    BY BusyTask DEF CoreInv
  <2>6. life'[d] # "none"
    BY <1>0, <1>2
  <2> QED
    BY <1>0, <1>2, <1>3, <1>8, <2>1, <2>2, <2>3, <2>4, <2>5, <2>6 DEF TaskInv, Tasks
<1>7. ASSUME NEW c \in Accepted(O) PROVE ClientInv(c)'
  <2>1. ClientInv(c) /\ c # d /\ c \in Clients
    BY <1>8 DEF QuietInv, Accepted
  <2>2. /\ tcp'[c] = tcp[c] /\ registered'[c] = registered[c] /\ life'[c] = life[c]
    BY <1>0, <1>2, <2>1
  <2> QED
    BY <1>2, <1>3, <1>4, <2>1, <2>2, Elsewhere DEF Of
<1> QED
  BY <1>2, <1>4, <1>5, <1>6, <1>7 DEF QuietInv, Accepted

\* The types of what the order is about
LEMMA TypesKept ==
    ASSUME CoreInv, [Next]_vars
    PROVE  OrderTypes'
<1>0. /\ seen \in [Clients -> Nat] /\ pcb \in [Clients -> BOOLEAN]
      /\ tcp \in [Clients -> {"none", "new", "resolving", "connecting", "open", "halfClosed", "ended", "freed", "closed"}]
      /\ registered \in [Clients -> {"client", "null", "removed"}]
      /\ sweep \in [started : BOOLEAN, packet : Packets]
      /\ mixed \in BOOLEAN /\ queue \in Seq(Packets)
  BY DEF CoreInv, OrderTypes, AsyncInv, WorkTypes
<1>1. CASE \E t \in Tasks : Step(t)
  BY <1>0, <1>1 DEF Step, ReadPcb, ReadSlot, TestPcb, Unregister, ClearEvents, Discard, Goodbye, OrderTypes,
       lwipVars, taskVars, history
<1>2. ASSUME queue # <<>> PROVE Head(queue) \in Packets /\ Head(queue).no \in Nat
  <2>1. Head(queue) \in Packets
    BY <1>0, <1>2
  <2> QED
    BY <2>1 DEF Packets
<1>3. CASE HandleNothing \/ HandleDns \/ HandleClear
  <2>1. NoSweep \in [started : BOOLEAN, packet : Packets]
    BY DEF NoSweep, NoPacket, Packet, Packets
  <2> QED
    BY <1>0, <1>3, <2>1 DEF HandleNothing, HandleDns, HandleClear, Goodbye, OrderTypes, lwipVars, taskVars, history
<1>4. CASE HandleCallback
  <2>1. queue # <<>> /\ seen' \in {seen, [seen EXCEPT ![Head(queue).client] = Head(queue).no]}
    BY <1>4 DEF HandleCallback, Take, Handled
  <2>2. pcb' \in [Clients -> BOOLEAN]
    BY <1>0, <1>4 DEF HandleCallback
  <2> QED
    BY <1>0, <1>2, <1>4, <2>1, <2>2 DEF HandleCallback, OrderTypes, lwipVars
<1>5. CASE HandleFin \/ HandleError
  <2>1. queue # <<>> /\ seen' \in {seen, [seen EXCEPT ![Head(queue).client] = Head(queue).no]}
    BY <1>5 DEF HandleFin, HandleError, Take, Handled
  <2>2. pcb' \in [Clients -> BOOLEAN] /\ registered' \in [Clients -> {"client", "null", "removed"}]
    BY <1>0, <1>5 DEF HandleFin, HandleError, lwipVars
  <2> QED
    BY <1>0, <1>2, <1>5, <2>1, <2>2 DEF HandleFin, HandleError, OrderTypes, lwipVars, taskVars
<1>6. CASE RemoveEvents
  <2>1. NoSweep \in [started : BOOLEAN, packet : Packets]
    BY DEF NoSweep, NoPacket, Packet, Packets
  <2>2. ASSUME NEW b \in BOOLEAN, queue # <<>> PROVE [Head(queue) EXCEPT !.first = b] \in Packets
    BY <1>2, <2>2 DEF Packets
  <2>3. \/ sweep' \in {sweep, NoSweep}
        \/ queue # <<>> /\ sweep' = [started |-> TRUE, packet |-> [Head(queue) EXCEPT !.first = ~sweep.started]]
    BY <1>6 DEF RemoveEvents
  <2>4. sweep' \in [started : BOOLEAN, packet : Packets]
    <3>1. PICK b \in BOOLEAN : b = ~sweep.started
      OBVIOUS
    <3>2. queue # <<>> => [started |-> TRUE, packet |-> [Head(queue) EXCEPT !.first = b]] \in [started : BOOLEAN, packet : Packets]
      BY <2>2
    <3> QED
      BY <1>0, <2>1, <2>3, <3>1, <3>2
  <2> QED
    BY <1>0, <1>6, <2>4 DEF RemoveEvents, OrderTypes, lwipVars, history
<1>7. CASE PutBack
  <2>1. NoPacket \in Packets
    BY DEF NoPacket, Packet, Packets
  <2>2. sweep' \in [started : BOOLEAN, packet : Packets]
    BY <1>0, <1>7, <2>1 DEF PutBack
  <2> QED
    BY <1>0, <1>7, <2>2 DEF PutBack, OrderTypes, lwipVars, history
<1>8. CASE LwipQueues
  BY <1>0, <1>8 DEF LwipQueues, OrderTypes, lwipVars, taskVars
<1>9. ASSUME NEW t \in Tasks, Serve(t) PROVE OrderTypes'
  <2>1. /\ UNCHANGED <<seen, registered, sweep, mixed>>
    BY <1>9 DEF Serve, history
  <2>2. pcb' \in [Clients -> BOOLEAN]
    BY <1>0, <1>9 DEF Serve
  <2>3. PICK s \in {"freed", "closed", "connecting"} : tcp' = tcp \/ tcp' = [tcp EXCEPT ![call[t].c] = s]
    BY <1>9 DEF Serve
  <2> QED
    BY <1>0, <2>1, <2>2, <2>3 DEF OrderTypes
<1>10. CASE Network
  BY <1>0, <1>10 DEF Network, Accept, Connected, Poll, Transfer, Fin, Error, DnsFound, OrderTypes, taskVars, history
<1>11. CASE Loop
  BY <1>0, <1>11 DEF Loop, LoopConnects, LoopCallsClient, OrderTypes, lwipVars, taskVars, history
<1>12. CASE UNCHANGED vars
  BY <1>0, <1>12 DEF vars, OrderTypes, lwipVars, taskVars, history
<1> QED
  BY <1>1, <1>3, <1>4, <1>5, <1>6, <1>7, <1>8, <1>9, <1>10, <1>11, <1>12 DEF Next, Runs, Service, Lwip

\* A removal that lwIP disturbed is never forgotten.
LEMMA MixedStays == Next => (mixed => mixed')
<1> SUFFICES ASSUME Next, mixed PROVE mixed'
  OBVIOUS
<1>1. mixed' = mixed \/ LwipQueues
  BY DEF Next, Runs, Step, ReadPcb, ReadSlot, TestPcb, Unregister, ClearEvents, Discard, Goodbye, Service, HandleNothing,
       HandleCallback, HandleFin, HandleError, HandleDns, HandleClear, RemoveEvents, PutBack, Lwip, Serve, Network,
       Accept, Connected, Poll, Transfer, Fin, Error, DnsFound, Loop, LoopConnects, LoopCallsClient, history
<1> QED
  BY <1>1 DEF LwipQueues

\* With more clients that need not be at rest there is less to keep.
LEMMA QuietWeakens ==
    ASSUME NEW P, NEW O, P \subseteq O, QuietInv(P)
    PROVE  QuietInv(O)
<1>1. \A p, q : MayPrecede(p, q, P) => MayPrecede(p, q, O)
  BY DEF MayPrecede
<1>2. QueueInv(O)
  <2>1. PICK m \in 1 .. Len(queue) + 1 : Cut(m) /\ Ordered(m, P) /\ Swept(m)
    BY DEF QuietInv, QueueInv
  <2>2. Ordered(m, O)
    BY <1>1, <2>1 DEF Ordered
  <2> QED
    BY <2>1, <2>2 DEF QueueInv
<1>3. NumbersInv(O)
  BY <1>1 DEF QuietInv, NumbersInv
<1>4. TaskInv(O)
  BY DEF QuietInv, TaskInv
<1> QED
  BY <1>2, <1>3, <1>4 DEF QuietInv, Accepted

\* What AsyncInv is for the types and the slots, this is for the order.
OrderInv ==
    /\ AsyncInv /\ OrderTypes
    /\ ~mixed => QuietInv(exposed) /\ misused \subseteq exposed

\* Nothing is queued at the start.
LEMMA InitOrderInv == Init => OrderInv
<1> SUFFICES ASSUME Init PROVE OrderInv
  OBVIOUS
<1>0. PICK O : O = {} /\ exposed = O /\ misused = {}
  BY DEF Init
<1>1. AsyncInv
  BY InitAsyncInv
<1>2. NoPacket \in Packets /\ NoPacket.client = NoClient /\ NoPacket.no = 0 /\ ~NoPacket.first /\ NoPacket.event = "none"
  BY DEF NoPacket, Packet, Packets
<1>3. OrderTypes
  BY <1>2 DEF Init, OrderTypes, NoSweep
<1>4. /\ ~Sweeping /\ ~InHand /\ Len(queue) = 0 /\ Held = {} /\ \A c : ~Working(c)
  BY DEF Init, Sweeping, InHand, Held, Working, Idle, Tasks
<1>5. QueueInv(O)
  <2>1. Cut(1) /\ Ordered(1, O) /\ Swept(1)
    BY <1>4 DEF Cut, Ordered, Swept, Init, Idle, Tasks
  <2> QED
    BY <1>4, <2>1 DEF QueueInv
<1>6. \A c \in Clients : Of(c, Pending) = {}
  BY <1>2, <1>4, AsyncAssumption DEF Of, Pending, What, Init
<1>7. NumbersInv(O)
  <2>1. \A h \in Pending : h.no = 0
    BY <1>2, <1>4 DEF Pending, What, Init
  <2> QED
    BY <1>2, <1>4, <1>6, <2>1 DEF NumbersInv, Init
<1>8. TaskInv(O)
  BY DEF TaskInv, Init, Tasks, Idle, NoCall
<1>9. ASSUME NEW c \in Clients PROVE ClientInv(c)
  <2>1. ConnectionInv(c)
    BY <1>4 DEF ConnectionInv, Init
  <2>2. PacketInv(c)
    BY <1>2, <1>6 DEF PacketInv, Init
  <2>3. CloseInv(c)
    BY <1>4 DEF CloseInv, Closing, Init, Tasks, NoCall
  <2> QED
    BY <2>1, <2>2, <2>3 DEF ClientInv
<1>10. QuietInv(O)
  BY <1>0, <1>5, <1>7, <1>8, <1>9 DEF QuietInv, Accepted
<1> QED
  BY <1>0, <1>1, <1>3, <1>10 DEF OrderInv

\* Every step keeps the order, or disturbs a removal for good.
LEMMA NextOrderInv == OrderInv /\ [Next]_vars => OrderInv'
<1> SUFFICES ASSUME OrderInv, [Next]_vars PROVE OrderInv'
  OBVIOUS
<1>1. AsyncInv' /\ CoreInv
  BY NextAsyncInv DEF OrderInv, CoreInv
<1>2. OrderTypes'
  BY <1>1, TypesKept
<1>3. CASE UNCHANGED vars
  <2>1. UNCHANGED <<queue, lwip, life, pcb, closedSlots, closedIndex, slot, tcp, registered, reported, number, task,
                    sweep, call, seen, told, mixed, exposed, misused>>
    BY <1>3 DEF vars, slotVars, lwipVars, taskVars, history
  <2>2. QuietInv(exposed)' <=> QuietInv(exposed)
    BY <2>1 DEF QuietInv, QueueInv, Cut, Ordered, Swept, NumbersInv, TaskInv, ClientInv, ConnectionInv, PacketInv,
         CloseInv, Sweeping, InHand, Held, Pending, Of, Early, Accepted, Silent, Working, Closing, OnlyClear,
         SomeClear, Covered
  <2> QED
    BY <1>1, <1>2, <2>1, <2>2 DEF OrderInv
<1>4. ASSUME Next, ~mixed' PROVE QuietInv(exposed)' /\ misused' \subseteq exposed'
  <2>1. CoreInv /\ QuietInv(exposed) /\ misused = {}
    BY <1>1, <1>4, MixedStays DEF OrderInv, Next, Runs
  <2>2. (\E t \in Tasks : Step(t)) \/ Service \/ LwipQueues \/ (\E t \in Tasks : Serve(t)) \/ Network \/ Loop
    BY <1>4 DEF Next, Runs, Lwip
  <2>3. PICK O : O = exposed'
    OBVIOUS
  <2>4. exposed \subseteq O /\ \A c \in Clients : Exposes(c)' => c \in O
    BY <1>4, <2>3 DEF Next, Runs
  <2>5. QuietInv(O)
    BY <2>1, <2>4, QuietWeakens
  <2>6. QuietInv(O)' /\ misused' \subseteq O
    <3>1. CASE (\E t \in Tasks : Step(t)) \/ Service \/ LwipQueues \/ (\E t \in Tasks : Serve(t))
      BY <1>4, <2>1, <2>5, <3>1, StepQuiet, ServiceQuiet, QueuesQuiet, ServeQuiet
    <3>2. CASE Network
      BY <2>1, <2>4, <2>5, <3>2, NetworkQuiet
    <3>3. CASE Loop
      BY <2>1, <2>4, <2>5, <3>3, LoopQuiet
    <3> QED
      BY <2>2, <3>1, <3>2, <3>3
  <2> QED
    BY <2>3, <2>6
<1> QED
  BY <1>1, <1>2, <1>3, <1>4 DEF OrderInv

\* While no packet was queued in the middle of a removal, the events of a
\* connection are handled in the order lwIP reported them, whatever goes to the
\* front of the queue and however often CLEAR turns it over.
THEOREM OrderIsKept == Spec => []QuietOrder
<1>1. OrderInv => QuietOrder
  <2> SUFFICES ASSUME OrderInv, ~mixed, ~Sweeping,
                      NEW i \in 1 .. Len(Waiting), Waiting[i].no > 0
               PROVE  /\ seen[Waiting[i].client] < Waiting[i].no
                      /\ \A j \in i + 1 .. Len(Waiting) :
                            Waiting[j].client = Waiting[i].client /\ Waiting[j].no > 0 => Waiting[i].no < Waiting[j].no
    BY DEF QuietOrder, Sweeping
  <2>0. PICK O : O = exposed
    OBVIOUS
  <2>1. QueueInv(O) /\ NumbersInv(O) /\ CoreInv /\ queue \in Seq(Packets) /\ lwip \in Packets
    BY <2>0 DEF OrderInv, QuietInv, CoreInv, AsyncInv, WorkTypes
  <2>2. PICK n \in Nat : n = Len(queue)
    BY <2>1, LenProperties
  <2>3. Ordered(n + 1, O)
    BY <2>1, <2>2 DEF QueueInv, Cut
  <2>4. ASSUME NEW k \in 1 .. Len(Waiting)
        PROVE  (k \in 1 .. n /\ Waiting[k] = queue[k]) \/ (~LwipFree /\ k = n + 1 /\ Waiting[k] = lwip)
    <3>1. /\ Len(Append(queue, lwip)) = n + 1 /\ Append(queue, lwip)[n + 1] = lwip
          /\ \A j \in 1 .. n : Append(queue, lwip)[j] = queue[j]
      BY <2>1, <2>2, AppendAt
    <3> QED
      BY <2>2, <2>4, <3>1 DEF Waiting
  <2>5. ASSUME NEW k \in 1 .. Len(Waiting) PROVE What(Waiting[k]) \in Pending
    BY <2>2, <2>4, <2>5 DEF Pending, Held
  <2>6. seen[Waiting[i].client] < Waiting[i].no /\ Waiting[i].client \in Clients
    BY <2>1, <2>5 DEF NumbersInv, What
  <2>7. ASSUME NEW j \in i + 1 .. Len(Waiting), Waiting[j].client = Waiting[i].client, Waiting[j].no > 0
        PROVE  Waiting[i].no < Waiting[j].no
    <3>1. i \in 1 .. n /\ Waiting[i] = queue[i] /\ Waiting[i].client # NoClient /\ j \in 1 .. Len(Waiting)
      <4>1. Len(Waiting) \in Nat /\ Len(Waiting) <= n + 1
        BY <2>1, <2>2, AppendAt DEF Waiting
      <4> QED
        BY <2>2, <2>4, <2>6, <2>7, <4>1, AsyncAssumption
    <3>2. CASE j \in 1 .. n /\ Waiting[j] = queue[j]
      <4>1. Sooner(i, j, n + 1)
        BY <2>2, <2>7, <3>1, <3>2 DEF Sooner
      <4>2. MayPrecede(queue[i], queue[j], O)
        BY <2>2, <2>3, <3>1, <3>2, <4>1 DEF Ordered
      <4> QED
        BY <2>7, <3>1, <3>2, <4>2 DEF MayPrecede
    <3>3. CASE Waiting[j] = lwip
      <4>1. What(queue[i]) \in Held
        BY <2>2, <3>1 DEF Held
      <4>2. MayPrecede(What(queue[i]), lwip, O)
        BY <2>1, <4>1 DEF NumbersInv
      <4> QED
        BY <2>7, <3>1, <3>3, <4>2 DEF MayPrecede, What
    <3> QED
      BY <2>4, <3>1, <3>2, <3>3
  <2> QED
    BY <2>6, <2>7
<1> QED
  BY <1>1, InitOrderInv, NextOrderInv, PTL DEF Spec

\* A client that a server accepted, that loop() never calls and whose FIN did not
\* come between the test of _pcb in _close() and the calls after it is never used
\* again once its program has deleted it in onDisconnect: not by the service task
\* nor through a packet that was left in the queue, as long as no packet was
\* queued in the middle of a removal.  The clients left out are those in exposed.
THEOREM DeletedIsAtRest == Spec => []DeletedAtRest
<1>1. OrderInv => DeletedAtRest
  BY DEF OrderInv, DeletedAtRest
<1> QED
  BY <1>1, InitOrderInv, NextOrderInv, PTL DEF Spec

=============================================================================
