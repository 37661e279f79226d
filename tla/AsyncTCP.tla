----------------------------- MODULE AsyncTCP -----------------------------
(***************************************************************************)
(* AsyncTCP for the ESP32: AsyncTCP-master/src/AsyncTCP.cpp.               *)
(* Three threads share the clients.  lwIP's own thread runs its callbacks, *)
(* which turn into packets of a bounded queue; the service task takes them *)
(* out and calls the program back; loop() calls the clients too.  A call   *)
(* into lwIP from either task waits until lwIP's thread has served it.     *)
(* Each read of a shared field, queue operation and call is a step of its  *)
(* own.  A client has one connection in its life and neither its address   *)
(* nor its pcb is used again.  Programs delete a client in onDisconnect.   *)
(***************************************************************************)
EXTENDS Integers, Sequences, FiniteSets

CONSTANTS Clients,              \* the objects a program may create
          Shared,               \* those loop() may connect, or call when a server accepted them
          NoClient,             \* the argument NULL
          NumberOfClosedSlots,  \* CONFIG_LWIP_MAX_ACTIVE_TCP
          QueueLength,          \* 32 in the code
          MaxReports,           \* bound: RECV, SENT and POLL reports of lwIP
          ServiceCalls,         \* what callbacks call: write, later, close, abort
          LoopCalls             \* what loop() calls: connect, resolve, write, close, abort

Slots == 0 .. NumberOfClosedSlots - 1
NoSlot == -1
Tasks == {"service", "loop"}
Events == {"SENT", "RECV", "FIN", "ERROR", "POLL", "CLEAR", "ACCEPT", "CONNECTED", "DNS", "NODNS"}

ASSUME AsyncAssumption ==
    /\ NoClient \notin Clients /\ Shared \subseteq Clients
    /\ NumberOfClosedSlots \in Nat \ {0}
    /\ QueueLength \in Nat \ {0}
    /\ MaxReports \in Nat

VARIABLES
    queue,        \* _async_queue: lwip_event_packet_t
    lwip,         \* the packet a callback of lwIP is about to queue, if any
    closedSlots,  \* _closed_slots: 0 while a connection holds the slot
    closedIndex,  \* _closed_index
    life,         \* of the object: none, live, deleted
    pcb,          \* _pcb is not NULL
    slot,         \* _closed_slot
    tcp,          \* the connection in lwIP
    registered,   \* its callbacks: with the client, with NULL, or removed
    task,         \* where the two tasks are
    sweep,        \* locals of _remove_events_with_arg
    call,         \* tcp_api_call_t in lwIP's mailbox
    reported,     \* how many of them there have been
    number,       \* number of the last event lwIP reported for a client
    seen,         \* number of the last of them the service task handled
    told,         \* calls of onDisconnect
    mixed,        \* history: lwIP queued a packet while the service task was removing others
    exposed,      \* history: clients loop() has connected or called, or whose FIN came in the middle of _close()
    misused       \* deleted objects that were used

lwipVars == <<tcp, registered, reported, number>>
slotVars == <<closedSlots, closedIndex, slot>>
taskVars == <<task, sweep, call>>
history == <<seen, told, mixed>>
vars == <<queue, lwip, life, pcb, slotVars, lwipVars, taskVars, history, exposed, misused>>

Places == {"pcb", "slot", "wait", "close", "unregister", "clear", "discard", "finClear", "goodbye", "removing", "putBack"}
Ops == {"none", "write", "ack", "ackClose", "timeout", "close", "closeAbort", "abort", "connect"}
Work == [at : Places, op : Ops, c : Clients]
Packet(e, c, n) == [event |-> e, client |-> c, no |-> n, first |-> FALSE]
Packets == [event : Events \cup {"none"}, client : Clients \cup {NoClient}, no : Nat, first : BOOLEAN]
NoPacket == Packet("none", NoClient, 0)
Idle == [at |-> "idle", op |-> "none", c |-> NoClient]
NoSweep == [started |-> FALSE, packet |-> NoPacket]
NoCall == [op |-> "none", c |-> NoClient, slot |-> NoSlot]

Init ==
    /\ queue = <<>> /\ lwip = NoPacket
    /\ closedSlots = [s \in Slots |-> 1] /\ closedIndex = 1
    /\ life = [c \in Clients |-> "none"]
    /\ pcb = [c \in Clients |-> FALSE]
    /\ slot = [c \in Clients |-> NoSlot]
    /\ tcp = [c \in Clients |-> "none"]
    /\ registered = [c \in Clients |-> "removed"]
    /\ task = [t \in Tasks |-> Idle]
    /\ sweep = NoSweep
    /\ call = [t \in Tasks |-> NoCall]
    /\ reported = 0
    /\ number = [c \in Clients |-> 0]
    /\ seen = [c \in Clients |-> 0]
    /\ told = {}
    /\ mixed = FALSE
    /\ exposed = {} /\ misused = {}

-----------------------------------------------------------------------------
(* The slots of closed connections.                                        *)

\* The free slot that was given back first; of equals the last.
Longest(s) ==
    /\ closedSlots[s] # 0
    /\ \A r \in Slots : closedSlots[r] # 0 =>
          \/ closedSlots[s] < closedSlots[r]
          \/ closedSlots[s] = closedSlots[r] /\ r <= s

AllocateClosedSlot(c) ==
    \/ \E s \in Slots :
          /\ Longest(s)
          /\ slot' = [slot EXCEPT ![c] = s]
          /\ closedSlots' = [closedSlots EXCEPT ![s] = 0]
    \/ /\ \A s \in Slots : closedSlots[s] = 0
       /\ UNCHANGED <<slot, closedSlots>>

\* Mutant: _closed_slot keeps its number.
FreeKeepsNumber(c) ==
    IF slot[c] = NoSlot
    THEN UNCHANGED slotVars
    ELSE /\ closedSlots' = [closedSlots EXCEPT ![slot[c]] = closedIndex]
         /\ closedIndex' = closedIndex + 1
         /\ UNCHANGED slot

FreeClosedSlot(c) ==
    IF slot[c] = NoSlot
    THEN UNCHANGED slotVars
    ELSE /\ closedSlots' = [closedSlots EXCEPT ![slot[c]] = closedIndex]
         /\ closedIndex' = closedIndex + 1
         /\ slot' = [slot EXCEPT ![c] = NoSlot]

\* A task reads or writes the object c.
Uses(c) == misused' = {d \in {c} : life[d] # "live"}

-----------------------------------------------------------------------------
(* lwIP's thread.                                                          *)

LwipFree == lwip = NoPacket

\* A callback has its argument when it is called, and queues the packet later.
Report(e, c, n) ==
    lwip' = CASE registered[c] = "client" -> Packet(e, c, n)
              [] registered[c] = "null"   -> Packet(e, NoClient, 0)
              [] OTHER                    -> NoPacket
Numbered(e, c) ==
    /\ number' = [number EXCEPT ![c] = @ + 1]
    /\ Report(e, c, number[c] + 1)

\* xQueueSendToFront for the start of a connection, xQueueSend for the rest.
LwipQueues ==
    /\ ~LwipFree
    /\ Len(queue) < QueueLength
    /\ queue' = IF lwip.event \in {"ACCEPT", "CONNECTED"} THEN <<lwip>> \o queue ELSE Append(queue, lwip)
    /\ lwip' = NoPacket
    /\ mixed' = (mixed \/ task["service"].at \in {"removing", "putBack"})
    /\ UNCHANGED <<life, pcb, slotVars, lwipVars, taskVars, seen, told, misused>>

Accept(c) ==
    /\ LwipFree
    /\ life[c] = "none"
    /\ life' = [life EXCEPT ![c] = "live"]
    /\ pcb' = [pcb EXCEPT ![c] = TRUE]
    /\ tcp' = [tcp EXCEPT ![c] = "open"]
    /\ registered' = [registered EXCEPT ![c] = "client"]
    /\ AllocateClosedSlot(c)
    /\ number' = [number EXCEPT ![c] = 1]
    /\ lwip' = Packet("ACCEPT", c, 1)
    /\ UNCHANGED <<queue, closedIndex, reported, taskVars, history, misused>>

Connected(c) ==
    /\ LwipFree
    /\ tcp[c] = "connecting"
    /\ tcp' = [tcp EXCEPT ![c] = "open"]
    /\ Numbered("CONNECTED", c)
    /\ UNCHANGED <<queue, life, pcb, slotVars, registered, reported, taskVars, history, misused>>

\* lwIP goes on polling a connection whose end it has seen.
Poll(c) ==
    /\ LwipFree
    /\ tcp[c] \in {"open", "connecting", "ended"}
    /\ registered[c] # "removed"
    /\ reported < MaxReports
    /\ reported' = reported + 1
    /\ Report("POLL", c, 0)
    /\ UNCHANGED <<queue, life, pcb, slotVars, tcp, registered, number, taskVars, history, misused>>

Transfer(c) ==
    /\ LwipFree
    /\ tcp[c] = "open"
    /\ registered[c] = "client"
    /\ reported < MaxReports
    /\ reported' = reported + 1
    /\ \E e \in {"RECV", "SENT"} : Numbered(e, c)
    /\ UNCHANGED <<queue, life, pcb, slotVars, tcp, registered, taskVars, history, misused>>

\* The peer closes: _lwip_fin closes the pcb at once, unless the client does
\* not know it yet.
Fin(c) ==
    /\ LwipFree
    /\ tcp[c] = "open"
    /\ registered[c] = "client"
    /\ Numbered("FIN", c)
    /\ IF pcb[c]
       THEN /\ tcp' = [tcp EXCEPT ![c] = "ended"]
            /\ registered' = [registered EXCEPT ![c] = "null"]
            /\ FreeClosedSlot(c)
            /\ pcb' = [pcb EXCEPT ![c] = FALSE]
       ELSE /\ tcp' = [tcp EXCEPT ![c] = "halfClosed"]
            /\ UNCHANGED <<registered, slotVars, pcb>>
    /\ UNCHANGED <<queue, life, reported, taskVars, history, misused>>

\* A reset, or no answer: lwIP frees the pcb and calls _tcp_error.
Error(c) ==
    /\ LwipFree
    /\ tcp[c] \in {"open", "connecting", "halfClosed"}
    /\ tcp' = [tcp EXCEPT ![c] = "freed"]
    /\ Numbered("ERROR", c)
    /\ UNCHANGED <<queue, life, pcb, slotVars, registered, reported, taskVars, history, misused>>

DnsFound(c) ==
    /\ LwipFree
    /\ tcp[c] = "resolving"
    /\ tcp' = [tcp EXCEPT ![c] = "none"]
    /\ \E e \in {"DNS", "NODNS"} : lwip' = Packet(e, c, 0)
    /\ UNCHANGED <<queue, life, pcb, slotVars, registered, reported, number, taskVars, history, misused>>

-----------------------------------------------------------------------------
(* Calls into lwIP: tcpip_api_call.                                        *)

\* Where a task goes on when its call has returned.
After(op, c, ok) ==
    CASE op = "ackClose"        -> [at |-> "close", op |-> op, c |-> c]
      [] op = "close" /\ ok     -> [at |-> "discard", op |-> op, c |-> c]
      [] op = "close" /\ ~ok    -> [at |-> "pcb", op |-> "closeAbort", c |-> c]
      [] op = "closeAbort"      -> [at |-> "discard", op |-> op, c |-> c]
      [] OTHER                  -> Idle

\* The arguments are read one after the other: _pcb, then _closed_slot.
ReadPcb(t) ==
    LET c == task[t].c  op == task[t].op IN
    /\ task[t].at = "pcb"
    /\ task' = [task EXCEPT ![t] = IF pcb[c] THEN [@ EXCEPT !.at = "slot"] ELSE After(op, c, FALSE)]
    /\ Uses(c)
    /\ UNCHANGED <<queue, lwip, life, pcb, slotVars, lwipVars, sweep, call, history>>

ReadSlot(t) ==
    LET c == task[t].c IN
    /\ task[t].at = "slot"
    /\ task' = [task EXCEPT ![t].at = "wait"]
    /\ call' = [call EXCEPT ![t] = [op |-> task[t].op, c |-> c, slot |-> slot[c]]]
    /\ Uses(c)
    /\ UNCHANGED <<queue, lwip, life, pcb, slotVars, lwipVars, sweep, history>>

Alive(c) == tcp[c] \in {"open", "connecting", "halfClosed"}

\* lwIP's thread serves the call; a client whose slot is closed gets ERR_CONN.
\* tcp_close may fail for want of memory, and tcp_abort calls _tcp_error back.
Serve(t) ==
    LET c == call[t].c  op == call[t].op
        allowed == call[t].slot \in {NoSlot} \cup {s \in Slots : closedSlots[s] = 0}
    IN
    /\ LwipFree
    /\ op # "none"
    /\ \E ok \in BOOLEAN :
          /\ ok => allowed
          /\ op # "close" => (ok = allowed)
          /\ task' = [task EXCEPT ![t] = After(op, c, ok)]
          /\ IF ok /\ Alive(c) /\ op \in {"abort", "closeAbort"}
             THEN /\ tcp' = [tcp EXCEPT ![c] = "freed"]
                  /\ Numbered("ERROR", c)
             ELSE /\ tcp' = CASE ok /\ Alive(c) /\ op = "close" -> [tcp EXCEPT ![c] = "closed"]
                              [] ok /\ op = "connect" /\ tcp[c] = "new" -> [tcp EXCEPT ![c] = "connecting"]
                              [] OTHER -> tcp
                  /\ UNCHANGED <<lwip, number>>
          /\ pcb' = IF op = "abort" THEN [pcb EXCEPT ![c] = FALSE] ELSE pcb
    /\ call' = [call EXCEPT ![t] = NoCall]
    /\ UNCHANGED <<queue, life, slotVars, registered, reported, sweep, history, misused>>

-----------------------------------------------------------------------------
(* _close(), step by step, in whichever task.                              *)

TestPcb(t) ==
    LET c == task[t].c IN
    /\ task[t].at = "close"
    /\ task' = [task EXCEPT ![t] = IF pcb[c] THEN [@ EXCEPT !.at = "unregister"] ELSE Idle]
    /\ Uses(c)
    /\ UNCHANGED <<queue, lwip, life, pcb, slotVars, lwipVars, sweep, call, history>>

\* tcp_arg(_pcb, NULL) and the four calls after it are one step.  They read _pcb
\* again: lwIP ignores the NULL that _lwip_fin may have left there.
Unregister(t) ==
    LET c == task[t].c IN
    /\ task[t].at = "unregister"
    /\ registered' = IF pcb[c] THEN [registered EXCEPT ![c] = "removed"] ELSE registered
    /\ task' = [task EXCEPT ![t].at = "clear"]
    /\ Uses(c)
    /\ UNCHANGED <<queue, lwip, life, pcb, slotVars, tcp, reported, number, sweep, call, history>>

\* Mutant: CLEAR goes to the end of the queue.
ClearEventsLast(t) ==
    LET c == task[t].c IN
    /\ task[t].at \in {"clear", "finClear"}
    /\ Len(queue) < QueueLength
    /\ queue' = Append(queue, Packet("CLEAR", c, 0))
    /\ task' = [task EXCEPT ![t] = IF @.at = "clear" THEN [at |-> "pcb", op |-> "close", c |-> c]
                                                     ELSE [at |-> "goodbye", op |-> "none", c |-> c]]
    /\ UNCHANGED <<lwip, life, pcb, slotVars, lwipVars, sweep, call, history, misused>>

\* _tcp_clear_events, from _close() and from _fin()
ClearEvents(t) ==
    LET c == task[t].c IN
    /\ task[t].at \in {"clear", "finClear"}
    /\ Len(queue) < QueueLength
    /\ queue' = <<Packet("CLEAR", c, 0)>> \o queue
    /\ task' = [task EXCEPT ![t] = IF @.at = "clear" THEN [at |-> "pcb", op |-> "close", c |-> c]
                                                     ELSE [at |-> "goodbye", op |-> "none", c |-> c]]
    /\ UNCHANGED <<lwip, life, pcb, slotVars, lwipVars, sweep, call, history, misused>>

\* onDisconnect: the program may delete the client.  A client that is deleted
\* while it has a pcb closes it and calls onDisconnect once more.
Goodbye(c) ==
    /\ told' = told \cup {c}
    /\ \/ UNCHANGED <<life, slotVars>> /\ Uses(c)
       \/ /\ life' = [life EXCEPT ![c] = "deleted"]
          /\ FreeClosedSlot(c)
          /\ misused' = {d \in {c} : life[d] # "live" \/ pcb'[d]}

\* The end of _close() forgets the pcb, that of _fin() leaves it.
Discard(t) ==
    LET c == task[t].c IN
    /\ task[t].at \in {"discard", "goodbye"}
    /\ pcb' = IF task[t].at = "discard" THEN [pcb EXCEPT ![c] = FALSE] ELSE pcb
    /\ task' = [task EXCEPT ![t] = Idle]
    /\ Goodbye(c)
    /\ UNCHANGED <<queue, lwip, lwipVars, sweep, call, seen, mixed>>

-----------------------------------------------------------------------------
(* The service task.                                                       *)

Take(e) ==
    /\ task["service"].at = "idle"
    /\ queue # <<>>
    /\ Head(queue).event = e
    /\ Head(queue).client # NoClient
    /\ queue' = Tail(queue)

\* An event whose argument is NULL
HandleNothing ==
    /\ task["service"].at = "idle"
    /\ queue # <<>>
    /\ Head(queue).client = NoClient
    /\ queue' = Tail(queue)
    /\ UNCHANGED <<lwip, life, pcb, slotVars, lwipVars, taskVars, history, misused>>

\* A program's answer to a callback: nothing, or a call on the client.
Starts(c, calls) ==
    {Idle} \cup {[at |-> "pcb", op |-> o, c |-> c] : o \in calls \cap {"write", "abort"}}
           \cup {[at |-> "pcb", op |-> "ackClose", c |-> c] : o \in calls \cap {"close"}}
Answer(c) == Starts(c, ServiceCalls)

Handled(p) ==
    /\ Uses(p.client)
    /\ seen' = IF p.no > 0 THEN [seen EXCEPT ![p.client] = p.no] ELSE seen

\* _accepted, _connected, _sent, _recv and the quiet end of _poll
HandleCallback ==
    \E e \in {"ACCEPT", "CONNECTED", "SENT", "RECV", "POLL"} :
    LET p == Head(queue)  c == p.client IN
    /\ Take(e)
    /\ Handled(p)
    /\ pcb' = IF e = "CONNECTED" THEN [pcb EXCEPT ![c] = TRUE] ELSE pcb
    /\ IF e = "POLL" /\ ~pcb[c]
       THEN UNCHANGED task
       ELSE \E s \in Answer(c) \cup
                     (IF e = "RECV" THEN {[at |-> "pcb", op |-> "ack", c |-> c]} ELSE {}) \cup
                     (IF e = "POLL" THEN {[at |-> "close", op |-> "timeout", c |-> c]} ELSE {}) :
               task' = [task EXCEPT !["service"] = s]
    /\ UNCHANGED <<lwip, life, slotVars, lwipVars, sweep, call, told, mixed>>

\* Mutant: _fin returns at once when there is no pcb any more.
HandleFinLate ==
    /\ Take("FIN")
    /\ Handled(Head(queue))
    /\ task' = IF pcb[Head(queue).client]
               THEN [task EXCEPT !["service"] = [at |-> "finClear", op |-> "none", c |-> Head(queue).client]]
               ELSE task
    /\ UNCHANGED <<lwip, life, pcb, slotVars, lwipVars, sweep, call, told, mixed>>

HandleFin ==
    LET p == Head(queue) IN
    /\ Take("FIN")
    /\ Handled(p)
    /\ task' = [task EXCEPT !["service"] = [at |-> "finClear", op |-> "none", c |-> p.client]]
    /\ UNCHANGED <<lwip, life, pcb, slotVars, lwipVars, sweep, call, told, mixed>>

\* _error: the pcb that is written to is freed already.
HandleError ==
    LET p == Head(queue)  c == p.client IN
    /\ Take("ERROR")
    /\ seen' = [seen EXCEPT ![c] = p.no]
    /\ pcb' = [pcb EXCEPT ![c] = FALSE]
    /\ registered' = IF pcb[c] THEN [registered EXCEPT ![c] = "null"] ELSE registered
    /\ Goodbye(c)
    /\ UNCHANGED <<lwip, tcp, reported, number, taskVars, mixed>>

\* _dns_found: connect(), which refuses when there is a connection, or the error.
HandleDns ==
    LET c == Head(queue).client IN
    \/ /\ Take("DNS")
       /\ Uses(c)
       /\ IF pcb[c] \/ tcp[c] # "none"
          THEN UNCHANGED <<tcp, registered, task>>
          ELSE /\ tcp' = [tcp EXCEPT ![c] = "new"]
               /\ registered' = [registered EXCEPT ![c] = "client"]
               /\ task' = [task EXCEPT !["service"] = [at |-> "slot", op |-> "connect", c |-> c]]
       /\ UNCHANGED <<lwip, life, pcb, slotVars, reported, number, sweep, call, history>>
    \/ /\ Take("NODNS")
       /\ UNCHANGED pcb
       /\ Goodbye(c)
       /\ UNCHANGED <<lwip, lwipVars, taskVars, seen, mixed>>

HandleClear ==
    /\ Take("CLEAR")
    /\ task' = [task EXCEPT !["service"] = [at |-> "removing", op |-> "none", c |-> Head(queue).client]]
    /\ sweep' = NoSweep
    /\ UNCHANGED <<lwip, life, pcb, slotVars, lwipVars, call, history, misused>>

\* _remove_events_with_arg; the argument of an ACCEPT is the server.
Matches(p, c) == p.event # "ACCEPT" /\ p.client = c

RemoveEvents ==
    LET p == Head(queue) IN
    /\ task["service"].at = "removing"
    /\ UNCHANGED <<lwip, life, pcb, slotVars, lwipVars, call, history, misused>>
    /\ IF queue = <<>> \/ p.first
       THEN /\ queue' = IF queue = <<>> THEN queue ELSE <<[p EXCEPT !.first = FALSE]>> \o Tail(queue)
            /\ task' = [task EXCEPT !["service"] = Idle]
            /\ sweep' = NoSweep
       ELSE /\ queue' = Tail(queue)
            /\ IF Matches(p, task["service"].c)
               THEN UNCHANGED <<task, sweep>>
               ELSE /\ task' = [task EXCEPT !["service"].at = "putBack"]
                    /\ sweep' = [started |-> TRUE, packet |-> [p EXCEPT !.first = ~sweep.started]]

\* Mutant: the first packet that stays ends the removal.
PutBackOnce ==
    /\ task["service"].at = "putBack"
    /\ Len(queue) < QueueLength
    /\ queue' = Append(queue, sweep.packet)
    /\ sweep' = [sweep EXCEPT !.packet = NoPacket]
    /\ task' = [task EXCEPT !["service"] = Idle]
    /\ UNCHANGED <<lwip, life, pcb, slotVars, lwipVars, call, history, misused>>

\* ... with portMAX_DELAY
PutBack ==
    /\ task["service"].at = "putBack"
    /\ Len(queue) < QueueLength
    /\ queue' = Append(queue, sweep.packet)
    /\ sweep' = [sweep EXCEPT !.packet = NoPacket]
    /\ task' = [task EXCEPT !["service"].at = "removing"]
    /\ UNCHANGED <<lwip, life, pcb, slotVars, lwipVars, call, history, misused>>

-----------------------------------------------------------------------------
(* loop().                                                                 *)

\* connect() to an address or to a name, with a new client
LoopConnects(c) ==
    /\ task["loop"].at = "idle"
    /\ life[c] = "none"
    /\ life' = [life EXCEPT ![c] = "live"]
    /\ \/ /\ "resolve" \in LoopCalls
          /\ tcp' = [tcp EXCEPT ![c] = "resolving"]
          /\ UNCHANGED <<registered, task>>
       \/ /\ "connect" \in LoopCalls
          /\ tcp' = [tcp EXCEPT ![c] = "new"]
          /\ registered' = [registered EXCEPT ![c] = "client"]
          /\ task' = [task EXCEPT !["loop"] = [at |-> "slot", op |-> "connect", c |-> c]]
    /\ UNCHANGED <<queue, lwip, pcb, slotVars, reported, number, sweep, call, history, misused>>

\* A call on a client that a callback has shown to the program.
LoopCallsClient(c) ==
    /\ task["loop"].at = "idle"
    /\ life[c] = "live"
    /\ seen[c] > 0
    /\ pcb[c]
    /\ \E s \in Starts(c, LoopCalls) \ {Idle} : task' = [task EXCEPT !["loop"] = s]
    /\ UNCHANGED <<queue, lwip, life, pcb, slotVars, lwipVars, sweep, call, history, misused>>

Step(t) == ReadPcb(t) \/ ReadSlot(t) \/ TestPcb(t) \/ Unregister(t) \/ ClearEvents(t) \/ Discard(t)
Service ==
    \/ HandleNothing \/ HandleCallback \/ HandleFin \/ HandleError \/ HandleDns \/ HandleClear
    \/ RemoveEvents \/ PutBack
Lwip == LwipQueues \/ \E t \in Tasks : Serve(t)
Network == \E c \in Clients :
    Accept(c) \/ Connected(c) \/ Poll(c) \/ Transfer(c) \/ Fin(c) \/ Error(c) \/ DnsFound(c)
Loop == \E c \in Shared : LoopConnects(c) \/ LoopCallsClient(c)

\* The clients that loop() connects, those it calls, and those whose
\* FIN lwIP's thread handles after _close() has tested _pcb.
Exposes(c) ==
    \/ task["loop"].c = c \/ tcp[c] = "resolving"
    \/ \E t \in Tasks : task[t].at = "unregister" /\ task[t].c = c /\ ~pcb[c]

\* A program that has used a deleted object has ended.
Runs(A) ==
    /\ misused = {}
    /\ A
    /\ exposed' = exposed \cup {c \in Clients : Exposes(c)'}

Next == Runs((\E t \in Tasks : Step(t)) \/ Service \/ Lwip \/ Network \/ Loop)

Spec == Init /\ [][Next]_vars
\* While a thread has something to do, one of them goes on; what the network and
\* the program do is up to them.
FairSpec ==
    /\ Spec
    /\ WF_vars(Runs(Lwip \/ Service \/ \E t \in Tasks : Step(t)))

-----------------------------------------------------------------------------
(* Properties.                                                             *)

\* The queue never holds more packets than it was made for, a slot is one of
\* those there are, and a task is busy with a client.
AsyncTypeOK ==
    /\ queue \in Seq(Packets) /\ lwip \in Packets /\ sweep.packet \in Packets
    /\ Len(queue) <= QueueLength
    /\ closedSlots \in [Slots -> Nat] /\ closedIndex \in Nat \ {0}
    /\ slot \in [Clients -> Slots \cup {NoSlot}]
    /\ life \in [Clients -> {"none", "live", "deleted"}]
    /\ number \in [Clients -> Nat]
    /\ call \in [Tasks -> {NoCall} \cup [op : Ops, c : Clients, slot : Slots \cup {NoSlot}]]
    /\ task \in [Tasks -> {Idle} \cup Work]

Holder(c, s) == life[c] = "live" /\ slot[c] = s
\* A slot is taken exactly while a live client holds it, and by that one only:
\* accepting, the peer's FIN in lwIP's thread and the destructor in the service
\* task or loop() never leak a slot nor give one to two connections.
SlotsAccounted ==
    \A s \in Slots :
        /\ closedSlots[s] = 0 <=> \E c \in Clients : Holder(c, s)
        /\ \A c, d \in Clients : Holder(c, s) /\ Holder(d, s) => c = d

\* The packets that are still to be handled.
Waiting == IF LwipFree THEN queue ELSE Append(queue, lwip)
\* While no packet was queued in the middle of a removal, the events of a
\* connection are handled in the order lwIP reported them, although the start of
\* a connection goes to the front of the queue and CLEAR rotates all of it.
QuietOrder ==
    ~mixed /\ task["service"].at \notin {"removing", "putBack"} =>
        \A i \in 1 .. Len(Waiting) : Waiting[i].no > 0 =>
            /\ seen[Waiting[i].client] < Waiting[i].no
            /\ \A j \in i + 1 .. Len(Waiting) :
                  Waiting[j].client = Waiting[i].client /\ Waiting[j].no > 0 => Waiting[i].no < Waiting[j].no

\* A client that its program deletes in onDisconnect is never used again, as long
\* as no packet was queued in the middle of a removal.  Left out are the clients in
\* exposed, which the code does not keep from it: those loop() connects, those it
\* writes to, closes or aborts, and those whose FIN lwIP's thread handled after
\* _close() had tested _pcb.
DeletedAtRest == ~mixed => misused \subseteq exposed

\* Nobody can run: the queue is full, lwIP's thread waits for room and the only
\* task that makes room waits for lwIP's thread, or for room itself.
Jam ==
    /\ Len(queue) = QueueLength
    /\ \/ ~LwipFree /\ task["service"].at = "wait"
       \/ task["service"].at \in {"putBack", "clear", "finClear"}

\* The program hears of the end of every connection it knows, whoever ended it:
\* the peer, an error or the program, unless the threads have jammed or the
\* program used a deleted client.
Unheard == {c \in Clients : tcp[c] \in {"ended", "freed", "closed", "halfClosed"} /\ c \notin told}
EveryGoodbye == []<>(Unheard = {} \/ misused # {} \/ Jam)
=============================================================================
