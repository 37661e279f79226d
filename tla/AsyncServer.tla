---------------------------- MODULE AsyncServer -----------------------------
(***************************************************************************)
(* AsyncServer of AsyncTCP.cpp: the program begins, ends and deletes       *)
(* servers from loop(), call by call into lwIP; lwIP's own thread takes    *)
(* connections between any two of these calls and sends them to the        *)
(* service task, which hands them to the program.  The servers are on one  *)
(* port, so that a bind fails while another pcb has it.  The clients       *)
(* themselves are in module AsyncTCP.                                      *)
(***************************************************************************)
EXTENDS Integers, Sequences, FiniteSets

CONSTANTS Servers, Pcbs,
          MaxConns      \* connections that come in
ASSUME ServerAssumption == MaxConns \in Nat /\ "NULL" \notin Servers \cup Pcbs

VARIABLES serverPcb,   \* _pcb of each server, "NULL" when it has none
          serverCb,    \* whether each server has its _connect_cb
          serverPc,    \* the call loop() is in: [at, server]
          pcbs,        \* lwIP's pcbs: [state, arg, accepts]
          conns,       \* what became of each connection
          acceptPackets,     \* the ACCEPT packets of the service task: [server, conn]
          gone,        \* the servers that were deleted
          quiet,       \* no bind failed, nothing was accepted or waited at the wrong moment
          serverFault  \* a pcb closed twice, or an object that was not there

serverVars == <<serverPcb, serverCb, serverPc, pcbs, conns, acceptPackets, gone, quiet, serverFault>>

FreePcb == [state |-> "free", arg |-> "NULL", accepts |-> FALSE]
NoCall == [at |-> "idle", server |-> "NULL"]
InCall(pc) == serverPc.at = pc
Held == serverPcb[serverPc.server]

ServerInit ==
    /\ serverPcb = [s \in Servers |-> "NULL"] /\ serverCb = [s \in Servers |-> FALSE]
    /\ serverPc = NoCall /\ pcbs = [p \in Pcbs |-> FreePcb]
    /\ conns = <<>> /\ acceptPackets = <<>> /\ gone = {} /\ quiet = TRUE /\ serverFault = FALSE

ServerStep(pc, rest) == serverPc' = [serverPc EXCEPT !.at = pc] /\ UNCHANGED rest
CallOf(s, pc) == InCall("idle") /\ s \notin gone /\ serverPc' = [at |-> pc, server |-> s]

onClient(s) ==
    /\ InCall("idle") /\ s \notin gone
    /\ serverCb' = [serverCb EXCEPT ![s] = TRUE]
    /\ UNCHANGED <<serverPcb, serverPc, pcbs, conns, acceptPackets, gone, quiet, serverFault>>

(* begin(): does nothing with a _pcb; a pcb that cannot be bound is closed *)
(* but stays in _pcb, one that cannot listen stays bound and is forgotten. *)
begin(s) ==
    /\ serverPcb[s] = "NULL"
    /\ CallOf(s, "bind")
    /\ \/ /\ \A p \in Pcbs : pcbs[p].state # "free"
          /\ UNCHANGED <<serverPcb, pcbs>>
       \/ \E p \in Pcbs :
          /\ pcbs[p].state = "free"
          /\ pcbs' = [pcbs EXCEPT ![p] = [FreePcb EXCEPT !.state = "new"]]
          /\ serverPcb' = [serverPcb EXCEPT ![s] = p]
    /\ UNCHANGED <<serverCb, conns, acceptPackets, gone, quiet, serverFault>>

NoMemory ==
    /\ InCall("bind") /\ Held = "NULL"
    /\ serverPc' = NoCall
    /\ UNCHANGED <<serverPcb, serverCb, pcbs, conns, acceptPackets, gone, quiet, serverFault>>

_tcp_bind ==
    /\ InCall("bind") /\ Held # "NULL"
    /\ IF \E p \in Pcbs : pcbs[p].state \in {"bound", "listen"}
       THEN /\ pcbs' = [pcbs EXCEPT ![Held] = FreePcb]
            /\ serverPc' = NoCall /\ quiet' = FALSE
       ELSE /\ pcbs' = [pcbs EXCEPT ![Held].state = "bound"]
            /\ serverPc' = [serverPc EXCEPT !.at = "listen"] /\ UNCHANGED quiet
    /\ UNCHANGED <<serverPcb, serverCb, conns, acceptPackets, gone, serverFault>>

_tcp_listen_with_backlog ==
    /\ InCall("listen")
    /\ \/ /\ pcbs' = [pcbs EXCEPT ![Held].state = "listen"]
          /\ ServerStep("arg", serverPcb)
       \/ /\ serverPcb' = [serverPcb EXCEPT ![serverPc.server] = "NULL"]
          /\ serverPc' = NoCall /\ UNCHANGED pcbs
    /\ UNCHANGED <<serverCb, conns, acceptPackets, gone, quiet, serverFault>>

\* tcp_arg, then tcp_accept, from loop() without lwIP's lock.
BeginTail ==
    /\ \/ InCall("arg") /\ pcbs' = [pcbs EXCEPT ![Held].arg = serverPc.server] /\ ServerStep("accept", <<>>)
       \/ InCall("accept") /\ pcbs' = [pcbs EXCEPT ![Held].accepts = TRUE] /\ serverPc' = NoCall
    /\ UNCHANGED <<serverPcb, serverCb, conns, acceptPackets, gone, quiet, serverFault>>

(* end(), and the destructor, which is end() and no more: packets of the   *)
(* server may still be waiting.                                            *)
end(s) ==
    /\ serverPcb[s] # "NULL"
    /\ CallOf(s, "unarg") /\ UNCHANGED <<serverPcb, serverCb, pcbs, conns, acceptPackets, gone, quiet, serverFault>>

\* Mutant: end() leaves _pcb.
EndTailKeeps ==
    /\ \/ /\ InCall("unarg") /\ pcbs' = [pcbs EXCEPT ![Held].arg = "NULL"]
          /\ ServerStep("unaccept", <<serverPcb, serverFault>>)
       \/ /\ InCall("unaccept") /\ pcbs' = [pcbs EXCEPT ![Held].accepts = FALSE]
          /\ ServerStep("close", <<serverPcb, serverFault>>)
       \/ /\ InCall("close") /\ pcbs' = [pcbs EXCEPT ![Held] = FreePcb]
          /\ serverFault' = (serverFault \/ pcbs[Held].state = "free")
          /\ serverPc' = NoCall /\ UNCHANGED serverPcb
    /\ UNCHANGED <<serverCb, conns, acceptPackets, gone, quiet>>

EndTail ==
    /\ \/ /\ InCall("unarg") /\ pcbs' = [pcbs EXCEPT ![Held].arg = "NULL"]
          /\ ServerStep("unaccept", <<serverPcb, serverFault>>)
       \/ /\ InCall("unaccept") /\ pcbs' = [pcbs EXCEPT ![Held].accepts = FALSE]
          /\ ServerStep("close", <<serverPcb, serverFault>>)
       \/ /\ InCall("close") /\ pcbs' = [pcbs EXCEPT ![Held] = FreePcb]
          /\ serverFault' = (serverFault \/ pcbs[Held].state = "free")
          /\ serverPcb' = [serverPcb EXCEPT ![serverPc.server] = "NULL"]
          /\ serverPc' = NoCall
    /\ UNCHANGED <<serverCb, conns, acceptPackets, gone, quiet>>

Delete(s) ==
    /\ InCall("idle") /\ s \notin gone /\ serverPcb[s] = "NULL"
    /\ gone' = gone \cup {s}
    /\ quiet' = (quiet /\ \A i \in DOMAIN acceptPackets : acceptPackets[i].server # s)
    /\ UNCHANGED <<serverPcb, serverCb, serverPc, pcbs, conns, acceptPackets, serverFault>>

(* lwIP (external) has a connection for a listening pcb: _s_accept and     *)
(* _accept run on its thread, at the front of the queue.                   *)
_accept(p) ==
    LET s == pcbs[p].arg
        takes == pcbs[p].accepts /\ s # "NULL" /\ serverCb[s] IN
    /\ pcbs[p].state = "listen" /\ Len(conns) < MaxConns
    /\ conns' = Append(conns, IF takes THEN "waits" ELSE "refused")
    /\ acceptPackets' = IF takes THEN <<[server |-> s, conn |-> Len(conns) + 1]>> \o acceptPackets ELSE acceptPackets
    /\ serverFault' = (serverFault \/ (pcbs[p].accepts /\ s = "NULL"))
    /\ quiet' = (quiet /\ ~InCall("unaccept"))
    /\ UNCHANGED <<serverPcb, serverCb, serverPc, pcbs, gone>>

\* The service task hands over the client: a server without its handler forgets it.
_accepted ==
    /\ acceptPackets # <<>>
    /\ LET a == Head(acceptPackets) IN
       /\ conns' = [conns EXCEPT ![a.conn] = IF serverCb[a.server] THEN "given" ELSE "lost"]
       /\ serverFault' = (serverFault \/ a.server \in gone)
    /\ acceptPackets' = Tail(acceptPackets)
    /\ UNCHANGED <<serverPcb, serverCb, serverPc, pcbs, gone, quiet>>

ServerNext ==
    \/ \E s \in Servers : onClient(s) \/ begin(s) \/ end(s) \/ Delete(s)
    \/ NoMemory \/ _tcp_bind \/ _tcp_listen_with_backlog \/ BeginTail \/ EndTail
    \/ \E p \in Pcbs : _accept(p)
    \/ _accepted

ServerSpec == ServerInit /\ [][ServerNext]_serverVars

---------------------------------------------------------------------------
(* What AsyncServer promises a program whose binds succeed and that ends   *)
(* and deletes servers while nothing comes in.                             *)

\* What listens is what a server holds, each pcb by one server; nothing is
\* closed twice, and each connection is waiting, refused or given.
ServerKept == quiet =>
    /\ ~serverFault
    /\ \A p \in Pcbs : pcbs[p].state = "listen" =>
          Cardinality({s \in Servers : serverPcb[s] = p}) = 1
    /\ InCall("idle") => \A s \in Servers : serverPcb[s] # "NULL" =>
          pcbs[serverPcb[s]] = [state |-> "listen", arg |-> s, accepts |-> TRUE]
    /\ \A c \in DOMAIN conns : conns[c] = "waits" <=> \E i \in DOMAIN acceptPackets : acceptPackets[i].conn = c
    /\ \A c \in DOMAIN conns : conns[c] # "lost"
=============================================================================
