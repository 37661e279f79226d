-------------------------------- MODULE TcpSsl --------------------------------
(***************************************************************************)
(* tcp_axtls.c of ESPAsyncTCP: the list of TLS sessions between lwIP and   *)
(* axTLS.  A packet belongs to its session while tcp_ssl_read goes through *)
(* it; the handlers it calls may open and free other sessions and write.   *)
(*                                                                         *)
(* axTLS is external: how much ssl_read takes of a packet, how often       *)
(* ssl_write calls ax_port_write and whether they fail is arbitrary.  As   *)
(* AsyncClient does, one server session is open at a time, a read that     *)
(* fails is followed by tcp_ssl_free, and a handler does not free its own  *)
(* session: tcp_ssl_read goes on using it.                                 *)
(***************************************************************************)
EXTENDS Integers, Sequences, FiniteSets, SequencesExt

CONSTANTS Tcps,        \* lwIP's connections
          MaxSessions, \* bound: tcp_ssl_next_fd does not pass it, nor wrap
          TotLen,      \* the length of a packet
          MaxPackets,  \* bound: packets that arrive
          Mss,         \* mss of every connection
          WriteLen     \* bytes of a write
ASSUME TlsAssumption == TotLen \in Nat /\ Mss \in Nat /\ WriteLen \in Nat

VARIABLES tcp_ssl_array,       \* the list of sessions, in its order
          tcp_ssl_next_fd,
          tcp_ssl_has_client,
          contexts,            \* client contexts of axTLS in the heap
          reading,             \* the tcp_ssl_read that runs
          writing,             \* the tcp_ssl_write that runs
          packets              \* history: each packet's frees and bytes read

tlsVars == <<tcp_ssl_array, tcp_ssl_next_fd, tcp_ssl_has_client, contexts, reading, writing, packets>>

NoPacket == 0
NotReading == [phase |-> "none"]
NotWriting == [phase |-> "none"]

TlsInit ==
    /\ tcp_ssl_array = <<>> /\ tcp_ssl_next_fd = 0
    /\ tcp_ssl_has_client = FALSE /\ contexts = 0
    /\ reading = NotReading /\ writing = NotWriting
    /\ packets = <<>>

-----------------------------------------------------------------------------
(* The list.                                                               *)

NewItem(tcp, type) ==
    [tcp |-> tcp, type |-> type, fd |-> tcp_ssl_next_fd, handshake |-> "SSL_NOT_OK",
     tcp_pbuf |-> NoPacket, pbuf_offset |-> 0, last_wr |-> 0]

SslHas(tcp) == \E i \in DOMAIN tcp_ssl_array : tcp_ssl_array[i].tcp = tcp
\* tcp_ssl_get: the first of the list.
SslGet(tcp) == SelectInSeq(tcp_ssl_array, LAMBDA s : s.tcp = tcp)
GetByFd(fd) == SelectInSeq(tcp_ssl_array, LAMBDA s : s.fd = fd)
Session(tcp) == tcp_ssl_array[SslGet(tcp)]

FreedOnce(p) == [packets EXCEPT ![p].freed = @ + 1]

\* Mutant: the packet that a read left behind is not freed with its session.
ItemFreedWithoutPacket(tcp) ==
    /\ tcp_ssl_array' = RemoveAt(tcp_ssl_array, SslGet(tcp))
    /\ packets' = packets
    /\ contexts' = IF Session(tcp).type = "client" THEN contexts - 1 ELSE contexts
    /\ tcp_ssl_has_client' = (tcp_ssl_has_client /\ Session(tcp).type # "server")

\* tcp_ssl_free, of the first session or of a later one.
ItemFreed(tcp) ==
    LET s == Session(tcp) IN
    /\ tcp_ssl_array' = RemoveAt(tcp_ssl_array, SslGet(tcp))
    /\ packets' = IF s.tcp_pbuf # NoPacket THEN FreedOnce(s.tcp_pbuf) ELSE packets
    /\ contexts' = IF s.type = "client" THEN contexts - 1 ELSE contexts
    /\ tcp_ssl_has_client' = (tcp_ssl_has_client /\ s.type # "server")

-----------------------------------------------------------------------------
(* Sessions; a sketch calls these when nothing runs or from a handler.     *)

MayCall == writing = NotWriting /\ reading.phase \in {"none", "handler"}
IsRead(tcp) == reading # NotReading /\ reading.tcp = tcp
Opens(tcp) == MayCall /\ ~SslHas(tcp) /\ tcp_ssl_next_fd < MaxSessions

\* tcp_ssl_new_client: the context, the item and the SSL object, in this
\* order; what was made before one that fails is given back.
NewClientSession(tcp) ==
    /\ Opens(tcp)
    /\ tcp_ssl_array' = Append(tcp_ssl_array, NewItem(tcp, "client"))
    /\ tcp_ssl_next_fd' = tcp_ssl_next_fd + 1
    /\ contexts' = contexts + 1
    /\ UNCHANGED <<tcp_ssl_has_client, reading, writing, packets>>

\* tcp_ssl_new_server, with the context AsyncServer has.
NewServerSession(tcp) ==
    /\ Opens(tcp) /\ ~tcp_ssl_has_client
    /\ tcp_ssl_array' = Append(tcp_ssl_array, NewItem(tcp, "server"))
    /\ tcp_ssl_next_fd' = tcp_ssl_next_fd + 1
    /\ tcp_ssl_has_client' = TRUE
    /\ UNCHANGED <<contexts, reading, writing, packets>>

\* Without heap for the SSL object the session is gone again, its number used.
NewSessionFails(tcp) ==
    /\ Opens(tcp)
    /\ tcp_ssl_next_fd' = tcp_ssl_next_fd + 1
    /\ UNCHANGED <<tcp_ssl_array, tcp_ssl_has_client, contexts, reading, writing, packets>>

SslFree(tcp) ==
    /\ MayCall /\ SslHas(tcp) /\ ~IsRead(tcp)
    /\ ItemFreed(tcp)
    /\ UNCHANGED <<tcp_ssl_next_fd, reading, writing>>

-----------------------------------------------------------------------------
(* tcp_ssl_write and ax_port_write.                                        *)

SslWrite(tcp) ==
    /\ MayCall /\ SslHas(tcp)
    /\ tcp_ssl_array' = [tcp_ssl_array EXCEPT ![SslGet(tcp)].last_wr = 0]
    /\ writing' = [phase |-> "writing", fd |-> Session(tcp).fd, left |-> WriteLen, taken |-> 0]
    /\ UNCHANGED <<tcp_ssl_next_fd, tcp_ssl_has_client, contexts, reading, packets>>

FewerBytes(a, b) == IF a < b THEN a ELSE b

\* ax_port_write: what there is room for, at most two segments.
PortWrite(sndbuf) ==
    LET tcp_len == FewerBytes(FewerBytes(writing.left, sndbuf), 2 * Mss) IN
    /\ writing.phase = "writing" /\ writing.left > 0 /\ sndbuf > 0
    /\ tcp_ssl_array' = [tcp_ssl_array EXCEPT ![GetByFd(writing.fd)].last_wr = @ + tcp_len]
    /\ writing' = [writing EXCEPT !.left = @ - tcp_len, !.taken = @ + tcp_len]
    /\ UNCHANGED <<tcp_ssl_next_fd, tcp_ssl_has_client, contexts, reading, packets>>

\* ssl_write has sent all, or gives up when ax_port_write fails.
SslWriteReturns ==
    /\ writing # NotWriting
    /\ writing' = NotWriting
    /\ UNCHANGED <<tcp_ssl_array, tcp_ssl_next_fd, tcp_ssl_has_client, contexts, reading, packets>>

-----------------------------------------------------------------------------
(* tcp_ssl_read.                                                           *)

\* lwIP hands a packet to the session, AsyncClient::_recv.
SslReadBegins(tcp) ==
    /\ reading = NotReading /\ writing = NotWriting
    /\ SslHas(tcp) /\ Len(packets) < MaxPackets
    /\ packets' = Append(packets, [freed |-> 0, read |-> 0, failed |-> FALSE])
    /\ tcp_ssl_array' = [tcp_ssl_array EXCEPT ![SslGet(tcp)].tcp_pbuf = Len(packets'),
                                              ![SslGet(tcp)].pbuf_offset = 0]
    /\ reading' = [phase |-> "round", tcp |-> tcp, p |-> Len(packets')]
    /\ UNCHANGED <<tcp_ssl_next_fd, tcp_ssl_has_client, contexts, writing>>

\* The end of the loop: the session lets the packet go, and it is freed.
LoopLeft(failed) ==
    /\ reading' = IF failed THEN [reading EXCEPT !.phase = "closing"] ELSE NotReading
    /\ tcp_ssl_array' = [tcp_ssl_array EXCEPT ![SslGet(reading.tcp)].tcp_pbuf = NoPacket]
    /\ packets' = [packets EXCEPT ![reading.p].freed = @ + 1, ![reading.p].failed = failed]

\* The condition of the loop, on what is left of the packet.
LoopGoesOn(s) == TotLen - s.pbuf_offset > 0

\* ssl_read through ax_port_read: n more bytes of the packet are taken.
SslReadRound(n) ==
    /\ reading.phase = "round" /\ n <= TotLen - Session(reading.tcp).pbuf_offset
    /\ LET s == [Session(reading.tcp) EXCEPT !.pbuf_offset = @ + n]
           With(item, phase) ==
               /\ tcp_ssl_array' = [tcp_ssl_array EXCEPT ![SslGet(item.tcp)] = item]
               /\ reading' = [reading EXCEPT !.phase = phase]
               /\ packets' = [packets EXCEPT ![reading.p].read = @ + n,
                                            ![reading.p].failed = phase = "closing"]
       IN \/ With(s, "handler")                              \* data
          \/ /\ s.handshake = "SSL_NOT_OK"
             /\ With([s EXCEPT !.handshake = "SSL_OK"], "handler")
          \/ With(s, "check")                                \* nothing yet
          \/ /\ s.handshake = "SSL_NOT_OK"
             /\ With([s EXCEPT !.handshake = "error"], "closing")
    /\ UNCHANGED <<tcp_ssl_next_fd, tcp_ssl_has_client, contexts, writing>>

\* The handler has returned, or there was none to call.
SslReadNext ==
    /\ writing = NotWriting /\ reading.phase \in {"handler", "check"}
    /\ LET s == Session(reading.tcp) IN
       IF LoopGoesOn(s) THEN /\ reading' = [reading EXCEPT !.phase = "round"]
                             /\ UNCHANGED <<tcp_ssl_array, packets>>
       ELSE LoopLeft(FALSE)
    /\ UNCHANGED <<tcp_ssl_next_fd, tcp_ssl_has_client, contexts, writing>>

\* ssl_read fails.
SslReadError ==
    /\ reading.phase = "round"
    /\ LoopLeft(TRUE)
    /\ UNCHANGED <<tcp_ssl_next_fd, tcp_ssl_has_client, contexts, writing>>

\* _recv: _close after an error; a handshake that failed leaves the packet.
RecvCloses ==
    /\ reading.phase = "closing"
    /\ reading' = NotReading
    /\ ItemFreed(reading.tcp)
    /\ UNCHANGED <<tcp_ssl_next_fd, writing>>

TlsNext ==
    \/ \E tcp \in Tcps : \/ NewClientSession(tcp) \/ NewServerSession(tcp) \/ NewSessionFails(tcp)
                         \/ SslFree(tcp) \/ SslReadBegins(tcp)
                         \/ SslWrite(tcp)
    \/ \E sndbuf \in 1 .. WriteLen : PortWrite(sndbuf)
    \/ SslWriteReturns
    \/ \E n \in 0 .. TotLen : SslReadRound(n)
    \/ SslReadNext \/ SslReadError \/ RecvCloses

TlsSpec == TlsInit /\ [][TlsNext]_tlsVars

-----------------------------------------------------------------------------
Holds(p) == {i \in DOMAIN tcp_ssl_array : tcp_ssl_array[i].tcp_pbuf = p}
OfType(type) == {i \in DOMAIN tcp_ssl_array : tcp_ssl_array[i].type = type}

\* The TLS layer keeps its books: each packet is with the one session that
\* reads it or was freed once, and unless its read failed it was read to its
\* end; sessions have a number and a connection each; the server flag and the
\* contexts follow the sessions; a write counts what lwIP took of it.
PacketsOnce == \A p \in DOMAIN packets :
    /\ packets[p].freed + Cardinality(Holds(p)) = 1
    /\ packets[p].freed = 1 /\ ~packets[p].failed => packets[p].read = TotLen
SessionsDiffer == \A i, j \in DOMAIN tcp_ssl_array : i # j =>
    /\ tcp_ssl_array[i].fd # tcp_ssl_array[j].fd
    /\ tcp_ssl_array[i].tcp # tcp_ssl_array[j].tcp
ContextsFollow ==
    /\ contexts = Cardinality(OfType("client"))
    /\ tcp_ssl_has_client <=> OfType("server") # {}
WriteCounts == writing # NotWriting =>
    tcp_ssl_array[GetByFd(writing.fd)].last_wr = writing.taken
TlsKept == PacketsOnce /\ SessionsDiffer /\ ContextsFollow /\ WriteCounts
=============================================================================
