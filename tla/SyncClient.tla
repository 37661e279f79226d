----------------------------- MODULE SyncClient -----------------------------
(***************************************************************************)
(* SyncClient and AsyncPrinter of ESPAsyncTCP: blocking clients made of an *)
(* asynchronous one.  write() waits in delay(), where the client's         *)
(* callbacks run, connect() waits for one of them, and what arrives is     *)
(* kept in a chain of chunks until it is read and then acknowledged.       *)
(***************************************************************************)
EXTENDS Integers, Sequences, SequencesExt

CONSTANTS TxBufSize,   \* _tx_buffer_size
          MaxLen,      \* bound: bytes of one write
          MaxArrived   \* bound: bytes that arrive

\* Sizes and bounds are numbers.
ASSUME SyncAssumption == TxBufSize \in Nat /\ MaxLen \in Nat /\ MaxArrived \in Nat

VARIABLES printer,    \* the object is an AsyncPrinter
          client,     \* _client: "none", "made", "connecting" or "connected"
          tx,         \* _tx_buffer: positions in the data of the bytes it holds
          call,       \* the call loop() is in: phase, len, toSend
          put,        \* history: positions this write put in the buffer
          chunks,     \* _rx_buffer: what is left of each chunk, and its size
          rxAckLen,   \* _rx_ack_len of the client
          arrived,    \* history: number of bytes that arrived
          readBytes   \* history: the bytes loop() has read

syncVars == <<printer, client, tx, call, put, chunks, rxAckLen, arrived, readBytes>>

NoBuffer == <<0>>
HasBuffer == tx # NoBuffer
Idle == [phase |-> "idle", len |-> 0, toSend |-> 0]
connected == client = "connected"

\* An object made without a client, or with a connected one.
SyncInit ==
    /\ printer \in BOOLEAN
    /\ client \in {"none", "connected"}
    /\ tx = IF client = "none" THEN NoBuffer ELSE <<>>
    /\ call = Idle /\ put = <<>>
    /\ chunks = <<>> /\ rxAckLen = 0 /\ arrived = 0 /\ readBytes = <<>>

rxState == <<chunks, rxAckLen, arrived, readBytes>>
FewerOf(a, b) == IF a < b THEN a ELSE b
Unread == FlattenSeq([i \in 1 .. Len(chunks) |-> chunks[i].left])
SizeOf(cs) == LET sum[i \in 0 .. Len(cs)] == IF i = 0 THEN 0 ELSE sum[i - 1] + cs[i].size
              IN  sum[Len(cs)]

-----------------------------------------------------------------------------
(* Connecting and disconnecting.                                           *)

\* connect(): a new client; it waits for the callback unless lwIP refuses.
Connect ==
    /\ call.phase = "idle" /\ ~connected
    /\ \/ client' = "connecting" /\ call' = [Idle EXCEPT !.phase = "connect"]
       \/ client' = "made" /\ call' = call
    /\ rxAckLen' = 0
    /\ UNCHANGED <<printer, tx, put, chunks, arrived, readBytes>>

\* _onConnect: a new buffer, if there is heap; AsyncPrinter panics if there is.
OnConnect ==
    /\ client = "connecting"
    /\ client' = "connected"
    /\ tx' \in {<<>>, NoBuffer}
    /\ call' = [Idle EXCEPT !.phase = IF printer /\ tx' = <<>> THEN "panic" ELSE "idle"]
    /\ UNCHANGED <<printer, put, rxState>>

\* The client is lost, closed by stop() or aborted: the call that waits is told.
Disconnected ==
    /\ client' = "none" /\ tx' = NoBuffer
    /\ call' = IF call.phase = "connect" THEN Idle ELSE call

OnDisconnect ==
    /\ client \in {"connecting", "connected"} /\ call.phase \notin {"loop", "panic"}
    /\ Disconnected
    /\ UNCHANGED <<printer, put, rxState>>

\* operator=: the object takes a connected client over and drops what it had.
Assign ==
    /\ call.phase = "idle" /\ (printer \/ ~connected)
    /\ client' = "connected"
    /\ tx' = <<>>
    /\ chunks' = <<>>
    /\ rxAckLen' = 0 /\ arrived' = 0 /\ readBytes' = <<>>
    /\ UNCHANGED <<printer, call, put>>

\* SyncClient aborts its own client first, whose callback clears _client, and
\* then calls free() on it.
AssignOverConnected ==
    /\ call.phase = "idle" /\ ~printer /\ connected
    /\ client' = "none" /\ tx' = NoBuffer
    /\ call' = [Idle EXCEPT !.phase = "panic"]
    /\ UNCHANGED <<printer, put, rxState>>

-----------------------------------------------------------------------------
(* Sending.                                                                *)

\* _sendBuffer: what is read from the buffer is at most the client's space; no
\* heap, or a client that cannot send, leaves it as it is.
SendBuffer(t) == {SubSeq(t, n + 1, Len(t)) : n \in 0 .. Len(t)}

Write ==
    /\ call.phase = "idle" /\ connected /\ HasBuffer
    /\ \E n \in 1 .. MaxLen : call' = [phase |-> "loop", len |-> n, toSend |-> n]
    /\ put' = <<>>
    /\ UNCHANGED <<printer, client, tx, rxState>>

Room == TxBufSize - Len(tx)

\* Every round that fills the buffer takes the data from its start.
FillAndWait ==
    /\ call.phase = "loop" /\ Room < call.toSend
    /\ LET data == [i \in 1 .. Room |-> i] IN
       /\ tx' = tx \o data
       /\ put' = put \o data
    /\ call' = [call EXCEPT !.phase = "wait", !.toSend = @ - Room]
    /\ UNCHANGED <<printer, client, rxState>>

\* data + (len - toSend)
LastPart(len, toSend) == [i \in 1 .. toSend |-> len - toSend + i]

PutLast ==
    /\ call.phase = "loop" /\ Room >= call.toSend
    /\ LET data == LastPart(call.len, call.toSend) IN
       /\ tx' \in IF printer THEN {tx \o data} ELSE SendBuffer(tx \o data)
       /\ put' = put \o data
    /\ call' = [call EXCEPT !.phase = IF printer THEN "waitLast" ELSE "written"]
    /\ UNCHANGED <<printer, client, rxState>>

\* delay(0) until the client can send, then _sendBuffer.
AfterWait ==
    /\ call.phase \in {"wait", "waitLast"}
    /\ IF connected
       THEN /\ tx' \in SendBuffer(tx)
            /\ call' = [call EXCEPT !.phase = IF @ = "wait" THEN "loop" ELSE "written"]
       ELSE /\ tx' = tx
            /\ call' = Idle
    /\ UNCHANGED <<printer, client, put, rxState>>

\* onAck, onPoll of AsyncPrinter, flush(); a printer without a buffer is lost.
SendMore ==
    /\ connected /\ call.phase \notin {"loop", "panic"}
    /\ \/ HasBuffer /\ tx' \in SendBuffer(tx) /\ call' = call
       \/ ~HasBuffer /\ printer /\ tx' = tx /\ call' = [call EXCEPT !.phase = "panic"]
    /\ UNCHANGED <<printer, client, put, rxState>>

Written ==
    /\ call.phase = "written"
    /\ call' = Idle
    /\ UNCHANGED <<printer, client, tx, put, rxState>>

-----------------------------------------------------------------------------
(* Receiving.                                                              *)

\* _onData: a chunk of its own, not acknowledged yet; no heap aborts the client.
OnData ==
    /\ connected /\ ~printer /\ call.phase # "loop"
    /\ \E n \in 1 .. MaxArrived - arrived :
          \/ /\ chunks' = Append(chunks, [left |-> [i \in 1 .. n |-> arrived + i], size |-> n])
             /\ rxAckLen' = rxAckLen + n
             /\ arrived' = arrived + n
             /\ UNCHANGED <<client, tx, call>>
          \/ Disconnected /\ UNCHANGED <<chunks, rxAckLen, arrived>>
    /\ UNCHANGED <<printer, put, readBytes>>

\* The chunks read(len) reads to their end.
Whole(len) == LET ends == {k \in 0 .. Len(chunks) :
                              Len(FlattenSeq([i \in 1 .. k |-> chunks[i].left])) <= len}
              IN  CHOOSE k \in ends : \A j \in ends : j <= k

Read ==
    /\ call.phase = "idle" /\ chunks # <<>>
    /\ \E len \in 1 .. MaxArrived :
          LET k    == Whole(len)
              rest == SubSeq(chunks, k + 1, Len(chunks))
              n    == FewerOf(len, Len(Unread))
              some == n - (Len(Unread) - Len(FlattenSeq([i \in 1 .. Len(rest) |-> rest[i].left])))
          IN  /\ readBytes' = readBytes \o SubSeq(Unread, 1, n)
              /\ chunks' = IF some = 0 THEN rest
                           ELSE [rest EXCEPT ![1].left = SubSeq(@, some + 1, Len(@))]
              /\ rxAckLen' = IF connected
                             THEN rxAckLen - FewerOf(rxAckLen, SizeOf(SubSeq(chunks, 1, k)))
                             ELSE rxAckLen
    /\ UNCHANGED <<printer, client, tx, call, put, arrived>>

SyncNext ==
    \/ Connect \/ OnConnect \/ OnDisconnect \/ Assign \/ AssignOverConnected
    \/ Write \/ FillAndWait \/ PutLast \/ AfterWait \/ SendMore \/ Written
    \/ OnData \/ Read

SyncSpec == SyncInit /\ [][SyncNext]_syncVars

-----------------------------------------------------------------------------

\* What arrives is read in order and whole, over disconnects and reconnects;
\* the window never stays closed by bytes no read will acknowledge; the buffer
\* holds no more than its size; and a write that returns its length has put as
\* many bytes, its last byte last, and its own bytes in order if they fitted.
SyncKept ==
    /\ ~printer => readBytes \o Unread = [i \in 1 .. arrived |-> i]
    /\ connected => rxAckLen <= SizeOf(chunks)
    /\ HasBuffer => Len(tx) <= TxBufSize
    /\ call.phase = "written" =>
          /\ Len(put) = call.len
          /\ Last(put) = call.len
          /\ call.toSend = call.len => put = [i \in 1 .. call.len |-> i]
=============================================================================
