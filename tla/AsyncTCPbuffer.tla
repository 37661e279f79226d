--------------------------- MODULE AsyncTCPbuffer ---------------------------
(***************************************************************************)
(* ESPAsyncTCPbuffer: a chain of buffers before a client, and a receive    *)
(* buffer between the client and what reads: a callback (FREE), a number   *)
(* of bytes, or a string up to a terminator.  Bytes are numbered in the    *)
(* order they are written and received.  One thread runs all of it; flush  *)
(* lets the callbacks run, and the disconnect callback keeps the object.   *)
(***************************************************************************)
EXTENDS Integers, Sequences, SequencesExt

CONSTANTS CbufSize,      \* TCP_MSS
          MaxWritten,    \* bound: bytes written
          MaxReceived,   \* bound: bytes received
          Terminators    \* the received bytes that are the terminator or zero

\* A buffer holds something, and the bounds are numbers.
ASSUME StreamAssumption ==
    /\ CbufSize \in Nat \ {0}
    /\ MaxWritten \in Nat /\ MaxReceived \in Nat

VARIABLES chain,      \* the buffers from _TXbufferRead to _TXbufferWrite
          sending,    \* where write(), flush() and _sendBuffer() are
          stack,      \* history: the bytes lwIP took
          written,    \* history: number of bytes write() took
          rxBuffer,   \* _RXbuffer
          rxMode,     \* _RXmode with _rxSize
          rxCall,     \* where _rxData() is, and its buf
          handed,     \* history: the bytes the readers consumed
          received,   \* history: number of bytes the client delivered
          open        \* _client is there

txVars == <<chain, sending, stack, written>>
rxVars == <<rxBuffer, rxMode, rxCall, handed, received>>
asyncBufferVars == <<txVars, rxVars, open>>

NoMode == [kind |-> "NONE", size |-> 0]
Free == [kind |-> "FREE", size |-> 0]
\* noCallback(), onData(), readStringUntil() and readBytes()
Modes == {NoMode, Free, [kind |-> "TERMINATOR_STRING", size |-> 0]}
         \cup [kind : {"READ_BYTES"}, size : 1 .. 2]

BufferInit ==
    /\ chain = <<<<>>>>
    /\ sending = [phase |-> "idle", left |-> 0, flush |-> FALSE]
    /\ stack = <<>> /\ written = 0
    /\ rxBuffer = <<>> /\ rxMode = Free /\ rxCall = [phase |-> "idle", buf |-> <<>>]
    /\ handed = <<>> /\ received = 0
    /\ open = TRUE

Smaller(a, b) == IF a < b THEN a ELSE b
Taken(s, n) == SubSeq(s, 1, n)
Without(s, n) == SubSeq(s, n + 1, Len(s))
Quiet == sending.phase = "idle" /\ rxCall.phase = "idle"

-----------------------------------------------------------------------------
(* Sending.                                                                *)

WriteBytes ==
    /\ Quiet /\ ~sending.flush /\ open
    /\ \E len \in 1 .. MaxWritten - written :
          sending' = [sending EXCEPT !.phase = "fill", !.left = len]
    /\ UNCHANGED <<chain, stack, written, rxVars, open>>

FillBuffer ==
    /\ sending.phase = "fill"
    /\ LET w == Smaller(CbufSize - Len(Last(chain)), sending.left) IN
       /\ chain' = [chain EXCEPT ![Len(chain)] = @ \o [i \in 1 .. w |-> written + i]]
       /\ written' = written + w
       /\ sending' = [sending EXCEPT !.phase = "send", !.left = @ - w]
    /\ UNCHANGED <<stack, rxVars, open>>

\* Mutant: what was peeked is removed, not what was sent.
ShiftedByPeeked(c, taken, sent) ==
    IF taken = Len(Head(c)) /\ Len(c) > 1 THEN Tail(c) ELSE [c EXCEPT ![1] = Without(@, taken)]

\* An empty buffer with another after it is deleted.
Shifted(c, taken, sent) ==
    IF sent = Len(Head(c)) /\ Len(c) > 1 THEN Tail(c) ELSE [c EXCEPT ![1] = Without(@, sent)]

\* One round of _sendBuffer: lwIP takes some of what there is space for.
SendPiece ==
    /\ sending.phase = "send" /\ open
    /\ \E space \in 1 .. Len(Head(chain)) : \E sent \in 0 .. space :
          /\ stack' = stack \o Taken(Head(chain), sent)
          /\ chain' = Shifted(chain, space, sent)
    /\ UNCHANGED <<sending, written, rxVars, open>>

\* No more to send, no space, cannot send, or too little heap for the copy:
\* write() goes on, with a new buffer if it needs one and there is heap.
SendEnds ==
    LET more == sending.left > 0  full == Len(Last(chain)) = CbufSize IN
    /\ sending.phase = "send"
    /\ \/ /\ more
          /\ chain' = IF full THEN Append(chain, <<>>) ELSE chain
          /\ sending' = [sending EXCEPT !.phase = "fill"]
       \/ /\ more => full
          /\ sending' = [sending EXCEPT !.phase = "idle", !.left = 0]
          /\ UNCHANGED chain
    /\ UNCHANGED <<stack, written, rxVars, open>>

FlushBegins ==
    /\ Quiet /\ ~sending.flush
    /\ sending' = [sending EXCEPT !.flush = TRUE]
    /\ UNCHANGED <<chain, stack, written, rxVars, open>>

\* onPoll, onAck, and a round of flush()
SendAgain ==
    /\ Quiet /\ Head(chain) # <<>>
    /\ sending' = [sending EXCEPT !.phase = "send"]
    /\ UNCHANGED <<chain, stack, written, rxVars, open>>

FlushEnds ==
    /\ Quiet /\ sending.flush
    /\ Last(chain) = <<>> \/ ~open
    /\ sending' = [sending EXCEPT !.flush = FALSE]
    /\ UNCHANGED <<chain, stack, written, rxVars, open>>

-----------------------------------------------------------------------------
(* Receiving.                                                              *)

\* The callbacks return how much they used and may change the mode.
OutcomeFree(buf) ==
    { [fromBuffer |-> r, fromBuf |-> n, mode |-> m] :
         r \in 0 .. Len(rxBuffer), n \in 0 .. Len(buf), m \in Modes }

OutcomeBytes(buf) ==
    LET r == Smaller(rxMode.size, Len(rxBuffer))
        n == IF r = Len(rxBuffer) THEN Smaller(rxMode.size - r, Len(buf)) ELSE 0
        rest == rxMode.size - r - n
    IN  {[fromBuffer |-> r, fromBuf |-> n, mode |-> m] :
            m \in IF rest = 0 THEN Modes ELSE {[rxMode EXCEPT !.size = rest]}}

\* How many bytes up to and with the terminator.
Until(s) == LET hits == {i \in 1 .. Len(s) : s[i] \in Terminators}
            IN  IF hits = {} THEN Len(s) ELSE CHOOSE i \in hits : \A j \in hits : i <= j
EndsIn(s, n) == n > 0 /\ s[n] \in Terminators

OutcomeString(buf) ==
    LET r == Until(rxBuffer)
        n == IF EndsIn(rxBuffer, r) THEN 0 ELSE Until(buf)
    IN  {[fromBuffer |-> r, fromBuf |-> n, mode |-> m] :
            m \in IF EndsIn(rxBuffer, r) \/ EndsIn(buf, n) THEN Modes ELSE {rxMode}}

\* _handleRxBuffer: what it does to the buffer and how much of buf it handles.
Outcomes(buf) ==
    CASE ~open \/ rxMode.kind = "NONE" -> {[fromBuffer |-> 0, fromBuf |-> 0, mode |-> rxMode]}
      [] open /\ rxMode.kind = "FREE" ->
            {o \in OutcomeFree(buf) : o.fromBuf > 0 => o.fromBuffer = Len(rxBuffer)}
      [] open /\ rxMode.kind = "READ_BYTES" -> OutcomeBytes(buf)
      [] open /\ rxMode.kind = "TERMINATOR_STRING" -> OutcomeString(buf)

HandleRx(buf, o) ==
    /\ handed' = handed \o Taken(rxBuffer, o.fromBuffer) \o Taken(buf, o.fromBuf)
    /\ rxBuffer' = Without(rxBuffer, o.fromBuffer)
    /\ rxMode' = o.mode

RxData ==
    /\ Quiet /\ open
    /\ \E n \in 1 .. MaxReceived - received :
          /\ rxCall' = [phase |-> "first", buf |-> [i \in 1 .. n |-> received + i]]
          /\ received' = received + n
    /\ UNCHANGED <<txVars, rxBuffer, rxMode, handed, open>>

\* Handle as much as possible before using the buffer.
HandleFirst ==
    /\ rxCall.phase \in {"first", "more"}
    /\ rxCall.phase = "more" => rxMode.kind # "NONE" /\ rxCall.buf # <<>>
    /\ \E o \in Outcomes(rxCall.buf) :
          /\ HandleRx(rxCall.buf, o)
          /\ rxCall' = [phase |-> IF rxBuffer' = <<>> /\ o.fromBuf # 0 THEN "more" ELSE "store",
                        buf   |-> Without(rxCall.buf, o.fromBuf)]
    /\ UNCHANGED <<txVars, received, open>>

\* The buffer grows by what it lacks.
StoreRest ==
    /\ \/ rxCall.phase = "store"
       \/ rxCall.phase = "more" /\ (rxMode.kind = "NONE" \/ rxCall.buf = <<>>)
    /\ rxBuffer' = rxBuffer \o rxCall.buf
    /\ rxCall' = [phase |-> "rest", buf |-> <<>>]
    /\ UNCHANGED <<txVars, rxMode, handed, received, open>>

\* With no buf, what _handleRxBuffer returns is zero: one round.
HandleRest ==
    /\ rxCall.phase = "rest"
    /\ IF rxBuffer # <<>> /\ rxMode.kind # "NONE"
       THEN \E o \in Outcomes(<<>>) : HandleRx(<<>>, o)
       ELSE UNCHANGED <<rxBuffer, rxMode, handed>>
    /\ rxCall' = [rxCall EXCEPT !.phase = "idle"]
    /\ UNCHANGED <<txVars, received, open>>

SetMode ==
    /\ Quiet /\ open
    /\ rxMode' \in Modes
    /\ UNCHANGED <<txVars, rxBuffer, rxCall, handed, received, open>>

\* stop() between or in callbacks; the client's own disconnect keeps the mode.
StopClient ==
    /\ open /\ sending.phase = "idle"
    /\ open' = FALSE
    /\ rxMode' \in {NoMode, rxMode}
    /\ UNCHANGED <<txVars, rxBuffer, rxCall, handed, received>>

BufferNext ==
    \/ WriteBytes \/ FillBuffer \/ SendPiece \/ SendEnds
    \/ FlushBegins \/ SendAgain \/ FlushEnds
    \/ RxData \/ HandleFirst \/ StoreRest \/ HandleRest \/ SetMode \/ StopClient

BufferSpec == BufferInit /\ [][BufferNext]_asyncBufferVars

-----------------------------------------------------------------------------

\* The bytes leave in the order they were written and reach their readers in
\* the order they were received, none lost and none twice, whatever lwIP takes
\* and however the readers change; and when the last buffer is empty nothing is
\* left before it, which is what flush() and the poll callback rely on.
StreamKept ==
    /\ stack \o FlattenSeq(chain) = [i \in 1 .. written |-> i]
    /\ handed \o rxBuffer \o rxCall.buf = [i \in 1 .. received |-> i]
    /\ sending.phase = "idle" /\ Len(chain) > 1 => Head(chain) # <<>> /\ Last(chain) # <<>>
=============================================================================
