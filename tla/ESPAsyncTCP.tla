----------------------------- MODULE ESPAsyncTCP -----------------------------
(***************************************************************************)
(* ESPAsyncTCP.cpp: on the ESP8266 lwIP calls the client directly, and a   *)
(* callback must return ERR_ABRT exactly when it has called tcp_abort.     *)
(* The client may be deleted by its own handlers, so the error tracker     *)
(* outlives it.  A callback with all it calls is one step, on a record.    *)
(*                                                                         *)
(* The sketch follows the library's rules: it does not connect while it is *)
(* connecting, nor delete the client then or in its error handler; abort() *)
(* is not called by a handler, as SyncClient does when it has no memory,   *)
(* nor where onDisconnect deletes the client.                              *)
(***************************************************************************)
EXTENDS Integers

CONSTANTS Reuse,      \* a client connects again after its connection is lost
          LenModulus, \* the lengths are unsigned numbers below it
          MaxUnacked  \* bound: bytes lwIP holds

\* The send buffer of lwIP is far smaller than the span of a length.
ASSUME EspAssumption == LenModulus \in Nat /\ MaxUnacked \in Nat /\ MaxUnacked < LenModulus

VARIABLES deletes,    \* the sketch deletes the client in onDisconnect
          esp,        \* the client and its error tracker
          lwip,       \* what lwIP knows: the connection and bytes not acknowledged
          answer,     \* what the last callback returned and whether it aborted
          listening   \* AsyncServer: _pcb

espVars == <<deletes, esp, lwip, answer, listening>>

NewClient == [pcb |-> FALSE, deleted |-> FALSE, stale |-> FALSE, used |-> FALSE,
              hasClient |-> TRUE, closeError |-> "ERR_OK", errored |-> FALSE,
              closePcb |-> FALSE, busy |-> FALSE, unacked |-> 0, unsent |-> 0,
              sendFailed |-> FALSE, aborted |-> FALSE]
NoConnection == [state |-> "none", unacked |-> 0]

EspInit ==
    /\ deletes \in BOOLEAN
    /\ esp = NewClient
    /\ lwip = NoConnection
    /\ answer = [returned |-> "ERR_OK", aborted |-> FALSE]
    /\ listening = FALSE

-----------------------------------------------------------------------------
(* The error tracker.                                                      *)

SetCloseError(c, e) == IF c.errored THEN c ELSE [c EXCEPT !.closeError = e]
SetErrored(c) == [c EXCEPT !.errored = TRUE]
CloseErrorOf(c) == IF c.errored THEN "ERR_OK" ELSE c.closeError
\* ERR_ABRT is returned once.
Reported(c) == IF c.closeError = "ERR_ABRT" THEN SetErrored(c) ELSE c

-----------------------------------------------------------------------------
(* What callbacks and handlers do to the client; an access to a client     *)
(* that is deleted is recorded.                                            *)

Access(c) == [c EXCEPT !.stale = @ \/ c.deleted]
Deleted(c) == [c EXCEPT !.hasClient = FALSE, !.deleted = TRUE]
Discard(c) == IF deletes THEN Deleted(Access(c)) ELSE Access(c)

\* Mutant: the tracker is told only of what tcp_close returned.
CloseForgets(c) ==
    IF ~c.pcb THEN {c}
    ELSE {Discard([c EXCEPT !.pcb = FALSE]),
          Discard([c EXCEPT !.pcb = FALSE, !.aborted = TRUE])}

\* _close: the callbacks are cleared; lwIP closes, or has no memory to.
Close(c) ==
    IF ~c.pcb THEN {c}
    ELSE {Discard(SetCloseError([c EXCEPT !.pcb = FALSE], "ERR_OK")),
          Discard(SetCloseError([c EXCEPT !.pcb = FALSE, !.aborted = TRUE], "ERR_ABRT"))}

\* _error: the error handler is the first to be called.
Error(c) == Discard([c EXCEPT !.pcb = FALSE])

\* add() and send(); the bytes of a send that fails are no longer counted.
Sends(c) ==
    {[c EXCEPT !.busy = TRUE, !.unacked = (@ + c.unsent) % LenModulus, !.unsent = 0],
     [c EXCEPT !.unsent = 0, !.sendFailed = TRUE]}

\* A handler closes now or later, deletes the client, or does neither; it does not
\* call abort(), after which the callback would return ERR_OK.
Handler(c) ==
    {c, [c EXCEPT !.closePcb = TRUE]} \cup Close(c)
    \cup (IF deletes THEN {} ELSE {Deleted(d) : d \in Close(c)})

\* _recv: one buffer of the chain; without the client it is only freed.
RecvOne(c) ==
    IF ~c.hasClient THEN {c}
    ELSE {IF d.hasClient THEN Access(d) ELSE d : d \in Handler(Access(c))}

\* _sent
Sent(c, len) ==
    LET d == [c EXCEPT !.unacked = (@ - len) % LenModulus] IN
    IF d.unacked # 0 THEN {d}
    ELSE {IF h.hasClient THEN Access(h) ELSE h :
             h \in Handler(SetCloseError([d EXCEPT !.busy = FALSE], "ERR_OK"))}

\* _poll: a close that was asked for, the timeouts, the poll handler.
Poll(c) ==
    LET d == SetCloseError(c, "ERR_OK") IN
    IF c.closePcb THEN Close([d EXCEPT !.closePcb = FALSE])
    ELSE (IF c.busy THEN Handler([d EXCEPT !.busy = FALSE]) ELSE {}) \cup Close(d) \cup Handler(d)

-----------------------------------------------------------------------------
(* lwIP calls.                                                             *)

Established == lwip.state = "established"
\* lwIP has lost or closed the connection, or still has it.
After(c, was) == IF c.pcb THEN was ELSE NoConnection

\* A static callback: it keeps the tracker and returns what it says.
Callback(outcomes, was) ==
    \E c \in outcomes :
        /\ answer' = [returned |-> CloseErrorOf(c), aborted |-> c.aborted]
        /\ esp' = [Reported(c) EXCEPT !.aborted = FALSE]
        /\ lwip' = After(c, was)
        /\ UNCHANGED <<deletes, listening>>

Lost(c, e) == {Error(SetErrored(SetCloseError(c, e)))}

OnConnectedCb ==
    /\ lwip.state = "connecting"
    /\ \/ Callback(Handler([Access(esp) EXCEPT !.pcb = TRUE, !.busy = FALSE]),
                   [lwip EXCEPT !.state = "established"])
       \/ Callback(Lost(Access(esp), "ERR_CONN"), lwip)

OnRecvCb ==
    /\ Established
    /\ \/ Callback(RecvOne(SetCloseError(Access(esp), "ERR_OK")), lwip)
       \/ Callback(UNION {RecvOne(c) : c \in RecvOne(SetCloseError(Access(esp), "ERR_OK"))}, lwip)
       \/ Callback(Close(Access(esp)), lwip)                      \* pb == NULL
       \/ Callback(Lost(Access(esp), "ERR_CONN"), lwip)           \* err

OnSentCb ==
    /\ Established
    /\ \E len \in 1 .. lwip.unacked :
          Callback(Sent(Access(esp), len), [lwip EXCEPT !.unacked = @ - len])

OnPollCb ==
    /\ Established
    /\ Callback(Poll(Access(esp)), lwip)

\* _s_error: lwIP has freed the connection already; it returns nothing.
OnErrorCb ==
    /\ lwip.state \in {"connecting", "established"}
    /\ esp' \in Lost(Access(esp), "ERR_RST")
    /\ lwip' = NoConnection
    /\ UNCHANGED <<deletes, answer, listening>>

\* _dns_found: not found is an error; a connect() that fails is not told.
OnDnsFound ==
    /\ lwip.state = "resolving"
    /\ \/ lwip' \in {NoConnection, [lwip EXCEPT !.state = "connecting"]} /\ esp' = Access(esp)
       \/ lwip' = NoConnection /\ esp' = Discard(Access(esp))
    /\ UNCHANGED <<deletes, answer, listening>>

\* AsyncServer: the new client is given to the sketch, or there is no heap.
OnAcceptCb ==
    /\ listening /\ (esp.deleted \/ ~esp.used) /\ lwip.state = "none"
    /\ \/ Callback(Handler([NewClient EXCEPT !.pcb = TRUE, !.used = TRUE]),
                   [lwip EXCEPT !.state = "established"])
       \/ /\ answer' \in {[returned |-> "ERR_OK", aborted |-> FALSE],
                          [returned |-> "ERR_ABRT", aborted |-> TRUE]}
          /\ UNCHANGED <<deletes, esp, lwip, listening>>

-----------------------------------------------------------------------------
(* loop() calls.                                                           *)

Create ==
    /\ esp.deleted
    /\ esp' = NewClient
    /\ UNCHANGED <<deletes, lwip, answer, listening>>

Connects ==
    /\ ~esp.deleted /\ ~esp.pcb /\ lwip.state = "none"
    /\ ~esp.used \/ Reuse
    /\ esp' = [esp EXCEPT !.used = TRUE]
    /\ \E s \in {"none", "connecting", "resolving"} : lwip' = [lwip EXCEPT !.state = s]
    /\ UNCHANGED <<deletes, answer, listening>>

Calls(outcomes) ==
    /\ ~esp.deleted
    /\ \E c \in outcomes : esp' = [c EXCEPT !.aborted = FALSE] /\ lwip' = (IF esp.pcb THEN After(c, lwip) ELSE lwip)
    /\ UNCHANGED <<deletes, answer, listening>>

CloseLater == Calls({[esp EXCEPT !.closePcb = TRUE]})
CloseNow == Calls(Close(esp))
DeleteClient == ~deletes /\ lwip.state \notin {"connecting", "resolving"} /\ Calls({Deleted(c) : c \in Close(esp)})

\* abort(): lwIP calls _s_error, and then the client is told again.
Abort == ~deletes /\ esp.pcb /\ Calls(Lost(esp, "ERR_ABRT"))

AddBytes ==
    /\ ~esp.deleted /\ esp.pcb
    /\ \E n \in 1 .. MaxUnacked - lwip.unacked :
          /\ esp' = [esp EXCEPT !.unsent = (@ + n) % LenModulus]
          /\ lwip' = [lwip EXCEPT !.unacked = @ + n]
    /\ UNCHANGED <<deletes, answer, listening>>

SendBytes == esp.pcb /\ Calls(Sends(esp))

ServerBeginEnd ==
    /\ listening' = ~listening
    /\ UNCHANGED <<deletes, esp, lwip, answer>>

EspNext ==
    \/ OnConnectedCb \/ OnRecvCb \/ OnSentCb \/ OnPollCb \/ OnErrorCb \/ OnDnsFound \/ OnAcceptCb
    \/ Create \/ Connects \/ CloseLater \/ CloseNow \/ DeleteClient \/ Abort
    \/ AddBytes \/ SendBytes \/ ServerBeginEnd

EspSpec == EspInit /\ [][EspNext]_espVars

-----------------------------------------------------------------------------

\* A callback returns ERR_ABRT exactly if the connection was aborted in it, and
\* nothing touches a client its own handlers have deleted, if none calls abort().
AbortReported ==
    /\ (answer.returned = "ERR_ABRT") <=> answer.aborted
    /\ ~esp.stale

\* The bytes the client counts as sent and not acknowledged, and as not sent
\* yet, are the bytes lwIP holds, even when lwIP sends and is answered between
\* add() and send() and the count wraps, unless lwIP refused to send.
AckAccounted ==
    Established /\ esp.pcb /\ ~esp.sendFailed => (esp.unacked + esp.unsent) % LenModulus = lwip.unacked
=============================================================================
