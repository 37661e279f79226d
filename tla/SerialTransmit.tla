---------------------------- MODULE SerialTransmit ----------------------------
(***************************************************************************)
(* SoftwareSerial.cpp: the sending side.  write() turns bytes into the     *)
(* bits of their frames and counts how long the line is to be high and     *)
(* then low; only when the line rises again does writePeriod drive what    *)
(* was counted, waiting with the interrupts off except at the end of a     *)
(* frame.  Time is counted in bits (m_bitCycles); the instructions between *)
(* two waits take none.  In one-wire mode the pin is shared with the       *)
(* receiver, and the sketch calls enableTx before and after it sends.      *)
(***************************************************************************)
EXTENDS Integers, Sequences

CONSTANTS WordLengths, \* data bits of a word
          Bytes,       \* bytes the sketch sends
          MaxMessage   \* bound: bytes of one write

\* Words of 5 to 8 bits, in bytes.
ASSUME TransmitAssumption == WordLengths \subseteq 5 .. 8 /\ Bytes \subseteq 0 .. 255

\* The powers of two, which the provers do not compute.
ASSUME PowersOfTwo ==
    /\ 2 ^ 0 = 1 /\ 2 ^ 1 = 2 /\ 2 ^ 2 = 4 /\ 2 ^ 3 = 8 /\ 2 ^ 4 = 16
    /\ 2 ^ 5 = 32 /\ 2 ^ 6 = 64 /\ 2 ^ 7 = 128 /\ 2 ^ 8 = 256

VARIABLES port,     \* the format and the pins
          message,  \* the bytes of the write, and its parity argument
          sender,   \* write() at work, with the line as it was driven
          phase     \* "idle", "sending" or "sent"

transmitVars == <<port, message, sender, phase>>

ParityModes == {"none", "even", "odd", "mark", "space"}
NoMessage == [bytes |-> <<>>, parity |-> "none"]

-----------------------------------------------------------------------------
(* The bits of a frame.                                                    *)

BitOf(byte, i) == (byte \div 2 ^ i) % 2 = 1
Ones(byte) == LET ones[i \in 0 .. 8] == IF i = 0 THEN 0 ELSE ones[i - 1] + ((byte \div 2 ^ (i - 1)) % 2)
              IN  ones[8]

\* The parity bit of the inverted byte; mark is never flipped, space always.
InvertedParity(inverted, parity) ==
    CASE parity = "even" -> Ones(inverted) % 2 = 0   \* the bits of 0x9669
      [] parity = "odd"  -> Ones(inverted) % 2 = 1   \* the bits of 0x6996
      [] parity = "mark" -> FALSE
      [] parity = "space" -> TRUE

\* The word of a byte, from its start bit to its stop bits.
FrameWord(byte, parity) ==
    LET n == port.dataBits
        inverted == 2 ^ n - 1 - (byte % (2 ^ n))
        level(i) == IF i = 0 THEN FALSE
                    ELSE IF i <= n THEN ~BitOf(inverted, i - 1)
                    ELSE IF i = n + 1 /\ parity # "none" /\ port.parityMode # "none"
                    THEN ~InvertedParity(inverted, parity)
                    ELSE TRUE
        m_pduBits == n + (IF port.parityMode # "none" THEN 1 ELSE 0) + port.stopBits
    IN [i \in 1 .. m_pduBits + 1 |-> level(i - 1) # port.invert]

-----------------------------------------------------------------------------
(* The line.                                                               *)

\* preciseDelay: the line stays as it is for the period; interrupts are on
\* while it waits unless the wait is to be exact.
PreciseDelay(o, sync) ==
    [o EXCEPT !.wave = @ \o [i \in 1 .. o.period |->
                                [level |-> o.pin, interrupts |-> ~sync \/ port.intTxEnabled]],
              !.period = 0]

\* Mutant: no wait between the high and the low part.
WritePeriodAtOnce(o, withStopBit) ==
    LET started == PreciseDelay(o, TRUE)
        high == [started EXCEPT !.pin = TRUE, !.period = @ + o.dutyCycle]
        raised == IF o.dutyCycle = 0 THEN started
                  ELSE IF withStopBit /\ ~port.invert THEN PreciseDelay(high, FALSE)
                  ELSE high
        low == [raised EXCEPT !.pin = FALSE, !.period = @ + o.offCycle]
    IN IF o.offCycle = 0 THEN raised
       ELSE IF withStopBit /\ port.invert THEN PreciseDelay(low, FALSE)
       ELSE low

\* writePeriod: the high part, then the low part.
WritePeriod(o, withStopBit) ==
    LET started == PreciseDelay(o, TRUE)
        high == [started EXCEPT !.pin = TRUE, !.period = @ + o.dutyCycle]
        raised == IF o.dutyCycle = 0 THEN started
                  ELSE IF o.offCycle # 0 \/ (withStopBit /\ ~port.invert)
                  THEN PreciseDelay(high, ~withStopBit \/ port.invert)
                  ELSE high
        low == [raised EXCEPT !.pin = FALSE, !.period = @ + o.offCycle]
    IN IF o.offCycle = 0 THEN raised
       ELSE IF withStopBit /\ port.invert THEN PreciseDelay(low, FALSE)
       ELSE low

\* One bit in the loop of write(): a rising line drives what was counted.
BitSent(o, bit) ==
    LET driven == IF ~o.b /\ bit
                  THEN [WritePeriod(o, o.withStopBit) EXCEPT
                           !.withStopBit = FALSE, !.dutyCycle = 0, !.offCycle = 0]
                  ELSE o
    IN IF bit THEN [driven EXCEPT !.b = bit, !.dutyCycle = @ + 1]
       ELSE [driven EXCEPT !.b = bit, !.offCycle = @ + 1]

\* The loop over the bits of a frame.
BitsSent(o, frame) ==
    LET sent[i \in 0 .. Len(frame)] == IF i = 0 THEN o ELSE BitSent(sent[i - 1], frame[i])
    IN  sent[Len(frame)]

-----------------------------------------------------------------------------
(* The calls.                                                              *)

NotSending == [pin |-> TRUE, b |-> TRUE, dutyCycle |-> 0, offCycle |-> 0, withStopBit |-> TRUE,
          period |-> 0, wave |-> <<>>, bytes |-> 0, enablePin |-> FALSE]
Resting == [NotSending EXCEPT !.pin = ~port.invert]

\* begin(): the pin is driven unless it is shared, and the receiver is on.
TransmitInit ==
    /\ \E n \in WordLengths, mode \in ParityModes, stop \in 1 .. 2,
          invert \in BOOLEAN, intTx \in BOOLEAN, oneWire \in BOOLEAN :
        port = [dataBits |-> n, parityMode |-> mode, stopBits |-> stop, invert |-> invert,
                intTxEnabled |-> intTx, oneWire |-> oneWire, txValid |-> TRUE,
                rxEnabled |-> TRUE, drives |-> ~oneWire]
    /\ message = NoMessage /\ sender = Resting /\ phase = "idle"

\* enableTx: in one-wire mode the pin is the sender's or the receiver's.
EnableTx(on) ==
    /\ phase = "idle"
    /\ port' = IF port.txValid /\ port.oneWire THEN [port EXCEPT !.rxEnabled = ~on, !.drives = on]
               ELSE port
    /\ UNCHANGED <<message, sender, phase>>

\* enableIntTx
EnableIntTx(on) ==
    /\ phase = "idle"
    /\ port' = [port EXCEPT !.intTxEnabled = on]
    /\ UNCHANGED <<message, sender, phase>>

\* end(): the port no longer sends, nor receives.
EndPort ==
    /\ phase = "idle"
    /\ port' = [port EXCEPT !.txValid = FALSE, !.rxEnabled = FALSE]
    /\ UNCHANGED <<message, sender, phase>>

\* write(): up to its loop.  Without a pin to send on it returns -1.
WriteBegins(bytes, parity) ==
    /\ phase = "idle" /\ port.txValid /\ port.drives
    /\ message' = [bytes |-> bytes, parity |-> parity]
    /\ sender' = [Resting EXCEPT !.b = ~port.invert, !.enablePin = TRUE]
    /\ phase' = "sending"
    /\ port' = port

\* One byte of the loop.
WriteByte ==
    /\ phase = "sending" /\ sender.bytes < Len(message.bytes)
    /\ LET frame == FrameWord(message.bytes[sender.bytes + 1], message.parity)
       IN  sender' = [BitsSent(sender, frame) EXCEPT !.withStopBit = TRUE, !.bytes = @ + 1]
    /\ UNCHANGED <<port, message, phase>>

\* After the loop: the last period, with its stop bits.
WriteEnds ==
    /\ phase = "sending" /\ sender.bytes = Len(message.bytes)
    /\ sender' = [WritePeriod(sender, TRUE) EXCEPT !.enablePin = FALSE]
    /\ phase' = "sent"
    /\ UNCHANGED <<port, message>>

WriteReturns ==
    /\ phase = "sent"
    /\ phase' = "idle" /\ message' = NoMessage /\ sender' = Resting
    /\ port' = port

TransmitNext ==
    \/ \E on \in BOOLEAN : EnableTx(on) \/ EnableIntTx(on)
    \/ EndPort
    \/ \E parity \in ParityModes :
        \/ \E a \in Bytes : WriteBegins(<<a>>, parity)
        \/ MaxMessage > 1 /\ \E a, b \in Bytes : WriteBegins(<<a, b>>, parity)
    \/ WriteByte \/ WriteEnds \/ WriteReturns

TransmitSpec == TransmitInit /\ [][TransmitNext]_transmitVars

-----------------------------------------------------------------------------
(* What the line should carry.                                             *)

\* parityEven and parityOdd of SoftwareSerial.h, which the receiver uses.
ParityBitFor(byte, parity) ==
    CASE parity = "even" -> Ones(byte) % 2 = 1
      [] parity = "odd"  -> Ones(byte) % 2 = 0
      [] OTHER           -> parity # "space"

HasParityBit == port.parityMode # "none"
FrameLength == 1 + port.dataBits + (IF HasParityBit THEN 1 ELSE 0) + port.stopBits
\* The level of bit i of the frame of a byte; the parity bit is given.
FrameLevel(byte, parityBit, i) ==
    (CASE i = 0 -> FALSE
       [] i \in 1 .. port.dataBits -> BitOf(byte, i - 1)
       [] i = port.dataBits + 1 /\ HasParityBit -> parityBit
       [] OTHER -> TRUE) # port.invert

BitAt(k, i) == sender.wave[k * FrameLength + i + 1]
AllSent == phase = "sent"
ParityPlace == port.dataBits + 1

\* Each byte is on the line as its frame, one after the other, without a
\* gap, and the line is left at rest with the enable pin low.
LineCarriesBytes == AllSent =>
    /\ Len(sender.wave) = Len(message.bytes) * FrameLength
    /\ \A k \in 0 .. Len(message.bytes) - 1 : \A i \in 0 .. FrameLength - 1 :
        LET byte == message.bytes[k + 1] IN
        BitAt(k, i).level = FrameLevel(byte, ParityBitFor(byte, message.parity), i)
        \/ (HasParityBit /\ i = ParityPlace)
    /\ sender.pin = ~port.invert /\ sender.period = 0 /\ ~sender.enablePin

\* The parity bit is what the write was asked for, for bytes of the word's
\* length: what the receiving side checks it against.
ParityAsAsked == AllSent /\ HasParityBit =>
    \A k \in 0 .. Len(message.bytes) - 1 :
        LET byte == message.bytes[k + 1] IN
        byte < 2 ^ port.dataBits
            => BitAt(k, ParityPlace).level = (ParityBitFor(byte, message.parity) # port.invert)

\* Interrupts are let in only where no edge of the frame is still to come.
EdgesUndisturbed == AllSent /\ ~port.intTxEnabled =>
    \A k \in 0 .. Len(message.bytes) - 1 : \A i \in 0 .. FrameLength - 1 :
        BitAt(k, i).interrupts => \A j \in i .. FrameLength - 1 : BitAt(k, j).level = BitAt(k, i).level

\* A shared pin is never driven while the receiver listens to it.
OneDriver == port.oneWire => ~(port.drives /\ port.rxEnabled)

\* The sending side does what a write asks; a parity of an odd number of data
\* bits is left out (see ParityAsAsked).
TransmitKept ==
    /\ LineCarriesBytes /\ EdgesUndisturbed /\ OneDriver
    /\ port.dataBits % 2 = 0 => ParityAsAsked
=============================================================================
