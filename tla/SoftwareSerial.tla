--------------------------- MODULE SoftwareSerial ---------------------------
(***************************************************************************)
(* SoftwareSerial.cpp: the receiving side of a serial port on a pin.  The  *)
(* words a write() puts on the line become edges there; the pin interrupt  *)
(* notes the cycle and the level of each edge in a queue; loop() puts the  *)
(* words together again whenever it calls the port.                        *)
(*                                                                         *)
(* The cycle counter has no variable.  The code only ever subtracts two of *)
(* its values, so an edge has its age in cycles, modulo the span of the    *)
(* counter, and the passing of time makes every edge older.                *)
(*                                                                         *)
(* The queues of edges and bytes are sequences of limited length, which    *)
(* CircularQueue is shown to be.  The queue of parity bits has its slots,  *)
(* because the port writes into the one that is not yet pushed.            *)
(***************************************************************************)
EXTENDS Integers, Sequences

CONSTANTS
  m_dataBits, m_parityMode, m_stopBits,   \* the format: is there a parity bit
  m_bitCycles,
  CycleSpan,         \* values of a uint32_t
  BitSpan,           \* values of a uint8_t that counts bits
  ByteBits,          \* bits of a uint8_t that holds bits
  isrBufCapacity,
  bufCapacity,
  Words,             \* [byte, parity]: what is sent
  Latency,           \* most cycles from an edge to the reading of the counter for it
  MaxPause,          \* most bit times that begin while loop() is between two reads of rxBits()
  PollWithin,        \* most bit times that edges or an unfinished word wait for rxBits()
  MaxSent,           \* bound on the words sent
  MaxIdle,           \* bound on the bit times the line is quiet
  MaxSwitches        \* bound on the calls of enableRx(true)

m_pduBits == m_dataBits + (IF m_parityMode THEN 1 ELSE 0) + m_stopBits
Frame == m_pduBits + 1
Word == [byte : 0 .. 2 ^ m_dataBits - 1, parity : BOOLEAN]

ASSUME PortAssumption ==
  /\ m_dataBits \in Nat \ {0} /\ ByteBits \in Nat /\ m_dataBits <= ByteBits
  /\ m_parityMode \in BOOLEAN
  /\ m_stopBits \in 1 .. 2
  /\ m_bitCycles \in Nat \ {0} /\ CycleSpan \in Nat \ {0} /\ BitSpan \in Nat
  /\ BitSpan > m_pduBits + 1
  /\ isrBufCapacity \in Nat \ {0} /\ bufCapacity \in Nat \ {0}
  /\ Words \subseteq Word
  /\ Latency \in 0 .. m_bitCycles - 1
  /\ {MaxPause, PollWithin, MaxSent, MaxIdle, MaxSwitches} \subseteq Nat
  /\ MaxIdle >= Frame

\* What powers of two are, which the provers do not compute.
ASSUME Doubling == 2 ^ 0 = 1 /\ \A i \in 0 .. ByteBits : 2 ^ (i + 1) = 2 * 2 ^ i

VARIABLES
  \* The line.
  line,          \* its level
  word,          \* the levels still to come of the word being sent
  idle,          \* bit times since the last word ended
  sent,          \* the words so far, the last one perhaps still under way
  \* The interrupt.
  m_rxEnabled,
  m_isrBuffer,
  m_isrOverflow,
  \* The decoder.
  m_isrLastCycle, m_rxCurBit, m_rxCurByte, m_rxCurParity,
  \* The bytes.
  m_buffer,
  m_parityBuffer, parityIn, parityOut,   \* its slots, each the bits that are set, and positions
  m_parityInPos, m_parityOutPos,         \* the bit each mask selects
  m_overflow,
  \* The caller.
  pc,            \* where loop() is in rxBits()
  takes,         \* how many bytes the call takes after rxBits(), at most
  left,          \* the edges for_each has still to take
  pause,         \* bit times that began since rxBits() asked for the edges
  \* History.
  spoilt,        \* words that nobody can expect: an edge was lost
  dirty,         \* the decoder may be out of step
  since,         \* bit times since an edge was stored, up to BitSpan
  arrived,       \* words that were decoded
  owing,         \* something was lost that overflow() has not told
  switches       \* calls of enableRx(true)

lineVars    == <<line, word, idle, sent>>
rxVars      == <<m_rxEnabled, switches>>
isrVars     == <<rxVars, m_isrBuffer, m_isrOverflow>>
decoderVars == <<m_isrLastCycle, m_rxCurBit, m_rxCurByte, m_rxCurParity>>
parityVars  == <<m_parityBuffer, parityIn, parityOut, m_parityInPos, m_parityOutPos>>
callVars    == <<pc, takes, left, pause>>
lossVars    == <<spoilt, dirty, since>>
vars == <<lineVars, isrVars, decoderVars, m_buffer, parityVars, m_overflow, callVars,
          lossVars, arrived, owing>>

Least(a, b) == IF a <= b THEN a ELSE b

\* (bufCapacity + 7) / 8, and the spare slot of a circular_queue.
parityCapacity == (bufCapacity + ByteBits - 1) \div ByteBits
ParitySlots    == 0 .. parityCapacity
ParitySlot(p, n) == (p + n) % (parityCapacity + 1)
ParityAvailable  == ParitySlot(parityIn, parityCapacity + 1 - parityOut)

Bit(byte, i) == (byte \div 2 ^ i) % 2 = 1

\* write(): start bit, data bits from the lowest, parity bit, stop bits.
Levels(w) ==
  <<FALSE>> \o [i \in 1 .. m_dataBits |-> Bit(w.byte, i - 1)]
            \o (IF m_parityMode THEN <<w.parity>> ELSE <<>>)
            \o [i \in 1 .. m_stopBits |-> TRUE]

(* An edge: its age in cycles, the level it led to, and as history the word it belongs to  *)
(* and the bit of the word it begins; one that no line has shown comes after its word.    *)
Edge(age, level, of, at) == [age |-> age % CycleSpan, level |-> level, of |-> of, at |-> at]

Older(e) == Edge(e.age + m_bitCycles, e.level, e.of, e.at)

\* begin().  What new memory holds does not matter: no parity bit is read before it is written.
Init ==
  /\ line = TRUE /\ word = <<>> /\ idle = Frame /\ sent = <<>>
  /\ m_rxEnabled = TRUE /\ m_isrBuffer = <<>> /\ m_isrOverflow = FALSE
  /\ m_isrLastCycle = Edge(0, TRUE, 0, Frame)
  /\ m_rxCurBit = m_pduBits - 1 /\ m_rxCurByte = 0 /\ m_rxCurParity = FALSE
  /\ m_buffer = <<>>
  /\ m_parityBuffer = [s \in ParitySlots |-> {}] /\ parityIn = 0 /\ parityOut = 0
  /\ m_parityInPos = 0 /\ m_parityOutPos = 0
  /\ m_overflow = FALSE
  /\ pc = "idle" /\ takes = 0 /\ left = 0 /\ pause = 0
  /\ spoilt = {} /\ dirty = FALSE /\ since = 0 /\ arrived = {} /\ owing = FALSE /\ switches = 0
-----------------------------------------------------------------------------
(* The line and the interrupt. *)

\* A word of which rxBits() has seen a part.
Pending == m_rxCurBit \in -1 .. m_pduBits - m_stopBits - 1

\* The level of the next bit time; a word may begin when none is being sent.
NextBit ==
  \/ /\ word # <<>>
     /\ line' = Head(word) /\ word' = Tail(word)
     /\ UNCHANGED <<idle, sent>>
  \/ /\ word = <<>>
     /\ line' = TRUE
     /\ idle < MaxIdle
     /\ idle' = idle + 1
     /\ UNCHANGED <<word, sent>>
  \/ /\ word = <<>>
     /\ Len(sent) < MaxSent
     /\ \E w \in Words :
          /\ line' = FALSE /\ word' = Tail(Levels(w))
          /\ sent' = Append(sent, w)
     /\ idle' = 0

\* A decoder that lost edges is in step again after a quiet line, whose bits it could still count:
\* with its stop bits and the start bit, the bits it can still be waiting for.
InStep ==
  ~dirty \/ (m_rxEnabled /\ idle >= Frame - 2 * m_stopBits /\ since < BitSpan - 1)

\* The interrupt of an edge, j cycles ago.
rxBitISR(edges, j) ==
  IF Len(edges) < isrBufCapacity
  THEN /\ m_isrBuffer' = Append(edges, Edge(j, line', Len(sent'), m_pduBits - Len(word')))
       /\ since' = 0
       /\ UNCHANGED <<m_isrOverflow, owing>>
       /\ dirty' = (dirty /\ ~(sent' # sent /\ InStep))
       /\ spoilt' = IF dirty' THEN spoilt \cup {Len(sent')} ELSE spoilt
  ELSE /\ m_isrBuffer' = edges
       /\ since' = Least(since + 1, BitSpan)
       /\ m_isrOverflow' = TRUE /\ owing' = TRUE
       /\ dirty' = TRUE
       /\ spoilt' = spoilt \cup {Len(sent')}

\* A bit time begins.  The counter stands at the latest cycle for the interrupt of its edge.
BitTime ==
  /\ pc = "asked" => pause < MaxPause
  /\ since >= PollWithin => m_isrBuffer = <<>> /\ ~Pending
  /\ NextBit
  /\ m_isrLastCycle' = Older(m_isrLastCycle)
  /\ LET edges == [i \in DOMAIN m_isrBuffer |-> Older(m_isrBuffer[i])]
     IN  IF m_rxEnabled /\ line' # line
         THEN \E j \in 0 .. Latency : rxBitISR(edges, j)
         ELSE /\ m_isrBuffer' = edges
              /\ since' = Least(since + 1, BitSpan)
              /\ spoilt' = IF sent' # sent THEN spoilt \cup {Len(sent')} ELSE spoilt
              /\ UNCHANGED <<m_isrOverflow, owing, dirty>>
  /\ pause' = IF pc = "asked" THEN pause + 1 ELSE pause
  /\ UNCHANGED <<rxVars, m_rxCurBit, m_rxCurByte, m_rxCurParity, m_buffer, parityVars,
                 m_overflow, pc, takes, left, arrived>>
-----------------------------------------------------------------------------
(* rxBits(isrCycle): the bits between two edges.  The stages are the      *)
(* branches of its loop; each is taken once at most, before the later ones. *)

\* Mutant: not rounded.
BitsCutOff(cycles) == (cycles \div m_bitCycles) % BitSpan

\* cycles / m_bitCycles, rounded, in a uint8_t.
Bits(cycles) ==
  (cycles \div m_bitCycles + (IF cycles % m_bitCycles > m_bitCycles \div 2 THEN 1 ELSE 0)) % BitSpan

StartBit(d, level) ==
  IF d.bits = 0 \/ d.cur < m_pduBits - 1 THEN d
  ELSE IF level THEN [d EXCEPT !.bits = 0]
  ELSE [d EXCEPT !.bits = @ - 1, !.cur = -1]

\* n bits are shifted into a byte from above.
Shifted(byte, n, level) ==
  byte \div 2 ^ n + (IF level THEN (2 ^ n - 1) * 2 ^ (ByteBits - n) ELSE 0)

DataBits(d, level) ==
  LET n == IF d.cur < m_dataBits - 1 THEN Least(d.bits, m_dataBits - 1 - d.cur) ELSE 0
  IN  [d EXCEPT !.bits = @ - n, !.cur = @ + n, !.byte = Shifted(@, n, level)]

ParityBit(d, level) ==
  IF d.bits > 0 /\ m_parityMode /\ d.cur = m_dataBits - 1
  THEN [d EXCEPT !.bits = @ - 1, !.cur = @ + 1, !.parity = level]
  ELSE d

\* Mutant: the decoder does not move on.
StopBitAgain(d, level) ==
  IF d.bits > 0 /\ d.cur = m_pduBits - m_stopBits - 1
  THEN [d EXCEPT !.bits = 0,
                 !.out = IF level THEN <<[byte |-> d.byte, parity |-> d.parity]>> ELSE <<>>]
  ELSE d

\* The word is stored if the level is that of a stop bit, and dropped if not.
StopBit(d, level) ==
  IF d.bits > 0 /\ d.cur = m_pduBits - m_stopBits - 1
  THEN [bits |-> 0, cur |-> m_pduBits, byte |-> 0, parity |-> FALSE,
        out |-> IF level
                THEN <<[byte |-> d.byte \div 2 ^ (ByteBits - m_dataBits), parity |-> d.parity]>>
                ELSE <<>>]
  ELSE d

Decoded(cycles, level) ==
  LET d == [bits |-> Bits(cycles), cur |-> m_rxCurBit, byte |-> m_rxCurByte,
            parity |-> m_rxCurParity, out |-> <<>>]
  IN  StopBit(ParityBit(DataBits(StartBit(d, level), level), level), level)

\* The byte into its queue, its parity bit into the slot that is filled next.
Store(w, of) ==
  /\ arrived' = arrived \cup {of}
  /\ IF Len(m_buffer) = bufCapacity
     THEN /\ owing' = TRUE
          /\ UNCHANGED <<m_buffer, parityVars>>
     ELSE /\ m_buffer' = Append(m_buffer, [byte |-> w.byte, of |-> of])
          /\ IF m_parityMode
             THEN /\ m_parityBuffer' =
                       [m_parityBuffer EXCEPT ![parityIn] =
                          IF w.parity THEN @ \cup {m_parityInPos} ELSE @ \ {m_parityInPos}]
                  /\ m_parityInPos' = (m_parityInPos + 1) % ByteBits
                  /\ parityIn' = IF m_parityInPos' = 0 /\ ParityAvailable < parityCapacity
                                 THEN ParitySlot(parityIn, 1) ELSE parityIn
                  /\ UNCHANGED <<parityOut, m_parityOutPos>>
             ELSE UNCHANGED parityVars
          /\ UNCHANGED owing

\* Mutant: the flag is assigned where it should be kept.
TakeEdgeForgets(e, flagged) ==
  LET level == m_isrLastCycle.level
      d == Decoded((m_isrLastCycle.age - e.age) % CycleSpan, level)
  IN  /\ m_isrLastCycle' = e
      /\ m_rxCurBit' = d.cur /\ m_rxCurByte' = d.byte /\ m_rxCurParity' = d.parity
      /\ m_overflow' = (d.out # <<>> /\ Len(m_buffer) = bufCapacity)
      /\ IF d.out = <<>> THEN UNCHANGED <<m_buffer, parityVars, arrived, owing>>
                         ELSE Store(d.out[1], m_isrLastCycle.of)

\* rxBits(isrCycle); flagged: m_overflow before it.
TakeEdge(e, flagged) ==
  LET level == m_isrLastCycle.level
      d == Decoded((m_isrLastCycle.age - e.age) % CycleSpan, level)
  IN  /\ m_isrLastCycle' = e
      /\ m_rxCurBit' = d.cur /\ m_rxCurByte' = d.byte /\ m_rxCurParity' = d.parity
      /\ m_overflow' = (flagged \/ (d.out # <<>> /\ Len(m_buffer) = bufCapacity))
      /\ IF d.out = <<>> THEN UNCHANGED <<m_buffer, parityVars, arrived, owing>>
                         ELSE Store(d.out[1], m_isrLastCycle.of)
-----------------------------------------------------------------------------
(* The calls of loop().  Time passes between two reads of rxBits(), and between any two edges. *)

\* rxBits() begins: isrAvail.
Ask(n) ==
  /\ pc' = "asked" /\ takes' = n /\ left' = Len(m_isrBuffer) /\ pause' = 0
  /\ UNCHANGED <<lineVars, isrVars, decoderVars, m_buffer, parityVars, m_overflow, lossVars,
                 arrived, owing>>

\* available(), write() and perform_work() look at the line in any case, peek() if it has no byte.
available == pc = "idle" /\ Ask(0)

\* Mutant: edges that wait are not looked at.
FauxStopBitEager(later) ==
  LET detectionCycles == (m_pduBits - m_stopBits - m_rxCurBit) * m_bitCycles
  IN  IF Pending /\ (m_isrLastCycle.age + later) % CycleSpan > detectionCycles
      THEN TakeEdge(Edge(m_isrLastCycle.age - detectionCycles, TRUE, m_isrLastCycle.of, Frame),
                    m_overflow \/ m_isrOverflow)
      ELSE /\ m_overflow' = (m_overflow \/ m_isrOverflow)
           /\ UNCHANGED <<decoderVars, m_buffer, parityVars, arrived, owing>>

\* Mutant: waits for the stop bits too.
FauxStopBitLate(later) ==
  LET detectionCycles == (m_pduBits - m_rxCurBit) * m_bitCycles
  IN  IF left = 0 /\ Pending
         /\ (m_isrLastCycle.age + later) % CycleSpan > detectionCycles
      THEN TakeEdge(Edge(m_isrLastCycle.age - detectionCycles, TRUE, m_isrLastCycle.of, Frame),
                    m_overflow \/ m_isrOverflow)
      ELSE /\ m_overflow' = (m_overflow \/ m_isrOverflow)
           /\ UNCHANGED <<decoderVars, m_buffer, parityVars, arrived, owing>>

\* The stop bit that no edge has shown, when the counter has gone on by later cycles.
FauxStopBit(later) ==
  LET detectionCycles == (m_pduBits - m_stopBits - m_rxCurBit) * m_bitCycles
  IN  IF left = 0 /\ Pending
         /\ (m_isrLastCycle.age + later) % CycleSpan > detectionCycles
      THEN TakeEdge(Edge(m_isrLastCycle.age - detectionCycles, TRUE, m_isrLastCycle.of, Frame),
                    m_overflow \/ m_isrOverflow)
      ELSE /\ m_overflow' = (m_overflow \/ m_isrOverflow)
           /\ UNCHANGED <<decoderVars, m_buffer, parityVars, arrived, owing>>

\* rxBits(): the overflow of the interrupt, the pending byte, and the edges for_each() will take.
\* An edge that comes between these waits for the next call, which decodes it alike.
Check ==
  /\ pc = "asked"
  /\ pc' = "each" /\ left' = Len(m_isrBuffer) /\ pause' = 0
  /\ m_isrOverflow' = FALSE
  /\ \E later \in 0 .. m_bitCycles - 1 - Latency : FauxStopBit(later)
  /\ UNCHANGED <<lineVars, rxVars, m_isrBuffer, takes, lossVars>>

EachEdge ==
  /\ pc = "each"
  /\ left > 0
  /\ left' = left - 1
  /\ TakeEdge(Head(m_isrBuffer), m_overflow)
  /\ m_isrBuffer' = Tail(m_isrBuffer)
  /\ UNCHANGED <<lineVars, rxVars, m_isrOverflow, pc, takes, pause, lossVars>>

\* What read() and peek() return for the first byte, with readParity().
First == [byte   |-> m_buffer[1].byte,
          parity |-> m_parityOutPos \in m_parityBuffer[parityOut],
          of     |-> m_buffer[1].of]

\* Mutant: the parity byte that is read through stays.
TakeKeepsSlot(n) ==
  /\ m_buffer' = SubSeq(m_buffer, n + 1, Len(m_buffer))
  /\ IF m_parityMode
     THEN /\ m_parityOutPos' = (m_parityOutPos + n) % ByteBits
          /\ UNCHANGED parityOut
     ELSE UNCHANGED <<m_parityOutPos, parityOut>>
  /\ UNCHANGED <<m_parityBuffer, parityIn, m_parityInPos>>

\* read() and read(buffer, size): bytes, and the bytes of parity bits that are through with them.
Take(n) ==
  /\ m_buffer' = SubSeq(m_buffer, n + 1, Len(m_buffer))
  /\ IF m_parityMode
     THEN /\ m_parityOutPos' = (m_parityOutPos + n) % ByteBits
          /\ parityOut' =
               ParitySlot(parityOut, Least((m_parityOutPos + n) \div ByteBits, ParityAvailable))
     ELSE UNCHANGED <<m_parityOutPos, parityOut>>
  /\ UNCHANGED <<m_parityBuffer, parityIn, m_parityInPos>>

\* A call that finds a byte does without rxBits(); one that finds none asks.
read(size) ==
  /\ pc = "idle"
  /\ IF m_buffer # <<>>
     THEN /\ Take(Least(size, Len(m_buffer)))
          /\ UNCHANGED <<lineVars, isrVars, decoderVars, m_overflow, callVars, lossVars, arrived,
                         owing>>
     ELSE Ask(size)

\* rxBits() is over, and the call goes on.
Return ==
  /\ pc = "each"
  /\ left = 0
  /\ pc' = "idle" /\ takes' = 0
  /\ Take(Least(takes, Len(m_buffer)))
  /\ UNCHANGED <<lineVars, isrVars, decoderVars, m_overflow, left, pause, lossVars,
                 arrived, owing>>

flush ==
  /\ pc = "idle"
  /\ m_buffer' = <<>>
  /\ IF m_parityMode
     THEN /\ m_parityInPos' = 0 /\ m_parityOutPos' = 0 /\ parityOut' = parityIn
          /\ UNCHANGED <<m_parityBuffer, parityIn>>
     ELSE UNCHANGED parityVars
  /\ UNCHANGED <<lineVars, isrVars, decoderVars, m_overflow, callVars, lossVars, arrived, owing>>

\* overflow(): what it tells is told.
overflow ==
  /\ pc = "idle"
  /\ m_overflow' = FALSE
  /\ owing' = (owing /\ (m_isrOverflow \/ ~m_overflow))
  /\ UNCHANGED <<lineVars, isrVars, decoderVars, m_buffer, parityVars, callVars, lossVars, arrived>>

\* enableRx(): what was under way is given up; the edges in the queue stay.
enableRx(on) ==
  /\ pc = "idle"
  /\ switches < MaxSwitches
  /\ switches' = IF on THEN switches + 1 ELSE switches
  /\ m_rxEnabled' = on
  /\ dirty' = TRUE
  /\ IF on
     THEN /\ m_rxCurBit' = m_pduBits - 1
          /\ m_isrLastCycle' = Edge(0, TRUE, Len(sent), Frame)
          /\ spoilt' = spoilt \cup ((1 .. Len(sent)) \ arrived)
          /\ since' = IF m_isrBuffer = <<>> THEN 0 ELSE since
     ELSE /\ spoilt' = IF idle = 0 THEN spoilt \cup {Len(sent)} ELSE spoilt
          /\ UNCHANGED <<m_rxCurBit, m_isrLastCycle, since>>
  /\ UNCHANGED <<lineVars, m_isrBuffer, m_isrOverflow, m_rxCurByte, m_rxCurParity, m_buffer,
                 parityVars, m_overflow, callVars, arrived, owing>>

Next ==
  \/ BitTime
  \/ available \/ Check \/ EachEdge \/ Return
  \/ \E size \in 1 .. bufCapacity : read(size)
  \/ flush \/ overflow
  \/ \E on \in BOOLEAN : enableRx(on)

Spec == Init /\ [][Next]_vars
=============================================================================
