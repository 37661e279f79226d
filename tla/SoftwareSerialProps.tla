------------------------ MODULE SoftwareSerialProps -------------------------
(***************************************************************************)
(* What a serial port owes the loop() that reads it.                       *)
(***************************************************************************)
EXTENDS SoftwareSerial

\* What the decoder needs of its surroundings: an interrupt is late by less than half a bit, less
\* than two bit times begin between the two reads of rxBits(), an unfinished word is looked at
\* before its bits overflow their count, and the cycle counter spans as many bits.
Paced ==
  /\ 2 * Latency < m_bitCycles
  /\ MaxPause <= 1
  /\ PollWithin < BitSpan
  /\ CycleSpan >= BitSpan * m_bitCycles

\* The types of all the state (SoftwareSerial.h 214-256).
TypeOK ==
  /\ line \in BOOLEAN /\ word \in Seq(BOOLEAN)
  /\ idle \in 0 .. MaxIdle /\ sent \in Seq(Words) /\ Len(sent) <= MaxSent
  /\ m_rxEnabled \in BOOLEAN /\ m_isrOverflow \in BOOLEAN
  /\ Len(m_isrBuffer) <= isrBufCapacity
  /\ m_isrLastCycle.age \in 0 .. CycleSpan - 1
  /\ m_rxCurBit \in -1 .. m_pduBits
  /\ m_rxCurByte \in 0 .. 2 ^ ByteBits - 1 /\ m_rxCurParity \in BOOLEAN
  /\ Len(m_buffer) <= bufCapacity
  /\ \A i \in DOMAIN m_buffer : m_buffer[i].byte \in 0 .. 2 ^ m_dataBits - 1
  /\ m_parityBuffer \in [ParitySlots -> SUBSET (0 .. ByteBits - 1)]
  /\ {parityIn, parityOut} \subseteq ParitySlots
  /\ {m_parityInPos, m_parityOutPos} \subseteq 0 .. ByteBits - 1
  /\ m_overflow \in BOOLEAN
  /\ pc \in {"idle", "asked", "each"}
  /\ left \in 0 .. Len(m_isrBuffer)

\* What read() and peek() would return is what was sent, byte and parity bit, unless the port was
\* switched or an edge of it was lost (SoftwareSerial.cpp 437-512 and 188-216).
ReadAsSent ==
  m_buffer # <<>> /\ First.of \notin spoilt =>
    /\ First.byte = sent[First.of].byte
    /\ m_parityMode => First.parity = sent[First.of].parity

\* No word comes out of the decoder twice or after a later one: the stop bit that rxBits() makes
\* up and the edge of the next word do not both end a word (SoftwareSerial.cpp 425-434, 477-508).
InOrder ==
  [][Len(m_buffer') > Len(m_buffer) =>
       LET k == m_buffer'[Len(m_buffer')].of
       IN  k \in spoilt \/ \A j \in arrived : j < k]_vars

\* When no edge waits and the decoder is in no word, every word has come out of the decoder:
\* none is taken for noise or torn in two by the stop bit that is made up
\* (SoftwareSerial.cpp 410-434 and 437-512).
NoneMissing ==
  m_isrBuffer = <<>> /\ ~Pending /\ m_isrLastCycle.level
    => 1 .. Len(sent) \subseteq spoilt \cup arrived

\* On a quiet line a call that finds no edge ends the word that is under way: no byte waits for
\* the next one to begin (SoftwareSerial.cpp 424-434).
QuietEndsWord ==
  [][Check /\ left = 0 /\ idle > (IF dirty THEN Frame ELSE 1) => ~Pending']_vars

\* The bits of the parity queue are those of the bytes that wait: what one byte read or given up
\* takes of it is right whichever call took it (SoftwareSerial.cpp 188-216, 382-390, 487-501).
ParityInStep ==
  m_parityMode =>
    /\ m_parityInPos   = (m_parityOutPos + Len(m_buffer)) % ByteBits
    /\ ParityAvailable = (m_parityOutPos + Len(m_buffer)) \div ByteBits

\* What is lost for want of room is told (SoftwareSerial.cpp 411-422 and 391-395).
LossIsTold == owing => m_overflow \/ m_isrOverflow
=============================================================================
