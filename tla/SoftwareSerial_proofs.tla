----------------------- MODULE SoftwareSerial_proofs ------------------------
(***************************************************************************)
(* What a serial port loses is told, and the bits of its parity queue stay *)
(* in step with the bytes, for every format, every size of its queues and  *)
(* whatever the pace of the line and of loop().  And if the interrupts are *)
(* not too late and loop() calls often enough (Paced), each word that no   *)
(* overflow or switching has spoilt is read as it was sent, once and in    *)
(* order, and none stays in a decoder that has lost track of it.           *)
(***************************************************************************)
EXTENDS SoftwareSerialProps, WellFoundedInduction, SequenceTheorems, TLAPS

(* Quotient and remainder. *)

\* What \div and % return.
LEMMA Quotient ==
  ASSUME NEW B \in Nat \ {0}, NEW a \in Nat
  PROVE  /\ a = B * (a \div B) + (a % B)
         /\ a % B \in 0 .. B - 1
         /\ a \div B \in Nat
PROOF BY SMT

\* No other numbers are quotient and remainder.
LEMMA QuotientUnique ==
  ASSUME NEW B \in Nat \ {0}, NEW q \in Nat, NEW r \in 0 .. B - 1
  PROVE  (B * q + r) % B = r /\ (B * q + r) \div B = q
PROOF BY SMT

\* Quotients are in the order of their multiples.
LEMMA QuotientOrder ==
  ASSUME NEW B \in Nat \ {0}, NEW q \in Nat, NEW r \in Nat, NEW x \in 0 .. B - 1,
         B * r <= B * q + x
  PROVE  r <= q
<1> SUFFICES ASSUME r > q PROVE FALSE
  OBVIOUS
<1>1. PICK d \in Nat : r = q + 1 + d
  <2>1. r - q - 1 \in Nat
    OBVIOUS
  <2> QED BY <2>1
<1>2. B * r = B * q + B + B * d
  BY <1>1
<1>3. B * d \in Nat
  OBVIOUS
<1>4. B * q \in Nat
  OBVIOUS
<1> QED BY <1>2, <1>3, <1>4

\* The slots of a ring, up to a full turn on.
LEMMA RingStep ==
  ASSUME NEW C \in Nat, NEW p \in 0 .. C, NEW n \in 0 .. C + 1
  PROVE  (p + n) % (C + 1) = IF p + n <= C THEN p + n ELSE p + n - (C + 1)
PROOF OBVIOUS
\* The distance of two slots, as a difference of their numbers.
LEMMA RingDistance ==
  ASSUME NEW C \in Nat, NEW in \in 0 .. C, NEW out \in 0 .. C
  PROVE  (in + (C + 1 - out)) % (C + 1) = IF out <= in THEN in - out ELSE in - out + C + 1
<1>1. C + 1 - out \in 0 .. C + 1
  OBVIOUS
<1>2. (in + (C + 1 - out)) % (C + 1) =
        IF in + (C + 1 - out) <= C THEN in + (C + 1 - out) ELSE in + (C + 1 - out) - (C + 1)
  BY <1>1, RingStep
<1> QED BY <1>1, <1>2

\* The reader goes on, and the distance shrinks.
LEMMA RingTake ==
  ASSUME NEW C \in Nat, NEW in \in 0 .. C, NEW out \in 0 .. C, NEW r \in Nat,
         r <= (in + (C + 1 - out)) % (C + 1)
  PROVE  /\ (out + r) % (C + 1) \in 0 .. C
         /\ (in + (C + 1 - ((out + r) % (C + 1)))) % (C + 1) = ((in + (C + 1 - out)) % (C + 1)) - r
<1> DEFINE q == (in + (C + 1 - out)) % (C + 1)
           next == (out + r) % (C + 1)
<1>1. q = IF out <= in THEN in - out ELSE in - out + C + 1
  BY RingDistance
<1>2. r \in 0 .. C
  BY <1>1
<1>3. next = IF out + r <= C THEN out + r ELSE out + r - (C + 1)
  BY <1>2, RingStep
<1>4. next \in 0 .. C
  BY <1>2, <1>3
<1> HIDE DEF next
<1>5. (in + (C + 1 - next)) % (C + 1) = IF next <= in THEN in - next ELSE in - next + C + 1
  BY <1>4, RingDistance
<1>6. (in + (C + 1 - next)) % (C + 1) = q - r
  BY <1>1, <1>2, <1>3, <1>5
<1> QED BY <1>4, <1>6 DEF next

\* The writer goes on, and the distance grows.
LEMMA RingAdd ==
  ASSUME NEW C \in Nat, NEW in \in 0 .. C, NEW out \in 0 .. C,
         (in + (C + 1 - out)) % (C + 1) < C
  PROVE  /\ (in + 1) % (C + 1) \in 0 .. C
         /\ (((in + 1) % (C + 1)) + (C + 1 - out)) % (C + 1)
              = ((in + (C + 1 - out)) % (C + 1)) + 1
<1> DEFINE q == (in + (C + 1 - out)) % (C + 1)
           next == (in + 1) % (C + 1)
<1>1. q = IF out <= in THEN in - out ELSE in - out + C + 1
  BY RingDistance
<1>2. next = IF in + 1 <= C THEN in + 1 ELSE in + 1 - (C + 1)
  BY RingStep
<1>3. next \in 0 .. C
  BY <1>2
<1> HIDE DEF next
<1>4. (next + (C + 1 - out)) % (C + 1) = IF out <= next THEN next - out ELSE next - out + C + 1
  BY <1>3, RingDistance
<1>5. (next + (C + 1 - out)) % (C + 1) = q + 1
  BY <1>1, <1>2, <1>4
<1> QED BY <1>3, <1>5 DEF next
-----------------------------------------------------------------------------
(* The parameters. *)

\* The parity queue has room for the bits of a full byte queue, wherever the first one sits.
LEMMA ParityRoom ==
  /\ ByteBits \in Nat \ {0} /\ bufCapacity \in Nat \ {0}
  /\ parityCapacity \in Nat
  /\ \A q \in Nat : ByteBits * q <= bufCapacity + ByteBits - 1 => q <= parityCapacity
<1>1. ByteBits \in Nat \ {0} /\ bufCapacity \in Nat \ {0}
  BY PortAssumption
<1>2. bufCapacity + ByteBits - 1 \in Nat
  BY <1>1
<1>3. /\ bufCapacity + ByteBits - 1
           = ByteBits * parityCapacity + ((bufCapacity + ByteBits - 1) % ByteBits)
      /\ (bufCapacity + ByteBits - 1) % ByteBits \in 0 .. ByteBits - 1
      /\ parityCapacity \in Nat
  BY <1>1, <1>2, Quotient DEF parityCapacity
<1>4. ASSUME NEW q \in Nat, ByteBits * q <= bufCapacity + ByteBits - 1
      PROVE  q <= parityCapacity
  BY <1>1, <1>3, <1>4, QuotientOrder
<1> QED BY <1>1, <1>3, <1>4
-----------------------------------------------------------------------------
(* The inductive invariant of the byte queue and its parity queue. *)

\* The byte queue.
BytesPart ==
  /\ \E S : m_buffer \in Seq(S)
  /\ Len(m_buffer) <= bufCapacity
  /\ takes \in Nat

\* The positions in the parity queue.
Positions ==
  /\ parityIn \in ParitySlots /\ parityOut \in ParitySlots
  /\ m_parityInPos \in 0 .. ByteBits - 1 /\ m_parityOutPos \in 0 .. ByteBits - 1

ParityInv == BytesPart /\ Positions /\ ParityInStep

\* What is left of the byte queue when n bytes are taken (SoftwareSerial.cpp 188, 205-207).
LEMMA BytesTaken ==
  ASSUME ParityInv, NEW n \in 0 .. Len(m_buffer),
         m_buffer' = SubSeq(m_buffer, n + 1, Len(m_buffer))
  PROVE  /\ \E S : m_buffer' \in Seq(S)
         /\ Len(m_buffer') = Len(m_buffer) - n
         /\ Len(m_buffer') <= bufCapacity
<1>1. PICK S : m_buffer \in Seq(S)
  BY DEF ParityInv, BytesPart
<1>2. Len(m_buffer) \in Nat /\ Len(m_buffer) <= bufCapacity /\ bufCapacity \in Nat
  BY <1>1, ParityRoom DEF ParityInv, BytesPart
<1>3. n + 1 \in 1 .. Len(m_buffer) + 1
  BY <1>2
<1>4. \A i \in n + 1 .. Len(m_buffer) : m_buffer[i] \in S
  BY <1>1, <1>2
<1>5. m_buffer' \in Seq(S) /\ Len(m_buffer') = Len(m_buffer) - n
  BY <1>1, <1>2, <1>3, <1>4, SubSeqProperties
<1> QED BY <1>2, <1>5

\* n bytes are taken: the mask goes n bits on, and a parity byte goes at each turn of it
\* (SoftwareSerial.cpp 191-197 and 210-215).
LEMMA TakeKeeps ==
  ASSUME ParityInv, m_parityMode, NEW n \in 0 .. Len(m_buffer), Take(n)
  PROVE  /\ \E S : m_buffer' \in Seq(S)
         /\ Len(m_buffer') <= bufCapacity
         /\ Positions' /\ ParityInStep'
<1> DEFINE B == ByteBits
           C == parityCapacity
           K == m_parityOutPos + Len(m_buffer)
           q == ParityAvailable
           r == (m_parityOutPos + n) \div B
           x == (m_parityOutPos + n) % B
<1>1. /\ B \in Nat \ {0} /\ C \in Nat /\ bufCapacity \in Nat
      /\ m_parityOutPos \in 0 .. B - 1 /\ m_parityInPos \in 0 .. B - 1
      /\ parityIn \in 0 .. C /\ parityOut \in 0 .. C
      /\ Len(m_buffer) \in Nat /\ K \in Nat /\ m_parityOutPos + n \in Nat
  BY ParityRoom DEF ParityInv, BytesPart, Positions, ParitySlots
<1>2. K = B * q + m_parityInPos /\ q \in Nat
  BY <1>1, Quotient DEF ParityInv, ParityInStep
<1>3. m_parityOutPos + n = B * r + x /\ r \in Nat /\ x \in 0 .. B - 1
  BY <1>1, Quotient
<1>4. r <= q
  <2>1. B * r <= B * q + m_parityInPos
    BY <1>1, <1>2, <1>3
  <2> QED BY <2>1, <1>1, <1>2, <1>3, QuotientOrder
<1>5. /\ \E S : m_buffer' \in Seq(S)
      /\ Len(m_buffer') = Len(m_buffer) - n
  BY BytesTaken DEF Take
<1>6. /\ m_parityOutPos' = x /\ parityOut' = (parityOut + r) % (C + 1)
      /\ parityIn' = parityIn /\ m_parityInPos' = m_parityInPos
  BY <1>1, <1>2, <1>3, <1>4 DEF Take, Least, ParitySlot
<1>7. q = (parityIn + (C + 1 - parityOut)) % (C + 1)
  BY DEF ParityAvailable, ParitySlot
<1>8. parityOut' \in 0 .. C /\ (parityIn + (C + 1 - parityOut')) % (C + 1) = q - r
  <2> HIDE DEF B, C, q, r
  <2>1. r <= (parityIn + (C + 1 - parityOut)) % (C + 1)
    BY <1>4, <1>7
  <2>2. /\ (parityOut + r) % (C + 1) \in 0 .. C
        /\ (parityIn + (C + 1 - ((parityOut + r) % (C + 1)))) % (C + 1)
             = ((parityIn + (C + 1 - parityOut)) % (C + 1)) - r
    BY <1>1, <1>3, <2>1, RingTake
  <2>3. parityOut' = (parityOut + r) % (C + 1)
    BY <1>6
  <2> QED BY <2>2, <2>3, <1>7
<1>10. ParityAvailable' = q - r
  BY <1>6, <1>8 DEF ParityAvailable, ParitySlot
<1>11. x + (Len(m_buffer) - n) = B * (q - r) + m_parityInPos
  BY <1>1, <1>2, <1>3
<1>12. q - r \in Nat
  BY <1>2, <1>3, <1>4
<1>13. /\ m_parityInPos = (x + (Len(m_buffer) - n)) % B
       /\ q - r = (x + (Len(m_buffer) - n)) \div B
  <2>1. /\ (B * (q - r) + m_parityInPos) % B = m_parityInPos
        /\ (B * (q - r) + m_parityInPos) \div B = q - r
    <3> HIDE DEF B, q, r
    <3> QED BY <1>1, <1>12, QuotientUnique
  <2> QED BY <2>1, <1>11
<1>14. Positions'
  BY <1>1, <1>3, <1>6, <1>8 DEF Positions, ParitySlots
<1>15. ParityInStep'
  BY <1>5, <1>6, <1>10, <1>13 DEF ParityInStep
<1> QED BY <1>1, <1>5, <1>14, <1>15 DEF ParityInv, BytesPart

\* A byte comes in: its parity bit is the next one, and the parity byte it fills always finds room
\* (SoftwareSerial.cpp 483-501).
LEMMA StoreKeeps ==
  ASSUME ParityInv, m_parityMode, NEW w, NEW of, Store(w, of)
  PROVE  /\ \E S : m_buffer' \in Seq(S)
         /\ Len(m_buffer') <= bufCapacity
         /\ Positions' /\ ParityInStep'
<1> DEFINE B == ByteBits
           C == parityCapacity
           K == m_parityOutPos + Len(m_buffer)
           q == ParityAvailable
<1>1. /\ B \in Nat \ {0} /\ C \in Nat /\ bufCapacity \in Nat
      /\ m_parityOutPos \in 0 .. B - 1 /\ m_parityInPos \in 0 .. B - 1
      /\ parityIn \in 0 .. C /\ parityOut \in 0 .. C
      /\ Len(m_buffer) \in Nat /\ Len(m_buffer) <= bufCapacity /\ K \in Nat
  BY ParityRoom DEF ParityInv, BytesPart, Positions, ParitySlots
<1>2. CASE Len(m_buffer) = bufCapacity
  <2>1. UNCHANGED <<m_buffer, parityVars>>
    BY <1>2 DEF Store
  <2> QED BY <2>1 DEF ParityInv, BytesPart, Positions, ParitySlots, ParityInStep, ParityAvailable,
                      ParitySlot, parityVars
<1>3. CASE Len(m_buffer) # bufCapacity
  <2>1. K = B * q + m_parityInPos /\ q \in Nat
    BY <1>1, Quotient DEF ParityInv, ParityInStep
  <2>2. /\ \E S : m_buffer' \in Seq(S)
        /\ Len(m_buffer') = Len(m_buffer) + 1
    <3> DEFINE item == [byte |-> w.byte, of |-> of]
    <3>1. m_buffer' = Append(m_buffer, item)
      BY <1>3 DEF Store
    <3>2. PICK S : m_buffer \in Seq(S)
      BY DEF ParityInv, BytesPart
    <3>3. m_buffer \in Seq(S \cup {item})
      BY <3>2
    <3>4. m_buffer' \in Seq(S \cup {item}) /\ Len(m_buffer') = Len(m_buffer) + 1
      BY <3>1, <3>3
    <3> QED BY <3>4
  <2>3. /\ m_parityInPos' = (m_parityInPos + 1) % B
        /\ parityIn' = IF m_parityInPos' = 0 /\ q < C THEN (parityIn + 1) % (C + 1) ELSE parityIn
        /\ parityOut' = parityOut /\ m_parityOutPos' = m_parityOutPos
    BY <1>3 DEF Store, ParitySlot
  <2>4. q = (parityIn + (C + 1 - parityOut)) % (C + 1)
    BY DEF ParityAvailable, ParitySlot
  <2>5. CASE m_parityInPos < B - 1
    <3>1. m_parityInPos + 1 = B * 0 + (m_parityInPos + 1) /\ m_parityInPos + 1 \in 0 .. B - 1
      BY <1>1, <2>5
    <3>2. m_parityInPos' = m_parityInPos + 1 /\ parityIn' = parityIn
      <4>1. (m_parityInPos + 1) % B = m_parityInPos + 1
        <5>1. (B * 0 + (m_parityInPos + 1)) % B = m_parityInPos + 1
          BY <1>1, <3>1, QuotientUnique
        <5> QED BY <5>1, <3>1
      <4> QED BY <4>1, <1>1, <2>3
    <3>3. ParityAvailable' = q
      BY <2>3, <3>2 DEF ParityAvailable, ParitySlot
    <3>4. m_parityOutPos + (Len(m_buffer) + 1) = B * q + (m_parityInPos + 1)
      BY <1>1, <2>1
    <3>5. /\ m_parityInPos + 1 = (m_parityOutPos + (Len(m_buffer) + 1)) % B
          /\ q = (m_parityOutPos + (Len(m_buffer) + 1)) \div B
      <4>1. /\ (B * q + (m_parityInPos + 1)) % B = m_parityInPos + 1
            /\ (B * q + (m_parityInPos + 1)) \div B = q
        <5> HIDE DEF B, q
        <5> QED BY <1>1, <2>1, <3>1, QuotientUnique
      <4> QED BY <4>1, <3>4
    <3>6. Positions'
      BY <1>1, <2>3, <3>1, <3>2 DEF Positions, ParitySlots
    <3>7. ParityInStep'
      BY <2>2, <2>3, <3>2, <3>3, <3>5 DEF ParityInStep
    <3> QED BY <1>1, <1>3, <2>2, <3>6, <3>7
  <2>6. CASE m_parityInPos = B - 1
    <3>1. m_parityOutPos + (Len(m_buffer) + 1) = B * (q + 1) + 0
      BY <1>1, <2>1, <2>6
    <3>2. q < C
      <4>1. B * (q + 1) <= bufCapacity + B - 1
        <5>1. B * (q + 1) = m_parityOutPos + (Len(m_buffer) + 1)
          BY <1>1, <2>1, <3>1
        <5>2. m_parityOutPos + (Len(m_buffer) + 1) <= bufCapacity + B - 1
          BY <1>1, <1>3
        <5> QED BY <5>1, <5>2
      <4> QED BY <4>1, <1>1, <2>1, ParityRoom
    <3>3. m_parityInPos' = 0
      <4>1. m_parityInPos + 1 = B * 1 + 0 /\ 0 \in 0 .. B - 1
        BY <1>1, <2>6
      <4>2. (m_parityInPos + 1) % B = 0
        <5>1. (B * 1 + 0) % B = 0
          BY <4>1, <1>1, QuotientUnique
        <5> QED BY <5>1, <4>1
      <4> QED BY <4>2, <2>3
    <3>4. parityIn' = (parityIn + 1) % (C + 1)
      BY <2>3, <3>2, <3>3
    <3>5. parityIn' \in 0 .. C /\ (parityIn' + (C + 1 - parityOut)) % (C + 1) = q + 1
      <4> HIDE DEF B, C, q
      <4>1. (parityIn + (C + 1 - parityOut)) % (C + 1) < C
        BY <2>4, <3>2
      <4>2. /\ (parityIn + 1) % (C + 1) \in 0 .. C
            /\ (((parityIn + 1) % (C + 1)) + (C + 1 - parityOut)) % (C + 1)
                 = ((parityIn + (C + 1 - parityOut)) % (C + 1)) + 1
        BY <1>1, <4>1, RingAdd
      <4> QED BY <4>2, <2>4, <3>4
    <3>6. ParityAvailable' = q + 1
      BY <2>3, <3>5 DEF ParityAvailable, ParitySlot
    <3>7. /\ 0 = (m_parityOutPos + (Len(m_buffer) + 1)) % B
          /\ q + 1 = (m_parityOutPos + (Len(m_buffer) + 1)) \div B
      <4>1. q + 1 \in Nat /\ 0 \in 0 .. B - 1
        BY <1>1, <2>1
      <4>2. (B * (q + 1) + 0) % B = 0 /\ (B * (q + 1) + 0) \div B = q + 1
        <5> HIDE DEF B, q
        <5> QED BY <4>1, <1>1, QuotientUnique
      <4> QED BY <4>2, <3>1
    <3>8. Positions'
      BY <1>1, <2>3, <3>3, <3>5 DEF Positions, ParitySlots
    <3>9. ParityInStep'
      BY <2>2, <2>3, <3>3, <3>6, <3>7 DEF ParityInStep
    <3> QED BY <1>1, <1>3, <2>2, <3>8, <3>9
  <2> QED BY <1>1, <2>5, <2>6
<1> QED BY <1>2, <1>3
-----------------------------------------------------------------------------
(* The steps. *)

\* rxBits(isrCycle) leaves the bytes alone or stores one; it never clears the flag, and it sets
\* it when there is no room (SoftwareSerial.cpp 437-512).
LEMMA TakeEdgeStores ==
  ASSUME NEW e, NEW flagged \in BOOLEAN, TakeEdge(e, flagged)
  PROVE  \/ UNCHANGED <<m_buffer, parityVars, owing>> /\ m_overflow' = flagged
         \/ \E w, of : Store(w, of) /\ m_overflow' = (flagged \/ Len(m_buffer) = bufCapacity)
BY DEF TakeEdge

\* The byte queue and its parity queue after a step of one of them, in either mode.
LEMMA BytesKept ==
  ASSUME ParityInv
  PROVE  /\ \A w, of : Store(w, of) /\ UNCHANGED takes => ParityInv'
         /\ \A n \in 0 .. Len(m_buffer) : Take(n) /\ takes' \in Nat => ParityInv'
         /\ UNCHANGED <<m_buffer, parityVars>> /\ takes' \in Nat => ParityInv'
<1>1. ASSUME NEW w, NEW of, Store(w, of), UNCHANGED takes
      PROVE  ParityInv'
  <2>1. CASE m_parityMode
    BY <1>1, <2>1, StoreKeeps DEF ParityInv, BytesPart
  <2>2. CASE ~m_parityMode
    <3>1. UNCHANGED parityVars
      BY <1>1, <2>2 DEF Store
    <3>2. (\E S : m_buffer' \in Seq(S)) /\ Len(m_buffer') <= bufCapacity
      <4>1. CASE Len(m_buffer) = bufCapacity
        BY <1>1, <4>1 DEF Store, ParityInv, BytesPart
      <4>2. CASE Len(m_buffer) # bufCapacity
        <5> DEFINE item == [byte |-> w.byte, of |-> of]
        <5>1. m_buffer' = Append(m_buffer, item)
          BY <1>1, <4>2 DEF Store
        <5>2. PICK S : m_buffer \in Seq(S)
          BY DEF ParityInv, BytesPart
        <5>3. m_buffer \in Seq(S \cup {item})
          BY <5>2
        <5>4. m_buffer' \in Seq(S \cup {item}) /\ Len(m_buffer') = Len(m_buffer) + 1
          BY <5>1, <5>3
        <5>5. Len(m_buffer) + 1 <= bufCapacity
          BY <4>2, <5>2, ParityRoom DEF ParityInv, BytesPart
        <5> QED BY <5>4, <5>5
      <4> QED BY <4>1, <4>2
    <3> QED BY <1>1, <2>2, <3>1, <3>2
         DEF ParityInv, BytesPart, Positions, ParitySlots, ParityInStep, parityVars
  <2> QED BY <2>1, <2>2
<1>2. ASSUME NEW n \in 0 .. Len(m_buffer), Take(n), takes' \in Nat
      PROVE  ParityInv'
  <2>1. CASE m_parityMode
    BY <1>2, <2>1, TakeKeeps DEF ParityInv, BytesPart
  <2>2. CASE ~m_parityMode
    <3>1. UNCHANGED parityVars
      BY <1>2, <2>2 DEF Take, parityVars
    <3>2. (\E S : m_buffer' \in Seq(S)) /\ Len(m_buffer') <= bufCapacity
      BY <1>2, BytesTaken DEF Take
    <3> QED BY <1>2, <2>2, <3>1, <3>2
         DEF ParityInv, BytesPart, Positions, ParitySlots, ParityInStep, parityVars
  <2> QED BY <2>1, <2>2
<1>3. ASSUME UNCHANGED <<m_buffer, parityVars>>, takes' \in Nat
      PROVE  ParityInv'
  BY <1>3 DEF ParityInv, BytesPart, Positions, ParitySlots, ParityInStep, ParityAvailable, ParitySlot,
              parityVars
<1> QED BY <1>1, <1>2, <1>3
\* begin() starts with both queues empty and both masks on the first bit (SoftwareSerial.cpp 92-99).
LEMMA ParityInit == Init => ParityInv
<1> SUFFICES ASSUME Init PROVE ParityInv
  OBVIOUS
<1>1. ByteBits \in Nat \ {0} /\ bufCapacity \in Nat /\ parityCapacity \in Nat
  BY ParityRoom
<1>2. BytesPart
  BY <1>1 DEF Init, BytesPart
<1>3. Positions
  BY <1>1 DEF Init, Positions, ParitySlots
<1>4. (ByteBits * 0 + 0) % ByteBits = 0 /\ (ByteBits * 0 + 0) \div ByteBits = 0
  BY <1>1, QuotientUnique
<1>5. (0 + (parityCapacity + 1 - 0)) % (parityCapacity + 1) = 0
  BY <1>1, RingDistance
<1>6. ParityInStep
  BY <1>1, <1>4, <1>5 DEF Init, ParityInStep, ParityAvailable, ParitySlot
<1> QED BY <1>2, <1>3, <1>6 DEF ParityInv

\* flush() brings all positions of both queues together (SoftwareSerial.cpp 384-389).
LEMMA FlushKeeps == ParityInv /\ flush => ParityInv'
<1> SUFFICES ASSUME ParityInv, flush PROVE ParityInv'
  OBVIOUS
<1>1. ByteBits \in Nat \ {0} /\ bufCapacity \in Nat /\ parityCapacity \in Nat
  BY ParityRoom
<1>2. m_buffer' = <<>> /\ takes' = takes
  BY DEF flush, callVars
<1>3. BytesPart'
  BY <1>1, <1>2 DEF ParityInv, BytesPart
<1>4. CASE ~m_parityMode
  BY <1>3, <1>4 DEF flush, parityVars, ParityInv, Positions, ParitySlots, ParityInStep
<1>5. CASE m_parityMode
  <2>1. /\ m_parityInPos' = 0 /\ m_parityOutPos' = 0
        /\ parityOut' = parityIn /\ parityIn' = parityIn /\ parityIn \in 0 .. parityCapacity
    BY <1>5 DEF flush, ParityInv, Positions, ParitySlots
  <2>2. Positions'
    BY <1>1, <2>1 DEF Positions, ParitySlots
  <2>3. (ByteBits * 0 + 0) % ByteBits = 0 /\ (ByteBits * 0 + 0) \div ByteBits = 0
    BY <1>1, QuotientUnique
  <2>4. (parityIn + (parityCapacity + 1 - parityIn)) % (parityCapacity + 1) = 0
    BY <1>1, <2>1, RingDistance
  <2>5. ParityInStep'
    BY <1>1, <1>2, <2>1, <2>3, <2>4 DEF ParityInStep, ParityAvailable, ParitySlot
  <2> QED BY <1>3, <2>2, <2>5 DEF ParityInv
<1> QED BY <1>4, <1>5

\* Only rxBits(isrCycle), a call that reads and flush() touch the two queues.
LEMMA ParityNext == ParityInv /\ [Next]_vars => ParityInv'
<1> SUFFICES ASSUME ParityInv, [Next]_vars PROVE ParityInv'
  OBVIOUS
<1>1. takes \in Nat /\ Len(m_buffer) \in Nat /\ bufCapacity \in Nat
  BY ParityRoom DEF ParityInv, BytesPart
<1>2. ASSUME NEW e, NEW flagged, TakeEdge(e, flagged), UNCHANGED takes
      PROVE  ParityInv'
  <2>1. \/ UNCHANGED <<m_buffer, parityVars>>
        \/ \E w, of : Store(w, of)
    BY <1>2 DEF TakeEdge
  <2> QED BY <1>1, <1>2, <2>1, BytesKept
<1>3. CASE BitTime
  BY <1>1, <1>3, BytesKept DEF BitTime
<1>4. CASE available
  BY <1>1, <1>4, BytesKept DEF available, Ask
<1>5. CASE Check
  <2>1. PICK later \in 0 .. m_bitCycles - 1 - Latency : FauxStopBit(later)
    BY <1>5 DEF Check
  <2>2. UNCHANGED takes
    BY <1>5 DEF Check
  <2> QED BY <1>1, <1>2, <2>1, <2>2, BytesKept DEF FauxStopBit
<1>6. CASE EachEdge
  BY <1>2, <1>6 DEF EachEdge
<1>7. CASE Return
  BY <1>1, <1>7, BytesKept DEF Return, Least
<1>8. ASSUME NEW size \in 1 .. bufCapacity, read(size)
      PROVE  ParityInv'
  BY <1>1, <1>8, BytesKept DEF read, Ask, callVars, Least
<1>9. CASE flush
  BY <1>9, FlushKeeps
<1>10. CASE overflow
  BY <1>1, <1>10, BytesKept DEF overflow, callVars
<1>11. ASSUME NEW on \in BOOLEAN, enableRx(on)
       PROVE  ParityInv'
  BY <1>1, <1>11, BytesKept DEF enableRx, callVars
<1>12. CASE UNCHANGED vars
  BY <1>1, <1>12, BytesKept DEF vars, callVars
<1> QED BY <1>3, <1>4, <1>5, <1>6, <1>7, <1>8, <1>9, <1>10, <1>11, <1>12 DEF Next

\* Whatever is read, given up or refused, the bits of the parity queue are those of the bytes
\* that wait, and the push of a full parity byte is never refused (SoftwareSerial.cpp 188-216,
\* 382-390, 483-501).
THEOREM ParityStaysInStep == Spec => []ParityInStep
<1>1. ParityInv => ParityInStep
  BY DEF ParityInv
<1> QED BY <1>1, ParityInit, ParityNext, PTL DEF Spec
-----------------------------------------------------------------------------
(* Losses. *)

\* The flags, and what they tell.
Told ==
  /\ m_overflow \in BOOLEAN /\ m_isrOverflow \in BOOLEAN /\ owing \in BOOLEAN
  /\ LossIsTold

\* Each step that loses something sets a flag; only overflow() clears one for good.
LEMMA ToldNext == Told /\ [Next]_vars => Told'
<1> SUFFICES ASSUME Told, [Next]_vars PROVE Told'
  OBVIOUS
<1>1. ASSUME NEW e, NEW flagged \in BOOLEAN, TakeEdge(e, flagged), m_isrOverflow' \in BOOLEAN,
             owing => flagged \/ m_isrOverflow'
      PROVE  Told'
  <2>1. CASE UNCHANGED <<m_buffer, parityVars, owing>> /\ m_overflow' = flagged
    BY <1>1, <2>1 DEF Told, LossIsTold
  <2>2. CASE \E w, of : Store(w, of) /\ m_overflow' = (flagged \/ Len(m_buffer) = bufCapacity)
    BY <1>1, <2>2 DEF Told, LossIsTold, Store
  <2> QED BY <1>1, <2>1, <2>2, TakeEdgeStores
<1>2. CASE BitTime
  <2>1. m_overflow' = m_overflow
    BY <1>2 DEF BitTime
  <2>2. \/ UNCHANGED <<m_isrOverflow, owing>>
        \/ m_isrOverflow' = TRUE /\ owing' = TRUE
    <3>1. CASE m_rxEnabled /\ line' # line
      <4> DEFINE edges == [i \in DOMAIN m_isrBuffer |-> Older(m_isrBuffer[i])]
      <4>1. PICK j \in 0 .. Latency : rxBitISR(edges, j)
        BY <1>2, <3>1 DEF BitTime
      <4> QED BY <4>1 DEF rxBitISR
    <3>2. CASE ~(m_rxEnabled /\ line' # line)
      BY <1>2, <3>2 DEF BitTime
    <3> QED BY <3>1, <3>2
  <2>3. CASE UNCHANGED <<m_isrOverflow, owing>>
    BY <2>1, <2>3 DEF Told, LossIsTold
  <2>4. CASE m_isrOverflow' = TRUE /\ owing' = TRUE
    BY <2>1, <2>4 DEF Told, LossIsTold
  <2> QED BY <2>2, <2>3, <2>4
<1>3. CASE available
  BY <1>3 DEF available, Ask, isrVars, Told, LossIsTold
<1>4. CASE Check
  <2>1. PICK later \in 0 .. m_bitCycles - 1 - Latency : FauxStopBit(later)
    BY <1>4 DEF Check
  <2>2. m_isrOverflow' = FALSE
    BY <1>4 DEF Check
  <2>3. (m_overflow \/ m_isrOverflow) \in BOOLEAN
    BY DEF Told
  <2>4. owing => m_overflow \/ m_isrOverflow
    BY DEF Told, LossIsTold
  <2>5. \/ \E e : TakeEdge(e, m_overflow \/ m_isrOverflow)
        \/ m_overflow' = (m_overflow \/ m_isrOverflow) /\ UNCHANGED owing
    BY <2>1 DEF FauxStopBit
  <2>6. CASE \E e : TakeEdge(e, m_overflow \/ m_isrOverflow)
    BY <1>1, <2>2, <2>3, <2>4, <2>6
  <2>7. CASE m_overflow' = (m_overflow \/ m_isrOverflow) /\ UNCHANGED owing
    BY <2>2, <2>3, <2>4, <2>7 DEF Told, LossIsTold
  <2> QED BY <2>5, <2>6, <2>7
<1>5. CASE EachEdge
  BY <1>1, <1>5 DEF EachEdge, Told, LossIsTold
<1>6. CASE Return
  BY <1>6 DEF Return, isrVars, Told, LossIsTold
<1>7. ASSUME NEW size \in 1 .. bufCapacity, read(size)
      PROVE  Told'
  BY <1>7 DEF read, Ask, isrVars, Told, LossIsTold
<1>8. CASE flush
  BY <1>8 DEF flush, isrVars, Told, LossIsTold
<1>9. CASE overflow
  BY <1>9 DEF overflow, isrVars, Told, LossIsTold
<1>10. ASSUME NEW on \in BOOLEAN, enableRx(on)
       PROVE  Told'
  BY <1>10 DEF enableRx, Told, LossIsTold
<1>11. CASE UNCHANGED vars
  BY <1>11 DEF vars, isrVars, Told, LossIsTold
<1> QED BY <1>2, <1>3, <1>4, <1>5, <1>6, <1>7, <1>8, <1>9, <1>10, <1>11 DEF Next

\* An edge the interrupt could not store and a byte rxBits() could not store are told by
\* overflow(), now or when rxBits() has next looked (SoftwareSerial.cpp 392-396, 410-420, 482-485,
\* 520).
THEOREM LossesTold == Spec => []LossIsTold
<1>1. Init => Told
  BY DEF Init, Told, LossIsTold
<1>2. Told => LossIsTold
  BY DEF Told
<1> QED BY <1>1, <1>2, ToldNext, PTL DEF Spec

-----------------------------------------------------------------------------
(* The inductive invariant of the receiver.  It follows each edge from the *)
(* line to the decoder: which bit of which word it begins (of and at), the *)
(* level it leads to, how many bit times lie between it and the next edge, *)
(* and what the decoder has of the word when it takes it.                  *)

\* The position of the first stop bit in a word.
Stop == m_pduBits - m_stopBits + 1

\* The level of the line p bits after the start of a word.
LevelAt(w, p) ==
  IF p = 0 THEN FALSE
  ELSE IF p <= m_dataBits THEN Bit(w.byte, p - 1)
  ELSE IF p < Stop THEN w.parity
  ELSE TRUE

\* Where the line is in the last word, or how far behind it.
Pos == m_pduBits - Len(word) + idle

\* The edges rxBits(isrCycle) is between, now and later.
EdgeAt(i) == IF i = 0 THEN m_isrLastCycle ELSE m_isrBuffer[i]
Latest == EdgeAt(Len(m_isrBuffer))
Between(e, e2) == Bits((e.age - e2.age) % CycleSpan)

\* The decoder is in no word and none has begun.
Through == m_isrLastCycle.level /\ ~Pending

\* The age of an edge, the level it led to, its word and the bit of it.
EdgeType == [age : 0 .. CycleSpan - 1, level : BOOLEAN, of : Nat, at : Nat]

\* The types.
ReceiverTyped ==
  /\ line \in BOOLEAN /\ word \in Seq(BOOLEAN) /\ Len(word) <= m_pduBits
  /\ idle \in Nat /\ sent \in Seq(Word)
  /\ m_rxEnabled \in BOOLEAN
  /\ m_isrBuffer \in Seq(EdgeType)
  /\ m_isrLastCycle \in EdgeType /\ m_isrLastCycle.of <= Len(sent)
  /\ m_isrLastCycle.at \in 0 .. Stop \cup {Frame}
  /\ m_rxCurBit \in -1 .. Stop - 2 \cup {m_pduBits - 1, m_pduBits}
  /\ m_rxCurByte \in 0 .. 2 ^ ByteBits - 1 /\ m_rxCurParity \in BOOLEAN
  /\ pc \in {"idle", "asked", "each"} /\ left \in 0 .. Len(m_isrBuffer) /\ pause \in Nat
  /\ spoilt \subseteq 1 .. Len(sent) /\ arrived \subseteq 1 .. Len(sent)
  /\ dirty \in BOOLEAN /\ since \in 0 .. BitSpan

\* The line goes through the levels of the last word.
LineInv ==
  /\ word # <<>> => idle = 0
  /\ sent = <<>> => line /\ word = <<>> /\ idle > 0
  /\ sent # <<>> =>
       /\ line = LevelAt(sent[Len(sent)], Pos)
       /\ \A i \in 1 .. Len(word) : word[i] = LevelAt(sent[Len(sent)], Pos + i)

\* What the history is about.
HistoryInv ==
  /\ since > PollWithin => m_isrBuffer = <<>> /\ ~Pending
  /\ ~dirty => m_rxEnabled /\ Len(sent) \notin spoilt /\ Latest.of = Len(sent)
  /\ dirty /\ Len(sent) \notin spoilt => Pos >= Stop
  /\ \A k \in 1 .. Len(sent) :
       k \in spoilt \cup arrived \/ \E i \in 0 .. Len(m_isrBuffer) : EdgeAt(i).of = k
  /\ Len(sent) \in arrived \ spoilt => Pos >= Stop

\* An edge of a word that can be expected.
EdgeOK(e, words, bad, came) ==
  /\ e.of \in 1 .. Len(words)
  /\ e.at \in 0 .. Stop
  /\ e.of \notin bad =>
       /\ e.level = LevelAt(words[e.of], e.at)
       /\ \A j \in came : j < e.of

\* The edges that wait are in the order of the words, and none is of a word that has come out.
OrderInv ==
  /\ \A i, j \in 1 .. Len(m_isrBuffer) : i < j => m_isrBuffer[i].of <= m_isrBuffer[j].of
  /\ \A i \in 1 .. Len(m_isrBuffer) :
       /\ EdgeOK(m_isrBuffer[i], sent, spoilt, arrived)
       /\ m_isrBuffer[i].of \notin spoilt => m_isrLastCycle.of <= m_isrBuffer[i].of

\* From p to q a word has one level.
Steady(w, p, q, level) == \A i \in p .. q : LevelAt(w, i) = level

\* Two edges of a word with none between.
SameWord(e, e2, w) ==
  /\ e.at < e2.at
  /\ Between(e, e2) = e2.at - e.at
  /\ Steady(w, e.at, e2.at - 1, e.level)

\* The last edge of a word and one of a later word.
WordEnds(e, e2, w) ==
  /\ e.level
  /\ Between(e, e2) >= Frame - e.at
  /\ Steady(w, e.at, Stop, TRUE)

\* Bits that go beyond every word.
Beyond(e, e2) == Between(e, e2) >= Stop + (IF e.level THEN 0 ELSE 1)

\* One edge and the next.
Pair(e, e2, done, words, bad) ==
  /\ e.of \notin bad =>
       /\ done \/ e.of <= e2.of
       /\ e.of = e2.of => SameWord(e, e2, words[e.of])
       /\ e.of < e2.of => done \/ WordEnds(e, e2, words[e.of])
  /\ e.of < e2.of /\ e2.of \notin bad =>
       /\ e2.at = 0
       /\ e.of \in bad => done \/ Beyond(e, e2)

\* Every edge and the next.
PairInv ==
  \A i \in 1 .. Len(m_isrBuffer) :
    Pair(EdgeAt(i - 1), EdgeAt(i), i = 1 /\ Through, sent, spoilt)

\* An edge that came n bit times ago.
Aged(e, n) == e.age \in n * m_bitCycles .. n * m_bitCycles + Latency

\* The latest edge and the line.
LatestOK(e, s, pos, words, bad) ==
  /\ s < BitSpan => Aged(e, s) /\ s >= pos - (IF e.level THEN Stop ELSE Stop - 1)
  /\ e.of \notin bad /\ e.of = Len(words) =>
       /\ pos >= e.at + s
       /\ s < BitSpan => pos = e.at + s
       /\ Steady(words[e.of], e.at, pos, e.level)
  /\ e.of \notin bad /\ e.of < Len(words) =>
       /\ e.level
       /\ s >= Frame - e.at
       /\ Steady(words[e.of], e.at, Stop, TRUE)

\* The latest edge, unless the decoder is through with it.
LatestInv == (m_isrBuffer = <<>> /\ Through) \/ LatestOK(Latest, since, Pos, sent, spoilt)

\* The lowest m bits of a byte came in from above.
LowBits(x, byte, m) == byte \div 2 ^ (ByteBits - m) = x % 2 ^ m

\* A decoder that has the bits of a word up to one position.
Has(w, at, cur, byte, parity) ==
  /\ cur = at - 2
  /\ LowBits(w.byte, byte, Least(at - 1, m_dataBits))
  /\ m_parityMode /\ at = Stop => parity = w.parity

\* What the decoder has of the word its last edge belongs to.
DecoderInv ==
  LET e == m_isrLastCycle IN
  /\ e.of = 0 \/ e.at = Frame => Through /\ e.at = Frame
  /\ e.of > 0 /\ e.of \notin spoilt =>
       IF e.at = Frame
       THEN e.of \in arrived /\ \A j \in arrived : j <= e.of
       ELSE /\ EdgeOK(e, sent, spoilt, arrived)
            /\ e.at = 0 => ~Pending
            /\ e.at > 0 => Has(sent[e.of], e.at, m_rxCurBit, m_rxCurByte, m_rxCurParity)

\* A call that found no edge, and one that has come since.
CallInv ==
  /\ pc = "asked" /\ left = 0 /\ m_isrBuffer # <<>> =>
       /\ pause = 1 /\ Len(m_isrBuffer) = 1 /\ idle = 0
       /\ m_isrLastCycle.of \notin spoilt /\ Pending /\ m_isrLastCycle.of = m_isrBuffer[1].of =>
            Aged(m_isrLastCycle, m_isrBuffer[1].at - m_isrLastCycle.at)
  /\ pc = "asked" /\ left = 0 /\ pause = 0 => m_isrBuffer = <<>>

\* All of it.
ReceiverInv ==
  ReceiverTyped /\ LineInv /\ HistoryInv /\ OrderInv /\ PairInv /\ LatestInv /\ DecoderInv /\ CallInv

-----------------------------------------------------------------------------
(* The parameters of the receiver. *)

\* The format in numbers.
LEMMA Format ==
  /\ m_dataBits \in Nat \ {0} /\ ByteBits \in Nat /\ m_dataBits <= ByteBits
  /\ m_parityMode \in BOOLEAN /\ m_stopBits \in 1 .. 2
  /\ m_pduBits \in Nat /\ Stop \in Nat /\ Frame \in Nat
  /\ Stop = m_dataBits + 1 + (IF m_parityMode THEN 1 ELSE 0)
  /\ m_pduBits = Stop - 1 + m_stopBits
  /\ Frame = Stop + m_stopBits
  /\ BitSpan \in Nat /\ BitSpan > Frame
  /\ m_bitCycles \in Nat \ {0} /\ CycleSpan \in Nat \ {0}
  /\ Latency \in 0 .. m_bitCycles - 1
  /\ MaxPause \in Nat /\ PollWithin \in Nat
  /\ isrBufCapacity \in Nat \ {0} /\ bufCapacity \in Nat \ {0}
BY PortAssumption, SMT DEF m_pduBits, Stop, Frame

\* The span of the counter in cycles.
LEMMA Spans ==
  ASSUME Paced
  PROVE  /\ m_bitCycles < CycleSpan
         /\ \A s \in Nat : s < BitSpan => s * m_bitCycles + (m_bitCycles - 1) < CycleSpan
<1>1. /\ BitSpan \in Nat /\ BitSpan >= 2 /\ m_bitCycles \in Nat \ {0} /\ CycleSpan \in Nat
      /\ BitSpan * m_bitCycles <= CycleSpan
  BY Format DEF Paced
<1>2. ASSUME NEW s \in Nat, s < BitSpan
      PROVE  s * m_bitCycles + m_bitCycles <= BitSpan * m_bitCycles
  <2>1. PICK d \in Nat : BitSpan = s + 1 + d
    <3>1. BitSpan - s - 1 \in Nat
      BY <1>1, <1>2
    <3> QED BY <3>1, <1>1
  <2>2. BitSpan * m_bitCycles = s * m_bitCycles + m_bitCycles + d * m_bitCycles
    BY <2>1, <1>1
  <2>3. d * m_bitCycles \in Nat /\ s * m_bitCycles \in Nat
    BY <1>1
  <2> QED BY <2>2, <2>3, <1>1
<1>3. 1 * m_bitCycles + m_bitCycles <= CycleSpan
  <2>1. 1 * m_bitCycles + m_bitCycles <= BitSpan * m_bitCycles
    BY <1>1, <1>2
  <2>2. BitSpan * m_bitCycles \in Nat
    BY <1>1
  <2> QED BY <2>1, <2>2, <1>1
<1>4. ASSUME NEW s \in Nat, s < BitSpan
      PROVE  s * m_bitCycles + (m_bitCycles - 1) < CycleSpan
  <2>1. s * m_bitCycles \in Nat /\ BitSpan * m_bitCycles \in Nat
    BY <1>1
  <2>2. s * m_bitCycles + m_bitCycles <= BitSpan * m_bitCycles
    BY <1>2, <1>4
  <2> QED BY <2>1, <2>2, <1>1
<1>5. m_bitCycles < CycleSpan
  BY <1>1, <1>3
<1> QED BY <1>4, <1>5

\* The remainder of a sum and of a difference on the counter.
LEMMA Wrapped ==
  ASSUME NEW C \in Nat \ {0}, NEW a \in 0 .. C - 1, NEW b \in 0 .. C - 1
  PROVE  /\ (a + b) % C = IF a + b < C THEN a + b ELSE a + b - C
         /\ (a - b) % C = IF b <= a THEN a - b ELSE a - b + C
BY SMT

\* The cycles between two edges stay when both get older.
LEMMA CyclesStay ==
  ASSUME NEW C \in Nat \ {0}, NEW a \in 0 .. C - 1, NEW b \in 0 .. C - 1, NEW c \in 0 .. C - 1
  PROVE  (((a + c) % C) - ((b + c) % C)) % C = (a - b) % C
<1>1. PICK x \in 0 .. C - 1 : x = (a + c) % C
  BY Wrapped
<1>2. PICK y \in 0 .. C - 1 : y = (b + c) % C
  BY Wrapped
<1>3. x = IF a + c < C THEN a + c ELSE a + c - C
  BY <1>1, Wrapped
<1>4. y = IF b + c < C THEN b + c ELSE b + c - C
  BY <1>2, Wrapped
<1>5. (x - y) % C = IF y <= x THEN x - y ELSE x - y + C
  BY Wrapped
<1>6. (a - b) % C = IF b <= a THEN a - b ELSE a - b + C
  BY Wrapped
<1>7. (x - y) % C = (a - b) % C
  BY <1>3, <1>4, <1>5, <1>6
<1> QED BY <1>7, <1>1, <1>2

\* Cycles are rounded to the bits they are about.
LEMMA BitsAre ==
  ASSUME Paced, NEW g \in Nat, g < BitSpan, NEW d \in -Latency .. Latency,
         g * m_bitCycles + d >= 0
  PROVE  Bits(g * m_bitCycles + d) = g
<1>1. /\ m_bitCycles \in Nat \ {0} /\ Latency \in Nat /\ 2 * Latency < m_bitCycles /\ BitSpan \in Nat \ {0}
      /\ g * m_bitCycles \in Nat
  BY Format DEF Paced
<1>2. g % BitSpan = g
  BY <1>1
<1>3. m_bitCycles \div 2 \in Nat /\ 2 * (m_bitCycles \div 2) <= m_bitCycles
      /\ m_bitCycles <= 2 * (m_bitCycles \div 2) + 1
  BY <1>1
<1> DEFINE c == g * m_bitCycles + d
<1>4. CASE d >= 0
  <2>1. (m_bitCycles * g + d) % m_bitCycles = d /\ (m_bitCycles * g + d) \div m_bitCycles = g
    BY <1>1, <1>4, QuotientUnique
  <2>2. c % m_bitCycles = d /\ c \div m_bitCycles = g
    BY <2>1, <1>1
  <2>3. ~(d > m_bitCycles \div 2)
    BY <1>1, <1>3, <1>4
  <2> HIDE DEF c
  <2>4. Bits(c) = (g + 0) % BitSpan
    BY <2>2, <2>3 DEF Bits
  <2> QED BY <2>4, <1>2 DEF c
<1>5. CASE d < 0
  <2>1. PICK h \in Nat : g = h + 1
    <3>1. g # 0
      BY <1>1, <1>5
    <3>2. g - 1 \in Nat
      BY <3>1
    <3> QED BY <3>2
  <2>2. m_bitCycles + d \in 0 .. m_bitCycles - 1
    BY <1>1, <1>5
  <2>3. (m_bitCycles * h + (m_bitCycles + d)) % m_bitCycles = m_bitCycles + d
        /\ (m_bitCycles * h + (m_bitCycles + d)) \div m_bitCycles = h
    BY <1>1, <2>2, QuotientUnique
  <2>4. c = m_bitCycles * h + (m_bitCycles + d)
    BY <2>1, <1>1
  <2>5. c % m_bitCycles = m_bitCycles + d /\ c \div m_bitCycles = h
    BY <2>3, <2>4
  <2>6. m_bitCycles + d > m_bitCycles \div 2
    BY <1>1, <1>3, <1>5
  <2> HIDE DEF c
  <2>7. Bits(c) = (h + 1) % BitSpan
    BY <2>5, <2>6 DEF Bits
  <2> QED BY <2>7, <1>2, <2>1 DEF c
<1> QED BY <1>1, <1>4, <1>5
-----------------------------------------------------------------------------
(* Powers of two and the bits of a byte. *)

\* The powers of two up to that of a byte.
LEMMA Powers ==
  /\ \A i \in 0 .. ByteBits + 1 : 2 ^ i \in Nat \ {0}
  /\ \A i \in 0 .. ByteBits : 2 ^ (i + 1) = 2 * 2 ^ i
  /\ 2 ^ 0 = 1
<1>1. ByteBits \in Nat
  BY Format
<1> DEFINE W == {i \in 0 .. ByteBits + 1 : 2 ^ i \notin Nat \ {0}}
<1>2. W = {}
  <2> SUFFICES ASSUME W # {} PROVE FALSE
    OBVIOUS
  <2>1. W \subseteq Nat
    BY <1>1
  <2>2. PICK w \in W : \A y \in W : ~ (<<y, w>> \in OpToRel(<, Nat))
    <3> HIDE DEF W
    <3> QED BY <2>1, WFMin, NatLessThanWellFounded, Zenon
  <2>3. \A y \in W : ~ (y < w)
    BY <2>1, <2>2 DEF OpToRel
  <2>4. w # 0
    <3> SUFFICES ASSUME w = 0 PROVE FALSE
      OBVIOUS
    <3>1. 2 ^ w = 1
      BY Doubling
    <3>2. 2 ^ w \notin Nat \ {0}
      OBVIOUS
    <3> QED BY <3>1, <3>2
  <2>5. PICK v \in 0 .. ByteBits : w = v + 1
    <3>1. w - 1 \in 0 .. ByteBits
      BY <1>1, <2>4
    <3> QED BY <3>1, <1>1
  <2>6. v \notin W
    BY <1>1, <2>3, <2>5
  <2>7. 2 ^ v \in Nat \ {0}
    BY <1>1, <2>6
  <2>8. 2 ^ w = 2 * 2 ^ v
    BY <2>5, Doubling
  <2> QED BY <2>7, <2>8
<1> QED BY <1>2, Doubling

\* Powers are multiplied.
LEMMA PowerOfSum ==
  ASSUME NEW i \in 0 .. ByteBits, NEW j \in 0 .. ByteBits, i + j <= ByteBits
  PROVE  2 ^ (i + j) = 2 ^ i * 2 ^ j
<1>1. ByteBits \in Nat
  BY Format
<1> DEFINE W == {k \in 0 .. ByteBits : i + k <= ByteBits /\ 2 ^ (i + k) # 2 ^ i * 2 ^ k}
<1>2. W = {}
  <2> SUFFICES ASSUME W # {} PROVE FALSE
    OBVIOUS
  <2>1. W \subseteq Nat
    BY <1>1
  <2>2. PICK w \in W : \A y \in W : ~ (<<y, w>> \in OpToRel(<, Nat))
    <3> HIDE DEF W
    <3> QED BY <2>1, WFMin, NatLessThanWellFounded, Zenon
  <2>3. \A y \in W : ~ (y < w)
    BY <2>1, <2>2 DEF OpToRel
  <2>4. w # 0
    <3> SUFFICES ASSUME w = 0 PROVE FALSE
      OBVIOUS
    <3>1. 2 ^ w = 1
      BY Powers
    <3>2. i + w = i
      BY <1>1
    <3>3. 2 ^ (i + w) = 2 ^ i
      BY <3>2
    <3>4. 2 ^ i \in Nat
      BY <1>1, Powers
    <3>5. 2 ^ (i + w) # 2 ^ i * 2 ^ w
      OBVIOUS
    <3> QED BY <3>1, <3>3, <3>4, <3>5
  <2>5. PICK v \in 0 .. ByteBits : w = v + 1 /\ i + v <= ByteBits
    <3>1. w - 1 \in 0 .. ByteBits /\ i + (w - 1) <= ByteBits
      BY <1>1, <2>4
    <3> QED BY <3>1, <1>1
  <2>6. v \notin W
    BY <1>1, <2>3, <2>5
  <2>7. 2 ^ (i + v) = 2 ^ i * 2 ^ v
    BY <2>5, <2>6
  <2>8. PICK s \in 0 .. ByteBits : s = i + v
    BY <1>1, <2>5
  <2>9. 2 ^ (s + 1) = 2 * 2 ^ s /\ 2 ^ (v + 1) = 2 * 2 ^ v
    BY Powers
  <2>10. i + w = s + 1
    BY <1>1, <2>5, <2>8
  <2>11. 2 ^ i \in Nat /\ 2 ^ v \in Nat
    BY <1>1, Powers
  <2>12. 2 ^ (i + w) = 2 * (2 ^ i * 2 ^ v)
    BY <2>7, <2>8, <2>9, <2>10
  <2>13. 2 ^ w = 2 * 2 ^ v
    BY <2>5, <2>9
  <2>14. 2 ^ i * 2 ^ w = 2 * (2 ^ i * 2 ^ v)
    BY <2>11, <2>13
  <2>15. 2 ^ (i + w) # 2 ^ i * 2 ^ w
    OBVIOUS
  <2> QED BY <2>12, <2>14, <2>15
<1> QED BY <1>2

\* The part of a number above one bit more.
LEMMA OneBitMore ==
  ASSUME NEW a \in Nat \ {0}, NEW x \in Nat
  PROVE  x % (2 * a) = (x % a) + a * ((x \div a) % 2)
<1> DEFINE q == x \div a
           r == x % a
<1>1. x = a * q + r /\ r \in 0 .. a - 1 /\ q \in Nat
  BY Quotient
<1> HIDE DEF q, r
<1> DEFINE h == q \div 2
           b == q % 2
<1>3. h \in Nat /\ b \in {0, 1} /\ q = 2 * h + b
  <2>1. b \in 0 .. 2 - 1 /\ q = 2 * h + b /\ h \in Nat
    BY <1>1, Quotient
  <2> QED BY <2>1
<1> HIDE DEF h, b
<1>4. a * q = (2 * a) * h + a * b
  BY <1>1, <1>3
<1>5. x = (2 * a) * h + (a * b + r)
  BY <1>1, <1>3, <1>4
<1>6. a * b + r \in 0 .. 2 * a - 1
  <2>1. a * b = 0 \/ a * b = a
    BY <1>3
  <2> QED BY <2>1, <1>1
<1>7. 2 * a \in Nat \ {0}
  OBVIOUS
<1>8. ((2 * a) * h + (a * b + r)) % (2 * a) = a * b + r
  BY <1>3, <1>6, <1>7, QuotientUnique
<1>9. a * b \in Nat
  BY <1>3
<1> QED BY <1>5, <1>8, <1>9, <1>1 DEF b, q, r

\* n bits from m on are alike.
BitsAlike(x, m, n, level) == \A i \in m .. m + n - 1 : Bit(x, i) = level

\* They are worth so much.
BitsWorth(x, m, n, level) ==
  x % 2 ^ (m + n) = (x % 2 ^ m) + (IF level THEN 2 ^ m * (2 ^ n - 1) ELSE 0)

\* A byte whose bits from m on are alike.
LEMMA AlikeBits ==
  ASSUME NEW x \in Nat, NEW level \in BOOLEAN, NEW m \in 0 .. ByteBits, NEW n \in 0 .. ByteBits,
         m + n <= ByteBits, BitsAlike(x, m, n, level)
  PROVE  BitsWorth(x, m, n, level)
<1>1. ByteBits \in Nat
  BY Format
<1> DEFINE Right(k) == x % 2 ^ (m + k) = (x % 2 ^ m) + (IF level THEN 2 ^ m * (2 ^ k - 1) ELSE 0)
           W == {k \in 0 .. n : ~Right(k)}
<1>2. W = {}
  <2> SUFFICES ASSUME W # {} PROVE FALSE
    OBVIOUS
  <2>1. W \subseteq Nat
    BY <1>1
  <2>2. PICK w \in W : \A y \in W : ~ (<<y, w>> \in OpToRel(<, Nat))
    <3> HIDE DEF W
    <3> QED BY <2>1, WFMin, NatLessThanWellFounded, Zenon
  <2>3. \A y \in W : ~ (y < w)
    BY <2>1, <2>2 DEF OpToRel
  <2>a. w \in 0 .. n /\ ~Right(w)
    OBVIOUS
  <2>b. \A y \in 0 .. n : y < w => Right(y)
    BY <2>3
  <2> HIDE DEF W
  <2>c. 2 ^ m \in Nat \ {0}
    BY <1>1, Powers
  <2>d. x % 2 ^ m \in Nat
    BY <2>c
  <2>4. w # 0
    <3> SUFFICES ASSUME w = 0 PROVE FALSE
      OBVIOUS
    <3>1. 2 ^ w = 1
      BY Powers
    <3>2. m + w = m
      BY <1>1
    <3>3. 2 ^ m * (2 ^ w - 1) = 0
      BY <3>1, <2>c
    <3> QED BY <2>a, <3>2, <3>3, <2>d
  <2>5. PICK v \in 0 .. n : w = v + 1 /\ v < w
    <3>1. w - 1 \in 0 .. n /\ w - 1 < w
      BY <1>1, <2>4, <2>a
    <3> QED BY <3>1, <2>a, <1>1
  <2>6. Right(v)
    BY <2>b, <2>5
  <2>7. PICK s \in 0 .. ByteBits : s = m + v
    BY <1>1, <2>5, <2>a
  <2>8. s \in m .. m + n - 1
    BY <1>1, <2>5, <2>7, <2>a
  <2>9. Bit(x, s) = level
    BY <2>8 DEF BitsAlike
  <2>10. 2 ^ s \in Nat \ {0} /\ 2 ^ (s + 1) = 2 * 2 ^ s
    BY <1>1, Powers
  <2>11. x % 2 ^ (s + 1) = (x % 2 ^ s) + 2 ^ s * ((x \div 2 ^ s) % 2)
    BY <2>10, OneBitMore
  <2>12. (x \div 2 ^ s) % 2 = IF level THEN 1 ELSE 0
    <3>1. x \div 2 ^ s \in Nat
      BY <2>10, Quotient
    <3> QED BY <3>1, <2>9 DEF Bit
  <2>13. 2 ^ s = 2 ^ m * 2 ^ v
    BY <2>7, PowerOfSum, <1>1, <2>5
  <2>14. 2 ^ w = 2 * 2 ^ v /\ 2 ^ v \in Nat
    BY <2>5, Powers, <1>1
  <2>15. m + w = s + 1
    BY <1>1, <2>5, <2>7
  <2>16. x % 2 ^ (m + w) = (x % 2 ^ s) + 2 ^ s * (IF level THEN 1 ELSE 0)
    BY <2>11, <2>12, <2>15
  <2>17. x % 2 ^ s = (x % 2 ^ m) + (IF level THEN 2 ^ m * (2 ^ v - 1) ELSE 0)
    BY <2>6, <2>7
  <2> HIDE DEF Right
  <2>18. CASE level
    <3> DEFINE M == 2 ^ m
               V == 2 ^ v
               r == x % 2 ^ m
    <3>1. M \in Nat /\ V \in Nat /\ r \in Nat
      BY <2>c, <2>d, <2>14
    <3>2. 2 ^ s = M * V /\ 2 ^ w = 2 * V
      BY <2>13, <2>14
    <3>3. x % 2 ^ (m + w) = (r + M * (V - 1)) + (M * V) * 1
      BY <2>16, <2>17, <2>18, <3>2
    <3> HIDE DEF M, V, r
    <3>4. (r + M * (V - 1)) + (M * V) * 1 = r + M * (2 * V - 1)
      BY <3>1
    <3>5. x % 2 ^ (m + w) = r + M * (2 ^ w - 1)
      BY <3>2, <3>3, <3>4
    <3> QED BY <3>5, <2>18, <2>a DEF Right, M, r
  <2>19. CASE ~level
    <3>1. x % 2 ^ (m + w) = ((x % 2 ^ m) + 0) + 2 ^ s * 0
      BY <2>16, <2>17, <2>19
    <3>2. x % 2 ^ (m + w) = (x % 2 ^ m) + 0
      BY <3>1, <2>d, <2>10
    <3> QED BY <3>2, <2>19, <2>a DEF Right
  <2> QED BY <2>18, <2>19
<1>3. n \in 0 .. n
  BY <1>1
<1>4. Right(n)
  BY <1>2, <1>3
<1> QED BY <1>4 DEF BitsWorth
\* A quotient is smaller than the factor that bounds its dividend.
LEMMA QuotientBound ==
  ASSUME NEW A \in Nat, NEW N \in Nat \ {0}, NEW r \in Nat, r < A * N
  PROVE  r \div N \in Nat /\ r \div N < A
<1>1. r = N * (r \div N) + (r % N) /\ r % N \in 0 .. N - 1 /\ r \div N \in Nat
  BY Quotient
<1>2. PICK q \in Nat : q = r \div N
  BY <1>1
<1> SUFFICES ASSUME q >= A PROVE FALSE
  BY <1>2
<1>3. PICK d \in Nat : q = A + d
  <2>1. q - A \in Nat
    OBVIOUS
  <2> QED BY <2>1
<1>4. N * q = A * N + N * d
  BY <1>3
<1>5. N * d \in Nat /\ A * N \in Nat /\ N * q \in Nat
  OBVIOUS
<1> QED BY <1>1, <1>2, <1>4, <1>5

\* What is shifted into a byte is a byte.
LEMMA ShiftedIsByte ==
  ASSUME NEW y \in 0 .. 2 ^ ByteBits - 1, NEW n \in 0 .. ByteBits, NEW level \in BOOLEAN
  PROVE  Shifted(y, n, level) \in 0 .. 2 ^ ByteBits - 1
<1>1. ByteBits \in Nat
  BY Format
<1>2. PICK k \in 0 .. ByteBits : k = ByteBits - n
  BY <1>1
<1>3. PICK A \in Nat \ {0} : A = 2 ^ k
  BY <1>1, Powers
<1>4. PICK N \in Nat \ {0} : N = 2 ^ n
  BY <1>1, Powers
<1>5. 2 ^ ByteBits = A * N
  <2>1. k + n = ByteBits
    BY <1>1, <1>2
  <2>2. 2 ^ (k + n) = 2 ^ k * 2 ^ n
    BY <1>1, <2>1, PowerOfSum
  <2> QED BY <2>1, <2>2, <1>3, <1>4
<1>6. y \in Nat /\ y < A * N
  BY <1>5
<1>7. y \div N \in Nat /\ y \div N < A
  BY <1>6, QuotientBound
<1>8. Shifted(y, n, level) = y \div N + (IF level THEN (N - 1) * A ELSE 0)
  BY <1>2, <1>3, <1>4 DEF Shifted
<1>9. (N - 1) * A = A * N - A /\ A * N \in Nat /\ (N - 1) * A \in Nat
  OBVIOUS
<1>10. Shifted(y, n, level) \in Nat /\ Shifted(y, n, level) < A * N
  BY <1>7, <1>8, <1>9
<1> QED BY <1>5, <1>9, <1>10

\* The high bits of the byte that is put together are the low ones of the byte that was sent.
LEMMA ShiftedBits ==
  ASSUME NEW x \in Nat, NEW y \in 0 .. 2 ^ ByteBits - 1, NEW level \in BOOLEAN,
         NEW m \in 0 .. ByteBits, NEW n \in 0 .. ByteBits, m + n <= ByteBits,
         LowBits(x, y, m),
         BitsAlike(x, m, n, level)
  PROVE  LowBits(x, Shifted(y, n, level), m + n)
<1>0. y \div 2 ^ (ByteBits - m) = x % 2 ^ m
  BY Zenon DEF LowBits
<1>1. ByteBits \in Nat
  BY Format
<1>2. PICK k \in 0 .. ByteBits : k = ByteBits - (m + n)
  BY <1>1
<1>3. PICK A \in Nat \ {0} : A = 2 ^ k
  BY <1>1, Powers
<1>4. PICK N \in Nat \ {0} : N = 2 ^ n
  BY <1>1, Powers
<1>5. PICK M \in Nat \ {0} : M = 2 ^ m
  BY <1>1, Powers
<1>6. 2 ^ (ByteBits - m) = A * N
  <2>1. k + n = ByteBits - m /\ k + n <= ByteBits
    BY <1>1, <1>2
  <2>2. 2 ^ (k + n) = 2 ^ k * 2 ^ n
    BY <1>1, <2>1, PowerOfSum
  <2> QED BY <2>1, <2>2, <1>3, <1>4
<1>7. 2 ^ (ByteBits - n) = A * M
  <2>1. k + m = ByteBits - n /\ k + m <= ByteBits
    BY <1>1, <1>2
  <2>2. 2 ^ (k + m) = 2 ^ k * 2 ^ m
    BY <1>1, <2>1, PowerOfSum
  <2> QED BY <2>1, <2>2, <1>3, <1>5
<1>8. PICK q \in Nat : q = x % M
  OBVIOUS
<1>9. PICK r \in 0 .. A * N - 1 : y = (A * N) * q + r
  <2>1. A * N \in Nat \ {0}
    OBVIOUS
  <2>2. y \in Nat
    <3>1. 2 ^ ByteBits \in Nat
      BY <1>1, Powers
    <3> QED BY <3>1
  <2>3. y = (A * N) * (y \div (A * N)) + (y % (A * N)) /\ y % (A * N) \in 0 .. A * N - 1
    BY <2>1, <2>2, Quotient
  <2>4. y \div (A * N) = q
    BY <1>0, <1>5, <1>6, <1>8
  <2> QED BY <2>3, <2>4
<1>10. PICK r1 \in Nat, r0 \in 0 .. N - 1 : r = N * r1 + r0 /\ r1 < A
  <2>1. r \in Nat /\ r < A * N
    <3>1. A * N \in Nat
      OBVIOUS
    <3> QED BY <3>1
  <2>2. r = N * (r \div N) + (r % N) /\ r % N \in 0 .. N - 1
    BY <2>1, Quotient
  <2>3. r \div N \in Nat /\ r \div N < A
    BY <2>1, QuotientBound
  <2> QED BY <2>2, <2>3
<1>11. y = N * (A * q + r1) + r0
  <2>1. (A * N) * q = N * (A * q)
    OBVIOUS
  <2>2. N * (A * q + r1) = N * (A * q) + N * r1
    OBVIOUS
  <2>3. (A * N) * q \in Nat /\ N * r1 \in Nat
    OBVIOUS
  <2> QED BY <1>9, <1>10, <2>1, <2>2, <2>3
<1>12. y \div N = A * q + r1
  <2>1. PICK z \in Nat : z = A * q + r1
    OBVIOUS
  <2>2. (N * z + r0) \div N = z
    BY QuotientUnique
  <2> QED BY <1>11, <2>1, <2>2
<1>13. PICK v \in Nat : v = q + (IF level THEN M * (N - 1) ELSE 0)
  OBVIOUS
<1>14. Shifted(y, n, level) = A * v + r1
  <2>1. Shifted(y, n, level) = (A * q + r1) + (IF level THEN (N - 1) * (A * M) ELSE 0)
    BY <1>4, <1>7, <1>12 DEF Shifted
  <2>2. CASE level
    <3>1. A * v = A * q + (N - 1) * (A * M)
      BY <1>13, <2>2
    <3>2. A * q \in Nat /\ (N - 1) * (A * M) \in Nat
      OBVIOUS
    <3> QED BY <2>1, <2>2, <3>1, <3>2
  <2>3. CASE ~level
    <3>1. v = q
      BY <1>13, <2>3
    <3>2. A * q \in Nat
      OBVIOUS
    <3> QED BY <2>1, <2>3, <3>1, <3>2
  <2> QED BY <2>2, <2>3
<1>15. (A * v + r1) \div A = v
  <2>1. r1 \in 0 .. A - 1
    BY <1>10
  <2> QED BY <2>1, QuotientUnique
<1>16. x % 2 ^ (m + n) = v
  <2>1. x % 2 ^ (m + n) = (x % 2 ^ m) + (IF level THEN 2 ^ m * (2 ^ n - 1) ELSE 0)
    <3>1. BitsWorth(x, m, n, level)
      BY AlikeBits, Zenon
    <3> QED BY <3>1, Zenon DEF BitsWorth
  <2> QED BY <2>1, <1>4, <1>5, <1>8, <1>13
<1> QED BY <1>2, <1>3, <1>14, <1>15, <1>16 DEF LowBits
-----------------------------------------------------------------------------
(* The levels of a word. *)

\* They are those that write() gives it.
LEMMA LevelsAre ==
  ASSUME NEW w \in Word
  PROVE  /\ Levels(w) \in Seq(BOOLEAN)
         /\ Len(Levels(w)) = Frame
         /\ \A p \in 0 .. Frame - 1 : Levels(w)[p + 1] = LevelAt(w, p)
<1>1. w.parity \in BOOLEAN
  BY DEF Word
<1>2. PICK start \in Seq(BOOLEAN) : start = <<FALSE>> /\ Len(start) = 1 /\ start[1] = FALSE
  <2>1. <<FALSE>> \in Seq(BOOLEAN)
    OBVIOUS
  <2>2. Len(<<FALSE>>) = 1
    OBVIOUS
  <2>3. <<FALSE>>[1] = FALSE
    OBVIOUS
  <2> QED BY <2>1, <2>2, <2>3, Zenon
<1>3. PICK data \in Seq(BOOLEAN) :
        /\ data = [i \in 1 .. m_dataBits |-> Bit(w.byte, i - 1)]
        /\ Len(data) = m_dataBits /\ \A i \in 1 .. m_dataBits : data[i] = Bit(w.byte, i - 1)
  <2> DEFINE f == [i \in 1 .. m_dataBits |-> Bit(w.byte, i - 1)]
  <2>1. f \in Seq(BOOLEAN)
    <3>1. \A i \in 1 .. m_dataBits : Bit(w.byte, i - 1) \in BOOLEAN
      BY Zenon DEF Bit
    <3>2. f \in [1 .. m_dataBits -> BOOLEAN]
      BY <3>1
    <3> HIDE DEF f
    <3> QED BY <3>2, Format
  <2>2. Len(f) = m_dataBits
    BY <2>1, Format
  <2>3. \A i \in 1 .. m_dataBits : f[i] = Bit(w.byte, i - 1)
    OBVIOUS
  <2> HIDE DEF f
  <2>4. f = [i \in 1 .. m_dataBits |-> Bit(w.byte, i - 1)]
    BY DEF f
  <2> QED BY <2>1, <2>2, <2>3, <2>4, Zenon
<1>4. PICK par \in Seq(BOOLEAN) :
        /\ par = (IF m_parityMode THEN <<w.parity>> ELSE <<>>)
        /\ Len(par) = (IF m_parityMode THEN 1 ELSE 0)
        /\ m_parityMode => par[1] = w.parity
  <2>1. CASE m_parityMode
    <3>1. <<w.parity>> \in Seq(BOOLEAN) /\ Len(<<w.parity>>) = 1 /\ <<w.parity>>[1] = w.parity
      BY <1>1
    <3> QED BY <2>1, <3>1
  <2>2. CASE ~m_parityMode
    <3>1. <<>> \in Seq(BOOLEAN) /\ Len(<<>>) = 0
      OBVIOUS
    <3>2. PICK e \in Seq(BOOLEAN) : e = <<>> /\ Len(e) = 0
      BY <3>1
    <3>3. e = (IF m_parityMode THEN <<w.parity>> ELSE <<>>) /\ Len(e) = (IF m_parityMode THEN 1 ELSE 0)
      BY <2>2, <3>2
    <3> QED BY <2>2, <3>3, Zenon
  <2> QED BY <2>1, <2>2
<1>5. PICK stops \in Seq(BOOLEAN) :
        /\ stops = [i \in 1 .. m_stopBits |-> TRUE]
        /\ Len(stops) = m_stopBits /\ \A i \in 1 .. m_stopBits : stops[i] = TRUE
  <2> DEFINE f == [i \in 1 .. m_stopBits |-> TRUE]
  <2>1. f \in [1 .. m_stopBits -> BOOLEAN]
    OBVIOUS
  <2>2. f \in Seq(BOOLEAN) /\ Len(f) = m_stopBits
    BY <2>1, Format
  <2>3. \A i \in 1 .. m_stopBits : f[i] = TRUE
    OBVIOUS
  <2> HIDE DEF f
  <2>4. f = [i \in 1 .. m_stopBits |-> TRUE]
    BY DEF f
  <2> QED BY <2>2, <2>3, <2>4, Zenon
<1>6. Levels(w) = start \o data \o par \o stops
  BY <1>2, <1>3, <1>4, <1>5 DEF Levels
<1>7. PICK two \in Seq(BOOLEAN) :
        /\ two = start \o data /\ Len(two) = 1 + m_dataBits
        /\ \A i \in 1 .. 1 + m_dataBits : two[i] = IF i <= 1 THEN start[i] ELSE data[i - 1]
  <2>1. /\ start \o data \in Seq(BOOLEAN) /\ Len(start \o data) = Len(start) + Len(data)
        /\ \A i \in 1 .. Len(start) + Len(data) :
             (start \o data)[i] = IF i <= Len(start) THEN start[i] ELSE data[i - Len(start)]
    BY ConcatProperties
  <2>2. PICK t \in Seq(BOOLEAN) : t = start \o data
    BY <2>1
  <2>3. Len(t) = 1 + m_dataBits
    BY <2>1, <2>2, <1>2, <1>3
  <2>4. \A i \in 1 .. 1 + m_dataBits : t[i] = IF i <= 1 THEN start[i] ELSE data[i - 1]
    BY <2>1, <2>2, <1>2, <1>3
  <2> QED BY <2>2, <2>3, <2>4, Zenon
<1>8. PICK three \in Seq(BOOLEAN) :
        /\ three = two \o par /\ Len(three) = Stop
        /\ \A i \in 1 .. Stop : three[i] = IF i <= 1 + m_dataBits THEN two[i] ELSE w.parity
  <2>1. /\ two \o par \in Seq(BOOLEAN) /\ Len(two \o par) = Len(two) + Len(par)
        /\ \A i \in 1 .. Len(two) + Len(par) :
             (two \o par)[i] = IF i <= Len(two) THEN two[i] ELSE par[i - Len(two)]
    BY ConcatProperties
  <2>2. Len(two) + Len(par) = Stop
    BY <1>4, <1>7, Format
  <2>3. ASSUME NEW i \in 1 .. Stop PROVE (two \o par)[i] = IF i <= 1 + m_dataBits THEN two[i] ELSE w.parity
    <3>1. CASE i <= 1 + m_dataBits
      BY <2>1, <2>2, <3>1, <1>7
    <3>2. CASE ~(i <= 1 + m_dataBits)
      <4>1. m_parityMode /\ i - (1 + m_dataBits) = 1
        BY <3>2, Format
      <4> QED BY <4>1, <2>1, <2>2, <3>2, <1>4, <1>7
    <3> QED BY <3>1, <3>2
  <2> QED BY <2>1, <2>2, <2>3
<1>9. /\ Levels(w) \in Seq(BOOLEAN) /\ Len(Levels(w)) = Frame
      /\ \A i \in 1 .. Frame : Levels(w)[i] = IF i <= Stop THEN three[i] ELSE stops[i - Stop]
  <2>1. /\ three \o stops \in Seq(BOOLEAN) /\ Len(three \o stops) = Len(three) + Len(stops)
        /\ \A i \in 1 .. Len(three) + Len(stops) :
             (three \o stops)[i] = IF i <= Len(three) THEN three[i] ELSE stops[i - Len(three)]
    BY ConcatProperties
  <2>2. Levels(w) = three \o stops
    BY <1>6, <1>7, <1>8
  <2> QED BY <2>1, <2>2, <1>5, <1>8, Format
<1>10. ASSUME NEW p \in 0 .. Frame - 1
       PROVE  Levels(w)[p + 1] = LevelAt(w, p)
  <2>1. PICK i \in 1 .. Frame : i = p + 1
    BY Format
  <2>2. Levels(w)[i] = IF i <= Stop THEN three[i] ELSE stops[i - Stop]
    BY <1>9
  <2>3. CASE p = 0
    <3>1. i = 1 /\ i \in 1 .. Stop /\ i \in 1 .. 1 + m_dataBits /\ i <= 1 /\ i <= 1 + m_dataBits /\ i <= Stop
      BY <2>1, <2>3, Format
    <3>2. Levels(w)[i] = start[1]
      BY <3>1, <2>2, <1>7, <1>8
    <3> QED BY <2>1, <2>3, <3>2, <1>2 DEF LevelAt
  <2>4. CASE p # 0 /\ p <= m_dataBits
    <3>1. i <= Stop /\ i <= 1 + m_dataBits /\ ~(i <= 1) /\ i - 1 = p /\ i \in 1 .. Stop /\ i \in 1 .. 1 + m_dataBits
      BY <2>1, <2>4, Format
    <3>2. Levels(w)[i] = data[p]
      BY <3>1, <2>2, <1>7, <1>8
    <3>3. p \in 1 .. m_dataBits
      BY <2>4, Format
    <3>4. data[p] = Bit(w.byte, p - 1)
      BY <3>3, <1>3
    <3> QED BY <3>2, <3>4, <2>1, <2>4 DEF LevelAt
  <2>5. CASE p > m_dataBits /\ p < Stop
    <3>1. i <= Stop /\ ~(i <= 1 + m_dataBits) /\ i \in 1 .. Stop
      BY <2>1, <2>5, Format
    <3>2. Levels(w)[i] = w.parity
      BY <3>1, <2>2, <1>8
    <3>3. p # 0 /\ ~(p <= m_dataBits)
      BY <2>5, Format
    <3> QED BY <3>2, <3>3, <2>1, <2>5 DEF LevelAt
  <2>6. CASE p >= Stop
    <3>1. ~(i <= Stop) /\ i - Stop \in 1 .. m_stopBits
      BY <2>1, <2>6, Format
    <3>2. Levels(w)[i] = TRUE
      BY <3>1, <2>2, <1>5
    <3>3. p # 0 /\ ~(p <= m_dataBits) /\ ~(p < Stop)
      BY <2>6, Format
    <3> QED BY <3>2, <3>3, <2>1 DEF LevelAt
  <2> QED BY <2>3, <2>4, <2>5, <2>6, Format
<1> QED BY <1>9, <1>10

-----------------------------------------------------------------------------
(* The stages of rxBits(isrCycle).                                         *)

\* The decoder before bits of one level, or after a stage.
Decoder(bits, cur, byte, parity, out) ==
  [bits |-> bits, cur |-> cur, byte |-> byte, parity |-> parity, out |-> out]

\* The stages after the start bit.
Rest(d, level) == StopBit(ParityBit(DataBits(d, level), level), level)

\* Bits counted in, of the byte that is put together.
DataCount(bits, cur) == IF cur < m_dataBits - 1 THEN Least(bits, m_dataBits - 1 - cur) ELSE 0

\* What rxBits(isrCycle) makes of the bits.
LEMMA DecodedRest ==
  ASSUME NEW cycles, NEW level
  PROVE  Decoded(cycles, level)
           = Rest(StartBit(Decoder(Bits(cycles), m_rxCurBit, m_rxCurByte, m_rxCurParity, <<>>), level), level)
BY DEF Decoded, Rest, Decoder

\* The fields of a decoder.
Fields == {"bits", "cur", "byte", "parity", "out"}

DataWith(d, u, v, z)   == [d EXCEPT !.bits = u, !.cur = v, !.byte = z]

\* A decoder with a parity bit.
ParityWith(d, u, v, z) == [d EXCEPT !.bits = u, !.cur = v, !.parity = z]

DataSet(b, c, y, t, o, u, v, z)   == DataWith(Decoder(b, c, y, t, o), u, v, z) = Decoder(u, v, z, t, o)
ParitySet(b, c, y, t, o, u, v, z) == ParityWith(Decoder(b, c, y, t, o), u, v, z) = Decoder(u, v, y, z, o)

\* Fields of a decoder are set.
LEMMA DecoderWith ==
  ASSUME NEW b, NEW c, NEW y, NEW t, NEW o, NEW u, NEW v, NEW z
  PROVE  DataSet(b, c, y, t, o, u, v, z) /\ ParitySet(b, c, y, t, o, u, v, z)
<1>1. [Decoder(b, c, y, t, o) EXCEPT !.bits = u, !.cur = v, !.byte = z] = Decoder(u, v, z, t, o)
  <2> DEFINE d == Decoder(b, c, y, t, o)
             r == [d EXCEPT !.bits = u, !.cur = v, !.byte = z]
             s == Decoder(u, v, z, t, o)
  <2>1. d = [x \in Fields |-> d[x]] /\ d.bits = b /\ d.cur = c /\ d.byte = y /\ d.parity = t /\ d.out = o
    BY DEF Decoder, Fields
  <2>2. s = [x \in Fields |-> s[x]] /\ s.bits = u /\ s.cur = v /\ s.byte = z /\ s.parity = t /\ s.out = o
    BY DEF Decoder, Fields
  <2> HIDE DEF d, s
  <2>3. r = [x \in Fields |-> r[x]] /\ r.bits = u /\ r.cur = v /\ r.byte = z /\ r.parity = t /\ r.out = o
    BY <2>1 DEF Fields
  <2> HIDE DEF r
  <2>4. \A x \in Fields : r[x] = s[x]
    BY <2>2, <2>3 DEF Fields
  <2>5. r = s
    BY <2>2, <2>3, <2>4, Zenon
  <2> QED BY <2>5 DEF r, s, d
<1>2. [Decoder(b, c, y, t, o) EXCEPT !.bits = u, !.cur = v, !.parity = z] = Decoder(u, v, y, z, o)
  <2> DEFINE d == Decoder(b, c, y, t, o)
             r == [d EXCEPT !.bits = u, !.cur = v, !.parity = z]
             s == Decoder(u, v, y, z, o)
  <2>1. d = [x \in Fields |-> d[x]] /\ d.bits = b /\ d.cur = c /\ d.byte = y /\ d.parity = t /\ d.out = o
    BY DEF Decoder, Fields
  <2>2. s = [x \in Fields |-> s[x]] /\ s.bits = u /\ s.cur = v /\ s.byte = y /\ s.parity = z /\ s.out = o
    BY DEF Decoder, Fields
  <2> HIDE DEF d, s
  <2>3. r = [x \in Fields |-> r[x]] /\ r.bits = u /\ r.cur = v /\ r.byte = y /\ r.parity = z /\ r.out = o
    BY <2>1 DEF Fields
  <2> HIDE DEF r
  <2>4. \A x \in Fields : r[x] = s[x]
    BY <2>2, <2>3 DEF Fields
  <2>5. r = s
    BY <2>2, <2>3, <2>4, Zenon
  <2> QED BY <2>5 DEF r, s, d
<1> QED BY <1>1, <1>2 DEF DataWith, ParityWith, DataSet, ParitySet

\* Data bits.
LEMMA DataStage ==
  ASSUME NEW b \in Nat, NEW c \in Int, NEW y, NEW t, NEW level \in BOOLEAN
  PROVE  LET n == DataCount(b, c)
         IN  DataBits(Decoder(b, c, y, t, <<>>), level) = Decoder(b - n, c + n, Shifted(y, n, level), t, <<>>)
<1> DEFINE d == Decoder(b, c, y, t, <<>>)
           n == DataCount(b, c)
           z == Shifted(y, n, level)
<1>1. d.bits = b /\ d.cur = c /\ d.byte = y /\ d.parity = t
  BY Zenon DEF Decoder
<1>2. DataBits(d, level) = [d EXCEPT !.bits = d.bits - n, !.cur = d.cur + n, !.byte = Shifted(d.byte, n, level)]
  <2> HIDE DEF d
  <2> QED BY <1>1 DEF DataBits, DataCount
<1>3. DataBits(d, level) = DataWith(d, b - n, c + n, z)
  <2> HIDE DEF d, n
  <2> QED BY <1>1, <1>2, Zenon DEF DataWith
<1> HIDE DEF n, z
<1>4. DataWith(d, b - n, c + n, z) = Decoder(b - n, c + n, z, t, <<>>)
  <2>1. PICK e : e = <<>>
    OBVIOUS
  <2>2. DataSet(b, c, y, t, e, b - n, c + n, z)
    BY DecoderWith, Zenon
  <2> QED BY <2>1, <2>2, Zenon DEF DataSet
<1> QED BY <1>3, <1>4 DEF n, z

\* A parity bit.
LEMMA ParityStage ==
  ASSUME NEW b \in Nat, NEW c \in Int, NEW y, NEW t, NEW level \in BOOLEAN
  PROVE  ParityBit(Decoder(b, c, y, t, <<>>), level)
           = IF b > 0 /\ m_parityMode /\ c = m_dataBits - 1
             THEN Decoder(b - 1, c + 1, y, level, <<>>) ELSE Decoder(b, c, y, t, <<>>)
<1> DEFINE d == Decoder(b, c, y, t, <<>>)
<1>1. d.bits = b /\ d.cur = c
  BY Zenon DEF Decoder
<1>2. CASE b > 0 /\ m_parityMode /\ c = m_dataBits - 1
  <2>1. ParityBit(d, level) = [d EXCEPT !.bits = d.bits - 1, !.cur = d.cur + 1, !.parity = level]
    <3> HIDE DEF d
    <3> QED BY <1>1, <1>2 DEF ParityBit
  <2>2. ParityBit(d, level) = ParityWith(d, b - 1, c + 1, level)
    <3> HIDE DEF d
    <3> QED BY <1>1, <2>1, Zenon DEF ParityWith
  <2>3. ParityWith(d, b - 1, c + 1, level) = Decoder(b - 1, c + 1, y, level, <<>>)
    <3>1. PICK e : e = <<>>
      OBVIOUS
    <3>2. ParitySet(b, c, y, t, e, b - 1, c + 1, level)
      BY DecoderWith, Zenon
    <3> QED BY <3>1, <3>2, Zenon DEF ParitySet
  <2> QED BY <1>2, <2>2, <2>3
<1>3. CASE ~(b > 0 /\ m_parityMode /\ c = m_dataBits - 1)
  <2>1. ParityBit(d, level) = d
    <3> HIDE DEF d
    <3> QED BY <1>1, <1>3 DEF ParityBit
  <2> QED BY <1>3, <2>1
<1> QED BY <1>2, <1>3

\* A word whose stop bit has come.
EndedWord(y, t, level) ==
  Decoder(0, m_pduBits, 0, FALSE,
          IF level THEN <<[byte |-> y \div 2 ^ (ByteBits - m_dataBits), parity |-> t]>> ELSE <<>>)

\* A stop bit.
LEMMA StopStage ==
  ASSUME NEW b \in Nat, NEW c \in Int, NEW y, NEW t, NEW level \in BOOLEAN
  PROVE  StopBit(Decoder(b, c, y, t, <<>>), level)
           = IF b > 0 /\ c = m_pduBits - m_stopBits - 1 THEN EndedWord(y, t, level) ELSE Decoder(b, c, y, t, <<>>)
BY DEF StopBit, Decoder, EndedWord

\* Within a word, bits that do not reach its stop bit.
LEMMA RestGoesOn ==
  ASSUME NEW c \in -1 .. Stop - 2, NEW b \in Nat, c + b <= Stop - 2, NEW y, NEW t, NEW level \in BOOLEAN
  PROVE  Rest(Decoder(b, c, y, t, <<>>), level)
           = Decoder(0, c + b, Shifted(y, DataCount(b, c), level),
                     IF b > 0 /\ m_parityMode /\ c + b = m_dataBits THEN level ELSE t, <<>>)
<1> DEFINE n == DataCount(b, c)
<1>1. n \in Nat /\ n <= b /\ (c < m_dataBits - 1 => c + n <= m_dataBits - 1 /\ (n = b \/ c + n = m_dataBits - 1))
      /\ (~(c < m_dataBits - 1) => n = 0)
  BY Format DEF DataCount, Least
<1> HIDE DEF n
<1>2. PICK b1 \in Nat, c1 \in Int : b1 = b - n /\ c1 = c + n
  BY <1>1
<1> DEFINE y1 == Shifted(y, n, level)
<1> HIDE DEF y1
<1>3. DataBits(Decoder(b, c, y, t, <<>>), level) = Decoder(b1, c1, y1, t, <<>>)
  BY <1>2, DataStage DEF n, y1
<1>4. ParityBit(Decoder(b1, c1, y1, t, <<>>), level)
        = IF b1 > 0 /\ m_parityMode /\ c1 = m_dataBits - 1
          THEN Decoder(b1 - 1, c1 + 1, y1, level, <<>>) ELSE Decoder(b1, c1, y1, t, <<>>)
  BY ParityStage
<1>5. CASE b1 > 0 /\ m_parityMode /\ c1 = m_dataBits - 1
  <2>1. b1 = 1 /\ Stop = m_dataBits + 2 /\ b > 0 /\ c + b = m_dataBits
    BY <1>1, <1>2, <1>5, Format
  <2>2. PICK b2 \in Nat, c2 \in Int : b2 = b1 - 1 /\ c2 = c1 + 1 /\ b2 = 0 /\ c2 = c + b
    <3>1. b1 - 1 = 0 /\ c1 + 1 = c + b
      BY <1>1, <1>2, <2>1
    <3>2. c1 + 1 \in Int
      OBVIOUS
    <3> QED BY <3>1, <3>2
  <2>3. StopBit(Decoder(b2, c2, y1, level, <<>>), level) = Decoder(b2, c2, y1, level, <<>>)
    BY <2>2, StopStage
  <2>4. Rest(Decoder(b, c, y, t, <<>>), level) = Decoder(0, c + b, y1, level, <<>>)
    BY <1>3, <1>4, <1>5, <2>2, <2>3 DEF Rest
  <2> QED BY <2>1, <2>4, <1>5 DEF y1, n
<1>6. CASE ~(b1 > 0 /\ m_parityMode /\ c1 = m_dataBits - 1)
  <2>1. b1 = 0 /\ c1 = c + b
    BY <1>1, <1>2, <1>6, Format
  <2>2. ~(b > 0 /\ m_parityMode /\ c + b = m_dataBits)
    BY <1>1, <1>2, <1>6, <2>1, Format
  <2>3. StopBit(Decoder(b1, c1, y1, t, <<>>), level) = Decoder(b1, c1, y1, t, <<>>)
    BY <2>1, StopStage
  <2>4. Rest(Decoder(b, c, y, t, <<>>), level) = Decoder(0, c + b, y1, t, <<>>)
    BY <1>3, <1>4, <1>6, <2>1, <2>3 DEF Rest
  <2> QED BY <2>2, <2>4 DEF y1, n
<1> QED BY <1>5, <1>6

\* Within a word, bits that reach its stop bit.
LEMMA RestEnds ==
  ASSUME NEW c \in -1 .. Stop - 2, NEW b \in Nat, c + b > Stop - 2, NEW y, NEW t, NEW level \in BOOLEAN
  PROVE  Rest(Decoder(b, c, y, t, <<>>), level)
           = EndedWord(Shifted(y, DataCount(b, c), level),
                       IF m_parityMode /\ c < m_dataBits THEN level ELSE t, level)
<1> DEFINE n == DataCount(b, c)
<1>1. n \in Nat /\ n <= b /\ (c < m_dataBits - 1 => c + n = m_dataBits - 1 /\ b > n)
      /\ (~(c < m_dataBits - 1) => n = 0)
  BY Format DEF DataCount, Least
<1> HIDE DEF n
<1>2. PICK b1 \in Nat, c1 \in Int : b1 = b - n /\ c1 = c + n
  BY <1>1
<1> DEFINE y1 == Shifted(y, n, level)
<1> HIDE DEF y1
<1>3. DataBits(Decoder(b, c, y, t, <<>>), level) = Decoder(b1, c1, y1, t, <<>>)
  BY <1>2, DataStage DEF n, y1
<1>4. ParityBit(Decoder(b1, c1, y1, t, <<>>), level)
        = IF b1 > 0 /\ m_parityMode /\ c1 = m_dataBits - 1
          THEN Decoder(b1 - 1, c1 + 1, y1, level, <<>>) ELSE Decoder(b1, c1, y1, t, <<>>)
  BY ParityStage
<1>5. CASE b1 > 0 /\ m_parityMode /\ c1 = m_dataBits - 1
  <2>1. c < m_dataBits
    BY <1>1, <1>2, <1>5, Format
  <2>2. PICK b2 \in Nat, c2 \in Int : b2 = b1 - 1 /\ c2 = c1 + 1 /\ b2 > 0 /\ c2 = m_pduBits - m_stopBits - 1
    BY <1>1, <1>2, <1>5, Format
  <2>3. StopBit(Decoder(b2, c2, y1, level, <<>>), level) = EndedWord(y1, level, level)
    BY <2>2, StopStage
  <2>4. Rest(Decoder(b, c, y, t, <<>>), level) = EndedWord(y1, level, level)
    BY <1>3, <1>4, <1>5, <2>2, <2>3 DEF Rest
  <2> QED BY <2>1, <2>4, <1>5 DEF y1, n
<1>6. CASE ~(b1 > 0 /\ m_parityMode /\ c1 = m_dataBits - 1)
  <2>1. b1 > 0 /\ c1 = m_pduBits - m_stopBits - 1
    BY <1>1, <1>2, <1>6, Format
  <2>2. ~(m_parityMode /\ c < m_dataBits)
    BY <1>1, <1>2, <1>6, <2>1, Format
  <2>3. StopBit(Decoder(b1, c1, y1, t, <<>>), level) = EndedWord(y1, t, level)
    BY <2>1, StopStage
  <2>4. Rest(Decoder(b, c, y, t, <<>>), level) = EndedWord(y1, t, level)
    BY <1>3, <1>4, <1>6, <2>3 DEF Rest
  <2> QED BY <2>2, <2>4 DEF y1, n
<1> QED BY <1>5, <1>6

\* Between words nothing happens without a bit or with bits that are no start bit.
LEMMA RestStays ==
  ASSUME NEW c \in {m_pduBits - 1, m_pduBits}, NEW y \in 0 .. 2 ^ ByteBits - 1, NEW t, NEW level \in BOOLEAN
  PROVE  Rest(Decoder(0, c, y, t, <<>>), level) = Decoder(0, c, y, t, <<>>)
<1>1. c \in Int /\ DataCount(0, c) = 0 /\ c >= m_dataBits
  BY Format DEF DataCount
<1>2. Shifted(y, 0, level) = y
  <2>1. 2 ^ 0 = 1 /\ 2 ^ (ByteBits - 0) \in Nat /\ 2 ^ ByteBits \in Nat
    BY Powers, Format
  <2>2. y \div 1 = y
    BY <2>1, SMT
  <2> QED BY <2>1, <2>2 DEF Shifted
<1>3. DataBits(Decoder(0, c, y, t, <<>>), level) = Decoder(0, c, y, t, <<>>)
  <2>1. DataBits(Decoder(0, c, y, t, <<>>), level) = Decoder(0 - 0, c + 0, Shifted(y, 0, level), t, <<>>)
    BY <1>1, DataStage
  <2> QED BY <1>1, <1>2, <2>1
<1>4. ParityBit(Decoder(0, c, y, t, <<>>), level) = Decoder(0, c, y, t, <<>>)
  BY <1>1, ParityStage
<1>5. StopBit(Decoder(0, c, y, t, <<>>), level) = Decoder(0, c, y, t, <<>>)
  BY <1>1, StopStage
<1> QED BY <1>3, <1>4, <1>5 DEF Rest

-----------------------------------------------------------------------------
(* What the decoder has of a word. *)

\* The decoder goes on with a word.
InWord(d, w, at) ==
  /\ d.byte \in 0 .. 2 ^ ByteBits - 1 /\ d.parity \in BOOLEAN /\ d.out = <<>>
  /\ Has(w, at, d.cur, d.byte, d.parity)

\* The decoder has put a word together.
OutOfWord(d, w) ==
  \E p \in BOOLEAN :
    /\ d = Decoder(0, m_pduBits, 0, FALSE, <<[byte |-> w.byte, parity |-> p]>>)
    /\ m_parityMode => p = w.parity

\* The fields of a decoder.
LEMMA DecoderFields ==
  ASSUME NEW b, NEW c, NEW y, NEW t, NEW o
  PROVE  LET d == Decoder(b, c, y, t, o)
         IN  d.bits = b /\ d.cur = c /\ d.byte = y /\ d.parity = t /\ d.out = o
BY Zenon DEF Decoder

\* Steady levels are alike bits.
LEMMA SteadyBits ==
  ASSUME NEW w, NEW at \in 1 .. Stop, NEW q \in Int, NEW level \in BOOLEAN, Steady(w, at, q, level),
         NEW n \in Nat, at + n - 1 <= m_dataBits, at + n - 1 <= q
  PROVE  BitsAlike(w.byte, at - 1, n, level)
<1> SUFFICES ASSUME NEW i \in at - 1 .. at - 1 + n - 1 PROVE Bit(w.byte, i) = level
  BY DEF BitsAlike
<1>1. i + 1 \in at .. q /\ i + 1 # 0 /\ i + 1 <= m_dataBits /\ (i + 1) - 1 = i
  BY Format
<1>2. LevelAt(w, i + 1) = level
  BY <1>1, Zenon DEF Steady
<1>3. LevelAt(w, i + 1) = Bit(w.byte, (i + 1) - 1)
  BY <1>1, Zenon DEF LevelAt
<1> QED BY <1>1, <1>2, <1>3

\* Bits of one level that stay within a word go into it.
LEMMA HasGoesOn ==
  ASSUME NEW w \in Word, NEW at \in 1 .. Stop, NEW c, NEW y \in 0 .. 2 ^ ByteBits - 1, NEW t \in BOOLEAN,
         Has(w, at, c, y, t),
         NEW b \in Nat, at + b <= Stop, NEW level \in BOOLEAN, Steady(w, at, at + b - 1, level)
  PROVE  InWord(Rest(Decoder(b, c, y, t, <<>>), level), w, at + b)
<1> DEFINE n == DataCount(b, c)
           m == Least(at - 1, m_dataBits)
           y2 == Shifted(y, n, level)
           t2 == IF b > 0 /\ m_parityMode /\ c + b = m_dataBits THEN level ELSE t
<1>1. c = at - 2 /\ LowBits(w.byte, y, m) /\ (m_parityMode /\ at = Stop => t = w.parity)
  BY Zenon DEF Has
<1>2. c \in -1 .. Stop - 2 /\ c + b <= Stop - 2 /\ c + b = (at + b) - 2
  BY <1>1, Format
<1>3. w.byte \in Nat /\ w.parity \in BOOLEAN
  <2>1. w.byte \in 0 .. 2 ^ m_dataBits - 1 /\ w.parity \in BOOLEAN
    BY DEF Word
  <2> QED BY <2>1
<1>4. m \in 0 .. ByteBits /\ n \in 0 .. ByteBits /\ m + n <= ByteBits /\ n \in Nat
      /\ m + n = Least((at + b) - 1, m_dataBits)
      /\ (n > 0 => m = at - 1 /\ at + n - 1 <= m_dataBits /\ at + n - 1 <= at + b - 1)
  BY <1>1, Format DEF Least, DataCount
<1>5. Rest(Decoder(b, c, y, t, <<>>), level) = Decoder(0, c + b, y2, t2, <<>>)
  BY <1>2, RestGoesOn
<1> HIDE DEF m, n
<1>6. BitsAlike(w.byte, m, n, level)
  <2>1. CASE n = 0
    BY <2>1, <1>4 DEF BitsAlike
  <2>2. CASE n > 0
    <3>1. at + b - 1 \in Int
      BY Format
    <3>2. BitsAlike(w.byte, at - 1, n, level)
      BY <2>2, <3>1, <1>4, SteadyBits
    <3> QED BY <2>2, <3>2, <1>4
  <2>3. n = 0 \/ n > 0
    BY <1>4
  <2> QED BY <2>1, <2>2, <2>3, Zenon
<1>7. LowBits(w.byte, y2, m + n)
  <2> HIDE DEF y2
  <2>1. LowBits(w.byte, Shifted(y, n, level), m + n)
    BY <1>1, <1>3, <1>4, <1>6, ShiftedBits, Zenon
  <2> QED BY <2>1 DEF y2
<1>8. y2 \in 0 .. 2 ^ ByteBits - 1
  BY <1>4, ShiftedIsByte
<1>9. t2 \in BOOLEAN
  OBVIOUS
<1>10. m_parityMode /\ at + b = Stop => t2 = w.parity
  <2> SUFFICES ASSUME m_parityMode, at + b = Stop PROVE t2 = w.parity
    OBVIOUS
  <2>1. Stop = m_dataBits + 2 /\ c + b = m_dataBits
    BY <1>1, Format
  <2>2. CASE b = 0
    BY <2>2, <1>1
  <2>3. CASE b > 0
    <3>1. Stop - 1 \in at .. at + b - 1 /\ Stop - 1 # 0 /\ ~(Stop - 1 <= m_dataBits) /\ Stop - 1 < Stop
      BY <2>1, <2>3, Format
    <3>2. LevelAt(w, Stop - 1) = level
      BY <3>1, Zenon DEF Steady
    <3>3. LevelAt(w, Stop - 1) = w.parity
      BY <3>1, Zenon DEF LevelAt
    <3>4. t2 = level
      BY <2>1, <2>3
    <3> QED BY <3>2, <3>3, <3>4
  <2> QED BY <2>2, <2>3
<1> HIDE DEF y2, t2
<1>11. Has(w, at + b, c + b, y2, t2)
  <2>1. LowBits(w.byte, y2, Least((at + b) - 1, m_dataBits))
    BY <1>4, <1>7
  <2> QED BY <2>1, <1>2, <1>10, Zenon DEF Has
<1>12. PICK d : d = Decoder(0, c + b, y2, t2, <<>>)
  OBVIOUS
<1>13. d.cur = c + b /\ d.byte = y2 /\ d.parity = t2 /\ d.out = <<>>
  BY <1>12, Zenon DEF Decoder
<1>14. InWord(d, w, at + b)
  BY <1>13, <1>8, <1>9, <1>11 DEF InWord
<1> QED BY <1>5, <1>12, <1>14

\* Bits of a word that are its rest end it, and the word is right.
LEMMA HasEnds ==
  ASSUME NEW w \in Word, NEW at \in 1 .. Stop, NEW c, NEW y \in 0 .. 2 ^ ByteBits - 1, NEW t \in BOOLEAN,
         Has(w, at, c, y, t),
         NEW b \in Nat, at + b > Stop, Steady(w, at, Stop, TRUE)
  PROVE  OutOfWord(Rest(Decoder(b, c, y, t, <<>>), TRUE), w)
<1> DEFINE n == DataCount(b, c)
           m == Least(at - 1, m_dataBits)
           y2 == Shifted(y, n, TRUE)
           t2 == IF m_parityMode /\ c < m_dataBits THEN TRUE ELSE t
<1>1. c = at - 2 /\ LowBits(w.byte, y, m) /\ (m_parityMode /\ at = Stop => t = w.parity)
  BY Zenon DEF Has
<1>2. c \in -1 .. Stop - 2 /\ c + b > Stop - 2
  BY <1>1, Format
<1>3. w.byte \in Nat /\ w.byte < 2 ^ m_dataBits /\ 2 ^ m_dataBits \in Nat \ {0} /\ w.parity \in BOOLEAN
  <2>1. w.byte \in 0 .. 2 ^ m_dataBits - 1 /\ w.parity \in BOOLEAN
    BY DEF Word
  <2>2. 2 ^ m_dataBits \in Nat \ {0}
    <3>1. m_dataBits \in 0 .. ByteBits + 1
      BY Format
    <3> QED BY <3>1, Powers
  <2> QED BY <2>1, <2>2
<1>4. m \in 0 .. ByteBits /\ n \in 0 .. ByteBits /\ m + n = m_dataBits /\ m + n <= ByteBits /\ n \in Nat
      /\ (n > 0 => m = at - 1 /\ at + n - 1 <= m_dataBits /\ at + n - 1 <= Stop)
  BY <1>1, Format DEF Least, DataCount
<1>5. Rest(Decoder(b, c, y, t, <<>>), TRUE) = EndedWord(y2, t2, TRUE)
  BY <1>2, RestEnds
<1> HIDE DEF m, n
<1>6. BitsAlike(w.byte, m, n, TRUE)
  <2>1. CASE n = 0
    BY <2>1, <1>4 DEF BitsAlike
  <2>2. CASE n > 0
    <3>1. Stop \in Int
      BY Format
    <3>2. PICK up \in BOOLEAN, q \in Int : up = TRUE /\ q = Stop /\ Steady(w, at, q, up)
      BY <3>1
    <3>21. at + n - 1 <= m_dataBits /\ at + n - 1 <= q
      BY <1>4, <2>2, <3>2
    <3>22. Steady(w, at, q, up)
      BY <3>2
    <3>3. BitsAlike(w.byte, at - 1, n, up)
      BY <3>21, <3>22, <1>4, SteadyBits, Zenon
    <3> QED BY <2>2, <3>2, <3>3, <1>4
  <2>3. n = 0 \/ n > 0
    BY <1>4
  <2> QED BY <2>1, <2>2, <2>3, Zenon
<1>7. y2 \div 2 ^ (ByteBits - m_dataBits) = w.byte
  <2> HIDE DEF y2
  <2>0. PICK up \in BOOLEAN : up = TRUE /\ BitsAlike(w.byte, m, n, up)
    BY <1>6
  <2>1. LowBits(w.byte, Shifted(y, n, up), m + n)
    BY <1>1, <1>3, <1>4, <2>0, ShiftedBits, Zenon
  <2>2. w.byte % 2 ^ m_dataBits = w.byte
    BY <1>3
  <2> QED BY <2>0, <2>1, <2>2, <1>4 DEF y2, LowBits
<1>8. m_parityMode => t2 = w.parity
  <2> SUFFICES ASSUME m_parityMode PROVE t2 = w.parity
    OBVIOUS
  <2>1. Stop = m_dataBits + 2
    BY Format
  <2>2. CASE at = Stop
    <3>1. ~(c < m_dataBits)
      BY <2>1, <2>2, <1>1, Format
    <3>2. t2 = t
      BY <3>1
    <3> QED BY <2>2, <3>2, <1>1
  <2>3. CASE at # Stop
    <3>1. Stop - 1 \in at .. Stop /\ Stop - 1 # 0 /\ ~(Stop - 1 <= m_dataBits) /\ Stop - 1 < Stop
      BY <2>1, <2>3, Format
    <3>2. LevelAt(w, Stop - 1) = TRUE
      BY <3>1, Zenon DEF Steady
    <3>3. LevelAt(w, Stop - 1) = w.parity
      BY <3>1, Zenon DEF LevelAt
    <3>4. c < m_dataBits
      BY <2>1, <2>3, <1>1, Format
    <3>5. t2 = TRUE
      BY <3>4
    <3> QED BY <3>2, <3>3, <3>5
  <2> QED BY <2>2, <2>3
<1>9. t2 \in BOOLEAN
  OBVIOUS
<1> HIDE DEF y2, t2
<1>10. EndedWord(y2, t2, TRUE) = Decoder(0, m_pduBits, 0, FALSE, <<[byte |-> w.byte, parity |-> t2]>>)
  BY <1>7 DEF EndedWord
<1> QED BY <1>5, <1>8, <1>9, <1>10, Zenon DEF OutOfWord

-----------------------------------------------------------------------------
(* A call of rxBits(isrCycle). *)

\* What it makes of b bits of one level.
Taken(b, cur, byte, parity, level) == Rest(StartBit(Decoder(b, cur, byte, parity, <<>>), level), level)

\* It is what Decoded is.
LEMMA DecodedTaken ==
  ASSUME NEW cycles, NEW level
  PROVE  Decoded(cycles, level) = Taken(Bits(cycles), m_rxCurBit, m_rxCurByte, m_rxCurParity, level)
BY DecodedRest DEF Taken

\* A start bit.
LEMMA StartStage ==
  ASSUME NEW b \in Nat, NEW c \in Int, NEW y, NEW t, NEW level \in BOOLEAN
  PROVE  StartBit(Decoder(b, c, y, t, <<>>), level)
           = IF b = 0 \/ c < m_pduBits - 1 THEN Decoder(b, c, y, t, <<>>)
             ELSE IF level THEN Decoder(0, c, y, t, <<>>) ELSE Decoder(b - 1, -1, y, t, <<>>)
<1> DEFINE d == Decoder(b, c, y, t, <<>>)
<1>1. d = [x \in Fields |-> d[x]] /\ d.bits = b /\ d.cur = c /\ d.byte = y /\ d.parity = t /\ d.out = <<>>
  BY DEF Decoder, Fields
<1>2. CASE b = 0 \/ c < m_pduBits - 1
  <2> HIDE DEF d
  <2>1. StartBit(d, level) = d
    BY <1>1, <1>2 DEF StartBit
  <2> QED BY <1>2, <2>1 DEF d
<1>3. CASE ~(b = 0 \/ c < m_pduBits - 1) /\ level
  <2> DEFINE r == StartBit(d, level)
             s == Decoder(0, c, y, t, <<>>)
  <2>1. s = [x \in Fields |-> s[x]] /\ s.bits = 0 /\ s.cur = c /\ s.byte = y /\ s.parity = t /\ s.out = <<>>
    BY DEF Decoder, Fields
  <2> HIDE DEF d, s
  <2>2. r = [d EXCEPT !.bits = 0]
    BY <1>1, <1>3 DEF StartBit
  <2> HIDE DEF r
  <2>3. r = [x \in Fields |-> r[x]] /\ r.bits = 0 /\ r.cur = c /\ r.byte = y /\ r.parity = t /\ r.out = <<>>
    BY <1>1, <2>2 DEF Fields
  <2>4. \A x \in Fields : r[x] = s[x]
    BY <2>1, <2>3 DEF Fields
  <2>5. r = s
    BY <2>1, <2>3, <2>4, Zenon
  <2> QED BY <1>3, <2>5 DEF r, s, d
<1>4. CASE ~(b = 0 \/ c < m_pduBits - 1) /\ ~level
  <2> DEFINE r == StartBit(d, level)
             s == Decoder(b - 1, -1, y, t, <<>>)
  <2>1. s = [x \in Fields |-> s[x]] /\ s.bits = b - 1 /\ s.cur = -1 /\ s.byte = y /\ s.parity = t /\ s.out = <<>>
    BY DEF Decoder, Fields
  <2> HIDE DEF d, s
  <2>2. r = [d EXCEPT !.bits = d.bits - 1, !.cur = -1]
    BY <1>1, <1>4 DEF StartBit
  <2> HIDE DEF r
  <2>3. r = [x \in Fields |-> r[x]] /\ r.bits = b - 1 /\ r.cur = -1 /\ r.byte = y /\ r.parity = t /\ r.out = <<>>
    BY <1>1, <2>2 DEF Fields
  <2>4. \A x \in Fields : r[x] = s[x]
    BY <2>1, <2>3 DEF Fields
  <2>5. r = s
    BY <2>1, <2>3, <2>4, Zenon
  <2> QED BY <1>4, <2>5 DEF r, s, d
<1> QED BY <1>2, <1>3, <1>4

\* Where the decoder is between words, and in one.
Waiting == {m_pduBits - 1, m_pduBits}
Reading == -1 .. Stop - 2

\* The bits of the decoder as numbers.
LEMMA States ==
  /\ Waiting \subseteq Int /\ Reading \subseteq Int
  /\ \A c \in Waiting : c >= m_pduBits - 1 /\ c > Stop - 2
  /\ \A c \in Reading : c < m_pduBits - 1
BY Format DEF Waiting, Reading

\* Between words neither no bit nor the level of a stop bit does anything.
LEMMA TakenStays ==
  ASSUME NEW b \in Nat, NEW c \in Waiting, NEW y \in 0 .. 2 ^ ByteBits - 1, NEW t, NEW level \in BOOLEAN,
         b = 0 \/ level
  PROVE  Taken(b, c, y, t, level) = Decoder(0, c, y, t, <<>>)
<1>1. c \in Int /\ c >= m_pduBits - 1 /\ m_pduBits - 1 \in Int
  BY States, Format
<1>2. StartBit(Decoder(b, c, y, t, <<>>), level) = Decoder(0, c, y, t, <<>>)
  <2>1. CASE b = 0
    BY <2>1, <1>1, StartStage
  <2>2. CASE b # 0
    <3>1. ~(b = 0 \/ c < m_pduBits - 1) /\ level
      BY <2>2, <1>1
    <3>2. StartBit(Decoder(b, c, y, t, <<>>), level)
            = IF b = 0 \/ c < m_pduBits - 1 THEN Decoder(b, c, y, t, <<>>)
              ELSE IF level THEN Decoder(0, c, y, t, <<>>) ELSE Decoder(b - 1, -1, y, t, <<>>)
      BY <1>1, StartStage
    <3> QED BY <3>1, <3>2, Zenon
  <2> QED BY <2>1, <2>2
<1>3. Rest(Decoder(0, c, y, t, <<>>), level) = Decoder(0, c, y, t, <<>>)
  BY RestStays DEF Waiting
<1> QED BY <1>2, <1>3 DEF Taken

\* A start bit begins a word.
LEMMA TakenBegins ==
  ASSUME NEW b \in Nat, b > 0, NEW c \in Waiting, NEW y, NEW t
  PROVE  Taken(b, c, y, t, FALSE) = Rest(Decoder(b - 1, -1, y, t, <<>>), FALSE)
<1>1. PICK level \in BOOLEAN : level = FALSE
  OBVIOUS
<1>2. c \in Int /\ ~(b = 0 \/ c < m_pduBits - 1)
  BY States, Format
<1>3. StartBit(Decoder(b, c, y, t, <<>>), level) = Decoder(b - 1, -1, y, t, <<>>)
  BY <1>1, <1>2, StartStage
<1> QED BY <1>1, <1>3 DEF Taken

\* Within a word a start bit is not looked for.
LEMMA TakenWithin ==
  ASSUME NEW b \in Nat, NEW c \in Reading, NEW y, NEW t, NEW level \in BOOLEAN
  PROVE  Taken(b, c, y, t, level) = Rest(Decoder(b, c, y, t, <<>>), level)
<1>1. c \in Int /\ c < m_pduBits - 1
  BY States
<1>2. StartBit(Decoder(b, c, y, t, <<>>), level) = Decoder(b, c, y, t, <<>>)
  BY <1>1, StartStage
<1> QED BY <1>2 DEF Taken

\* The first bits of a word.
LEMMA TakenFirst ==
  ASSUME NEW w \in Word, NEW b \in Nat, b > 0, b <= Stop, NEW c \in Waiting, NEW y \in 0 .. 2 ^ ByteBits - 1,
         NEW t \in BOOLEAN, Steady(w, 0, b - 1, FALSE)
  PROVE  InWord(Taken(b, c, y, t, FALSE), w, b)
<1>1. Has(w, 1, -1, y, t)
  <2>1. LowBits(w.byte, y, Least(1 - 1, m_dataBits))
    <3>1. Least(1 - 1, m_dataBits) = 0
      BY Format DEF Least
    <3>2. ByteBits - 0 = ByteBits /\ 2 ^ 0 = 1 /\ 2 ^ ByteBits \in Nat \ {0}
      <4>1. ByteBits \in 0 .. ByteBits + 1 /\ ByteBits - 0 = ByteBits
        BY Format
      <4> QED BY <4>1, Powers
    <3>3. y \div 2 ^ ByteBits = 0
      BY <3>2
    <3>4. w.byte % 1 = 0
      <4>1. w.byte \in 0 .. 2 ^ m_dataBits - 1
        BY DEF Word
      <4>2. w.byte \in Int
        BY <4>1
      <4> QED BY <4>2
    <3> QED BY <3>1, <3>2, <3>3, <3>4 DEF LowBits
  <2>2. -1 = 1 - 2 /\ 1 # Stop
    BY Format
  <2> QED BY <2>1, <2>2, Zenon DEF Has
<1>2. PICK n \in Nat : n = b - 1 /\ 1 + n = b /\ 1 + n <= Stop
  BY Format
<1>3. PICK level \in BOOLEAN : level = FALSE
  OBVIOUS
<1>4. Steady(w, 1, 1 + n - 1, level)
  <2> SUFFICES ASSUME NEW i \in 1 .. 1 + n - 1 PROVE LevelAt(w, i) = level
    BY DEF Steady
  <2>1. i \in 0 .. b - 1
    BY <1>2
  <2> QED BY <2>1, <1>3, Zenon DEF Steady
<1>5. 1 \in 1 .. Stop
  BY Format
<1>6. InWord(Rest(Decoder(n, -1, y, t, <<>>), level), w, 1 + n)
  BY <1>1, <1>2, <1>4, <1>5, HasGoesOn
<1>7. Taken(b, c, y, t, FALSE) = Rest(Decoder(b - 1, -1, y, t, <<>>), FALSE)
  BY TakenBegins
<1> QED BY <1>2, <1>3, <1>6, <1>7

\* What a decoder has shows where it is.
LEMMA HasReads ==
  ASSUME NEW w, NEW at \in 1 .. Stop, NEW c, NEW y, NEW t, Has(w, at, c, y, t)
  PROVE  c \in Reading /\ c = at - 2
<1>1. c = at - 2
  BY Zenon DEF Has
<1> QED BY <1>1, Format DEF Reading

\* Further bits of a word.
LEMMA TakenGoesOn ==
  ASSUME NEW w \in Word, NEW at \in 1 .. Stop, NEW c, NEW y \in 0 .. 2 ^ ByteBits - 1, NEW t \in BOOLEAN,
         Has(w, at, c, y, t),
         NEW b \in Nat, at + b <= Stop, NEW level \in BOOLEAN, Steady(w, at, at + b - 1, level)
  PROVE  InWord(Taken(b, c, y, t, level), w, at + b)
<1>1. c \in Reading
  BY HasReads
<1> QED BY <1>1, TakenWithin, HasGoesOn

\* The last bits of a word.
LEMMA TakenEnds ==
  ASSUME NEW w \in Word, NEW at \in 1 .. Stop, NEW c, NEW y \in 0 .. 2 ^ ByteBits - 1, NEW t \in BOOLEAN,
         Has(w, at, c, y, t),
         NEW b \in Nat, at + b > Stop, Steady(w, at, Stop, TRUE)
  PROVE  OutOfWord(Taken(b, c, y, t, TRUE), w)
<1>1. c \in Reading
  BY HasReads
<1>2. Taken(b, c, y, t, TRUE) = Rest(Decoder(b, c, y, t, <<>>), TRUE)
  BY <1>1, TakenWithin
<1> QED BY <1>2, HasEnds

\* What is known of the decoder after any bits.
TakenTyped(d, c, level) ==
  /\ d.cur \in Reading \cup Waiting
  /\ d.byte \in 0 .. 2 ^ ByteBits - 1
  /\ d.parity \in BOOLEAN
  /\ d.out # <<>> => level /\ c \in Reading /\ d.cur = m_pduBits

\* Bits are counted into a byte.
LEMMA DataCountIs ==
  ASSUME NEW b \in Nat, NEW c \in Reading
  PROVE  DataCount(b, c) \in 0 .. ByteBits
BY Format DEF DataCount, Least, Reading

\* Any bits within a word.
LEMMA RestTyped ==
  ASSUME NEW b \in Nat, NEW c \in Reading, NEW y \in 0 .. 2 ^ ByteBits - 1, NEW t \in BOOLEAN, NEW level \in BOOLEAN
  PROVE  LET d == Rest(Decoder(b, c, y, t, <<>>), level)
         IN  TakenTyped(d, c, level) /\ (c + b > Stop - 2 => d.cur = m_pduBits)
<1> DEFINE d == Rest(Decoder(b, c, y, t, <<>>), level)
           n == DataCount(b, c)
<1>1. n \in 0 .. ByteBits
  BY DataCountIs
<1>2. Shifted(y, n, level) \in 0 .. 2 ^ ByteBits - 1
  BY <1>1, ShiftedIsByte
<1> HIDE DEF n
<1>3. c \in Int /\ c \in -1 .. Stop - 2 /\ Stop \in Nat /\ c + b \in Int
  BY Format DEF Reading
<1>4. CASE c + b <= Stop - 2
  <2> DEFINE y2 == Shifted(y, n, level)
             t2 == IF b > 0 /\ m_parityMode /\ c + b = m_dataBits THEN level ELSE t
  <2>1. d = Decoder(0, c + b, y2, t2, <<>>)
    BY <1>3, <1>4, RestGoesOn DEF n
  <2>2. t2 \in BOOLEAN
    OBVIOUS
  <2>3. c + b \in Reading
    BY <1>3, <1>4 DEF Reading
  <2> HIDE DEF y2, t2, d
  <2>4. d.cur = c + b /\ d.byte = y2 /\ d.parity = t2 /\ d.out = <<>>
    BY <2>1, Zenon DEF Decoder
  <2>5. TakenTyped(d, c, level)
    BY <2>2, <2>3, <2>4, <1>2 DEF TakenTyped, y2
  <2>6. ~(c + b > Stop - 2)
    BY <1>3, <1>4
  <2> QED BY <2>5, <2>6 DEF d
<1>5. CASE c + b > Stop - 2
  <2> DEFINE y2 == Shifted(y, n, level)
             t2 == IF m_parityMode /\ c < m_dataBits THEN level ELSE t
             o == IF level THEN <<[byte |-> y2 \div 2 ^ (ByteBits - m_dataBits), parity |-> t2]>> ELSE <<>>
  <2>1. d = EndedWord(y2, t2, level)
    BY <1>3, <1>5, RestEnds DEF n
  <2>2. d = Decoder(0, m_pduBits, 0, FALSE, o)
    BY <2>1 DEF EndedWord
  <2>3. o # <<>> => level
    OBVIOUS
  <2> HIDE DEF o, d
  <2>4. d.cur = m_pduBits /\ d.byte = 0 /\ d.parity = FALSE /\ d.out = o
    BY <2>2, Zenon DEF Decoder
  <2>5. 0 \in 0 .. 2 ^ ByteBits - 1
    <3>1. ByteBits \in 0 .. ByteBits + 1
      BY Format
    <3>2. 2 ^ ByteBits \in Nat \ {0}
      BY <3>1, Powers
    <3> QED BY <3>2
  <2>6. m_pduBits \in Waiting
    BY DEF Waiting
  <2> QED BY <2>3, <2>4, <2>5, <2>6 DEF TakenTyped, d
<1> QED BY <1>3, <1>4, <1>5

\* Any bits.
LEMMA TakenIsTyped ==
  ASSUME NEW b \in Nat, NEW c \in Reading \cup Waiting, NEW y \in 0 .. 2 ^ ByteBits - 1, NEW t \in BOOLEAN,
         NEW level \in BOOLEAN
  PROVE  TakenTyped(Taken(b, c, y, t, level), c, level)
<1>1. CASE c \in Reading
  BY <1>1, TakenWithin, RestTyped
<1>2. CASE c \in Waiting /\ (b = 0 \/ level)
  <2>1. PICK d : d = Taken(b, c, y, t, level)
    OBVIOUS
  <2>2. d = Decoder(0, c, y, t, <<>>)
    BY <2>1, <1>2, TakenStays
  <2>3. d.cur = c /\ d.byte = y /\ d.parity = t /\ d.out = <<>>
    BY <2>2, Zenon DEF Decoder
  <2> QED BY <2>1, <2>3 DEF TakenTyped
<1>3. CASE c \in Waiting /\ b > 0 /\ ~level
  <2>1. Taken(b, c, y, t, level) = Rest(Decoder(b - 1, -1, y, t, <<>>), level)
    BY <1>3, TakenBegins
  <2>2. b - 1 \in Nat /\ -1 \in Reading
    BY <1>3, Format DEF Reading
  <2>3. TakenTyped(Rest(Decoder(b - 1, -1, y, t, <<>>), level), -1, level)
    BY <2>2, RestTyped
  <2> QED BY <2>1, <2>3, <1>3 DEF TakenTyped
<1> QED BY <1>1, <1>2, <1>3

\* Bits that go beyond every word leave none under way.
LEMMA TakenOver ==
  ASSUME NEW b \in Nat, NEW c \in Reading \cup Waiting, NEW y \in 0 .. 2 ^ ByteBits - 1, NEW t \in BOOLEAN,
         NEW level \in BOOLEAN, ~(level /\ c \in Waiting),
         b >= Stop + (IF level THEN 0 ELSE 1) \/ (c \in Reading /\ c + b > Stop - 2)
  PROVE  Taken(b, c, y, t, level).cur = m_pduBits
<1>1. CASE c \in Reading
  <2>1. c + b > Stop - 2
    BY <1>1, Format DEF Reading
  <2> QED BY <1>1, <2>1, TakenWithin, RestTyped
<1>2. CASE c \in Waiting
  <2>1. ~(c \in Reading)
    BY <1>2, States, Format DEF Reading
  <2>2. ~level /\ b >= Stop + 1 /\ b > 0 /\ b - 1 \in Nat /\ -1 \in Reading /\ (-1) + (b - 1) > Stop - 2
    BY <1>2, <2>1, Format DEF Reading
  <2>3. Taken(b, c, y, t, level) = Rest(Decoder(b - 1, -1, y, t, <<>>), level)
    BY <1>2, <2>2, TakenBegins
  <2> QED BY <2>2, <2>3, RestTyped
<1> QED BY <1>1, <1>2

-----------------------------------------------------------------------------
(* Edges get older. *)

\* The fields of an edge.
LEMMA EdgeIs ==
  ASSUME NEW e \in EdgeType
  PROVE  e.age \in 0 .. CycleSpan - 1 /\ e.level \in BOOLEAN /\ e.of \in Nat /\ e.at \in Nat
BY DEF EdgeType

\* An edge has its fields.
EdgeFields(e, a, level, of, at) ==
  e \in EdgeType /\ e.age = a % CycleSpan /\ e.level = level /\ e.of = of /\ e.at = at

\* An edge.
LEMMA EdgeMade ==
  ASSUME NEW a \in Int, NEW level \in BOOLEAN, NEW of \in Nat, NEW at \in Nat
  PROVE  EdgeFields(Edge(a, level, of, at), a, level, of, at)
<1> DEFINE e == Edge(a, level, of, at)
<1>1. e.age = a % CycleSpan /\ e.level = level /\ e.of = of /\ e.at = at
  BY Zenon DEF Edge
<1>2. a % CycleSpan \in 0 .. CycleSpan - 1
  BY Format
<1>3. e \in EdgeType
  BY <1>2 DEF Edge, EdgeType
<1> QED BY <1>1, <1>3 DEF EdgeFields

\* What an edge keeps.
LEMMA OlderIs ==
  ASSUME NEW e \in EdgeType
  PROVE  /\ Older(e) \in EdgeType
         /\ Older(e).age = (e.age + m_bitCycles) % CycleSpan
         /\ Older(e).level = e.level /\ Older(e).of = e.of /\ Older(e).at = e.at
<1>1. e.age + m_bitCycles \in Int
  BY EdgeIs, Format
<1>2. e.level \in BOOLEAN /\ e.of \in Nat /\ e.at \in Nat
  BY EdgeIs
<1>3. EdgeFields(Older(e), e.age + m_bitCycles, e.level, e.of, e.at)
  BY <1>1, <1>2, EdgeMade, Zenon DEF Older
<1> QED BY <1>3, Zenon DEF EdgeFields

\* What an edge and the next are apart.
LEMMA OlderBetween ==
  ASSUME Paced, NEW e \in EdgeType, NEW e2 \in EdgeType
  PROVE  Between(Older(e), Older(e2)) = Between(e, e2)
<1>1. PICK C \in Nat \ {0} : C = CycleSpan
  BY Format
<1>2. PICK a \in 0 .. C - 1, b \in 0 .. C - 1 : a = e.age /\ b = e2.age
  BY <1>1, EdgeIs
<1>3. PICK c \in 0 .. C - 1 : c = m_bitCycles
  BY <1>1, Spans, Format
<1>4. (((a + c) % C) - ((b + c) % C)) % C = (a - b) % C
  BY CyclesStay
<1> QED BY <1>1, <1>2, <1>3, <1>4, OlderIs DEF Between

\* A span of bit times and a jitter are within the counter.
LEMMA AgeFits ==
  ASSUME Paced, NEW s \in Nat, s < BitSpan, NEW x \in 0 .. m_bitCycles - 1
  PROVE  s * m_bitCycles \in Nat /\ s * m_bitCycles + x \in 0 .. CycleSpan - 1
<1>1. m_bitCycles \in Nat \ {0} /\ CycleSpan \in Nat \ {0}
  BY Format
<1>2. s * m_bitCycles \in Nat
  BY <1>1
<1>3. s * m_bitCycles + (m_bitCycles - 1) < CycleSpan
  BY Spans
<1> QED BY <1>1, <1>2, <1>3

\* A bit time later.
LEMMA AgedOlder ==
  ASSUME Paced, NEW e \in EdgeType, NEW s \in Nat, s + 1 < BitSpan, Aged(e, s)
  PROVE  Aged(Older(e), s + 1)
<1>1. Latency \in 0 .. m_bitCycles - 1 /\ m_bitCycles \in Nat \ {0} /\ s + 1 \in Nat /\ s < BitSpan /\ BitSpan \in Nat
  BY Format
<1>2. PICK p \in Nat : p = s * m_bitCycles
  BY <1>1
<1>3. PICK x \in 0 .. Latency : e.age = p + x
  <2>1. e.age \in p .. p + Latency /\ e.age \in Int
    BY <1>2, EdgeIs DEF Aged
  <2>2. e.age - p \in 0 .. Latency /\ e.age = p + (e.age - p)
    BY <2>1, <1>1
  <2> QED BY <2>2
<1>4. (s + 1) * m_bitCycles = p + m_bitCycles
  BY <1>1, <1>2
<1>5. p + m_bitCycles + x \in 0 .. CycleSpan - 1
  <2>1. x \in 0 .. m_bitCycles - 1
    BY <1>1
  <2>2. (s + 1) * m_bitCycles + x \in 0 .. CycleSpan - 1
    BY <1>1, <2>1, AgeFits
  <2> QED BY <2>2, <1>4
<1>6. (e.age + m_bitCycles) % CycleSpan = p + m_bitCycles + x
  <2>1. e.age + m_bitCycles = p + m_bitCycles + x
    BY <1>1, <1>3
  <2>2. CycleSpan \in Nat \ {0}
    BY Format
  <2>3. PICK z \in 0 .. CycleSpan - 1 : z = p + m_bitCycles + x
    BY <1>5
  <2>4. z % CycleSpan = z
    BY <2>2
  <2> QED BY <2>1, <2>3, <2>4
<1>7. Older(e).age = p + m_bitCycles + x
  BY <1>6, OlderIs
<1>8. p + m_bitCycles + x \in p + m_bitCycles .. p + m_bitCycles + Latency
  BY <1>1
<1> QED BY <1>4, <1>7, <1>8 DEF Aged

\* Two edges n bit times apart.
LEMMA AgedBetween ==
  ASSUME Paced, NEW e \in EdgeType, NEW e2 \in EdgeType, NEW n \in Nat, n > 0, n < BitSpan, Aged(e, n), Aged(e2, 0)
  PROVE  Between(e, e2) = n
<1>1. Latency \in 0 .. m_bitCycles - 1 /\ m_bitCycles \in Nat \ {0} /\ 2 * Latency < m_bitCycles /\ CycleSpan \in Nat \ {0}
  BY Format DEF Paced
<1>2. PICK p \in Nat : p = n * m_bitCycles
  BY <1>1
<1>3. p >= m_bitCycles
  BY <1>1, <1>2
<1>4. e.age \in p .. p + Latency /\ e.age \in 0 .. CycleSpan - 1
  BY <1>2, EdgeIs DEF Aged
<1>5. e2.age \in 0 .. Latency
  <2>1. 0 * m_bitCycles = 0
    BY <1>1
  <2> QED BY <2>1, <1>1 DEF Aged
<1>6. PICK d \in -Latency .. Latency : e.age - e2.age = p + d
  <2>1. e.age - e2.age - p \in -Latency .. Latency
    BY <1>1, <1>4, <1>5
  <2>2. e.age - e2.age = p + (e.age - e2.age - p)
    BY <1>1, <1>4, <1>5
  <2> QED BY <2>1, <2>2
<1>7. (e.age - e2.age) % CycleSpan = p + d /\ p + d >= 0
  <2>1. PICK z \in 0 .. CycleSpan - 1 : z = e.age - e2.age
    BY <1>1, <1>3, <1>4, <1>5
  <2>2. z % CycleSpan = z
    BY <1>1
  <2> QED BY <2>1, <2>2, <1>6
<1>8. Bits(n * m_bitCycles + d) = n
  BY <1>2, <1>7, BitsAre
<1> QED BY <1>2, <1>7, <1>8 DEF Between

\* Bits are counted in a number of limited width.
LEMMA BetweenIs ==
  ASSUME NEW e \in EdgeType, NEW e2 \in EdgeType
  PROVE  Between(e, e2) \in Nat /\ (e.age - e2.age) % CycleSpan \in 0 .. CycleSpan - 1
<1>1. e.age - e2.age \in Int
  BY EdgeIs
<1>2. CycleSpan \in Nat \ {0} /\ BitSpan \in Nat \ {0} /\ m_bitCycles \in Nat \ {0}
  BY Format
<1>3. PICK c \in 0 .. CycleSpan - 1 : c = (e.age - e2.age) % CycleSpan
  BY <1>1, <1>2
<1>4. c \div m_bitCycles \in Nat
  BY <1>2
<1>5. PICK q \in Nat : q = c \div m_bitCycles + (IF c % m_bitCycles > m_bitCycles \div 2 THEN 1 ELSE 0)
  BY <1>4
<1>6. q % BitSpan \in Nat
  BY <1>2
<1> QED BY <1>3, <1>5, <1>6 DEF Between, Bits
-----------------------------------------------------------------------------
(* The line. *)

\* The line goes on with a word, or is quiet behind it.
LineGoes ==
  /\ sent' = sent
  /\ Pos' = Pos + 1
  /\ sent # <<>> => line' = LevelAt(sent[Len(sent)], Pos + 1)
  /\ line' # line => sent # <<>> /\ Pos + 1 \in 1 .. Stop /\ m_pduBits - Len(word') = Pos + 1 /\ idle' = 0

\* The line begins a word.
LineBegins ==
  /\ Len(sent') = Len(sent) + 1
  /\ \A k \in 1 .. Len(sent) : sent'[k] = sent[k]
  /\ line /\ line' = FALSE
  /\ LevelAt(sent'[Len(sent')], 0) = FALSE
  /\ Pos = m_pduBits + idle
  /\ Pos' = 0 /\ m_pduBits - Len(word') = 0 /\ idle' = 0

\* The stop bit and what is behind it.
LEMMA LevelBehind ==
  ASSUME NEW w, NEW p \in Int, p >= Stop
  PROVE  LevelAt(w, p) = TRUE
<1>1. ~(p = 0) /\ ~(p <= m_dataBits) /\ ~(p < Stop)
  BY Format
<1> QED BY <1>1, Zenon DEF LevelAt

\* A word starts with its start bit.
LEMMA LevelFirst == ASSUME NEW w PROVE LevelAt(w, 0) = FALSE
BY Zenon DEF LevelAt

\* The types of the line.
LineTyped ==
  /\ line \in BOOLEAN /\ word \in Seq(BOOLEAN) /\ Len(word) <= m_pduBits
  /\ idle \in Nat /\ sent \in Seq(Word)

\* The position on the line is a number of bit times.
LEMMA PosIs == LineTyped => Pos \in Nat /\ Len(word) \in Nat /\ Len(sent) \in Nat /\ m_pduBits \in Nat /\ m_pduBits >= Stop
BY Format DEF LineTyped, Pos

\* A bit time of the line.
LEMMA LineStep ==
  ASSUME LineTyped, LineInv, NextBit
  PROVE  LineTyped' /\ LineInv' /\ (LineGoes \/ LineBegins)
<1>1. /\ line \in BOOLEAN /\ word \in Seq(BOOLEAN) /\ Len(word) <= m_pduBits
      /\ idle \in Nat /\ sent \in Seq(Word)
  BY DEF LineTyped
<1>2. Pos \in Nat /\ Len(word) \in Nat /\ Len(sent) \in Nat /\ m_pduBits \in Nat /\ m_pduBits >= Stop /\ Stop \in Nat
  BY PosIs, Format
<1>3. sent # <<>> =>
       /\ line = LevelAt(sent[Len(sent)], Pos)
       /\ \A i \in 1 .. Len(word) : word[i] = LevelAt(sent[Len(sent)], Pos + i)
  BY Zenon DEF LineInv
<1>4. /\ word # <<>> => idle = 0
      /\ sent = <<>> => line /\ word = <<>> /\ idle > 0
  BY DEF LineInv
<1>5. CASE /\ word # <<>>
           /\ line' = Head(word) /\ word' = Tail(word)
           /\ UNCHANGED <<idle, sent>>
  <2>1. idle = 0 /\ sent # <<>>
    BY <1>4, <1>5
  <2>2. /\ Len(word) > 0 /\ word' \in Seq(BOOLEAN) /\ Len(word') = Len(word) - 1 /\ line' = word[1] /\ word[1] \in BOOLEAN
        /\ \A i \in 1 .. Len(word') : word'[i] = word[i + 1]
    BY <1>1, <1>5
  <2>3. Pos' = Pos + 1 /\ m_pduBits - Len(word') = Pos + 1 /\ idle' = 0 /\ sent' = sent
    BY <1>2, <1>5, <2>1, <2>2 DEF Pos
  <2>4. line' = LevelAt(sent[Len(sent)], Pos + 1)
    <3>1. 1 \in 1 .. Len(word)
      BY <2>2
    <3> QED BY <1>3, <2>1, <2>2, <3>1, Zenon
  <2>5. \A i \in 1 .. Len(word') : word'[i] = LevelAt(sent'[Len(sent')], Pos' + i)
    <3> SUFFICES ASSUME NEW i \in 1 .. Len(word') PROVE word'[i] = LevelAt(sent[Len(sent)], (Pos + 1) + i)
      BY <2>3
    <3>1. i + 1 \in 1 .. Len(word) /\ Pos + (i + 1) = (Pos + 1) + i
      BY <1>2, <2>2
    <3>2. word[i + 1] = LevelAt(sent[Len(sent)], Pos + (i + 1))
      BY <1>3, <2>1, <3>1, Zenon
    <3> QED BY <2>2, <3>1, <3>2
  <2>6. LineInv'
    <3>1. line' = LevelAt(sent'[Len(sent')], Pos')
      BY <2>3, <2>4
    <3>2. sent' # <<>> /\ (word' # <<>> => idle' = 0)
      BY <2>1, <2>3
    <3> QED BY <2>5, <3>1, <3>2 DEF LineInv
  <2>7. LineTyped'
    BY <1>1, <1>2, <1>5, <2>2 DEF LineTyped
  <2>8. line' # line => Pos + 1 \in 1 .. Stop
    <3> SUFFICES ASSUME ~(Pos + 1 \in 1 .. Stop) PROVE line' = line
      OBVIOUS
    <3>1. Pos >= Stop /\ Pos + 1 >= Stop /\ Pos \in Int /\ Pos + 1 \in Int
      BY <1>2
    <3>2. LevelAt(sent[Len(sent)], Pos) = TRUE /\ LevelAt(sent[Len(sent)], Pos + 1) = TRUE
      BY <3>1, LevelBehind
    <3> QED BY <3>2, <2>1, <2>4, <1>3
  <2>9. LineGoes
    BY <2>1, <2>3, <2>4, <2>8 DEF LineGoes
  <2> QED BY <2>6, <2>7, <2>9
<1>6. CASE /\ word = <<>>
           /\ line' = TRUE
           /\ idle < MaxIdle
           /\ idle' = idle + 1
           /\ UNCHANGED <<word, sent>>
  <2>1. Len(word) = 0 /\ Len(word') = 0 /\ word' = <<>> /\ sent' = sent
    BY <1>6
  <2>2. Pos' = Pos + 1 /\ Pos >= Stop /\ Pos + 1 >= Stop /\ Pos \in Int /\ Pos + 1 \in Int
    BY <1>1, <1>2, <1>6, <2>1 DEF Pos
  <2>3. LevelAt(sent[Len(sent)], Pos) = TRUE /\ LevelAt(sent[Len(sent)], Pos + 1) = TRUE
    BY <2>2, LevelBehind
  <2>4. line = TRUE
    BY <1>1, <1>3, <1>4, <2>3
  <2>5. idle' \in Nat /\ idle' > 0
    BY <1>1, <1>6
  <2>6. line' = LevelAt(sent'[Len(sent')], Pos')
    BY <1>6, <2>1, <2>2, <2>3
  <2>7. LineInv'
    BY <1>6, <2>1, <2>5, <2>6 DEF LineInv
  <2>8. LineTyped'
    BY <1>1, <1>2, <1>6, <2>1, <2>5 DEF LineTyped
  <2>9. LineGoes
    BY <1>6, <2>1, <2>2, <2>3, <2>4 DEF LineGoes
  <2> QED BY <2>7, <2>8, <2>9
<1>7. CASE /\ word = <<>>
           /\ Len(sent) < MaxSent
           /\ \E w \in Words :
                /\ line' = FALSE /\ word' = Tail(Levels(w))
                /\ sent' = Append(sent, w)
           /\ idle' = 0
  <2>1. PICK w \in Words : line' = FALSE /\ word' = Tail(Levels(w)) /\ sent' = Append(sent, w)
    BY <1>7
  <2>2. w \in Word
    BY PortAssumption
  <2>3. /\ Levels(w) \in Seq(BOOLEAN) /\ Len(Levels(w)) = Frame
        /\ \A p \in 0 .. Frame - 1 : Levels(w)[p + 1] = LevelAt(w, p)
    BY <2>2, LevelsAre
  <2>4. /\ word' \in Seq(BOOLEAN) /\ Len(word') = m_pduBits
        /\ \A i \in 1 .. Len(word') : word'[i] = Levels(w)[i + 1]
    <3>1. Frame = m_pduBits + 1
      BY DEF Frame
    <3>2. Levels(w) # <<>>
      BY <3>1, <2>3, <1>2
    <3> QED BY <3>1, <3>2, <2>1, <2>3, <1>2
  <2>5. /\ Len(sent') = Len(sent) + 1 /\ sent' \in Seq(Word) /\ sent' # <<>>
        /\ \A k \in 1 .. Len(sent) : sent'[k] = sent[k]
        /\ sent'[Len(sent')] = w
    BY <1>1, <2>1, <2>2
  <2>6. Pos' = 0 /\ m_pduBits - Len(word') = 0
    BY <1>2, <1>7, <2>4 DEF Pos
  <2>7. \A i \in 1 .. Len(word') : word'[i] = LevelAt(w, 0 + i)
    <3> SUFFICES ASSUME NEW i \in 1 .. Len(word') PROVE word'[i] = LevelAt(w, 0 + i)
      OBVIOUS
    <3>1. i \in 0 .. Frame - 1 /\ 0 + i = i
      BY <1>2, <2>4 DEF Frame
    <3>2. Levels(w)[i + 1] = LevelAt(w, i)
      BY <2>3, <3>1, Zenon
    <3> QED BY <2>4, <3>1, <3>2
  <2>8. LevelAt(w, 0) = FALSE
    BY LevelFirst
  <2>9. LineInv'
    <3>1. line' = LevelAt(sent'[Len(sent')], Pos')
      BY <2>1, <2>5, <2>6, <2>8
    <3>2. \A i \in 1 .. Len(word') : word'[i] = LevelAt(sent'[Len(sent')], Pos' + i)
      BY <2>5, <2>6, <2>7
    <3> QED BY <1>7, <2>5, <3>1, <3>2 DEF LineInv
  <2>10. LineTyped'
    <3>1. line' \in BOOLEAN /\ idle' \in Nat /\ Len(word') <= m_pduBits
      <4>1. line' \in BOOLEAN
        BY <2>1, Zenon
      <4> QED BY <4>1, <1>2, <1>7, <2>4
    <3> QED BY <2>4, <2>5, <3>1 DEF LineTyped
  <2>11. line = TRUE /\ Pos = m_pduBits + idle
    <3>1. Len(word) = 0
      BY <1>7
    <3>2. Pos = m_pduBits + idle /\ Pos \in Int /\ Pos >= Stop
      BY <1>1, <1>2, <3>1 DEF Pos
    <3>3. LevelAt(sent[Len(sent)], Pos) = TRUE
      BY <3>2, LevelBehind
    <3> QED BY <1>1, <1>3, <1>4, <3>2, <3>3
  <2>12. LineBegins
    BY <1>7, <2>1, <2>5, <2>6, <2>8, <2>11 DEF LineBegins
  <2> QED BY <2>9, <2>10, <2>12
<1> QED BY <1>5, <1>6, <1>7 DEF NextBit

-----------------------------------------------------------------------------
(* What stays true of edges when words are added and words are given up. *)

\* More words, more of them given up.
More(words, bad, words2, bad2) ==
  /\ Len(words) \in Nat /\ Len(words2) \in Nat /\ Len(words) <= Len(words2)
  /\ \A k \in 1 .. Len(words) : words2[k] = words[k]
  /\ bad \subseteq bad2

\* An edge but for its age.
Like(f, e) == f.level = e.level /\ f.of = e.of /\ f.at = e.at

\* What is known of an edge stays when words begin or are given up and others come out.
LEMMA EdgeKeeps ==
  ASSUME NEW words, NEW bad, NEW came, NEW words2, NEW bad2, NEW came2, NEW e, NEW f,
         EdgeOK(e, words, bad, came), More(words, bad, words2, bad2), Like(f, e),
         e.of \notin bad2 => \A j \in came2 \ came : j < e.of
  PROVE  EdgeOK(f, words2, bad2, came2)
<1>1. e.of \in 1 .. Len(words) /\ e.at \in 0 .. Stop /\ f.level = e.level /\ f.of = e.of /\ f.at = e.at
      /\ (e.of \notin bad => e.level = LevelAt(words[e.of], e.at) /\ \A j \in came : j < e.of)
  BY DEF EdgeOK, Like
<1>2. e.of \in 1 .. Len(words2) /\ words2[e.of] = words[e.of] /\ (e.of \notin bad2 => e.of \notin bad)
  BY <1>1 DEF More
<1>3. e.of \notin bad2 => \A j \in came2 : j < e.of
  BY <1>1, <1>2
<1> QED BY <1>1, <1>2, <1>3 DEF EdgeOK

\* Two edges stay as far apart; words begin or are given up.
PairMoves(e, e2, done, words, bad, f, f2, done2, words2, bad2) ==
  /\ Pair(e, e2, done, words, bad) /\ More(words, bad, words2, bad2) /\ Like(f, e) /\ Like(f2, e2)
  /\ Between(f, f2) = Between(e, e2) /\ (done => done2)
  /\ e.of \in 1 .. Len(words) \/ (e.of = 0 /\ done2 /\ e.of < e2.of)
  /\ e.of \in bad2 /\ e.of \notin bad /\ e.of < e2.of => e2.of \in bad2

\* What is known of two edges stays as long as they are the same bit times apart.
LEMMA PairKeeps ==
  ASSUME NEW words, NEW bad, NEW words2, NEW bad2, NEW e, NEW e2, NEW f, NEW f2, NEW done, NEW done2,
         PairMoves(e, e2, done, words, bad, f, f2, done2, words2, bad2)
  PROVE  Pair(f, f2, done2, words2, bad2)
<1>0. /\ Pair(e, e2, done, words, bad) /\ More(words, bad, words2, bad2) /\ Like(f, e) /\ Like(f2, e2)
      /\ Between(f, f2) = Between(e, e2) /\ (done => done2)
      /\ e.of \in 1 .. Len(words) \/ (e.of = 0 /\ done2 /\ e.of < e2.of)
      /\ e.of \in bad2 /\ e.of \notin bad /\ e.of < e2.of => e2.of \in bad2
  BY Zenon DEF PairMoves
<1>1. f.level = e.level /\ f.of = e.of /\ f.at = e.at /\ f2.level = e2.level /\ f2.of = e2.of /\ f2.at = e2.at
  BY <1>0 DEF Like
<1>2. e.of \in 1 .. Len(words) => words2[e.of] = words[e.of]
  BY <1>0 DEF More
<1>3. bad \subseteq bad2
  BY <1>0 DEF More
<1>4. /\ \A w : SameWord(e, e2, w) => SameWord(f, f2, w)
      /\ \A w : WordEnds(e, e2, w) => WordEnds(f, f2, w)
      /\ Beyond(e, e2) => Beyond(f, f2)
  BY <1>0, <1>1, Zenon DEF SameWord, WordEnds, Beyond
<1>5. e2.of \notin bad2 /\ e.of < e2.of => e2.at = 0 /\ (e.of \in bad2 => done2 \/ Beyond(e, e2))
  BY <1>0, <1>3, Zenon DEF Pair
<1>6. CASE e.of = 0 /\ done2 /\ e.of < e2.of
  <2>1. e.of # e2.of
    BY <1>0, <1>6
  <2> QED BY <1>0, <1>1, <1>4, <1>5, <1>6, <2>1, Zenon DEF Pair
<1>7. CASE e.of \in 1 .. Len(words)
  <2>1. words2[e.of] = words[e.of]
    BY <1>0, <1>2, <1>7
  <2>2. e.of \notin bad2 =>
       /\ done2 \/ e.of <= e2.of
       /\ e.of = e2.of => SameWord(e, e2, words2[e.of])
       /\ e.of < e2.of => done2 \/ WordEnds(e, e2, words2[e.of])
    BY <1>0, <1>3, <2>1, Zenon DEF Pair
  <2> QED BY <1>0, <1>1, <1>4, <1>5, <2>2, Zenon DEF Pair
<1> QED BY <1>0, <1>6, <1>7

-----------------------------------------------------------------------------
(* What the invariant says of the edges. *)

\* The decoder is in a word while it reads one.
LEMMA PendingIs == Pending <=> m_rxCurBit \in Reading
BY Format DEF Pending, Reading

\* The edges the next calls of rxBits(isrCycle) are about.
LEMMA EdgesTyped ==
  ASSUME ReceiverTyped, OrderInv
  PROVE  /\ Len(m_isrBuffer) \in Nat /\ Len(sent) \in Nat
         /\ \A i \in 0 .. Len(m_isrBuffer) : EdgeAt(i) \in EdgeType /\ EdgeAt(i).of \in 0 .. Len(sent)
         /\ \A i \in 1 .. Len(m_isrBuffer) : EdgeAt(i) = m_isrBuffer[i] /\ EdgeAt(i).of \in 1 .. Len(sent)
         /\ EdgeAt(0) = m_isrLastCycle
<1>1. m_isrBuffer \in Seq(EdgeType) /\ m_isrLastCycle \in EdgeType /\ m_isrLastCycle.of <= Len(sent) /\ sent \in Seq(Word)
  BY DEF ReceiverTyped
<1>2. Len(m_isrBuffer) \in Nat /\ Len(sent) \in Nat
  BY <1>1
<1>3. EdgeAt(0) = m_isrLastCycle
  BY DEF EdgeAt
<1>4. \A i \in 1 .. Len(m_isrBuffer) : EdgeAt(i) = m_isrBuffer[i] /\ EdgeAt(i) \in EdgeType /\ EdgeAt(i).of \in 1 .. Len(sent)
  <2> SUFFICES ASSUME NEW i \in 1 .. Len(m_isrBuffer)
               PROVE  EdgeAt(i) = m_isrBuffer[i] /\ EdgeAt(i) \in EdgeType /\ EdgeAt(i).of \in 1 .. Len(sent)
    OBVIOUS
  <2>1. EdgeAt(i) = m_isrBuffer[i]
    BY <1>2 DEF EdgeAt
  <2>2. m_isrBuffer[i] \in EdgeType
    BY <1>1
  <2>3. EdgeOK(m_isrBuffer[i], sent, spoilt, arrived)
    BY DEF OrderInv
  <2> QED BY <2>1, <2>2, <2>3 DEF EdgeOK
<1>5. m_isrLastCycle.of \in 0 .. Len(sent)
  <2>1. m_isrLastCycle.of \in Nat
    BY <1>1, EdgeIs
  <2> QED BY <1>1, <1>2, <2>1
<1>6. \A i \in 0 .. Len(m_isrBuffer) : EdgeAt(i) \in EdgeType /\ EdgeAt(i).of \in 0 .. Len(sent)
  <2> SUFFICES ASSUME NEW i \in 0 .. Len(m_isrBuffer)
               PROVE  EdgeAt(i) \in EdgeType /\ EdgeAt(i).of \in 0 .. Len(sent)
    OBVIOUS
  <2>1. CASE i = 0
    BY <2>1, <1>1, <1>3, <1>5
  <2>2. CASE i # 0
    <3>1. i \in 1 .. Len(m_isrBuffer)
      BY <2>2, <1>2
    <3>2. EdgeAt(i) \in EdgeType /\ EdgeAt(i).of \in 1 .. Len(sent)
      BY <1>4, <3>1
    <3> QED BY <3>2, <1>2
  <2> QED BY <2>1, <2>2
<1> QED BY <1>2, <1>3, <1>4, <1>6

\* An edge the decoder is through with ended its word.
LEMMA ThroughIs ==
  ASSUME ReceiverTyped, DecoderInv, Through, m_isrLastCycle.of > 0, m_isrLastCycle.of \notin spoilt
  PROVE  m_isrLastCycle.at = Frame /\ m_isrLastCycle.of \in arrived /\ \A j \in arrived : j <= m_isrLastCycle.of
<1> DEFINE e == m_isrLastCycle
<1>1. e \in EdgeType /\ e.at \in 0 .. Stop \cup {Frame} /\ Stop \in Nat
  BY Format DEF ReceiverTyped
<1>2. IF e.at = Frame
       THEN e.of \in arrived /\ \A j \in arrived : j <= e.of
       ELSE /\ EdgeOK(e, sent, spoilt, arrived)
            /\ e.at = 0 => ~Pending
            /\ e.at > 0 => Has(sent[e.of], e.at, m_rxCurBit, m_rxCurByte, m_rxCurParity)
  BY DEF DecoderInv
<1>3. ASSUME e.at # Frame PROVE FALSE
  <2>1. e.at \in 0 .. Stop /\ e.level /\ ~Pending
    BY <1>1, <1>3 DEF Through
  <2>2. CASE e.at = 0
    <3>1. e.level = LevelAt(sent[e.of], e.at)
      BY <1>2, <1>3, Zenon DEF EdgeOK
    <3>2. LevelAt(sent[e.of], 0) = FALSE
      BY LevelFirst
    <3> QED BY <2>1, <2>2, <3>1, <3>2
  <2>3. CASE e.at # 0
    <3>1. e.at \in 1 .. Stop /\ e.at > 0
      BY <2>1, <2>3, <1>1
    <3>2. Has(sent[e.of], e.at, m_rxCurBit, m_rxCurByte, m_rxCurParity)
      BY <1>2, <1>3, <3>1
    <3>3. m_rxCurBit \in Reading
      BY <3>1, <3>2, HasReads, Zenon
    <3> QED BY <3>3, <2>1, PendingIs
  <2> QED BY <2>2, <2>3
<1> QED BY <1>2, <1>3

\* The latest edge of a word that is under way and can be expected.
LEMMA LatestIs ==
  ASSUME ReceiverTyped, HistoryInv, OrderInv, LatestInv, DecoderInv,
         Latest.of = Len(sent), Len(sent) > 0, Len(sent) \notin spoilt, Pos < Stop
  PROVE  /\ since < BitSpan
         /\ Aged(Latest, since)
         /\ Pos = Latest.at + since
         /\ Steady(sent[Len(sent)], Latest.at, Pos, Latest.level)
<1>1. Pos \in Nat /\ Len(sent) \in Nat /\ since \in 0 .. BitSpan
  <2>1. LineTyped
    BY DEF ReceiverTyped, LineTyped
  <2> QED BY <2>1, PosIs DEF ReceiverTyped
<1>2. Latest \in EdgeType /\ Latest.at \in Nat
  <2>1. Len(m_isrBuffer) \in 0 .. Len(m_isrBuffer)
    BY EdgesTyped
  <2>2. Latest \in EdgeType
    BY <2>1, EdgesTyped DEF Latest
  <2> QED BY <2>2, EdgeIs
<1>3. ~(m_isrBuffer = <<>> /\ Through)
  <2> SUFFICES ASSUME m_isrBuffer = <<>>, Through PROVE FALSE
    OBVIOUS
  <2>1. Latest = m_isrLastCycle
    BY DEF Latest, EdgeAt
  <2>2. Len(sent) \in arrived
    BY <2>1, ThroughIs
  <2>3. Pos >= Stop
    BY <2>2 DEF HistoryInv
  <2> QED BY <2>3, <1>1, Format
<1>4. LatestOK(Latest, since, Pos, sent, spoilt)
  BY <1>3 DEF LatestInv
<1>5. /\ since < BitSpan => Aged(Latest, since)
      /\ Pos >= Latest.at + since
      /\ since < BitSpan => Pos = Latest.at + since
      /\ Steady(sent[Len(sent)], Latest.at, Pos, Latest.level)
  <2>1. Latest.of \notin spoilt /\ Latest.of = Len(sent)
    OBVIOUS
  <2> QED BY <1>4, <2>1, Zenon DEF LatestOK
<1>6. since < BitSpan
  BY <1>1, <1>2, <1>5, Format
<1> QED BY <1>5, <1>6

-----------------------------------------------------------------------------
(* A bit time. *)

\* It brings no interrupt.
BitQuiet ==
  /\ ~(m_rxEnabled /\ line' # line)
  /\ Len(m_isrBuffer') = Len(m_isrBuffer)
  /\ since' = Least(since + 1, BitSpan) /\ dirty' = dirty
  /\ LineGoes => spoilt' = spoilt
  /\ LineBegins => spoilt' = spoilt \cup {Len(sent')}

\* An edge that has just come.
Fresh(e, level, of, at) == e \in EdgeType /\ Aged(e, 0) /\ e.level = level /\ e.of = of /\ e.at = at

\* It brings one whose edge is stored.
BitStored ==
  /\ m_rxEnabled /\ line' # line
  /\ Len(m_isrBuffer') = Len(m_isrBuffer) + 1
  /\ Fresh(m_isrBuffer'[Len(m_isrBuffer) + 1], line', Len(sent'), Pos')
  /\ since' = 0
  /\ dirty' \in BOOLEAN
  /\ ~dirty' => ~dirty \/ (LineBegins /\ InStep)
  /\ dirty' => dirty
  /\ spoilt' = IF dirty' THEN spoilt \cup {Len(sent')} ELSE spoilt

\* It brings one whose edge is lost.
BitLost ==
  /\ m_rxEnabled /\ line' # line
  /\ Len(m_isrBuffer') = Len(m_isrBuffer) /\ m_isrBuffer # <<>>
  /\ since' = Least(since + 1, BitSpan) /\ dirty'
  /\ spoilt' = spoilt \cup {Len(sent')}

\* What it does to the receiver.
BitStep ==
  /\ LineTyped' /\ LineInv' /\ (LineGoes \/ LineBegins)
  /\ m_isrBuffer' \in Seq(EdgeType)
  /\ m_isrLastCycle' = Older(m_isrLastCycle)
  /\ \A i \in 1 .. Len(m_isrBuffer) : m_isrBuffer'[i] = Older(m_isrBuffer[i])
  /\ BitQuiet \/ BitStored \/ BitLost
  /\ dirty' \in BOOLEAN
  /\ since >= PollWithin => m_isrBuffer = <<>> /\ ~Pending
  /\ pc = "asked" => pause = 0 /\ pause' = 1
  /\ pause' \in Nat
  /\ UNCHANGED <<m_rxEnabled, m_rxCurBit, m_rxCurByte, m_rxCurParity, pc, left, arrived>>

\* Every edge in the queue gets older.
LEMMA QueueOlder ==
  ASSUME NEW q \in Seq(EdgeType)
  PROVE  LET edges == [i \in DOMAIN q |-> Older(q[i])]
         IN  /\ edges \in Seq(EdgeType) /\ Len(edges) = Len(q)
             /\ \A i \in 1 .. Len(q) : edges[i] = Older(q[i])
<1>1. \A i \in 1 .. Len(q) : Older(q[i]) \in EdgeType
  BY OlderIs
<1> QED BY <1>1

\* The age of a new edge.
LEMMA NewEdge ==
  ASSUME NEW j \in 0 .. Latency, NEW level \in BOOLEAN, NEW of \in Nat, NEW at \in Nat
  PROVE  Fresh(Edge(j, level, of, at), level, of, at)
<1>1. Latency \in 0 .. m_bitCycles - 1 /\ m_bitCycles \in Nat \ {0} /\ CycleSpan \in Nat \ {0} /\ j \in Int
  BY Format
<1>2. EdgeFields(Edge(j, level, of, at), j, level, of, at)
  BY <1>1, EdgeMade, Zenon
<1>3. PICK e : e = Edge(j, level, of, at)
  OBVIOUS
<1>4. e \in EdgeType /\ e.age = j % CycleSpan /\ e.level = level /\ e.of = of /\ e.at = at
  BY <1>2, <1>3, Zenon DEF EdgeFields
<1>5. j % CycleSpan \in 0 .. j
  BY <1>1
<1>6. 0 * m_bitCycles = 0
  BY <1>1
<1>7. Aged(e, 0)
  BY <1>1, <1>4, <1>5, <1>6 DEF Aged
<1> QED BY <1>3, <1>4, <1>7, Zenon DEF Fresh

\* A bit time, in the three ways it can go (SoftwareSerial.cpp 514-521 and the line).
LEMMA BitTimeStep ==
  ASSUME Paced, ReceiverTyped, LineInv, BitTime
  PROVE  BitStep
<1> DEFINE edges == [i \in DOMAIN m_isrBuffer |-> Older(m_isrBuffer[i])]
           n == Len(m_isrBuffer)
<1>1. LineTyped /\ m_isrBuffer \in Seq(EdgeType) /\ dirty \in BOOLEAN /\ n \in Nat /\ pause \in Nat
  BY DEF ReceiverTyped, LineTyped
<1>2. NextBit
  BY DEF BitTime
<1>3. LineTyped' /\ LineInv' /\ (LineGoes \/ LineBegins)
  BY <1>1, <1>2, LineStep
<1>4. edges \in Seq(EdgeType) /\ Len(edges) = n /\ \A i \in 1 .. n : edges[i] = Older(m_isrBuffer[i])
  BY <1>1, QueueOlder
<1>5. Len(sent) \in Nat /\ Len(sent') \in Nat /\ line' \in BOOLEAN
  <2>1. sent \in Seq(Word) /\ sent' \in Seq(Word) /\ line' \in BOOLEAN
    BY <1>1, <1>3 DEF LineTyped
  <2> QED BY <2>1
<1>6. /\ LineGoes => sent' = sent
      /\ LineBegins => sent' # sent
  <2>1. LineBegins => Len(sent') # Len(sent)
    BY <1>5 DEF LineBegins
  <2> QED BY <2>1 DEF LineGoes
<1>7. line' # line => m_pduBits - Len(word') = Pos' /\ Pos' \in Nat
  <2>1. Pos \in Nat
    BY <1>1, PosIs
  <2>2. CASE LineGoes
    BY <2>1, <2>2 DEF LineGoes
  <2>3. CASE LineBegins
    BY <2>3 DEF LineBegins
  <2> QED BY <1>3, <2>2, <2>3
<1>8. /\ m_isrLastCycle' = Older(m_isrLastCycle)
      /\ since >= PollWithin => m_isrBuffer = <<>> /\ ~Pending
      /\ UNCHANGED <<m_rxEnabled, m_rxCurBit, m_rxCurByte, m_rxCurParity, pc, left, arrived>>
  BY Zenon DEF BitTime, rxVars
<1>9. (pc = "asked" => pause = 0 /\ pause' = 1) /\ pause' \in Nat
  <2>1. (pc = "asked" => pause < MaxPause) /\ pause' = (IF pc = "asked" THEN pause + 1 ELSE pause)
    BY DEF BitTime
  <2>2. MaxPause \in Nat /\ MaxPause <= 1
    BY Format DEF Paced
  <2> QED BY <1>1, <2>1, <2>2
<1>10. CASE ~(m_rxEnabled /\ line' # line)
  <2>1. m_isrBuffer' = edges
    BY <1>10, Zenon DEF BitTime
  <2>2. since' = Least(since + 1, BitSpan) /\ spoilt' = (IF sent' # sent THEN spoilt \cup {Len(sent')} ELSE spoilt)
        /\ dirty' = dirty
    BY <1>10 DEF BitTime
  <2>3. BitQuiet
    BY <1>4, <1>6, <1>10, <2>1, <2>2, Zenon DEF BitQuiet
  <2>4. dirty' \in BOOLEAN
    BY <1>1, <2>2
  <2> QED BY <1>3, <1>4, <1>8, <1>9, <2>1, <2>3, <2>4, Zenon DEF BitStep
<1>11. CASE m_rxEnabled /\ line' # line
  <2>1. PICK j \in 0 .. Latency : rxBitISR(edges, j)
    BY <1>11, Zenon DEF BitTime
  <2>2. CASE Len(edges) < isrBufCapacity
    <3> DEFINE e == Edge(j, line', Len(sent'), m_pduBits - Len(word'))
    <3>1. m_isrBuffer' = Append(edges, e) /\ since' = 0 /\ dirty' = (dirty /\ ~(sent' # sent /\ InStep))
          /\ spoilt' = (IF dirty' THEN spoilt \cup {Len(sent')} ELSE spoilt)
      BY <2>1, <2>2, Zenon DEF rxBitISR
    <3>2. Fresh(e, line', Len(sent'), Pos') /\ e \in EdgeType
      <4>1. line' \in BOOLEAN /\ Len(sent') \in Nat /\ m_pduBits - Len(word') \in Nat /\ m_pduBits - Len(word') = Pos'
        BY <1>5, <1>7, <1>11
      <4>2. Fresh(e, line', Len(sent'), m_pduBits - Len(word'))
        BY <4>1, NewEdge, Zenon
      <4> QED BY <4>1, <4>2, Zenon DEF Fresh
    <3> HIDE DEF e, edges
    <3>3. /\ m_isrBuffer' \in Seq(EdgeType) /\ Len(m_isrBuffer') = n + 1 /\ m_isrBuffer'[n + 1] = e
          /\ \A i \in 1 .. n : m_isrBuffer'[i] = edges[i]
      BY <1>1, <1>4, <3>1, <3>2
    <3>4. dirty' \in BOOLEAN
      BY <3>1, Zenon
    <3>5. ~dirty' => ~dirty \/ (LineBegins /\ InStep)
      BY <1>3, <1>6, <3>1, Zenon
    <3>6. BitStored
      BY <1>11, <3>1, <3>2, <3>3, <3>4, <3>5, Zenon DEF BitStored
    <3> QED BY <1>3, <1>4, <1>8, <1>9, <3>3, <3>4, <3>6, Zenon DEF BitStep
  <2>3. CASE ~(Len(edges) < isrBufCapacity)
    <3>1. m_isrBuffer' = edges /\ since' = Least(since + 1, BitSpan) /\ dirty' = TRUE
          /\ spoilt' = spoilt \cup {Len(sent')}
      BY <2>1, <2>3, Zenon DEF rxBitISR
    <3>2. m_isrBuffer # <<>>
      <4>1. Len(m_isrBuffer) > 0
        BY <1>1, <1>4, <2>3, Format
      <4> QED BY <4>1
    <3>3. BitLost
      BY <1>4, <1>11, <3>1, <3>2, Zenon DEF BitLost
    <3>4. dirty' \in BOOLEAN
      BY <3>1, Zenon
    <3> QED BY <1>3, <1>4, <1>8, <1>9, <3>1, <3>3, <3>4, Zenon DEF BitStep
  <2> QED BY <2>2, <2>3
<1> QED BY <1>10, <1>11

\* The words after a bit time.
LEMMA BitMore ==
  ASSUME ReceiverTyped, BitStep
  PROVE  /\ More(sent, spoilt, sent', spoilt')
         /\ spoilt' \subseteq spoilt \cup {Len(sent')} /\ spoilt' \subseteq 1 .. Len(sent')
         /\ LineGoes => Len(sent') = Len(sent) /\ sent' = sent
         /\ LineBegins => Len(sent') = Len(sent) + 1
         /\ line' # line => Len(sent') > 0
         /\ Len(sent) \in Nat /\ Len(sent') \in Nat /\ Pos \in Nat /\ Pos' \in Nat
<1>1. LineTyped /\ LineTyped' /\ (LineGoes \/ LineBegins) /\ (BitQuiet \/ BitStored \/ BitLost)
  BY DEF ReceiverTyped, LineTyped, BitStep
<1>2. sent \in Seq(Word) /\ sent' \in Seq(Word) /\ Len(sent) \in Nat /\ Len(sent') \in Nat /\ Pos \in Nat
  BY <1>1, PosIs DEF LineTyped
<1>3. Pos' \in Nat
  <2>1. CASE LineGoes
    BY <2>1, <1>2 DEF LineGoes
  <2>2. CASE LineBegins
    BY <2>2 DEF LineBegins
  <2> QED BY <1>1, <2>1, <2>2
<1>4. LineGoes => Len(sent') = Len(sent) /\ sent' = sent
  BY DEF LineGoes
<1>5. LineBegins => Len(sent') = Len(sent) + 1 /\ \A k \in 1 .. Len(sent) : sent'[k] = sent[k]
  BY DEF LineBegins
<1>6. line' # line => Len(sent') > 0
  <2>1. CASE LineGoes
    BY <2>1, <1>2 DEF LineGoes
  <2>2. CASE LineBegins
    BY <2>2, <1>2, <1>5
  <2> QED BY <1>1, <2>1, <2>2
<1>7. spoilt \subseteq 1 .. Len(sent)
  BY DEF ReceiverTyped
<1>8. spoilt \subseteq spoilt' /\ spoilt' \subseteq spoilt \cup {Len(sent')} /\ (spoilt' = spoilt \/ Len(sent') > 0)
  <2>1. CASE BitQuiet
    BY <2>1, <1>1, <1>2, <1>5 DEF BitQuiet
  <2>2. CASE BitStored
    BY <2>2, <1>6 DEF BitStored
  <2>3. CASE BitLost
    BY <2>3, <1>6 DEF BitLost
  <2> QED BY <1>1, <2>1, <2>2, <2>3
<1>9. Len(sent) <= Len(sent') /\ \A k \in 1 .. Len(sent) : sent'[k] = sent[k]
  BY <1>1, <1>2, <1>4, <1>5
<1>10. More(sent, spoilt, sent', spoilt')
  BY <1>2, <1>8, <1>9 DEF More
<1>11. spoilt' \subseteq 1 .. Len(sent')
  BY <1>2, <1>7, <1>8, <1>9
<1> QED BY <1>2, <1>3, <1>4, <1>5, <1>6, <1>8, <1>10, <1>11

\* The edges after a bit time.
LEMMA BitEdges ==
  ASSUME ReceiverTyped, OrderInv, BitStep
  PROVE  /\ Len(m_isrBuffer) \in Nat
         /\ \A i \in 0 .. Len(m_isrBuffer) :
              EdgeAt(i)' = Older(EdgeAt(i)) /\ EdgeAt(i)' \in EdgeType /\ Like(EdgeAt(i)', EdgeAt(i))
         /\ ~BitStored => Len(m_isrBuffer') = Len(m_isrBuffer) /\ Latest' = Older(Latest)
         /\ BitStored => /\ Len(m_isrBuffer') = Len(m_isrBuffer) + 1
                         /\ \A i \in {Len(m_isrBuffer) + 1} : Latest' = EdgeAt(i)'
                         /\ Latest' = m_isrBuffer'[Len(m_isrBuffer) + 1]
                         /\ Fresh(Latest', line', Len(sent'), Pos')
<1> DEFINE n == Len(m_isrBuffer)
<1>1. n \in Nat /\ (BitQuiet \/ BitStored \/ BitLost)
  BY EdgesTyped DEF BitStep
<1>2. \A i \in 0 .. n : EdgeAt(i)' = Older(EdgeAt(i)) /\ EdgeAt(i)' \in EdgeType /\ Like(EdgeAt(i)', EdgeAt(i))
  <2> SUFFICES ASSUME NEW i \in 0 .. n
               PROVE  EdgeAt(i)' = Older(EdgeAt(i)) /\ EdgeAt(i)' \in EdgeType /\ Like(EdgeAt(i)', EdgeAt(i))
    OBVIOUS
  <2>1. EdgeAt(i)' = Older(EdgeAt(i))
    <3>1. CASE i = 0
      BY <3>1 DEF BitStep, EdgeAt
    <3>2. CASE i # 0
      <4>1. i \in 1 .. n
        BY <3>2, <1>1
      <4> QED BY <3>2, <4>1 DEF BitStep, EdgeAt
    <3> QED BY <3>1, <3>2
  <2>2. EdgeAt(i) \in EdgeType
    BY EdgesTyped
  <2>3. Older(EdgeAt(i)) \in EdgeType /\ Like(Older(EdgeAt(i)), EdgeAt(i))
    BY <2>2, OlderIs, Zenon DEF Like
  <2> QED BY <2>1, <2>3
<1>3. ASSUME ~BitStored PROVE Len(m_isrBuffer') = n /\ Latest' = Older(Latest)
  <2>1. Len(m_isrBuffer') = n
    BY <1>1, <1>3 DEF BitQuiet, BitLost
  <2>2. PICK m \in 0 .. n : m = n
    BY <1>1
  <2>3. Latest' = EdgeAt(m)' /\ Latest = EdgeAt(m)
    BY <2>1, <2>2 DEF Latest, EdgeAt
  <2> QED BY <2>1, <2>2, <2>3, <1>2
<1>4. ASSUME BitStored
      PROVE  /\ Len(m_isrBuffer') = n + 1
             /\ \A i \in {n + 1} : Latest' = EdgeAt(i)'
             /\ Latest' = m_isrBuffer'[n + 1]
             /\ Fresh(Latest', line', Len(sent'), Pos')
  <2>1. Len(m_isrBuffer') = n + 1 /\ Fresh(m_isrBuffer'[n + 1], line', Len(sent'), Pos')
    BY <1>4, Zenon DEF BitStored
  <2>2. n + 1 # 0
    BY <1>1
  <2>3. PICK m \in Nat : m = n + 1
    BY <1>1
  <2>4. Latest' = EdgeAt(m)' /\ Latest' = m_isrBuffer'[m]
    BY <2>1, <2>2, <2>3 DEF Latest, EdgeAt
  <2> QED BY <2>1, <2>3, <2>4
<1> QED BY <1>1, <1>2, <1>3, <1>4

\* The types after a bit time.
LEMMA BitTyped == ASSUME ReceiverTyped, BitStep PROVE ReceiverTyped'
<1>1. spoilt' \subseteq 1 .. Len(sent') /\ Len(sent) \in Nat /\ Len(sent') \in Nat /\ Len(sent) <= Len(sent')
  BY BitMore DEF More
<1>2. LineTyped' /\ m_isrBuffer' \in Seq(EdgeType) /\ dirty' \in BOOLEAN /\ pause' \in Nat
  BY DEF BitStep
<1>3. m_isrLastCycle \in EdgeType /\ m_isrLastCycle.of <= Len(sent)
  BY DEF ReceiverTyped
<1>4. m_isrLastCycle' \in EdgeType /\ m_isrLastCycle'.of = m_isrLastCycle.of /\ m_isrLastCycle'.at = m_isrLastCycle.at
      /\ m_isrLastCycle'.of <= Len(sent')
  <2>1. m_isrLastCycle' = Older(m_isrLastCycle)
    BY DEF BitStep
  <2>2. m_isrLastCycle.of \in Nat
    BY <1>3, EdgeIs
  <2>3. m_isrLastCycle' \in EdgeType /\ m_isrLastCycle'.of = m_isrLastCycle.of /\ m_isrLastCycle'.at = m_isrLastCycle.at
    BY <1>3, <2>1, OlderIs, Zenon
  <2> QED BY <1>1, <1>3, <2>2, <2>3
<1>5. since' \in 0 .. BitSpan
  <2>1. since \in 0 .. BitSpan /\ BitSpan \in Nat /\ (since' = 0 \/ since' = Least(since + 1, BitSpan))
    BY Format DEF ReceiverTyped, BitStep, BitQuiet, BitStored, BitLost
  <2> QED BY <2>1 DEF Least
<1>6. left' \in 0 .. Len(m_isrBuffer')
  <2>1. m_isrBuffer \in Seq(EdgeType) /\ left \in 0 .. Len(m_isrBuffer) /\ left' = left
    BY DEF ReceiverTyped, BitStep
  <2>2. Len(m_isrBuffer') = Len(m_isrBuffer) \/ Len(m_isrBuffer') = Len(m_isrBuffer) + 1
    BY DEF BitStep, BitQuiet, BitStored, BitLost
  <2>3. Len(m_isrBuffer) \in Nat
    BY <2>1
  <2> QED BY <2>1, <2>2, <2>3
<1>7. arrived' \subseteq 1 .. Len(sent')
  BY <1>1 DEF ReceiverTyped, BitStep
<1>8. /\ m_rxEnabled' \in BOOLEAN
      /\ m_isrLastCycle'.at \in 0 .. Stop \cup {Frame}
      /\ m_rxCurBit' \in -1 .. Stop - 2 \cup {m_pduBits - 1, m_pduBits}
      /\ m_rxCurByte' \in 0 .. 2 ^ ByteBits - 1 /\ m_rxCurParity' \in BOOLEAN
      /\ pc' \in {"idle", "asked", "each"}
  BY <1>4, Zenon DEF ReceiverTyped, BitStep
<1> QED BY <1>1, <1>2, <1>4, <1>5, <1>6, <1>7, <1>8, Zenon DEF ReceiverTyped, LineTyped

\* No edge comes behind a word that can be expected.
LEMMA EdgeWithin ==
  ASSUME ReceiverTyped, BitStep, LineGoes, line' # line
  PROVE  Pos < Stop /\ Pos' = Pos + 1 /\ Pos' \in 1 .. Stop
<1>1. Pos \in Nat
  BY BitMore
<1> QED BY <1>1, Format DEF LineGoes

\* The history after a bit time: an edge that is stored belongs to the word on the line, one that is lost spoils it.
LEMMA BitHistory == ASSUME ReceiverTyped, HistoryInv, OrderInv, BitStep PROVE HistoryInv'
<1> DEFINE n == Len(m_isrBuffer)
<1>1. /\ More(sent, spoilt, sent', spoilt')
      /\ spoilt \subseteq spoilt' /\ spoilt' \subseteq spoilt \cup {Len(sent')}
      /\ LineGoes => Len(sent') = Len(sent) /\ sent' = sent /\ Pos' = Pos + 1
      /\ LineBegins => Len(sent') = Len(sent) + 1
      /\ Len(sent) \in Nat /\ Len(sent') \in Nat /\ Pos \in Nat /\ Pos' \in Nat
      /\ LineGoes \/ LineBegins
      /\ BitQuiet \/ BitStored \/ BitLost
      /\ arrived' = arrived /\ arrived \subseteq 1 .. Len(sent) /\ spoilt \subseteq 1 .. Len(sent)
  BY BitMore DEF BitStep, LineGoes, More, ReceiverTyped
<1>2. n \in Nat /\ BitStep /\ Stop \in Nat /\ n \in 0 .. n
  BY EdgesTyped, Format
<1>0. /\ ~dirty => m_rxEnabled /\ Len(sent) \notin spoilt /\ Latest.of = Len(sent)
      /\ dirty /\ Len(sent) \notin spoilt => Pos >= Stop
      /\ \A k \in 1 .. Len(sent) :
           k \in spoilt \cup arrived \/ \E i \in 0 .. Len(m_isrBuffer) : EdgeAt(i).of = k
      /\ Len(sent) \in arrived \ spoilt => Pos >= Stop
  BY Zenon DEF HistoryInv
<1>3. since' > PollWithin => m_isrBuffer' = <<>> /\ ~Pending'
  <2> SUFFICES ASSUME since' > PollWithin PROVE m_isrBuffer' = <<>> /\ ~Pending'
    OBVIOUS
  <2>1. since \in Nat /\ PollWithin \in Nat /\ BitSpan \in Nat
    BY Format DEF ReceiverTyped
  <2>2. ~BitStored
    BY <2>1 DEF BitStored
  <2>3. since >= PollWithin
    BY <1>1, <2>1, <2>2 DEF BitQuiet, BitLost, Least
  <2>4. m_isrBuffer = <<>> /\ ~Pending
    BY <2>3 DEF BitStep
  <2>5. ~BitLost
    BY <2>4 DEF BitLost
  <2>6. Len(m_isrBuffer') = 0 /\ m_isrBuffer' \in Seq(EdgeType)
    BY <1>1, <2>2, <2>4, <2>5 DEF BitQuiet, BitStep
  <2>7. m_rxCurBit' = m_rxCurBit
    BY DEF BitStep
  <2>8. m_isrBuffer' = <<>>
    BY <2>6
  <2> QED BY <2>4, <2>7, <2>8 DEF Pending
<1>4. ~dirty' => m_rxEnabled' /\ Len(sent') \notin spoilt' /\ Latest'.of = Len(sent')
  <2> SUFFICES ASSUME ~dirty' PROVE m_rxEnabled' /\ Len(sent') \notin spoilt' /\ Latest'.of = Len(sent')
    OBVIOUS
  <2>1. m_rxEnabled' = m_rxEnabled
    BY DEF BitStep
  <2>2. CASE BitQuiet
    <3>1. ~dirty
      BY <2>2 DEF BitQuiet
    <3>2. m_rxEnabled /\ Len(sent) \notin spoilt /\ Latest.of = Len(sent)
      BY <3>1, <1>0
    <3>3. ~LineBegins
      BY <2>2, <3>2 DEF BitQuiet, LineBegins
    <3>4. spoilt' = spoilt /\ LineGoes
      BY <2>2, <3>3, <1>1 DEF BitQuiet
    <3>5. ~BitStored
      BY <2>2 DEF BitQuiet, BitStored
    <3>6. Latest' = Older(Latest) /\ Latest \in EdgeType
      BY <3>5, <1>2, BitEdges, EdgesTyped DEF Latest
    <3>7. Latest'.of = Latest.of
      BY <3>6, OlderIs
    <3> QED BY <2>1, <3>2, <3>4, <3>7, <1>1
  <2>3. CASE BitStored
    <3>1. m_rxEnabled /\ spoilt' = spoilt /\ (~dirty \/ LineBegins)
      BY <2>3 DEF BitStored
    <3>2. Latest'.of = Len(sent')
      BY <2>3, BitEdges DEF Fresh
    <3>3. Len(sent') \notin spoilt
      <4>1. CASE LineBegins
        BY <4>1, <1>1
      <4>2. CASE LineGoes
        BY <4>2, <1>0, <1>1, <3>1 DEF LineGoes, LineBegins
      <4> QED BY <4>1, <4>2, <1>1
    <3> QED BY <2>1, <3>1, <3>2, <3>3
  <2>4. CASE BitLost
    BY <2>4 DEF BitLost
  <2> QED BY <1>1, <2>2, <2>3, <2>4
<1>5. dirty' /\ Len(sent') \notin spoilt' => Pos' >= Stop
  <2> SUFFICES ASSUME dirty', Len(sent') \notin spoilt' PROVE Pos' >= Stop
    OBVIOUS
  <2>1. BitQuiet /\ LineGoes
    BY <1>1 DEF BitQuiet, BitStored, BitLost
  <2>2. dirty /\ Len(sent) \notin spoilt
    BY <1>1, <2>1 DEF BitQuiet
  <2>3. Pos >= Stop
    BY <2>2, <1>0
  <2>4. Pos' = Pos + 1 /\ Pos \in Nat /\ Stop \in Nat
    BY <1>1, <1>2, <2>1
  <2> QED BY <2>3, <2>4
<1>6. \A k \in 1 .. Len(sent') :
       k \in spoilt' \cup arrived' \/ \E i \in 0 .. Len(m_isrBuffer') : EdgeAt(i)'.of = k
  <2> SUFFICES ASSUME NEW k \in 1 .. Len(sent'), k \notin spoilt' \cup arrived'
               PROVE  \E i \in 0 .. Len(m_isrBuffer') : EdgeAt(i)'.of = k
    OBVIOUS
  <2>1. CASE k \in 1 .. Len(sent)
    <3>1. k \notin spoilt \cup arrived
      BY <1>1
    <3>2. PICK i \in 0 .. n : EdgeAt(i).of = k
      BY <2>1, <3>1, <1>0
    <3>3. i \in 0 .. Len(m_isrBuffer')
      BY <1>2, BitEdges
    <3>4. EdgeAt(i)'.of = k
      BY <3>2, BitEdges DEF Like
    <3> QED BY <3>3, <3>4
  <2>2. CASE k \notin 1 .. Len(sent)
    <3>1. LineBegins /\ k = Len(sent')
      BY <2>2, <1>1
    <3>2. BitStored
      BY <3>1, <1>1 DEF BitQuiet, BitLost
    <3>3. PICK m \in Nat : m = n + 1
      BY <1>2
    <3>4. m \in 0 .. Len(m_isrBuffer')
      BY <3>2, <3>3, <1>2, BitEdges
    <3>5. EdgeAt(m)'.of = k
      BY <3>1, <3>2, <3>3, BitEdges DEF Fresh
    <3> QED BY <3>4, <3>5
  <2> QED BY <2>1, <2>2
<1>7. Len(sent') \in arrived' \ spoilt' => Pos' >= Stop
  <2> SUFFICES ASSUME Len(sent') \in arrived' \ spoilt' PROVE Pos' >= Stop
    OBVIOUS
  <2>1. LineGoes /\ Len(sent) \in arrived \ spoilt
    BY <1>1
  <2>2. Pos >= Stop
    BY <2>1, <1>0
  <2>3. Pos' = Pos + 1 /\ Pos \in Nat /\ Stop \in Nat
    BY <1>1, <1>2, <2>1
  <2> QED BY <2>2, <2>3
<1> QED BY <1>3, <1>4, <1>5, <1>6, <1>7, Zenon DEF HistoryInv

\* What a bit time does to the history, in one place.
BitFacts ==
  /\ More(sent, spoilt, sent', spoilt')
  /\ spoilt \subseteq spoilt' /\ spoilt' \subseteq spoilt \cup {Len(sent')}
  /\ LineGoes => Len(sent') = Len(sent) /\ sent' = sent
  /\ LineBegins => Len(sent') = Len(sent) + 1
  /\ line' # line => Len(sent') > 0
  /\ Len(sent) \in Nat /\ Len(sent') \in Nat /\ Pos \in Nat /\ Pos' \in Nat
  /\ LineGoes \/ LineBegins
  /\ BitQuiet \/ BitStored \/ BitLost
  /\ arrived' = arrived /\ arrived \subseteq 1 .. Len(sent) /\ spoilt \subseteq 1 .. Len(sent)
  /\ line' # line /\ LineGoes => Pos < Stop /\ Pos' = Pos + 1 /\ Pos' \in 1 .. Stop
  /\ LineBegins => Pos' = 0
  /\ Stop \in Nat /\ Len(m_isrBuffer) \in Nat

\* What the other parts need to know of a bit time.
LEMMA BitFactsAre == ASSUME ReceiverTyped, OrderInv, BitStep PROVE BitFacts
<1>1. LineBegins => Pos' = 0
  BY DEF LineBegins
<1>2. Stop \in Nat /\ Len(m_isrBuffer) \in Nat
  BY Format, EdgesTyped
<1>3. /\ LineGoes \/ LineBegins
      /\ BitQuiet \/ BitStored \/ BitLost
      /\ arrived' = arrived
  BY DEF BitStep
<1>4. arrived \subseteq 1 .. Len(sent) /\ spoilt \subseteq 1 .. Len(sent)
  BY DEF ReceiverTyped
<1>5. /\ More(sent, spoilt, sent', spoilt')
      /\ spoilt' \subseteq spoilt \cup {Len(sent')}
      /\ LineGoes => Len(sent') = Len(sent) /\ sent' = sent
      /\ LineBegins => Len(sent') = Len(sent) + 1
      /\ line' # line => Len(sent') > 0
      /\ Len(sent) \in Nat /\ Len(sent') \in Nat /\ Pos \in Nat /\ Pos' \in Nat
  BY BitMore
<1>6. spoilt \subseteq spoilt'
  BY <1>5 DEF More
<1>7. line' # line /\ LineGoes => Pos < Stop /\ Pos' = Pos + 1 /\ Pos' \in 1 .. Stop
  BY EdgeWithin
<1> QED BY <1>1, <1>2, <1>3, <1>4, <1>5, <1>6, <1>7, Zenon DEF BitFacts

\* The edges that wait stay in the order of the words.
LEMMA BitOrder == ASSUME ReceiverTyped, HistoryInv, OrderInv, LineInv, BitStep PROVE OrderInv'
<1> DEFINE n == Len(m_isrBuffer)
           EntryOK(i) == /\ EdgeOK(m_isrBuffer'[i], sent', spoilt', arrived')
                         /\ m_isrBuffer'[i].of \notin spoilt' => m_isrLastCycle'.of <= m_isrBuffer'[i].of
<1>1. BitFacts
  BY BitFactsAre
<1>2. n \in Nat /\ Len(sent) \in Nat /\ Len(sent') \in Nat /\ Len(sent) <= Len(sent')
  BY <1>1, BitMore DEF BitFacts, More
<1>3. m_isrLastCycle'.of = m_isrLastCycle.of /\ m_isrLastCycle.of <= Len(sent) /\ m_isrLastCycle.of \in Nat
  <2>1. m_isrLastCycle \in EdgeType /\ m_isrLastCycle.of <= Len(sent) /\ m_isrLastCycle' = Older(m_isrLastCycle)
    BY DEF ReceiverTyped, BitStep
  <2> QED BY <2>1, OlderIs, EdgeIs
<1>4. \A i \in 1 .. n : Like(m_isrBuffer'[i], m_isrBuffer[i]) /\ m_isrBuffer[i].of \in 1 .. Len(sent)
                        /\ EdgeOK(m_isrBuffer[i], sent, spoilt, arrived)
                        /\ (m_isrBuffer[i].of \notin spoilt => m_isrLastCycle.of <= m_isrBuffer[i].of)
  <2> SUFFICES ASSUME NEW i \in 1 .. n
               PROVE  /\ Like(m_isrBuffer'[i], m_isrBuffer[i]) /\ m_isrBuffer[i].of \in 1 .. Len(sent)
                      /\ EdgeOK(m_isrBuffer[i], sent, spoilt, arrived)
                      /\ (m_isrBuffer[i].of \notin spoilt => m_isrLastCycle.of <= m_isrBuffer[i].of)
    OBVIOUS
  <2>1. m_isrBuffer[i] \in EdgeType /\ m_isrBuffer[i].of \in 1 .. Len(sent)
    <3>1. i \in 0 .. n
      BY <1>2
    <3> QED BY <3>1, EdgesTyped
  <2>2. m_isrBuffer'[i] = Older(m_isrBuffer[i])
    BY DEF BitStep
  <2>3. Like(m_isrBuffer'[i], m_isrBuffer[i])
    BY <2>1, <2>2, OlderIs, Zenon DEF Like
  <2> QED BY <2>1, <2>3, Zenon DEF OrderInv
<1>5. \A i \in 1 .. n : EntryOK(i)
  <2> SUFFICES ASSUME NEW i \in 1 .. n PROVE EntryOK(i)
    OBVIOUS
  <2>1. EdgeOK(m_isrBuffer'[i], sent', spoilt', arrived')
    <3>1. m_isrBuffer[i].of \notin spoilt' => \A j \in arrived' \ arrived : j < m_isrBuffer[i].of
      BY <1>1 DEF BitFacts
    <3>2. More(sent, spoilt, sent', spoilt')
      BY <1>1 DEF BitFacts
    <3> QED BY <1>4, <3>1, <3>2, EdgeKeeps, Zenon
  <2>2. m_isrBuffer'[i].of \notin spoilt' => m_isrLastCycle'.of <= m_isrBuffer'[i].of
    BY <1>1, <1>3, <1>4 DEF BitFacts, Like
  <2> QED BY <2>1, <2>2
<1>6. CASE BitStored
  <2>1. PICK m \in Nat : m = n + 1
    BY <1>2
  <2>2. Len(m_isrBuffer') = m /\ Fresh(m_isrBuffer'[m], line', Len(sent'), Pos') /\ line' # line
        /\ (dirty' => spoilt' = spoilt \cup {Len(sent')})
    BY <1>6, <2>1, Zenon DEF BitStored
  <2>3. m_isrBuffer'[m].of = Len(sent') /\ m_isrBuffer'[m].level = line' /\ m_isrBuffer'[m].at = Pos'
    BY <2>2 DEF Fresh
  <2>4. Len(sent') \in 1 .. Len(sent') /\ Pos' \in 0 .. Stop
    BY <1>1, <2>2 DEF BitFacts
  <2>5. line' = LevelAt(sent'[Len(sent')], Pos')
    <3>1. LineInv' /\ sent' # <<>>
      <4>1. sent' # <<>>
        BY <2>4, <1>2
      <4> QED BY <4>1 DEF BitStep
    <3> QED BY <3>1, Zenon DEF LineInv
  <2>6. ASSUME Len(sent') \notin spoilt' PROVE \A j \in arrived' : j < Len(sent')
    <3>1. CASE LineBegins
      BY <3>1, <1>1, <1>2 DEF BitFacts
    <3>2. CASE LineGoes
      <4>1. Len(sent) \notin arrived
        <5>1. Pos < Stop /\ Len(sent) \notin spoilt /\ Pos \in Nat /\ Stop \in Nat
          BY <1>1, <2>2, <2>6, <3>2 DEF BitFacts
        <5>2. Len(sent) \in arrived \ spoilt => Pos >= Stop
          BY Zenon DEF HistoryInv
        <5> QED BY <5>1, <5>2
      <4>2. arrived' = arrived /\ Len(sent') = Len(sent) /\ arrived \subseteq 1 .. Len(sent)
        BY <3>2, <1>1 DEF BitFacts
      <4> QED BY <4>1, <4>2, <1>2
    <3> QED BY <3>1, <3>2, <1>1 DEF BitFacts
  <2>7. EntryOK(m)
    <3>1. EdgeOK(m_isrBuffer'[m], sent', spoilt', arrived')
      BY <2>3, <2>4, <2>5, <2>6 DEF EdgeOK
    <3>2. m_isrLastCycle'.of <= m_isrBuffer'[m].of
      BY <1>2, <1>3, <2>3
    <3> QED BY <3>1, <3>2
  <2>8. \A i \in 1 .. m : EntryOK(i)
    <3> HIDE DEF EntryOK
    <3> SUFFICES ASSUME NEW i \in 1 .. m PROVE EntryOK(i)
      OBVIOUS
    <3>1. i \in 1 .. n \/ i = m
      BY <1>2, <2>1
    <3> QED BY <3>1, <1>5, <2>7, Zenon
  <2>9. \A i, j \in 1 .. m : i < j => m_isrBuffer'[i].of <= m_isrBuffer'[j].of
    <3> SUFFICES ASSUME NEW i \in 1 .. m, NEW j \in 1 .. m, i < j
                 PROVE  m_isrBuffer'[i].of <= m_isrBuffer'[j].of
      OBVIOUS
    <3>1. i \in 1 .. n /\ m_isrBuffer'[i].of = m_isrBuffer[i].of /\ m_isrBuffer[i].of \in 1 .. Len(sent)
      BY <1>2, <1>4, <2>1 DEF Like
    <3>2. CASE j = m
      BY <3>1, <3>2, <1>2, <2>3
    <3>3. CASE j # m
      <4>1. j \in 1 .. n
        BY <3>3, <1>2, <2>1
      <4>2. m_isrBuffer'[j].of = m_isrBuffer[j].of
        BY <4>1, <1>4 DEF Like
      <4>3. m_isrBuffer[i].of <= m_isrBuffer[j].of
        BY <3>1, <4>1 DEF OrderInv
      <4> QED BY <3>1, <4>2, <4>3
    <3> QED BY <3>2, <3>3
  <2> QED BY <2>2, <2>8, <2>9 DEF OrderInv
<1>7. CASE ~BitStored
  <2>1. Len(m_isrBuffer') = n
    BY <1>7, BitEdges
  <2>2. \A i, j \in 1 .. n : i < j => m_isrBuffer'[i].of <= m_isrBuffer'[j].of
    <3> SUFFICES ASSUME NEW i \in 1 .. n, NEW j \in 1 .. n, i < j
                 PROVE  m_isrBuffer'[i].of <= m_isrBuffer'[j].of
      OBVIOUS
    <3>1. m_isrBuffer'[i].of = m_isrBuffer[i].of /\ m_isrBuffer'[j].of = m_isrBuffer[j].of
      BY <1>4 DEF Like
    <3>2. m_isrBuffer[i].of <= m_isrBuffer[j].of
      BY DEF OrderInv
    <3> QED BY <3>1, <3>2
  <2> QED BY <1>5, <2>1, <2>2 DEF OrderInv
<1> QED BY <1>6, <1>7

\* A bit time leaves the decoder where it is; only words that begin can be spoilt.
LEMMA BitDecoder == ASSUME ReceiverTyped, OrderInv, DecoderInv, BitStep PROVE DecoderInv'
<1> DEFINE e == m_isrLastCycle
<1>1. BitFacts
  BY BitFactsAre
<1>2. e \in EdgeType /\ e' = Older(e) /\ e.of <= Len(sent)
      /\ m_rxCurBit' = m_rxCurBit /\ m_rxCurByte' = m_rxCurByte /\ m_rxCurParity' = m_rxCurParity
  BY DEF ReceiverTyped, BitStep
<1>3. Like(e', e) /\ e'.level = e.level /\ e'.of = e.of /\ e'.at = e.at
  BY <1>2, OlderIs, Zenon DEF Like
<1>4. (Pending' <=> Pending) /\ (Through' <=> Through)
  BY <1>2, <1>3 DEF Pending, Through
<1>5. e'.of = 0 \/ e'.at = Frame => Through' /\ e'.at = Frame
  BY <1>3, <1>4 DEF DecoderInv
<1>6. ASSUME e.of > 0, e.of \notin spoilt'
      PROVE  IF e.at = Frame
             THEN e.of \in arrived' /\ \A j \in arrived' : j <= e.of
             ELSE /\ EdgeOK(e', sent', spoilt', arrived')
                  /\ e.at = 0 => ~Pending'
                  /\ e.at > 0 => Has(sent'[e.of], e.at, m_rxCurBit, m_rxCurByte, m_rxCurParity)
  <2>1. e.of \notin spoilt /\ arrived' = arrived /\ More(sent, spoilt, sent', spoilt')
    BY <1>1, <1>6 DEF BitFacts
  <2>2. IF e.at = Frame
       THEN e.of \in arrived /\ \A j \in arrived : j <= e.of
       ELSE /\ EdgeOK(e, sent, spoilt, arrived)
            /\ e.at = 0 => ~Pending
            /\ e.at > 0 => Has(sent[e.of], e.at, m_rxCurBit, m_rxCurByte, m_rxCurParity)
    BY <1>6, <2>1 DEF DecoderInv
  <2>3. sent'[e.of] = sent[e.of]
    <3>1. e.of \in 1 .. Len(sent)
      BY <1>1, <1>2, <1>6, EdgeIs DEF BitFacts
    <3> QED BY <3>1, <2>1 DEF More
  <2>4. EdgeOK(e, sent, spoilt, arrived) => EdgeOK(e', sent', spoilt', arrived')
    <3>1. e.of \notin spoilt' => \A j \in arrived' \ arrived : j < e.of
      BY <2>1
    <3> QED BY <3>1, <2>1, <1>3, EdgeKeeps, Zenon
  <2> QED BY <1>4, <2>1, <2>2, <2>3, <2>4
<1> QED BY <1>2, <1>3, <1>5, <1>6, Zenon DEF DecoderInv

\* Numbers of the format that the counting of bits rests on.
LEMMA Counts ==
  /\ Stop \in Nat /\ Stop >= 2 /\ Frame \in Nat /\ m_pduBits \in Nat /\ BitSpan \in Nat
  /\ m_pduBits + 1 = Frame /\ m_pduBits >= Stop /\ BitSpan > Frame
  /\ m_stopBits \in 1 .. 2 /\ m_pduBits = Stop - 1 + m_stopBits
BY Format

\* The edges before and after are as many bit times apart as began since the first one was stored.
LEMMA NewBetween ==
  ASSUME Paced, NEW e \in EdgeType, NEW f \in EdgeType, NEW s \in Nat, s + 1 < BitSpan, Aged(e, s), Aged(f, 0)
  PROVE  Between(Older(e), f) = s + 1
<1>1. Aged(Older(e), s + 1) /\ Older(e) \in EdgeType /\ s + 1 \in Nat /\ s + 1 > 0
  BY AgedOlder, OlderIs
<1>2. PICK n \in Nat : n = s + 1
  BY <1>1
<1>3. Between(Older(e), f) = n
  BY <1>1, <1>2, AgedBetween
<1> QED BY <1>2, <1>3

\* What waits is looked at before its bits overflow their count.
LEMMA PolledInTime ==
  ASSUME Paced, ReceiverTyped, BitStep, ~(m_isrBuffer = <<>> /\ ~Pending)
  PROVE  since \in Nat /\ since + 1 < BitSpan
<1>1. ~(since >= PollWithin)
  BY DEF BitStep
<1>2. since \in Nat /\ PollWithin \in Nat /\ PollWithin < BitSpan /\ BitSpan \in Nat
  BY Format DEF ReceiverTyped, Paced
<1> QED BY <1>1, <1>2

\* A word is over when the next one begins.
LEMMA LatestEnds ==
  ASSUME ReceiverTyped, OrderInv, BitStep, LatestOK(Latest, since, Pos, sent, spoilt),
         Latest.of \notin spoilt, Latest.of \in 1 .. Len(sent), Latest.of < Len(sent')
  PROVE  /\ Latest.level
         /\ since < BitSpan => since + 1 >= Frame - Latest.at
         /\ Steady(sent[Latest.of], Latest.at, Stop, TRUE)
<1> DEFINE e == Latest
<1>1. BitFacts /\ e.at \in Nat /\ since \in Nat /\ Len(sent) \in Nat
  <2>1. Latest \in EdgeType
    BY EdgesTyped DEF Latest
  <2>2. since \in Nat
    BY Format DEF ReceiverTyped
  <2>3. BitFacts
    BY BitFactsAre
  <2> QED BY <2>1, <2>2, <2>3, EdgeIs DEF BitFacts
<1>2. CASE e.of < Len(sent)
  <2>1. /\ e.level
        /\ since >= Frame - e.at
        /\ Steady(sent[e.of], e.at, Stop, TRUE)
    BY <1>2, Zenon DEF LatestOK
  <2>2. since + 1 >= Frame - e.at
    BY <1>1, <2>1, Counts
  <2> QED BY <2>1, <2>2
<1>3. CASE ~(e.of < Len(sent))
  <2>1. e.of = Len(sent) /\ LineBegins /\ Pos \in Nat
    BY <1>1, <1>3 DEF BitFacts
  <2>2. Pos = m_pduBits + idle /\ idle \in Nat
    BY <2>1 DEF LineBegins, ReceiverTyped
  <2>3. /\ Pos >= e.at + since
        /\ since < BitSpan => Pos = e.at + since
        /\ Steady(sent[e.of], e.at, Pos, e.level)
    BY <2>1, Zenon DEF LatestOK
  <2>4. Pos \in e.at .. Pos /\ Pos >= Stop /\ Pos \in Int
    BY <1>1, <2>1, <2>2, <2>3, Counts
  <2>5. e.level = TRUE
    <3>1. LevelAt(sent[e.of], Pos) = e.level
      BY <2>3, <2>4, Zenon DEF Steady
    <3>2. LevelAt(sent[e.of], Pos) = TRUE
      BY <2>4, LevelBehind
    <3> QED BY <3>1, <3>2
  <2>6. since < BitSpan => since + 1 >= Frame - e.at
    BY <1>1, <2>2, <2>3, Counts
  <2>7. Steady(sent[e.of], e.at, Stop, TRUE)
    <3> SUFFICES ASSUME NEW i \in e.at .. Stop PROVE LevelAt(sent[e.of], i) = TRUE
      BY DEF Steady
    <3>1. i \in e.at .. Pos
      BY <1>1, <2>4, Counts
    <3>2. LevelAt(sent[e.of], i) = e.level
      BY <2>3, <3>1, Zenon DEF Steady
    <3> QED BY <2>5, <3>2
  <2> QED BY <2>5, <2>6, <2>7
<1> QED BY <1>2, <1>3

\* The latest edge and a new one.
LEMMA BitNewPair ==
  ASSUME Paced, ReceiverTyped, LineInv, HistoryInv, OrderInv, LatestInv, DecoderInv, BitStep, BitStored
  PROVE  Pair(Older(Latest), m_isrBuffer'[Len(m_isrBuffer) + 1], m_isrBuffer = <<>> /\ Through, sent', spoilt')
<1> DEFINE e == Older(Latest)
           f == m_isrBuffer'[Len(m_isrBuffer) + 1]
           done == m_isrBuffer = <<>> /\ Through
<1>1. BitFacts
  BY BitFactsAre
<1>2. Latest \in EdgeType /\ Latest.of \in 0 .. Len(sent) /\ e \in EdgeType
      /\ e.level = Latest.level /\ e.of = Latest.of /\ e.at = Latest.at /\ e.at \in Nat /\ Latest.level \in BOOLEAN
  <2>1. Len(m_isrBuffer) \in 0 .. Len(m_isrBuffer)
    BY EdgesTyped
  <2>2. Latest \in EdgeType /\ Latest.of \in 0 .. Len(sent)
    BY <2>1, EdgesTyped DEF Latest
  <2> QED BY <2>2, OlderIs, EdgeIs
<1>3. f \in EdgeType /\ Aged(f, 0) /\ f.of = Len(sent') /\ f.at = Pos'
  BY Zenon DEF BitStored, Fresh
<1>4. line' # line /\ (dirty' => spoilt' = spoilt \cup {Len(sent')}) /\ (~dirty' => spoilt' = spoilt)
      /\ (~dirty' => ~dirty \/ (LineBegins /\ InStep))
  BY Zenon DEF BitStored
<1> HIDE DEF f
<1>5. Len(sent) \in Nat /\ Len(sent') \in Nat /\ Len(sent) <= Len(sent')
  BY <1>1 DEF BitFacts, More
<1>6. e.of <= f.of
  BY <1>2, <1>3, <1>5
<1>7. Latest.of = 0 => done
  <2> SUFFICES ASSUME Latest.of = 0 PROVE done
    OBVIOUS
  <2>1. Len(m_isrBuffer) = 0
    <3>1. Len(m_isrBuffer) \in Nat /\ \A i \in 1 .. Len(m_isrBuffer) : EdgeAt(i).of \in 1 .. Len(sent)
      BY EdgesTyped
    <3>2. Len(m_isrBuffer) \notin 1 .. Len(m_isrBuffer)
      BY <3>1 DEF Latest
    <3> QED BY <3>1, <3>2
  <2>2. m_isrBuffer = <<>>
    BY <2>1 DEF ReceiverTyped
  <2>3. Latest = m_isrLastCycle
    BY <2>1 DEF Latest, EdgeAt
  <2> QED BY <2>2, <2>3 DEF DecoderInv
<1>8. ASSUME e.of \notin spoilt', e.of = f.of
      PROVE  SameWord(e, f, sent'[e.of])
  <2>1. LineGoes /\ Latest.of = Len(sent) /\ Len(sent) > 0 /\ Len(sent) \notin spoilt /\ Pos < Stop /\ Pos' = Pos + 1
        /\ Len(sent') = Len(sent) /\ sent' = sent /\ Pos \in Nat
    <3>1. ~LineBegins
      BY <1>1, <1>2, <1>3, <1>5, <1>8 DEF BitFacts
    <3>2. LineGoes /\ Len(sent') = Len(sent) /\ sent' = sent
      BY <1>1, <3>1 DEF BitFacts
    <3>3. Pos < Stop /\ Pos' = Pos + 1 /\ Pos \in Nat /\ Len(sent') > 0
      BY <1>1, <1>4, <3>2 DEF BitFacts
    <3>4. Latest.of = Len(sent)
      BY <1>2, <1>3, <1>8, <3>2
    <3>5. spoilt \subseteq spoilt'
      BY <1>1 DEF BitFacts
    <3> QED BY <1>2, <1>8, <3>2, <3>3, <3>4, <3>5
  <2>2. /\ since < BitSpan
        /\ Aged(Latest, since)
        /\ Pos = Latest.at + since
        /\ Steady(sent[Len(sent)], Latest.at, Pos, Latest.level)
    BY <2>1, LatestIs
  <2>3. since \in Nat
    BY Format DEF ReceiverTyped
  <2>4. since + 1 < BitSpan /\ e.at < f.at /\ f.at - e.at = since + 1 /\ f.at - 1 = Pos
    BY <1>2, <1>3, <2>1, <2>2, <2>3, Counts
  <2>5. Between(e, f) = since + 1
    BY <1>2, <1>3, <2>2, <2>3, <2>4, NewBetween
  <2>6. Steady(sent'[e.of], e.at, f.at - 1, e.level)
    BY <1>2, <2>1, <2>2, <2>4
  <2> QED BY <2>4, <2>5, <2>6 DEF SameWord
<1>9. ASSUME e.of \notin spoilt', e.of < f.of, ~done
      PROVE  WordEnds(e, f, sent'[e.of])
  <2>1. LatestOK(Latest, since, Pos, sent, spoilt)
    BY <1>9 DEF LatestInv
  <2>2. Latest.of \notin spoilt /\ Latest.of \in 1 .. Len(sent) /\ Latest.of < Len(sent')
    <3>1. spoilt \subseteq spoilt'
      BY <1>1 DEF BitFacts
    <3> QED BY <3>1, <1>2, <1>3, <1>5, <1>7, <1>9
  <2>3. /\ Latest.level
        /\ since < BitSpan => since + 1 >= Frame - Latest.at
        /\ Steady(sent[Latest.of], Latest.at, Stop, TRUE)
    BY <2>1, <2>2, LatestEnds
  <2>4. ~(m_isrBuffer = <<>> /\ ~Pending)
    <3> SUFFICES ASSUME m_isrBuffer = <<>>, ~Pending PROVE FALSE
      OBVIOUS
    <3>1. Latest = m_isrLastCycle
      BY DEF Latest, EdgeAt
    <3> QED BY <3>1, <2>3, <1>9 DEF Through
  <2>5. since \in Nat /\ since + 1 < BitSpan /\ since < BitSpan
    BY <2>4, PolledInTime, Counts
  <2>6. Aged(Latest, since)
    BY <2>1, <2>5, Zenon DEF LatestOK
  <2>7. Between(e, f) = since + 1
    BY <1>2, <1>3, <2>5, <2>6, NewBetween
  <2>8. sent'[e.of] = sent[Latest.of]
    BY <1>1, <1>2, <2>2 DEF BitFacts, More
  <2> QED BY <1>2, <2>3, <2>5, <2>7, <2>8 DEF WordEnds
<1>10. ASSUME e.of < f.of, f.of \notin spoilt'
       PROVE  f.at = 0 /\ (e.of \in spoilt' /\ ~done => Beyond(e, f))
  <2>1. ~dirty' /\ spoilt' = spoilt
    BY <1>3, <1>4, <1>10
  <2>2. ASSUME ~dirty PROVE e.of = Len(sent) /\ Len(sent) \notin spoilt
    BY <2>2, <1>2 DEF HistoryInv
  <2>3. LineBegins
    <3>1. CASE dirty
      BY <1>4, <2>1, <3>1
    <3>2. CASE ~dirty
      <4>1. Len(sent) # Len(sent')
        BY <1>2, <1>3, <1>10, <2>2, <3>2, <1>5
      <4> QED BY <4>1, <1>1 DEF BitFacts
    <3> QED BY <3>1, <3>2
  <2>4. f.at = 0
    BY <1>1, <1>3, <2>3 DEF BitFacts
  <2>5. ASSUME e.of \in spoilt', ~done PROVE Beyond(e, f)
    <3>1. dirty /\ InStep
      BY <2>1, <2>2, <2>5, <1>4
    <3>2. idle >= Frame - 2 * m_stopBits /\ since < BitSpan - 1 /\ idle \in Nat /\ since \in Nat
      BY <3>1, Format DEF InStep, ReceiverTyped
    <3>3. LatestOK(Latest, since, Pos, sent, spoilt)
      BY <2>5 DEF LatestInv
    <3>4. since + 1 < BitSpan /\ since < BitSpan
      BY <3>2, Counts
    <3>5. Aged(Latest, since) /\ since >= Pos - (IF Latest.level THEN Stop ELSE Stop - 1)
      BY <3>3, <3>4, Zenon DEF LatestOK
    <3>6. Between(e, f) = since + 1
      BY <1>2, <1>3, <3>2, <3>4, <3>5, NewBetween
    <3>7. Pos = m_pduBits + idle
      BY <2>3 DEF LineBegins
    <3>8. CASE Latest.level
      <4>1. since >= Pos - Stop
        BY <3>5, <3>8
      <4>2. since + 1 >= Stop + 0
        BY <3>2, <3>7, <4>1, Counts
      <4> QED BY <1>2, <3>6, <3>8, <4>2 DEF Beyond
    <3>9. CASE ~Latest.level
      <4>1. since >= Pos - (Stop - 1)
        BY <3>5, <3>9
      <4>2. since + 1 >= Stop + 1
        BY <3>2, <3>7, <4>1, Counts
      <4> QED BY <1>2, <3>6, <3>9, <4>2 DEF Beyond
    <3> QED BY <3>8, <3>9
  <2> QED BY <2>4, <2>5
<1> HIDE DEF e, done
<1>11. Pair(e, f, done, sent', spoilt')
  BY <1>6, <1>8, <1>9, <1>10, Zenon DEF Pair
<1> QED BY <1>11 DEF e, f, done

\* With no word before it an edge is the one that enableRx() or begin() made.
LEMMA NoWordYet ==
  ASSUME ReceiverTyped, OrderInv, DecoderInv, Latest.of = 0
  PROVE  m_isrBuffer = <<>> /\ Through
<1>1. Len(m_isrBuffer) = 0
  <2>1. Len(m_isrBuffer) \in Nat /\ \A i \in 1 .. Len(m_isrBuffer) : EdgeAt(i).of \in 1 .. Len(sent)
    BY EdgesTyped
  <2>2. Len(m_isrBuffer) \notin 1 .. Len(m_isrBuffer)
    BY <2>1 DEF Latest
  <2> QED BY <2>1, <2>2
<1>2. m_isrBuffer = <<>>
  BY <1>1 DEF ReceiverTyped
<1>3. Latest = m_isrLastCycle
  BY <1>1 DEF Latest, EdgeAt
<1> QED BY <1>2, <1>3 DEF DecoderInv

\* What the decoder is doing stays.
LEMMA BitThrough ==
  ASSUME ReceiverTyped, BitStep
  PROVE  (Pending' <=> Pending) /\ (Through' <=> Through)
<1>1. m_isrLastCycle \in EdgeType /\ m_isrLastCycle' = Older(m_isrLastCycle) /\ m_rxCurBit' = m_rxCurBit
  BY DEF ReceiverTyped, BitStep
<1>2. m_isrLastCycle'.level = m_isrLastCycle.level
  BY <1>1, OlderIs
<1> QED BY <1>1, <1>2 DEF Pending, Through

\* Every two edges that follow each other, the new one included, stay as far apart as the bits they begin.
LEMMA BitPair ==
  ASSUME Paced, ReceiverTyped, LineInv, HistoryInv, OrderInv, PairInv, LatestInv, DecoderInv, BitStep
  PROVE  PairInv'
<1> DEFINE n == Len(m_isrBuffer)
<1>1. BitFacts /\ n \in Nat /\ Len(sent) \in Nat /\ Len(sent') \in Nat /\ Len(sent) <= Len(sent')
  BY BitFactsAre DEF BitFacts, More
<1>2. \A i \in 0 .. n : EdgeAt(i)' = Older(EdgeAt(i)) /\ Like(EdgeAt(i)', EdgeAt(i)) /\ EdgeAt(i) \in EdgeType
                        /\ EdgeAt(i).of \in 0 .. Len(sent)
  BY BitEdges, EdgesTyped, Zenon
<1>3. \A i \in 1 .. n : EdgeAt(i).of \in 1 .. Len(sent)
  BY EdgesTyped
<1>4. Through' <=> Through
  BY BitThrough
<1> SUFFICES ASSUME NEW i \in 1 .. Len(m_isrBuffer')
             PROVE  Pair(EdgeAt(i - 1)', EdgeAt(i)', i = 1 /\ Through', sent', spoilt')
  BY DEF PairInv
<1>5. CASE i \in 1 .. n
  <2>1. PICK h \in 0 .. n : h = i - 1
    BY <1>1, <1>5
  <2>2. i \in 0 .. n
    BY <1>1, <1>5
  <2> DEFINE e == EdgeAt(h)
             e2 == EdgeAt(i)
             f == EdgeAt(h)'
             f2 == EdgeAt(i)'
             done == i = 1 /\ Through
             done2 == i = 1 /\ Through'
  <2>3. Pair(e, e2, done, sent, spoilt)
    BY <1>5, <2>1 DEF PairInv
  <2>4. Like(f, e) /\ Like(f2, e2) /\ e \in EdgeType /\ e2 \in EdgeType /\ f = Older(e) /\ f2 = Older(e2)
    BY <1>2, <2>2
  <2>5. e.of \in 0 .. Len(sent) /\ e2.of \in 1 .. Len(sent)
    BY <1>2, <1>3, <1>5
  <2>6. Between(f, f2) = Between(e, e2)
    BY <2>4, OlderBetween
  <2>7. More(sent, spoilt, sent', spoilt')
    BY <1>1 DEF BitFacts
  <2>8. e.of \in 1 .. Len(sent) \/ (e.of = 0 /\ done2 /\ e.of < e2.of)
    <3> SUFFICES ASSUME e.of = 0 PROVE done2 /\ e.of < e2.of
      BY <1>1, <2>5
    <3>1. ~(h \in 1 .. n)
      BY <1>3
    <3>2. h = 0 /\ i = 1
      BY <1>1, <2>1, <3>1
    <3>3. e = m_isrLastCycle
      BY <3>2 DEF EdgeAt
    <3>4. Through
      BY <3>3 DEF DecoderInv
    <3> QED BY <1>1, <1>4, <2>5, <3>2, <3>4
  <2>9. e.of \in spoilt' /\ e.of \notin spoilt /\ e.of < e2.of => e2.of \in spoilt'
    <3>1. spoilt' \subseteq spoilt \cup {Len(sent')}
      BY <1>1 DEF BitFacts
    <3> QED BY <1>1, <2>5, <3>1
  <2>10. done => done2
    BY <1>4
  <2> HIDE DEF e, e2, f, f2, done, done2
  <2>11. Pair(f, f2, done2, sent', spoilt')
    <3>1. PairMoves(e, e2, done, sent, spoilt, f, f2, done2, sent', spoilt')
      BY <2>3, <2>4, <2>6, <2>7, <2>8, <2>9, <2>10, Zenon DEF PairMoves
    <3> QED BY <3>1, PairKeeps, Zenon
  <2> QED BY <2>1, <2>11 DEF f, f2, done2
<1>6. CASE ~(i \in 1 .. n)
  <2>1. BitStored /\ i = n + 1
    <3>1. ~BitStored => Len(m_isrBuffer') = n
      BY BitEdges
    <3>2. BitStored => Len(m_isrBuffer') = n + 1
      BY BitEdges
    <3> QED BY <1>1, <1>6, <3>1, <3>2
  <2>2. PICK h \in 0 .. n : h = n /\ i - 1 = h
    BY <1>1, <2>1
  <2>3. EdgeAt(h)' = Older(Latest)
    <3>1. Latest = EdgeAt(h)
      BY <2>2 DEF Latest
    <3> QED BY <1>2, <3>1
  <2>4. EdgeAt(i)' = m_isrBuffer'[n + 1]
    <3>1. i # 0
      BY <1>1, <2>1
    <3> QED BY <2>1, <3>1 DEF EdgeAt
  <2>5. (i = 1 /\ Through') <=> (m_isrBuffer = <<>> /\ Through)
    <3>1. m_isrBuffer \in Seq(EdgeType)
      BY DEF ReceiverTyped
    <3>2. (m_isrBuffer = <<>>) <=> (n = 0)
      BY <3>1
    <3>3. (i = 1) <=> (n = 0)
      BY <1>1, <2>1
    <3> QED BY <1>4, <3>2, <3>3
  <2>6. (i = 1 /\ Through') = (m_isrBuffer = <<>> /\ Through)
    BY <2>5
  <2>7. Pair(Older(Latest), m_isrBuffer'[Len(m_isrBuffer) + 1], m_isrBuffer = <<>> /\ Through, sent', spoilt')
    BY <2>1, BitNewPair
  <2> QED BY <2>2, <2>3, <2>4, <2>6, <2>7
<1> QED BY <1>5, <1>6

\* An edge that has just come and the line.
LEMMA LatestFresh ==
  ASSUME ReceiverTyped, OrderInv, LineInv, BitStep, BitStored
  PROVE  LatestOK(Latest', since', Pos', sent', spoilt')
<1>1. BitFacts
  BY BitFactsAre
<1>2. Fresh(Latest', line', Len(sent'), Pos') /\ since' = 0 /\ line' # line
  BY BitEdges DEF BitStored
<1>3. PICK e, w, p : e = Latest' /\ w = sent'[Len(sent')] /\ p = Pos'
  OBVIOUS
<1>4. e \in EdgeType /\ Aged(e, 0) /\ e.level = line' /\ e.of = Len(sent') /\ e.at = p /\ p \in 0 .. Stop
  BY <1>1, <1>2, <1>3 DEF Fresh, BitFacts
<1>5. line' = LevelAt(w, p) /\ line' \in BOOLEAN
  <2>1. LineInv' /\ LineTyped' /\ sent' # <<>>
    <3>1. Len(sent') > 0
      BY <1>1, <1>2 DEF BitFacts
    <3> QED BY <3>1 DEF BitStep
  <2>2. line' = LevelAt(sent'[Len(sent')], Pos')
    BY <2>1, Zenon DEF LineInv
  <2> QED BY <1>3, <2>1, <2>2 DEF LineTyped
<1>6. 0 >= p - (IF e.level THEN Stop ELSE Stop - 1)
  <2>1. CASE p = Stop
    <3>1. LevelAt(w, p) = TRUE
      <4>1. p \in Int /\ p >= Stop
        BY <2>1, Counts
      <4> QED BY <4>1, LevelBehind
    <3> QED BY <1>4, <1>5, <2>1, <3>1, Counts
  <2>2. CASE p # Stop
    BY <1>4, <1>5, <2>2, Counts
  <2> QED BY <2>1, <2>2
<1>7. Steady(w, e.at, p, e.level)
  <2> SUFFICES ASSUME NEW i \in p .. p PROVE LevelAt(w, i) = e.level
    BY <1>4 DEF Steady
  <2>1. i = p
    BY <1>4, Counts
  <2> QED BY <2>1, <1>4, <1>5
<1>8. p >= e.at + 0 /\ p = e.at + 0
  BY <1>4, Counts
<1>9. ~(e.of < Len(sent'))
  BY <1>1, <1>4 DEF BitFacts
<1>10. LatestOK(e, 0, p, sent', spoilt')
  <2>1. 0 < BitSpan => Aged(e, 0) /\ 0 >= p - (IF e.level THEN Stop ELSE Stop - 1)
    BY <1>4, <1>6
  <2>2. Steady(sent'[e.of], e.at, p, e.level)
    BY <1>3, <1>4, <1>7
  <2> QED BY <1>8, <1>9, <2>1, <2>2, Zenon DEF LatestOK
<1> QED BY <1>2, <1>3, <1>10

\* The latest edge and the line when no edge is stored.
LEMMA LatestOlder ==
  ASSUME Paced, ReceiverTyped, LineInv, HistoryInv, OrderInv, BitStep, ~BitStored,
         LatestOK(Latest, since, Pos, sent, spoilt), Latest.of # 0
  PROVE  LatestOK(Latest', since', Pos', sent', spoilt')
<1>1. BitFacts /\ Len(sent) \in Nat /\ Len(sent') \in Nat /\ Pos \in Nat /\ Pos' \in Nat /\ (LineGoes \/ LineBegins)
      /\ Len(sent) <= Len(sent')
  BY BitFactsAre DEF BitFacts, More
<1>2. Latest \in EdgeType /\ Latest.of \in 1 .. Len(sent) /\ Latest' = Older(Latest)
      /\ Latest.at \in Nat /\ Latest.level \in BOOLEAN
  <2>1. Latest \in EdgeType /\ Latest.of \in 0 .. Len(sent)
    BY EdgesTyped DEF Latest
  <2> QED BY <1>1, <2>1, EdgeIs, BitEdges
<1>3. PICK e, f : e = Latest /\ f = Latest'
  OBVIOUS
<1>4. e \in EdgeType /\ e.of \in 1 .. Len(sent) /\ f = Older(e) /\ e.at \in Nat /\ e.level \in BOOLEAN
      /\ f.level = e.level /\ f.of = e.of /\ f.at = e.at
  BY <1>2, <1>3, OlderIs
<1>5. since \in 0 .. BitSpan /\ since' = Least(since + 1, BitSpan)
      /\ (since' < BitSpan => since' = since + 1 /\ since < BitSpan)
      /\ since' <= since + 1 /\ (since = BitSpan => since' = BitSpan)
      /\ (since < BitSpan => since' = since + 1) /\ since' \in Nat
  <2>1. since \in 0 .. BitSpan /\ since' = Least(since + 1, BitSpan)
    BY <1>1 DEF ReceiverTyped, BitFacts, BitQuiet, BitLost
  <2> QED BY <2>1, Counts DEF Least
<1>6. LatestOK(e, since, Pos, sent, spoilt)
  BY <1>3
<1>7. spoilt \subseteq spoilt' /\ sent'[e.of] = sent[e.of]
  BY <1>1, <1>4 DEF BitFacts, More
<1>8. ASSUME since' < BitSpan
      PROVE  Aged(f, since') /\ since' >= Pos' - (IF f.level THEN Stop ELSE Stop - 1)
  <2>1. since \in Nat /\ since + 1 < BitSpan /\ since < BitSpan /\ since' = since + 1
    BY <1>5, <1>8
  <2>2. Aged(e, since) /\ since >= Pos - (IF e.level THEN Stop ELSE Stop - 1)
    BY <1>6, <2>1, Zenon DEF LatestOK
  <2>3. Aged(f, since + 1)
    BY <1>4, <2>1, <2>2, AgedOlder
  <2>4. Pos' = Pos + 1 \/ Pos' = 0
    BY <1>1 DEF LineGoes, LineBegins
  <2>5. PICK x \in Nat : x = (IF e.level THEN Stop ELSE Stop - 1)
    BY Counts
  <2>6. since + 1 >= Pos' - x
    <3>1. Pos \in Nat /\ Pos' \in Nat /\ since \in Nat /\ since >= Pos - x
      BY <1>1, <2>1, <2>2, <2>5
    <3>2. CASE Pos' = Pos + 1
      BY <3>1, <3>2
    <3>3. CASE Pos' = 0
      BY <3>1, <3>3
    <3> QED BY <2>4, <3>2, <3>3
  <2> QED BY <1>4, <2>1, <2>3, <2>5, <2>6
<1>9. ASSUME e.of \notin spoilt', e.of = Len(sent')
      PROVE  /\ Pos' >= e.at + since'
             /\ since' < BitSpan => Pos' = e.at + since'
             /\ Steady(sent'[e.of], e.at, Pos', e.level)
  <2>1. LineGoes /\ e.of = Len(sent) /\ e.of \notin spoilt /\ Pos' = Pos + 1
    <3>1. ~LineBegins
      BY <1>1, <1>4, <1>9 DEF BitFacts
    <3> QED BY <1>1, <1>4, <1>7, <1>9, <3>1 DEF LineGoes
  <2>2. /\ Pos >= e.at + since
        /\ since < BitSpan => Pos = e.at + since
        /\ Steady(sent[e.of], e.at, Pos, e.level)
    BY <1>6, <2>1, Zenon DEF LatestOK
  <2>3. Pos' >= e.at + since' /\ (since' < BitSpan => Pos' = e.at + since')
    BY <1>1, <1>4, <1>5, <2>1, <2>2
  <2>4. sent # <<>>
    BY <1>4, <2>1
  <2>5. line = e.level
    <3>1. line = LevelAt(sent[Len(sent)], Pos)
      BY <2>4, Zenon DEF LineInv
    <3>2. Pos \in e.at .. Pos
      BY <1>1, <1>4, <1>5, <2>2
    <3> QED BY <2>1, <2>2, <3>1, <3>2 DEF Steady
  <2>6. line' = line
    <3> SUFFICES ASSUME line' # line PROVE FALSE
      OBVIOUS
    <3>1. Pos < Stop
      BY <1>1, <2>1 DEF BitFacts
    <3>2. ~BitLost
      BY <1>9 DEF BitLost
    <3>3. ~m_rxEnabled
      BY <1>1, <3>2 DEF BitFacts, BitQuiet
    <3>4. dirty
      BY <3>3 DEF HistoryInv
    <3>5. Pos >= Stop
      BY <2>1, <3>4 DEF HistoryInv
    <3> QED BY <1>1, <3>1, <3>5, Counts
  <2>7. LevelAt(sent[e.of], Pos + 1) = e.level
    BY <2>1, <2>4, <2>5, <2>6 DEF LineGoes
  <2>8. Steady(sent'[e.of], e.at, Pos', e.level)
    <3> SUFFICES ASSUME NEW i \in e.at .. Pos' PROVE LevelAt(sent[e.of], i) = e.level
      BY <1>7 DEF Steady
    <3>1. i \in e.at .. Pos \/ i = Pos + 1
      BY <1>1, <1>4, <2>1
    <3>2. CASE i \in e.at .. Pos
      BY <3>2, <2>2, Zenon DEF Steady
    <3>3. CASE i = Pos + 1
      BY <3>3, <2>7
    <3> QED BY <3>1, <3>2, <3>3
  <2> QED BY <2>3, <2>8
<1>10. ASSUME e.of \notin spoilt', e.of < Len(sent')
       PROVE  /\ e.level
              /\ since' >= Frame - e.at
              /\ Steady(sent'[e.of], e.at, Stop, TRUE)
  <2>1. e.of \notin spoilt
    BY <1>7, <1>10
  <2>2. /\ Latest.level
        /\ since < BitSpan => since + 1 >= Frame - Latest.at
        /\ Steady(sent[Latest.of], Latest.at, Stop, TRUE)
    BY <1>3, <1>4, <1>10, <2>1, LatestEnds
  <2>3. since' >= Frame - e.at
    <3>1. CASE since < BitSpan
      BY <1>3, <1>5, <2>2, <3>1
    <3>2. CASE ~(since < BitSpan)
      <4>1. since' = BitSpan
        BY <1>5, <3>2, Counts
      <4> QED BY <4>1, <1>4, Counts
    <3> QED BY <3>1, <3>2
  <2> QED BY <1>3, <1>7, <2>2, <2>3
<1>11. LatestOK(f, since', Pos', sent', spoilt')
  BY <1>4, <1>8, <1>9, <1>10, Zenon DEF LatestOK
<1> QED BY <1>3, <1>11

\* The latest edge is as old as the bit it begins.
LEMMA BitLatest ==
  ASSUME Paced, ReceiverTyped, LineInv, HistoryInv, OrderInv, LatestInv, DecoderInv, BitStep
  PROVE  LatestInv'
<1>1. CASE BitStored
  BY <1>1, LatestFresh DEF LatestInv
<1>2. CASE ~BitStored
  <2>1. CASE m_isrBuffer = <<>> /\ Through
    <3>1. Len(m_isrBuffer') = Len(m_isrBuffer) /\ m_isrBuffer' \in Seq(EdgeType)
      BY <1>2, BitEdges DEF BitStep
    <3>2. m_isrBuffer' = <<>>
      BY <2>1, <3>1
    <3> QED BY <2>1, <3>2, BitThrough DEF LatestInv
  <2>2. CASE ~(m_isrBuffer = <<>> /\ Through)
    <3>1. Latest.of # 0
      BY <2>2, NoWordYet
    <3>2. LatestOK(Latest, since, Pos, sent, spoilt)
      BY <2>2 DEF LatestInv
    <3>3. LatestOK(Latest', since', Pos', sent', spoilt')
      BY <1>2, <3>1, <3>2, LatestOlder
    <3> QED BY <3>3 DEF LatestInv
  <2> QED BY <2>1, <2>2
<1> QED BY <1>1, <1>2

\* An edge that comes while loop() is between its two reads is a bit time away from the last one.
LEMMA BitCall ==
  ASSUME Paced, ReceiverTyped, LineInv, HistoryInv, OrderInv, LatestInv, DecoderInv, CallInv, BitStep
  PROVE  CallInv'
<1> SUFFICES ASSUME pc' = "asked", left' = 0
             PROVE  /\ m_isrBuffer' # <<>> =>
                         /\ pause' = 1 /\ Len(m_isrBuffer') = 1 /\ idle' = 0
                         /\ m_isrLastCycle'.of \notin spoilt' /\ Pending' /\ m_isrLastCycle'.of = m_isrBuffer'[1].of =>
                              Aged(m_isrLastCycle', m_isrBuffer'[1].at - m_isrLastCycle'.at)
                    /\ pause' = 0 => m_isrBuffer' = <<>>
  BY DEF CallInv
<1>1. pause = 0 /\ pause' = 1 /\ pc = "asked" /\ left = 0
  BY DEF BitStep
<1>2. m_isrBuffer = <<>> /\ Len(m_isrBuffer) = 0
  BY <1>1 DEF CallInv
<1>3. BitFacts
  BY BitFactsAre
<1> SUFFICES ASSUME m_isrBuffer' # <<>>
             PROVE  /\ Len(m_isrBuffer') = 1 /\ idle' = 0
                    /\ m_isrLastCycle'.of \notin spoilt' /\ Pending' /\ m_isrLastCycle'.of = m_isrBuffer'[1].of =>
                         Aged(m_isrLastCycle', m_isrBuffer'[1].at - m_isrLastCycle'.at)
  BY <1>1
<1>4. BitStored
  <2>1. Len(m_isrBuffer') # 0
    BY DEF BitStep
  <2> QED BY <1>2, <1>3, <2>1 DEF BitFacts, BitQuiet, BitLost
<1>5. Len(m_isrBuffer') = 1 /\ Fresh(m_isrBuffer'[1], line', Len(sent'), Pos') /\ line' # line
  <2>1. Len(m_isrBuffer) + 1 = 1
    BY <1>2
  <2> QED BY <1>4, <2>1 DEF BitStored
<1>6. idle' = 0
  BY <1>3, <1>5 DEF BitFacts, LineGoes, LineBegins
<1>7. ASSUME m_isrLastCycle'.of \notin spoilt', Pending', m_isrLastCycle'.of = m_isrBuffer'[1].of
      PROVE  Aged(m_isrLastCycle', m_isrBuffer'[1].at - m_isrLastCycle'.at)
  <2> DEFINE e == m_isrLastCycle
  <2>1. e \in EdgeType /\ e' = Older(e) /\ e'.of = e.of /\ e'.at = e.at /\ e.of <= Len(sent) /\ e.of \in Nat /\ e.at \in Nat
    <3>1. e \in EdgeType /\ e' = Older(e) /\ e.of <= Len(sent)
      BY DEF ReceiverTyped, BitStep
    <3> QED BY <3>1, OlderIs, EdgeIs
  <2>2. m_isrBuffer'[1].of = Len(sent') /\ m_isrBuffer'[1].at = Pos'
    BY <1>5 DEF Fresh
  <2>3. Latest = e
    BY <1>2 DEF Latest, EdgeAt
  <2>4. /\ Latest.of = Len(sent) /\ Len(sent) > 0 /\ Len(sent) \notin spoilt
        /\ Pos < Stop /\ Pos' = Pos + 1 /\ Pos \in Nat
    <3>1. ~LineBegins
      BY <1>3, <1>7, <2>1, <2>2 DEF BitFacts
    <3> QED BY <1>3, <1>5, <1>7, <2>1, <2>2, <2>3, <3>1 DEF BitFacts
  <2>5. /\ since < BitSpan
        /\ Aged(Latest, since)
        /\ Pos = Latest.at + since
    BY <2>4, LatestIs
  <2>6. since \in Nat /\ since + 1 < BitSpan
    <3>1. Pending
      BY <1>7, BitThrough
    <3> QED BY <3>1, PolledInTime
  <2>7. Aged(Older(e), since + 1)
    BY <2>1, <2>3, <2>5, <2>6, AgedOlder
  <2>8. m_isrBuffer'[1].at - m_isrLastCycle'.at = since + 1
    BY <2>1, <2>2, <2>3, <2>4, <2>5, <2>6
  <2> QED BY <2>1, <2>7, <2>8
<1> QED BY <1>5, <1>6, <1>7

\* A bit time keeps all that.
LEMMA BitTimeKeeps == Paced /\ ReceiverInv /\ BitTime => ReceiverInv'
<1> SUFFICES ASSUME Paced, ReceiverInv, BitTime PROVE ReceiverInv'
  OBVIOUS
<1>1. ReceiverTyped /\ LineInv /\ HistoryInv /\ OrderInv /\ PairInv /\ LatestInv /\ DecoderInv /\ CallInv
  BY DEF ReceiverInv
<1>2. BitStep
  BY <1>1, BitTimeStep
<1>3. ReceiverTyped' /\ HistoryInv' /\ OrderInv' /\ DecoderInv'
  BY <1>1, <1>2, BitTyped, BitHistory, BitOrder, BitDecoder
<1>4. LineInv'
  BY <1>2 DEF BitStep
<1>5. PairInv' /\ LatestInv' /\ CallInv'
  BY <1>1, <1>2, BitPair, BitLatest, BitCall
<1> QED BY <1>3, <1>4, <1>5 DEF ReceiverInv

-----------------------------------------------------------------------------
(* The calls that leave the receiver alone. *)

\* Nothing of the receiver changes.
ReceiverSame == UNCHANGED <<lineVars, m_rxEnabled, m_isrBuffer, decoderVars, lossVars, arrived>>

\* What is not touched stays.
LEMMA SameReceiver ==
  ASSUME ReceiverInv, ReceiverSame, pc' \in {"idle", "asked", "each"}, left' \in 0 .. Len(m_isrBuffer), pause' \in Nat,
         CallInv'
  PROVE  ReceiverInv'
<1>1. /\ line' = line /\ word' = word /\ idle' = idle /\ sent' = sent
      /\ m_rxEnabled' = m_rxEnabled /\ m_isrBuffer' = m_isrBuffer
      /\ m_isrLastCycle' = m_isrLastCycle /\ m_rxCurBit' = m_rxCurBit /\ m_rxCurByte' = m_rxCurByte
      /\ m_rxCurParity' = m_rxCurParity
      /\ spoilt' = spoilt /\ dirty' = dirty /\ since' = since /\ arrived' = arrived
  BY Zenon DEF ReceiverSame, lineVars, decoderVars, lossVars
<1>2. ReceiverTyped /\ LineInv /\ HistoryInv /\ OrderInv /\ PairInv /\ LatestInv /\ DecoderInv
  BY Zenon DEF ReceiverInv
<1>3. Pos' = Pos /\ Latest' = Latest /\ (Pending' <=> Pending) /\ (Through' <=> Through)
      /\ \A i \in Nat : EdgeAt(i)' = EdgeAt(i)
  BY <1>1 DEF Pos, Latest, EdgeAt, Pending, Through
<1>4. ReceiverTyped'
  BY <1>1, <1>2, Zenon DEF ReceiverTyped
<1>5. LineInv'
  BY <1>1, <1>2, <1>3, Zenon DEF LineInv
<1>6. HistoryInv'
  BY <1>1, <1>2, <1>3, Zenon DEF HistoryInv, EdgeAt
<1>7. OrderInv'
  BY <1>1, <1>2, Zenon DEF OrderInv
<1>8. PairInv'
  BY <1>1, <1>2, <1>3, Zenon DEF PairInv, EdgeAt
<1>9. LatestInv'
  BY <1>1, <1>2, <1>3, Zenon DEF LatestInv
<1>10. DecoderInv'
  BY <1>1, <1>2, <1>3, Zenon DEF DecoderInv
<1> QED BY <1>4, <1>5, <1>6, <1>7, <1>8, <1>9, <1>10, Zenon DEF ReceiverInv

\* A call begins.
LEMMA AskKeeps == ASSUME NEW n, ReceiverInv, Ask(n) PROVE ReceiverInv'
<1>1. ReceiverSame /\ pc' = "asked" /\ left' = Len(m_isrBuffer) /\ pause' = 0 /\ m_isrBuffer' = m_isrBuffer
  BY Zenon DEF Ask, ReceiverSame, isrVars, rxVars
<1>2. m_isrBuffer \in Seq(EdgeType)
  BY DEF ReceiverInv, ReceiverTyped
<1>3. left' = 0 => m_isrBuffer = <<>>
  <2>1. Len(m_isrBuffer) = 0 => m_isrBuffer = <<>>
    BY <1>2
  <2> QED BY <1>1, <2>1
<1>4. CallInv'
  BY <1>1, <1>3 DEF CallInv
<1>5. left' \in 0 .. Len(m_isrBuffer) /\ pause' \in Nat
  BY <1>1, <1>2
<1> QED BY <1>1, <1>4, <1>5, SameReceiver

\* Nothing of the call changes.
LEMMA IdleKeeps ==
  ASSUME ReceiverInv, ReceiverSame, pc' \in {"idle", "each"} \/ pc' = pc, UNCHANGED <<left, pause>>
  PROVE  ReceiverInv'
<1>1. ReceiverTyped /\ CallInv
  BY DEF ReceiverInv
<1>2. pc' \in {"idle", "asked", "each"} /\ left' \in 0 .. Len(m_isrBuffer) /\ pause' \in Nat
  BY <1>1 DEF ReceiverTyped
<1>3. CallInv'
  <2>1. CASE pc' \in {"idle", "each"}
    BY <2>1 DEF CallInv
  <2>2. CASE pc' = pc
    <3>1. /\ m_isrBuffer' = m_isrBuffer /\ idle' = idle /\ spoilt' = spoilt /\ m_isrLastCycle' = m_isrLastCycle
          /\ m_rxCurBit' = m_rxCurBit
      BY Zenon DEF ReceiverSame, lineVars, lossVars, decoderVars
    <3>2. Pending' <=> Pending
      BY <3>1 DEF Pending
    <3> QED BY <1>1, <2>2, <3>1, <3>2, Zenon DEF CallInv
  <2> QED BY <2>1, <2>2
<1> QED BY <1>2, <1>3, SameReceiver

\* The calls that take bytes, give them up, or tell of an overflow.
LEMMA ByteCallsKeep ==
  ASSUME ReceiverInv,
         available \/ Return \/ flush \/ overflow \/ (\E size \in 1 .. bufCapacity : read(size)) \/ UNCHANGED vars
  PROVE  ReceiverInv'
<1>1. CASE available
  BY <1>1, AskKeeps DEF available
<1>2. CASE Return
  <2>1. ReceiverSame /\ pc' = "idle" /\ UNCHANGED <<left, pause>>
    BY <1>2, Zenon DEF Return, ReceiverSame, isrVars, rxVars
  <2> QED BY <2>1, IdleKeeps
<1>3. CASE flush
  <2>1. ReceiverSame /\ UNCHANGED <<pc, left, pause>>
    BY <1>3, Zenon DEF flush, ReceiverSame, isrVars, rxVars, callVars
  <2> QED BY <2>1, IdleKeeps
<1>4. CASE overflow
  <2>1. ReceiverSame /\ UNCHANGED <<pc, left, pause>>
    BY <1>4, Zenon DEF overflow, ReceiverSame, isrVars, rxVars, callVars
  <2> QED BY <2>1, IdleKeeps
<1>5. CASE \E size \in 1 .. bufCapacity : read(size)
  <2>1. PICK size \in 1 .. bufCapacity : read(size)
    BY <1>5
  <2>2. CASE m_buffer # <<>>
    <3>1. ReceiverSame /\ UNCHANGED <<pc, left, pause>>
      BY <2>1, <2>2, Zenon DEF read, ReceiverSame, isrVars, rxVars, callVars
    <3> QED BY <3>1, IdleKeeps
  <2>3. CASE m_buffer = <<>>
    <3>1. Ask(size)
      BY <2>1, <2>3, Zenon DEF read
    <3> QED BY <3>1, AskKeeps
  <2> QED BY <2>2, <2>3
<1>6. CASE UNCHANGED vars
  <2>1. ReceiverSame /\ UNCHANGED <<pc, left, pause>>
    BY <1>6, Zenon DEF vars, ReceiverSame, isrVars, rxVars, callVars
  <2> QED BY <2>1, IdleKeeps
<1> QED BY <1>1, <1>2, <1>3, <1>4, <1>5, <1>6

-----------------------------------------------------------------------------
(* Switching. *)

\* What was said of the latest edge and the line stays when words are given up.
LEMMA LatestGivenUp ==
  ASSUME NEW e, NEW s, NEW pos, NEW words, NEW bad, NEW bad2, bad \subseteq bad2, LatestOK(e, s, pos, words, bad)
  PROVE  LatestOK(e, s, pos, words, bad2)
<1>1. e.of \notin bad2 => e.of \notin bad
  OBVIOUS
<1> QED BY <1>1, Zenon DEF LatestOK

\* The line stands still: no call moves it.
LineStands == UNCHANGED lineVars

\* So does its position.
LEMMA LineStandsIs ==
  ASSUME LineStands, LineInv
  PROVE  line' = line /\ word' = word /\ idle' = idle /\ sent' = sent /\ Pos' = Pos /\ LineInv'
<1>1. line' = line /\ word' = word /\ idle' = idle /\ sent' = sent
  BY DEF LineStands, lineVars
<1>2. Pos' = Pos
  BY <1>1 DEF Pos
<1> QED BY <1>1, <1>2, Zenon DEF LineInv

\* Between words the line is behind the last one.
LEMMA QuietLine ==
  ASSUME ReceiverTyped, LineInv
  PROVE  /\ idle # 0 => Pos = m_pduBits + idle /\ Pos >= Stop
         /\ sent = <<>> => idle # 0
         /\ idle \in Nat
<1>1. idle \in Nat
  BY DEF ReceiverTyped
<1>2. idle # 0 => word = <<>>
  BY DEF LineInv
<1>3. word = <<>> => Pos = m_pduBits + idle
  BY <1>1, Counts DEF Pos
<1>4. sent = <<>> => idle # 0
  BY <1>1 DEF LineInv
<1> QED BY <1>1, <1>2, <1>3, <1>4, Counts

\* enableRx(false): the word on the line is given up (SoftwareSerial.cpp 176-179).
LEMMA SwitchOff == ASSUME ReceiverInv, enableRx(FALSE) PROVE ReceiverInv'
<1>1. /\ pc = "idle" /\ pc' = pc /\ left' = left /\ pause' = pause
      /\ LineStands /\ m_rxEnabled' = FALSE /\ dirty' = TRUE
      /\ spoilt' = (IF idle = 0 THEN spoilt \cup {Len(sent)} ELSE spoilt)
      /\ m_rxCurBit' = m_rxCurBit /\ m_isrLastCycle' = m_isrLastCycle /\ since' = since
      /\ m_isrBuffer' = m_isrBuffer /\ m_rxCurByte' = m_rxCurByte /\ m_rxCurParity' = m_rxCurParity
      /\ arrived' = arrived
  BY DEF enableRx, LineStands, lineVars, callVars
<1>2. ReceiverTyped /\ LineInv /\ HistoryInv /\ OrderInv /\ PairInv /\ LatestInv /\ DecoderInv /\ CallInv
  BY Zenon DEF ReceiverInv
<1>3. line' = line /\ word' = word /\ idle' = idle /\ sent' = sent /\ Pos' = Pos /\ LineInv'
  BY <1>1, <1>2, LineStandsIs
<1>4. Latest' = Latest /\ (Pending' <=> Pending) /\ (Through' <=> Through)
      /\ \A i \in Nat : EdgeAt(i)' = EdgeAt(i)
  BY <1>1 DEF Latest, EdgeAt, Pending, Through
<1>5. Len(sent) \in Nat /\ Len(m_isrBuffer) \in Nat
      /\ idle \in Nat /\ (sent = <<>> => idle # 0) /\ (idle # 0 => Pos >= Stop) /\ (Len(sent) = 0 => sent = <<>>)
  <2>1. sent \in Seq(Word)
    BY <1>2 DEF ReceiverTyped
  <2>2. Len(sent) = 0 => sent = <<>>
    BY <2>1
  <2> QED BY <1>2, <2>2, EdgesTyped, QuietLine
<1>6. spoilt \subseteq spoilt' /\ spoilt' \subseteq spoilt \cup {Len(sent)} /\ spoilt' \subseteq 1 .. Len(sent)
      /\ (idle = 0 => Len(sent) \in spoilt')
  <2>1. spoilt \subseteq 1 .. Len(sent)
    BY <1>2 DEF ReceiverTyped
  <2>2. idle = 0 => Len(sent) \in 1 .. Len(sent)
    BY <1>5
  <2> QED BY <1>1, <2>1, <2>2
<1>7. More(sent, spoilt, sent', spoilt')
  BY <1>3, <1>5, <1>6 DEF More
<1>8. ReceiverTyped'
  <2>1. m_rxEnabled' \in BOOLEAN /\ dirty' \in BOOLEAN
    BY <1>1
  <2> QED BY <1>1, <1>2, <1>3, <1>6, <2>1, Zenon DEF ReceiverTyped
<1>9. HistoryInv'
  <2>1. since' > PollWithin => m_isrBuffer' = <<>> /\ ~Pending'
    BY <1>1, <1>2, <1>4, Zenon DEF HistoryInv
  <2>2. dirty' /\ (Len(sent') \notin spoilt' => Pos' >= Stop)
    BY <1>1, <1>3, <1>5, <1>6
  <2>3. \A k \in 1 .. Len(sent) :
       k \in spoilt' \cup arrived \/ \E i \in 0 .. Len(m_isrBuffer) : EdgeAt(i).of = k
    BY <1>2, <1>6 DEF HistoryInv
  <2>4. \A i \in 0 .. Len(m_isrBuffer) : EdgeAt(i)' = EdgeAt(i)
    BY <1>4, <1>5
  <2>5. Len(sent) \in arrived \ spoilt' => Pos >= Stop
    BY <1>2, <1>6 DEF HistoryInv
  <2>6. \A k \in 1 .. Len(sent') :
       k \in spoilt' \cup arrived' \/ \E i \in 0 .. Len(m_isrBuffer') : EdgeAt(i)'.of = k
    BY <1>1, <1>3, <2>3, <2>4
  <2> QED BY <1>1, <1>3, <2>1, <2>2, <2>5, <2>6 DEF HistoryInv
<1>10. OrderInv'
  <2>1. \A i \in 1 .. Len(m_isrBuffer) : EdgeOK(m_isrBuffer[i], sent', spoilt', arrived')
    <3> SUFFICES ASSUME NEW i \in 1 .. Len(m_isrBuffer) PROVE EdgeOK(m_isrBuffer[i], sent', spoilt', arrived')
      OBVIOUS
    <3>1. EdgeOK(m_isrBuffer[i], sent, spoilt, arrived)
      BY <1>2 DEF OrderInv
    <3>2. Like(m_isrBuffer[i], m_isrBuffer[i])
      BY DEF Like
    <3>3. m_isrBuffer[i].of \notin spoilt' => \A j \in arrived' \ arrived : j < m_isrBuffer[i].of
      BY <1>1
    <3> QED BY <1>7, <3>1, <3>2, <3>3, EdgeKeeps, Zenon
  <2>2. \A i \in 1 .. Len(m_isrBuffer) : m_isrBuffer[i].of \notin spoilt' => m_isrLastCycle.of <= m_isrBuffer[i].of
    BY <1>2, <1>6 DEF OrderInv
  <2>3. \A i, j \in 1 .. Len(m_isrBuffer) : i < j => m_isrBuffer[i].of <= m_isrBuffer[j].of
    BY <1>2 DEF OrderInv
  <2> QED BY <1>1, <2>1, <2>2, <2>3, Zenon DEF OrderInv
<1>11. PairInv'
  <2> SUFFICES ASSUME NEW i \in 1 .. Len(m_isrBuffer)
               PROVE  Pair(EdgeAt(i - 1)', EdgeAt(i)', i = 1 /\ Through', sent', spoilt')
    BY <1>1 DEF PairInv
  <2>1. PICK h \in 0 .. Len(m_isrBuffer) : h = i - 1
    BY <1>5
  <2>2. EdgeAt(h)' = EdgeAt(h) /\ EdgeAt(i)' = EdgeAt(i) /\ EdgeAt(i).of \in 1 .. Len(sent)
        /\ EdgeAt(h).of \in 0 .. Len(sent)
    BY <1>2, <1>4, <1>5, EdgesTyped
  <2>3. PICK e, e2, done : e = EdgeAt(h) /\ e2 = EdgeAt(i) /\ done = (i = 1 /\ Through)
    OBVIOUS
  <2>4. Pair(e, e2, done, sent, spoilt)
    BY <1>2, <2>1, <2>3 DEF PairInv
  <2>5. e.of \in 1 .. Len(sent) \/ (e.of = 0 /\ done /\ e.of < e2.of)
    <3> SUFFICES ASSUME e.of = 0 PROVE done /\ e.of < e2.of
      BY <1>5, <2>2, <2>3
    <3>1. h = 0 /\ i = 1
      BY <1>2, <1>5, <2>1, <2>3, EdgesTyped
    <3>2. e = m_isrLastCycle
      BY <2>3, <3>1 DEF EdgeAt
    <3>3. Through
      BY <1>2, <3>2 DEF DecoderInv
    <3>4. done
      BY <2>3, <3>1, <3>3
    <3>5. e.of < e2.of
      BY <1>5, <2>2, <2>3
    <3> QED BY <3>4, <3>5
  <2>6. e.of \in spoilt' /\ e.of \notin spoilt /\ e.of < e2.of => e2.of \in spoilt'
    BY <1>5, <1>6, <2>2, <2>3
  <2>7. Like(e, e) /\ Like(e2, e2)
    BY DEF Like
  <2>8. PairMoves(e, e2, done, sent, spoilt, e, e2, done, sent', spoilt')
    BY <1>7, <2>4, <2>5, <2>6, <2>7, Zenon DEF PairMoves
  <2>9. Pair(e, e2, done, sent', spoilt')
    BY <2>8, PairKeeps, Zenon
  <2>10. done = (i = 1 /\ Through')
    BY <1>4, <2>3
  <2> QED BY <2>1, <2>2, <2>3, <2>9, <2>10
<1>12. LatestInv'
  <2>1. CASE m_isrBuffer = <<>> /\ Through
    BY <1>1, <1>4, <2>1 DEF LatestInv
  <2>2. CASE LatestOK(Latest, since, Pos, sent, spoilt)
    <3>1. LatestOK(Latest, since, Pos, sent, spoilt')
      BY <1>6, <2>2, LatestGivenUp, Zenon
    <3> QED BY <1>1, <1>3, <1>4, <3>1 DEF LatestInv
  <2> QED BY <1>2, <2>1, <2>2 DEF LatestInv
<1>13. DecoderInv'
  <2> DEFINE e == m_isrLastCycle
  <2>1. e.of = 0 \/ e.at = Frame => Through' /\ e.at = Frame
    BY <1>2, <1>4 DEF DecoderInv
  <2>2. ASSUME e.of > 0, e.of \notin spoilt'
        PROVE  IF e.at = Frame
               THEN e.of \in arrived /\ \A j \in arrived : j <= e.of
               ELSE /\ EdgeOK(e, sent, spoilt', arrived)
                    /\ e.at = 0 => ~Pending'
                    /\ e.at > 0 => Has(sent[e.of], e.at, m_rxCurBit, m_rxCurByte, m_rxCurParity)
    <3>1. e.of \notin spoilt
      BY <1>6, <2>2
    <3>2. IF e.at = Frame
          THEN e.of \in arrived /\ \A j \in arrived : j <= e.of
          ELSE /\ EdgeOK(e, sent, spoilt, arrived)
               /\ e.at = 0 => ~Pending
               /\ e.at > 0 => Has(sent[e.of], e.at, m_rxCurBit, m_rxCurByte, m_rxCurParity)
      BY <1>2, <2>2, <3>1 DEF DecoderInv
    <3>3. EdgeOK(e, sent, spoilt, arrived) => EdgeOK(e, sent, spoilt', arrived)
      BY <3>1 DEF EdgeOK
    <3> QED BY <1>4, <3>2, <3>3
  <2> QED BY <1>1, <1>3, <2>1, <2>2, Zenon DEF DecoderInv
<1>14. CallInv'
  BY <1>1 DEF CallInv
<1> QED BY <1>3, <1>8, <1>9, <1>10, <1>11, <1>12, <1>13, <1>14, Zenon DEF ReceiverInv

\* enableRx(true): all that has not come out is given up (SoftwareSerial.cpp 166-174).
LEMMA SwitchOn == ASSUME ReceiverInv, enableRx(TRUE) PROVE ReceiverInv'
<1> DEFINE n == Len(m_isrBuffer)
           q == m_isrBuffer
<1>1. /\ pc = "idle" /\ pc' = pc /\ left' = left /\ pause' = pause
      /\ LineStands /\ m_rxEnabled' = TRUE /\ dirty' = TRUE
      /\ m_rxCurBit' = m_pduBits - 1 /\ m_isrLastCycle' = Edge(0, TRUE, Len(sent), Frame)
      /\ spoilt' = spoilt \cup ((1 .. Len(sent)) \ arrived)
      /\ since' = (IF m_isrBuffer = <<>> THEN 0 ELSE since)
      /\ m_isrBuffer' = m_isrBuffer /\ m_rxCurByte' = m_rxCurByte /\ m_rxCurParity' = m_rxCurParity
      /\ arrived' = arrived
  BY DEF enableRx, LineStands, lineVars, callVars
<1>2. ReceiverTyped /\ LineInv /\ HistoryInv /\ OrderInv /\ PairInv /\ LatestInv /\ DecoderInv /\ CallInv
  BY Zenon DEF ReceiverInv
<1>3. line' = line /\ word' = word /\ idle' = idle /\ sent' = sent /\ Pos' = Pos /\ LineInv'
  BY <1>1, <1>2, LineStandsIs
<1>4. n \in Nat /\ Len(sent) \in Nat /\ q \in Seq(EdgeType)
      /\ idle \in Nat /\ (sent = <<>> => idle # 0) /\ (idle # 0 => Pos >= Stop) /\ (Len(sent) = 0 => sent = <<>>)
  <2>1. sent \in Seq(Word) /\ q \in Seq(EdgeType)
    BY <1>2 DEF ReceiverTyped
  <2>2. Len(sent) = 0 => sent = <<>>
    BY <2>1
  <2> QED BY <1>2, <2>1, <2>2, EdgesTyped, QuietLine
<1>5. /\ m_isrLastCycle' \in EdgeType /\ m_isrLastCycle'.level = TRUE
      /\ m_isrLastCycle'.of = Len(sent) /\ m_isrLastCycle'.at = Frame
  <2>1. Frame \in Nat /\ 0 \in Int
    BY Counts
  <2>2. PICK level \in BOOLEAN : level = TRUE
    OBVIOUS
  <2>3. EdgeFields(Edge(0, level, Len(sent), Frame), 0, level, Len(sent), Frame)
    BY <1>4, <2>1, EdgeMade, Zenon
  <2>4. m_isrLastCycle' = Edge(0, level, Len(sent), Frame)
    BY <1>1, <2>2
  <2> QED BY <2>2, <2>3, <2>4, Zenon DEF EdgeFields
<1>6. Through' /\ ~Pending'
  <2>1. ~Pending'
    BY <1>1, Format DEF Pending
  <2> QED BY <1>5, <2>1 DEF Through
<1>7. /\ spoilt \subseteq spoilt' /\ spoilt' \subseteq 1 .. Len(sent) /\ arrived \subseteq 1 .. Len(sent)
      /\ \A k \in 1 .. Len(sent) : k \in spoilt' \cup arrived
  BY <1>1, <1>2 DEF ReceiverTyped
<1>8. \A i \in 1 .. n : q[i].of \in spoilt' /\ q[i].of \in 1 .. Len(sent) /\ EdgeOK(q[i], sent, spoilt, arrived)
  <2> SUFFICES ASSUME NEW i \in 1 .. n
               PROVE  q[i].of \in spoilt' /\ q[i].of \in 1 .. Len(sent) /\ EdgeOK(q[i], sent, spoilt, arrived)
    OBVIOUS
  <2>1. EdgeOK(q[i], sent, spoilt, arrived)
    BY <1>2 DEF OrderInv
  <2>2. q[i].of \in 1 .. Len(sent) /\ (q[i].of \notin spoilt => \A j \in arrived : j < q[i].of)
    BY <2>1 DEF EdgeOK
  <2>3. q[i].of \notin spoilt => q[i].of \notin arrived
    BY <2>2
  <2> QED BY <1>7, <2>1, <2>2, <2>3
<1>9. \A i \in 1 .. n : EdgeAt(i)' = q[i] /\ EdgeAt(i) = q[i]
  <2> SUFFICES ASSUME NEW i \in 1 .. n PROVE EdgeAt(i)' = q[i] /\ EdgeAt(i) = q[i]
    OBVIOUS
  <2>1. i # 0
    BY <1>4
  <2> QED BY <1>1, <2>1 DEF EdgeAt
<1>10. ReceiverTyped'
  <2>1. /\ m_rxEnabled' \in BOOLEAN /\ dirty' \in BOOLEAN
        /\ m_isrLastCycle'.of <= Len(sent') /\ m_isrLastCycle'.at \in 0 .. Stop \cup {Frame}
        /\ m_rxCurBit' \in -1 .. Stop - 2 \cup {m_pduBits - 1, m_pduBits}
    <3>1. m_isrLastCycle'.of <= Len(sent')
      BY <1>3, <1>4, <1>5
    <3>2. m_isrLastCycle'.at \in 0 .. Stop \cup {Frame} /\ m_rxCurBit' \in -1 .. Stop - 2 \cup {m_pduBits - 1, m_pduBits}
      BY <1>1, <1>5
    <3> QED BY <1>1, <3>1, <3>2
  <2>2. since' \in 0 .. BitSpan
    BY <1>1, <1>2, Counts DEF ReceiverTyped
  <2>3. spoilt' \subseteq 1 .. Len(sent') /\ arrived' \subseteq 1 .. Len(sent')
    BY <1>1, <1>3, <1>7
  <2> QED BY <1>1, <1>2, <1>3, <1>5, <2>1, <2>2, <2>3, Zenon DEF ReceiverTyped
<1>11. HistoryInv'
  <2>1. since' > PollWithin => m_isrBuffer' = <<>> /\ ~Pending'
    <3>1. CASE m_isrBuffer = <<>>
      BY <1>1, <1>6, <3>1
    <3>2. CASE m_isrBuffer # <<>>
      <4>1. since > PollWithin => m_isrBuffer = <<>>
        BY <1>2 DEF HistoryInv
      <4> QED BY <1>1, <3>2, <4>1
    <3> QED BY <3>1, <3>2
  <2>2. Len(sent) \in arrived \ spoilt' => Pos >= Stop
    BY <1>2, <1>7 DEF HistoryInv
  <2>3. Len(sent) \notin spoilt' => Pos >= Stop
    <3>1. CASE Len(sent) = 0
      BY <1>4, <3>1
    <3>2. CASE Len(sent) # 0
      <4>1. Len(sent) \in 1 .. Len(sent)
        BY <1>4, <3>2
      <4> QED BY <1>7, <2>2, <4>1
    <3> QED BY <3>1, <3>2
  <2> QED BY <1>1, <1>3, <1>7, <2>1, <2>2, <2>3 DEF HistoryInv
<1>12. OrderInv'
  <2>1. \A i \in 1 .. n : EdgeOK(q[i], sent, spoilt', arrived)
    BY <1>8 DEF EdgeOK
  <2>2. \A i, j \in 1 .. n : i < j => q[i].of <= q[j].of
    BY <1>2 DEF OrderInv
  <2> QED BY <1>1, <1>3, <1>8, <2>1, <2>2, Zenon DEF OrderInv
<1>13. PairInv'
  <2> SUFFICES ASSUME NEW i \in 1 .. n
               PROVE  Pair(EdgeAt(i - 1)', EdgeAt(i)', i = 1 /\ Through', sent', spoilt')
    BY <1>1 DEF PairInv
  <2>1. PICK h \in 0 .. n : h = i - 1
    BY <1>4
  <2>2. EdgeAt(i)'.of \in spoilt'
    BY <1>8, <1>9
  <2>3. CASE h = 0
    <3>1. PICK f, f2 : f = EdgeAt(h)' /\ f2 = EdgeAt(i)'
      OBVIOUS
    <3>2. f.of = Len(sent) /\ f2.of \in 1 .. Len(sent) /\ f2.of \in spoilt'
      BY <1>5, <1>8, <1>9, <2>2, <2>3, <3>1 DEF EdgeAt
    <3>3. PICK done : done = (i = 1 /\ Through')
      OBVIOUS
    <3>4. done
      <4>1. i = 1
        BY <1>4, <2>1, <2>3
      <4> QED BY <1>6, <3>3, <4>1, Zenon
    <3>5. f.of = f2.of => f.of \in spoilt'
      BY <3>2
    <3>6. Pair(f, f2, done, sent', spoilt')
      BY <3>2, <3>4, <3>5, Zenon DEF Pair
    <3> QED BY <2>1, <3>1, <3>3, <3>6
  <2>4. CASE h # 0
    <3>1. h \in 1 .. n
      BY <1>4, <2>1, <2>4
    <3>2. EdgeAt(h)'.of \in spoilt'
      BY <1>8, <1>9, <3>1
    <3>3. Pair(EdgeAt(h)', EdgeAt(i)', i = 1 /\ Through', sent', spoilt')
      BY <2>2, <3>2, Zenon DEF Pair
    <3> QED BY <2>1, <3>3
  <2> QED BY <2>3, <2>4
<1>14. LatestInv'
  <2>1. CASE m_isrBuffer = <<>>
    BY <1>1, <1>6, <2>1 DEF LatestInv
  <2>2. CASE m_isrBuffer # <<>>
    <3>1. n \in 1 .. n
      BY <1>4, <2>2
    <3>2. PICK m \in 1 .. n : m = n
      BY <3>1
    <3>3. Latest = q[m] /\ Latest' = q[m]
      BY <1>1, <1>9, <3>2 DEF Latest
    <3>4. LatestOK(Latest, since, Pos, sent, spoilt)
      BY <1>2, <2>2 DEF LatestInv
    <3>5. LatestOK(Latest, since, Pos, sent, spoilt')
      BY <1>7, <3>4, LatestGivenUp, Zenon
    <3> QED BY <1>1, <1>3, <2>2, <3>3, <3>5 DEF LatestInv
  <2> QED BY <2>1, <2>2
<1>15. DecoderInv'
  <2>1. ASSUME m_isrLastCycle'.of > 0, m_isrLastCycle'.of \notin spoilt'
        PROVE  m_isrLastCycle'.of \in arrived' /\ \A j \in arrived' : j <= m_isrLastCycle'.of
    <3>1. Len(sent) \in arrived
      BY <1>4, <1>5, <1>7, <2>1
    <3>2. \A j \in arrived : j <= Len(sent)
      BY <1>4, <1>7
    <3> QED BY <1>1, <1>5, <3>1, <3>2
  <2> QED BY <1>5, <1>6, <2>1, Zenon DEF DecoderInv
<1>16. CallInv'
  BY <1>1 DEF CallInv
<1> QED BY <1>3, <1>10, <1>11, <1>12, <1>13, <1>14, <1>15, <1>16, Zenon DEF ReceiverInv

\* enableRx() in both directions.
LEMMA SwitchKeeps == ASSUME ReceiverInv, \E on \in BOOLEAN : enableRx(on) PROVE ReceiverInv'
<1>1. PICK on \in BOOLEAN : enableRx(on)
  OBVIOUS
<1>2. CASE on = TRUE
  BY <1>1, <1>2, SwitchOn
<1>3. CASE on = FALSE
  BY <1>1, <1>3, SwitchOff
<1> QED BY <1>2, <1>3

-----------------------------------------------------------------------------
(* An edge is taken. *)

\* The decoder after an edge is taken.
TakenNow(e) == Taken(Between(m_isrLastCycle, e), m_rxCurBit, m_rxCurByte, m_rxCurParity, m_isrLastCycle.level)

\* What it does to the decoder.
DecoderStep(d, e) ==
  /\ m_isrLastCycle' = e
  /\ m_rxCurBit' = d.cur /\ m_rxCurByte' = d.byte /\ m_rxCurParity' = d.parity
  /\ arrived' = IF d.out = <<>> THEN arrived ELSE arrived \cup {m_isrLastCycle.of}

\* rxBits(isrCycle) as that step (SoftwareSerial.cpp 437-512).
LEMMA TakeEdgeIs ==
  ASSUME NEW e, NEW flagged, TakeEdge(e, flagged)
  PROVE  DecoderStep(TakenNow(e), e)
<1> DEFINE d == Decoded((m_isrLastCycle.age - e.age) % CycleSpan, m_isrLastCycle.level)
<1>1. d = TakenNow(e)
  BY DecodedTaken, Zenon DEF TakenNow, Between
<1>2. /\ m_isrLastCycle' = e
      /\ m_rxCurBit' = d.cur /\ m_rxCurByte' = d.byte /\ m_rxCurParity' = d.parity
      /\ IF d.out = <<>> THEN arrived' = arrived ELSE arrived' = arrived \cup {m_isrLastCycle.of}
  BY Zenon DEF TakeEdge, Store
<1> HIDE DEF d
<1> QED BY <1>1, <1>2, Zenon DEF DecoderStep

\* A word as it was sent.
SameAs(x, w) == x.byte = w.byte /\ (m_parityMode => x.parity = w.parity)

\* What comes out is the word the decoder was in, and comes in order.
Outcome(out) ==
  out # <<>> =>
    /\ m_isrLastCycle.of \in 1 .. Len(sent)
    /\ m_isrLastCycle.of \notin spoilt =>
         /\ \A j \in arrived : j < m_isrLastCycle.of
         /\ SameAs(out[1], sent[m_isrLastCycle.of])

\* The decoder after the first edge in the queue.
EdgeTaken(d) ==
  LET e == m_isrLastCycle
      f == m_isrBuffer[1]
  IN  /\ d.cur \in Reading \cup Waiting
      /\ d.byte \in 0 .. 2 ^ ByteBits - 1 /\ d.parity \in BOOLEAN
      /\ Outcome(d.out)
      /\ d.out # <<>> /\ e.of \notin spoilt => e.of < f.of
      /\ e.of > 0 /\ e.of \notin spoilt => e.of \in arrived \/ d.out # <<>> \/ f.of = e.of
      /\ f.of \notin spoilt /\ f.at = 0 => d.cur \notin Reading
      /\ f.of \notin spoilt /\ f.at > 0 => Has(sent[f.of], f.at, d.cur, d.byte, d.parity)

\* The facts of the decoder that all the cases use.
TakeFacts ==
  LET e == m_isrLastCycle
      f == m_isrBuffer[1]
  IN  /\ ReceiverTyped /\ DecoderInv /\ OrderInv
      /\ e \in EdgeType /\ e.level \in BOOLEAN /\ e.of \in 0 .. Len(sent) /\ Len(sent) \in Nat
      /\ e.at \in 0 .. Stop \cup {Frame}
      /\ m_rxCurBit \in Reading \cup Waiting
      /\ m_rxCurByte \in 0 .. 2 ^ ByteBits - 1 /\ m_rxCurParity \in BOOLEAN
      /\ \A k \in 1 .. Len(sent) : sent[k] \in Word
      /\ (e.of = 0 => Through)

\* They follow from the invariant.
LEMMA TakeFactsAre == ReceiverInv => TakeFacts
<1> SUFFICES ASSUME ReceiverInv PROVE TakeFacts
  OBVIOUS
<1>1. ReceiverTyped /\ DecoderInv /\ OrderInv
  BY Zenon DEF ReceiverInv
<1>2. m_isrLastCycle \in EdgeType /\ m_isrLastCycle.of \in 0 .. Len(sent) /\ Len(sent) \in Nat
  <2>1. EdgeAt(0) = m_isrLastCycle /\ 0 \in 0 .. Len(m_isrBuffer)
    BY <1>1, EdgesTyped
  <2> QED BY <1>1, <2>1, EdgesTyped
<1>3. m_isrLastCycle.level \in BOOLEAN
  BY <1>2, EdgeIs
<1>4. /\ m_isrLastCycle.at \in 0 .. Stop \cup {Frame}
      /\ m_rxCurByte \in 0 .. 2 ^ ByteBits - 1 /\ m_rxCurParity \in BOOLEAN
      /\ m_rxCurBit \in Reading \cup Waiting
  BY <1>1 DEF ReceiverTyped, Reading, Waiting
<1>5. \A k \in 1 .. Len(sent) : sent[k] \in Word
  <2>1. sent \in Seq(Word)
    BY <1>1 DEF ReceiverTyped
  <2> QED BY <2>1
<1>6. m_isrLastCycle.of = 0 => Through
  BY <1>1 DEF DecoderInv
<1> QED BY <1>1, <1>2, <1>3, <1>4, <1>5, <1>6 DEF TakeFacts

\* The fields after each of the cases.
LEMMA OutOfWordIs ==
  ASSUME NEW d, NEW w, OutOfWord(d, w), w.byte \in 0 .. 2 ^ m_dataBits - 1
  PROVE  d.cur = m_pduBits /\ d.byte = 0 /\ d.parity = FALSE /\ d.out # <<>> /\ SameAs(d.out[1], w)
<1>1. PICK p \in BOOLEAN :
        /\ d = Decoder(0, m_pduBits, 0, FALSE, <<[byte |-> w.byte, parity |-> p]>>)
        /\ m_parityMode => p = w.parity
  BY DEF OutOfWord
<1>2. PICK x : x = [byte |-> w.byte, parity |-> p]
  OBVIOUS
<1>3. x.byte = w.byte /\ x.parity = p
  BY <1>2
<1>4. PICK o : o = <<x>>
  OBVIOUS
<1>5. o # <<>> /\ o[1] = x
  BY <1>4
<1>6. d = Decoder(0, m_pduBits, 0, FALSE, o)
  BY <1>1, <1>2, <1>4
<1>7. d.cur = m_pduBits /\ d.byte = 0 /\ d.parity = FALSE /\ d.out = o
  BY <1>6 DEF Decoder
<1>8. SameAs(x, w)
  BY <1>1, <1>3 DEF SameAs
<1> QED BY <1>5, <1>7, <1>8

\* A decoder that is through with a word waits.
LEMMA DoneIs ==
  /\ m_pduBits \in Waiting /\ m_pduBits \notin Reading
  /\ \A c \in Waiting : c \notin Reading
  /\ 0 \in 0 .. 2 ^ ByteBits - 1
<1>1. 2 ^ ByteBits \in Nat \ {0}
  BY Powers, Format
<1> QED BY <1>1, Format, Counts DEF Waiting, Reading

\* The first edge in the queue and the one before it.
FirstEdge ==
  LET e == m_isrLastCycle
      f == m_isrBuffer[1]
  IN  /\ TakeFacts
      /\ f \in EdgeType /\ EdgeOK(f, sent, spoilt, arrived) /\ f.of \in 1 .. Len(sent) /\ f.at \in 0 .. Stop
      /\ f.of \notin spoilt => e.of <= f.of
      /\ Pair(e, f, Through, sent, spoilt)
      /\ Between(e, f) \in Nat

\* They follow from the invariant.
LEMMA FirstEdgeIs == ASSUME ReceiverInv, m_isrBuffer # <<>> PROVE FirstEdge
<1>1. ReceiverTyped /\ OrderInv /\ PairInv /\ TakeFacts
  BY TakeFactsAre, Zenon DEF ReceiverInv
<1>2. Len(m_isrBuffer) \in Nat /\ 1 \in 1 .. Len(m_isrBuffer)
  <2>1. m_isrBuffer \in Seq(EdgeType)
    BY <1>1 DEF ReceiverTyped
  <2> QED BY <2>1
<1>3. m_isrBuffer[1] \in EdgeType /\ EdgeAt(1) = m_isrBuffer[1] /\ EdgeAt(0) = m_isrLastCycle
  BY <1>1, <1>2 DEF ReceiverTyped, EdgeAt
<1>4. EdgeOK(m_isrBuffer[1], sent, spoilt, arrived) /\ (m_isrBuffer[1].of \notin spoilt => m_isrLastCycle.of <= m_isrBuffer[1].of)
  BY <1>1, <1>2, Zenon DEF OrderInv
<1>5. Pair(m_isrLastCycle, m_isrBuffer[1], Through, sent, spoilt)
  <2>1. Pair(EdgeAt(1 - 1), EdgeAt(1), 1 = 1 /\ Through, sent, spoilt)
    BY <1>1, <1>2 DEF PairInv
  <2>2. 1 - 1 = 0 /\ (1 = 1 /\ Through) = Through
    BY DEF Through
  <2> QED BY <1>3, <2>1, <2>2
<1>6. Between(m_isrLastCycle, m_isrBuffer[1]) \in Nat
  BY <1>1, <1>3, BetweenIs DEF TakeFacts
<1>7. m_isrBuffer[1].of \in 1 .. Len(sent) /\ m_isrBuffer[1].at \in 0 .. Stop
  BY <1>4 DEF EdgeOK
<1> QED BY <1>1, <1>3, <1>4, <1>5, <1>6, <1>7 DEF FirstEdge

\* Every edge in the queue finds the decoder where it belongs (SoftwareSerial.cpp 437-512).
LEMMA EdgeTakenIs == ASSUME FirstEdge PROVE EdgeTaken(TakenNow(m_isrBuffer[1]))
<1> DEFINE e == m_isrLastCycle
           f == m_isrBuffer[1]
<1>1. PICK b, c, y, t, level : /\ b = Between(e, f) /\ c = m_rxCurBit /\ y = m_rxCurByte /\ t = m_rxCurParity
                               /\ level = e.level
  OBVIOUS
<1>2. PICK d : d = TakenNow(f)
  OBVIOUS
<1>3. d = Taken(b, c, y, t, level)
  BY <1>1, <1>2, Zenon DEF TakenNow
<1>4. /\ b \in Nat /\ c \in Reading \cup Waiting /\ y \in 0 .. 2 ^ ByteBits - 1 /\ t \in BOOLEAN /\ level \in BOOLEAN
      /\ e.of \in 0 .. Len(sent) /\ f.of \in 1 .. Len(sent) /\ Len(sent) \in Nat /\ f.at \in 0 .. Stop
      /\ e.at \in 0 .. Stop \cup {Frame}
      /\ (e.of = 0 => Through) /\ ReceiverTyped /\ DecoderInv /\ OrderInv
      /\ f.of \notin spoilt => e.of <= f.of
      /\ \A k \in 1 .. Len(sent) : sent[k] \in Word
  BY <1>1, Zenon DEF FirstEdge, TakeFacts
<1>5. Pair(e, f, Through, sent, spoilt) /\ EdgeOK(f, sent, spoilt, arrived)
  BY Zenon DEF FirstEdge
<1>6. TakenTyped(d, c, level)
  BY <1>3, <1>4, TakenIsTyped, Zenon
<1>7. /\ d.cur \in Reading \cup Waiting
      /\ d.byte \in 0 .. 2 ^ ByteBits - 1 /\ d.parity \in BOOLEAN
      /\ d.out # <<>> => level /\ c \in Reading /\ d.cur = m_pduBits
  BY <1>6, Zenon DEF TakenTyped
<1>8. Through <=> level /\ c \notin Reading
  BY <1>1, PendingIs DEF Through
<1>9. d.out # <<>> => e.of \in 1 .. Len(sent)
  BY <1>4, <1>7, <1>8
<1>10. CASE Through
  <2>1. c \in Waiting /\ level
    BY <1>4, <1>8, <1>10
  <2>2. d = Decoder(0, c, y, t, <<>>)
    BY <1>3, <1>4, <2>1, TakenStays, Zenon
  <2>3. d.cur = c /\ d.out = <<>>
    BY <2>2 DEF Decoder
  <2>4. e.of > 0 /\ e.of \notin spoilt => e.of \in arrived /\ e.at = Frame
    BY <1>4, <1>10, ThroughIs
  <2>5. f.of \notin spoilt => f.at = 0
    <3> SUFFICES ASSUME f.of \notin spoilt PROVE f.at = 0
      OBVIOUS
    <3>1. e.of <= f.of
      BY <1>4
    <3>2. e.of # f.of
      <4> SUFFICES ASSUME e.of = f.of PROVE FALSE
        OBVIOUS
      <4>1. SameWord(e, f, sent[e.of])
        BY <1>5, Zenon DEF Pair
      <4>2. e.at < f.at /\ e.at = Frame
        BY <1>4, <2>4, <4>1 DEF SameWord
      <4> QED BY <1>4, <4>2, Format
    <3>3. e.of < f.of
      BY <1>4, <3>1, <3>2
    <3> QED BY <1>5, <3>3, Zenon DEF Pair
  <2>6. d.cur \notin Reading
    BY <1>8, <1>10, <2>3
  <2>7. EdgeTaken(d)
    <3>1. ~(f.of \notin spoilt /\ f.at > 0)
      BY <2>5
    <3> QED BY <1>7, <2>3, <2>4, <2>6, <3>1, Zenon DEF EdgeTaken, Outcome
  <2> QED BY <1>2, <2>7
<1>11. CASE ~Through /\ e.of \notin spoilt
  <2>1. e.of \in 1 .. Len(sent) /\ e.of > 0 /\ e.at # Frame /\ e.at \in 0 .. Stop /\ sent[e.of] \in Word
    <3>1. e.of # 0 /\ e.at # Frame
      BY <1>4, <1>11 DEF DecoderInv
    <3> QED BY <1>4, <3>1
  <2>2. /\ EdgeOK(e, sent, spoilt, arrived)
        /\ e.at = 0 => ~Pending
        /\ e.at > 0 => Has(sent[e.of], e.at, c, y, t)
    BY <1>1, <1>4, <1>11, <2>1, Zenon DEF DecoderInv
  <2>3. level = LevelAt(sent[e.of], e.at) /\ \A j \in arrived : j < e.of
    BY <1>1, <1>11, <2>2, Zenon DEF EdgeOK
  <2>4. e.of <= f.of
    BY <1>5, <1>11, Zenon DEF Pair
  <2>5. PICK w \in Word : w = sent[e.of]
    BY <2>1
  <2>6. PICK at \in 0 .. Stop : at = e.at
    BY <2>1
  <2>7. CASE e.of = f.of
    <3>1. SameWord(e, f, w)
      BY <1>5, <1>11, <2>5, <2>7, Zenon DEF Pair
    <3>2. at < f.at /\ b = f.at - at /\ Steady(w, at, f.at - 1, level)
      <4>1. e.at < f.at /\ Between(e, f) = f.at - e.at /\ Steady(w, e.at, f.at - 1, e.level)
        BY <3>1, Zenon DEF SameWord
      <4>2. at < f.at /\ b = f.at - at
        BY <1>1, <2>6, <4>1
      <4>3. Steady(w, at, f.at - 1, level)
        BY <1>1, <2>6, <4>1
      <4> QED BY <4>2, <4>3
    <3>3. b > 0 /\ at + b = f.at /\ at + b <= Stop /\ f.at - 1 = at + b - 1
      <4>1. PICK p \in 0 .. Stop : p = f.at
        BY <1>4
      <4>2. at < p /\ b = p - at /\ Stop \in Nat
        BY <3>2, <4>1, Counts
      <4>3. b > 0 /\ at + b = p /\ at + b <= Stop /\ p - 1 = at + b - 1
        BY <4>2
      <4> QED BY <4>1, <4>3
    <3>4. InWord(d, w, f.at)
      <4>1. CASE at = 0
        <5>1. c \in Waiting
          BY <1>1, <1>4, <2>2, <2>6, <4>1, PendingIs
        <5>2. level = FALSE
          BY <2>3, <2>5, <2>6, <4>1, LevelFirst
        <5>3. b <= Stop /\ f.at = b /\ Steady(w, 0, b - 1, FALSE)
          <6>1. f.at = b /\ f.at - 1 = b - 1
            BY <1>4, <3>3, <4>1
          <6>2. Steady(w, 0, b - 1, FALSE)
            BY <3>2, <4>1, <5>2, <6>1
          <6> QED BY <3>3, <4>1, <6>1, <6>2
        <5>4. InWord(Taken(b, c, y, t, FALSE), w, b)
          BY <1>4, <3>3, <5>1, <5>3, TakenFirst
        <5> QED BY <1>3, <5>2, <5>3, <5>4
      <4>2. CASE at # 0
        <5>1. at \in 1 .. Stop /\ at > 0
          BY <4>2, Counts
        <5>2. Has(w, at, c, y, t)
          BY <2>2, <2>5, <2>6, <5>1
        <5>3. Steady(w, at, at + b - 1, level)
          BY <3>2, <3>3
        <5>4. InWord(Taken(b, c, y, t, level), w, at + b)
          BY <1>4, <3>3, <5>1, <5>2, <5>3, TakenGoesOn
        <5> QED BY <1>3, <3>3, <5>4
      <4> QED BY <4>1, <4>2
    <3>5. d.out = <<>> /\ Has(w, f.at, d.cur, d.byte, d.parity)
      BY <3>4, Zenon DEF InWord
    <3>6. f.at > 0 /\ f.at # 0
      BY <1>4, <3>2
    <3>7. EdgeTaken(d)
      BY <1>7, <2>5, <2>7, <3>5, <3>6, Zenon DEF EdgeTaken, Outcome
    <3> QED BY <1>2, <3>7
  <2>8. CASE e.of # f.of
    <3>1. e.of < f.of
      BY <1>4, <2>4, <2>8
    <3>2. WordEnds(e, f, w)
      BY <1>5, <1>11, <2>5, <3>1, Zenon DEF Pair
    <3>3. level = TRUE /\ b >= Frame - at /\ Steady(w, at, Stop, TRUE)
      BY <1>1, <1>4, <2>6, <3>2 DEF WordEnds
    <3>4. at \in 1 .. Stop /\ at > 0
      <4>1. at # 0
        <5> SUFFICES ASSUME at = 0 PROVE FALSE
          OBVIOUS
        <5> QED BY <2>3, <2>5, <2>6, <3>3, LevelFirst
      <4> QED BY <4>1, Counts
    <3>5. Has(w, at, c, y, t)
      BY <2>2, <2>5, <2>6, <3>4
    <3>6. at + b > Stop
      BY <1>4, <3>3, <3>4, Format
    <3>7. OutOfWord(Taken(b, c, y, t, TRUE), w)
      BY <1>4, <3>3, <3>4, <3>5, <3>6, TakenEnds
    <3>8. OutOfWord(d, w)
      BY <1>3, <3>3, <3>7
    <3>9. d.cur = m_pduBits /\ d.out # <<>> /\ SameAs(d.out[1], w)
      BY <3>8, OutOfWordIs DEF Word
    <3>10. d.cur \notin Reading
      BY <3>9, DoneIs
    <3>11. ~(f.of \notin spoilt /\ f.at > 0)
      <4>1. f.of \notin spoilt => f.at = 0
        BY <1>5, <3>1, Zenon DEF Pair
      <4> QED BY <4>1
    <3>12. EdgeTaken(d)
      BY <1>7, <1>9, <2>1, <2>3, <2>5, <3>1, <3>9, <3>10, <3>11, Zenon DEF EdgeTaken, Outcome
    <3> QED BY <1>2, <3>12
  <2> QED BY <2>7, <2>8
<1>12. CASE ~Through /\ e.of \in spoilt
  <2>1. ASSUME f.of \notin spoilt PROVE f.at = 0 /\ d.cur \notin Reading
    <3>1. e.of < f.of
      <4>1. e.of # f.of
        BY <1>12, <2>1
      <4> QED BY <1>4, <2>1, <4>1
    <3>2. f.at = 0 /\ Beyond(e, f)
      BY <1>5, <1>12, <2>1, <3>1, Zenon DEF Pair
    <3>3. b >= Stop + (IF level THEN 0 ELSE 1)
      BY <1>1, <3>2 DEF Beyond
    <3>4. ~(level /\ c \in Waiting)
      BY <1>8, <1>12, DoneIs
    <3>5. d.cur = m_pduBits
      BY <1>3, <1>4, <3>3, <3>4, TakenOver
    <3> QED BY <3>2, <3>5, DoneIs
  <2>2. ~(f.of \notin spoilt /\ f.at > 0)
    BY <2>1
  <2>3. EdgeTaken(d)
    BY <1>7, <1>9, <1>12, <2>1, <2>2, Zenon DEF EdgeTaken, Outcome
  <2> QED BY <1>2, <2>3
<1> QED BY <1>10, <1>11, <1>12

\* for_each() takes an edge (SoftwareSerial.cpp 434).
LEMMA EachEdgeKeeps == ASSUME ReceiverInv, EachEdge PROVE ReceiverInv'
<1> DEFINE q == m_isrBuffer
           n == Len(m_isrBuffer)
           e == m_isrLastCycle
           f == m_isrBuffer[1]
<1>1. /\ pc = "each" /\ pc' = pc /\ left > 0 /\ left' = left - 1 /\ pause' = pause
      /\ TakeEdge(Head(q), m_overflow) /\ q' = Tail(q)
      /\ LineStands /\ m_rxEnabled' = m_rxEnabled /\ spoilt' = spoilt /\ dirty' = dirty /\ since' = since
  BY Zenon DEF EachEdge, LineStands, rxVars, lossVars
<1>2. ReceiverTyped /\ LineInv /\ HistoryInv /\ OrderInv /\ PairInv /\ LatestInv /\ DecoderInv /\ CallInv
  BY Zenon DEF ReceiverInv
<1>3. line' = line /\ word' = word /\ idle' = idle /\ sent' = sent /\ Pos' = Pos /\ LineInv'
  BY <1>1, <1>2, LineStandsIs
<1>4. q \in Seq(EdgeType) /\ n \in Nat /\ n > 0 /\ left \in 0 .. n /\ q # <<>> /\ pause \in Nat /\ Len(sent) \in Nat
  <2>1. q \in Seq(EdgeType) /\ left \in 0 .. n /\ pause \in Nat /\ sent \in Seq(Word)
    BY <1>2 DEF ReceiverTyped
  <2>2. n > 0
    BY <1>1, <2>1
  <2> QED BY <2>1, <2>2
<1>5. /\ Head(q) = f /\ q' \in Seq(EdgeType) /\ Len(q') = n - 1
      /\ \A i \in 1 .. n - 1 : q'[i] = q[i + 1]
  BY <1>1, <1>4
<1>6. FirstEdge
  BY <1>4, FirstEdgeIs
<1>7. PICK d : d = TakenNow(f)
  OBVIOUS
<1>8. EdgeTaken(d)
  BY <1>6, <1>7, EdgeTakenIs
<1>9. DecoderStep(d, f)
  <2>1. DecoderStep(TakenNow(Head(q)), Head(q))
    BY <1>1, TakeEdgeIs
  <2> QED BY <1>5, <1>7, <2>1
<1>10. /\ m_isrLastCycle' = f
       /\ m_rxCurBit' = d.cur /\ m_rxCurByte' = d.byte /\ m_rxCurParity' = d.parity
       /\ arrived' = IF d.out = <<>> THEN arrived ELSE arrived \cup {e.of}
  BY <1>9, Zenon DEF DecoderStep
<1>11. /\ d.cur \in Reading \cup Waiting
       /\ d.byte \in 0 .. 2 ^ ByteBits - 1 /\ d.parity \in BOOLEAN
       /\ d.out # <<>> /\ e.of \notin spoilt => e.of < f.of
       /\ e.of > 0 /\ e.of \notin spoilt => e.of \in arrived \/ d.out # <<>> \/ f.of = e.of
       /\ f.of \notin spoilt /\ f.at = 0 => d.cur \notin Reading
       /\ f.of \notin spoilt /\ f.at > 0 => Has(sent[f.of], f.at, d.cur, d.byte, d.parity)
  BY <1>8, Zenon DEF EdgeTaken
<1>12. d.out # <<>> => e.of \in 1 .. Len(sent) /\ (e.of \notin spoilt => \A j \in arrived : j < e.of)
  BY <1>8, Zenon DEF EdgeTaken, Outcome
<1>13. arrived \subseteq arrived' /\ arrived' \subseteq arrived \cup {e.of} /\ arrived' \subseteq 1 .. Len(sent)
       /\ (d.out # <<>> => e.of \in arrived') /\ (e.of \in arrived' => e.of \in arrived \/ d.out # <<>>)
       /\ (arrived' # arrived => d.out # <<>>)
  BY <1>2, <1>10, <1>12 DEF ReceiverTyped
<1>14. f \in EdgeType /\ EdgeOK(f, sent, spoilt, arrived) /\ f.of \in 1 .. Len(sent) /\ f.at \in 0 .. Stop
       /\ (f.of \notin spoilt => e.of <= f.of) /\ e.of \in 0 .. Len(sent)
  BY <1>6 DEF FirstEdge, TakeFacts
<1>15. \A i \in 0 .. n - 1 : EdgeAt(i)' = EdgeAt(i + 1)
  <2> SUFFICES ASSUME NEW i \in 0 .. n - 1 PROVE EdgeAt(i)' = EdgeAt(i + 1)
    OBVIOUS
  <2>1. CASE i = 0
    BY <1>10, <2>1 DEF EdgeAt
  <2>2. CASE i # 0
    <3>1. i \in 1 .. n - 1 /\ i + 1 # 0
      BY <1>4, <2>2
    <3> QED BY <1>5, <2>2, <3>1 DEF EdgeAt
  <2> QED BY <2>1, <2>2
<1>16. Latest' = Latest
  <2>1. PICK m \in 0 .. n - 1 : m = n - 1
    BY <1>4
  <2>2. Latest' = EdgeAt(m)'
    BY <1>5, <2>1 DEF Latest, EdgeAt
  <2>3. m + 1 = n
    BY <1>4, <2>1
  <2> QED BY <1>15, <2>2, <2>3 DEF Latest
<1>17. Pending' <=> d.cur \in Reading
  BY <1>10, Format DEF Pending, Reading
<1> HIDE DEF q, n, e, f
<1>20. ReceiverTyped'
  <2>1. d.cur \in -1 .. Stop - 2 \cup {m_pduBits - 1, m_pduBits}
    BY <1>11 DEF Reading, Waiting
  <2>2. f.of <= Len(sent) /\ f.at \in 0 .. Stop \cup {Frame} /\ left' \in 0 .. Len(q')
    BY <1>1, <1>4, <1>5, <1>14
  <2>3. q' \in Seq(EdgeType) /\ left' \in 0 .. Len(q') /\ pause' \in Nat
    BY <1>1, <1>4, <1>5, <2>2
  <2> QED BY <1>1, <1>2, <1>3, <1>10, <1>11, <1>13, <1>14, <2>1, <2>2, <2>3, Zenon DEF ReceiverTyped, q
<1>21. HistoryInv'
  <2>1. ~(since > PollWithin)
    BY <1>2, <1>4 DEF HistoryInv, q
  <2>2. /\ ~dirty => m_rxEnabled /\ Len(sent) \notin spoilt /\ Latest.of = Len(sent)
        /\ dirty /\ Len(sent) \notin spoilt => Pos >= Stop
    BY <1>2, Zenon DEF HistoryInv
  <2>3. \A k \in 1 .. Len(sent) :
       k \in spoilt \cup arrived' \/ \E i \in 0 .. Len(q') : EdgeAt(i)'.of = k
    <3> SUFFICES ASSUME NEW k \in 1 .. Len(sent), k \notin spoilt \cup arrived'
                 PROVE  \E i \in 0 .. n - 1 : EdgeAt(i)'.of = k
      BY <1>5
    <3>1. k \notin spoilt \cup arrived
      BY <1>13
    <3>2. PICK i \in 0 .. n : EdgeAt(i).of = k
      BY <1>2, <3>1 DEF HistoryInv, n
    <3>3. CASE i = 0
      <4>1. e.of = k
        BY <3>2, <3>3 DEF EdgeAt, e
      <4>2. f.of = k
        BY <1>11, <1>13, <3>1, <4>1
      <4>3. 0 \in 0 .. n - 1 /\ EdgeAt(0)' = f
        BY <1>4, <1>10 DEF EdgeAt
      <4> QED BY <4>2, <4>3
    <3>4. CASE i # 0
      <4>1. PICK h \in 0 .. n - 1 : i = h + 1
        <5>1. i - 1 \in 0 .. n - 1 /\ i = (i - 1) + 1
          BY <1>4, <3>4
        <5> QED BY <5>1
      <4> QED BY <1>15, <3>2, <4>1
    <3> QED BY <3>3, <3>4
  <2>4. Len(sent) \in arrived' \ spoilt => Pos >= Stop
    <3> SUFFICES ASSUME Len(sent) \in arrived', Len(sent) \notin spoilt PROVE Pos >= Stop
      OBVIOUS
    <3>1. Len(sent) \in arrived
      BY <1>4, <1>11, <1>13, <1>14
    <3> QED BY <1>2, <3>1 DEF HistoryInv
  <2> QED BY <1>1, <1>3, <1>16, <2>1, <2>2, <2>3, <2>4, Zenon DEF HistoryInv, q
<1>22. \A i \in 1 .. n : /\ q[i] \in EdgeType /\ q[i].of \in 1 .. Len(sent) /\ EdgeOK(q[i], sent, spoilt, arrived)
                         /\ f.of <= q[i].of /\ (q[i].of \notin spoilt => e.of <= q[i].of)
  <2> SUFFICES ASSUME NEW i \in 1 .. n
               PROVE  /\ q[i] \in EdgeType /\ q[i].of \in 1 .. Len(sent) /\ EdgeOK(q[i], sent, spoilt, arrived)
                      /\ f.of <= q[i].of /\ (q[i].of \notin spoilt => e.of <= q[i].of)
    OBVIOUS
  <2>1. q[i] \in EdgeType
    BY <1>4, ElementOfSeq DEF n, q
  <2>2. EdgeOK(q[i], sent, spoilt, arrived) /\ (q[i].of \notin spoilt => e.of <= q[i].of)
    BY <1>2, Zenon DEF OrderInv, n, q, e
  <2>3. f.of <= q[i].of
    <3>1. CASE i = 1
      BY <1>4, <1>14, <3>1 DEF f, q
    <3>2. CASE i # 1
      <4>1. 1 \in 1 .. n /\ 1 < i
        BY <1>4, <3>2
      <4> QED BY <1>2, <4>1 DEF OrderInv, f, n, q
    <3> QED BY <3>1, <3>2
  <2> QED BY <2>1, <2>2, <2>3 DEF EdgeOK
<1>23. \A g : EdgeOK(g, sent, spoilt, arrived) /\ f.of <= g.of /\ (g.of \notin spoilt => e.of <= g.of)
              => EdgeOK(g, sent, spoilt, arrived')
  <2> SUFFICES ASSUME NEW g, EdgeOK(g, sent, spoilt, arrived), f.of <= g.of, g.of \notin spoilt => e.of <= g.of
               PROVE  EdgeOK(g, sent, spoilt, arrived')
    OBVIOUS
  <2>1. g.of \in 1 .. Len(sent)
    BY DEF EdgeOK
  <2>2. ASSUME g.of \notin spoilt, NEW j \in arrived' PROVE j < g.of
    <3>1. CASE j \in arrived
      BY <2>2, <3>1 DEF EdgeOK
    <3>2. CASE j \notin arrived
      <4>1. j = e.of /\ d.out # <<>>
        BY <1>13, <2>2, <3>2
      <4>2. CASE e.of \notin spoilt
        BY <1>4, <1>11, <1>14, <2>1, <4>1, <4>2
      <4>3. CASE e.of \in spoilt
        <5>1. e.of # g.of
          BY <2>2, <4>3
        <5> QED BY <1>14, <2>1, <2>2, <4>1, <5>1, <1>4
      <4> QED BY <4>2, <4>3
    <3> QED BY <3>1, <3>2
  <2>3. g.at \in 0 .. Stop /\ (g.of \notin spoilt => g.level = LevelAt(sent[g.of], g.at))
    BY DEF EdgeOK
  <2> QED BY <2>1, <2>2, <2>3 DEF EdgeOK
<1>24. OrderInv'
  <2>1. \A i \in 1 .. n - 1 : /\ q'[i] = q[i + 1] /\ i + 1 \in 1 .. n
    BY <1>4, <1>5
  <2>2. \A i \in 1 .. n - 1 : EdgeOK(q'[i], sent, spoilt, arrived') /\ f.of <= q'[i].of
    BY <1>22, <1>23, <2>1
  <2>3. \A i, j \in 1 .. n - 1 : i < j => q'[i].of <= q'[j].of
    <3> SUFFICES ASSUME NEW i \in 1 .. n - 1, NEW j \in 1 .. n - 1, i < j PROVE q[i + 1].of <= q[j + 1].of
      BY <2>1
    <3>1. PICK a \in 1 .. n, b \in 1 .. n : a = i + 1 /\ b = j + 1
      BY <2>1
    <3>2. a < b
      BY <3>1
    <3> QED BY <1>2, <3>1, <3>2 DEF OrderInv, q, n
  <2>4. m_isrBuffer' = q' /\ Len(m_isrBuffer') = n - 1
    BY <1>5 DEF q
  <2> QED BY <1>1, <1>3, <1>10, <2>2, <2>3, <2>4 DEF OrderInv
<1>25. PairInv'
  <2> SUFFICES ASSUME NEW i \in 1 .. n - 1
               PROVE  Pair(EdgeAt(i - 1)', EdgeAt(i)', i = 1 /\ Through', sent', spoilt')
    BY <1>5 DEF PairInv, q
  <2>1. PICK h \in 0 .. n - 1 : h = i - 1 /\ h + 1 = i
    BY <1>4
  <2>2. EdgeAt(h)' = EdgeAt(i) /\ EdgeAt(i)' = EdgeAt(i + 1) /\ i + 1 \in 1 .. n /\ i \in 1 .. n
    BY <1>4, <1>15, <2>1
  <2>3. PICK g, g2, done : g = EdgeAt(i) /\ g2 = EdgeAt(i + 1) /\ done = (i = 1 /\ Through')
    OBVIOUS
  <2>4. Pair(g, g2, FALSE, sent, spoilt)
    <3>1. Pair(EdgeAt((i + 1) - 1), EdgeAt(i + 1), i + 1 = 1 /\ Through, sent, spoilt)
      BY <1>2, <2>2 DEF PairInv, n
    <3>2. (i + 1) - 1 = i /\ (i + 1 = 1 /\ Through) = FALSE
      BY <1>4
    <3> QED BY <2>3, <3>1, <3>2
  <2>5. Pair(g, g2, done, sent, spoilt)
    BY <2>4, Zenon DEF Pair
  <2> QED BY <1>1, <1>3, <2>1, <2>2, <2>3, <2>5
<1>26. LatestInv'
  <2>1. LatestOK(Latest, since, Pos, sent, spoilt)
    BY <1>2, <1>4 DEF LatestInv, q
  <2> QED BY <1>1, <1>3, <1>16, <2>1 DEF LatestInv
<1>27. DecoderInv'
  <2>1. f.of # 0 /\ f.at # Frame
    BY <1>14, Format
  <2>2. f.of > 0 /\ f.of \notin spoilt => EdgeOK(f, sent, spoilt, arrived')
    BY <1>14, <1>23
  <2>3. f.of \notin spoilt /\ f.at = 0 => ~Pending'
    BY <1>11, <1>17
  <2> QED BY <1>1, <1>3, <1>10, <1>11, <2>1, <2>2, <2>3, Zenon DEF DecoderInv
<1>28. CallInv'
  BY <1>1 DEF CallInv
<1> QED BY <1>3, <1>20, <1>21, <1>24, <1>25, <1>26, <1>27, <1>28, Zenon DEF ReceiverInv

-----------------------------------------------------------------------------
(* The stop bit that no edge has shown. *)

\* The edge that is made up.
Faux == Edge(m_isrLastCycle.age - (Stop - 1 - m_rxCurBit) * m_bitCycles, TRUE, m_isrLastCycle.of, Frame)

\* The counter has gone on far enough for it.
Detected(later) ==
  (m_isrLastCycle.age + later) % CycleSpan > (Stop - 1 - m_rxCurBit) * m_bitCycles

\* Its fields.
LEMMA FauxIs ==
  ASSUME ReceiverTyped
  PROVE  /\ Faux \in EdgeType /\ Faux.level = TRUE /\ Faux.of = m_isrLastCycle.of /\ Faux.at = Frame
         /\ Faux.age = (m_isrLastCycle.age - (Stop - 1 - m_rxCurBit) * m_bitCycles) % CycleSpan
<1>1. m_isrLastCycle \in EdgeType /\ m_rxCurBit \in Int
  BY Format DEF ReceiverTyped
<1>2. m_isrLastCycle.age \in Int /\ m_isrLastCycle.of \in Nat
  BY <1>1, EdgeIs
<1>3. m_isrLastCycle.age - (Stop - 1 - m_rxCurBit) * m_bitCycles \in Int /\ Frame \in Nat
  BY <1>1, <1>2, Format
<1>4. PICK a \in Int, level \in BOOLEAN :
        a = m_isrLastCycle.age - (Stop - 1 - m_rxCurBit) * m_bitCycles /\ level = TRUE
  BY <1>3
<1>5. EdgeFields(Edge(a, level, m_isrLastCycle.of, Frame), a, level, m_isrLastCycle.of, Frame)
  BY <1>2, <1>3, EdgeMade, Zenon
<1>6. Faux = Edge(a, level, m_isrLastCycle.of, Frame)
  BY <1>4 DEF Faux
<1> QED BY <1>4, <1>5, <1>6, Zenon DEF EdgeFields

\* It is as many bits behind the last edge as the decoder still lacks.
LEMMA FauxBits ==
  ASSUME Paced, ReceiverTyped, m_rxCurBit \in Reading
  PROVE  /\ Between(m_isrLastCycle, Faux) = Stop - 1 - m_rxCurBit
         /\ Stop - 1 - m_rxCurBit \in 1 .. Stop
<1>1. PICK g \in 1 .. Stop : g = Stop - 1 - m_rxCurBit
  <2>1. Stop - 1 - m_rxCurBit \in 1 .. Stop
    BY Format DEF Reading
  <2> QED BY <2>1
<1>2. g \in Nat /\ g < BitSpan
  BY Counts
<1>3. PICK C \in Nat \ {0}, bc \in Nat \ {0} : C = CycleSpan /\ bc = m_bitCycles
  BY Format
<1>4. PICK p \in Nat : p = g * m_bitCycles /\ p < C
  <2>1. 0 \in 0 .. m_bitCycles - 1
    BY Format
  <2>2. g * m_bitCycles \in Nat /\ g * m_bitCycles + 0 \in 0 .. CycleSpan - 1
    BY <1>2, <2>1, AgeFits
  <2> QED BY <1>3, <2>2
<1>5. PICK a \in 0 .. C - 1 : a = m_isrLastCycle.age
  <2>1. m_isrLastCycle \in EdgeType
    BY DEF ReceiverTyped
  <2> QED BY <1>3, <2>1, EdgeIs
<1>6. Faux.age = (a - p) % C
  BY <1>1, <1>3, <1>4, <1>5, FauxIs
<1>7. (a - ((a - p) % C)) % C = p
  <2>1. p \in 0 .. C - 1
    BY <1>4
  <2>2. PICK r \in 0 .. C - 1 : r = (a - p) % C /\ r = IF p <= a THEN a - p ELSE a - p + C
    <3>1. (a - p) % C = IF p <= a THEN a - p ELSE a - p + C
      BY <2>1, Wrapped
    <3>2. (a - p) % C \in 0 .. C - 1
      BY <2>1, <3>1
    <3> QED BY <3>1, <3>2
  <2>3. (a - r) % C = IF r <= a THEN a - r ELSE a - r + C
    BY Wrapped
  <2>4. (a - r) % C = p
    BY <2>1, <2>2, <2>3
  <2> QED BY <2>2, <2>4
<1>8. Between(m_isrLastCycle, Faux) = Bits(p)
  BY <1>3, <1>5, <1>6, <1>7 DEF Between
<1>9. Bits(p) = g
  <2>1. 0 \in -Latency .. Latency
    BY Format
  <2>2. PICK z \in -Latency .. Latency : z = 0
    BY <2>1
  <2>3. g * m_bitCycles + z >= 0
    BY <1>4, <2>2
  <2>4. Bits(g * m_bitCycles + z) = g
    BY <1>2, <2>3, BitsAre
  <2>5. g * m_bitCycles + z = p
    BY <1>4, <2>2
  <2> QED BY <2>4, <2>5
<1> QED BY <1>1, <1>8, <1>9

\* When the counter has gone on far enough, so has the line.
LEMMA DetectedAge ==
  ASSUME Paced, ReceiverTyped, m_rxCurBit \in Reading, NEW later \in 0 .. m_bitCycles - 1 - Latency,
         NEW s \in Nat, s < BitSpan, Aged(m_isrLastCycle, s)
  PROVE  Detected(later) => s >= Stop - 1 - m_rxCurBit
<1> SUFFICES ASSUME Detected(later) PROVE s >= Stop - 1 - m_rxCurBit
  OBVIOUS
<1>1. PICK g \in 1 .. Stop : g = Stop - 1 - m_rxCurBit
  BY FauxBits
<1>2. PICK bc \in Nat \ {0}, L \in Nat : bc = m_bitCycles /\ L = Latency /\ L < bc
  BY Format
<1>3. s * bc \in Nat /\ m_isrLastCycle.age \in s * bc .. s * bc + L /\ g \in Nat /\ g * bc \in Nat
  BY <1>1, <1>2, Format DEF Aged
<1>4. PICK x \in Nat : m_isrLastCycle.age + later = x /\ x <= s * bc + (bc - 1)
  <2>1. m_isrLastCycle.age + later \in Nat /\ m_isrLastCycle.age + later <= s * bc + (bc - 1)
    BY <1>2, <1>3
  <2> QED BY <2>1
<1>5. x % CycleSpan = x
  <2>1. bc - 1 \in 0 .. m_bitCycles - 1
    BY <1>2
  <2>2. s * m_bitCycles + (bc - 1) \in 0 .. CycleSpan - 1 /\ CycleSpan \in Nat \ {0}
    BY <2>1, AgeFits, Format
  <2>3. x \in 0 .. CycleSpan - 1
    BY <1>2, <1>3, <1>4, <2>2
  <2> QED BY <2>2, <2>3
<1>6. g * bc < s * bc + bc
  BY <1>1, <1>2, <1>3, <1>4, <1>5 DEF Detected
<1>7. g < s + 1
  <2> SUFFICES ASSUME s + 1 <= g PROVE FALSE
    BY <1>3
  <2>1. (s + 1) * bc <= g * bc
    BY <1>2, <1>3
  <2>2. (s + 1) * bc = s * bc + bc
    BY <1>2
  <2> QED BY <1>2, <1>3, <1>6, <2>1, <2>2
<1> QED BY <1>1, <1>3, <1>7

\* And when it has not, the line has not.
LEMMA NotDetectedAge ==
  ASSUME Paced, ReceiverTyped, m_rxCurBit \in Reading, NEW later \in 0 .. m_bitCycles - 1 - Latency,
         NEW s \in Nat, s < BitSpan, Aged(m_isrLastCycle, s), ~Detected(later)
  PROVE  s <= Stop - 1 - m_rxCurBit
<1>1. PICK g \in 1 .. Stop : g = Stop - 1 - m_rxCurBit
  BY FauxBits
<1>2. PICK bc \in Nat \ {0}, L \in Nat : bc = m_bitCycles /\ L = Latency /\ L < bc
  BY Format
<1>3. s * bc \in Nat /\ m_isrLastCycle.age \in s * bc .. s * bc + L /\ g \in Nat /\ g * bc \in Nat
  BY <1>1, <1>2, Format DEF Aged
<1>4. PICK x \in Nat : m_isrLastCycle.age + later = x /\ x <= s * bc + (bc - 1) /\ x >= s * bc
  <2>1. /\ m_isrLastCycle.age + later \in Nat /\ m_isrLastCycle.age + later <= s * bc + (bc - 1)
        /\ m_isrLastCycle.age + later >= s * bc
    BY <1>2, <1>3
  <2> QED BY <2>1
<1>5. x % CycleSpan = x
  <2>1. bc - 1 \in 0 .. m_bitCycles - 1
    BY <1>2
  <2>2. s * m_bitCycles + (bc - 1) \in 0 .. CycleSpan - 1 /\ CycleSpan \in Nat \ {0}
    BY <2>1, AgeFits, Format
  <2>3. x \in 0 .. CycleSpan - 1
    BY <1>2, <1>3, <1>4, <2>2
  <2> QED BY <2>2, <2>3
<1>6. s * bc <= g * bc
  BY <1>1, <1>2, <1>3, <1>4, <1>5 DEF Detected
<1>7. s <= g
  <2> SUFFICES ASSUME g + 1 <= s PROVE FALSE
    BY <1>3
  <2>1. (g + 1) * bc <= s * bc
    BY <1>2, <1>3
  <2>2. (g + 1) * bc = g * bc + bc
    BY <1>2, <1>3
  <2> QED BY <1>2, <1>3, <1>6, <2>1, <2>2
<1> QED BY <1>1, <1>7

\* The decoder after the stop bit that no edge has shown.
FauxTaken(d) ==
  LET e == m_isrLastCycle IN
  /\ e.of \in 1 .. Len(sent)
  /\ d.cur = m_pduBits
  /\ d.byte \in 0 .. 2 ^ ByteBits - 1 /\ d.parity \in BOOLEAN
  /\ Outcome(d.out)
  /\ e.of \notin spoilt =>
       /\ d.out # <<>>
       /\ e.of = Len(sent) => Pos >= Stop
       /\ m_isrBuffer # <<>> => e.of < m_isrBuffer[1].of

\* The decoder is in a word that can be expected.
InKnownWord ==
  LET e == m_isrLastCycle IN
  /\ e.of \in 1 .. Len(sent) /\ e.of \notin spoilt
  /\ e.at \in 1 .. Stop
  /\ EdgeOK(e, sent, spoilt, arrived)
  /\ Has(sent[e.of], e.at, m_rxCurBit, m_rxCurByte, m_rxCurParity)

\* A decoder in a word that is not spoilt has the bits of that word.
LEMMA InKnownWordIs ==
  ASSUME TakeFacts, Pending, m_isrLastCycle.of \notin spoilt
  PROVE  InKnownWord
<1> DEFINE e == m_isrLastCycle
<1>1. /\ e.of \in 0 .. Len(sent) /\ Len(sent) \in Nat /\ e.at \in 0 .. Stop \cup {Frame}
      /\ DecoderInv /\ (e.of = 0 => Through)
  BY Zenon DEF TakeFacts
<1>2. ~Through
  BY DEF Through
<1>3. e.of \in 1 .. Len(sent) /\ e.of > 0
  BY <1>1, <1>2
<1>4. e.at # Frame
  BY <1>1, <1>2, Zenon DEF DecoderInv
<1>5. /\ EdgeOK(e, sent, spoilt, arrived)
      /\ e.at = 0 => ~Pending
      /\ e.at > 0 => Has(sent[e.of], e.at, m_rxCurBit, m_rxCurByte, m_rxCurParity)
  BY <1>1, <1>3, <1>4, Zenon DEF DecoderInv
<1>6. e.at # 0
  BY <1>5
<1>7. e.at \in 1 .. Stop /\ e.at > 0
  BY <1>1, <1>4, <1>6, Counts
<1> QED BY <1>3, <1>5, <1>7, Zenon DEF InKnownWord

\* The word is over as far as the line is concerned, and its last edge is the latest one.
LEMMA KnownWordOver ==
  ASSUME Paced, ReceiverInv, InKnownWord, Pending, pc = "asked", left = 0,
         NEW later \in 0 .. m_bitCycles - 1 - Latency, Detected(later)
  PROVE  /\ m_isrLastCycle.level
         /\ Steady(sent[m_isrLastCycle.of], m_isrLastCycle.at, Stop, TRUE)
         /\ m_isrLastCycle.of = Len(sent) => Pos >= Stop
         /\ m_isrBuffer # <<>> => m_isrLastCycle.of < m_isrBuffer[1].of
<1> DEFINE e == m_isrLastCycle
           f == m_isrBuffer[1]
           w == sent[m_isrLastCycle.of]
<1>1. ReceiverTyped /\ LatestInv /\ CallInv /\ TakeFacts
  BY TakeFactsAre, Zenon DEF ReceiverInv
<1>2. /\ e.of \in 1 .. Len(sent) /\ e.of \notin spoilt /\ e.at \in 1 .. Stop
      /\ Has(sent[e.of], e.at, m_rxCurBit, m_rxCurByte, m_rxCurParity)
  BY Zenon DEF InKnownWord
<1>3. m_rxCurBit \in Reading /\ m_rxCurBit = e.at - 2
  BY <1>2, HasReads
<1>4. Len(sent) \in Nat /\ e.level \in BOOLEAN /\ e.at \in Nat /\ Stop \in Nat
  BY <1>1, <1>2, Counts DEF TakeFacts
<1>5. CASE m_isrBuffer = <<>>
  <2>1. Latest = e
    BY <1>5 DEF Latest, EdgeAt
  <2>2. LatestOK(e, since, Pos, sent, spoilt)
    BY <1>1, <2>1 DEF LatestInv, Through
  <2>3. CASE e.of < Len(sent)
    <3>1. /\ e.level
          /\ Steady(w, e.at, Stop, TRUE)
      BY <1>2, <2>2, <2>3, Zenon DEF LatestOK
    <3>2. e.of # Len(sent)
      BY <1>2, <1>4, <2>3
    <3> QED BY <1>5, <3>1, <3>2
  <2>4. CASE ~(e.of < Len(sent))
    <3>1. e.of = Len(sent)
      BY <1>2, <1>4, <2>4
    <3>2. /\ since < BitSpan => Aged(e, since)
          /\ Pos >= e.at + since
          /\ Steady(w, e.at, Pos, e.level)
      BY <1>2, <2>2, <3>1, Zenon DEF LatestOK
    <3>3. since \in 0 .. BitSpan /\ Pos \in Nat
      <4>1. LineTyped
        BY <1>1 DEF ReceiverTyped, LineTyped
      <4> QED BY <1>1, <4>1, PosIs DEF ReceiverTyped
    <3>4. Pos >= Stop
      <4>1. CASE since < BitSpan
        <5>1. since \in Nat
          BY <3>3, Counts
        <5>2. since >= Stop - 1 - m_rxCurBit
          BY <1>1, <1>3, <3>2, <4>1, <5>1, DetectedAge
        <5> QED BY <1>3, <1>4, <3>2, <3>3, <5>1, <5>2
      <4>2. CASE ~(since < BitSpan)
        <5>1. since >= Stop /\ since \in Nat
          BY <3>3, <4>2, Counts
        <5> QED BY <1>4, <3>2, <3>3, <5>1
      <4> QED BY <4>1, <4>2
    <3>5. e.level = TRUE
      <4>1. Stop \in e.at .. Pos /\ Stop \in Int /\ Stop >= Stop
        BY <1>2, <1>4, <3>3, <3>4
      <4>2. LevelAt(w, Stop) = e.level
        BY <3>2, <4>1, Zenon DEF Steady
      <4>3. LevelAt(w, Stop) = TRUE
        BY <4>1, LevelBehind
      <4> QED BY <4>2, <4>3
    <3>6. Steady(w, e.at, Stop, TRUE)
      <4> SUFFICES ASSUME NEW i \in e.at .. Stop PROVE LevelAt(w, i) = TRUE
        BY DEF Steady
      <4>1. i \in e.at .. Pos
        BY <1>4, <3>3, <3>4
      <4>2. LevelAt(w, i) = e.level
        BY <3>2, <4>1, Zenon DEF Steady
      <4> QED BY <3>5, <4>2
    <3> QED BY <1>5, <3>4, <3>5, <3>6
  <2> QED BY <2>3, <2>4
<1>6. CASE m_isrBuffer # <<>>
  <2>1. e.of = f.of => Aged(e, f.at - e.at)
    BY <1>1, <1>2, <1>6, Zenon DEF CallInv
  <2>2. FirstEdge
    BY <1>6, FirstEdgeIs
  <2>3. Pair(e, f, Through, sent, spoilt) /\ f.of \in 1 .. Len(sent) /\ f.at \in 0 .. Stop
    BY <2>2, Zenon DEF FirstEdge
  <2>4. ~Through
    BY DEF Through
  <2>5. e.of <= f.of
    BY <1>2, <2>3, <2>4, Zenon DEF Pair
  <2>6. e.of # f.of
    <3> SUFFICES ASSUME e.of = f.of PROVE FALSE
      OBVIOUS
    <3>1. e.at < f.at
      BY <1>2, <2>3, <2>4, Zenon DEF Pair, SameWord
    <3>2. PICK s \in Nat : s = f.at - e.at /\ s < BitSpan
      <4>1. f.at - e.at \in Nat /\ f.at - e.at <= Stop
        BY <1>2, <1>4, <2>3, <3>1
      <4>2. f.at - e.at < BitSpan
        BY <4>1, Counts
      <4> QED BY <4>1, <4>2
    <3>3. s >= Stop - 1 - m_rxCurBit
      BY <1>1, <1>3, <2>1, <3>2, DetectedAge
    <3> QED BY <1>2, <1>3, <1>4, <2>3, <3>2, <3>3
  <2>7. e.of < f.of
    BY <1>2, <1>4, <2>3, <2>5, <2>6
  <2>8. WordEnds(e, f, w)
    BY <1>2, <2>3, <2>4, <2>7, Zenon DEF Pair
  <2>9. e.level /\ Steady(w, e.at, Stop, TRUE)
    BY <2>8, Zenon DEF WordEnds
  <2>10. e.of # Len(sent)
    BY <1>4, <2>3, <2>7
  <2> QED BY <2>7, <2>9, <2>10
<1> QED BY <1>5, <1>6

\* The stop bit that is made up ends the word it is made up for (SoftwareSerial.cpp 424-434).
LEMMA FauxTakenIs ==
  ASSUME Paced, ReceiverInv, Pending, pc = "asked", left = 0,
         NEW later \in 0 .. m_bitCycles - 1 - Latency, Detected(later)
  PROVE  FauxTaken(TakenNow(Faux))
<1> DEFINE e == m_isrLastCycle
<1>1. TakeFacts /\ ReceiverTyped
  BY TakeFactsAre, Zenon DEF ReceiverInv
<1>2. m_rxCurBit \in Reading /\ ~Through
  BY PendingIs DEF Through
<1>3. PICK b, c, y, t, level : /\ b = Between(e, Faux) /\ c = m_rxCurBit /\ y = m_rxCurByte /\ t = m_rxCurParity
                               /\ level = e.level
  OBVIOUS
<1>4. PICK d : d = TakenNow(Faux)
  OBVIOUS
<1>5. d = Taken(b, c, y, t, level)
  BY <1>3, <1>4, Zenon DEF TakenNow
<1>6. /\ c \in Reading /\ y \in 0 .. 2 ^ ByteBits - 1 /\ t \in BOOLEAN /\ level \in BOOLEAN
      /\ e.of \in 0 .. Len(sent) /\ Len(sent) \in Nat /\ (e.of = 0 => Through)
      /\ \A k \in 1 .. Len(sent) : sent[k] \in Word
  BY <1>1, <1>2, <1>3, Zenon DEF TakeFacts
<1>7. b = Stop - 1 - c /\ b \in 1 .. Stop /\ b \in Nat /\ c + b > Stop - 2
  <2>1. b = Stop - 1 - c /\ b \in 1 .. Stop
    BY <1>1, <1>2, <1>3, FauxBits
  <2>2. c \in Int /\ Stop \in Nat
    BY <1>6, Counts DEF Reading
  <2> QED BY <2>1, <2>2
<1>8. TakenTyped(d, c, level)
  <2>1. c \in Reading \cup Waiting
    BY <1>6
  <2> QED BY <1>5, <1>6, <1>7, <2>1, TakenIsTyped, Zenon
<1>9. d.cur = m_pduBits
  <2>1. ~(level /\ c \in Waiting)
    BY <1>6, DoneIs
  <2> QED BY <1>5, <1>6, <1>7, <2>1, TakenOver
<1>10. d.byte \in 0 .. 2 ^ ByteBits - 1 /\ d.parity \in BOOLEAN
  BY <1>8, Zenon DEF TakenTyped
<1>11. e.of \in 1 .. Len(sent)
  BY <1>2, <1>6
<1>12. CASE e.of \in spoilt
  <2>1. FauxTaken(d)
    BY <1>9, <1>10, <1>11, <1>12, Zenon DEF FauxTaken, Outcome
  <2> QED BY <1>4, <2>1
<1>13. CASE e.of \notin spoilt
  <2>1. InKnownWord
    BY <1>1, <1>13, InKnownWordIs
  <2>2. /\ e.at \in 1 .. Stop /\ EdgeOK(e, sent, spoilt, arrived)
        /\ Has(sent[e.of], e.at, c, y, t)
    BY <1>3, <2>1, Zenon DEF InKnownWord
  <2>3. /\ e.level
        /\ Steady(sent[e.of], e.at, Stop, TRUE)
        /\ e.of = Len(sent) => Pos >= Stop
        /\ m_isrBuffer # <<>> => e.of < m_isrBuffer[1].of
    BY <2>1, KnownWordOver
  <2>4. PICK w \in Word : w = sent[e.of]
    BY <1>6, <1>11
  <2>5. PICK at \in 1 .. Stop : at = e.at
    BY <2>2
  <2>6. c = at - 2
    BY <2>2, <2>5, HasReads
  <2>7. at + b > Stop /\ level = TRUE
    BY <1>3, <1>6, <1>7, <2>3, <2>6, Counts
  <2>8. Has(w, at, c, y, t) /\ Steady(w, at, Stop, TRUE)
    BY <2>2, <2>3, <2>4, <2>5
  <2>9. OutOfWord(Taken(b, c, y, t, TRUE), w)
    BY <1>6, <1>7, <2>7, <2>8, TakenEnds
  <2>10. OutOfWord(d, w)
    BY <1>5, <2>7, <2>9
  <2>11. d.out # <<>> /\ SameAs(d.out[1], w)
    BY <2>10, OutOfWordIs DEF Word
  <2>12. \A j \in arrived : j < e.of
    BY <1>13, <2>2, Zenon DEF EdgeOK
  <2>13. Outcome(d.out)
    BY <1>11, <2>4, <2>11, <2>12, Zenon DEF Outcome
  <2>14. FauxTaken(d)
    BY <1>9, <1>10, <1>11, <2>3, <2>11, <2>13, Zenon DEF FauxTaken
  <2> QED BY <1>4, <2>14
<1> QED BY <1>12, <1>13

\* The stop bit is made up.
Fires(later) == left = 0 /\ Pending /\ Detected(later)

\* FauxStopBit in the two cases.
LEMMA FauxStopBitIs ==
  ASSUME NEW later, FauxStopBit(later), m_rxCurBit \in Int
  PROVE  /\ Fires(later) => TakeEdge(Faux, m_overflow \/ m_isrOverflow)
         /\ ~Fires(later) => UNCHANGED <<decoderVars, m_buffer, parityVars, arrived, owing>>
<1>1. m_pduBits - m_stopBits - m_rxCurBit = Stop - 1 - m_rxCurBit
  BY Format
<1>2. PICK det : det = (m_pduBits - m_stopBits - m_rxCurBit) * m_bitCycles
  OBVIOUS
<1>3. det = (Stop - 1 - m_rxCurBit) * m_bitCycles
  BY <1>1, <1>2
<1>4. IF left = 0 /\ Pending /\ (m_isrLastCycle.age + later) % CycleSpan > det
      THEN TakeEdge(Edge(m_isrLastCycle.age - det, TRUE, m_isrLastCycle.of, Frame), m_overflow \/ m_isrOverflow)
      ELSE UNCHANGED <<decoderVars, m_buffer, parityVars, arrived, owing>>
  BY <1>2, Zenon DEF FauxStopBit
<1>5. Fires(later) <=> left = 0 /\ Pending /\ (m_isrLastCycle.age + later) % CycleSpan > det
  BY <1>3 DEF Fires, Detected
<1>6. Faux = Edge(m_isrLastCycle.age - det, TRUE, m_isrLastCycle.of, Frame)
  BY <1>3 DEF Faux
<1> QED BY <1>4, <1>5, <1>6, Zenon

\* The made up stop bit, if it comes.
CheckStep(later) ==
  /\ pc = "asked" /\ pc' = "each" /\ left' = Len(m_isrBuffer) /\ pause' = 0
  /\ later \in 0 .. m_bitCycles - 1 - Latency
  /\ FauxStopBit(later)
  /\ LineStands /\ m_rxEnabled' = m_rxEnabled /\ spoilt' = spoilt /\ dirty' = dirty /\ since' = since
  /\ m_isrBuffer' = m_isrBuffer

\* A check as that step.
LEMMA CheckIs == ASSUME Check PROVE \E later \in 0 .. m_bitCycles - 1 - Latency : CheckStep(later)
<1>1. PICK later \in 0 .. m_bitCycles - 1 - Latency : FauxStopBit(later)
  BY Zenon DEF Check
<1>2. CheckStep(later)
  BY <1>1, Zenon DEF Check, CheckStep, LineStands, rxVars, lossVars
<1> QED BY <1>2

\* A check that makes a stop bit up (SoftwareSerial.cpp 424-434).
LEMMA CheckFires ==
  ASSUME Paced, ReceiverInv, NEW later, CheckStep(later), Fires(later)
  PROVE  ReceiverInv'
<1> DEFINE q == m_isrBuffer
           n == Len(m_isrBuffer)
           e == m_isrLastCycle
           f == m_isrBuffer[1]
<1>1. /\ pc = "asked" /\ pc' = "each" /\ left' = n /\ pause' = 0
      /\ later \in 0 .. m_bitCycles - 1 - Latency
      /\ LineStands /\ m_rxEnabled' = m_rxEnabled /\ spoilt' = spoilt /\ dirty' = dirty /\ since' = since
      /\ q' = q
      /\ left = 0 /\ Pending /\ Detected(later)
  BY Zenon DEF CheckStep, Fires
<1>2. ReceiverTyped /\ LineInv /\ HistoryInv /\ OrderInv /\ PairInv /\ LatestInv /\ DecoderInv /\ CallInv
  BY Zenon DEF ReceiverInv
<1>3. line' = line /\ word' = word /\ idle' = idle /\ sent' = sent /\ Pos' = Pos /\ LineInv'
  BY <1>1, <1>2, LineStandsIs
<1>4. q \in Seq(EdgeType) /\ n \in Nat /\ Len(sent) \in Nat /\ (n = 0 => q = <<>>)
  <2>1. q \in Seq(EdgeType) /\ sent \in Seq(Word)
    BY <1>2 DEF ReceiverTyped
  <2> QED BY <2>1
<1>5. PICK d : d = TakenNow(Faux)
  OBVIOUS
<1>6. FauxTaken(d)
  BY <1>1, <1>5, FauxTakenIs
<1>7. DecoderStep(d, Faux)
  <2>1. m_rxCurBit \in Int
    BY <1>2, Format DEF ReceiverTyped
  <2>2. FauxStopBit(later)
    BY DEF CheckStep
  <2>3. TakeEdge(Faux, m_overflow \/ m_isrOverflow)
    BY <2>1, <2>2, FauxStopBitIs
  <2> QED BY <1>5, <2>3, TakeEdgeIs
<1>8. /\ m_isrLastCycle' = Faux
      /\ m_rxCurBit' = d.cur /\ m_rxCurByte' = d.byte /\ m_rxCurParity' = d.parity
      /\ arrived' = IF d.out = <<>> THEN arrived ELSE arrived \cup {e.of}
  BY <1>7, Zenon DEF DecoderStep
<1>9. /\ e.of \in 1 .. Len(sent)
      /\ d.cur = m_pduBits
      /\ d.byte \in 0 .. 2 ^ ByteBits - 1 /\ d.parity \in BOOLEAN
      /\ e.of \notin spoilt =>
           /\ d.out # <<>>
           /\ e.of = Len(sent) => Pos >= Stop
           /\ q # <<>> => e.of < f.of
  BY <1>6, Zenon DEF FauxTaken
<1>10. e.of \notin spoilt => \A j \in arrived : j < e.of
  BY <1>6, Zenon DEF FauxTaken, Outcome
<1>11. arrived \subseteq arrived' /\ arrived' \subseteq arrived \cup {e.of} /\ arrived' \subseteq 1 .. Len(sent)
       /\ (d.out # <<>> => e.of \in arrived')
  BY <1>2, <1>8, <1>9 DEF ReceiverTyped
<1>12. Faux \in EdgeType /\ Faux.level = TRUE /\ Faux.of = e.of /\ Faux.at = Frame
  BY <1>2, FauxIs
<1>13. Through' /\ ~Pending'
  <2>1. ~Pending'
    BY <1>8, <1>9, Format DEF Pending
  <2> QED BY <1>8, <1>12, <2>1 DEF Through
<1>14. \A i \in 1 .. n : EdgeAt(i)' = EdgeAt(i) /\ EdgeAt(i) = q[i]
  <2> SUFFICES ASSUME NEW i \in 1 .. n PROVE EdgeAt(i)' = EdgeAt(i) /\ EdgeAt(i) = q[i]
    OBVIOUS
  <2>1. i # 0
    BY <1>4
  <2> QED BY <1>1, <2>1 DEF EdgeAt
<1>15. EdgeAt(0)' = Faux /\ EdgeAt(0) = e
  BY <1>8 DEF EdgeAt
<1> HIDE DEF q, n, e, f
<1>16. Latest'.of = Latest.of /\ (n > 0 => Latest' = Latest)
  <2>1. CASE n = 0
    <3>1. Latest = e /\ Latest' = Faux
      BY <1>1, <1>8, <2>1 DEF Latest, EdgeAt, n, q, e
    <3> QED BY <1>4, <1>12, <2>1, <3>1
  <2>2. CASE n # 0
    <3>1. PICK m \in 1 .. n : m = n
      BY <1>4, <2>2
    <3>2. Latest' = EdgeAt(m)' /\ Latest = EdgeAt(m)
      BY <1>1, <3>1 DEF Latest, EdgeAt, n, q
    <3> QED BY <1>14, <3>2
  <2> QED BY <2>1, <2>2
<1>20. ReceiverTyped'
  <2>1. d.cur \in -1 .. Stop - 2 \cup {m_pduBits - 1, m_pduBits}
    BY <1>9
  <2>2. e.of <= Len(sent) /\ left' \in 0 .. Len(q') /\ pause' \in Nat
    BY <1>1, <1>4, <1>9 DEF n, q
  <2>3. Faux.of <= Len(sent) /\ Faux.at \in 0 .. Stop \cup {Frame}
    BY <1>12, <2>2
  <2> QED BY <1>1, <1>2, <1>3, <1>8, <1>9, <1>11, <1>12, <2>1, <2>2, <2>3, Zenon DEF ReceiverTyped, q
<1>21. HistoryInv'
  <2>1. since > PollWithin => q = <<>>
    BY <1>2 DEF HistoryInv, q
  <2>2. /\ ~dirty => m_rxEnabled /\ Len(sent) \notin spoilt /\ Latest.of = Len(sent)
        /\ dirty /\ Len(sent) \notin spoilt => Pos >= Stop
    BY <1>2, Zenon DEF HistoryInv
  <2>3. \A k \in 1 .. Len(sent) :
       k \in spoilt \cup arrived' \/ \E i \in 0 .. n : EdgeAt(i)'.of = k
    <3> SUFFICES ASSUME NEW k \in 1 .. Len(sent), k \notin spoilt \cup arrived'
                 PROVE  \E i \in 0 .. n : EdgeAt(i)'.of = k
      OBVIOUS
    <3>1. k \notin spoilt \cup arrived
      BY <1>11
    <3>2. PICK i \in 0 .. n : EdgeAt(i).of = k
      BY <1>2, <3>1 DEF HistoryInv, n
    <3>3. CASE i = 0
      BY <1>12, <1>15, <3>2, <3>3
    <3>4. CASE i # 0
      <4>1. i \in 1 .. n
        BY <1>4, <3>4
      <4> QED BY <1>14, <3>2, <4>1
    <3> QED BY <3>3, <3>4
  <2>4. Len(sent) \in arrived' \ spoilt => Pos >= Stop
    <3> SUFFICES ASSUME Len(sent) \in arrived', Len(sent) \notin spoilt PROVE Pos >= Stop
      OBVIOUS
    <3>1. CASE Len(sent) \in arrived
      BY <1>2, <3>1 DEF HistoryInv
    <3>2. CASE Len(sent) \notin arrived
      <4>1. e.of = Len(sent)
        BY <1>11, <3>2
      <4> QED BY <1>9, <4>1
    <3> QED BY <3>1, <3>2
  <2>5. m_isrBuffer' = m_isrBuffer /\ q = m_isrBuffer /\ n = Len(m_isrBuffer)
    BY <1>1 DEF q, n
  <2> QED BY <1>1, <1>3, <1>13, <1>16, <2>1, <2>2, <2>3, <2>4, <2>5, Zenon DEF HistoryInv
<1>22. OrderInv'
  <2>1. \A i \in 1 .. n : EdgeOK(q[i], sent, spoilt, arrived') /\ (q[i].of \notin spoilt => Faux.of <= q[i].of)
    <3> SUFFICES ASSUME NEW i \in 1 .. n
                 PROVE  EdgeOK(q[i], sent, spoilt, arrived') /\ (q[i].of \notin spoilt => Faux.of <= q[i].of)
      OBVIOUS
    <3>1. EdgeOK(q[i], sent, spoilt, arrived) /\ (q[i].of \notin spoilt => e.of <= q[i].of)
      BY <1>2, Zenon DEF OrderInv, q, n, e
    <3>2. q[i].of \in 1 .. Len(sent)
      BY <3>1 DEF EdgeOK
    <3>3. f.of <= q[i].of /\ f.of \in 1 .. Len(sent)
      <4>1. f.of \in 1 .. Len(sent) /\ 1 \in 1 .. n
        <5>1. 1 \in 1 .. n /\ f = q[1]
          BY <1>4 DEF f, q
        <5>2. EdgeOK(q[1], sent, spoilt, arrived)
          BY <1>2, <5>1, Zenon DEF OrderInv, q, n
        <5> QED BY <5>1, <5>2 DEF EdgeOK
      <4>2. CASE i = 1
        BY <1>4, <3>2, <4>2 DEF f, q
      <4>3. CASE i # 1
        <5>1. 1 < i
          BY <1>4, <4>3
        <5> QED BY <1>2, <4>1, <5>1 DEF OrderInv, f, n, q
      <4> QED BY <4>1, <4>2, <4>3
    <3>4. ASSUME q[i].of \notin spoilt, NEW j \in arrived' PROVE j < q[i].of
      <4>1. CASE j \in arrived
        BY <3>1, <3>4, <4>1 DEF EdgeOK
      <4>2. CASE j \notin arrived
        <5>1. j = e.of
          BY <1>11, <3>4, <4>2
        <5>2. CASE e.of \in spoilt
          <6>1. e.of # q[i].of
            BY <3>4, <5>2
          <6> QED BY <1>4, <1>9, <3>1, <3>2, <3>4, <5>1, <6>1
        <5>3. CASE e.of \notin spoilt
          <6>1. q # <<>>
            BY <1>4 DEF n, q
          <6>2. e.of < f.of
            BY <1>9, <5>3, <6>1
          <6> QED BY <1>4, <1>9, <3>2, <3>3, <5>1, <6>2
        <5> QED BY <5>2, <5>3
      <4> QED BY <4>1, <4>2
    <3>5. q[i].at \in 0 .. Stop /\ (q[i].of \notin spoilt => q[i].level = LevelAt(sent[q[i].of], q[i].at))
      BY <3>1 DEF EdgeOK
    <3> QED BY <1>12, <3>1, <3>2, <3>4, <3>5 DEF EdgeOK
  <2>2. \A i, j \in 1 .. n : i < j => q[i].of <= q[j].of
    BY <1>2 DEF OrderInv, q, n
  <2> QED BY <1>1, <1>3, <1>8, <2>1, <2>2, Zenon DEF OrderInv, q, n
<1>23. PairInv'
  <2> SUFFICES ASSUME NEW i \in 1 .. n
               PROVE  Pair(EdgeAt(i - 1)', EdgeAt(i)', i = 1 /\ Through', sent', spoilt')
    BY <1>1 DEF PairInv, q, n
  <2>1. PICK h \in 0 .. n : h = i - 1
    BY <1>4
  <2>2. EdgeAt(i)' = EdgeAt(i) /\ EdgeAt(i) = q[i]
    BY <1>14
  <2>3. PICK done : done = (i = 1 /\ Through')
    OBVIOUS
  <2>4. CASE h = 0
    <3>1. i = 1 /\ done
      <4>1. i = 1
        BY <1>4, <2>1, <2>4
      <4> QED BY <1>13, <2>3, <4>1, Zenon
    <3>2. f = EdgeAt(i)
      BY <2>2, <3>1 DEF f, q
    <3>3. Pair(e, f, 1 = 1 /\ Through, sent, spoilt)
      <4>1. Pair(EdgeAt(h), EdgeAt(i), i = 1 /\ Through, sent, spoilt)
        BY <1>2, <2>1 DEF PairInv, n
      <4> QED BY <1>15, <2>4, <3>1, <3>2, <4>1
    <3>4. e.of < f.of /\ f.of \notin spoilt => f.at = 0
      BY <3>3, Zenon DEF Pair
    <3>5. e.of \notin spoilt => e.of # f.of
      <4>1. q # <<>>
        BY <1>4 DEF n, q
      <4>2. f.of \in Nat
        <5>1. EdgeOK(q[i], sent, spoilt, arrived)
          BY <1>2, Zenon DEF OrderInv, q, n
        <5> QED BY <2>2, <3>2, <5>1 DEF EdgeOK
      <4> QED BY <1>4, <1>9, <4>1, <4>2
    <3>6. Pair(Faux, f, done, sent, spoilt)
      BY <1>12, <3>1, <3>4, <3>5, Zenon DEF Pair
    <3> QED BY <1>1, <1>3, <1>15, <2>1, <2>2, <2>3, <2>4, <3>2, <3>6
  <2>5. CASE h # 0
    <3>1. h \in 1 .. n /\ i # 1
      BY <1>4, <2>1, <2>5
    <3>2. EdgeAt(h)' = EdgeAt(h)
      BY <1>14, <3>1
    <3>3. Pair(EdgeAt(h), EdgeAt(i), i = 1 /\ Through, sent, spoilt)
      BY <1>2, <2>1 DEF PairInv, n
    <3>4. (i = 1 /\ Through) = (i = 1 /\ Through')
      BY <3>1
    <3> QED BY <1>1, <1>3, <2>1, <2>2, <3>2, <3>3, <3>4
  <2> QED BY <2>4, <2>5
<1>24. LatestInv'
  <2>1. CASE q = <<>>
    BY <1>1, <1>13, <2>1 DEF LatestInv, q
  <2>2. CASE q # <<>>
    <3>1. LatestOK(Latest, since, Pos, sent, spoilt)
      BY <1>2, <2>2 DEF LatestInv, q
    <3>2. n > 0
      BY <1>4, <2>2
    <3> QED BY <1>1, <1>3, <1>16, <3>1, <3>2 DEF LatestInv
  <2> QED BY <2>1, <2>2
<1>25. DecoderInv'
  <2>1. e.of \notin spoilt => e.of \in arrived' /\ \A j \in arrived' : j <= e.of
    <3> SUFFICES ASSUME e.of \notin spoilt PROVE e.of \in arrived' /\ \A j \in arrived' : j <= e.of
      OBVIOUS
    <3>1. e.of \in arrived'
      BY <1>9, <1>11
    <3>2. \A j \in arrived' : j <= e.of
      <4> SUFFICES ASSUME NEW j \in arrived' PROVE j <= e.of
        OBVIOUS
      <4>1. j \in 1 .. Len(sent) /\ (j \in arrived \/ j = e.of)
        BY <1>11
      <4>2. j \in arrived => j < e.of
        BY <1>10
      <4> QED BY <1>4, <1>9, <4>1, <4>2
    <3> QED BY <3>1, <3>2
  <2> QED BY <1>1, <1>8, <1>12, <1>13, <2>1, Zenon DEF DecoderInv
<1>26. CallInv'
  BY <1>1 DEF CallInv
<1> QED BY <1>3, <1>20, <1>21, <1>22, <1>23, <1>24, <1>25, <1>26, Zenon DEF ReceiverInv

\* rxBits() up to its for_each() (SoftwareSerial.cpp 409-432).
LEMMA CheckKeeps == ASSUME Paced, ReceiverInv, Check PROVE ReceiverInv'
<1>1. PICK later \in 0 .. m_bitCycles - 1 - Latency : CheckStep(later)
  BY CheckIs
<1>2. CASE Fires(later)
  BY <1>1, <1>2, CheckFires
<1>3. CASE ~Fires(later)
  <2>1. m_rxCurBit \in Int /\ m_isrBuffer \in Seq(EdgeType)
    BY Format DEF ReceiverInv, ReceiverTyped
  <2>2. UNCHANGED <<decoderVars, m_buffer, parityVars, arrived, owing>>
    BY <1>1, <1>3, <2>1, FauxStopBitIs DEF CheckStep
  <2>3. ReceiverSame
    BY <1>1, <2>2, Zenon DEF CheckStep, ReceiverSame, LineStands, lossVars
  <2>4. pc' = "each" /\ left' \in 0 .. Len(m_isrBuffer) /\ pause' \in Nat
    BY <1>1, <2>1 DEF CheckStep
  <2>5. CallInv'
    BY <2>4 DEF CallInv
  <2> QED BY <2>3, <2>4, <2>5, SameReceiver
<1> QED BY <1>2, <1>3

-----------------------------------------------------------------------------
(* The receiver, from begin() on. *)

\* begin() finds a quiet line and no word.
LEMMA ReceiverInit == Init => ReceiverInv
<1> SUFFICES ASSUME Init PROVE ReceiverInv
  OBVIOUS
<1>1. /\ line = TRUE /\ word = <<>> /\ idle = Frame /\ sent = <<>>
      /\ m_rxEnabled = TRUE /\ m_isrBuffer = <<>>
      /\ m_isrLastCycle = Edge(0, TRUE, 0, Frame)
      /\ m_rxCurBit = m_pduBits - 1 /\ m_rxCurByte = 0 /\ m_rxCurParity = FALSE
      /\ pc = "idle" /\ left = 0 /\ pause = 0
      /\ spoilt = {} /\ dirty = FALSE /\ since = 0 /\ arrived = {}
  BY Zenon DEF Init
<1>2. /\ Frame \in Nat /\ Frame > 0 /\ m_pduBits \in Nat /\ BitSpan \in Nat /\ PollWithin \in Nat
  BY Format, Counts
<1>3. m_isrLastCycle \in EdgeType /\ m_isrLastCycle.level = TRUE /\ m_isrLastCycle.of = 0 /\ m_isrLastCycle.at = Frame
  <2>0. 0 \in Int /\ TRUE \in BOOLEAN /\ 0 \in Nat
    OBVIOUS
  <2>1. PICK a \in Int, level \in BOOLEAN, k \in Nat : a = 0 /\ level = TRUE /\ k = 0
    BY <2>0, Zenon
  <2>2. EdgeFields(Edge(a, level, k, Frame), a, level, k, Frame)
    BY <1>2, EdgeMade, Zenon
  <2>3. m_isrLastCycle = Edge(a, level, k, Frame)
    BY <1>1, <2>1
  <2> QED BY <2>1, <2>2, <2>3, Zenon DEF EdgeFields
<1>4. Len(m_isrBuffer) = 0 /\ Len(sent) = 0 /\ Len(word) = 0
  BY <1>1
<1>5. Latest.of = 0
  BY <1>3, <1>4 DEF Latest, EdgeAt
<1>6. Through /\ ~Pending
  <2>1. ~Pending
    BY <1>1, Format DEF Pending
  <2> QED BY <1>3, <2>1 DEF Through
<1>7. ReceiverTyped
  <2>1. 0 \in 0 .. 2 ^ ByteBits - 1
    BY DoneIs
  <2>2. word \in Seq(BOOLEAN) /\ sent \in Seq(Word) /\ m_isrBuffer \in Seq(EdgeType)
    BY <1>1
  <2>3. /\ m_isrLastCycle.of <= Len(sent) /\ m_isrLastCycle.at \in 0 .. Stop \cup {Frame}
        /\ Len(word) <= m_pduBits /\ idle \in Nat /\ line \in BOOLEAN
    <3>1. m_isrLastCycle.of <= Len(sent) /\ m_isrLastCycle.at \in 0 .. Stop \cup {Frame}
      BY <1>3, <1>4
    <3>2. Len(word) <= m_pduBits
      BY <1>2, <1>4
    <3> QED BY <1>1, <1>2, <3>1, <3>2
  <2>4. m_rxCurBit \in -1 .. Stop - 2 \cup {m_pduBits - 1, m_pduBits}
    BY <1>1
  <2>5. /\ left \in 0 .. Len(m_isrBuffer) /\ pause \in Nat /\ since \in 0 .. BitSpan
        /\ spoilt \subseteq 1 .. Len(sent) /\ arrived \subseteq 1 .. Len(sent)
    BY <1>1, <1>2, <1>4
  <2>6. m_rxEnabled \in BOOLEAN /\ dirty \in BOOLEAN /\ m_rxCurParity \in BOOLEAN /\ pc \in {"idle", "asked", "each"}
    BY <1>1
  <2>7. m_rxCurByte \in 0 .. 2 ^ ByteBits - 1
    BY <1>1, <2>1
  <2> QED BY <1>3, <2>2, <2>3, <2>4, <2>5, <2>6, <2>7, Zenon DEF ReceiverTyped
<1>8. LineInv
  BY <1>1, <1>2 DEF LineInv
<1>9. HistoryInv
  BY <1>1, <1>2, <1>4, <1>5 DEF HistoryInv
<1>10. OrderInv /\ PairInv
  BY <1>4 DEF OrderInv, PairInv
<1>11. LatestInv /\ DecoderInv /\ CallInv
  <2>1. LatestInv
    BY <1>1, <1>6 DEF LatestInv
  <2>2. DecoderInv
    BY <1>3, <1>6 DEF DecoderInv
  <2>3. CallInv
    BY <1>1 DEF CallInv
  <2> QED BY <2>1, <2>2, <2>3
<1> QED BY <1>7, <1>8, <1>9, <1>10, <1>11 DEF ReceiverInv

\* Every step keeps it.
LEMMA ReceiverNext == Paced /\ ReceiverInv /\ [Next]_vars => ReceiverInv'
<1> SUFFICES ASSUME Paced, ReceiverInv, [Next]_vars PROVE ReceiverInv'
  OBVIOUS
<1>1. CASE BitTime
  BY <1>1, BitTimeKeeps
<1>2. CASE available \/ Return \/ flush \/ overflow \/ (\E size \in 1 .. bufCapacity : read(size)) \/ UNCHANGED vars
  BY <1>2, ByteCallsKeep
<1>3. CASE Check
  BY <1>3, CheckKeeps
<1>4. CASE EachEdge
  BY <1>4, EachEdgeKeeps
<1>5. CASE \E on \in BOOLEAN : enableRx(on)
  BY <1>5, SwitchKeeps
<1> QED BY <1>1, <1>2, <1>3, <1>4, <1>5, Zenon DEF Next

\* Words that are neither spoilt nor decoded have an edge that waits.
LEMMA NothingMissing == ReceiverInv => NoneMissing
<1> SUFFICES ASSUME ReceiverInv, m_isrBuffer = <<>>, ~Pending, m_isrLastCycle.level,
                    NEW k \in 1 .. Len(sent), k \notin spoilt \cup arrived
             PROVE  FALSE
  BY DEF NoneMissing
<1>1. ReceiverTyped /\ HistoryInv /\ OrderInv /\ DecoderInv
  BY Zenon DEF ReceiverInv
<1>2. PICK i \in 0 .. Len(m_isrBuffer) : EdgeAt(i).of = k
  BY <1>1 DEF HistoryInv
<1>3. EdgeAt(i) = m_isrLastCycle
  <2>1. i = 0
    BY <1>2
  <2> QED BY <2>1 DEF EdgeAt
<1>4. Through
  BY DEF Through
<1>5. m_isrLastCycle.of > 0 /\ m_isrLastCycle.of \notin spoilt => m_isrLastCycle.of \in arrived
  BY <1>1, <1>4, ThroughIs
<1> QED BY <1>2, <1>3, <1>5

\* The word under way ends on a line that is quiet for long enough.
LEMMA WordEnded ==
  ASSUME Paced, ReceiverInv, Check, left = 0, idle > (IF dirty THEN Frame ELSE 1)
  PROVE  ~Pending'
<1> DEFINE e == m_isrLastCycle
<1>1. PICK later \in 0 .. m_bitCycles - 1 - Latency : CheckStep(later)
  BY CheckIs
<1>2. ReceiverTyped /\ LineInv /\ HistoryInv /\ LatestInv /\ CallInv /\ TakeFacts
  BY TakeFactsAre, Zenon DEF ReceiverInv
<1>3. pc = "asked" /\ FauxStopBit(later)
  BY <1>1, Zenon DEF CheckStep
<1>4. m_rxCurBit \in Int
  BY <1>2, Format DEF ReceiverTyped
<1>5. CASE Fires(later)
  <2>1. Pending /\ Detected(later)
    BY <1>5, Zenon DEF Fires
  <2>2. PICK d : d = TakenNow(Faux)
    OBVIOUS
  <2>3. d.cur = m_pduBits
    <3>1. FauxTaken(d)
      BY <1>3, <2>1, <2>2, FauxTakenIs
    <3> QED BY <3>1, Zenon DEF FauxTaken
  <2>4. m_rxCurBit' = d.cur
    <3>1. DecoderStep(d, Faux)
      BY <1>3, <1>4, <1>5, <2>2, FauxStopBitIs, TakeEdgeIs
    <3> QED BY <3>1, Zenon DEF DecoderStep
  <2> QED BY <2>3, <2>4, Format DEF Pending
<1>6. CASE ~Fires(later)
  <2>1. m_rxCurBit' = m_rxCurBit
    <3>1. UNCHANGED decoderVars
      BY <1>3, <1>4, <1>6, FauxStopBitIs
    <3> QED BY <3>1, Zenon DEF decoderVars
  <2>2. SUFFICES ASSUME Pending PROVE FALSE
    BY <2>1 DEF Pending
  <2>3. ~Detected(later)
    BY <1>6, <2>2 DEF Fires
  <2>4. m_rxCurBit \in Reading /\ ~Through
    BY <2>2, PendingIs DEF Through
  <2>5. idle \in Nat /\ idle # 0 /\ Pos = m_pduBits + idle
    <3>1. idle \in Nat /\ idle # 0
      BY <1>2, Counts, QuietLine
    <3> QED BY <1>2, <3>1, QuietLine
  <2>6. m_isrBuffer = <<>>
    BY <1>2, <1>3, <2>5 DEF CallInv
  <2>7. LatestOK(e, since, Pos, sent, spoilt)
    <3>1. Latest = e
      BY <2>6 DEF Latest, EdgeAt
    <3> QED BY <1>2, <2>4, <3>1 DEF LatestInv
  <2>8. since \in Nat /\ since < BitSpan
    <3>1. since <= PollWithin
      BY <1>2, <2>2, Format DEF HistoryInv, ReceiverTyped
    <3> QED BY <1>2, <3>1, Format DEF ReceiverTyped, Paced
  <2>9. /\ Aged(e, since) /\ since >= Pos - (IF e.level THEN Stop ELSE Stop - 1)
    BY <2>7, <2>8, Zenon DEF LatestOK
  <2>10. since <= Stop - 1 - m_rxCurBit
    BY <1>2, <2>3, <2>4, <2>8, <2>9, NotDetectedAge
  <2>11. CASE dirty
    <3>1. since >= Pos - Stop
      BY <2>5, <2>8, <2>9, Counts
    <3>2. m_rxCurBit >= -1
      BY <1>4, <2>4 DEF Reading
    <3>3. Pos >= m_pduBits + Frame
      BY <2>5, <2>11, Counts
    <3> QED BY <1>4, <2>8, <2>10, <3>1, <3>2, <3>3, <2>5, Counts
  <2>12. CASE ~dirty
    <3>1. Len(sent) \notin spoilt /\ e.of = Len(sent)
      <4>1. Latest = e
        BY <2>6 DEF Latest, EdgeAt
      <4> QED BY <1>2, <2>12, <4>1 DEF HistoryInv
    <3>2. InKnownWord
      BY <1>2, <2>2, <3>1, InKnownWordIs
    <3>3. e.at \in 1 .. Stop /\ m_rxCurBit = e.at - 2
      BY <3>2, HasReads, Zenon DEF InKnownWord
    <3>4. Pos = e.at + since
      BY <2>7, <2>8, <3>1, Zenon DEF LatestOK
    <3>5. Pos >= m_pduBits + 2
      BY <2>5, <2>12, Counts
    <3> QED BY <2>8, <2>10, <3>3, <3>4, <3>5, Counts
  <2> QED BY <2>11, <2>12
<1> QED BY <1>5, <1>6

\* What comes out comes in order.
LEMMA TakenInOrder ==
  ASSUME NEW e, NEW flagged, TakeEdge(e, flagged), Outcome(TakenNow(e).out), \E S : m_buffer \in Seq(S),
         Len(m_buffer') > Len(m_buffer)
  PROVE  LET k == m_buffer'[Len(m_buffer')].of
         IN  k \in spoilt \/ \A j \in arrived : j < k
<1> DEFINE d == Decoded((m_isrLastCycle.age - e.age) % CycleSpan, m_isrLastCycle.level)
           o == m_isrLastCycle.of
<1>1. d = TakenNow(e)
  BY DecodedTaken, Zenon DEF TakenNow, Between
<1>2. PICK S : m_buffer \in Seq(S)
  OBVIOUS
<1>3. d.out # <<>> /\ Store(d.out[1], o)
  <2>1. IF d.out = <<>> THEN UNCHANGED <<m_buffer, parityVars, arrived, owing>> ELSE Store(d.out[1], o)
    BY Zenon DEF TakeEdge
  <2>2. m_buffer' # m_buffer
    BY <1>2
  <2> QED BY <2>1, <2>2
<1>4. o \in spoilt \/ \A j \in arrived : j < o
  BY <1>1, <1>3, Zenon DEF Outcome
<1> HIDE DEF d
<1>5. PICK x : x = [byte |-> d.out[1].byte, of |-> o]
  OBVIOUS
<1>6. x.of = o
  BY <1>5
<1>7. m_buffer' = Append(m_buffer, x)
  <2>1. Len(m_buffer) # bufCapacity
    <3> SUFFICES ASSUME Len(m_buffer) = bufCapacity PROVE FALSE
      OBVIOUS
    <3>1. m_buffer' = m_buffer
      BY <1>3, Zenon DEF Store
    <3> QED BY <1>2, <3>1
  <2> QED BY <1>3, <1>5, <2>1, Zenon DEF Store
<1>8. m_buffer'[Len(m_buffer')] = x
  <2>1. m_buffer \in Seq(S \cup {x})
    BY <1>2
  <2> QED BY <1>7, <2>1
<1> QED BY <1>4, <1>6, <1>8

-----------------------------------------------------------------------------
(* The bytes that wait, and their bits in the parity queue. *)

\* The bit of a parity queue for the n-th byte after one slot and mask.
BitAt(buf, out, pos, n) ==
  (pos + n - 1) % ByteBits \in buf[ParitySlot(out, (pos + n - 1) \div ByteBits)]

\* What a bit of the queue is after a bit is written.
Written(buf, in, inPos, on) ==
  [buf EXCEPT ![in] = IF on THEN @ \cup {inPos} ELSE @ \ {inPos}]

\* A slot that is fewer than a full turn on is where the distance leads.
LEMMA RingReach ==
  ASSUME NEW C \in Nat, NEW in \in 0 .. C, NEW out \in 0 .. C
  PROVE  (out + ((in + (C + 1 - out)) % (C + 1))) % (C + 1) = in
<1>1. PICK q \in 0 .. C : q = (in + (C + 1 - out)) % (C + 1) /\ q = IF out <= in THEN in - out ELSE in - out + C + 1
  <2>1. (in + (C + 1 - out)) % (C + 1) = IF out <= in THEN in - out ELSE in - out + C + 1
    BY RingDistance
  <2> QED BY <2>1
<1>2. (out + q) % (C + 1) = IF out + q <= C THEN out + q ELSE out + q - (C + 1)
  BY RingStep
<1>3. (out + q) % (C + 1) = in
  BY <1>1, <1>2
<1> QED BY <1>1, <1>3

\* No two of C + 1 slots are the same.
LEMMA RingApart ==
  ASSUME NEW C \in Nat, NEW out \in 0 .. C, NEW r \in 0 .. C, NEW q \in 0 .. C, r # q
  PROVE  (out + r) % (C + 1) # (out + q) % (C + 1)
<1>1. (out + r) % (C + 1) = IF out + r <= C THEN out + r ELSE out + r - (C + 1)
  BY RingStep
<1>2. (out + q) % (C + 1) = IF out + q <= C THEN out + q ELSE out + q - (C + 1)
  BY RingStep
<1>3. PICK x, y : x = (out + r) % (C + 1) /\ y = (out + q) % (C + 1)
  OBVIOUS
<1>4. x # y
  BY <1>1, <1>2, <1>3
<1> QED BY <1>3, <1>4

\* One way and then another is the way of their sum.
LEMMA RingSum ==
  ASSUME NEW C \in Nat, NEW out \in 0 .. C, NEW r \in Nat, NEW t \in Nat, r + t <= C
  PROVE  (((out + r) % (C + 1)) + t) % (C + 1) = (out + (r + t)) % (C + 1)
<1>1. PICK x \in 0 .. C : x = (out + r) % (C + 1) /\ x = IF out + r <= C THEN out + r ELSE out + r - (C + 1)
  <2>1. (out + r) % (C + 1) = IF out + r <= C THEN out + r ELSE out + r - (C + 1)
    BY RingStep
  <2> QED BY <2>1
<1>2. (x + t) % (C + 1) = IF x + t <= C THEN x + t ELSE x + t - (C + 1)
  BY RingStep
<1>3. (out + (r + t)) % (C + 1) = IF out + (r + t) <= C THEN out + (r + t) ELSE out + (r + t) - (C + 1)
  <2>1. PICK z \in 0 .. C + 1 : z = r + t
    <3>1. r + t \in 0 .. C + 1
      OBVIOUS
    <3> QED BY <3>1
  <2>2. (out + z) % (C + 1) = IF out + z <= C THEN out + z ELSE out + z - (C + 1)
    BY RingStep
  <2> QED BY <2>1, <2>2
<1>4. (x + t) % (C + 1) = (out + (r + t)) % (C + 1)
  BY <1>1, <1>2, <1>3
<1> QED BY <1>1, <1>4

\* The parity queue, with len bits in it after one slot and mask.
Filled(buf, in, inPos, out, pos, len) ==
  /\ buf \in [ParitySlots -> SUBSET Nat]
  /\ in \in ParitySlots /\ out \in ParitySlots /\ pos \in 0 .. ByteBits - 1 /\ len \in Nat
  /\ inPos = (pos + len) % ByteBits
  /\ in = ParitySlot(out, (pos + len) \div ByteBits)
  /\ (pos + len) \div ByteBits <= parityCapacity

\* The bit written is the one after them, and they stay.
LEMMA BitWritten ==
  ASSUME NEW buf, NEW in, NEW inPos, NEW out, NEW pos, NEW len, Filled(buf, in, inPos, out, pos, len),
         NEW on \in BOOLEAN
  PROVE  /\ Written(buf, in, inPos, on) \in [ParitySlots -> SUBSET Nat]
         /\ BitAt(Written(buf, in, inPos, on), out, pos, len + 1) = on
         /\ \A n \in 1 .. len : BitAt(Written(buf, in, inPos, on), out, pos, n) = BitAt(buf, out, pos, n)
<1>1. PICK B \in Nat \ {0}, C \in Nat : B = ByteBits /\ C = parityCapacity
  BY ParityRoom
<1>2. /\ buf \in [0 .. C -> SUBSET Nat] /\ in \in 0 .. C /\ out \in 0 .. C /\ pos \in 0 .. B - 1 /\ len \in Nat
      /\ inPos = (pos + len) % B /\ in = (out + ((pos + len) \div B)) % (C + 1)
      /\ (pos + len) \div B <= C
  BY <1>1 DEF Filled, ParitySlots, ParitySlot
<1>3. PICK q \in 0 .. C : q = (pos + len) \div B /\ pos + len = B * q + inPos /\ inPos \in 0 .. B - 1
  <2>1. PICK p \in Nat : p = pos + len
    BY <1>2
  <2>2. p = B * (p \div B) + (p % B) /\ p % B \in 0 .. B - 1 /\ p \div B \in Nat
    BY Quotient
  <2>3. PICK d \in Nat, m \in 0 .. B - 1 : d = p \div B /\ m = p % B /\ p = B * d + m
    BY <2>2
  <2>4. d \in 0 .. C /\ inPos = m
    BY <1>2, <2>1, <2>3
  <2> QED BY <2>1, <2>3, <2>4
<1>4. in = (out + q) % (C + 1)
  BY <1>2, <1>3
<1>5. PICK b2 : b2 = Written(buf, in, inPos, on)
  OBVIOUS
<1>6. /\ b2 \in [0 .. C -> SUBSET Nat]
      /\ (inPos \in b2[in]) = on
      /\ \A x : x # inPos => (x \in b2[in] <=> x \in buf[in])
      /\ \A s \in 0 .. C : s # in => b2[s] = buf[s]
  <2>1. PICK S : S = IF on THEN buf[in] \cup {inPos} ELSE buf[in] \ {inPos}
    OBVIOUS
  <2>2. S \in SUBSET Nat
    <3>1. buf[in] \in SUBSET Nat /\ inPos \in Nat
      BY <1>2, <1>3
    <3> QED BY <2>1, <3>1
  <2>3. b2 = [buf EXCEPT ![in] = S]
    BY <1>5, <2>1 DEF Written
  <2>4. (inPos \in S) = on /\ \A x : x # inPos => (x \in S <=> x \in buf[in])
    BY <2>1
  <2>5. b2 \in [0 .. C -> SUBSET Nat] /\ b2[in] = S /\ \A s \in 0 .. C : s # in => b2[s] = buf[s]
    BY <1>2, <2>2, <2>3
  <2> QED BY <2>4, <2>5
<1>7. BitAt(b2, out, pos, len + 1) = on
  <2>1. pos + (len + 1) - 1 = pos + len
    BY <1>2
  <2>2. BitAt(b2, out, pos, len + 1) = (inPos \in b2[in])
    BY <1>1, <1>2, <2>1 DEF BitAt, ParitySlot
  <2> QED BY <1>6, <2>2
<1>8. ASSUME NEW n \in 1 .. len PROVE BitAt(b2, out, pos, n) = BitAt(buf, out, pos, n)
  <2>1. PICK k \in Nat : k = pos + n - 1 /\ k < pos + len
    <3>1. pos + n - 1 \in Nat /\ pos + n - 1 < pos + len
      BY <1>2
    <3> QED BY <3>1
  <2>2. PICK r \in Nat, x \in 0 .. B - 1 : r = k \div B /\ x = k % B /\ k = B * r + x
    BY Quotient
  <2>3. r <= q
    <3>1. B * r <= B * q + inPos
      <4>1. B * r \in Nat /\ B * q \in Nat
        OBVIOUS
      <4> QED BY <1>2, <1>3, <2>1, <2>2, <4>1
    <3> QED BY <1>3, <3>1, QuotientOrder
  <2>4. PICK s : s = (out + r) % (C + 1)
    OBVIOUS
  <2>5. BitAt(b2, out, pos, n) = (x \in b2[s]) /\ BitAt(buf, out, pos, n) = (x \in buf[s])
    BY <1>1, <2>1, <2>2, <2>4 DEF BitAt, ParitySlot
  <2>6. CASE r = q
    <3>1. x # inPos
      <4>1. B * r \in Nat
        OBVIOUS
      <4> QED BY <1>2, <1>3, <2>1, <2>2, <2>6, <4>1
    <3>2. s = in
      BY <1>4, <2>4, <2>6
    <3>3. x \in b2[in] <=> x \in buf[in]
      BY <1>6, <3>1
    <3> QED BY <2>5, <3>2, <3>3
  <2>7. CASE r # q
    <3>1. r \in 0 .. C
      BY <1>3, <2>3
    <3>2. s # in
      BY <1>2, <1>4, <2>4, <2>7, <3>1, RingApart
    <3>3. s \in 0 .. C
      <4>1. (out + r) % (C + 1) = IF out + r <= C THEN out + r ELSE out + r - (C + 1)
        BY <1>2, <3>1, RingStep
      <4> QED BY <1>2, <2>4, <3>1, <4>1
    <3>4. b2[s] = buf[s]
      BY <1>6, <3>2, <3>3
    <3> QED BY <2>5, <3>4
  <2> QED BY <2>6, <2>7
<1>9. b2 \in [ParitySlots -> SUBSET Nat]
  BY <1>1, <1>6 DEF ParitySlots
<1> QED BY <1>5, <1>7, <1>8, <1>9

\* When n of them go, the others are as many nearer.
LEMMA BitMoves ==
  ASSUME NEW buf, NEW in, NEW inPos, NEW out, NEW pos, NEW len, Filled(buf, in, inPos, out, pos, len),
         NEW n \in 0 .. len, NEW i \in 1 .. len - n
  PROVE  BitAt(buf, ParitySlot(out, (pos + n) \div ByteBits), (pos + n) % ByteBits, i) = BitAt(buf, out, pos, i + n)
<1>1. PICK B \in Nat \ {0}, C \in Nat : B = ByteBits /\ C = parityCapacity
  BY ParityRoom
<1>2. /\ out \in 0 .. C /\ pos \in 0 .. B - 1 /\ len \in Nat /\ (pos + len) \div B <= C
  BY <1>1 DEF Filled, ParitySlots
<1>3. PICK r \in Nat, x \in 0 .. B - 1 : r = (pos + n) \div B /\ x = (pos + n) % B /\ pos + n = B * r + x
  <2>1. pos + n \in Nat
    BY <1>2
  <2> QED BY <2>1, Quotient
<1>4. PICK k \in Nat : k = x + i - 1
  <2>1. x + i - 1 \in Nat
    BY <1>2
  <2> QED BY <2>1
<1>5. PICK t \in Nat, y \in 0 .. B - 1 : t = k \div B /\ y = k % B /\ k = B * t + y
  BY Quotient
<1>6. B * r \in Nat /\ B * t \in Nat /\ B * (r + t) = B * r + B * t /\ r + t \in Nat
  OBVIOUS
<1>7. pos + (i + n) - 1 = B * (r + t) + y /\ pos + (i + n) - 1 \in Nat
  BY <1>2, <1>3, <1>4, <1>5, <1>6
<1>8. (B * (r + t) + y) % B = y /\ (B * (r + t) + y) \div B = r + t
  BY <1>6, QuotientUnique
<1>9. r + t <= C
  <2>1. PICK q \in Nat, z \in 0 .. B - 1 : q = (pos + len) \div B /\ pos + len = B * q + z
    <3>1. pos + len \in Nat
      BY <1>2
    <3> QED BY <3>1, Quotient
  <2>2. B * (r + t) <= B * q + z
    BY <1>2, <1>6, <1>7, <2>1
  <2>3. r + t <= q
    BY <1>6, <2>1, <2>2, QuotientOrder
  <2> QED BY <1>2, <1>6, <2>1, <2>3
<1>10. (((out + r) % (C + 1)) + t) % (C + 1) = (out + (r + t)) % (C + 1)
  <2> HIDE DEF Filled
  <2>1. C \in Nat /\ out \in 0 .. C /\ r \in Nat /\ t \in Nat /\ r + t <= C
    BY <1>2, <1>9
  <2> QED BY <2>1, RingSum, Zenon
<1>11. PICK s : s = (out + (r + t)) % (C + 1)
  OBVIOUS
<1>12. BitAt(buf, out, pos, i + n) = (y \in buf[s])
  BY <1>1, <1>7, <1>8, <1>11 DEF BitAt, ParitySlot
<1>13. BitAt(buf, (out + r) % (C + 1), x, i) = (y \in buf[s])
  BY <1>1, <1>4, <1>5, <1>10, <1>11 DEF BitAt, ParitySlot
<1> QED BY <1>1, <1>3, <1>12, <1>13 DEF ParitySlot

\* A byte that waits, with its parity bit, is the word it came with.
StoredRight(x, bit, words, bad) ==
  /\ x.of \in 1 .. Len(words)
  /\ x.of \notin bad => x.byte = words[x.of].byte /\ (m_parityMode => bit = words[x.of].parity)

\* The bit of the parity queue for the n-th byte that waits.
ParityOf(n) == BitAt(m_parityBuffer, parityOut, m_parityOutPos, n)

\* What waits is what was sent.
WordsInv ==
  /\ m_parityBuffer \in [ParitySlots -> SUBSET Nat]
  /\ \A i \in 1 .. Len(m_buffer) : StoredRight(m_buffer[i], ParityOf(i), sent, spoilt)

\* What waits stays right when words begin or are given up.
LEMMA WordsMore ==
  ASSUME NEW x, NEW bit, NEW words, NEW bad, NEW words2, NEW bad2, More(words, bad, words2, bad2),
         StoredRight(x, bit, words, bad)
  PROVE  StoredRight(x, bit, words2, bad2)
<1>1. /\ Len(words) \in Nat /\ Len(words2) \in Nat /\ Len(words) <= Len(words2)
      /\ \A k \in 1 .. Len(words) : words2[k] = words[k]
      /\ bad \subseteq bad2
  BY Zenon DEF More
<1>2. x.of \in 1 .. Len(words)
  BY Zenon DEF StoredRight
<1>3. x.of \in 1 .. Len(words2) /\ words2[x.of] = words[x.of] /\ (x.of \notin bad2 => x.of \notin bad)
  BY <1>1, <1>2
<1> QED BY <1>3, Zenon DEF StoredRight

\* The parity queue has the bits of the bytes that wait.
LEMMA FilledNow ==
  ASSUME ParityInv, m_parityMode, m_parityBuffer \in [ParitySlots -> SUBSET Nat]
  PROVE  Filled(m_parityBuffer, parityIn, m_parityInPos, parityOut, m_parityOutPos, Len(m_buffer))
<1>1. PICK C \in Nat : C = parityCapacity
  BY ParityRoom
<1>2. /\ parityIn \in 0 .. C /\ parityOut \in 0 .. C /\ m_parityOutPos \in 0 .. ByteBits - 1
      /\ Len(m_buffer) \in Nat
  BY <1>1 DEF ParityInv, Positions, ParitySlots, BytesPart
<1>3. /\ m_parityInPos = (m_parityOutPos + Len(m_buffer)) % ByteBits
      /\ ParityAvailable = (m_parityOutPos + Len(m_buffer)) \div ByteBits
  BY DEF ParityInv, ParityInStep
<1>4. ParityAvailable = (parityIn + (C + 1 - parityOut)) % (C + 1)
  BY <1>1 DEF ParityAvailable, ParitySlot
<1>5. parityIn = (parityOut + ParityAvailable) % (C + 1)
  BY <1>2, <1>4, RingReach
<1>6. ParityAvailable <= C
  <2>1. (parityIn + (C + 1 - parityOut)) % (C + 1) = IF parityOut <= parityIn THEN parityIn - parityOut ELSE parityIn - parityOut + C + 1
    BY <1>2, RingDistance
  <2> QED BY <1>2, <1>4, <2>1
<1> QED BY <1>1, <1>2, <1>3, <1>5, <1>6 DEF Filled, ParitySlots, ParitySlot

\* A byte comes in.
LEMMA StoreWords ==
  ASSUME ParityInv, WordsInv, NEW w, NEW of, Store(w, of), sent' = sent, spoilt' = spoilt, sent \in Seq(Word),
         of \in 1 .. Len(sent), of \notin spoilt => SameAs(w, sent[of])
  PROVE  WordsInv'
<1> DEFINE x == [byte |-> w.byte, of |-> of]
<1>0. PICK n : n = Len(m_buffer)
  OBVIOUS
<1>1. PICK S : m_buffer \in Seq(S)
  BY DEF ParityInv, BytesPart
<1>2. CASE Len(m_buffer) = bufCapacity
  <2>1. UNCHANGED <<m_buffer, parityVars>>
    BY <1>2, Zenon DEF Store
  <2>2. /\ m_buffer' = m_buffer /\ m_parityBuffer' = m_parityBuffer /\ parityOut' = parityOut
        /\ m_parityOutPos' = m_parityOutPos
    BY <2>1, Zenon DEF parityVars
  <2> QED BY <2>2, Zenon DEF WordsInv, ParityOf
<1>3. CASE Len(m_buffer) # bufCapacity
  <2>1. m_buffer' = Append(m_buffer, x)
    BY <1>3, Zenon DEF Store
  <2>2. /\ n \in Nat /\ Len(m_buffer') = n + 1 /\ m_buffer'[n + 1] = x
        /\ \A i \in 1 .. n : m_buffer'[i] = m_buffer[i]
    <3>1. m_buffer \in Seq(S \cup {x})
      BY <1>1
    <3> QED BY <1>0, <2>1, <3>1
  <2>3. x.byte = w.byte /\ x.of = of
    OBVIOUS
  <2> HIDE DEF x
  <2>4. CASE ~m_parityMode
    <3>1. UNCHANGED parityVars
      BY <1>3, <2>4, Zenon DEF Store
    <3>2. m_parityBuffer' = m_parityBuffer
      BY <3>1, Zenon DEF parityVars
    <3>3. ASSUME NEW i \in 1 .. n + 1 PROVE StoredRight(m_buffer'[i], ParityOf(i)', sent, spoilt)
      <4>1. CASE i = n + 1
        <5>1. StoredRight(x, ParityOf(i)', sent, spoilt)
          BY <2>3, <2>4, Zenon DEF StoredRight, SameAs
        <5> QED BY <2>2, <4>1, <5>1
      <4>2. CASE i # n + 1
        <5>1. i \in 1 .. n /\ m_buffer'[i] = m_buffer[i]
          BY <2>2, <4>2
        <5>2. StoredRight(m_buffer[i], ParityOf(i), sent, spoilt)
          BY <1>0, <5>1 DEF WordsInv
        <5>3. StoredRight(m_buffer[i], ParityOf(i)', sent, spoilt)
          BY <2>4, <5>2, Zenon DEF StoredRight
        <5> QED BY <5>1, <5>3
      <4> QED BY <4>1, <4>2
    <3> QED BY <2>2, <3>2, <3>3 DEF WordsInv
  <2>5. CASE m_parityMode
    <3>1. PICK on \in BOOLEAN : on = IF w.parity THEN TRUE ELSE FALSE
      <4>1. (IF w.parity THEN TRUE ELSE FALSE) \in BOOLEAN
        BY Zenon
      <4> QED BY <4>1, Zenon
    <3>2. /\ m_parityBuffer' = Written(m_parityBuffer, parityIn, m_parityInPos, on)
          /\ parityOut' = parityOut /\ m_parityOutPos' = m_parityOutPos
      <4>1. /\ m_parityBuffer' = [m_parityBuffer EXCEPT ![parityIn] =
                                   IF w.parity THEN @ \cup {m_parityInPos} ELSE @ \ {m_parityInPos}]
            /\ parityOut' = parityOut /\ m_parityOutPos' = m_parityOutPos
        BY <1>3, <2>5, Zenon DEF Store
      <4>2. CASE w.parity
        BY <3>1, <4>1, <4>2 DEF Written
      <4>3. CASE ~w.parity
        BY <3>1, <4>1, <4>3 DEF Written
      <4> QED BY <4>1, <4>2, <4>3
    <3>3. m_parityBuffer \in [ParitySlots -> SUBSET Nat]
      BY DEF WordsInv
    <3>4. Filled(m_parityBuffer, parityIn, m_parityInPos, parityOut, m_parityOutPos, n)
      BY <1>0, <2>5, <3>3, FilledNow
    <3>5. /\ m_parityBuffer' \in [ParitySlots -> SUBSET Nat]
          /\ ParityOf(n + 1)' = on
          /\ \A i \in 1 .. n : ParityOf(i)' = ParityOf(i)
      <4>1. /\ Written(m_parityBuffer, parityIn, m_parityInPos, on) \in [ParitySlots -> SUBSET Nat]
            /\ BitAt(Written(m_parityBuffer, parityIn, m_parityInPos, on), parityOut, m_parityOutPos, n + 1) = on
            /\ \A i \in 1 .. n : BitAt(Written(m_parityBuffer, parityIn, m_parityInPos, on), parityOut, m_parityOutPos, i)
                                   = BitAt(m_parityBuffer, parityOut, m_parityOutPos, i)
        BY <3>4, BitWritten
      <4> QED BY <3>2, <4>1, Zenon DEF ParityOf
    <3>6. ASSUME NEW i \in 1 .. n + 1 PROVE StoredRight(m_buffer'[i], ParityOf(i)', sent, spoilt)
      <4>1. CASE i = n + 1
        <5>1. of \notin spoilt => w.byte = sent[of].byte /\ on = sent[of].parity
          <6> SUFFICES ASSUME of \notin spoilt PROVE w.byte = sent[of].byte /\ on = sent[of].parity
            OBVIOUS
          <6>1. w.byte = sent[of].byte /\ w.parity = sent[of].parity
            BY <2>5, Zenon DEF SameAs
          <6>2. sent[of].parity \in BOOLEAN
            <7>1. sent[of] \in Word
              OBVIOUS
            <7> QED BY <7>1 DEF Word
          <6>3. on = w.parity
            <7>1. w.parity \in BOOLEAN
              BY <6>1, <6>2
            <7> QED BY <3>1, <7>1
          <6> QED BY <6>1, <6>3
        <5>2. StoredRight(x, on, sent, spoilt)
          BY <2>3, <5>1, Zenon DEF StoredRight
        <5> QED BY <2>2, <3>5, <4>1, <5>2
      <4>2. CASE i # n + 1
        <5>1. i \in 1 .. n /\ m_buffer'[i] = m_buffer[i] /\ ParityOf(i)' = ParityOf(i)
          BY <2>2, <3>5, <4>2
        <5>2. StoredRight(m_buffer[i], ParityOf(i), sent, spoilt)
          BY <1>0, <5>1 DEF WordsInv
        <5> QED BY <5>1, <5>2
      <4> QED BY <4>1, <4>2
    <3> QED BY <2>2, <3>5, <3>6 DEF WordsInv
  <2> QED BY <2>4, <2>5
<1> QED BY <1>2, <1>3

\* Bytes are taken.
LEMMA TakeWords ==
  ASSUME ParityInv, WordsInv, NEW n \in 0 .. Len(m_buffer), Take(n), sent' = sent, spoilt' = spoilt
  PROVE  WordsInv'
<1>1. PICK S : m_buffer \in Seq(S)
  BY DEF ParityInv, BytesPart
<1>2. /\ m_buffer' = SubSeq(m_buffer, n + 1, Len(m_buffer)) /\ m_parityBuffer' = m_parityBuffer
  BY Zenon DEF Take
<1>3. /\ Len(m_buffer) \in Nat /\ Len(m_buffer') = Len(m_buffer) - n
      /\ \A i \in 1 .. Len(m_buffer) - n : m_buffer'[i] = m_buffer[i + n]
  <2>1. Len(m_buffer) \in Nat /\ \A i \in n + 1 .. Len(m_buffer) : m_buffer[i] \in S
    BY <1>1
  <2>2. n + 1 \in 1 .. Len(m_buffer) + 1
    BY <2>1
  <2>3. Len(m_buffer') = Len(m_buffer) - n
    BY BytesTaken, <1>2
  <2>4. ASSUME NEW i \in 1 .. Len(m_buffer) - n PROVE m_buffer'[i] = m_buffer[i + n]
    <3>1. m_buffer'[i] = m_buffer[n + 1 + i - 1]
      BY <1>1, <1>2, <2>1, <2>2, SubSeqProperties
    <3>2. n + 1 + i - 1 = i + n
      BY <2>1
    <3> QED BY <3>1, <3>2
  <2> QED BY <2>1, <2>3, <2>4
<1>4. m_parityBuffer \in [ParitySlots -> SUBSET Nat]
  BY DEF WordsInv
<1>5. ASSUME NEW i \in 1 .. Len(m_buffer) - n PROVE m_parityMode => ParityOf(i)' = ParityOf(i + n)
  <2> SUFFICES ASSUME m_parityMode PROVE ParityOf(i)' = ParityOf(i + n)
    OBVIOUS
  <2>1. Filled(m_parityBuffer, parityIn, m_parityInPos, parityOut, m_parityOutPos, Len(m_buffer))
    BY <1>4, FilledNow
  <2>2. BitAt(m_parityBuffer, ParitySlot(parityOut, (m_parityOutPos + n) \div ByteBits), (m_parityOutPos + n) % ByteBits, i)
          = BitAt(m_parityBuffer, parityOut, m_parityOutPos, i + n)
    BY <2>1, BitMoves
  <2>3. /\ m_parityOutPos' = (m_parityOutPos + n) % ByteBits
        /\ parityOut' = ParitySlot(parityOut, Least((m_parityOutPos + n) \div ByteBits, ParityAvailable))
    BY Zenon DEF Take
  <2>4. Least((m_parityOutPos + n) \div ByteBits, ParityAvailable) = (m_parityOutPos + n) \div ByteBits
    <3>1. PICK B \in Nat \ {0} : B = ByteBits
      BY ParityRoom
    <3>0. m_parityOutPos \in 0 .. B - 1
      BY <3>1 DEF ParityInv, Positions
    <3>2. ParityAvailable = (m_parityOutPos + Len(m_buffer)) \div B
      BY <3>1 DEF ParityInv, ParityInStep
    <3>3. PICK p \in Nat : p = m_parityOutPos + n
      <4>1. m_parityOutPos + n \in Nat
        BY <1>3, <3>0
      <4> QED BY <4>1
    <3>4. PICK k \in Nat : k = m_parityOutPos + Len(m_buffer) /\ p <= k
      <4>1. m_parityOutPos + Len(m_buffer) \in Nat /\ p <= m_parityOutPos + Len(m_buffer)
        BY <1>3, <3>0, <3>3
      <4> QED BY <4>1
    <3>5. PICK r \in Nat, x \in 0 .. B - 1 : r = p \div B /\ p = B * r + x
      BY Quotient
    <3>6. PICK q \in Nat, y \in 0 .. B - 1 : q = k \div B /\ k = B * q + y
      BY Quotient
    <3>7. r <= q
      <4>1. B * r <= B * q + y
        <5>1. B * r \in Nat /\ B * q \in Nat
          OBVIOUS
        <5>2. p <= k
          BY <3>4
        <5> QED BY <3>5, <3>6, <5>1, <5>2
      <4> QED BY <4>1, QuotientOrder
    <3> QED BY <3>1, <3>2, <3>3, <3>4, <3>5, <3>6, <3>7 DEF Least
  <2> QED BY <1>2, <2>2, <2>3, <2>4, Zenon DEF ParityOf
<1>6. ASSUME NEW i \in 1 .. Len(m_buffer) - n
      PROVE  StoredRight(m_buffer'[i], ParityOf(i)', sent, spoilt)
  <2>1. PICK j \in 1 .. Len(m_buffer) : j = i + n
    <3>1. i + n \in 1 .. Len(m_buffer)
      BY <1>3
    <3> QED BY <3>1
  <2>2. StoredRight(m_buffer[j], ParityOf(j), sent, spoilt)
    BY DEF WordsInv
  <2>3. m_buffer'[i] = m_buffer[j] /\ (m_parityMode => ParityOf(i)' = ParityOf(j))
    BY <1>3, <1>5, <2>1
  <2> QED BY <2>2, <2>3, Zenon DEF StoredRight
<1> QED BY <1>2, <1>3, <1>4, <1>6 DEF WordsInv

\* The steps that leave the bytes.
LEMMA BytesStay ==
  ASSUME WordsInv, UNCHANGED <<m_buffer, parityVars>>, More(sent, spoilt, sent', spoilt')
  PROVE  WordsInv'
<1>1. /\ m_buffer' = m_buffer /\ m_parityBuffer' = m_parityBuffer /\ parityOut' = parityOut
      /\ m_parityOutPos' = m_parityOutPos
  BY Zenon DEF parityVars
<1>2. ASSUME NEW i \in 1 .. Len(m_buffer)
      PROVE  StoredRight(m_buffer[i], ParityOf(i), sent', spoilt')
  <2>1. StoredRight(m_buffer[i], ParityOf(i), sent, spoilt)
    BY DEF WordsInv
  <2> QED BY <2>1, WordsMore, Zenon
<1> QED BY <1>1, <1>2, Zenon DEF WordsInv, ParityOf

\* What rxBits(isrCycle) does with the bytes, whoever calls it.
Taking == \E e, flagged : TakeEdge(e, flagged) /\ Outcome(TakenNow(e).out)

\* Only the two calls of rxBits(isrCycle) add to the bytes.
LEMMA EdgesTakeIt ==
  ASSUME Paced, ReceiverInv, Check \/ EachEdge
  PROVE  Taking \/ UNCHANGED <<m_buffer, parityVars>>
<1>1. CASE EachEdge
  <2>1. left > 0 /\ TakeEdge(Head(m_isrBuffer), m_overflow)
    BY <1>1, Zenon DEF EachEdge
  <2>2. m_isrBuffer \in Seq(EdgeType) /\ m_isrBuffer # <<>> /\ Head(m_isrBuffer) = m_isrBuffer[1]
    <3>1. m_isrBuffer \in Seq(EdgeType) /\ left \in 0 .. Len(m_isrBuffer)
      BY DEF ReceiverInv, ReceiverTyped
    <3>2. Len(m_isrBuffer) > 0
      BY <2>1, <3>1
    <3> QED BY <3>1, <3>2
  <2>3. PICK f : f = m_isrBuffer[1]
    OBVIOUS
  <2>4. FirstEdge
    BY <2>2, FirstEdgeIs
  <2>5. EdgeTaken(TakenNow(f))
    BY <2>3, <2>4, EdgeTakenIs
  <2>6. Outcome(TakenNow(f).out)
    BY <2>5, Zenon DEF EdgeTaken
  <2>7. TakeEdge(f, m_overflow)
    BY <2>1, <2>2, <2>3
  <2> QED BY <2>6, <2>7, Zenon DEF Taking
<1>2. CASE Check
  <2>1. PICK later \in 0 .. m_bitCycles - 1 - Latency : CheckStep(later)
    BY <1>2, CheckIs
  <2>2. pc = "asked" /\ FauxStopBit(later) /\ m_rxCurBit \in Int
    <3>1. m_rxCurBit \in Int
      BY Format DEF ReceiverInv, ReceiverTyped
    <3> QED BY <2>1, <3>1, Zenon DEF CheckStep
  <2>3. CASE Fires(later)
    <3>1. left = 0 /\ Pending /\ Detected(later)
      BY <2>3, Zenon DEF Fires
    <3>2. FauxTaken(TakenNow(Faux))
      BY <2>2, <3>1, FauxTakenIs
    <3>3. Outcome(TakenNow(Faux).out)
      BY <3>2, Zenon DEF FauxTaken
    <3>4. TakeEdge(Faux, m_overflow \/ m_isrOverflow)
      BY <2>2, <2>3, FauxStopBitIs
    <3> QED BY <3>3, <3>4, Zenon DEF Taking
  <2>4. CASE ~Fires(later)
    <3>1. UNCHANGED <<decoderVars, m_buffer, parityVars, arrived, owing>>
      BY <2>2, <2>4, FauxStopBitIs
    <3> QED BY <3>1, Zenon
  <2> QED BY <2>3, <2>4
<1> QED BY <1>1, <1>2

\* Words are stored as they were sent.
LEMMA TakingWords ==
  ASSUME ParityInv, WordsInv, ReceiverInv, Taking, sent' = sent, spoilt' = spoilt
  PROVE  WordsInv'
<1>1. PICK e, flagged : TakeEdge(e, flagged) /\ Outcome(TakenNow(e).out)
  BY DEF Taking
<1> DEFINE d == Decoded((m_isrLastCycle.age - e.age) % CycleSpan, m_isrLastCycle.level)
           o == m_isrLastCycle.of
<1>2. d = TakenNow(e)
  BY DecodedTaken, Zenon DEF TakenNow, Between
<1>3. IF d.out = <<>> THEN UNCHANGED <<m_buffer, parityVars, arrived, owing>> ELSE Store(d.out[1], o)
  BY <1>1, Zenon DEF TakeEdge
<1>4. d.out # <<>> => o \in 1 .. Len(sent) /\ (o \notin spoilt => SameAs(d.out[1], sent[o]))
  BY <1>1, <1>2, Zenon DEF Outcome
<1>5. sent \in Seq(Word)
  BY DEF ReceiverInv, ReceiverTyped
<1> HIDE DEF d, o
<1>6. CASE d.out = <<>>
  <2>1. UNCHANGED <<m_buffer, parityVars>>
    BY <1>3, <1>6, Zenon
  <2>2. More(sent, spoilt, sent', spoilt')
    BY <1>5 DEF More
  <2> QED BY <2>1, <2>2, BytesStay
<1>7. CASE d.out # <<>>
  <2>1. PICK w : w = d.out[1]
    OBVIOUS
  <2>2. Store(w, o) /\ o \in 1 .. Len(sent) /\ (o \notin spoilt => SameAs(w, sent[o]))
    BY <1>3, <1>4, <1>7, <2>1
  <2> QED BY <1>5, <2>2, StoreWords
<1> QED BY <1>6, <1>7

\* Every step keeps the bytes right.
LEMMA WordsNext ==
  ASSUME Paced, ParityInv, ReceiverInv, WordsInv, [Next]_vars
  PROVE  WordsInv'
<1>1. sent \in Seq(Word) /\ takes \in Nat /\ Len(m_buffer) \in Nat /\ bufCapacity \in Nat \ {0}
  BY Format DEF ReceiverInv, ReceiverTyped, ParityInv, BytesPart
<1>2. sent' = sent /\ spoilt \subseteq spoilt' => More(sent, spoilt, sent', spoilt')
  BY <1>1 DEF More
<1>3. CASE BitTime
  <2>1. UNCHANGED <<m_buffer, parityVars>>
    BY <1>3, Zenon DEF BitTime
  <2>2. More(sent, spoilt, sent', spoilt')
    <3>1. ReceiverTyped /\ BitStep
      BY <1>3, BitTimeStep DEF ReceiverInv
    <3> QED BY <3>1, BitMore
  <2> QED BY <2>1, <2>2, BytesStay
<1>4. CASE Check \/ EachEdge
  <2>1. sent' = sent /\ spoilt' = spoilt
    BY <1>4, Zenon DEF Check, EachEdge, lineVars, lossVars
  <2>2. CASE Taking
    BY <2>1, <2>2, TakingWords
  <2>3. CASE UNCHANGED <<m_buffer, parityVars>>
    <3>1. More(sent, spoilt, sent', spoilt')
      BY <1>2, <2>1
    <3> QED BY <2>3, <3>1, BytesStay
  <2> QED BY <1>4, <2>2, <2>3, EdgesTakeIt
<1>5. ASSUME NEW n, Ask(n) PROVE WordsInv'
  <2>1. UNCHANGED <<m_buffer, parityVars>> /\ sent' = sent /\ spoilt' = spoilt
    BY <1>5, Zenon DEF Ask, lineVars, lossVars
  <2> QED BY <1>2, <2>1, BytesStay
<1>6. CASE available
  BY <1>5, <1>6, Zenon DEF available
<1>7. CASE Return
  <2>1. sent' = sent /\ spoilt' = spoilt /\ Take(Least(takes, Len(m_buffer)))
    BY <1>7, Zenon DEF Return, lineVars, lossVars
  <2>2. Least(takes, Len(m_buffer)) \in 0 .. Len(m_buffer)
    BY <1>1 DEF Least
  <2> QED BY <2>1, <2>2, TakeWords
<1>8. ASSUME NEW size \in 1 .. bufCapacity, read(size) PROVE WordsInv'
  <2>1. CASE m_buffer # <<>>
    <3>1. sent' = sent /\ spoilt' = spoilt /\ Take(Least(size, Len(m_buffer)))
      BY <1>8, <2>1, Zenon DEF read, lineVars, lossVars
    <3>2. Least(size, Len(m_buffer)) \in 0 .. Len(m_buffer)
      BY <1>1 DEF Least
    <3> QED BY <3>1, <3>2, TakeWords
  <2>2. CASE m_buffer = <<>>
    BY <1>5, <1>8, <2>2, Zenon DEF read
  <2> QED BY <2>1, <2>2
<1>9. CASE flush
  <2>1. m_buffer' = <<>> /\ m_parityBuffer' = m_parityBuffer
    BY <1>9, Zenon DEF flush, parityVars
  <2>2. Len(m_buffer') = 0
    BY <2>1
  <2> QED BY <2>1, <2>2 DEF WordsInv
<1>10. CASE overflow
  <2>1. UNCHANGED <<m_buffer, parityVars>> /\ sent' = sent /\ spoilt' = spoilt
    BY <1>10, Zenon DEF overflow, lineVars, lossVars
  <2> QED BY <1>2, <2>1, BytesStay
<1>11. ASSUME NEW on \in BOOLEAN, enableRx(on) PROVE WordsInv'
  <2>1. UNCHANGED <<m_buffer, parityVars>> /\ sent' = sent
    BY <1>11, Zenon DEF enableRx, lineVars
  <2>2. spoilt \subseteq spoilt'
    <3>1. /\ on => spoilt' = spoilt \cup ((1 .. Len(sent)) \ arrived)
          /\ ~on => spoilt' = IF idle = 0 THEN spoilt \cup {Len(sent)} ELSE spoilt
      BY <1>11, Zenon DEF enableRx
    <3> QED BY <3>1
  <2> QED BY <1>2, <2>1, <2>2, BytesStay
<1>12. CASE UNCHANGED vars
  <2>1. UNCHANGED <<m_buffer, parityVars>> /\ sent' = sent /\ spoilt' = spoilt
    BY <1>12, Zenon DEF vars, lineVars, lossVars
  <2> QED BY <1>2, <2>1, BytesStay
<1> QED BY <1>3, <1>4, <1>6, <1>7, <1>8, <1>9, <1>10, <1>11, <1>12, Zenon DEF Next

\* begin() finds no byte.
LEMMA WordsStart == Init => WordsInv
<1> SUFFICES ASSUME Init PROVE WordsInv
  OBVIOUS
<1>1. m_buffer = <<>> /\ m_parityBuffer = [s \in ParitySlots |-> {}]
  BY Zenon DEF Init
<1>2. Len(m_buffer) = 0
  BY <1>1
<1>3. m_parityBuffer \in [ParitySlots -> SUBSET Nat]
  BY <1>1
<1> QED BY <1>2, <1>3 DEF WordsInv

\* The first byte is what read() and peek() return.
LEMMA FirstIsRight == ParityInv /\ WordsInv => ReadAsSent
<1> SUFFICES ASSUME ParityInv, WordsInv, m_buffer # <<>>, First.of \notin spoilt
             PROVE  /\ First.byte = sent[First.of].byte
                    /\ m_parityMode => First.parity = sent[First.of].parity
  BY DEF ReadAsSent
<1>1. PICK x : x = m_buffer[1]
  OBVIOUS
<1>2. /\ First.byte = x.byte /\ First.of = x.of
      /\ First.parity = (m_parityOutPos \in m_parityBuffer[parityOut])
  BY <1>1 DEF First
<1>3. StoredRight(x, ParityOf(1), sent, spoilt)
  <2>1. 1 \in 1 .. Len(m_buffer)
    <3>1. PICK S : m_buffer \in Seq(S)
      BY DEF ParityInv, BytesPart
    <3> QED BY <3>1
  <2> QED BY <1>1, <2>1 DEF WordsInv
<1>4. ParityOf(1) = (m_parityOutPos \in m_parityBuffer[parityOut])
  <2>0. PICK B \in Nat \ {0}, C \in Nat : B = ByteBits /\ C = parityCapacity
    BY ParityRoom
  <2>1. PICK out \in 0 .. C, pos \in 0 .. B - 1 : out = parityOut /\ pos = m_parityOutPos
    BY <2>0 DEF ParityInv, Positions, ParitySlots
  <2>2. (B * 0 + pos) % B = pos /\ (B * 0 + pos) \div B = 0
    BY QuotientUnique
  <2>3. pos + 1 - 1 = B * 0 + pos
    OBVIOUS
  <2>4. (out + 0) % (C + 1) = out
    <3>1. PICK z \in 0 .. C + 1 : z = 0
      OBVIOUS
    <3>2. (out + z) % (C + 1) = IF out + z <= C THEN out + z ELSE out + z - (C + 1)
      BY RingStep
    <3> QED BY <3>1, <3>2
  <2> QED BY <2>0, <2>1, <2>2, <2>3, <2>4 DEF ParityOf, BitAt, ParitySlot
<1> QED BY <1>2, <1>3, <1>4, Zenon DEF StoredRight

\* The theorems' invariant.
PortInv == ParityInv /\ ReceiverInv /\ WordsInv

\* What read() and peek() return is what was sent, byte and parity bit, whatever calls come in
\* which order, unless the port was switched or an edge lost (SoftwareSerial.cpp 188-216, 437-512).
THEOREM ReadsAsSent == Paced /\ Spec => []ReadAsSent
<1> SUFFICES ASSUME Paced PROVE Spec => []ReadAsSent
  OBVIOUS
<1>1. Init => PortInv
  BY ParityInit, ReceiverInit, WordsStart DEF PortInv
<1>2. PortInv /\ [Next]_vars => PortInv'
  BY ParityNext, ReceiverNext, WordsNext DEF PortInv
<1>3. PortInv => ReadAsSent
  BY FirstIsRight DEF PortInv
<1> QED BY <1>1, <1>2, <1>3, PTL DEF Spec

\* No word is taken for noise or torn in two (SoftwareSerial.cpp 410-434 and 437-512).
THEOREM NoWordIsMissing == Paced /\ Spec => []NoneMissing
<1> SUFFICES ASSUME Paced PROVE Spec => []NoneMissing
  OBVIOUS
<1>1. ReceiverInv /\ [Next]_vars => ReceiverInv'
  BY ReceiverNext
<1> QED BY <1>1, ReceiverInit, NothingMissing, PTL DEF Spec

\* The words come in order.
LEMMA OrderKept ==
  ASSUME Paced, ParityInv, ReceiverInv, [Next]_vars, Len(m_buffer') > Len(m_buffer)
  PROVE  LET k == m_buffer'[Len(m_buffer')].of
         IN  k \in spoilt \/ \A j \in arrived : j < k
<1>1. PICK S : m_buffer \in Seq(S)
  BY DEF ParityInv, BytesPart
<1>2. Len(m_buffer) \in Nat /\ m_buffer' # m_buffer /\ takes \in Nat
  BY <1>1 DEF ParityInv, BytesPart
<1>3. ASSUME NEW n \in 0 .. Len(m_buffer), Take(n) PROVE FALSE
  <2>1. Len(m_buffer') = Len(m_buffer) - n
    BY <1>3, BytesTaken, Zenon DEF Take
  <2> QED BY <1>2, <2>1
<1>4. CASE Check \/ EachEdge
  <2>1. Taking
    BY <1>2, <1>4, EdgesTakeIt
  <2> QED BY <1>1, <2>1, TakenInOrder DEF Taking
<1>5. CASE BitTime \/ available \/ overflow \/ (\E on \in BOOLEAN : enableRx(on)) \/ UNCHANGED vars
  <2>1. m_buffer' = m_buffer
    BY <1>5, Zenon DEF BitTime, available, Ask, overflow, enableRx, vars
  <2> QED BY <1>2, <2>1
<1>6. CASE Return
  <2>1. Least(takes, Len(m_buffer)) \in 0 .. Len(m_buffer)
    BY <1>2 DEF Least
  <2> QED BY <1>3, <1>6, <2>1 DEF Return
<1>7. CASE flush
  <2>1. m_buffer' = <<>>
    BY <1>7, Zenon DEF flush
  <2> QED BY <1>2, <2>1
<1>8. CASE \E size \in 1 .. bufCapacity : read(size)
  <2>1. PICK size \in 1 .. bufCapacity : read(size)
    BY <1>8
  <2>2. CASE m_buffer = <<>>
    <3>1. m_buffer' = m_buffer
      BY <2>1, <2>2, Zenon DEF read, Ask
    <3> QED BY <1>2, <3>1
  <2>3. CASE m_buffer # <<>>
    <3>1. Least(size, Len(m_buffer)) \in 0 .. Len(m_buffer)
      BY <1>2, Format DEF Least
    <3> QED BY <1>3, <2>1, <2>3, <3>1 DEF read
  <2> QED BY <2>2, <2>3
<1> QED BY <1>4, <1>5, <1>6, <1>7, <1>8, Zenon DEF Next

\* No word comes out of the decoder twice or after a later one (SoftwareSerial.cpp 425-434, 477-508).
THEOREM WordsComeInOrder == Paced /\ Spec => InOrder
<1> SUFFICES ASSUME Paced PROVE Spec => InOrder
  OBVIOUS
<1> DEFINE Inv == ParityInv /\ ReceiverInv
<1>1. Init => Inv
  BY ParityInit, ReceiverInit
<1>2. Inv /\ [Next]_vars => Inv'
  BY ParityNext, ReceiverNext
<1>3. Inv /\ [Next]_vars =>
        [Len(m_buffer') > Len(m_buffer) =>
           LET k == m_buffer'[Len(m_buffer')].of
           IN  k \in spoilt \/ \A j \in arrived : j < k]_vars
  BY OrderKept
<1> QED BY <1>1, <1>2, <1>3, PTL DEF Spec, InOrder

\* A call that finds no edge ends the word that is under way (SoftwareSerial.cpp 424-434).
THEOREM QuietLineEndsWord == Paced /\ Spec => QuietEndsWord
<1> SUFFICES ASSUME Paced PROVE Spec => QuietEndsWord
  OBVIOUS
<1>1. ReceiverInv /\ [Next]_vars => ReceiverInv'
  BY ReceiverNext
<1>2. ReceiverInv /\ [Next]_vars =>
        [Check /\ left = 0 /\ idle > (IF dirty THEN Frame ELSE 1) => ~Pending']_vars
  BY WordEnded
<1> QED BY <1>1, <1>2, ReceiverInit, PTL DEF Spec, QuietEndsWord
=============================================================================
