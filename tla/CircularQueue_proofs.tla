------------------------ MODULE CircularQueue_proofs ------------------------
(***************************************************************************)
(* Proofs about circular_queue.h for every buffer size, every kind of      *)
(* element and blocks of any size: the inductive invariant, from it that   *)
(* the two sides never meet in a slot, and that the ring buffer implements *)
(* the queue of Fifo; and that circular_queue_mp.h loses nothing.          *)
(***************************************************************************)
EXTENDS CircularQueueProps, CircularQueueMP, MultiDelegate, WellFoundedInduction, SequenceTheorems, TLAPS

-----------------------------------------------------------------------------
\* Positions.

\* What the remainder in a position comes to.
LEMMA SlotIs ==
  ASSUME NEW p \in Slots, NEW i \in 0 .. m_bufSize
  PROVE  /\ Slot(p, i) = IF p + i >= m_bufSize THEN p + i - m_bufSize ELSE p + i
         /\ Slot(p, i) \in Slots
BY BufSizeAssumption DEF Slots, Slot

\* What the remainder in a distance comes to.
LEMMA DistIs ==
  ASSUME NEW a \in Slots, NEW b \in Slots
  PROVE  /\ Dist(a, b) = IF b < a THEN b - a + m_bufSize ELSE b - a
         /\ Dist(a, b) \in 0 .. m_bufSize - 1
BY BufSizeAssumption DEF Slots, Dist

\* A distance is zero only from a slot to itself.
LEMMA DistZero ==
  ASSUME NEW a \in Slots, NEW b \in Slots, Dist(a, b) = 0
  PROVE  a = b
<1>1. 0 = IF b < a THEN b - a + m_bufSize ELSE b - a
  BY DistIs
<1> QED BY <1>1, BufSizeAssumption DEF Slots

\* One slot always stays free.
LEMMA AvailableIs == DataOK => available \in 0 .. m_bufSize - 1
BY DistIs DEF DataOK, available

\* The two positions, as the arithmetic of the proofs wants them.
LEMMA Positions ==
  ASSUME DataOK
  PROVE  /\ m_inPos \in Slots
         /\ m_outPos \in Slots
         /\ available \in 0 .. m_bufSize - 1
         /\ available = IF m_inPos < m_outPos THEN m_inPos - m_outPos + m_bufSize ELSE m_inPos - m_outPos
<1>1. m_inPos \in Slots /\ m_outPos \in Slots
  BY DEF DataOK
<1> QED BY <1>1, DistIs DEF available

\* The slot i places ahead is i places ahead.
LEMMA SlotDist ==
  ASSUME NEW p \in Slots
  PROVE  /\ \A i \in 0 .. m_bufSize - 1 : Dist(p, Slot(p, i)) = i
         /\ \A k \in Slots : Slot(p, Dist(p, k)) = k
<1>1. ASSUME NEW i \in 0 .. m_bufSize - 1 PROVE Dist(p, Slot(p, i)) = i
  <2>1. i \in 0 .. m_bufSize
    BY BufSizeAssumption
  <2>2. Slot(p, i) = IF p + i >= m_bufSize THEN p + i - m_bufSize ELSE p + i
    BY <2>1, SlotIs
  <2> QED BY <2>2, BufSizeAssumption DEF Slots, Dist
<1>2. ASSUME NEW k \in Slots PROVE Slot(p, Dist(p, k)) = k
  <2>1. /\ Dist(p, k) = IF k < p THEN k - p + m_bufSize ELSE k - p
        /\ Dist(p, k) \in 0 .. m_bufSize - 1
    BY DistIs
  <2>2. Dist(p, k) \in 0 .. m_bufSize
    BY <2>1, BufSizeAssumption
  <2>3. Slot(p, Dist(p, k)) = IF p + Dist(p, k) >= m_bufSize THEN p + Dist(p, k) - m_bufSize ELSE p + Dist(p, k)
    BY <2>2, SlotIs
  <2> QED BY <2>1, <2>3, BufSizeAssumption DEF Slots
<1> QED BY <1>1, <1>2

\* A step back is a step nearer to the position behind.
LEMMA StepBack ==
  ASSUME NEW o \in Slots, NEW p \in Slots, p # o
  PROVE  /\ Slot(p, m_bufSize - 1) \in Slots
         /\ Dist(o, Slot(p, m_bufSize - 1)) = Dist(o, p) - 1
<1>1. m_bufSize - 1 \in 0 .. m_bufSize
  BY BufSizeAssumption
<1>2. /\ Slot(p, m_bufSize - 1) \in Slots
      /\ Slot(p, m_bufSize - 1) = IF p + (m_bufSize - 1) >= m_bufSize THEN p + (m_bufSize - 1) - m_bufSize ELSE p + (m_bufSize - 1)
  BY <1>1, SlotIs
<1> QED BY <1>2, BufSizeAssumption DEF Dist, Slots

\* A step ahead is a step nearer to the position ahead.
LEMMA StepAhead ==
  ASSUME NEW o \in Slots, NEW p \in Slots, NEW n \in 0 .. Dist(o, p)
  PROVE  /\ Slot(o, n) \in Slots
         /\ Dist(Slot(o, n), p) = Dist(o, p) - n
<1>1. /\ Dist(o, p) = IF p < o THEN p - o + m_bufSize ELSE p - o
      /\ Dist(o, p) \in 0 .. m_bufSize - 1
  BY DistIs
<1>2. n \in 0 .. m_bufSize
  BY <1>1, BufSizeAssumption
<1>3. /\ Slot(o, n) \in Slots
      /\ Slot(o, n) = IF o + n >= m_bufSize THEN o + n - m_bufSize ELSE o + n
  BY <1>2, SlotIs
<1> QED BY <1>1, <1>3, BufSizeAssumption DEF Dist, Slots

\* Writing at m_inPos leaves the elements alone.
LEMMA FreeSlot ==
  ASSUME DataOK
  PROVE  \A i \in 1 .. available : Slot(m_outPos, i - 1) # m_inPos
<1>1. m_inPos \in Slots /\ m_outPos \in Slots /\ available \in 0 .. m_bufSize - 1
  BY DistIs DEF DataOK, available
<1> SUFFICES ASSUME NEW i \in 1 .. available, Slot(m_outPos, i - 1) = m_inPos PROVE FALSE
  OBVIOUS
<1>2. i - 1 \in 0 .. m_bufSize - 1 /\ i - 1 # available
  BY <1>1, BufSizeAssumption
<1>3. Dist(m_outPos, Slot(m_outPos, i - 1)) = i - 1
  BY <1>1, <1>2, SlotDist
<1> QED BY <1>2, <1>3 DEF available

\* A block is as large as the request and the room before the end allow.
LEMMA RoomIs ==
  ASSUME DataOK
  PROVE  /\ blockRoom \in 0 .. m_bufSize - 1 - available
         /\ m_inPos + blockRoom <= m_bufSize
         /\ blockRoom = 0 => available = m_bufSize - 1
<1>1. /\ m_inPos \in Slots
      /\ m_outPos \in Slots
  BY DEF DataOK
<1>2. available = IF m_inPos < m_outPos THEN m_inPos - m_outPos + m_bufSize ELSE m_inPos - m_outPos
  BY <1>1, DistIs DEF available
<1> QED BY <1>1, <1>2, BufSizeAssumption DEF blockRoom, Slots

-----------------------------------------------------------------------------
\* The inductive invariant holds at the beginning.
LEMMA InitInv == Init => SidesInv
BY BufSizeAssumption DEF Init, SidesInv, DataOK, ProducerInv, ConsumerInv, InRev, Slots, available, Dist

\* What the producer does matters to the consumer only where its elements are.
LEMMA ProducerLeavesConsumer ==
  ASSUME DataOK, DataOK', ConsumerInv, UNCHANGED <<m_outPos, consumerVars>>,
         available <= available',
         \A i \in 1 .. available : m_buffer'[Slot(m_outPos, i - 1)] = m_buffer[Slot(m_outPos, i - 1)]
  PROVE  ConsumerInv'
<1> USE DEF consumerVars
<1>1. /\ m_outPos \in Slots /\ m_outPos' = m_outPos
      /\ Dist(m_outPos, cIn)' = Dist(m_outPos, cIn)
      /\ Dist(m_outPos, cPos)' = Dist(m_outPos, cPos)
      /\ Dist(m_outPos, cOut)' = Dist(m_outPos, cOut)
      /\ \A i : Slot(m_outPos, i)' = Slot(m_outPos, i)
      /\ InRev' = InRev
  BY DEF DataOK, Dist, Slot, InRev
<1>2. available \in 0 .. m_bufSize - 1 /\ available' \in 0 .. m_bufSize - 1
  BY DistIs DEF DataOK, available, Dist
<1>0. /\ Dist(m_outPos, cPos) \in Nat
      /\ Dist(m_outPos, cOut) \in Nat
      /\ Dist(m_outPos, cIn) \in Nat
  BY DistIs DEF DataOK
<1>3. Slot(m_outPos, 0) = m_outPos
  BY <1>1, SlotIs, BufSizeAssumption DEF Slots
<1>4. available >= 1 => m_buffer'[m_outPos] = m_buffer[m_outPos]
  BY <1>2, <1>3
<1>5. (cpc \in {"read", "store", "skip"} => cCount \in 1 .. available)'
  BY <1>2 DEF ConsumerInv
<1>6. (cpc = "store" => /\ Len(cVals) = cCount
                      /\ \A i \in 1 .. cCount : cVals[i] = m_buffer[Slot(m_outPos, i - 1)])'
  <2> SUFFICES ASSUME cpc = "store"
               PROVE  /\ Len(cVals) = cCount
                      /\ \A i \in 1 .. cCount : cVals[i] = m_buffer'[Slot(m_outPos, i - 1)]
    BY DEF Slot
  <2>1. /\ Len(cVals) = cCount /\ cCount \in 1 .. available
        /\ \A i \in 1 .. cCount : cVals[i] = m_buffer[Slot(m_outPos, i - 1)]
    BY DEF ConsumerInv
  <2>2. \A i \in 1 .. cCount : i \in 1 .. available
    BY <2>1, <1>2
  <2> QED BY <2>1, <2>2
<1>7. (cpc = "flush" => Dist(m_outPos, cIn) <= available)'
  BY <1>1, <1>2, <1>0 DEF ConsumerInv
<1>8. (cpc \in {"each", "eachStore"} => Dist(m_outPos, cIn) \in 1 .. available)'
  BY <1>1, <1>2, <1>0 DEF ConsumerInv
<1>9. (cpc = "eachStore" => cVals = <<m_buffer[m_outPos]>>)'
  BY <1>1, <1>2, <1>4, <1>0 DEF ConsumerInv
<1>10. (InRev => /\ Dist(m_outPos, cPos) <= Dist(m_outPos, cOut)
                /\ Dist(m_outPos, cOut) <= Dist(m_outPos, cIn)
                /\ Dist(m_outPos, cIn) <= available)'
  BY <1>1, <1>2, <1>0 DEF ConsumerInv
<1> QED BY <1>5, <1>6, <1>7, <1>8, <1>9, <1>10 DEF ConsumerInv

\* What the consumer does matters to the producer only by the room it makes,
\* and if it wrote where the producer prepares the next elements.
LEMMA ConsumerLeavesProducer ==
  ASSUME DataOK, DataOK', ProducerInv, UNCHANGED <<m_inPos, producerVars>>,
         available' <= available,
         \A i \in 0 .. m_bufSize - 1 - available - 1 : m_buffer'[Slot(m_inPos, i)] = m_buffer[Slot(m_inPos, i)],
         m_buffer'[m_inPos] = m_buffer[m_inPos]
  PROVE  ProducerInv'
<1> USE DEF producerVars
<1>1. /\ m_inPos \in Slots /\ m_inPos' = m_inPos
      /\ \A i : Slot(m_inPos, i)' = Slot(m_inPos, i)
  BY DEF DataOK, Slot
<1>2. available \in 0 .. m_bufSize - 1 /\ available' \in 0 .. m_bufSize - 1
  BY DistIs DEF DataOK, available, Dist
<1>3. Len(pItems) \in Nat
  BY DEF DataOK
<1>4. (/\ ppc = "idle" <=> pItems = <<>>
       /\ ppc \in {"push", "peeked"} => Len(pItems) = 1
       /\ ppc = "peeked" => m_buffer[m_inPos] = pItems[1])'
  BY DEF ProducerInv
<1>5. (ppc \in {"copy", "publish"} =>
       /\ available + Len(pItems) < m_bufSize
       /\ pNext = Slot(m_inPos, Len(pItems))
       /\ pBlock \in 1 .. Len(pItems)
       /\ m_inPos + pBlock <= m_bufSize
       /\ pBlock < Len(pItems) => m_inPos + pBlock = m_bufSize)'
  BY <1>1, <1>2, <1>3, BufSizeAssumption DEF ProducerInv, Slots
<1>6. (ppc = "publish" => \A i \in 1 .. Len(pItems) : m_buffer[Slot(m_inPos, i - 1)] = pItems[i])'
  <2>1. ppc' = ppc /\ pItems' = pItems
    OBVIOUS
  <2>2. ASSUME ppc = "publish", NEW i \in 1 .. Len(pItems)
        PROVE  m_buffer'[Slot(m_inPos, i - 1)] = pItems[i]
    <3>1. available + Len(pItems) < m_bufSize /\ m_buffer[Slot(m_inPos, i - 1)] = pItems[i]
      BY <2>2 DEF ProducerInv
    <3>2. i - 1 \in 0 .. m_bufSize - 1 - available - 1
      BY <1>2, <1>3, <3>1, BufSizeAssumption
    <3> QED BY <3>1, <3>2
  <2> QED BY <1>1, <2>1, <2>2
<1> QED BY <1>4, <1>5, <1>6 DEF ProducerInv

\* The lemmas from here to StutterInv have one step of the code each.  Calling push():
LEMMA CallPushInv == SidesInv /\ CallPush => SidesInv'
<1> SUFFICES ASSUME SidesInv, CallPush PROVE SidesInv'
  OBVIOUS
<1> USE DEF CallPush, bufferVars, consumerVars
<1>1. PICK val \in Vals : pItems' = <<val>>
  OBVIOUS
<1>2. available' = available
  BY DEF available, Dist
<1>3. DataOK'
  BY <1>1 DEF SidesInv, DataOK
<1>4. ProducerInv'
  BY <1>1 DEF SidesInv, ProducerInv
<1>5. ConsumerInv'
  BY <1>2, <1>3, ProducerLeavesConsumer, AvailableIs DEF SidesInv, bufferVars
<1> QED BY <1>3, <1>4, <1>5 DEF SidesInv

\* Calling push_n().
LEMMA CallPushNInv == SidesInv /\ CallPushN => SidesInv'
<1> SUFFICES ASSUME SidesInv, CallPushN PROVE SidesInv'
  OBVIOUS
<1> USE DEF CallPushN, bufferVars, consumerVars
<1>1. PICK size \in 1 .. MaxBlock : pItems' \in [1 .. size -> Vals]
  OBVIOUS
<1>2. available' = available
  BY DEF available, Dist
<1>0. pItems' \in Seq(Vals) /\ Len(pItems') = size
  BY <1>1, BufSizeAssumption
<1>3. DataOK'
  BY <1>0 DEF SidesInv, DataOK
<1>4. ProducerInv'
  BY <1>0 DEF SidesInv, ProducerInv
<1>5. ConsumerInv'
  BY <1>2, <1>3, ProducerLeavesConsumer, AvailableIs DEF SidesInv, bufferVars
<1> QED BY <1>3, <1>4, <1>5 DEF SidesInv

\* Calling push() for the slot that pushpeek() showed.
LEMMA PushpeekInv == SidesInv /\ pushpeek => SidesInv'
<1> SUFFICES ASSUME SidesInv, pushpeek PROVE SidesInv'
  OBVIOUS
<1> USE DEF pushpeek, consumerVars
<1>1. PICK val \in Vals : /\ pItems' = <<val>>
                          /\ m_buffer' = [m_buffer EXCEPT ![m_inPos] = val]
  OBVIOUS
<1>2. available' = available
  BY DEF available, Dist
<1>3. DataOK'
  BY <1>1 DEF SidesInv, DataOK
<1>4. ProducerInv'
  BY <1>1 DEF SidesInv, ProducerInv, DataOK
<1>5. ConsumerInv'
  <2>1. \A i \in 1 .. available : m_buffer'[Slot(m_outPos, i - 1)] = m_buffer[Slot(m_outPos, i - 1)]
    BY <1>1, FreeSlot DEF SidesInv, DataOK
  <2> QED BY <1>2, <1>3, <2>1, ProducerLeavesConsumer, AvailableIs DEF SidesInv
<1> QED BY <1>3, <1>4, <1>5 DEF SidesInv

\* push() has found room: there will be no less until it publishes.
LEMMA PushInv == SidesInv /\ push => SidesInv'
<1> SUFFICES ASSUME SidesInv, push PROVE SidesInv'
  OBVIOUS
<1> USE DEF push, bufferVars
<1>1. m_inPos \in Slots /\ m_outPos \in Slots /\ available \in 0 .. m_bufSize - 1
  BY AvailableIs DEF SidesInv, DataOK
<1>2. available' = available
  BY DEF available, Dist
<1>3. Len(pItems) = 1 /\ pItems # <<>> /\ pItems \in Seq(Vals)
  BY DEF SidesInv, ProducerInv, DataOK
<1>4. /\ Slot(m_inPos, 1) \in Slots
      /\ Slot(m_inPos, 1) = IF m_inPos + 1 >= m_bufSize THEN m_inPos + 1 - m_bufSize ELSE m_inPos + 1
  BY <1>1, SlotIs, BufSizeAssumption
<1>5. Slot(m_inPos, 1) # m_outPos => available + 1 < m_bufSize
  <2>1. available = IF m_inPos < m_outPos THEN m_inPos - m_outPos + m_bufSize ELSE m_inPos - m_outPos
    BY <1>1, DistIs DEF available
  <2> QED BY <1>1, <1>4, <2>1, BufSizeAssumption DEF Slots
<1>6. DataOK'
  <2>0. pBlock \in 0 .. m_bufSize /\ pNext \in Slots /\ 1 \in 0 .. m_bufSize /\ <<>> \in Seq(Vals)
    BY BufSizeAssumption DEF SidesInv, DataOK
  <2>1. pItems' \in Seq(Vals) /\ pBlock' \in 0 .. m_bufSize /\ pNext' \in Slots
    BY <1>3, <1>4, <2>0
  <2> QED BY <2>1 DEF SidesInv, DataOK, consumerVars
<1>7. ProducerInv'
  <2>1. CASE ppc' = "idle"
    BY <2>1 DEF ProducerInv
  <2>2. CASE ppc' # "idle"
    <3>1. /\ ppc' \in {"copy", "publish"}
          /\ pItems' = pItems
          /\ pBlock' = 1
          /\ pNext' = Slot(m_inPos, 1)
          /\ available' + 1 < m_bufSize
          /\ m_inPos' + 1 <= m_bufSize
      BY <2>2, <1>1, <1>2, <1>5, BufSizeAssumption DEF Slots
    <3>2. ppc' = "publish" => m_buffer'[Slot(m_inPos', 0)] = pItems'[1]
      <4>1. Slot(m_inPos, 0) = m_inPos
        BY <1>1, SlotIs, BufSizeAssumption DEF Slots
      <4> QED BY <3>1, <4>1 DEF SidesInv, ProducerInv
    <3>3. \A i : Slot(m_inPos, i)' = Slot(m_inPos, i)
      BY DEF Slot
    <3> QED BY <1>3, <3>1, <3>2, <3>3 DEF ProducerInv
  <2> QED BY <2>1, <2>2
<1>8. ConsumerInv'
  BY <1>1, <1>2, <1>6, ProducerLeavesConsumer DEF SidesInv
<1> QED BY <1>6, <1>7, <1>8 DEF SidesInv

\* push_n() has found room for the block, or what fits of it.
LEMMA PushNInv == SidesInv /\ push_n => SidesInv'
<1> SUFFICES ASSUME SidesInv, push_n PROVE SidesInv'
  OBVIOUS
<1> USE DEF bufferVars
<1>1. /\ m_inPos \in Slots
      /\ m_outPos \in Slots
      /\ available \in 0 .. m_bufSize - 1
      /\ available = IF m_inPos < m_outPos THEN m_inPos - m_outPos + m_bufSize ELSE m_inPos - m_outPos
  BY Positions DEF SidesInv
<1>2. available' = available /\ UNCHANGED <<bufferVars, consumerVars>>
  BY DEF push_n, available, Dist
<1>3. Len(pItems) \in Nat \ {0} /\ pItems \in Seq(Vals)
  BY DEF SidesInv, ProducerInv, DataOK, push_n
<1> DEFINE size == Len(pItems)
           blockSize == Least(size, blockRoom)
           next == Slot(m_inPos, blockSize)
           rest == IF size = blockSize \/ m_outPos <= 1 THEN 0
                   ELSE Least(size - blockSize, m_outPos - next - 1)
           n == blockSize + rest
<1>4. CASE blockSize = 0
  <2>1. ppc' = "idle" /\ pItems' = <<>> /\ pBlock' = pBlock /\ pNext' = pNext
    BY <1>4 DEF push_n
  <2>2. DataOK'
    BY <1>2, <2>1 DEF SidesInv, DataOK, consumerVars
  <2>3. ProducerInv'
    BY <2>1 DEF ProducerInv
  <2>4. ConsumerInv'
    BY <1>1, <1>2, <2>2, ProducerLeavesConsumer DEF SidesInv
  <2> QED BY <2>2, <2>3, <2>4 DEF SidesInv
<1>5. CASE blockSize # 0
  <2>1. /\ ppc' = "copy"
        /\ pItems' = SubSeq(pItems, 1, n)
        /\ pBlock' = blockSize
        /\ pNext' = next + rest
    BY <1>5 DEF push_n
  <2>2. /\ blockRoom \in 0 .. m_bufSize - 1 - available
        /\ m_inPos + blockRoom <= m_bufSize
    BY RoomIs DEF SidesInv
  <2>3. blockSize \in 1 .. size /\ blockSize <= blockRoom /\ (blockSize < size => blockSize = blockRoom)
    BY <1>1, <1>3, <1>5, <2>2, BufSizeAssumption DEF Least, Slots
  <2>4. next = IF m_inPos + blockSize >= m_bufSize THEN m_inPos + blockSize - m_bufSize ELSE m_inPos + blockSize
    <3>1. blockSize \in 0 .. m_bufSize
      BY <1>1, <2>2, <2>3, BufSizeAssumption
    <3> QED BY <1>1, <3>1, SlotIs
  <2>5. /\ rest \in Nat
        /\ n <= size
        /\ available + n < m_bufSize
        /\ rest > 0 => m_inPos + blockSize = m_bufSize
        /\ next + rest = IF m_inPos + n >= m_bufSize THEN m_inPos + n - m_bufSize ELSE m_inPos + n
    <3>1. CASE rest = 0
      BY <1>1, <1>3, <2>2, <2>3, <2>4, <3>1, BufSizeAssumption, SMTT(30) DEF Slots
    <3>2. CASE rest # 0
      <4>1. /\ blockSize < size /\ m_outPos > 1
            /\ blockSize = blockRoom
            /\ rest = Least(size - blockSize, m_outPos - next - 1)
        BY <1>1, <1>3, <2>3, <3>2 DEF Slots
      <4>2. m_inPos >= m_outPos /\ next = 0
        BY <1>1, <1>3, <2>3, <2>4, <3>2, <4>1, BufSizeAssumption DEF blockRoom, Slots, Least
      <4>3. blockRoom = m_bufSize - m_inPos
        BY <1>1, <4>1, <4>2 DEF blockRoom, Slots
      <4>4. rest \in 1 .. m_outPos - 1 /\ rest <= size - blockSize
        BY <1>1, <1>3, <2>3, <3>2, <4>1, <4>2 DEF Slots, Least
      <4> HIDE DEF rest, next, blockSize
      <4> QED BY <1>1, <1>3, <2>3, <4>1, <4>2, <4>3, <4>4, BufSizeAssumption DEF Slots
    <3> QED BY <3>1, <3>2
  <2> HIDE DEF rest, next, blockSize
  <2>6. n \in 1 .. size /\ n \in 0 .. m_bufSize /\ pNext' = Slot(m_inPos, n) /\ pNext' \in Slots
    <3>1. n \in 1 .. size /\ n \in 0 .. m_bufSize
      BY <1>1, <1>3, <2>3, <2>5, BufSizeAssumption
    <3> QED BY <1>1, <2>1, <2>5, <3>1, SlotIs
  <2>7. pItems' \in Seq(Vals) /\ Len(pItems') = n
    <3>1. \A i \in 1 .. n : pItems[i] \in Vals
      BY <1>3, <2>6
    <3> QED BY <2>1, <2>6, <3>1, SubSeqProperties
  <2>8. DataOK'
    <3>1. pBlock' \in 0 .. m_bufSize
      BY <1>1, <2>1, <2>2, <2>3, BufSizeAssumption DEF Slots
    <3> QED BY <1>2, <2>1, <2>6, <2>7, <3>1 DEF SidesInv, DataOK, consumerVars
  <2>9. ProducerInv'
    <3>1. \A i : Slot(m_inPos, i)' = Slot(m_inPos, i)
      BY <1>2 DEF Slot
    <3>2. /\ available' + Len(pItems') < m_bufSize
          /\ pNext' = Slot(m_inPos, Len(pItems))'
          /\ pBlock' \in 1 .. Len(pItems')
          /\ m_inPos' + pBlock' <= m_bufSize
          /\ pBlock' < Len(pItems') => m_inPos' + pBlock' = m_bufSize
      BY <1>1, <1>2, <1>3, <2>1, <2>2, <2>3, <2>5, <2>6, <2>7, <3>1, BufSizeAssumption DEF Slots
    <3> QED BY <2>1, <2>6, <2>7, <3>2 DEF ProducerInv
  <2>10. ConsumerInv'
    BY <1>1, <1>2, <2>8, ProducerLeavesConsumer DEF SidesInv
  <2> QED BY <2>8, <2>9, <2>10 DEF SidesInv
<1> QED BY <1>4, <1>5

\* The free slots of push_n hold no element.
LEMMA CopyKeepsElements ==
  ASSUME SidesInv, copy
  PROVE  \A i \in 1 .. available : m_buffer'[Slot(m_outPos, i - 1)] = m_buffer[Slot(m_outPos, i - 1)]
<1>1. /\ m_inPos \in Slots
      /\ m_outPos \in Slots
      /\ available \in 0 .. m_bufSize - 1
      /\ available = IF m_inPos < m_outPos THEN m_inPos - m_outPos + m_bufSize ELSE m_inPos - m_outPos
  BY Positions DEF SidesInv
<1>3. /\ Len(pItems) \in Nat
      /\ available + Len(pItems) < m_bufSize
      /\ pBlock \in 1 .. Len(pItems)
      /\ m_inPos + pBlock <= m_bufSize
      /\ pBlock < Len(pItems) => m_inPos + pBlock = m_bufSize
  BY DEF SidesInv, DataOK, ProducerInv, copy
<1>4. \A k \in Slots : ~(k >= m_inPos /\ k < m_inPos + pBlock) /\ ~(k < Len(pItems) - pBlock)
                       => m_buffer'[k] = m_buffer[k]
  BY DEF copy
<1>9. ASSUME NEW i \in 1 .. available
      PROVE  m_buffer'[Slot(m_outPos, i - 1)] = m_buffer[Slot(m_outPos, i - 1)]
  <2>1. i - 1 \in 0 .. m_bufSize /\ i - 1 < available
    BY <1>1, BufSizeAssumption
  <2>2. /\ Slot(m_outPos, i - 1) \in Slots
        /\ Slot(m_outPos, i - 1) = IF m_outPos + (i - 1) >= m_bufSize THEN m_outPos + (i - 1) - m_bufSize ELSE m_outPos + (i - 1)
    BY <1>1, <2>1, SlotIs
  <2>3. ~(Slot(m_outPos, i - 1) >= m_inPos /\ Slot(m_outPos, i - 1) < m_inPos + pBlock)
    BY <1>1, <1>3, <2>1, <2>2, BufSizeAssumption DEF Slots
  <2>4. ~(Slot(m_outPos, i - 1) < Len(pItems) - pBlock)
    BY <1>1, <1>3, <2>1, <2>2, BufSizeAssumption DEF Slots
  <2> QED BY <1>4, <2>2, <2>3, <2>4
<1> QED BY <1>9

\* A piece of a block is written, into slots the consumer does not read.
LEMMA CopyInv == SidesInv /\ copy => SidesInv'
<1> SUFFICES ASSUME SidesInv, copy PROVE SidesInv'
  OBVIOUS
<1>1. /\ m_inPos \in Slots
      /\ m_outPos \in Slots
      /\ available \in 0 .. m_bufSize - 1
      /\ available = IF m_inPos < m_outPos THEN m_inPos - m_outPos + m_bufSize ELSE m_inPos - m_outPos
  BY Positions DEF SidesInv
<1>2. /\ available' = available
      /\ ppc' = "publish"
      /\ UNCHANGED <<m_inPos, m_outPos, pItems, pBlock, pNext, consumerVars>>
  BY DEF copy, available, Dist
<1>3. /\ Len(pItems) \in Nat
      /\ pItems \in Seq(Vals)
      /\ available + Len(pItems) < m_bufSize
      /\ pBlock \in 1 .. Len(pItems)
      /\ m_inPos + pBlock <= m_bufSize
      /\ pBlock < Len(pItems) => m_inPos + pBlock = m_bufSize
  BY DEF SidesInv, DataOK, ProducerInv, copy
<1>4. \A k \in Slots : m_buffer'[k] =
        IF k >= m_inPos /\ k < m_inPos + pBlock THEN pItems[k - m_inPos + 1]
        ELSE IF k < Len(pItems) - pBlock THEN pItems[pBlock + k + 1]
        ELSE m_buffer[k]
  BY DEF copy
<1>5. m_buffer' \in [Slots -> Vals]
  <2>1. ASSUME NEW k \in Slots PROVE m_buffer'[k] \in Vals
    <3>1. k \in 0 .. m_bufSize - 1
      BY DEF Slots
    <3>2. CASE k >= m_inPos /\ k < m_inPos + pBlock
      BY <1>1, <1>3, <1>4, <3>1, <3>2, BufSizeAssumption DEF Slots
    <3>3. CASE ~(k >= m_inPos /\ k < m_inPos + pBlock) /\ k < Len(pItems) - pBlock
      <4>1. pBlock + k + 1 \in 1 .. Len(pItems)
        BY <1>1, <1>3, <3>1, <3>3, BufSizeAssumption
      <4> QED BY <1>3, <1>4, <3>3, <4>1
    <3>4. CASE ~(k >= m_inPos /\ k < m_inPos + pBlock) /\ ~(k < Len(pItems) - pBlock)
      BY <1>4, <3>4 DEF SidesInv, DataOK
    <3> QED BY <3>2, <3>3, <3>4
  <2> QED BY <2>1 DEF copy
<1>6. DataOK'
  BY <1>2, <1>5 DEF SidesInv, DataOK, consumerVars
<1>7. ASSUME NEW i \in 1 .. Len(pItems) PROVE m_buffer'[Slot(m_inPos, i - 1)] = pItems[i]
  <2>1. i - 1 \in 0 .. m_bufSize /\ i - 1 < m_bufSize
    BY <1>1, <1>3, BufSizeAssumption
  <2>2. /\ Slot(m_inPos, i - 1) \in Slots
        /\ Slot(m_inPos, i - 1) = IF m_inPos + (i - 1) >= m_bufSize THEN m_inPos + (i - 1) - m_bufSize ELSE m_inPos + (i - 1)
    BY <1>1, <2>1, SlotIs
  <2>3. CASE i <= pBlock
    <3>1. Slot(m_inPos, i - 1) = m_inPos + (i - 1)
      BY <1>1, <1>3, <2>2, <2>3, BufSizeAssumption DEF Slots
    <3> QED BY <1>1, <1>3, <1>4, <2>2, <2>3, <3>1 DEF Slots
  <2>4. CASE i > pBlock
    <3>1. Slot(m_inPos, i - 1) = i - 1 - pBlock /\ i - 1 - pBlock < m_inPos
      BY <1>1, <1>3, <2>1, <2>2, <2>4, BufSizeAssumption DEF Slots
    <3>2. /\ pBlock + (i - 1 - pBlock) + 1 = i
          /\ i - 1 - pBlock < Len(pItems) - pBlock
      BY <1>3
    <3> QED BY <1>1, <1>3, <1>4, <2>2, <3>1, <3>2 DEF Slots
  <2> QED BY <1>3, <2>3, <2>4
<1>8. ProducerInv'
  <2>1. \A i : Slot(m_inPos, i)' = Slot(m_inPos, i)
    BY <1>2 DEF Slot
  <2>2. pNext = Slot(m_inPos, Len(pItems)) /\ pItems # <<>>
    BY DEF SidesInv, ProducerInv, copy
  <2> QED BY <1>2, <1>3, <1>7, <2>1, <2>2 DEF ProducerInv
<1>9. \A i \in 1 .. available : m_buffer'[Slot(m_outPos, i - 1)] = m_buffer[Slot(m_outPos, i - 1)]
  BY CopyKeepsElements
<1>10. ConsumerInv'
  BY <1>1, <1>2, <1>6, <1>9, ProducerLeavesConsumer DEF SidesInv
<1> QED BY <1>6, <1>8, <1>10 DEF SidesInv

\* m_inPos moves over what is written.
LEMMA PublishInv == SidesInv /\ publish => SidesInv' /\ available' = available + Len(pItems)
<1> SUFFICES ASSUME SidesInv, publish PROVE SidesInv' /\ available' = available + Len(pItems)
  OBVIOUS
<1>1. /\ m_inPos \in Slots
      /\ m_outPos \in Slots
      /\ available \in 0 .. m_bufSize - 1
      /\ available = IF m_inPos < m_outPos THEN m_inPos - m_outPos + m_bufSize ELSE m_inPos - m_outPos
  BY Positions DEF SidesInv
<1>2. /\ ppc' = "idle" /\ pItems' = <<>> /\ pBlock' = 0 /\ pNext' = 0
      /\ UNCHANGED <<m_buffer, m_outPos, consumerVars>>
  BY DEF publish
<1>3. /\ Len(pItems) \in Nat
      /\ available + Len(pItems) < m_bufSize
      /\ m_inPos' = Slot(m_inPos, Len(pItems))
  BY DEF SidesInv, DataOK, ProducerInv, publish
<1>4. /\ m_inPos' \in Slots
      /\ m_inPos' = IF m_inPos + Len(pItems) >= m_bufSize THEN m_inPos + Len(pItems) - m_bufSize ELSE m_inPos + Len(pItems)
  <2>1. Len(pItems) \in 0 .. m_bufSize
    BY <1>1, <1>3, BufSizeAssumption
  <2> QED BY <1>1, <1>3, <2>1, SlotIs
<1>5. DataOK'
  <2>1. 0 \in Slots /\ 0 \in 0 .. m_bufSize /\ <<>> \in Seq(Vals)
    BY BufSizeAssumption DEF Slots
  <2> QED BY <1>2, <1>4, <2>1 DEF SidesInv, DataOK, consumerVars
<1>6. available' = available + Len(pItems)
  <2>1. available' = IF m_inPos' < m_outPos THEN m_inPos' - m_outPos + m_bufSize ELSE m_inPos' - m_outPos
    BY <1>1, <1>2, <1>4 DEF available, Dist, Slots
  <2> QED BY <1>1, <1>3, <1>4, <2>1, BufSizeAssumption DEF Slots
<1>7. ProducerInv'
  BY <1>2 DEF ProducerInv
<1>8. ConsumerInv'
  <2>1. available <= available'
    BY <1>1, <1>3, <1>6
  <2> QED BY <1>2, <1>5, <2>1, ProducerLeavesConsumer DEF SidesInv
<1> QED BY <1>5, <1>6, <1>7, <1>8 DEF SidesInv

\* Steps of the consumer.

\* The steps that begin a call only look.
LEMMA ConsumerCallInv == SidesInv /\ ConsumerCall => SidesInv'
<1> SUFFICES ASSUME SidesInv, ConsumerCall PROVE SidesInv'
  OBVIOUS
<1>1. /\ m_inPos \in Slots
      /\ m_outPos \in Slots
      /\ available \in 0 .. m_bufSize - 1
      /\ available = Dist(m_outPos, m_inPos)
      /\ m_inPos # m_outPos => available >= 1
  <2>1. available = IF m_inPos < m_outPos THEN m_inPos - m_outPos + m_bufSize ELSE m_inPos - m_outPos
    BY Positions DEF SidesInv
  <2> QED BY <2>1, Positions, BufSizeAssumption DEF SidesInv, Slots, available
<1>2. UNCHANGED <<bufferVars, producerVars>> /\ available' = available
  BY DEF ConsumerCall, pop, pop_n, flush, for_each, for_each_rev_requeue, available, bufferVars, Dist
<1>3. ProducerInv'
  BY <1>2 DEF SidesInv, ProducerInv, bufferVars, producerVars, Slot
<1>4. <<>> \in Seq(Vals)
  OBVIOUS
<1>5. CASE pop
  <2>1. DataOK'
    BY <1>2, <1>4, <1>5 DEF SidesInv, DataOK, pop, bufferVars, producerVars
  <2>2. ConsumerInv'
    BY <1>1, <1>2, <1>5 DEF ConsumerInv, InRev, pop
  <2> QED BY <1>3, <2>1, <2>2 DEF SidesInv
<1>6. CASE pop_n
  <2>1. cCount' \in 1 .. available
    BY <1>1, <1>6, BufSizeAssumption DEF pop_n, Least
  <2>2. DataOK'
    BY <1>1, <1>2, <1>4, <1>6, <2>1 DEF SidesInv, DataOK, pop_n, bufferVars, producerVars
  <2>3. ConsumerInv'
    BY <1>1, <1>2, <1>6, <2>1 DEF ConsumerInv, InRev, pop_n
  <2> QED BY <1>3, <2>2, <2>3 DEF SidesInv
<1>7. CASE flush
  <2>1. DataOK'
    BY <1>2, <1>4, <1>7 DEF SidesInv, DataOK, flush, bufferVars, producerVars
  <2>2. ConsumerInv'
    BY <1>1, <1>2, <1>7 DEF ConsumerInv, InRev, flush, available, bufferVars, Dist
  <2> QED BY <1>3, <2>1, <2>2 DEF SidesInv
<1>8. CASE for_each
  <2>1. DataOK'
    BY <1>2, <1>4, <1>8 DEF SidesInv, DataOK, for_each, bufferVars, producerVars
  <2>2. Dist(m_outPos, cIn)' = available
    BY <1>2, <1>8 DEF for_each, available, bufferVars, Dist
  <2>3. ConsumerInv'
    BY <1>1, <1>2, <1>8, <2>2 DEF ConsumerInv, InRev, for_each
  <2> QED BY <1>3, <2>1, <2>3 DEF SidesInv
<1>9. CASE for_each_rev_requeue
  <2>1. DataOK'
    BY <1>2, <1>4, <1>9 DEF SidesInv, DataOK, for_each_rev_requeue, bufferVars, producerVars
  <2>2. /\ Dist(m_outPos, cIn)' = available
        /\ Dist(m_outPos, cPos)' = available
        /\ Dist(m_outPos, cOut)' = available
    BY <1>2, <1>9 DEF for_each_rev_requeue, available, bufferVars, Dist
  <2>3. ConsumerInv'
    BY <1>1, <1>2, <1>9, <2>2 DEF ConsumerInv, InRev, for_each_rev_requeue, bufferVars
  <2> QED BY <1>3, <2>1, <2>3 DEF SidesInv
<1> QED BY <1>5, <1>6, <1>7, <1>8, <1>9 DEF ConsumerCall

\* When a call returns, there is nothing left to say about the consumer.
LEMMA ReturnInv ==
  ASSUME SidesInv, ConsumerReturns, UNCHANGED <<m_buffer, m_inPos, producerVars>>,
         m_outPos' \in Slots, got' \in Seq(Vals), available' <= available
  PROVE  SidesInv'
<1>1. DataOK'
  <2>1. 0 \in Slots /\ 0 \in Nat /\ <<>> \in Seq(Vals)
    BY BufSizeAssumption DEF Slots
  <2> QED BY <2>1 DEF SidesInv, DataOK, ConsumerReturns, producerVars
<1>2. ProducerInv'
  BY <1>1, ConsumerLeavesProducer DEF SidesInv
<1>3. ConsumerInv'
  BY DEF ConsumerInv, ConsumerReturns, InRev
<1> QED BY <1>1, <1>2, <1>3 DEF SidesInv

\* Giving n elements back makes n slots of room.
LEMMA OutMoves ==
  ASSUME DataOK, NEW n \in 0 .. available, m_outPos' = Slot(m_outPos, n), m_inPos' = m_inPos
  PROVE  m_outPos' \in Slots /\ available' = available - n
<1>1. m_outPos' \in Slots /\ Dist(m_outPos', m_inPos) = available - n
  BY StepAhead DEF DataOK, available
<1> QED BY <1>1 DEF available, Dist

\* The consumer reads what is there, which stays there until it stores m_outPos.
LEMMA ReadInv == SidesInv /\ read => SidesInv'
<1> SUFFICES ASSUME SidesInv, read PROVE SidesInv'
  OBVIOUS
<1>1. /\ m_outPos \in Slots
      /\ available \in 0 .. m_bufSize - 1
      /\ cCount \in 1 .. available
  BY Positions DEF SidesInv, ConsumerInv, read
<1>2. /\ available' = available
      /\ cpc' = "store"
      /\ UNCHANGED <<bufferVars, producerVars, cIn, cCount, cPos, cOut, got>>
  BY DEF read, available, bufferVars, Dist
<1> DEFINE n == Least(cCount, m_bufSize - m_outPos)
<1>3. cVals' = [i \in 1 .. cCount |-> IF i <= n THEN m_buffer[m_outPos + i - 1] ELSE m_buffer[i - n - 1]]
  BY DEF read
<1>4. ASSUME NEW i \in 1 .. cCount PROVE cVals'[i] = m_buffer[Slot(m_outPos, i - 1)] /\ cVals'[i] \in Vals
  <2>1. i - 1 \in 0 .. m_bufSize
    BY <1>1, BufSizeAssumption
  <2>2. /\ Slot(m_outPos, i - 1) \in Slots
        /\ Slot(m_outPos, i - 1) = IF m_outPos + (i - 1) >= m_bufSize THEN m_outPos + (i - 1) - m_bufSize ELSE m_outPos + (i - 1)
    BY <1>1, <2>1, SlotIs
  <2>3. Slot(m_outPos, i - 1) = IF i <= n THEN m_outPos + i - 1 ELSE i - n - 1
    BY <1>1, <2>2, BufSizeAssumption DEF Slots, Least
  <2> QED BY <1>3, <2>2, <2>3 DEF SidesInv, DataOK
<1>5. cVals' \in Seq(Vals) /\ Len(cVals') = cCount
  BY <1>1, <1>3, <1>4, BufSizeAssumption
<1>6. DataOK'
  BY <1>2, <1>5 DEF SidesInv, DataOK, bufferVars, producerVars
<1>7. ProducerInv'
  BY <1>2 DEF SidesInv, ProducerInv, bufferVars, producerVars, Slot
<1>8. ConsumerInv'
  <2>1. \A i : Slot(m_outPos, i)' = Slot(m_outPos, i)
    BY <1>2 DEF bufferVars, Slot
  <2> QED BY <1>1, <1>2, <1>4, <1>5, <2>1 DEF ConsumerInv, InRev, bufferVars
<1> QED BY <1>6, <1>7, <1>8 DEF SidesInv

\* m_outPos moves over what was read.
LEMMA StoreInv == SidesInv /\ store => SidesInv' /\ available' = available - cCount
<1> SUFFICES ASSUME SidesInv, store PROVE SidesInv' /\ available' = available - cCount
  OBVIOUS
<1>1. cCount \in 1 .. available /\ available \in Nat
  BY Positions DEF SidesInv, ConsumerInv, store
<1>2. m_outPos' \in Slots /\ available' = available - cCount
  BY <1>1, OutMoves DEF SidesInv, store
<1>3. got' \in Seq(Vals)
  BY DEF SidesInv, DataOK, store
<1> QED BY <1>1, <1>2, <1>3, ReturnInv DEF store

\* flush() stores the m_inPos it read, which is not before m_outPos.
LEMMA FlushStoreInv == SidesInv /\ flushStore => SidesInv' /\ available' = available - Dist(m_outPos, cIn)
<1> SUFFICES ASSUME SidesInv, flushStore PROVE SidesInv' /\ available' = available - Dist(m_outPos, cIn)
  OBVIOUS
<1>1. /\ m_outPos \in Slots /\ cIn \in Slots /\ got \in Seq(Vals)
      /\ Dist(m_outPos, cIn) \in 0 .. available
      /\ available \in Nat
  <2>1. m_outPos \in Slots /\ cIn \in Slots /\ got \in Seq(Vals)
    BY DEF SidesInv, DataOK
  <2>2. Dist(m_outPos, cIn) \in Nat /\ available \in Nat
    BY <2>1, Positions, DistIs DEF SidesInv
  <2> QED BY <2>1, <2>2 DEF SidesInv, ConsumerInv, flushStore
<1>2. cIn = Slot(m_outPos, Dist(m_outPos, cIn))
  BY <1>1, SlotDist
<1>3. m_outPos' \in Slots /\ available' = available - Dist(m_outPos, cIn)
  BY <1>1, <1>2, OutMoves DEF SidesInv, flushStore
<1> QED BY <1>1, <1>3, ReturnInv DEF flushStore

\* for_each() calls the function for the slot at m_outPos.
LEMMA EachCallInv == SidesInv /\ eachCall => SidesInv'
<1> SUFFICES ASSUME SidesInv, eachCall PROVE SidesInv'
  OBVIOUS
<1>1. /\ UNCHANGED <<bufferVars, producerVars, cIn, cCount, cPos, cOut, got>>
      /\ cpc = "each" /\ cpc' = "eachStore"
      /\ cVals' = <<m_buffer[m_outPos]>>
  BY DEF eachCall
<1>2. m_buffer[m_outPos] \in Vals
  BY DEF SidesInv, DataOK
<1>3. DataOK'
  BY <1>1, <1>2 DEF SidesInv, DataOK, bufferVars, producerVars
<1>4. ProducerInv'
  BY <1>1 DEF SidesInv, ProducerInv, bufferVars, producerVars, Slot, available, Dist
<1>5. ConsumerInv'
  <2>1. available' = available /\ Dist(m_outPos, cIn)' = Dist(m_outPos, cIn)
    BY <1>1 DEF bufferVars, available, Dist
  <2> QED BY <1>1, <2>1 DEF SidesInv, ConsumerInv, InRev, bufferVars
<1> QED BY <1>3, <1>4, <1>5 DEF SidesInv

\* for_each() goes past it.
LEMMA EachStoreInv == SidesInv /\ eachStore => SidesInv' /\ available' = available - 1
<1> SUFFICES ASSUME SidesInv, eachStore PROVE SidesInv' /\ available' = available - 1
  OBVIOUS
<1>1. /\ m_outPos \in Slots /\ cIn \in Slots
      /\ Dist(m_outPos, cIn) \in 1 .. available
      /\ available \in Nat
  BY Positions DEF SidesInv, DataOK, ConsumerInv, eachStore
<1>2. m_outPos' \in Slots /\ available' = available - 1
  BY <1>1, OutMoves DEF SidesInv, eachStore
<1>3. got' \in Seq(Vals)
  BY DEF SidesInv, DataOK, eachStore
<1>4. CASE m_outPos' = cIn
  BY <1>1, <1>2, <1>3, <1>4, ReturnInv DEF eachStore
<1>5. CASE m_outPos' # cIn
  <2>1. /\ cpc' = "each" /\ cVals' = <<>>
        /\ UNCHANGED <<m_buffer, m_inPos, producerVars, cIn, cCount, cPos, cOut>>
    BY <1>5 DEF eachStore
  <2>2. DataOK'
    BY <1>2, <1>3, <2>1 DEF SidesInv, DataOK, producerVars
  <2>3. ProducerInv'
    BY <1>1, <1>2, <2>1, <2>2, ConsumerLeavesProducer DEF SidesInv
  <2>4. Dist(m_outPos', cIn) = Dist(m_outPos, cIn) - 1
    BY <1>1, StepAhead DEF eachStore
  <2>5. Dist(m_outPos', cIn) # 0
    <3>1. m_outPos' \in Slots /\ cIn \in Slots
      BY <1>1, <1>2
    <3> QED BY <3>1, <1>5, DistZero
  <2>6. Dist(m_outPos, cIn)' = Dist(m_outPos', cIn)
    BY <2>1 DEF Dist
  <2>7. ConsumerInv'
    BY <1>1, <1>2, <2>1, <2>4, <2>5, <2>6 DEF ConsumerInv, InRev
  <2> QED BY <1>2, <2>2, <2>3, <2>7 DEF SidesInv
<1> QED BY <1>4, <1>5

\* for_each_rev_requeue() drops the last element it has not visited, or packs it at the end.
LEMMA RevCallInv == SidesInv /\ revCall => SidesInv'
<1> SUFFICES ASSUME SidesInv, revCall PROVE SidesInv'
  OBVIOUS
<1> DEFINE pPos == Slot(cPos, m_bufSize - 1)
           pOut == Slot(cOut, m_bufSize - 1)
<1>1. /\ m_inPos \in Slots /\ m_outPos \in Slots
      /\ cPos \in Slots /\ cOut \in Slots /\ cIn \in Slots
      /\ m_buffer \in [Slots -> Vals]
  BY DEF SidesInv, DataOK
<1>2. /\ cPos # m_outPos
      /\ Dist(m_outPos, cPos) <= Dist(m_outPos, cOut)
      /\ Dist(m_outPos, cOut) <= Dist(m_outPos, cIn)
      /\ Dist(m_outPos, cIn) <= available
  BY DEF SidesInv, ConsumerInv, InRev, revCall
<1>3. /\ Dist(m_outPos, cPos) \in 0 .. m_bufSize - 1
      /\ Dist(m_outPos, cOut) \in 0 .. m_bufSize - 1
      /\ Dist(m_outPos, cIn) \in 0 .. m_bufSize - 1
      /\ available \in 0 .. m_bufSize - 1
  BY <1>1, DistIs DEF available
<1>4. /\ pPos \in Slots
      /\ Dist(m_outPos, pPos) = Dist(m_outPos, cPos) - 1
      /\ Dist(m_outPos, pPos) \in 0 .. m_bufSize - 1
  BY <1>1, <1>2, StepBack, DistIs
<1>5. cOut # m_outPos
  <2>1. Dist(m_outPos, m_outPos) = 0
    BY <1>1, BufSizeAssumption DEF Dist, Slots
  <2>2. Dist(m_outPos, cOut) >= 1
    BY <1>2, <1>3, <1>4
  <2> QED BY <2>1, <2>2
<1>6. /\ pOut \in Slots
      /\ Dist(m_outPos, pOut) = Dist(m_outPos, cOut) - 1
      /\ Dist(m_outPos, pOut) < available
  BY <1>1, <1>2, <1>3, <1>5, StepBack
<1>7. /\ cPos' = pPos
      /\ \/ cOut' = cOut /\ m_buffer' = m_buffer
         \/ cOut' = pOut /\ m_buffer' = [m_buffer EXCEPT ![pOut] = m_buffer[pPos]]
      /\ cpc' = IF pPos # m_outPos THEN "rev" ELSE "revStore"
      /\ UNCHANGED <<m_inPos, m_outPos, producerVars, cIn, cCount, cVals, got>>
  BY DEF revCall
<1> HIDE DEF pPos, pOut
<1>8. DataOK'
  <2>1. m_buffer' \in [Slots -> Vals] /\ cOut' \in Slots
    BY <1>1, <1>4, <1>6, <1>7
  <2> QED BY <1>1, <1>4, <1>7, <2>1 DEF SidesInv, DataOK, producerVars
<1>9. available' = available
  BY <1>7 DEF available, Dist
<1>10. ASSUME NEW k \in Slots, Dist(m_outPos, k) >= available PROVE m_buffer'[k] = m_buffer[k]
  <2>1. k # pOut
    BY <1>3, <1>6, <1>10
  <2> QED BY <1>1, <1>7, <2>1
<1>11. ProducerInv'
  <2>1. m_buffer'[m_inPos] = m_buffer[m_inPos]
    BY <1>1, <1>3, <1>10 DEF available
  <2>2. ASSUME NEW i \in 0 .. m_bufSize - 1 - available - 1
        PROVE  m_buffer'[Slot(m_inPos, i)] = m_buffer[Slot(m_inPos, i)]
    <3>1. i \in 0 .. m_bufSize
      BY <1>3, BufSizeAssumption
    <3>2. /\ Slot(m_inPos, i) \in Slots
          /\ Slot(m_inPos, i) = IF m_inPos + i >= m_bufSize THEN m_inPos + i - m_bufSize ELSE m_inPos + i
      BY <1>1, <3>1, SlotIs
    <3>3. available = IF m_inPos < m_outPos THEN m_inPos - m_outPos + m_bufSize ELSE m_inPos - m_outPos
      BY Positions DEF SidesInv
    <3>4. Dist(m_outPos, Slot(m_inPos, i)) >= available
      <4>1. Dist(m_outPos, Slot(m_inPos, i)) =
              IF Slot(m_inPos, i) < m_outPos THEN Slot(m_inPos, i) - m_outPos + m_bufSize ELSE Slot(m_inPos, i) - m_outPos
        BY <1>1, <3>2, DistIs
      <4> QED BY <1>1, <1>3, <3>1, <3>2, <3>3, <4>1, BufSizeAssumption DEF Slots
    <3> QED BY <1>10, <3>2, <3>4
  <2>3. available' <= available
    BY <1>3, <1>9
  <2> QED BY <1>7, <1>8, <2>1, <2>2, <2>3, ConsumerLeavesProducer DEF SidesInv
<1>12. ConsumerInv'
  <2>1. /\ Dist(m_outPos, cPos)' = Dist(m_outPos, cPos) - 1
        /\ Dist(m_outPos, cOut)' = Dist(m_outPos, cOut) \/ Dist(m_outPos, cOut)' = Dist(m_outPos, cOut) - 1
        /\ Dist(m_outPos, cIn)' = Dist(m_outPos, cIn)
    BY <1>4, <1>6, <1>7 DEF Dist
  <2>2. /\ Dist(m_outPos, cPos)' <= Dist(m_outPos, cOut)'
        /\ Dist(m_outPos, cOut)' <= Dist(m_outPos, cIn)'
        /\ Dist(m_outPos, cIn)' <= available'
    BY <1>2, <1>3, <1>9, <2>1
  <2> QED BY <1>7, <2>2 DEF ConsumerInv, InRev
<1> QED BY <1>8, <1>11, <1>12 DEF SidesInv

\* for_each_rev_requeue() stores where the packed elements begin.
LEMMA RevStoreInv == SidesInv /\ revStore => SidesInv' /\ available' = available - Dist(m_outPos, cOut)
<1> SUFFICES ASSUME SidesInv, revStore PROVE SidesInv' /\ available' = available - Dist(m_outPos, cOut)
  OBVIOUS
<1>1. /\ m_outPos \in Slots /\ cOut \in Slots /\ got \in Seq(Vals)
      /\ Dist(m_outPos, cOut) \in 0 .. available
      /\ available \in Nat
  <2>1. m_outPos \in Slots /\ cOut \in Slots /\ cIn \in Slots /\ got \in Seq(Vals)
    BY DEF SidesInv, DataOK
  <2>2. Dist(m_outPos, cOut) \in Nat /\ Dist(m_outPos, cIn) \in Nat /\ available \in Nat
    BY <2>1, Positions, DistIs DEF SidesInv
  <2> QED BY <2>1, <2>2 DEF SidesInv, ConsumerInv, InRev, revStore
<1>2. cOut = Slot(m_outPos, Dist(m_outPos, cOut))
  BY <1>1, SlotDist
<1>3. m_outPos' \in Slots /\ available' = available - Dist(m_outPos, cOut)
  BY <1>1, <1>2, OutMoves DEF SidesInv, revStore
<1> QED BY <1>1, <1>3, ReturnInv DEF revStore

-----------------------------------------------------------------------------
\* SidesInv reads nothing but the variables.
LEMMA StutterInv == SidesInv /\ UNCHANGED vars => SidesInv'
BY DEF SidesInv, DataOK, ProducerInv, ConsumerInv, InRev, vars, bufferVars, producerVars,
       consumerVars, available, Dist, Slot

\* SidesInv is inductive.
LEMMA NextSides == SidesInv /\ [Next]_vars => SidesInv'
BY CallPushInv, CallPushNInv, PushpeekInv, PushInv, PushNInv, CopyInv, PublishInv,
   ConsumerCallInv, ReadInv, StoreInv, FlushStoreInv, EachCallInv, EachStoreInv,
   RevCallInv, RevStoreInv, StutterInv
   DEF Next, ProducerCall, ProducerStep, ConsumerStep

\* And the consumer is in one of the calls of circular_queue.h.
LEMMA NextInv == QueueInv /\ [Next]_vars => QueueInv'
<1> SUFFICES ASSUME QueueInv, [Next]_vars PROVE QueueInv'
  OBVIOUS
<1>1. SidesInv'
  BY NextSides DEF QueueInv, SidesInv, TypeOK
<1>2. cpc' \in {"idle", "read", "store", "skip", "flush", "each", "eachStore", "rev", "revStore"}
  BY DEF QueueInv, TypeOK, Next, ProducerCall, ProducerStep, ConsumerCall, ConsumerStep, vars, consumerVars,
         CallPush, CallPushN, pushpeek, push, push_n, copy, publish, ConsumerReturns, pop, pop_n, read, store,
         flush, flushStore, for_each, eachCall, eachStore, for_each_rev_requeue, revCall, revStore
<1> QED BY <1>1, <1>2 DEF QueueInv, SidesInv, TypeOK

\* The inductive invariant holds of every reachable state.
THEOREM Invariance == Spec => []QueueInv
<1>1. Init => QueueInv
  BY InitInv DEF SidesInv, QueueInv, TypeOK, Init
<1> QED BY <1>1, NextInv, PTL DEF Spec

\* Every variable keeps its type: no position ever leaves the buffer.
THEOREM TypeCorrect == Spec => []TypeOK
<1>1. QueueInv => TypeOK
  BY DEF QueueInv
<1> QED BY Invariance, <1>1, PTL

\* No slot is written by one side of circular_queue.h while the other may use it.
THEOREM SlotsApart == Spec => []NoSharedSlot
<1>1. QueueInv => NoSharedSlot
  <2> SUFFICES ASSUME SidesInv PROVE NoSharedSlot
    BY DEF QueueInv, SidesInv, TypeOK
  <2>1. /\ m_inPos \in Slots
        /\ m_outPos \in Slots
        /\ available \in 0 .. m_bufSize - 1
        /\ available = IF m_inPos < m_outPos THEN m_inPos - m_outPos + m_bufSize ELSE m_inPos - m_outPos
    BY Positions DEF SidesInv
  <2>2. Copying \cap Taken = {}
    <3> SUFFICES ASSUME NEW k \in Slots, ppc = "copy", Dist(m_inPos, k) < Len(pItems), Dist(m_outPos, k) < available
                 PROVE  FALSE
      BY DEF Copying, Taken
    <3>1. Len(pItems) \in Nat /\ available + Len(pItems) < m_bufSize
      BY DEF SidesInv, DataOK, ProducerInv
    <3>2. /\ Dist(m_inPos, k) = IF k < m_inPos THEN k - m_inPos + m_bufSize ELSE k - m_inPos
          /\ Dist(m_outPos, k) = IF k < m_outPos THEN k - m_outPos + m_bufSize ELSE k - m_outPos
      BY <2>1, DistIs
    <3> QED BY <2>1, <3>1, <3>2, BufSizeAssumption DEF Slots
  <2>3. Working \subseteq Taken
    <3>1. CASE cpc = "read"
      <4>1. cCount \in 1 .. available
        BY <3>1 DEF SidesInv, ConsumerInv
      <4> SUFFICES ASSUME NEW k \in Slots, Dist(m_outPos, k) < cCount PROVE Dist(m_outPos, k) < available
        BY <3>1 DEF Working, Taken
      <4> QED BY <2>1, <4>1, DistIs
    <3>2. CASE cpc = "each"
      <4>1. available >= 1 /\ Dist(m_outPos, m_outPos) = 0
        <5>1. Dist(m_outPos, cIn) \in 1 .. available
          BY <3>2 DEF SidesInv, ConsumerInv
        <5> QED BY <2>1, <5>1, BufSizeAssumption DEF Dist, Slots
      <4> QED BY <2>1, <3>2, <4>1 DEF Working, Taken
    <3>3. CASE cpc = "rev"
      <4>1. Dist(m_outPos, cIn) <= available
        BY <3>3 DEF SidesInv, ConsumerInv, InRev
      <4>2. cIn \in Slots
        BY DEF SidesInv, DataOK
      <4> SUFFICES ASSUME NEW k \in Slots, Dist(m_outPos, k) < Dist(m_outPos, cIn)
                   PROVE  Dist(m_outPos, k) < available
        BY <3>3 DEF Working, Taken
      <4>3. Dist(m_outPos, k) \in Int /\ Dist(m_outPos, cIn) \in Int
        BY <2>1, <4>2, DistIs
      <4> QED BY <2>1, <4>1, <4>3
    <3> QED BY <3>1, <3>2, <3>3 DEF Working
  <2> QED BY <2>2, <2>3 DEF NoSharedSlot
<1> QED BY Invariance, <1>1, PTL


-----------------------------------------------------------------------------
\* Where the elements are.

\* Going i slots on and then j is going i + j on.
LEMMA SlotSlot ==
  ASSUME NEW p \in Slots, NEW i \in Nat, NEW j \in Nat, i + j <= m_bufSize
  PROVE  Slot(Slot(p, i), j) = Slot(p, i + j)
<1>1. i \in 0 .. m_bufSize /\ j \in 0 .. m_bufSize /\ i + j \in 0 .. m_bufSize
  BY BufSizeAssumption
<1>2. /\ Slot(p, i) \in Slots
      /\ Slot(p, i) = IF p + i >= m_bufSize THEN p + i - m_bufSize ELSE p + i
      /\ Slot(p, i + j) = IF p + (i + j) >= m_bufSize THEN p + (i + j) - m_bufSize ELSE p + (i + j)
  BY <1>1, SlotIs
<1>3. Slot(Slot(p, i), j) = IF Slot(p, i) + j >= m_bufSize THEN Slot(p, i) + j - m_bufSize ELSE Slot(p, i) + j
  BY <1>1, <1>2, SlotIs
<1> QED BY <1>1, <1>2, <1>3, BufSizeAssumption DEF Slots

\* Going on from a slot ahead.
LEMMA SlotFrom ==
  ASSUME NEW o \in Slots, NEW p \in Slots, NEW j \in Nat, Dist(o, p) + j < m_bufSize
  PROVE  /\ Slot(p, j) \in Slots
         /\ Slot(p, j) = Slot(o, Dist(o, p) + j)
         /\ Dist(o, Slot(p, j)) = Dist(o, p) + j
<1>1. Dist(o, p) \in Nat /\ Slot(o, Dist(o, p)) = p
  BY DistIs, SlotDist
<1>2. Slot(p, j) = Slot(o, Dist(o, p) + j)
  BY <1>1, SlotSlot, BufSizeAssumption
<1>3. j \in 0 .. m_bufSize /\ Dist(o, p) + j \in 0 .. m_bufSize - 1
  BY <1>1, BufSizeAssumption
<1> QED BY <1>2, <1>3, SlotIs, SlotDist

\* The three pieces of the queue, and how far ahead of m_outPos they begin.
ThePieces ==
  /\ Unvisited \in Nat /\ Kept \in Nat /\ Pushed \in Nat
  /\ InRev => /\ Unvisited = Dist(m_outPos, cPos)
              /\ Kept = Dist(m_outPos, cIn) - Dist(m_outPos, cOut)
              /\ Pushed = available - Dist(m_outPos, cIn)
              /\ Unvisited <= Dist(m_outPos, cOut)
              /\ Dist(m_outPos, cOut) \in Nat
              /\ Dist(m_outPos, cIn) \in 0 .. available
  /\ ~InRev => Unvisited = 0 /\ Kept = 0 /\ Pushed = available

\* What a queue in the middle of for_each_rev_requeue is made of.
LEMMA Pieces ==
  ASSUME SidesInv
  PROVE  ThePieces
<1>1. /\ m_inPos \in Slots /\ m_outPos \in Slots
      /\ cPos \in Slots /\ cOut \in Slots /\ cIn \in Slots
  BY DEF SidesInv, DataOK
<1>2. available = Dist(m_outPos, m_inPos) /\ available \in Nat
  BY Positions DEF SidesInv, available
<1>3. CASE ~InRev
  BY <1>2, <1>3 DEF ThePieces, Unvisited, Kept, Pushed
<1>4. CASE InRev
  <2>1. /\ Dist(m_outPos, cPos) <= Dist(m_outPos, cOut)
        /\ Dist(m_outPos, cOut) <= Dist(m_outPos, cIn)
        /\ Dist(m_outPos, cIn) <= available
    BY <1>4 DEF SidesInv, ConsumerInv
  <2>2. /\ Dist(m_outPos, cPos) \in Nat
        /\ Dist(m_outPos, cOut) \in Nat
        /\ Dist(m_outPos, cIn) \in Nat
    BY <1>1, DistIs
  <2>3. Dist(cOut, cIn) = Dist(m_outPos, cIn) - Dist(m_outPos, cOut)
    <3>1. Dist(m_outPos, cOut) \in 0 .. Dist(m_outPos, cIn) /\ Slot(m_outPos, Dist(m_outPos, cOut)) = cOut
      BY <1>1, <2>1, <2>2, SlotDist
    <3> QED BY <1>1, <3>1, StepAhead
  <2>4. Dist(cIn, m_inPos) = available - Dist(m_outPos, cIn)
    <3>1. Dist(m_outPos, cIn) \in 0 .. Dist(m_outPos, m_inPos) /\ Slot(m_outPos, Dist(m_outPos, cIn)) = cIn
      BY <1>1, <1>2, <2>1, <2>2, SlotDist
    <3> QED BY <1>1, <1>2, <3>1, StepAhead
  <2> QED BY <1>2, <1>4, <2>1, <2>2, <2>3, <2>4 DEF ThePieces, Unvisited, Kept, Pushed
<1> QED BY <1>3, <1>4

\* The same of the next state.
LEMMA PiecesNext == SidesInv' => ThePieces'
<1>1. SidesInv => ThePieces
  BY Pieces
<1> QED BY <1>1, PTL

\* An element is in the buffer, and its place tells where it is in the queue.
LEMMA PlaceIs ==
  ASSUME SidesInv, NEW i \in 1 .. Unvisited + Kept + Pushed
  PROVE  /\ Place(i) \in Slots
         /\ Dist(m_outPos, Place(i)) =
              IF i <= Unvisited THEN i - 1
              ELSE IF i <= Unvisited + Kept THEN Dist(m_outPos, cOut) + (i - Unvisited - 1)
              ELSE (IF InRev THEN Dist(m_outPos, cIn) ELSE 0) + (i - Unvisited - Kept - 1)
         /\ Dist(m_outPos, Place(i)) \in 0 .. available - 1
<1>1. /\ m_outPos \in Slots /\ cOut \in Slots /\ cIn \in Slots
      /\ available \in 0 .. m_bufSize - 1
      /\ Dist(m_outPos, m_outPos) = 0
  <2>1. /\ m_outPos \in Slots /\ cOut \in Slots /\ cIn \in Slots
        /\ available \in 0 .. m_bufSize - 1
    BY Positions DEF SidesInv, DataOK
  <2> QED BY <2>1, BufSizeAssumption DEF Dist, Slots
<1>2. /\ Unvisited \in Nat /\ Kept \in Nat /\ Pushed \in Nat
      /\ InRev => /\ Kept = Dist(m_outPos, cIn) - Dist(m_outPos, cOut)
                  /\ Pushed = available - Dist(m_outPos, cIn)
                  /\ Unvisited <= Dist(m_outPos, cOut)
                  /\ Dist(m_outPos, cOut) \in Nat
                  /\ Dist(m_outPos, cIn) \in 0 .. available
      /\ ~InRev => Unvisited = 0 /\ Kept = 0 /\ Pushed = available
  BY Pieces DEF ThePieces
<1>3. CASE i <= Unvisited
  <2>1. Place(i) = Slot(m_outPos, i - 1)
    BY <1>3 DEF Place
  <2>2. i - 1 \in Nat /\ i - 1 < available /\ Dist(m_outPos, m_outPos) + (i - 1) < m_bufSize
    BY <1>1, <1>2, <1>3, BufSizeAssumption
  <2>3. Slot(m_outPos, i - 1) \in Slots /\ Dist(m_outPos, Slot(m_outPos, i - 1)) = i - 1
    BY <1>1, <2>2, SlotFrom
  <2> QED BY <1>1, <1>3, <2>1, <2>2, <2>3
<1>4. CASE ~(i <= Unvisited) /\ i <= Unvisited + Kept
  <2>1. Place(i) = Slot(cOut, i - Unvisited - 1)
    BY <1>4 DEF Place
  <2>2. /\ i - Unvisited - 1 \in Nat
        /\ Dist(m_outPos, cOut) + (i - Unvisited - 1) \in 0 .. available - 1
    BY <1>1, <1>2, <1>4, BufSizeAssumption
  <2>3. Dist(m_outPos, cOut) + (i - Unvisited - 1) < m_bufSize
    BY <1>1, <2>2, BufSizeAssumption
  <2> QED BY <1>1, <1>4, <2>1, <2>2, <2>3, SlotFrom
<1>5. CASE ~(i <= Unvisited) /\ ~(i <= Unvisited + Kept)
  <2> DEFINE from == IF InRev THEN cIn ELSE m_outPos
             j == i - Unvisited - Kept - 1
  <2>1. Place(i) = Slot(from, j)
    BY <1>5 DEF Place
  <2>2. from \in Slots /\ Dist(m_outPos, from) = IF InRev THEN Dist(m_outPos, cIn) ELSE 0
    BY <1>1
  <2>3. j \in Nat /\ Dist(m_outPos, from) + j \in 0 .. available - 1 /\ Dist(m_outPos, from) + j < m_bufSize
    BY <1>1, <1>2, <1>5, <2>2, BufSizeAssumption
  <2> HIDE DEF from, j
  <2>4. Slot(from, j) \in Slots /\ Dist(m_outPos, Slot(from, j)) = Dist(m_outPos, from) + j
    BY <1>1, <2>2, <2>3, SlotFrom
  <2>5. Dist(m_outPos, Place(i)) = (IF InRev THEN Dist(m_outPos, cIn) ELSE 0) + (i - Unvisited - Kept - 1)
    BY <2>1, <2>2, <2>4 DEF j
  <2> QED BY <1>5, <2>1, <2>3, <2>4, <2>5
<1> QED BY <1>2, <1>3, <1>4, <1>5

TheContents ==
  /\ Contents \in Seq(Vals)
  /\ Len(Contents) = Unvisited + Kept + Pushed
  /\ \A i \in 1 .. Unvisited + Kept + Pushed : Contents[i] = m_buffer[Place(i)]

\* What Contents is: the elements at Place(1), Place(2), ...
LEMMA ContentsIs ==
  ASSUME SidesInv
  PROVE  TheContents
<1>1. Unvisited + Kept + Pushed \in Nat
  BY Pieces DEF ThePieces
<1>2. \A i \in 1 .. Unvisited + Kept + Pushed : m_buffer[Place(i)] \in Vals
  BY PlaceIs DEF SidesInv, DataOK
<1> QED BY <1>1, <1>2 DEF TheContents, Contents

\* And after a step.
LEMMA ContentsNext == SidesInv' => TheContents'
<1>1. SidesInv => TheContents
  BY ContentsIs
<1> QED BY <1>1, PTL

-----------------------------------------------------------------------------
\* When the queue shows the same.

\* Writing elsewhere in the buffer is not seen.
LEMMA ContentsUnmoved ==
  ASSUME SidesInv, UNCHANGED <<m_inPos, m_outPos, consumerVars>>,
         \A i \in 1 .. available : m_buffer'[Slot(m_outPos, i - 1)] = m_buffer[Slot(m_outPos, i - 1)]
  PROVE  Contents' = Contents
<1>1. ASSUME NEW k \in Slots, Dist(m_outPos, k) \in 0 .. available - 1
      PROVE  m_buffer'[k] = m_buffer[k]
  <2>1. Dist(m_outPos, k) + 1 \in 1 .. available
    BY <1>1, Positions DEF SidesInv
  <2>2. Slot(m_outPos, (Dist(m_outPos, k) + 1) - 1) = k
    <3>1. (Dist(m_outPos, k) + 1) - 1 = Dist(m_outPos, k)
      BY <1>1
    <3> QED BY <3>1, SlotDist DEF SidesInv, DataOK
  <2> QED BY <2>1, <2>2
<1>2. (Unvisited + Kept + Pushed)' = Unvisited + Kept + Pushed
  BY DEF Unvisited, Kept, Pushed, InRev, available, Dist, consumerVars
<1>3. ASSUME NEW i \in 1 .. Unvisited + Kept + Pushed PROVE Place(i)' = Place(i) /\ m_buffer'[Place(i)] = m_buffer[Place(i)]
  <2>1. Place(i)' = Place(i)
    BY DEF Place, Unvisited, Kept, InRev, Dist, Slot, consumerVars
  <2> QED BY <1>1, <2>1, PlaceIs
<1> QED BY <1>2, <1>3 DEF Contents

\* Outside for_each_rev_requeue only the buffer and the two positions count.
LEMMA ContentsPlain ==
  ASSUME UNCHANGED bufferVars, ~InRev, ~InRev'
  PROVE  Contents' = Contents
BY DEF bufferVars, Contents, Unvisited, Kept, Pushed, Place, available, Dist, Slot

-----------------------------------------------------------------------------
\* Steps of the producer.

\* A call of push() or push_n() offers elements.
LEMMA OfferStep ==
  ASSUME SidesInv, SidesInv', ProducerCall
  PROVE  Queue!Offer
<1>1. ppc = "idle" /\ ppc' # "idle" /\ UNCHANGED <<m_inPos, m_outPos, consumerVars>>
  BY DEF ProducerCall, CallPush, CallPushN, pushpeek, bufferVars
<1>2. pItems = <<>> /\ pItems' \in Seq(Vals) \ {<<>>}
  BY <1>1 DEF SidesInv, ProducerInv, DataOK
<1>3. \A i \in 1 .. available : m_buffer'[Slot(m_outPos, i - 1)] = m_buffer[Slot(m_outPos, i - 1)]
  <2>1. \A k \in Slots : k # m_inPos => m_buffer'[k] = m_buffer[k]
    BY DEF ProducerCall, CallPush, CallPushN, pushpeek, bufferVars, SidesInv, DataOK
  <2>2. ASSUME NEW i \in 1 .. available PROVE Slot(m_outPos, i - 1) \in Slots
    <3>1. m_outPos \in Slots /\ i - 1 \in 0 .. m_bufSize
      BY Positions, BufSizeAssumption DEF SidesInv
    <3> QED BY <3>1, SlotIs
  <2> QED BY <2>1, <2>2, FreeSlot DEF SidesInv
<1>4. Contents' = Contents
  BY <1>1, <1>3, ContentsUnmoved
<1>5. available' = available /\ got' = got
  BY <1>1 DEF available, Dist, consumerVars
<1> QED BY <1>2, <1>4, <1>5 DEF Queue!Offer

\* push_n gives up only what there is no room for.
LEMMA PushNCut ==
  ASSUME SidesInv, push_n
  PROVE  \/ pItems' = pItems
         \/ /\ available + Len(pItems) > m_bufSize - 1
            /\ pItems' = SubSeq(pItems, 1, m_bufSize - 1 - available)
<1>1. /\ m_inPos \in Slots
      /\ m_outPos \in Slots
      /\ available \in 0 .. m_bufSize - 1
      /\ available = IF m_inPos < m_outPos THEN m_inPos - m_outPos + m_bufSize ELSE m_inPos - m_outPos
  BY Positions DEF SidesInv
<1>2. Len(pItems) \in Nat \ {0} /\ pItems \in Seq(Vals)
  BY DEF SidesInv, ProducerInv, DataOK, push_n
<1>3. /\ blockRoom \in 0 .. m_bufSize - 1 - available
      /\ m_inPos + blockRoom <= m_bufSize
      /\ blockRoom = 0 => available = m_bufSize - 1
  BY RoomIs DEF SidesInv
<1> DEFINE size == Len(pItems)
           blockSize == Least(size, blockRoom)
           next == Slot(m_inPos, blockSize)
           rest == IF size = blockSize \/ m_outPos <= 1 THEN 0
                   ELSE Least(size - blockSize, m_outPos - next - 1)
           n == blockSize + rest
<1>4. blockSize \in 0 .. size /\ blockSize <= blockRoom /\ (blockSize < size => blockSize = blockRoom)
  BY <1>1, <1>2, <1>3, BufSizeAssumption DEF Least, Slots
<1>5. CASE blockSize = 0
  <2>1. pItems' = <<>> /\ available = m_bufSize - 1
    BY <1>2, <1>3, <1>4, <1>5 DEF push_n
  <2>2. SubSeq(pItems, 1, 0) = <<>>
    BY SubSeqEmpty
  <2> QED BY <1>2, <2>1, <2>2, BufSizeAssumption
<1>6. CASE blockSize # 0
  <2>1. pItems' = SubSeq(pItems, 1, n)
    BY <1>6 DEF push_n
  <2>2. n = size \/ (n < size /\ n = m_bufSize - 1 - available)
    <3>1. CASE size = blockSize
      BY <1>2, <3>1
    <3>2. CASE size # blockSize /\ m_outPos <= 1
      <4>1. blockRoom = m_bufSize - 1 - available
        BY <1>1, <1>3, <1>4, <1>6, <3>2, BufSizeAssumption DEF blockRoom, Slots
      <4> QED BY <1>1, <1>2, <1>4, <3>2, <4>1, BufSizeAssumption
    <3>3. CASE size # blockSize /\ ~(m_outPos <= 1)
      <4>0. blockSize = blockRoom /\ blockSize < size /\ rest = Least(size - blockSize, m_outPos - next - 1)
        BY <1>2, <1>4, <3>3
      <4>1. blockSize \in 0 .. m_bufSize
        BY <1>1, <1>3, <1>4, BufSizeAssumption
      <4>2. next = IF m_inPos + blockSize >= m_bufSize THEN m_inPos + blockSize - m_bufSize ELSE m_inPos + blockSize
        BY <1>1, <4>1, SlotIs
      <4> HIDE DEF rest, next, blockSize
      <4>3. CASE m_inPos < m_outPos
        <5>1. blockRoom = m_outPos - 1 - m_inPos
          BY <1>1, <4>3 DEF blockRoom, Slots
        <5>2. next = m_outPos - 1
          BY <1>1, <4>0, <4>2, <5>1, BufSizeAssumption DEF Slots
        <5>3. rest = 0
          BY <1>1, <1>2, <1>4, <4>0, <5>2 DEF Least, Slots
        <5> QED BY <1>1, <1>2, <1>4, <4>0, <4>3, <5>1, <5>3, BufSizeAssumption DEF Slots
      <4>4. CASE ~(m_inPos < m_outPos)
        <5>1. blockRoom = m_bufSize - m_inPos
          BY <1>1, <3>3, <4>4 DEF blockRoom, Slots
        <5>2. next = 0
          BY <1>1, <4>0, <4>2, <5>1, BufSizeAssumption DEF Slots
        <5>3. rest = size - blockSize \/ (rest = m_outPos - 1 /\ m_outPos - 1 < size - blockSize)
          BY <1>1, <1>2, <1>4, <4>0, <5>2 DEF Least, Slots
        <5> QED BY <1>1, <1>2, <1>4, <4>0, <4>4, <5>1, <5>3, BufSizeAssumption DEF Slots
      <4> QED BY <4>3, <4>4
    <3> QED BY <3>1, <3>2, <3>3
  <2>3. SubSeq(pItems, 1, size) = pItems
    BY <1>2, SubSeqFull
  <2> HIDE DEF n
  <2> QED BY <1>1, <1>2, <2>1, <2>2, <2>3, BufSizeAssumption
<1> QED BY <1>5, <1>6

\* Looking for room refuses what has none and is otherwise not seen.
LEMMA CheckStep ==
  ASSUME SidesInv, push \/ push_n
  PROVE  Queue!Refuse \/ UNCHANGED Queue!fifoVars
<1>1. UNCHANGED <<bufferVars, consumerVars>>
  BY DEF push, push_n
<1>2. Contents' = Contents /\ available' = available /\ got' = got
  BY <1>1, ContentsUnmoved DEF bufferVars, available, Dist, consumerVars
<1>3. pItems # <<>>
  BY DEF SidesInv, ProducerInv, push, push_n
<1>4. \/ pItems' = pItems
      \/ /\ available + Len(pItems) > m_bufSize - 1
         /\ pItems' = SubSeq(pItems, 1, m_bufSize - 1 - available)
  <2>1. CASE push_n
    BY <2>1, PushNCut
  <2>2. CASE push
    <3>1. CASE Slot(m_inPos, 1) # m_outPos
      BY <2>2, <3>1 DEF push
    <3>2. CASE Slot(m_inPos, 1) = m_outPos
      <4>1. /\ m_inPos \in Slots
            /\ m_outPos \in Slots
            /\ available = IF m_inPos < m_outPos THEN m_inPos - m_outPos + m_bufSize ELSE m_inPos - m_outPos
        BY Positions DEF SidesInv
      <4>2. Slot(m_inPos, 1) = IF m_inPos + 1 >= m_bufSize THEN m_inPos + 1 - m_bufSize ELSE m_inPos + 1
        BY <4>1, SlotIs, BufSizeAssumption
      <4>3. available = m_bufSize - 1
        BY <3>2, <4>1, <4>2, BufSizeAssumption DEF Slots
      <4>4. Len(pItems) = 1 /\ pItems' = <<>>
        BY <2>2, <3>2 DEF SidesInv, ProducerInv, push
      <4>5. SubSeq(pItems, 1, 0) = <<>>
        BY SubSeqEmpty
      <4> QED BY <4>3, <4>4, <4>5, BufSizeAssumption
    <3> QED BY <3>1, <3>2
  <2> QED BY <2>1, <2>2
<1> QED BY <1>2, <1>3, <1>4 DEF Queue!Refuse, Queue!fifoVars

\* What is written beyond m_inPos is not in the queue yet.
LEMMA CopyStep ==
  ASSUME SidesInv, copy
  PROVE  UNCHANGED Queue!fifoVars
<1>1. /\ UNCHANGED <<m_inPos, m_outPos, pItems, consumerVars>>
  BY DEF copy
<1>2. \A i \in 1 .. available : m_buffer'[Slot(m_outPos, i - 1)] = m_buffer[Slot(m_outPos, i - 1)]
  BY CopyKeepsElements
<1>3. Contents' = Contents
  BY <1>1, <1>2, ContentsUnmoved
<1> QED BY <1>1, <1>3 DEF Queue!fifoVars, available, Dist, consumerVars

\* Publishing appends the whole offer.
LEMMA PublishStep ==
  ASSUME SidesInv, SidesInv', publish
  PROVE  Queue!Put
<1> DEFINE U == Unvisited
           K == Kept
           P == Pushed
           L == Len(pItems)
<1>1. /\ UNCHANGED <<m_buffer, m_outPos, consumerVars>>
      /\ pItems' = <<>> /\ ppc = "publish"
      /\ available' = available + L
  BY PublishInv DEF publish
<1>2. /\ pItems \in Seq(Vals) /\ pItems # <<>> /\ L \in Nat
      /\ available + L < m_bufSize
      /\ \A i \in 1 .. L : m_buffer[Slot(m_inPos, i - 1)] = pItems[i]
  BY <1>1 DEF SidesInv, DataOK, ProducerInv
<1>3. /\ U \in Nat /\ K \in Nat /\ P \in Nat
      /\ Unvisited' = U /\ Kept' = K /\ Pushed' = P + L /\ InRev' = InRev
  <2>1. InRev' = InRev /\ Unvisited' = U /\ Kept' = K
    BY <1>1 DEF InRev, Unvisited, Kept, Dist, consumerVars
  <2>2. InRev => /\ P = available - Dist(m_outPos, cIn)
                 /\ Dist(m_outPos, cIn) \in Nat
    BY Pieces DEF ThePieces
  <2>3. InRev' => Pushed' = available' - Dist(m_outPos, cIn)'
    BY PiecesNext DEF ThePieces
  <2>4. Dist(m_outPos, cIn)' = Dist(m_outPos, cIn)
    BY <1>1 DEF Dist, consumerVars
  <2>5. ~InRev => P = available /\ Pushed' = available'
    BY <2>1 DEF Pushed
  <2>6. U \in Nat /\ K \in Nat /\ P \in Nat /\ available \in Nat
    BY Pieces, Positions DEF SidesInv, ThePieces
  <2>7. Pushed' = P + L
    <3>1. CASE InRev
      BY <1>1, <1>2, <2>1, <2>2, <2>3, <2>4, <2>6, <3>1
    <3>2. CASE ~InRev
      BY <1>1, <2>5, <3>2
    <3> QED BY <3>1, <3>2
  <2> QED BY <2>1, <2>6, <2>7
<1>4. /\ Contents \in Seq(Vals) /\ Len(Contents) = U + K + P
      /\ \A i \in 1 .. U + K + P : Contents[i] = m_buffer[Place(i)]
  BY ContentsIs DEF TheContents
<1>5. /\ Contents' \in Seq(Vals) /\ Len(Contents') = U + K + P + L
      /\ \A i \in 1 .. U + K + P + L : Contents'[i] = m_buffer[Place(i)']
  <2>1. U + K + (P + L) = U + K + P + L
    BY <1>2, <1>3
  <2> QED BY <1>1, <1>3, <2>1, ContentsNext DEF TheContents
<1>6. ASSUME NEW i \in Nat PROVE Place(i)' = Place(i)
  BY <1>1, <1>3 DEF Place, Slot, consumerVars
<1> HIDE DEF U, K, P, L
<1>7. /\ Contents \o pItems \in Seq(Vals)
      /\ Len(Contents \o pItems) = U + K + P + L
      /\ \A i \in 1 .. U + K + P + L : (Contents \o pItems)[i] =
           IF i <= U + K + P THEN Contents[i] ELSE pItems[i - (U + K + P)]
  <2>1. /\ Contents \o pItems \in Seq(Vals)
        /\ Len(Contents \o pItems) = Len(Contents) + Len(pItems)
        /\ \A i \in 1 .. Len(Contents) + Len(pItems) : (Contents \o pItems)[i] =
             IF i <= Len(Contents) THEN Contents[i] ELSE pItems[i - Len(Contents)]
    BY <1>2, <1>4, ConcatProperties
  <2> QED BY <1>4, <2>1 DEF L
<1>8. ASSUME NEW i \in 1 .. U + K + P + L PROVE Contents'[i] = (Contents \o pItems)[i]
  <2>0. i \in Nat /\ Contents'[i] = m_buffer[Place(i)]
    BY <1>2, <1>3, <1>5, <1>6
  <2>1. CASE i <= U + K + P
    <3>1. i \in 1 .. U + K + P
      BY <1>3, <2>1
    <3> QED BY <1>4, <1>7, <2>0, <2>1, <3>1
  <2>2. CASE ~(i <= U + K + P)
    <3> DEFINE j == i - (U + K + P)
    <3>1. j \in 1 .. L
      BY <1>2, <1>3, <2>2
    <3>2. Place(i) = Slot(m_inPos, j - 1)
      <4> DEFINE from == IF InRev THEN cIn ELSE m_outPos
      <4>1. Place(i) = Slot(from, P + (j - 1))
        <5>1. i - U - K - 1 = P + (j - 1) /\ ~(i <= U) /\ ~(i <= U + K)
          BY <1>3, <2>2
        <5> QED BY <5>1 DEF Place, U, K, from
      <4>2. from \in Slots /\ m_inPos \in Slots /\ P = Dist(from, m_inPos)
        <5>1. cIn \in Slots /\ m_outPos \in Slots /\ m_inPos \in Slots
          BY DEF SidesInv, DataOK
        <5> QED BY <5>1 DEF Pushed, available, from, P
      <4>3. P + (j - 1) \in Nat /\ P + (j - 1) < m_bufSize
        <5>1. P <= available /\ available \in Nat
          BY Pieces, Positions DEF SidesInv, ThePieces, P
        <5> QED BY <1>2, <1>3, <3>1, <5>1, BufSizeAssumption
      <4> HIDE DEF from, j
      <4>4. j - 1 \in Nat
        BY <1>2, <3>1 DEF j
      <4>5. Slot(m_inPos, j - 1) = Slot(from, P + (j - 1))
        BY <4>2, <4>3, <4>4, SlotFrom
      <4> QED BY <4>1, <4>5
    <3>3. Contents'[i] = m_buffer[Slot(m_inPos, j - 1)]
      BY <2>0, <3>2
    <3>4. (Contents \o pItems)[i] = pItems[j]
      BY <1>7, <2>2
    <3> QED BY <1>2, <3>1, <3>3, <3>4
  <2> QED BY <2>1, <2>2
<1>9. Contents' = Contents \o pItems
  <2>1. Len(Contents') = Len(Contents \o pItems)
    BY <1>5, <1>7
  <2>2. \A i \in 1 .. Len(Contents') : Contents'[i] = (Contents \o pItems)[i]
    BY <1>5, <1>8
  <2> QED BY <1>5, <1>7, <2>1, <2>2, SeqEqual
<1>10. available + L <= m_bufSize - 1 /\ got' = got
  BY <1>1, <1>2, Positions, BufSizeAssumption DEF SidesInv, consumerVars
<1> QED BY <1>1, <1>2, <1>9, <1>10 DEF Queue!Put, L

-----------------------------------------------------------------------------
\* Steps of the consumer.

\* A call of the consumer forgets what the last one took.
LEMMA CallStep ==
  ASSUME SidesInv, SidesInv', ConsumerCall
  PROVE  Queue!Forget
<1>1. /\ UNCHANGED <<bufferVars, pItems>> /\ got' = <<>> /\ ~InRev
  BY DEF ConsumerCall, pop, pop_n, flush, for_each, for_each_rev_requeue, producerVars, InRev
<1>2. available' = available
  BY <1>1 DEF available, bufferVars, Dist
<1>3. Contents' = Contents
  <2>1. CASE ~for_each_rev_requeue
    <3>1. ~InRev'
      BY <2>1 DEF ConsumerCall, pop, pop_n, flush, for_each, InRev
    <3> QED BY <1>1, <3>1, ContentsPlain
  <2>2. CASE for_each_rev_requeue
    <3>1. /\ InRev' /\ cIn' = m_inPos /\ cPos' = m_inPos /\ cOut' = m_inPos
      BY <2>2 DEF for_each_rev_requeue, InRev
    <3>2. m_inPos \in Slots /\ m_outPos \in Slots /\ available \in Nat
      BY Positions DEF SidesInv
    <3>3. Unvisited' = available /\ Kept' = 0 /\ Pushed' = 0
      <4>1. Dist(m_inPos, m_inPos) = 0
        BY <3>2, BufSizeAssumption DEF Dist, Slots
      <4>2. Unvisited' = Dist(m_outPos, m_inPos)
        BY <1>1, <3>1 DEF Unvisited, bufferVars, Dist
      <4>3. Kept' = Dist(m_inPos, m_inPos)
        BY <3>1 DEF Kept, Dist
      <4>4. Pushed' = Dist(m_inPos, m_inPos)
        BY <1>1, <3>1 DEF Pushed, bufferVars, Dist
      <4> QED BY <4>1, <4>2, <4>3, <4>4 DEF available
    <3>4. Unvisited = 0 /\ Kept = 0 /\ Pushed = available
      BY <1>1, Pieces DEF ThePieces
    <3>5. ASSUME NEW i \in 1 .. available PROVE Place(i)' = Place(i)
      <4>1. Place(i)' = Slot(m_outPos, i - 1)
        BY <1>1, <3>2, <3>3 DEF Place, bufferVars, Slot
      <4>2. Place(i) = Slot(m_outPos, i - 1)
        BY <1>1, <3>2, <3>4 DEF Place
      <4> QED BY <4>1, <4>2
    <3>6. (Unvisited + Kept + Pushed)' = available /\ Unvisited + Kept + Pushed = available
      BY <3>2, <3>3, <3>4
    <3> QED BY <1>1, <3>5, <3>6 DEF Contents, bufferVars
  <2> QED BY <2>1, <2>2
<1> QED BY <1>1, <1>2, <1>3 DEF Queue!Forget

\* Reading changes nothing.
LEMMA LookStep ==
  ASSUME SidesInv, read \/ eachCall
  PROVE  UNCHANGED Queue!fifoVars
<1>1. UNCHANGED <<bufferVars, pItems, got>> /\ ~InRev /\ ~InRev'
  BY DEF read, eachCall, InRev, producerVars
<1>2. Contents' = Contents
  BY <1>1, ContentsPlain
<1> QED BY <1>1, <1>2 DEF Queue!fifoVars, available, bufferVars, Dist

\* The queue in order, outside for_each_rev_requeue.
LEMMA PlainContents ==
  ASSUME SidesInv, ~InRev
  PROVE  /\ Contents \in Seq(Vals)
         /\ Len(Contents) = available
         /\ available \in Nat
         /\ \A i \in 1 .. available : Contents[i] = m_buffer[Slot(m_outPos, i - 1)]
<1>1. Unvisited = 0 /\ Kept = 0 /\ Pushed = available /\ available \in Nat
  BY Pieces, Positions DEF SidesInv, ThePieces
<1>2. \A i \in 1 .. available : Place(i) = Slot(m_outPos, i - 1)
  BY <1>1 DEF Place
<1> QED BY <1>1, <1>2, ContentsIs DEF TheContents

ThePlainContents ==
  /\ Contents \in Seq(Vals)
  /\ Len(Contents) = available
  /\ \A i \in 1 .. available : Contents[i] = m_buffer[Slot(m_outPos, i - 1)]

\* And after a step.
LEMMA PlainContentsNext == SidesInv' /\ ~InRev' => ThePlainContents'
<1>1. SidesInv /\ ~InRev => ThePlainContents
  BY PlainContents DEF ThePlainContents
<1> QED BY <1>1, PTL

\* When the consumer moves on, the front of the queue goes.
LEMMA FrontGoes ==
  ASSUME SidesInv, SidesInv', ~InRev, ~InRev', UNCHANGED <<m_buffer, m_inPos>>,
         NEW n \in 0 .. available, m_outPos' = Slot(m_outPos, n)
  PROVE  /\ Contents' = SubSeq(Contents, n + 1, Len(Contents))
         /\ available' = available - n
         /\ Len(Contents) = available
<1>1. /\ Contents \in Seq(Vals) /\ Len(Contents) = available
      /\ \A i \in 1 .. available : Contents[i] = m_buffer[Slot(m_outPos, i - 1)]
  BY PlainContents
<1>2. available' = available - n
  BY OutMoves DEF SidesInv
<1>3. /\ Contents' \in Seq(Vals) /\ Len(Contents') = available - n
      /\ \A i \in 1 .. available - n : Contents'[i] = m_buffer[Slot(m_outPos, i - 1)']
  BY <1>2, PlainContentsNext DEF ThePlainContents
<1>4. available \in 0 .. m_bufSize - 1 /\ n \in Nat /\ m_outPos \in Slots
  BY Positions DEF SidesInv
<1>5. ASSUME NEW i \in 1 .. available - n PROVE Contents'[i] = Contents[n + i]
  <2>1. Slot(m_outPos, i - 1)' = Slot(Slot(m_outPos, n), i - 1)
    BY DEF Slot
  <2>2. i - 1 \in Nat /\ n + (i - 1) <= m_bufSize /\ n + i \in 1 .. available
    BY <1>4, BufSizeAssumption
  <2>3. Slot(Slot(m_outPos, n), i - 1) = Slot(m_outPos, n + (i - 1))
    BY <1>4, <2>2, SlotSlot
  <2>4. Contents[n + i] = m_buffer[Slot(m_outPos, (n + i) - 1)] /\ (n + i) - 1 = n + (i - 1)
    BY <1>1, <1>4, <2>2
  <2> QED BY <1>3, <2>1, <2>3, <2>4
<1>6. /\ SubSeq(Contents, n + 1, available) \in Seq(Vals)
      /\ Len(SubSeq(Contents, n + 1, available)) = available - n
      /\ \A i \in 1 .. available - n : SubSeq(Contents, n + 1, available)[i] = Contents[n + i]
  <2>1. n + 1 \in Int /\ available \in Int /\ available - (n + 1) + 1 = available - n
    BY <1>4
  <2>2. \A i \in n + 1 .. available : Contents[i] \in Vals
    BY <1>1, <1>4
  <2>3. /\ SubSeq(Contents, n + 1, available) \in Seq(Vals)
        /\ Len(SubSeq(Contents, n + 1, available)) = IF n + 1 <= available THEN available - (n + 1) + 1 ELSE 0
        /\ \A i \in 1 .. available - (n + 1) + 1 : SubSeq(Contents, n + 1, available)[i] = Contents[(n + 1) + i - 1]
    BY <2>1, <2>2, SubSeqProperties
  <2>4. Len(SubSeq(Contents, n + 1, available)) = available - n
    BY <1>4, <2>3
  <2>5. \A i \in 1 .. available - n : (n + 1) + i - 1 = n + i
    BY <1>4
  <2> QED BY <2>1, <2>3, <2>4, <2>5
<1>7. Contents' = SubSeq(Contents, n + 1, available)
  BY <1>3, <1>5, <1>6, SeqEqual
<1> QED BY <1>1, <1>2, <1>7

\* The store of pop() and pop_n() takes what was read off the front.
LEMMA StoreStep ==
  ASSUME SidesInv, SidesInv', store
  PROVE  \E n \in 1 .. Len(Contents) : Queue!Take(n) \/ Queue!Discard(n)
<1>1. /\ UNCHANGED <<m_buffer, m_inPos, pItems>> /\ ~InRev /\ ~InRev'
      /\ m_outPos' = Slot(m_outPos, cCount)
  BY DEF store, InRev, producerVars, ConsumerReturns
<1>2. cCount \in 1 .. available /\ available \in Nat
  BY Positions DEF store, SidesInv, ConsumerInv
<1>3. /\ Contents' = SubSeq(Contents, cCount + 1, Len(Contents))
      /\ available' = available - cCount
      /\ Len(Contents) = available
  <2>1. cCount \in 0 .. available
    BY <1>2
  <2> QED BY <1>1, <2>1, FrontGoes
<1>4. CASE cpc = "skip"
  <2>1. got' = <<>>
    BY <1>4 DEF store
  <2> QED BY <1>1, <1>2, <1>3, <2>1 DEF Queue!Discard
<1>5. CASE cpc = "store"
  <2>1. got' = cVals /\ cVals \in Seq(Vals) /\ Len(cVals) = cCount
    BY <1>5 DEF store, SidesInv, DataOK, ConsumerInv
  <2>2. \A i \in 1 .. cCount : cVals[i] = m_buffer[Slot(m_outPos, i - 1)]
    BY <1>5 DEF SidesInv, ConsumerInv
  <2>3. /\ Contents \in Seq(Vals)
        /\ \A i \in 1 .. available : Contents[i] = m_buffer[Slot(m_outPos, i - 1)]
    BY <1>1, PlainContents
  <2>4. /\ SubSeq(Contents, 1, cCount) \in Seq(Vals)
        /\ Len(SubSeq(Contents, 1, cCount)) = cCount
        /\ \A i \in 1 .. cCount : SubSeq(Contents, 1, cCount)[i] = Contents[i]
    <3>1. \A i \in 1 .. cCount : Contents[i] \in Vals
      BY <1>2, <1>3, <2>3
    <3>2. /\ SubSeq(Contents, 1, cCount) \in Seq(Vals)
          /\ Len(SubSeq(Contents, 1, cCount)) = IF 1 <= cCount THEN cCount - 1 + 1 ELSE 0
          /\ \A i \in 1 .. cCount - 1 + 1 : SubSeq(Contents, 1, cCount)[i] = Contents[1 + i - 1]
      BY <1>2, <3>1, SubSeqProperties
    <3>3. cCount - 1 + 1 = cCount /\ \A i \in 1 .. cCount : 1 + i - 1 = i
      BY <1>2
    <3> QED BY <1>2, <3>2, <3>3
  <2>5. \A i \in 1 .. cCount : cVals[i] = SubSeq(Contents, 1, cCount)[i]
    BY <1>2, <2>2, <2>3, <2>4
  <2>6. cVals = SubSeq(Contents, 1, cCount)
    BY <2>1, <2>4, <2>5, SeqEqual
  <2> QED BY <1>1, <1>2, <1>3, <2>1, <2>6 DEF Queue!Take
<1> QED BY <1>4, <1>5 DEF store

\* The store of flush() discards what was there when it was called.
LEMMA FlushStep ==
  ASSUME SidesInv, SidesInv', flushStore
  PROVE  (\E n \in 1 .. Len(Contents) : Queue!Discard(n)) \/ UNCHANGED Queue!fifoVars
<1> DEFINE n == Dist(m_outPos, cIn)
<1>1. /\ UNCHANGED <<m_buffer, m_inPos, pItems, got>> /\ ~InRev /\ ~InRev'
      /\ m_outPos' = cIn
  BY DEF flushStore, InRev, producerVars, ConsumerReturns
<1>2. m_outPos \in Slots /\ cIn \in Slots /\ available \in Nat
  BY Positions DEF SidesInv, DataOK
<1>3. n \in 0 .. available /\ cIn = Slot(m_outPos, n)
  <2>1. n \in Nat /\ cIn = Slot(m_outPos, n)
    BY <1>2, DistIs, SlotDist
  <2> QED BY <1>2, <2>1 DEF flushStore, SidesInv, ConsumerInv
<1> HIDE DEF n
<1>4. /\ Contents' = SubSeq(Contents, n + 1, Len(Contents))
      /\ available' = available - n
      /\ Len(Contents) = available
  BY <1>1, <1>3, FrontGoes
<1>5. CASE n = 0
  <2>1. Contents \in Seq(Vals)
    BY <1>1, PlainContents
  <2>2. SubSeq(Contents, 1, Len(Contents)) = Contents
    BY <2>1, SubSeqFull
  <2> QED BY <1>1, <1>2, <1>4, <1>5, <2>2 DEF Queue!fifoVars
<1>6. CASE n # 0
  <2>1. n \in 1 .. Len(Contents)
    BY <1>2, <1>3, <1>4, <1>6
  <2> QED BY <1>1, <1>4, <2>1 DEF Queue!Discard
<1> QED BY <1>5, <1>6

\* for_each() takes one element at a time.
LEMMA EachStoreStep ==
  ASSUME SidesInv, SidesInv', eachStore
  PROVE  1 \in 1 .. Len(Contents) /\ Queue!Take(1)
<1>1. /\ UNCHANGED <<m_buffer, m_inPos, pItems>> /\ ~InRev /\ ~InRev'
      /\ m_outPos' = Slot(m_outPos, 1)
      /\ got' = cVals
  BY DEF eachStore, InRev, producerVars, ConsumerReturns
<1>2. m_outPos \in Slots /\ available \in Nat /\ available >= 1
  BY Positions DEF eachStore, SidesInv, ConsumerInv
<1>3. /\ Contents' = SubSeq(Contents, 2, Len(Contents))
      /\ available' = available - 1
      /\ Len(Contents) = available
  BY <1>1, <1>2, FrontGoes
<1>4. cVals = <<m_buffer[m_outPos]>>
  BY DEF eachStore, SidesInv, ConsumerInv
<1>5. Contents \in Seq(Vals) /\ Contents[1] = m_buffer[m_outPos]
  <2>1. Contents \in Seq(Vals) /\ Contents[1] = m_buffer[Slot(m_outPos, 0)]
    BY <1>1, <1>2, PlainContents
  <2>2. Slot(m_outPos, 0) = m_outPos
    BY <1>2, SlotIs, BufSizeAssumption DEF Slots
  <2> QED BY <2>1, <2>2
<1>6. SubSeq(Contents, 1, 1) = <<Contents[1]>>
  <2>1. Contents[1] \in Vals
    BY <1>2, <1>3, <1>5
  <2>2. /\ SubSeq(Contents, 1, 1) \in Seq(Vals)
        /\ Len(SubSeq(Contents, 1, 1)) = 1
        /\ \A i \in 1 .. 1 : SubSeq(Contents, 1, 1)[i] = Contents[1 + i - 1]
    BY <2>1, SubSeqProperties
  <2>3. <<Contents[1]>> \in Seq(Vals) /\ Len(<<Contents[1]>>) = 1
    BY <2>1
  <2>4. \A i \in 1 .. 1 : SubSeq(Contents, 1, 1)[i] = <<Contents[1]>>[i]
    BY <2>2
  <2> QED BY <2>2, <2>3, <2>4, SeqEqual
<1> QED BY <1>1, <1>2, <1>3, <1>4, <1>5, <1>6 DEF Queue!Take

\* for_each_rev_requeue takes the last element not yet visited: it drops it, or
\* makes it the first of those it keeps.
LEMMA RevCallStep ==
  ASSUME SidesInv, SidesInv', revCall
  PROVE  (\E k \in 1 .. Len(Contents) : Queue!Drop(k)) \/ UNCHANGED Queue!fifoVars
<1> DEFINE pPos == Slot(cPos, m_bufSize - 1)
           pOut == Slot(cOut, m_bufSize - 1)
           dOut == Dist(m_outPos, cOut)
           dIn  == Dist(m_outPos, cIn)
           U == Unvisited
           K == Kept
           P == Pushed
<1>1. /\ cPos' = pPos
      /\ \/ cOut' = cOut /\ m_buffer' = m_buffer
         \/ cOut' = pOut /\ m_buffer' = [m_buffer EXCEPT ![pOut] = m_buffer[pPos]]
      /\ InRev /\ InRev'
      /\ UNCHANGED <<m_inPos, m_outPos, pItems, cIn, got>>
  BY DEF revCall, InRev, producerVars
<1>2. /\ m_outPos \in Slots /\ cPos \in Slots /\ cOut \in Slots /\ cIn \in Slots
      /\ m_buffer \in [Slots -> Vals]
  BY DEF SidesInv, DataOK
<1>3. /\ U \in Nat /\ K \in Nat /\ P \in Nat
      /\ U = Dist(m_outPos, cPos) /\ K = dIn - dOut /\ P = available - dIn
      /\ U <= dOut /\ dOut \in Nat /\ dIn \in 0 .. available /\ available \in 0 .. m_bufSize - 1
  BY <1>1, Pieces, Positions DEF SidesInv, ThePieces
<1>4. cPos # m_outPos /\ U >= 1
  <2>1. cPos # m_outPos
    BY DEF revCall, SidesInv, ConsumerInv
  <2> QED BY <1>2, <1>3, <2>1, DistZero
<1>5. pPos \in Slots /\ Dist(m_outPos, pPos) = U - 1
  BY <1>2, <1>3, <1>4, StepBack
<1>6. pOut \in Slots /\ Dist(m_outPos, pOut) = dOut - 1
  <2>1. Dist(m_outPos, m_outPos) = 0
    BY <1>2, BufSizeAssumption DEF Dist, Slots
  <2>2. cOut # m_outPos
    BY <1>3, <1>4, <2>1
  <2> QED BY <1>2, <2>2, StepBack
<1>7. /\ Contents \in Seq(Vals) /\ Len(Contents) = U + K + P
      /\ \A i \in 1 .. U + K + P : Contents[i] = m_buffer[Place(i)]
  BY ContentsIs DEF TheContents
<1>8. available' = available /\ Unvisited' = U - 1 /\ Pushed' = P
  <2>1. available' = available
    BY <1>1 DEF available, Dist
  <2>2. Unvisited' = Dist(m_outPos, pPos)
    BY <1>1 DEF Unvisited, Dist
  <2>3. Pushed' = P
    BY <1>1 DEF Pushed, Dist
  <2> QED BY <1>5, <2>1, <2>2, <2>3
<1>9. Kept' = Dist(m_outPos', cIn') - Dist(m_outPos', cOut')
  <2>1. Kept' = Dist(m_outPos, cIn)' - Dist(m_outPos, cOut)'
    BY <1>1, PiecesNext DEF ThePieces
  <2> QED BY <2>1 DEF Dist
<1> HIDE DEF pPos, pOut, dOut, dIn, U, K, P
<1>10. CASE cOut' = pOut /\ m_buffer' = [m_buffer EXCEPT ![pOut] = m_buffer[pPos]]
  <2>1. Kept' = K + 1
    BY <1>1, <1>3, <1>6, <1>9, <1>10 DEF dOut, dIn
  <2>2. /\ Contents' \in Seq(Vals) /\ Len(Contents') = U + K + P
        /\ \A i \in 1 .. U + K + P : Contents'[i] = m_buffer'[Place(i)']
    <3>1. (U - 1) + (K + 1) + P = U + K + P
      BY <1>3
    <3> QED BY <1>8, <2>1, <3>1, ContentsNext DEF TheContents, U, K, P
  <2>3. ASSUME NEW i \in 1 .. U + K + P PROVE Contents'[i] = Contents[i]
    <3>1. CASE i = U
      <4>1. Place(i) = pPos
        <5>1. Place(i) \in Slots /\ Dist(m_outPos, Place(i)) = i - 1
          BY <3>1, PlaceIs DEF U, K, P
        <5> QED BY <1>2, <1>5, <3>1, <5>1, SlotDist
      <4>2. Place(i)' = pOut
        <5>1. ~(i <= U - 1) /\ i <= (U - 1) + (K + 1) /\ i - (U - 1) - 1 = 0
          BY <1>3, <3>1
        <5>2. Place(i)' = Slot(pOut, 0)
          BY <1>8, <1>10, <2>1, <5>1 DEF Place, Slot, U, K
        <5> QED BY <1>6, <5>2, SlotIs, BufSizeAssumption DEF Slots
      <4> QED BY <1>2, <1>5, <1>6, <1>7, <1>10, <2>2, <4>1, <4>2
    <3>2. CASE i # U
      <4>1. Place(i)' = Place(i)
        <5>1. CASE i < U
          BY <1>1, <1>3, <1>8, <5>1 DEF Place, Slot, U, K
        <5>2. CASE i > U /\ i <= U + K
          <6>1. Place(i) = Slot(cOut, i - U - 1)
            BY <1>3, <5>2 DEF Place, U, K
          <6>2. Place(i)' = Slot(pOut, i - (U - 1) - 1)
            <7>1. ~(i <= U - 1) /\ i <= (U - 1) + (K + 1)
              BY <1>3, <5>2
            <7> QED BY <1>8, <1>10, <2>1, <7>1 DEF Place, Slot, U, K
          <6>3. /\ i - U - 1 \in Nat /\ i - (U - 1) - 1 \in Nat
                /\ dOut + (i - U - 1) < m_bufSize
                /\ (dOut - 1) + (i - (U - 1) - 1) = dOut + (i - U - 1)
            BY <1>3, <5>2, BufSizeAssumption
          <6>4. Slot(cOut, i - U - 1) = Slot(m_outPos, dOut + (i - U - 1))
            BY <1>2, <6>3, SlotFrom DEF dOut
          <6>5. Slot(pOut, i - (U - 1) - 1) = Slot(m_outPos, (dOut - 1) + (i - (U - 1) - 1))
            BY <1>2, <1>6, <6>3, SlotFrom
          <6> QED BY <6>1, <6>2, <6>3, <6>4, <6>5
        <5>3. CASE i > U + K
          <6>1. /\ ~(i <= U) /\ ~(i <= U + K) /\ ~(i <= U - 1) /\ ~(i <= (U - 1) + (K + 1))
                /\ i - (U - 1) - (K + 1) - 1 = i - U - K - 1
            BY <1>3, <5>3
          <6> QED BY <1>1, <1>8, <2>1, <6>1 DEF Place, Slot, U, K
        <5> QED BY <1>3, <3>2, <5>1, <5>2, <5>3
      <4>2. Place(i) \in Slots /\ Place(i) # pOut
        <5>1. /\ Place(i) \in Slots
              /\ Dist(m_outPos, Place(i)) =
                   IF i <= U THEN i - 1
                   ELSE IF i <= U + K THEN dOut + (i - U - 1)
                   ELSE dIn + (i - U - K - 1)
          BY <1>1, PlaceIs DEF U, K, P, dOut, dIn
        <5>2. Dist(m_outPos, Place(i)) # dOut - 1
          BY <1>3, <3>2, <5>1
        <5> QED BY <1>6, <5>1, <5>2
      <4> QED BY <1>2, <1>7, <1>10, <2>2, <4>1, <4>2
    <3> QED BY <3>1, <3>2
  <2>4. Contents' = Contents
    BY <1>7, <2>2, <2>3, SeqEqual
  <2> QED BY <1>1, <1>8, <2>4 DEF Queue!fifoVars
<1>11. CASE cOut' = cOut /\ m_buffer' = m_buffer
  <2>1. Kept' = K
    BY <1>1, <1>3, <1>9, <1>11 DEF dOut, dIn
  <2> DEFINE before == SubSeq(Contents, 1, U - 1)
             after  == SubSeq(Contents, U + 1, Len(Contents))
  <2>2. /\ Contents' \in Seq(Vals) /\ Len(Contents') = (U - 1) + K + P
        /\ \A i \in 1 .. (U - 1) + K + P : Contents'[i] = m_buffer[Place(i)']
    BY <1>8, <1>11, <2>1, ContentsNext DEF TheContents, U, K, P
  <2>3. /\ before \in Seq(Vals) /\ Len(before) = U - 1
        /\ \A i \in 1 .. U - 1 : before[i] = Contents[i]
    <3>1. \A i \in 1 .. U - 1 : Contents[i] \in Vals
      BY <1>3, <1>7
    <3>2. /\ before \in Seq(Vals)
          /\ Len(before) = IF 1 <= U - 1 THEN (U - 1) - 1 + 1 ELSE 0
          /\ \A i \in 1 .. (U - 1) - 1 + 1 : before[i] = Contents[1 + i - 1]
      BY <1>3, <3>1, SubSeqProperties
    <3>3. (U - 1) - 1 + 1 = U - 1 /\ \A i \in 1 .. U - 1 : 1 + i - 1 = i
      BY <1>3
    <3>4. Len(before) = U - 1
      BY <1>3, <1>4, <3>2
    <3> QED BY <3>2, <3>3, <3>4
  <2>4. /\ after \in Seq(Vals) /\ Len(after) = K + P
        /\ \A i \in 1 .. K + P : after[i] = Contents[U + i]
    <3>1. \A i \in U + 1 .. U + K + P : Contents[i] \in Vals
      BY <1>3, <1>7
    <3>2. /\ after \in Seq(Vals)
          /\ Len(after) = IF U + 1 <= U + K + P THEN (U + K + P) - (U + 1) + 1 ELSE 0
          /\ \A i \in 1 .. (U + K + P) - (U + 1) + 1 : after[i] = Contents[(U + 1) + i - 1]
      <4>1. U + 1 \in Int /\ U + K + P \in Int
        BY <1>3
      <4> QED BY <1>7, <3>1, <4>1, SubSeqProperties
    <3>3. (U + K + P) - (U + 1) + 1 = K + P /\ \A i \in 1 .. K + P : (U + 1) + i - 1 = U + i
      BY <1>3
    <3>4. (IF U + 1 <= U + K + P THEN (U + K + P) - (U + 1) + 1 ELSE 0) = K + P
      BY <1>3
    <3> QED BY <3>2, <3>3, <3>4
  <2> HIDE DEF before, after
  <2>5. /\ before \o after \in Seq(Vals)
        /\ Len(before \o after) = (U - 1) + (K + P)
        /\ \A i \in 1 .. (U - 1) + (K + P) : (before \o after)[i] =
             IF i <= U - 1 THEN before[i] ELSE after[i - (U - 1)]
    BY <2>3, <2>4, ConcatProperties
  <2>6. (U - 1) + (K + P) = (U - 1) + K + P
    BY <1>3
  <2>7. ASSUME NEW i \in 1 .. (U - 1) + K + P PROVE Contents'[i] = (before \o after)[i]
    <3>1. CASE i < U
      <4>1. Place(i)' = Place(i)
        BY <1>1, <1>3, <1>8, <3>1 DEF Place, Slot, U, K
      <4>2. i \in 1 .. U + K + P /\ i \in 1 .. U - 1
        BY <1>3, <3>1
      <4>3. (before \o after)[i] = before[i]
        BY <1>3, <2>5, <2>6, <3>1
      <4> QED BY <1>7, <2>2, <2>3, <4>1, <4>2, <4>3
    <3>2. CASE i >= U
      <4>1. Place(i)' = Place(i + 1)
        <5>1. CASE i + 1 <= U + K
          <6>1. ~(i <= U - 1) /\ i <= (U - 1) + K /\ ~(i + 1 <= U) /\ i - (U - 1) - 1 = (i + 1) - U - 1
            BY <1>3, <3>2, <5>1
          <6> QED BY <1>8, <1>11, <2>1, <5>1, <6>1 DEF Place, Slot, U, K
        <5>2. CASE ~(i + 1 <= U + K)
          <6>1. ~(i <= U - 1) /\ ~(i <= (U - 1) + K) /\ ~(i + 1 <= U) /\ i - (U - 1) - K - 1 = (i + 1) - U - K - 1
            BY <1>3, <3>2, <5>2
          <6> QED BY <1>1, <1>8, <2>1, <5>2, <6>1 DEF Place, Slot, U, K
        <5> QED BY <5>1, <5>2
      <4>2. i + 1 \in 1 .. U + K + P /\ i - (U - 1) \in 1 .. K + P /\ U + (i - (U - 1)) = i + 1
        BY <1>3, <3>2
      <4>3. (before \o after)[i] = after[i - (U - 1)]
        <5>1. i \in 1 .. (U - 1) + (K + P)
          BY <2>6
        <5>2. ~(i <= U - 1)
          BY <1>3, <3>2
        <5> QED BY <2>5, <5>1, <5>2
      <4> QED BY <1>7, <2>2, <2>4, <4>1, <4>2, <4>3
    <3>3. i < U \/ i >= U
      BY <1>3
    <3> QED BY <3>1, <3>2, <3>3
  <2>8. Contents' = before \o after
    BY <2>2, <2>5, <2>6, <2>7, SeqEqual
  <2>9. U \in 1 .. Len(Contents)
    BY <1>3, <1>4, <1>7
  <2>10. Queue!Drop(U)
    BY <1>1, <1>8, <2>8 DEF Queue!Drop, before, after
  <2> QED BY <2>9, <2>10
<1> QED BY <1>1, <1>10, <1>11

\* At last the places of the dropped elements are given back.
LEMMA RevStoreStep ==
  ASSUME SidesInv, SidesInv', revStore
  PROVE  Queue!GiveBack
<1> DEFINE dOut == Dist(m_outPos, cOut)
           dIn  == Dist(m_outPos, cIn)
           K == Kept
           P == Pushed
<1>1. /\ m_outPos' = cOut /\ InRev /\ ~InRev' /\ cPos = m_outPos
      /\ UNCHANGED <<m_buffer, m_inPos, pItems, got>>
  BY DEF revStore, InRev, producerVars, ConsumerReturns, SidesInv, ConsumerInv
<1>2. /\ m_outPos \in Slots /\ cOut \in Slots /\ cIn \in Slots
      /\ available \in 0 .. m_bufSize - 1
  BY Positions DEF SidesInv, DataOK
<1>3. /\ Unvisited = 0 /\ K \in Nat /\ P \in Nat
      /\ K = dIn - dOut /\ P = available - dIn
      /\ dOut \in Nat /\ dIn \in 0 .. available
  <2>1. Dist(m_outPos, m_outPos) = 0
    BY <1>2, BufSizeAssumption DEF Dist, Slots
  <2> QED BY <1>1, <2>1, Pieces DEF ThePieces
<1>4. available' = available - dOut
  BY RevStoreInv
<1> HIDE DEF dOut, dIn, K, P
<1>5. /\ Contents \in Seq(Vals) /\ Len(Contents) = K + P
      /\ \A i \in 1 .. K + P : Contents[i] = m_buffer[Place(i)]
  <2>1. 0 + K + P = K + P
    BY <1>3
  <2> QED BY <1>3, <2>1, ContentsIs DEF TheContents, K, P
<1>6. available' = K + P
  BY <1>2, <1>3, <1>4
<1>7. /\ Contents' \in Seq(Vals) /\ Len(Contents') = K + P
      /\ \A i \in 1 .. K + P : Contents'[i] = m_buffer[Slot(cOut, i - 1)]
  <2>1. \A i : Slot(m_outPos, i - 1)' = Slot(cOut, i - 1)
    BY <1>1 DEF Slot
  <2> QED BY <1>1, <1>6, <2>1, PlainContentsNext DEF ThePlainContents
<1>8. ASSUME NEW i \in 1 .. K + P PROVE Place(i) = Slot(cOut, i - 1)
  <2>1. CASE i <= K
    <3>1. ~(i <= 0) /\ i <= 0 + K /\ i - 0 - 1 = i - 1
      BY <1>3, <2>1
    <3> QED BY <1>3, <3>1 DEF Place, K
  <2>2. CASE i > K
    <3>1. ~(i <= 0) /\ ~(i <= 0 + K) /\ i - 0 - K - 1 = i - K - 1
      BY <1>3, <2>2
    <3>2. Place(i) = Slot(cIn, i - K - 1)
      BY <1>1, <1>3, <3>1 DEF Place, K
    <3>3. /\ i - K - 1 \in Nat /\ i - 1 \in Nat
          /\ dIn + (i - K - 1) < m_bufSize
          /\ dOut + (i - 1) < m_bufSize
          /\ dIn + (i - K - 1) = dOut + (i - 1)
      BY <1>2, <1>3, <2>2, BufSizeAssumption
    <3>4. Slot(cIn, i - K - 1) = Slot(m_outPos, dIn + (i - K - 1))
      BY <1>2, <3>3, SlotFrom DEF dIn
    <3>5. Slot(cOut, i - 1) = Slot(m_outPos, dOut + (i - 1))
      BY <1>2, <3>3, SlotFrom DEF dOut
    <3> QED BY <3>2, <3>3, <3>4, <3>5
  <2>3. i <= K \/ i > K
    BY <1>3
  <2> QED BY <2>1, <2>2, <2>3
<1>9. Contents' = Contents
  <2>1. \A i \in 1 .. K + P : Contents'[i] = Contents[i]
    BY <1>5, <1>7, <1>8
  <2> QED BY <1>5, <1>7, <2>1, SeqEqual
<1> QED BY <1>1, <1>5, <1>6, <1>9 DEF Queue!GiveBack

-----------------------------------------------------------------------------
\* circular_queue.h is a queue: for every size of the buffer, with one producer
\* and one consumer at any points of their calls, elements leave in the order they
\* came, none is lost, doubled or changed, and a push is refused only for want of
\* room.
THEOREM IsQueue == Spec => IsFifo
<1>1. Init => Queue!FifoInit
  <2> SUFFICES ASSUME Init PROVE Queue!FifoInit
    OBVIOUS
  <2>1. pItems = <<>> /\ got = <<>> /\ m_inPos = 0 /\ m_outPos = 0 /\ ~InRev
    BY DEF Init, InRev
  <2>2. available = 0
    BY <2>1, BufSizeAssumption DEF available, Dist
  <2>3. Contents = <<>>
    <3>1. Contents \in Seq(Vals) /\ Len(Contents) = 0
      BY <2>1, <2>2, InitInv, PlainContents
    <3> QED BY <3>1
  <2> QED BY <2>1, <2>2, <2>3 DEF Queue!FifoInit
<1>2. QueueInv /\ QueueInv' /\ [Next]_vars => [Queue!FifoNext]_(Queue!fifoVars)
  <2> SUFFICES ASSUME SidesInv, SidesInv', [Next]_vars
               PROVE  [Queue!FifoNext]_(Queue!fifoVars)
    BY DEF QueueInv, SidesInv, TypeOK
  <2>1. CASE ProducerCall
    BY <2>1, OfferStep DEF Queue!FifoNext
  <2>2. CASE push \/ push_n
    BY <2>2, CheckStep DEF Queue!FifoNext
  <2>3. CASE copy
    BY <2>3, CopyStep
  <2>4. CASE publish
    BY <2>4, PublishStep DEF Queue!FifoNext
  <2>5. CASE ConsumerCall
    BY <2>5, CallStep DEF Queue!FifoNext
  <2>6. CASE read \/ eachCall
    BY <2>6, LookStep
  <2>7. CASE store
    BY <2>7, StoreStep DEF Queue!FifoNext
  <2>8. CASE flushStore
    BY <2>8, FlushStep DEF Queue!FifoNext
  <2>9. CASE eachStore
    BY <2>9, EachStoreStep DEF Queue!FifoNext
  <2>10. CASE revCall
    BY <2>10, RevCallStep DEF Queue!FifoNext
  <2>11. CASE revStore
    BY <2>11, RevStoreStep DEF Queue!FifoNext
  <2>12. CASE UNCHANGED vars
    <3>1. UNCHANGED <<m_inPos, m_outPos, consumerVars>> /\ m_buffer' = m_buffer /\ pItems' = pItems
      BY <2>12 DEF vars, bufferVars, producerVars
    <3>2. Contents' = Contents
      BY <3>1, ContentsUnmoved
    <3> QED BY <3>1, <3>2 DEF Queue!fifoVars, available, Dist, consumerVars
  <2> QED BY <2>1, <2>2, <2>3, <2>4, <2>5, <2>6, <2>7, <2>8, <2>9, <2>10, <2>11, <2>12
          DEF Next, ProducerStep, ConsumerStep
<1> QED BY <1>1, <1>2, Invariance, PTL DEF Spec, IsFifo, Queue!FifoSpec

-----------------------------------------------------------------------------
(* circular_queue_mp.h: producers that take turns, and a consumer that     *)
(* requeues, lose no element as long as no push begins while               *)
(* for_each_requeue runs.                                                  *)

\* The elements of a queue q are those of the buffer b from o up to p.
Queued(q, o, p, b) == /\ q \in Seq(Vals) /\ Len(q) = Dist(o, p)
                      /\ \A i \in 1 .. Len(q) : q[i] = b[Slot(o, i - 1)]

\* The oldest element that is still owed: from the moment that the callback has
\* answered until m_outPos is stored, the one behind m_outPos.
First == IF cpc = "requeueStore" THEN Slot(m_outPos, 1) ELSE m_outPos
OwedInv == Queued(owed, First, m_inPos, m_buffer)

\* Who holds the mutex pushes.
MutexInv == m_pushMtx <=> ppc # "idle"

\* for_each_requeue has its end ahead of it, and while a push is at work the
\* queue that a requeue has filled is not taken for an empty one.
RequeueInv ==
  /\ cpc \in {"idle", "read", "store", "requeue", "requeueWait", "requeueStore"}
  /\ cpc \in {"requeue", "requeueWait"} => m_outPos # cIn
  /\ InRequeue => Dist(First, cIn) <= Dist(First, m_inPos)
  /\ cpc \in {"read", "store"} => cCount = 1
  /\ cpc = "requeueStore" /\ ppc # "idle" => m_inPos # m_outPos

MPInv == SidesInv /\ OwedInv /\ MutexInv /\ RequeueInv

-----------------------------------------------------------------------------
\* The queue in the buffer.

\* Another buffer with the same elements.
LEMMA QueuedThere ==
  ASSUME NEW q, NEW o \in Slots, NEW p \in Slots, NEW b, NEW c, Queued(q, o, p, b),
         \A i \in 1 .. Dist(o, p) : c[Slot(o, i - 1)] = b[Slot(o, i - 1)]
  PROVE  Queued(q, o, p, c)
BY DEF Queued

\* Without its first element.
LEMMA QueuedTail ==
  ASSUME NEW q, NEW o \in Slots, NEW p \in Slots, NEW b, Queued(q, o, p, b), o # p
  PROVE  /\ q # <<>> /\ Head(q) = b[o] /\ Head(q) \in Vals
         /\ Slot(o, 1) \in Slots /\ Dist(Slot(o, 1), p) = Dist(o, p) - 1
         /\ Queued(Tail(q), Slot(o, 1), p, b)
<1>1. Dist(o, p) \in 0 .. m_bufSize - 1 /\ Dist(o, p) # 0
  BY DistIs, DistZero
<1>2. Dist(o, p) \in Nat \ {0} /\ Dist(o, p) < m_bufSize /\ 1 \in 0 .. Dist(o, p)
  BY <1>1, BufSizeAssumption
<1>3. Slot(o, 1) \in Slots /\ Dist(Slot(o, 1), p) = Dist(o, p) - 1
  BY <1>2, StepAhead
<1>4. q \in Seq(Vals) /\ Len(q) = Dist(o, p) /\ \A i \in 1 .. Len(q) : q[i] = b[Slot(o, i - 1)]
  BY DEF Queued
<1>5. q # <<>> /\ Head(q) = q[1] /\ q[1] \in Vals
  BY <1>2, <1>4
<1>6. Slot(o, 0) = o
  BY SlotIs, BufSizeAssumption DEF Slots
<1>7. Head(q) = b[o]
  BY <1>2, <1>4, <1>5, <1>6
<1>8. /\ Tail(q) \in Seq(Vals) /\ Len(Tail(q)) = Len(q) - 1
      /\ \A i \in 1 .. Len(q) - 1 : Tail(q)[i] = q[i + 1]
  BY <1>4, <1>5
<1>9. ASSUME NEW i \in 1 .. Len(q) - 1 PROVE Tail(q)[i] = b[Slot(Slot(o, 1), i - 1)]
  <2> DEFINE n == Len(q)
  <2>0. n \in Nat /\ n < m_bufSize /\ i \in 1 .. n - 1
    BY <1>2, <1>4
  <2> HIDE DEF n
  <2>3. i + 1 \in 1 .. n /\ i - 1 \in Nat /\ 1 + (i - 1) = i /\ i <= m_bufSize /\ (i + 1) - 1 = i
    BY <2>0, BufSizeAssumption
  <2>1. i + 1 \in 1 .. Len(q) /\ i - 1 \in Nat /\ 1 + (i - 1) = i /\ i <= m_bufSize /\ (i + 1) - 1 = i
    BY <2>3 DEF n
  <2>2. Slot(Slot(o, 1), i - 1) = Slot(o, i)
    BY <2>1, SlotSlot
  <2> QED BY <1>4, <1>8, <2>1, <2>2
<1> QED BY <1>3, <1>4, <1>5, <1>7, <1>8, <1>9 DEF Queued

\* With more elements behind it.
LEMMA QueuedMore ==
  ASSUME NEW q, NEW o \in Slots, NEW p \in Slots, NEW b, Queued(q, o, p, b),
         NEW more \in Seq(Vals), Dist(o, p) + Len(more) < m_bufSize,
         \A j \in 1 .. Len(more) : b[Slot(p, j - 1)] = more[j]
  PROVE  /\ Slot(p, Len(more)) \in Slots /\ Dist(o, Slot(p, Len(more))) = Dist(o, p) + Len(more)
         /\ Queued(q \o more, o, Slot(p, Len(more)), b)
<1>1. Len(more) \in Nat /\ Dist(o, p) \in Nat
  BY DistIs
<1>2. Slot(p, Len(more)) \in Slots /\ Dist(o, Slot(p, Len(more))) = Dist(o, p) + Len(more)
  BY <1>1, SlotFrom
<1>3. q \in Seq(Vals) /\ Len(q) = Dist(o, p) /\ \A i \in 1 .. Len(q) : q[i] = b[Slot(o, i - 1)]
  BY DEF Queued
<1>4. /\ q \o more \in Seq(Vals) /\ Len(q \o more) = Len(q) + Len(more)
      /\ \A i \in 1 .. Len(q) + Len(more) : (q \o more)[i] = IF i <= Len(q) THEN q[i] ELSE more[i - Len(q)]
  BY <1>3, ConcatProperties
<1>5. ASSUME NEW i \in 1 .. Len(q) + Len(more) PROVE (q \o more)[i] = b[Slot(o, i - 1)]
  <2>1. CASE i <= Len(q)
    <3>1. i \in 1 .. Len(q)
      BY <1>1, <1>3, <2>1
    <3> QED BY <1>3, <1>4, <2>1, <3>1
  <2>2. CASE ~(i <= Len(q))
    <3> DEFINE j == i - Len(q)
    <3>1. /\ j \in 1 .. Len(more) /\ j - 1 \in Nat /\ Dist(o, p) + (j - 1) < m_bufSize
          /\ Dist(o, p) + (j - 1) = i - 1
      BY <1>1, <1>3, <2>2, BufSizeAssumption
    <3>2. (q \o more)[i] = more[j]
      BY <1>4, <2>2
    <3> HIDE DEF j
    <3>3. Slot(p, j - 1) = Slot(o, Dist(o, p) + (j - 1))
      BY <3>1, SlotFrom
    <3> QED BY <3>1, <3>2, <3>3
  <2> QED BY <2>1, <2>2
<1> QED BY <1>2, <1>3, <1>4, <1>5 DEF Queued

\* The first element put behind the others, as pop_requeue and requeue do.
LEMMA Requeued ==
  ASSUME DataOK, Queued(owed, m_outPos, m_inPos, m_buffer), m_inPos # m_outPos,
         m_buffer' = [m_buffer EXCEPT ![m_inPos] = m_buffer[m_outPos]], m_inPos' = Slot(m_inPos, 1),
         owed' = Append(Tail(owed), Head(owed))
  PROVE  /\ m_buffer' \in [Slots -> Vals] /\ m_inPos' \in Slots /\ Slot(m_outPos, 1) \in Slots
         /\ Dist(Slot(m_outPos, 1), m_inPos') = available
         /\ Queued(owed', Slot(m_outPos, 1), m_inPos', m_buffer')
<1>1. m_inPos \in Slots /\ m_outPos \in Slots /\ m_buffer \in [Slots -> Vals] /\ available \in 0 .. m_bufSize - 1
  BY AvailableIs DEF DataOK
<1>2. m_buffer' \in [Slots -> Vals] /\ m_buffer'[m_inPos] = m_buffer[m_outPos]
  BY <1>1
<1>3. Queued(owed, m_outPos, m_inPos, m_buffer')
  <2>1. \A i \in 1 .. Dist(m_outPos, m_inPos) : m_buffer'[Slot(m_outPos, i - 1)] = m_buffer[Slot(m_outPos, i - 1)]
    BY <1>1, FreeSlot DEF available
  <2> QED BY <1>1, <2>1, QueuedThere
<1> DEFINE o == Slot(m_outPos, 1)
           more == <<Head(owed)>>
<1>4. /\ Head(owed) \in Vals /\ o \in Slots /\ Dist(o, m_inPos) = available - 1 /\ Queued(Tail(owed), o, m_inPos, m_buffer')
  BY <1>1, <1>3, QueuedTail DEF available
<1>5. Head(owed) = m_buffer[m_outPos]
  BY <1>1, QueuedTail
<1>6. more \in Seq(Vals) /\ Len(more) = 1 /\ more[1] = m_buffer'[m_inPos]
  BY <1>2, <1>4, <1>5
<1>7. Slot(m_inPos, 0) = m_inPos
  BY <1>1, SlotIs, BufSizeAssumption DEF Slots
<1>11. owed' = Tail(owed) \o more
  <2>1. Tail(owed) \in Seq(Vals)
    BY <1>4 DEF Queued
  <2> QED BY <1>4, <2>1, AppendIsConcat
<1> HIDE DEF o, more
<1>8. \A j \in 1 .. Len(more) : m_buffer'[Slot(m_inPos, j - 1)] = more[j]
  BY <1>6, <1>7
<1>9. Dist(o, m_inPos) + Len(more) < m_bufSize
  BY <1>1, <1>4, <1>6, BufSizeAssumption
<1>10. /\ Slot(m_inPos, Len(more)) \in Slots /\ Dist(o, Slot(m_inPos, Len(more))) = Dist(o, m_inPos) + Len(more)
       /\ Queued(Tail(owed) \o more, o, Slot(m_inPos, Len(more)), m_buffer')
  <2> DEFINE q == Tail(owed)
             b == m_buffer'
  <2>1. /\ o \in Slots /\ m_inPos \in Slots /\ Queued(q, o, m_inPos, b) /\ more \in Seq(Vals)
        /\ \A j \in 1 .. Len(more) : b[Slot(m_inPos, j - 1)] = more[j]
    BY <1>1, <1>4, <1>6, <1>8
  <2> HIDE DEF q, b
  <2>2. /\ Slot(m_inPos, Len(more)) \in Slots /\ Dist(o, Slot(m_inPos, Len(more))) = Dist(o, m_inPos) + Len(more)
        /\ Queued(q \o more, o, Slot(m_inPos, Len(more)), b)
    BY <1>9, <2>1, QueuedMore
  <2> QED BY <2>2 DEF q, b
<1>12. Dist(o, m_inPos') = available
  BY <1>1, <1>4, <1>6, <1>10
<1> QED BY <1>2, <1>4, <1>6, <1>10, <1>11, <1>12 DEF o

-----------------------------------------------------------------------------
\* The first that is owed, and how many are.
LEMMA FirstIs ==
  ASSUME MPInv
  PROVE  /\ m_inPos \in Slots /\ m_outPos \in Slots /\ First \in Slots /\ cIn \in Slots
         /\ available \in 0 .. m_bufSize - 1 /\ m_buffer \in [Slots -> Vals]
         /\ cpc # "requeueStore" => First = m_outPos /\ Dist(First, m_inPos) = available
         /\ cpc = "requeueStore" /\ m_inPos # m_outPos => Dist(First, m_inPos) = available - 1
<1>1. m_inPos \in Slots /\ m_outPos \in Slots /\ cIn \in Slots /\ m_buffer \in [Slots -> Vals]
  BY DEF MPInv, SidesInv, DataOK
<1>2. available \in 0 .. m_bufSize - 1
  BY AvailableIs DEF MPInv, SidesInv
<1>3. First \in Slots
  <2>1. 1 \in 0 .. m_bufSize
    BY BufSizeAssumption
  <2> QED BY <1>1, <2>1, SlotIs DEF First
<1>4. cpc # "requeueStore" => First = m_outPos /\ Dist(First, m_inPos) = available
  BY DEF First, available
<1>5. ASSUME cpc = "requeueStore", m_inPos # m_outPos PROVE Dist(First, m_inPos) = available - 1
  <2>1. Dist(m_outPos, m_inPos) # 0
    BY <1>1, <1>5, DistZero
  <2>2. 1 \in 0 .. Dist(m_outPos, m_inPos)
    BY <1>2, <2>1 DEF available
  <2> QED BY <1>1, <1>5, <2>2, StepAhead DEF First, available
<1> QED BY <1>1, <1>2, <1>3, <1>4, <1>5

\* A step that leaves the positions, the consumer and what is owed alone.
LEMMA ProducerLeavesOwed ==
  ASSUME MPInv, UNCHANGED <<m_inPos, m_outPos, consumerVars, owed>>, SidesInv', MutexInv',
         \A i \in 1 .. Dist(First, m_inPos) : m_buffer'[Slot(First, i - 1)] = m_buffer[Slot(First, i - 1)],
         ppc' # "idle" => ppc # "idle" \/ ~InRequeue
  PROVE  MPInv'
<1>1. First' = First /\ UNCHANGED <<cpc, cIn, cCount>>
  BY DEF First, Slot, consumerVars
<1>2. OwedInv'
  BY <1>1, FirstIs, QueuedThere DEF MPInv, OwedInv
<1>3. RequeueInv'
  BY <1>1 DEF MPInv, RequeueInv, InRequeue, Dist
<1> QED BY <1>2, <1>3 DEF MPInv

\* A producer takes the mutex; not while for_each_requeue runs.
LEMMA MPCallKeeps == ASSUME MPInv, ~PushDuringRequeue, LockedCall PROVE MPInv'
<1>1. SidesInv'
  BY CallPushInv, CallPushNInv DEF LockedCall, MPInv
<1>2. UNCHANGED <<bufferVars, consumerVars, owed>> /\ ~InRequeue /\ m_pushMtx' = TRUE /\ ppc' # "idle"
  BY DEF LockedCall, CallPush, CallPushN
<1>3. MutexInv'
  BY <1>2 DEF MutexInv
<1> QED BY <1>1, <1>2, <1>3, ProducerLeavesOwed DEF bufferVars

\* The producer's steps up to the store of m_inPos: what is owed stays.
LEMMA MPPushKeeps == ASSUME MPInv, LockedStep, ppc # "publish" PROVE MPInv'
<1>1. SidesInv'
  BY PushInv, PushNInv, CopyInv DEF LockedStep, ProducerStep, publish, MPInv
<1>2. /\ UNCHANGED <<m_inPos, m_outPos, consumerVars, owed>> /\ (m_pushMtx' <=> ppc' # "idle") /\ ppc # "idle"
      /\ m_buffer' = m_buffer \/ copy
  BY DEF LockedStep, ProducerStep, push, push_n, copy, publish, bufferVars
<1>3. MutexInv'
  BY <1>2 DEF MutexInv
<1>4. \A i \in 1 .. Dist(First, m_inPos) : m_buffer'[Slot(First, i - 1)] = m_buffer[Slot(First, i - 1)]
  <2>1. CASE m_buffer' = m_buffer
    BY <2>1
  <2>2. CASE copy
    <3>1. \A i \in 1 .. available : m_buffer'[Slot(m_outPos, i - 1)] = m_buffer[Slot(m_outPos, i - 1)]
      BY <2>2, CopyKeepsElements DEF MPInv
    <3>2. CASE cpc # "requeueStore"
      BY <3>1, <3>2, FirstIs
    <3>3. CASE cpc = "requeueStore"
      <4>1. Dist(First, m_inPos) = available - 1 /\ available \in 0 .. m_bufSize - 1 /\ m_outPos \in Slots
        BY <1>2, <3>3, FirstIs DEF MPInv, RequeueInv
      <4> SUFFICES ASSUME NEW i \in 1 .. available - 1
                   PROVE  m_buffer'[Slot(First, i - 1)] = m_buffer[Slot(First, i - 1)]
        BY <4>1
      <4>2. i - 1 \in Nat /\ 1 + (i - 1) = i /\ i <= m_bufSize /\ i + 1 \in 1 .. available /\ (i + 1) - 1 = i
        BY <4>1, BufSizeAssumption
      <4>3. Slot(First, i - 1) = Slot(m_outPos, i)
        BY <3>3, <4>1, <4>2, SlotSlot DEF First
      <4> QED BY <3>1, <4>2, <4>3
    <3> QED BY <3>2, <3>3
  <2> QED BY <1>2, <2>1, <2>2
<1> QED BY <1>1, <1>2, <1>3, <1>4, ProducerLeavesOwed

\* The store of m_inPos: what was pushed is owed, behind all the rest.
LEMMA MPPublishKeeps == ASSUME MPInv, LockedStep, ppc = "publish" PROVE MPInv'
<1>1. /\ publish /\ owed' = owed \o pItems /\ (m_pushMtx' <=> ppc' # "idle")
  BY DEF LockedStep, ProducerStep, push, push_n, copy, publish
<1>2. SidesInv'
  BY <1>1, PublishInv DEF MPInv
<1>3. /\ available + Len(pItems) < m_bufSize /\ pNext = Slot(m_inPos, Len(pItems)) /\ pItems \in Seq(Vals)
      /\ \A i \in 1 .. Len(pItems) : m_buffer[Slot(m_inPos, i - 1)] = pItems[i]
      /\ Len(pItems) \in Nat
  BY DEF MPInv, SidesInv, ProducerInv, DataOK
<1>4. m_inPos' = pNext /\ ppc' = "idle" /\ UNCHANGED <<m_buffer, m_outPos, consumerVars>> /\ First' = First
  BY <1>1 DEF publish, First, Slot, consumerVars
<1>5. m_inPos \in Slots /\ First \in Slots /\ cIn \in Slots /\ Dist(First, m_inPos) <= available
      /\ available \in 0 .. m_bufSize - 1 /\ Dist(First, m_inPos) \in Int
  <2>1. m_inPos \in Slots /\ First \in Slots /\ cIn \in Slots /\ available \in 0 .. m_bufSize - 1
    BY FirstIs
  <2>2. Dist(First, m_inPos) = available \/ Dist(First, m_inPos) = available - 1
    BY FirstIs DEF MPInv, RequeueInv
  <2> QED BY <2>1, <2>2
<1>6. Dist(First, m_inPos) + Len(pItems) < m_bufSize
  BY <1>3, <1>5, BufSizeAssumption
<1>7. /\ Dist(First, pNext) = Dist(First, m_inPos) + Len(pItems)
      /\ Queued(owed \o pItems, First, pNext, m_buffer)
  BY <1>3, <1>5, <1>6, QueuedMore DEF MPInv, OwedInv
<1>8. OwedInv'
  BY <1>1, <1>4, <1>7 DEF OwedInv
<1>9. MutexInv'
  BY <1>1 DEF MutexInv
<1>10. RequeueInv'
  <2>1. UNCHANGED <<cpc, cIn, cCount>> /\ m_outPos' = m_outPos /\ ppc' = "idle"
    BY <1>4 DEF consumerVars
  <2>2. InRequeue => Dist(First, cIn) <= Dist(First, pNext)
    <3>1. Dist(First, cIn) \in Int
      BY <1>5, DistIs
    <3>2. InRequeue => Dist(First, cIn) <= Dist(First, m_inPos)
      BY DEF MPInv, RequeueInv
    <3> QED BY <1>3, <1>5, <1>7, <3>1, <3>2
  <2>3. InRequeue' => (Dist(First, cIn) <= Dist(First, m_inPos))'
    BY <1>4, <2>1, <2>2 DEF InRequeue, Dist
  <2> QED BY <2>1, <2>3 DEF MPInv, RequeueInv
<1> QED BY <1>2, <1>8, <1>9, <1>10 DEF MPInv

-----------------------------------------------------------------------------
\* The consumer.

\* Leaving nothing but the producer's variables alone is enough where nobody
\* pushes; while somebody does, the consumer may only make room.
LEMMA SidesInRequeue ==
  ASSUME SidesInv, DataOK', ConsumerInv', UNCHANGED producerVars,
         ppc = "idle" \/ (m_inPos' = m_inPos /\ m_buffer' = m_buffer /\ available' <= available)
  PROVE  SidesInv'
<1>1. ASSUME ppc = "idle" PROVE ProducerInv'
  BY <1>1 DEF SidesInv, ProducerInv, producerVars
<1>2. ASSUME m_inPos' = m_inPos, m_buffer' = m_buffer, available' <= available PROVE ProducerInv'
  BY <1>2, ConsumerLeavesProducer DEF SidesInv
<1> QED BY <1>1, <1>2 DEF SidesInv

\* pop() finds an element.
LEMMA MPPopCallKeeps == ASSUME MPInv, PopCall PROVE MPInv'
<1>1. SidesInv'
  BY ConsumerCallInv DEF PopCall, ConsumerCall, MPInv
<1>2. /\ cpc = "idle" /\ cpc' = "read" /\ cCount' = 1
      /\ UNCHANGED <<m_buffer, m_inPos, m_outPos, ppc, m_pushMtx, owed>>
  BY DEF PopCall, pop, bufferVars, producerVars
<1>3. First' = m_outPos /\ First = m_outPos
  BY <1>2 DEF First
<1>4. OwedInv'
  BY <1>2, <1>3 DEF MPInv, OwedInv, Queued, Dist, Slot
<1>5. MutexInv'
  BY <1>2 DEF MPInv, MutexInv
<1>6. RequeueInv'
  BY <1>2 DEF RequeueInv, InRequeue
<1> QED BY <1>1, <1>4, <1>5, <1>6 DEF MPInv

\* It reads it.
LEMMA MPReadKeeps == ASSUME MPInv, PopStep, read PROVE MPInv'
<1>1. SidesInv'
  BY ReadInv DEF MPInv
<1>2. /\ cpc = "read" /\ cpc' = "store" /\ cCount' = cCount
      /\ UNCHANGED <<m_buffer, m_inPos, m_outPos, ppc, m_pushMtx, owed>>
  BY DEF PopStep, read, bufferVars, producerVars
<1>3. First' = m_outPos /\ First = m_outPos
  BY <1>2 DEF First
<1>4. OwedInv'
  BY <1>2, <1>3 DEF MPInv, OwedInv, Queued, Dist, Slot
<1>5. MutexInv'
  BY <1>2 DEF MPInv, MutexInv
<1>6. RequeueInv'
  BY <1>2 DEF MPInv, RequeueInv, InRequeue
<1> QED BY <1>1, <1>4, <1>5, <1>6 DEF MPInv

\* And gives its slot back: it is owed no more.
LEMMA MPStoreKeeps == ASSUME MPInv, PopStep, store PROVE MPInv'
<1>1. cpc = "store" /\ cCount = 1
  BY DEF MPInv, RequeueInv, store
<1>2. SidesInv' /\ available \in 0 .. m_bufSize - 1 /\ 1 \in 1 .. available
  BY <1>1, StoreInv, FirstIs DEF MPInv, SidesInv, ConsumerInv
<1>3. /\ cpc' = "idle" /\ m_outPos' = Slot(m_outPos, 1) /\ owed' = Tail(owed)
      /\ UNCHANGED <<m_buffer, m_inPos, ppc, m_pushMtx>>
  BY <1>1 DEF PopStep, store, read, ConsumerReturns, producerVars
<1>4. First = m_outPos /\ First' = m_outPos'
  BY <1>1, <1>3 DEF First
<1>5. m_outPos # m_inPos
  <2>1. m_outPos \in Slots /\ available # 0
    BY <1>2, FirstIs
  <2>2. Dist(m_outPos, m_outPos) = 0
    BY <2>1, BufSizeAssumption DEF Dist, Slots
  <2> QED BY <2>1, <2>2 DEF available
<1>6. OwedInv'
  <2>1. Queued(Tail(owed), Slot(m_outPos, 1), m_inPos, m_buffer)
    BY <1>4, <1>5, FirstIs, QueuedTail DEF MPInv, OwedInv
  <2> QED BY <1>3, <1>4, <2>1 DEF OwedInv
<1>7. MutexInv'
  BY <1>3 DEF MPInv, MutexInv
<1>8. RequeueInv'
  BY <1>3 DEF RequeueInv, InRequeue
<1> QED BY <1>2, <1>6, <1>7, <1>8 DEF MPInv

\* pop_requeue(): the oldest element becomes the youngest.
LEMMA MPPopRequeueKeeps == ASSUME MPInv, pop_requeue PROVE MPInv'
<1>1. /\ cpc = "idle" /\ cpc' = "idle" /\ ppc = "idle" /\ ~m_pushMtx /\ m_inPos # m_outPos
      /\ m_outPos' = Slot(m_outPos, 1) /\ m_inPos' = Slot(m_inPos, 1)
      /\ UNCHANGED <<producerVars, cIn, cCount, cVals, cPos, cOut, m_pushMtx>>
      /\ got' = <<m_buffer[m_outPos]>>
  BY DEF pop_requeue, MPInv, MutexInv
<1>2. First = m_outPos /\ First' = m_outPos'
  BY <1>1 DEF First
<1>3. /\ m_buffer' \in [Slots -> Vals] /\ m_inPos' \in Slots /\ Slot(m_outPos, 1) \in Slots
      /\ Queued(owed', Slot(m_outPos, 1), m_inPos', m_buffer')
  BY <1>1, <1>2, Requeued DEF MPInv, SidesInv, OwedInv, pop_requeue
<1>4. DataOK'
  <2>1. got' \in Seq(Vals)
    <3>1. m_buffer[m_outPos] \in Vals
      BY FirstIs
    <3> QED BY <1>1, <3>1
  <2> QED BY <1>1, <1>3, <2>1 DEF MPInv, SidesInv, DataOK, producerVars
<1>5. SidesInv'
  <2>1. ConsumerInv'
    BY <1>1 DEF ConsumerInv, InRev
  <2> QED BY <1>1, <1>4, <2>1, SidesInRequeue DEF MPInv
<1>6. OwedInv'
  BY <1>1, <1>2, <1>3 DEF OwedInv
<1>7. MutexInv'
  BY <1>1 DEF MPInv, MutexInv, producerVars
<1>8. RequeueInv'
  BY <1>1 DEF RequeueInv, InRequeue
<1> QED BY <1>5, <1>6, <1>7, <1>8 DEF MPInv

\* for_each_requeue() sets out for the end that it sees.
LEMMA MPEachKeeps == ASSUME MPInv, for_each_requeue PROVE MPInv'
<1>1. /\ cpc = "idle" /\ cpc' = "requeue" /\ m_inPos # m_outPos /\ cIn' = m_inPos /\ got' = <<>>
      /\ UNCHANGED <<m_buffer, m_inPos, m_outPos, producerVars, cCount, cVals, cPos, cOut, m_pushMtx, owed>>
  BY DEF for_each_requeue, bufferVars
<1>2. First = m_outPos /\ First' = m_outPos /\ m_inPos \in Slots /\ m_outPos \in Slots
  BY <1>1, FirstIs DEF First
<1>3. available' = available /\ available \in Int
  BY <1>1, FirstIs DEF available, Dist
<1>4. SidesInv'
  <2>1. <<>> \in Seq(Vals)
    OBVIOUS
  <2>2. DataOK'
    BY <1>1, <1>2, <2>1 DEF MPInv, SidesInv, DataOK, producerVars
  <2>3. ConsumerInv'
    BY <1>1 DEF ConsumerInv, InRev
  <2>4. available' <= available
    BY <1>3
  <2> QED BY <1>1, <2>2, <2>3, <2>4, SidesInRequeue DEF MPInv
<1>5. OwedInv'
  BY <1>1, <1>2 DEF MPInv, OwedInv, Queued, Dist, Slot
<1>6. MutexInv'
  BY <1>1 DEF MPInv, MutexInv, producerVars
<1>7. RequeueInv'
  <2>1. Dist(m_outPos, m_inPos) \in Int
    BY <1>2, DistIs
  <2>2. (InRequeue => Dist(First, cIn) <= Dist(First, m_inPos))'
    BY <1>1, <1>2, <2>1 DEF Dist
  <2> QED BY <1>1, <2>2 DEF RequeueInv
<1> QED BY <1>4, <1>5, <1>6, <1>7 DEF MPInv

\* The callback has answered: it wants the element back, or it is owed no more.
LEMMA MPCallbackKeeps == ASSUME MPInv, requeueCall PROVE MPInv'
<1>1. /\ cpc = "requeue" /\ cpc' \in {"requeueWait", "requeueStore"} /\ m_outPos # cIn
      /\ UNCHANGED <<m_buffer, m_inPos, m_outPos, producerVars, cIn, cCount, cVals, cPos, cOut, got, m_pushMtx>>
      /\ (cpc' = "requeueWait" => owed' = owed) /\ (cpc' = "requeueStore" => owed' = Tail(owed))
  BY DEF requeueCall, bufferVars, MPInv, RequeueInv
<1>2. /\ m_inPos \in Slots /\ m_outPos \in Slots /\ cIn \in Slots /\ First = m_outPos /\ available \in Int
      /\ Dist(m_outPos, m_inPos) = available
  BY <1>1, FirstIs
<1>3. /\ Dist(m_outPos, cIn) \in 1 .. Dist(m_outPos, m_inPos) /\ m_inPos # m_outPos
  <2>1. Dist(m_outPos, cIn) <= Dist(m_outPos, m_inPos)
    BY <1>1, <1>2 DEF MPInv, RequeueInv, InRequeue
  <2>2. Dist(m_outPos, cIn) \in Nat /\ Dist(m_outPos, cIn) # 0
    BY <1>1, <1>2, DistIs, DistZero
  <2>3. Dist(m_outPos, cIn) \in 1 .. Dist(m_outPos, m_inPos)
    BY <1>2, <2>1, <2>2
  <2>4. Dist(m_outPos, m_outPos) = 0
    BY <1>2, BufSizeAssumption DEF Dist, Slots
  <2> QED BY <1>2, <2>1, <2>2, <2>3, <2>4
<1>4. SidesInv'
  <2>1. DataOK'
    BY <1>1 DEF MPInv, SidesInv, DataOK, producerVars
  <2>2. ConsumerInv'
    BY <1>1 DEF ConsumerInv, InRev
  <2>3. available' <= available
    BY <1>1, <1>2 DEF available, Dist
  <2> QED BY <1>1, <2>1, <2>2, <2>3, SidesInRequeue DEF MPInv
<1>5. MutexInv'
  BY <1>1 DEF MPInv, MutexInv, producerVars
<1>6. CASE cpc' = "requeueWait"
  <2>1. First' = m_outPos
    BY <1>1, <1>6 DEF First
  <2>2. OwedInv'
    BY <1>1, <1>2, <1>6, <2>1 DEF MPInv, OwedInv, Queued, Dist, Slot
  <2>3. RequeueInv'
    BY <1>1, <1>2, <1>6, <2>1 DEF MPInv, RequeueInv, InRequeue, Dist
  <2> QED BY <1>4, <1>5, <2>2, <2>3 DEF MPInv
<1>7. CASE cpc' = "requeueStore"
  <2>1. First' = Slot(m_outPos, 1)
    BY <1>1, <1>7 DEF First, Slot
  <2>2. /\ Queued(Tail(owed), Slot(m_outPos, 1), m_inPos, m_buffer)
        /\ Dist(Slot(m_outPos, 1), m_inPos) = Dist(m_outPos, m_inPos) - 1
    <3>1. Queued(owed, m_outPos, m_inPos, m_buffer)
      BY <1>2 DEF MPInv, OwedInv
    <3> QED BY <1>2, <1>3, <3>1, QueuedTail
  <2>3. OwedInv'
    BY <1>1, <1>7, <2>1, <2>2 DEF OwedInv
  <2>4. Dist(Slot(m_outPos, 1), cIn) = Dist(m_outPos, cIn) - 1
    <3>1. 1 \in 0 .. Dist(m_outPos, cIn)
      BY <1>2, <1>3
    <3> QED BY <1>2, <3>1, StepAhead
  <2>5. Dist(Slot(m_outPos, 1), cIn) <= Dist(Slot(m_outPos, 1), m_inPos)
    BY <1>2, <1>3, <2>2, <2>4
  <2>6. (InRequeue => Dist(First, cIn) <= Dist(First, m_inPos))'
    BY <1>1, <2>1, <2>5 DEF Dist
  <2> QED BY <1>1, <1>3, <1>4, <1>5, <1>7, <2>3, <2>6 DEF MPInv, RequeueInv
<1> QED BY <1>1, <1>6, <1>7

\* It is back in the queue.
LEMMA MPRequeueKeeps == ASSUME MPInv, requeue PROVE MPInv'
<1>1. /\ cpc = "requeueWait" /\ cpc' = "requeueStore" /\ ppc = "idle" /\ m_outPos # cIn
      /\ m_inPos' = Slot(m_inPos, 1)
      /\ UNCHANGED <<m_outPos, producerVars, cIn, cCount, cVals, cPos, cOut, got, m_pushMtx>>
  BY DEF requeue, MPInv, MutexInv, RequeueInv
<1>2. /\ m_inPos \in Slots /\ m_outPos \in Slots /\ cIn \in Slots /\ First = m_outPos
      /\ available \in 0 .. m_bufSize - 1 /\ Dist(m_outPos, m_inPos) = available /\ First' = Slot(m_outPos, 1)
  BY <1>1, FirstIs DEF First, Slot
<1>3. Dist(m_outPos, cIn) \in 1 .. available /\ m_inPos # m_outPos
  <2>1. Dist(m_outPos, cIn) <= available
    BY <1>1, <1>2 DEF MPInv, RequeueInv, InRequeue
  <2>2. Dist(m_outPos, cIn) \in Nat /\ Dist(m_outPos, cIn) # 0
    BY <1>1, <1>2, DistIs, DistZero
  <2>3. Dist(m_outPos, m_outPos) = 0
    BY <1>2, BufSizeAssumption DEF Dist, Slots
  <2> QED BY <1>2, <2>1, <2>2, <2>3
<1>4. /\ m_buffer' \in [Slots -> Vals] /\ m_inPos' \in Slots /\ Slot(m_outPos, 1) \in Slots
      /\ Dist(Slot(m_outPos, 1), m_inPos') = available
      /\ Queued(owed', Slot(m_outPos, 1), m_inPos', m_buffer')
  BY <1>1, <1>2, <1>3, Requeued DEF MPInv, SidesInv, OwedInv, requeue
<1>5. SidesInv'
  <2>1. DataOK'
    BY <1>1, <1>4 DEF MPInv, SidesInv, DataOK, producerVars
  <2>2. ConsumerInv'
    BY <1>1 DEF ConsumerInv, InRev
  <2> QED BY <1>1, <2>1, <2>2, SidesInRequeue DEF MPInv
<1>6. OwedInv'
  BY <1>2, <1>4 DEF OwedInv
<1>7. MutexInv'
  BY <1>1 DEF MPInv, MutexInv, producerVars
<1>8. Dist(Slot(m_outPos, 1), cIn) <= Dist(Slot(m_outPos, 1), m_inPos')
  <2>1. 1 \in 0 .. Dist(m_outPos, cIn)
    BY <1>2, <1>3
  <2>2. Dist(Slot(m_outPos, 1), cIn) = Dist(m_outPos, cIn) - 1
    BY <1>2, <2>1, StepAhead
  <2> QED BY <1>2, <1>3, <1>4, <2>2
<1>9. (InRequeue => Dist(First, cIn) <= Dist(First, m_inPos))'
  BY <1>1, <1>2, <1>8 DEF Dist
<1>10. RequeueInv'
  BY <1>1, <1>9 DEF RequeueInv, producerVars
<1> QED BY <1>5, <1>6, <1>7, <1>10 DEF MPInv

\* Its old slot goes, and at the end for_each_requeue returns.
LEMMA MPRequeueStoreKeeps == ASSUME MPInv, requeueStore PROVE MPInv'
<1>1. /\ cpc = "requeueStore" /\ cpc' \in {"requeue", "idle"} /\ m_outPos' = Slot(m_outPos, 1)
      /\ (cpc' = "requeue" => m_outPos' # cIn /\ UNCHANGED <<cIn, cCount, cVals, cPos, cOut>>)
      /\ (cpc' = "idle" => cIn' = 0 /\ cCount' = 0 /\ cVals' = <<>> /\ cPos' = 0 /\ cOut' = 0)
      /\ UNCHANGED <<m_buffer, m_inPos, producerVars, got, m_pushMtx, owed>>
  BY DEF requeueStore, ConsumerReturns
<1>2. First = m_outPos' /\ First' = m_outPos' /\ First \in Slots /\ available \in 0 .. m_bufSize - 1
  BY <1>1, FirstIs DEF First
<1>3. SidesInv'
  <2>1. DataOK'
    <3>1. <<>> \in Seq(Vals) /\ 0 \in Slots /\ 0 \in Nat
      BY BufSizeAssumption DEF Slots
    <3>2. cIn' \in Slots /\ cCount' \in Nat /\ cVals' \in Seq(Vals) /\ cPos' \in Slots /\ cOut' \in Slots
      BY <1>1, <3>1 DEF MPInv, SidesInv, DataOK
    <3> QED BY <1>1, <1>2, <3>2 DEF MPInv, SidesInv, DataOK, producerVars
  <2>2. ConsumerInv'
    BY <1>1 DEF ConsumerInv, InRev
  <2>3. ppc = "idle" \/ available' <= available
    <3> SUFFICES ASSUME ppc # "idle" PROVE available' <= available
      OBVIOUS
    <3>1. Dist(First, m_inPos) = available - 1
      BY <1>1, FirstIs DEF MPInv, RequeueInv
    <3>2. available' = Dist(First, m_inPos)
      BY <1>1, <1>2 DEF available, Dist
    <3> QED BY <1>2, <3>1, <3>2
  <2> QED BY <1>1, <2>1, <2>2, <2>3, SidesInRequeue DEF MPInv
<1>4. OwedInv'
  BY <1>1, <1>2 DEF MPInv, OwedInv, Queued, Dist, Slot
<1>5. MutexInv'
  BY <1>1 DEF MPInv, MutexInv, producerVars
<1>6. RequeueInv'
  <2>1. cpc' = "requeue" => Dist(First, cIn)' <= Dist(First, m_inPos)'
    BY <1>1, <1>2 DEF MPInv, RequeueInv, InRequeue, Dist
  <2> QED BY <1>1, <2>1 DEF RequeueInv, InRequeue
<1> QED BY <1>3, <1>4, <1>5, <1>6 DEF MPInv

-----------------------------------------------------------------------------
\* What is owed is in the queue, and in order: a producer's push adds behind, what
\* the consumer takes or refuses goes from the front, what it requeues goes to the
\* end.  A push that begins while for_each_requeue runs may find the queue empty
\* that a requeue has just filled, and write over it: hence the assumption.
LEMMA MPInvIsKept == ~PushDuringRequeue /\ MPSpec => []MPInv
<1>1. MPInit => MPInv
  <2> SUFFICES ASSUME MPInit PROVE MPInv
    OBVIOUS
  <2>1. SidesInv
    BY InitInv DEF MPInit
  <2>2. cpc = "idle" /\ ppc = "idle" /\ m_inPos = 0 /\ m_outPos = 0 /\ owed = <<>> /\ ~m_pushMtx
    BY DEF MPInit, Init
  <2>3. First = 0 /\ Dist(0, 0) = 0 /\ owed \in Seq(Vals) /\ Len(owed) = 0
    BY <2>2 DEF First, Dist
  <2>4. OwedInv
    BY <2>2, <2>3 DEF OwedInv, Queued
  <2>5. MutexInv /\ RequeueInv
    BY <2>2 DEF MutexInv, RequeueInv, InRequeue
  <2> QED BY <2>1, <2>4, <2>5 DEF MPInv
<1>2. ASSUME ~PushDuringRequeue, MPInv, [MPNext]_mpVars PROVE MPInv'
  <2>1. CASE LockedCall
    BY <1>2, <2>1, MPCallKeeps
  <2>2. CASE LockedStep
    BY <1>2, <2>2, MPPushKeeps, MPPublishKeeps
  <2>3. CASE PopCall
    BY <1>2, <2>3, MPPopCallKeeps
  <2>4. CASE PopStep
    BY <1>2, <2>4, MPReadKeeps, MPStoreKeeps DEF PopStep
  <2>5. CASE pop_requeue
    BY <1>2, <2>5, MPPopRequeueKeeps
  <2>6. CASE for_each_requeue
    BY <1>2, <2>6, MPEachKeeps
  <2>7. CASE requeueCall
    BY <1>2, <2>7, MPCallbackKeeps
  <2>8. CASE requeue
    BY <1>2, <2>8, MPRequeueKeeps
  <2>9. CASE requeueStore
    BY <1>2, <2>9, MPRequeueStoreKeeps
  <2>10. CASE UNCHANGED mpVars
    <3>1. UNCHANGED vars /\ UNCHANGED <<m_buffer, m_inPos, m_outPos, ppc, cpc, cIn, cCount, m_pushMtx, owed>>
      BY <2>10 DEF mpVars, vars, bufferVars, producerVars, consumerVars
    <3>2. SidesInv'
      BY <1>2, <3>1, StutterInv DEF MPInv
    <3> QED BY <1>2, <3>1, <3>2
            DEF MPInv, OwedInv, Queued, MutexInv, RequeueInv, InRequeue, First, Dist, Slot
  <2> QED BY <1>2, <2>1, <2>2, <2>3, <2>4, <2>5, <2>6, <2>7, <2>8, <2>9, <2>10
          DEF MPNext, MPConsumerStep
<1>3. ASSUME ~PushDuringRequeue PROVE MPSpec => []MPInv
  <2>1. MPInv /\ [MPNext]_mpVars => MPInv'
    BY <1>2, <1>3
  <2> QED BY <1>1, <2>1, PTL DEF MPSpec
<1> QED BY <1>3

\* circular_queue_mp.h, for every size of the buffer and any number of producers
\* that the mutex keeps apart: between two calls of the consumer, whatever was
\* accepted and neither taken nor refused by for_each_requeue's callback is in the
\* queue, in order.  It holds if nobody begins a push while for_each_requeue runs,
\* which the code leaves to its users.
THEOREM NothingIsLost == ~PushDuringRequeue /\ MPSpec => []NothingLost
<1>1. ASSUME MPInv PROVE NothingLost
  <2> SUFFICES ASSUME cpc = "idle"
               PROVE  /\ Len(owed) = available
                      /\ \A i \in 1 .. available : owed[i] = m_buffer[Slot(m_outPos, i - 1)]
    BY DEF NothingLost
  <2>1. First = m_outPos /\ Queued(owed, m_outPos, m_inPos, m_buffer)
    BY <1>1 DEF First, MPInv, OwedInv
  <2> QED BY <2>1 DEF Queued, available
<1> QED BY <1>1, MPInvIsKept, PTL

-----------------------------------------------------------------------------
(* Chains of nodes.                                                        *)

\* The nodes S in the order of their ranks r, each linked to the one after it.
Chain(S, r, next, first) ==
    /\ first \in S \cup {NoNode}
    /\ \A n \in S : first \in S /\ r[first] <= r[n]
    /\ \A n \in S : next[n] \in S \cup {NoNode}
    /\ \A n \in S : next[n] \in S => r[n] < r[next[n]]
    /\ \A n, m \in S : r[n] < r[m] => next[n] \in S /\ r[next[n]] <= r[m]
    /\ \A n, m \in S : r[n] = r[m] => n = m
    /\ \A n \in S : n # first => \E p \in S : next[p] = n

\* Its last node.
Ends(S, next, last) ==
    /\ last \in S \cup {NoNode}
    /\ \A n \in S : last \in S
    /\ last \in S => next[last] = NoNode

\* The ranks, which are bounded.
Ranked(S, r, lo) == \A x \in S : r[x] \in Int /\ lo <= r[x]

\* A set that has the first node, and the next of each it has.
Follows(T, S, next, first) ==
    /\ \A x \in S : x = first => x \in T
    /\ \A x \in S \cap T : next[x] \in S => next[x] \in T

\* A node to remove, and the one before it or none.
IsBefore(S, next, first, n, p) ==
    \/ p = NoNode /\ n = first
    \/ p \in S /\ next[p] = n

\* Links and ranks are the same.
Alike(S, r, next, r2, next2) == \A x \in S : r2[x] = r[x] /\ next2[x] = next[x]

\* The node before n is linked to the one after n.
Unlinks(S, r, next, r2, next2, n, p) ==
    \A x \in S \ {n} : r2[x] = r[x] /\ next2[x] = IF x = p THEN next[n] ELSE next[x]

\* The node n is linked behind the last one, with a greater rank.
IsBehind(S, r, next, last, r2, next2, n) ==
    /\ r2[n] \in Int /\ next2[n] = NoNode
    /\ \A x \in S : r[x] \in Int /\ r[x] < r2[n]
    /\ \A x \in S : r2[x] = r[x] /\ next2[x] = IF x = last THEN n ELSE next[x]

\* Such a set has the whole chain.
LEMMA Covered ==
  ASSUME NEW S, NEW r, NEW next, NEW first, NEW T, NEW lo \in Int,
         Chain(S, r, next, first),
         Ranked(S, r, lo), Follows(T, S, next, first)
  PROVE  S \subseteq T
<1> USE DEF Ranked, Follows
<1> SUFFICES ASSUME NEW z \in S \ T PROVE FALSE
  OBVIOUS
<1> DEFINE W == {r[x] - lo : x \in S \ T}
<1>1. W \subseteq Nat /\ W # {}
  <2>1. \A x \in S : r[x] - lo \in Nat
    BY SMT
  <2> QED BY <2>1
<1>2. PICK w \in W : \A y \in W : ~ (<<y, w>> \in OpToRel(<, Nat))
  <2> HIDE DEF W
  <2> QED BY <1>1, WFMin, NatLessThanWellFounded, Zenon
<1>3. \A y \in W : ~ (y < w)
  BY <1>1, <1>2 DEF OpToRel
<1>4. PICK x \in S \ T : w = r[x] - lo
  OBVIOUS
<1>5. x # first
  OBVIOUS
<1>6. PICK p \in S : next[p] = x
  BY <1>5 DEF Chain
<1>7. r[p] < r[x]
  BY <1>6 DEF Chain
<1>8. p \in T
  <2> SUFFICES ASSUME p \notin T PROVE FALSE
    OBVIOUS
  <2>1. r[p] - lo \in W
    OBVIOUS
  <2>2. ~ (r[p] - lo < w)
    BY <1>3, <2>1
  <2> HIDE DEF W
  <2> QED BY <2>2, <1>4, <1>7, SMT
<1> QED BY <1>6, <1>8

\* What is reached from the first node of a chain is the chain.
LEMMA ReachIsChain ==
  ASSUME NEW S \in SUBSET Nodes, NEW r, NEW next, NEW first, NEW lo \in Int,
         Chain(S, r, next, first),
         Ranked(S, r, lo)
  PROVE  Reach(next, first) = S
<1>1. Reach(next, first) \subseteq S
  <2>1. {first} \cap Nodes \subseteq S
    BY NodesAssumption DEF Chain
  <2>2. \A x \in S : next[x] \in S \cup {NoNode}
    BY DEF Chain
  <2> QED BY <2>1, <2>2 DEF Reach
<1>2. ASSUME NEW T \in SUBSET Nodes, {first} \cap Nodes \subseteq T,
             \A x \in T : next[x] \in T \cup {NoNode}
      PROVE  S \subseteq T
  <2>1. NoNode \notin S
    BY NodesAssumption
  <2>2. \A x \in S : x = first => x \in T
    BY <1>2
  <2>3. \A x \in S \cap T : next[x] \in S => next[x] \in T
    BY <1>2, <2>1
  <2>4. Follows(T, S, next, first)
    BY <2>2, <2>3 DEF Follows
  <2> QED BY <2>4, Covered, Zenon
<1> QED BY <1>1, <1>2 DEF Reach

\* A chain is one where links and ranks of its nodes are the same.
LEMMA ChainFrame ==
  ASSUME NEW S, NEW r, NEW next, NEW first, NEW r2, NEW next2,
         Chain(S, r, next, first),
         Alike(S, r, next, r2, next2)
  PROVE  Chain(S, r2, next2, first)
BY Zenon DEF Chain, Alike

\* A node goes out of a chain when the one before it is linked to the one after it.
LEMMA ChainWithout ==
  ASSUME NEW S, NEW r, NEW next, NEW first, NEW r2, NEW next2, NEW n \in S, NEW p,
         NoNode \notin S,
         Chain(S, r, next, first),
         \A x \in S : r[x] \in Int,
         IsBefore(S, next, first, n, p),
         Unlinks(S, r, next, r2, next2, n, p)
  PROVE  Chain(S \ {n}, r2, next2, IF p = NoNode THEN next[n] ELSE first)
<1> USE DEF Unlinks
<1> DEFINE R == S \ {n}
           f == IF p = NoNode THEN next[n] ELSE first
<1>0. \A x \in S : p = NoNode => r[n] <= r[x]
  BY DEF Chain, IsBefore
<1>1. p # NoNode => p \in R /\ next[p] = n /\ r[p] < r[n]
  BY DEF Chain, IsBefore
<1>2. next[n] \in R \cup {NoNode}
  BY DEF Chain
<1>3. \A x \in R : p = NoNode => r[n] < r[x]
  <2>1. \A x \in R : r[x] # r[n]
    BY DEF Chain
  <2> QED BY <2>1, <1>0
<1>4. f \in R \cup {NoNode}
  <2>1. CASE p = NoNode
    BY <2>1, <1>2
  <2>2. CASE p # NoNode
    <3>1. first # n
      BY <2>2, <1>1 DEF Chain
    <3> QED BY <2>2, <3>1 DEF Chain
  <2> QED BY <2>1, <2>2
<1>5. \A x \in R : f \in R /\ r[f] <= r[x]
  <2>1. CASE p = NoNode
    BY <2>1, <1>3, <1>2 DEF Chain
  <2>2. CASE p # NoNode
    BY <2>2, <1>4 DEF Chain
  <2> QED BY <2>1, <2>2
<1>6. \A x \in R : x # p => next[x] # n
  <2> SUFFICES ASSUME NEW x \in R, x # p, next[x] = n PROVE FALSE
    OBVIOUS
  <2>1. r[x] < r[n]
    BY DEF Chain
  <2>2. p # NoNode
    BY <1>3, <2>1, SMT
  <2>3. r[x] # r[p]
    BY <1>1, <2>2 DEF Chain
  <2>4. r[x] < r[p] => r[n] <= r[p]
    BY <1>1, <2>2 DEF Chain
  <2>5. r[p] < r[x] => r[n] <= r[x]
    BY <1>1, <2>2 DEF Chain
  <2> QED BY <2>1, <2>2, <2>3, <2>4, <2>5, <1>1, SMT
<1>7. \A x \in R : next2[x] \in R \cup {NoNode}
  BY <1>2, <1>6 DEF Chain
<1>8. \A x \in R : next2[x] \in R => r[x] < r[next2[x]]
  <2> TAKE x \in R
  <2>1. CASE x = p
    <3>1. r[x] < r[n]
      BY <2>1, <1>1
    <3>2. next[n] \in R => r[n] < r[next[n]]
      BY DEF Chain
    <3> QED BY <2>1, <3>1, <3>2
  <2>2. CASE x # p
    BY <2>2 DEF Chain
  <2> QED BY <2>1, <2>2
<1>9. \A x, y \in R : r[x] < r[y] => next2[x] \in R /\ r[next2[x]] <= r[y]
  <2> SUFFICES ASSUME NEW x \in R, NEW y \in R, r[x] < r[y]
               PROVE  next2[x] \in R /\ r[next2[x]] <= r[y]
    OBVIOUS
  <2>1. next[x] \in S /\ r[next[x]] <= r[y]
    BY DEF Chain
  <2>2. CASE x = p
    <3>0. next[x] = n
      BY <2>2, <1>1
    <3>1. r[n] <= r[y] /\ r[n] # r[y]
      BY <2>1, <3>0 DEF Chain
    <3>3. r[n] < r[y]
      BY <3>1, SMT
    <3>2. next[n] \in S /\ r[next[n]] <= r[y]
      BY <3>3 DEF Chain
    <3> QED BY <2>2, <3>2, <1>2
  <2>3. CASE x # p
    BY <2>1, <2>3, <1>6
  <2> QED BY <2>2, <2>3
<1>10. \A x \in R : x # f => \E y \in R : next2[y] = x
  <2> SUFFICES ASSUME NEW x \in R, x # f PROVE \E y \in R : next2[y] = x
    OBVIOUS
  <2>0. x # first
    <3>1. CASE p = NoNode
      BY <3>1, <1>0 DEF IsBefore
    <3>2. CASE p # NoNode
      BY <3>2
    <3> QED BY <3>1, <3>2
  <2>1. PICK y \in S : next[y] = x
    BY <2>0 DEF Chain
  <2>2. CASE y = n
    <3>1. p # NoNode
      BY <2>1, <2>2
    <3> QED BY <3>1, <2>1, <2>2, <1>1
  <2>3. CASE y # n
    <3>1. y # p
      BY <2>1, <1>1
    <3> QED BY <2>1, <2>3, <3>1
  <2> QED BY <2>2, <2>3
<1>11. \A x, y \in R : r[x] = r[y] => x = y
  BY DEF Chain
<1> HIDE DEF f
<1>12. Chain(R, r, next2, f)
  BY <1>4, <1>5, <1>7, <1>8, <1>9, <1>10, <1>11, Zenon DEF Chain
<1>13. Chain(R, r2, next2, f)
  BY <1>12, ChainFrame DEF Alike
<1> QED BY <1>13 DEF f

\* What is the last node then.
LEMMA EndsWithout ==
  ASSUME NEW S, NEW r, NEW next, NEW first, NEW last, NEW r2, NEW next2, NEW n \in S, NEW p,
         NoNode \notin S,
         Chain(S, r, next, first),
         Ends(S, next, last),
         \A x \in S : r[x] \in Int,
         IsBefore(S, next, first, n, p),
         Unlinks(S, r, next, r2, next2, n, p)
  PROVE  Ends(S \ {n}, next2, IF last = n THEN p ELSE last)
<1> USE DEF Unlinks
<1>1. p # NoNode => p \in S \ {n} /\ next[p] = n
  BY DEF Chain, IsBefore
<1>2. CASE last = n
  <2>1. next[n] = NoNode
    BY <1>2 DEF Ends
  <2>2. CASE p = NoNode
    <3>1. S \ {n} = {}
      <4> SUFFICES ASSUME NEW x \in S, x # n PROVE FALSE
        OBVIOUS
      <4>1. n = first
        BY <2>2 DEF IsBefore
      <4>2. r[n] <= r[x] /\ r[n] # r[x]
        BY <4>1 DEF Chain
      <4>3. r[n] < r[x]
        BY <4>2, SMT
      <4>4. next[n] \in S
        BY <4>3 DEF Chain
      <4> QED BY <4>4, <2>1
    <3> QED BY <3>1, <2>2, <1>2 DEF Ends
  <2>3. CASE p # NoNode
    BY <2>1, <2>3, <1>1, <1>2 DEF Ends
  <2> QED BY <2>2, <2>3
<1>3. CASE last # n
  <2>1. last \in S \ {n} /\ next[last] = NoNode
    BY <1>3 DEF Ends
  <2>2. last # p
    BY <2>1, <1>1
  <2> QED BY <1>3, <2>1, <2>2 DEF Ends
<1> QED BY <1>2, <1>3

\* A node put before the first one.
LEMMA ChainPushed ==
  ASSUME NEW S, NEW r, NEW next, NEW first, NEW r2, NEW next2, NEW n,
         n \notin S, n # NoNode, NoNode \notin S,
         Chain(S, r, next, first),
         \A x \in S : r[x] \in Int /\ r2[n] < r[x],
         r2[n] \in Int,
         \A x \in S : r2[x] = r[x] /\ next2[x] = next[x],
         next2[n] = first
  PROVE  Chain(S \cup {n}, r2, next2, n)
<1> DEFINE R == S \cup {n}
<1>1. \A x \in R : r2[n] <= r2[x]
  BY SMT
<1>2. \A x \in R : next2[x] \in R \cup {NoNode}
  BY DEF Chain
<1>3. \A x \in R : next2[x] \in R => r2[x] < r2[next2[x]]
  <2> TAKE x \in R
  <2>1. CASE x = n
    BY <2>1 DEF Chain
  <2>2. CASE x # n
    BY <2>2 DEF Chain
  <2> QED BY <2>1, <2>2
<1>4. \A x, y \in R : r2[x] < r2[y] => next2[x] \in R /\ r2[next2[x]] <= r2[y]
  <2> SUFFICES ASSUME NEW x \in R, NEW y \in R, r2[x] < r2[y]
               PROVE  next2[x] \in R /\ r2[next2[x]] <= r2[y]
    OBVIOUS
  <2>1. y \in S
    BY <1>1
  <2>2. CASE x = n
    BY <2>1, <2>2 DEF Chain
  <2>3. CASE x # n
    BY <2>1, <2>3 DEF Chain
  <2> QED BY <2>2, <2>3
<1>5. \A x, y \in R : r2[x] = r2[y] => x = y
  BY DEF Chain
<1>6. \A x \in R : x # n => \E y \in R : next2[y] = x
  <2> SUFFICES ASSUME NEW x \in S PROVE \E y \in R : next2[y] = x
    OBVIOUS
  <2>1. CASE x = first
    BY <2>1
  <2>2. CASE x # first
    BY <2>2 DEF Chain
  <2> QED BY <2>1, <2>2
<1> QED BY <1>1, <1>2, <1>3, <1>4, <1>5, <1>6, Zenon DEF Chain

\* A node put behind the last one.
LEMMA ChainAppended ==
  ASSUME NEW S, NEW r, NEW next, NEW first, NEW last, NEW r2, NEW next2, NEW n,
         n \notin S, n # NoNode, NoNode \notin S,
         Chain(S, r, next, first),
         Ends(S, next, last),
         IsBehind(S, r, next, last, r2, next2, n)
  PROVE  /\ Chain(S \cup {n}, r2, next2, IF last = NoNode THEN n ELSE first)
         /\ Ends(S \cup {n}, next2, n)
<1> USE DEF IsBehind
<1> DEFINE R == S \cup {n}
           f == IF last = NoNode THEN n ELSE first
<1>0. last # NoNode => last \in S /\ first \in S /\ next[last] = NoNode
  BY DEF Ends, Chain
<1>1. last = NoNode => S = {}
  BY DEF Ends
<1>2. f \in R /\ \A x \in R : r2[f] <= r2[x]
  <2>1. CASE last = NoNode
    BY <2>1, <1>1
  <2>2. CASE last # NoNode
    BY <2>2, <1>0 DEF Chain
  <2> QED BY <2>1, <2>2
<1>3. \A x \in R : next2[x] \in R \cup {NoNode}
  BY DEF Chain
<1>4. \A x \in R : next2[x] \in R => r2[x] < r2[next2[x]]
  <2> SUFFICES ASSUME NEW x \in S, next2[x] \in R PROVE r2[x] < r2[next2[x]]
    OBVIOUS
  <2>1. CASE x = last
    BY <2>1
  <2>2. CASE x # last
    BY <2>2 DEF Chain
  <2> QED BY <2>1, <2>2
<1>5. \A x, y \in R : r2[x] < r2[y] => next2[x] \in R /\ r2[next2[x]] <= r2[y]
  <2> SUFFICES ASSUME NEW x \in R, NEW y \in R, r2[x] < r2[y]
               PROVE  next2[x] \in R /\ r2[next2[x]] <= r2[y]
    OBVIOUS
  <2>1. x \in S
    <3> SUFFICES ASSUME x = n PROVE FALSE
      OBVIOUS
    <3>1. y = n \/ (y \in S /\ r2[y] = r[y] /\ r[y] \in Int /\ r[y] < r2[n])
      OBVIOUS
    <3> QED BY <3>1, SMT
  <2>2. CASE x = last
    <3>1. y = n
      <4> SUFFICES ASSUME y \in S PROVE FALSE
        OBVIOUS
      <4>1. next[x] \in S
        BY <2>1 DEF Chain
      <4> QED BY <4>1, <2>2, <1>0, <2>1
    <3> QED BY <2>1, <2>2, <3>1
  <2>3. CASE x # last /\ y = n
    <3>1. last \in S /\ next[last] = NoNode
      BY <2>1 DEF Ends
    <3>2. ~ (r[last] < r[x])
      BY <3>1, <2>1 DEF Chain
    <3>3. r[x] # r[last]
      BY <3>1, <2>1, <2>3 DEF Chain
    <3>4. r[x] < r[last]
      BY <3>1, <3>2, <3>3, <2>1, SMT
    <3>5. next[x] \in S
      BY <3>1, <3>4, <2>1 DEF Chain
    <3>6. next2[x] = next[x]
      BY <2>1, <2>3
    <3>7. r2[next[x]] < r2[n] /\ r2[next[x]] \in Int
      BY <3>5
    <3> QED BY <2>3, <3>5, <3>6, <3>7, SMT
  <2>4. CASE x # last /\ y # n
    BY <2>1, <2>4 DEF Chain
  <2> QED BY <2>2, <2>3, <2>4
<1>6. \A x, y \in R : r2[x] = r2[y] => x = y
  <2> SUFFICES ASSUME NEW x \in R, NEW y \in R, r2[x] = r2[y] PROVE x = y
    OBVIOUS
  <2>1. CASE x \in S /\ y \in S
    BY <2>1 DEF Chain
  <2>2. CASE x = n
    <3>1. y \notin S
      BY <2>2, SMT
    <3> QED BY <3>1, <2>2
  <2>3. CASE y = n
    <3>1. x \notin S
      BY <2>3, SMT
    <3> QED BY <3>1, <2>3
  <2> QED BY <2>1, <2>2, <2>3
<1>7. \A x \in R : x # f => \E y \in R : next2[y] = x
  <2> SUFFICES ASSUME NEW x \in R, x # f PROVE \E y \in R : next2[y] = x
    OBVIOUS
  <2>1. last # NoNode
    BY <1>1
  <2>2. CASE x = n
    BY <2>1, <2>2, <1>0
  <2>3. CASE x # n
    <3>1. PICK p \in S : next[p] = x
      BY <2>1, <2>3 DEF Chain
    <3>2. p # last
      BY <3>1, <2>1, <1>0, <2>3
    <3> QED BY <3>1, <3>2
  <2> QED BY <2>2, <2>3
<1>8. Ends(R, next2, n)
  BY DEF Ends
<1> HIDE DEF f
<1>9. Chain(R, r2, next2, f)
  BY <1>2, <1>3, <1>4, <1>5, <1>6, <1>7, Zenon DEF Chain
<1> QED BY <1>8, <1>9 DEF f

-----------------------------------------------------------------------------
(* The inductive invariant of a list of delegates.                         *)

Lists == [first : Nodes \cup {NoNode}, last : Nodes \cup {NoNode},
          unused : Nodes \cup {NoNode}, nodeCount : Nat]

\* What the variables of the list hold; a queue has no more nodes than it may.
MultiTypeOK ==
    /\ isQueue \in BOOLEAN
    /\ list \in Lists /\ moved \in Lists
    /\ isQueue => list.nodeCount <= QueueCapacity /\ moved.nodeCount <= QueueCapacity
    /\ mNext \in [Nodes -> Nodes \cup {NoNode}]
    /\ mDelegate \in [Nodes -> Nat]
    /\ heap \in SUBSET Nodes
    /\ it \in [phase : {"done", "call", "called"}, current : Nodes \cup {NoNode},
               prev : Nodes \cup {NoNode}, stop : Nodes \cup {NoNode}]
    /\ called \in Seq(Nat)
    /\ due \in SUBSET Nat
    /\ added \in Nat

\* The nodes of an object: those listed are in the order of their delegates,
\* those unused in the order they are taken in.
Links(o, number, next, last, S, R, r, lo) ==
    /\ Chain(S, number, next, o.first)
    /\ Ends(S, next, o.last)
    /\ \A x \in S : number[x] \in 1 .. last
    /\ Chain(R, r, next, o.unused)
    /\ Ranked(R, r, lo)
Object(o, S, R, r, lo) == Links(o, mDelegate, mNext, added, S, R, r, lo)

\* All nodes are those listed and unused of the two objects.
Apart(A, U, B, V) ==
    /\ A \cap U = {} /\ A \cap B = {} /\ A \cap V = {}
    /\ U \cap B = {} /\ U \cap V = {} /\ B \cap V = {}
    /\ heap = A \cup U \cup B \cup V
Placed(A, U, B, V, r, lo) ==
    Apart(A, U, B, V) /\ Object(list, A, U, r, lo) /\ Object(moved, B, V, r, lo)

WasCalled(d) == \E i \in 1 .. Len(called) : called[i] = d
\* The delegate is ahead of the iterator, and not behind its end.
WillBeCalled(A, d) ==
    /\ it.phase # "done"
    /\ \E n \in A : mDelegate[n] = d
    /\ mDelegate[it.current] <= d
    /\ it.phase = "called" => mDelegate[it.current] < d
    /\ it.stop \in A => d <= mDelegate[it.stop]

\* The iterator is at a listed node, behind what was called and before what must be.
Calling(A) ==
    /\ it.phase # "done" =>
          /\ it.current \in A /\ it.stop \in Nodes
          /\ IsBefore(A, mNext, list.first, it.current, it.prev)
          /\ \A i \in 1 .. Len(called) :
                /\ called[i] <= mDelegate[it.current]
                /\ it.phase = "call" => called[i] < mDelegate[it.current]
    /\ \A i, j \in 1 .. Len(called) : i < j => called[i] < called[j]
    /\ \A d \in due : WasCalled(d) \/ WillBeCalled(A, d)

\* The inductive invariant.
MultiInv ==
    /\ MultiTypeOK
    /\ \E A, U, B, V \in SUBSET Nodes, r \in [Nodes -> Int], lo \in Int :
          Placed(A, U, B, V, r, lo) /\ Calling(A)

-----------------------------------------------------------------------------
(* The list is whole.                                                      *)

\* The links end at the last node, which has the greatest rank.
LEMMA LastIsEnd ==
  ASSUME NEW S, NEW r, NEW next, NEW first, NEW last, NoNode \notin S,
         Chain(S, r, next, first), Ends(S, next, last), \A x \in S : r[x] \in Int
  PROVE  /\ \A x \in S : last \in S /\ r[x] <= r[last]
         /\ \A x \in S : next[x] = NoNode => x = last
<1> SUFFICES ASSUME NEW x \in S
             PROVE  last \in S /\ r[x] <= r[last] /\ (next[x] = NoNode => x = last)
  OBVIOUS
<1>1. last \in S /\ next[last] = NoNode
  BY DEF Ends
<1>2. ~ (r[last] < r[x])
  BY <1>1 DEF Chain
<1>3. r[x] < r[last] => next[x] \in S
  BY <1>1 DEF Chain
<1>4. r[x] = r[last] => x = last
  BY <1>1 DEF Chain
<1> QED BY <1>1, <1>2, <1>3, <1>4, SMT

\* The nodes that the program finds from the ends of an object are its own.
LEMMA ObjectIs ==
  ASSUME MultiTypeOK, NEW S \in SUBSET Nodes, NEW R \in SUBSET Nodes, NEW r, NEW lo \in Int,
         NEW o, Object(o, S, R, r, lo)
  PROVE  From(o.first) = S /\ From(o.unused) = R
<1>1. Ranked(S, mDelegate, 0)
  BY DEF Ranked, Object, Links
<1>2. From(o.first) = S
  <2>1. 0 \in Int
    OBVIOUS
  <2> QED BY <1>1, <2>1, ReachIsChain, Zenon DEF Object, Links, From
<1>3. From(o.unused) = R
  BY ReachIsChain, Zenon DEF Object, Links, From
<1> QED BY <1>2, <1>3

\* What the invariant says of the list is what is checked.
LEMMA MultiIsKept == MultiInv => EachCalledOnce
<1> SUFFICES ASSUME MultiInv PROVE EachCalledOnce
  OBVIOUS
<1>0. MultiTypeOK
  BY DEF MultiInv
<1>1. PICK A \in SUBSET Nodes, U \in SUBSET Nodes, B \in SUBSET Nodes, V \in SUBSET Nodes,
           r \in [Nodes -> Int], lo \in Int : Placed(A, U, B, V, r, lo) /\ Calling(A)
  BY Zenon DEF MultiInv
<1>2. Listed = A /\ From(list.unused) = U
  <2>1. Object(list, A, U, r, lo)
    BY <1>1, Zenon DEF Placed
  <2>2. From(list.first) = A /\ From(list.unused) = U
    BY <1>0, <2>1, ObjectIs, Zenon
  <2> QED BY <2>2, Zenon DEF Listed
<1>3. From(moved.first) = B /\ From(moved.unused) = V
  BY <1>0, <1>1, ObjectIs, Zenon DEF Placed
<1> DEFINE c == <<A, U, B, V>>
<1>4. \A i, j \in 1 .. 4 : i # j => c[i] \cap c[j] = {}
  BY <1>1 DEF Placed, Apart
<1>5. UNION {c[i] : i \in 1 .. 4} = heap
  <2>1. {c[i] : i \in 1 .. 4} = {A, U, B, V}
    <3>1. 1 .. 4 = {1, 2, 3, 4}
      OBVIOUS
    <3> QED BY <3>1
  <2> HIDE DEF c
  <2>2. heap = A \cup U \cup B \cup V
    BY <1>1, Zenon DEF Placed, Apart
  <2>3. UNION {A, U, B, V} = A \cup U \cup B \cup V
    OBVIOUS
  <2> QED BY <2>1, <2>2, <2>3, Zenon
<1>6. isQueue => list.nodeCount \in 0 .. QueueCapacity
  BY <1>0, NodesAssumption DEF MultiTypeOK, Lists
<1>7. \A n \in A : mDelegate[n] # 0 /\ (mNext[n] = NoNode => n = list.last)
  <2>1. \A n \in A : mDelegate[n] \in 1 .. added
    BY <1>1 DEF Placed, Object, Links
  <2>2. \A n \in A : mDelegate[n] \in Int
    BY <1>0 DEF MultiTypeOK
  <2>3. \A n \in A : mNext[n] = NoNode => n = list.last
    <3>1. Chain(A, mDelegate, mNext, list.first)
      BY <1>1, Zenon DEF Placed, Object, Links
    <3>2. Ends(A, mNext, list.last)
      BY <1>1, Zenon DEF Placed, Object, Links
    <3>3. NoNode \notin A
      BY NodesAssumption
    <3> HIDE <1>1
    <3> QED BY <3>1, <3>2, <3>3, <2>2, LastIsEnd
  <2> QED BY <2>1, <2>3
<1>8. \A i, j \in 1 .. Len(called) : i < j => called[i] < called[j]
  BY <1>1 DEF Calling
<1>9. it.phase = "done" => \A d \in due : \E i \in 1 .. Len(called) : called[i] = d
  BY <1>1, Zenon DEF Calling, WasCalled, WillBeCalled
<1> HIDE DEF c
<1>10. /\ \A i, j \in 1 .. 4 : i # j => c[i] \cap c[j] = {}
       /\ UNION {c[i] : i \in 1 .. 4} = heap
  BY <1>4, <1>5
<1>11. c = <<Listed, From(list.unused), From(moved.first), From(moved.unused)>>
  BY <1>2, <1>3, Zenon DEF c
<1>12. LET chains == <<Listed, From(list.unused), From(moved.first), From(moved.unused)>> IN
       /\ \A i, j \in 1 .. 4 : i # j => chains[i] \cap chains[j] = {}
       /\ UNION {chains[i] : i \in 1 .. 4} = heap
  BY <1>10, <1>11, Zenon
<1>13. \A n \in Listed : mDelegate[n] # 0 /\ (mNext[n] = NoNode => n = list.last)
  BY <1>2, <1>7, Zenon
<1>14. it.phase = "done" /\ called # <<>> => \A d \in due : \E i \in 1 .. Len(called) : called[i] = d
  BY <1>9, Zenon
<1> QED BY <1>6, <1>8, <1>12, <1>13, <1>14, Zenon DEF EachCalledOnce

-----------------------------------------------------------------------------
(* Each step keeps the list whole and the call in its order.               *)

\* At first there is no node and no call.
LEMMA MultiInitOK == MultiInit => MultiInv
<1> SUFFICES ASSUME MultiInit PROVE MultiInv
  OBVIOUS
<1>1. MultiTypeOK
  BY NodesAssumption DEF MultiInit, MultiTypeOK, Lists, EmptyList
<1> DEFINE z == [n \in Nodes |-> 0]
<1>2. z \in [Nodes -> Int] /\ 0 \in Int /\ {} \in SUBSET Nodes
  OBVIOUS
<1>3. Chain({}, mDelegate, mNext, NoNode) /\ Chain({}, z, mNext, NoNode) /\ Ends({}, mNext, NoNode)
  BY DEF Chain, Ends
<1>4. Ranked({}, z, 0)
  BY DEF Ranked
<1>5. /\ list.first = NoNode /\ list.last = NoNode /\ list.unused = NoNode
      /\ moved.first = NoNode /\ moved.last = NoNode /\ moved.unused = NoNode
  BY DEF MultiInit, EmptyList
<1>6. Object(list, {}, {}, z, 0) /\ Object(moved, {}, {}, z, 0)
  <2> HIDE DEF z
  <2> QED BY <1>3, <1>4, <1>5 DEF Object, Links
<1>7. Placed({}, {}, {}, {}, z, 0)
  BY <1>6 DEF Placed, Apart, MultiInit
<1>8. Calling({})
  BY DEF MultiInit, Calling
<1> HIDE DEF z
<1> QED BY <1>1, <1>2, <1>7, <1>8, Zenon DEF MultiInv

\* An object none of whose nodes changes is as it was.
LEMMA ObjectFrame ==
  ASSUME NEW o, NEW number, NEW next, NEW last \in Nat, NEW S, NEW R, NEW r, NEW lo \in Int,
         NEW number2, NEW next2, NEW last2 \in Nat, NEW r2, NEW lo2 \in Int,
         Links(o, number, next, last, S, R, r, lo), last <= last2, lo2 <= lo,
         Alike(S, number, next, number2, next2), Alike(R, r, next, r2, next2)
  PROVE  Links(o, number2, next2, last2, S, R, r2, lo2)
<1>1. Chain(S, number2, next2, o.first) /\ Chain(R, r2, next2, o.unused)
  BY ChainFrame, Zenon DEF Links
<1>2. Ends(S, next2, o.last)
  BY DEF Links, Ends, Alike
<1>3. \A x \in S : number2[x] \in 1 .. last2
  BY DEF Links, Alike
<1>4. Ranked(R, r2, lo2)
  BY DEF Links, Ranked, Alike
<1> QED BY <1>1, <1>2, <1>3, <1>4, Zenon DEF Links

\* What a node that goes out of the list leaves of it: a queue takes it in.
LEMMA UnlinkedOK ==
  ASSUME MultiTypeOK, NEW A \in SUBSET Nodes, NEW U \in SUBSET Nodes, NEW B \in SUBSET Nodes,
         NEW V \in SUBSET Nodes, NEW r \in [Nodes -> Int], NEW lo \in Int,
         Placed(A, U, B, V, r, lo),
         NEW n \in A, NEW p, IsBefore(A, mNext, list.first, n, p),
         Unlinked(n, p), UNCHANGED <<isQueue, moved, added>>
  PROVE  /\ \E W \in SUBSET Nodes, r2 \in [Nodes -> Int], lo2 \in Int :
                Placed(A \ {n}, W, B, V, r2, lo2)'
         /\ \A x \in A \ {n} : /\ mDelegate'[x] = mDelegate[x]
                               /\ mNext'[x] = IF x = p THEN mNext[n] ELSE mNext[x]
         /\ list'.first = IF p = NoNode THEN mNext[n] ELSE list.first
         /\ list' \in Lists /\ mNext' \in [Nodes -> Nodes \cup {NoNode}]
         /\ mDelegate' \in [Nodes -> Nat] /\ heap' \in SUBSET Nodes
         /\ list'.nodeCount = list.nodeCount
<1>a. PICK W : W = IF isQueue THEN U \cup {n} ELSE U
  OBVIOUS
<1>b. PICK r2 : r2 = IF isQueue THEN [r EXCEPT ![n] = lo - 1] ELSE r
  OBVIOUS
<1>c. PICK lo2 : lo2 = lo - 1
  OBVIOUS
<1>0. /\ Chain(A, mDelegate, mNext, list.first) /\ Ends(A, mNext, list.last)
      /\ Chain(U, r, mNext, list.unused) /\ Ranked(U, r, lo) /\ Apart(A, U, B, V)
      /\ Object(moved, B, V, r, lo)
  BY Zenon DEF Placed, Object, Links
<1>1. r2 \in [Nodes -> Int] /\ lo2 \in Int /\ W \in SUBSET Nodes /\ NoNode \notin A /\ NoNode \notin U
  BY <1>a, <1>b, <1>c, NodesAssumption
<1>2. p \in A \cup {NoNode} /\ p # n /\ n # NoNode
  BY <1>0, <1>1 DEF Chain, IsBefore, MultiTypeOK
<1>3. \A x \in Nodes : mNext'[x] = CASE x = n /\ isQueue -> list.unused
                                     [] x = p            -> mNext[n]
                                     [] OTHER            -> mNext[x]
  BY DEF Unlinked
<1>4. \A x \in A \ {n} : /\ mDelegate'[x] = mDelegate[x]
                        /\ mNext'[x] = IF x = p THEN mNext[n] ELSE mNext[x]
  BY <1>3 DEF Unlinked, MultiTypeOK
<1>5. /\ list'.first = IF p = NoNode THEN mNext[n] ELSE list.first
      /\ list'.last = IF list.last = n THEN p ELSE list.last
      /\ list'.unused = IF isQueue THEN n ELSE list.unused
      /\ list'.nodeCount = list.nodeCount
  BY DEF Unlinked, MultiTypeOK, Lists
<1>6. list' \in Lists
  <2>1. mNext[n] \in Nodes \cup {NoNode}
    BY DEF MultiTypeOK
  <2>2. list' = [first |-> list'.first, last |-> list'.last, unused |-> list'.unused,
                 nodeCount |-> list'.nodeCount]
    BY DEF Unlinked, MultiTypeOK, Lists
  <2> QED BY <1>2, <1>5, <2>1, <2>2 DEF MultiTypeOK, Lists
<1>7. mNext' \in [Nodes -> Nodes \cup {NoNode}]
  <2>1. \A x \in Nodes : mNext'[x] \in Nodes \cup {NoNode}
    BY <1>3 DEF MultiTypeOK, Lists
  <2>2. mNext' = [x \in Nodes |-> mNext'[x]]
    BY DEF Unlinked
  <2> QED BY <2>1, <2>2
<1>8. mDelegate' \in [Nodes -> Nat] /\ heap' \in SUBSET Nodes
  BY DEF Unlinked, MultiTypeOK
<1>9. Chain(A \ {n}, mDelegate', mNext', list'.first)
  <2>1. \A x \in A : mDelegate[x] \in Int
    BY DEF MultiTypeOK
  <2>2. Unlinks(A, mDelegate, mNext, mDelegate', mNext', n, p)
    BY <1>4 DEF Unlinks
  <2>3. Chain(A \ {n}, mDelegate', mNext', IF p = NoNode THEN mNext[n] ELSE list.first)
    BY <1>0, <1>1, <2>1, <2>2, ChainWithout
  <2> QED BY <2>3, <1>5
<1>10. Ends(A \ {n}, mNext', list'.last)
  <2>1. \A x \in A : mDelegate[x] \in Int
    BY DEF MultiTypeOK
  <2>2. Unlinks(A, mDelegate, mNext, mDelegate', mNext', n, p)
    BY <1>4 DEF Unlinks
  <2>3. Ends(A \ {n}, mNext', IF list.last = n THEN p ELSE list.last)
    BY <1>0, <1>1, <2>1, <2>2, EndsWithout
  <2> QED BY <2>3, <1>5
<1>11. n \notin U /\ \A x \in U \cup B \cup V : x # n /\ x # p /\ mNext'[x] = mNext[x]
  BY <1>0, <1>1, <1>2, <1>3, NodesAssumption DEF Apart
<1>12. Chain(W, r2, mNext', list'.unused) /\ Ranked(W, r2, lo2)
  <2>1. CASE isQueue
    <3>1. r2[n] = lo - 1 /\ \A x \in U : r2[x] = r[x]
      BY <2>1, <1>11, <1>b
    <3>2. mNext'[n] = list.unused
      BY <2>1, <1>3, <1>2
    <3>3. \A x \in U : r[x] \in Int /\ r2[n] < r[x]
      BY <3>1, <1>0 DEF Ranked
    <3>4. r2[n] \in Int
      BY <3>1
    <3>5. \A x \in U : r2[x] = r[x] /\ mNext'[x] = mNext[x]
      BY <3>1, <1>11
    <3>6. Chain(U \cup {n}, r2, mNext', n)
      BY <3>2, <3>3, <3>4, <3>5, <1>0, <1>1, <1>2, <1>11, ChainPushed
    <3>7. Ranked(U \cup {n}, r2, lo2)
      BY <3>1, <1>0, <1>c DEF Ranked
    <3> QED BY <3>6, <3>7, <2>1, <1>5, <1>a
  <2>2. CASE ~isQueue
    <3>1. Chain(U, r, mNext', list.unused)
      BY <1>0, <1>11, ChainFrame DEF Alike
    <3>2. Ranked(U, r, lo2)
      BY <1>0, <1>c DEF Ranked
    <3> QED BY <3>1, <3>2, <2>2, <1>5, <1>a, <1>b
  <2> QED BY <2>1, <2>2
<1>13. \A x \in A \ {n} : mDelegate'[x] \in 1 .. added'
  BY <1>4 DEF Placed, Object, Links
<1>14. Object(list, A \ {n}, W, r2, lo2)'
  <2> QED BY <1>9, <1>10, <1>12, <1>13, Zenon DEF Object, Links
<1>15. Object(moved, B, V, r2, lo2)'
  <2>1. Alike(B, mDelegate, mNext, mDelegate', mNext')
    BY <1>11 DEF Unlinked, MultiTypeOK, Alike
  <2>2. Alike(V, r, mNext, r2, mNext')
    BY <1>11, <1>b DEF Alike
  <2>3. lo2 <= lo /\ lo2 \in Int
    BY <1>c
  <2>4. added \in Nat /\ added' \in Nat /\ added <= added' /\ moved' = moved
    BY DEF MultiTypeOK
  <2>5. Links(moved, mDelegate, mNext, added, B, V, r, lo)
    BY <1>0 DEF Object
  <2>6. Links(moved, mDelegate', mNext', added', B, V, r2, lo2)
    BY <2>1, <2>2, <2>3, <2>4, <2>5, ObjectFrame
  <2> QED BY <2>4, <2>6, Zenon DEF Object
<1>16. Apart(A \ {n}, W, B, V)'
  <2>1. heap' = IF isQueue THEN heap ELSE heap \ {n}
    BY DEF Unlinked
  <2> QED BY <2>1, <1>0, <1>11, <1>a DEF Apart
<1>17. Placed(A \ {n}, W, B, V, r2, lo2)'
  <2> QED BY <1>14, <1>15, <1>16, Zenon DEF Placed
<1> QED BY <1>1, <1>4, <1>5, <1>6, <1>7, <1>8, <1>17

\* What the invariant gives a step.
LEMMA MultiFacts ==
  ASSUME MultiTypeOK, NEW A \in SUBSET Nodes, NEW U \in SUBSET Nodes, NEW B \in SUBSET Nodes,
         NEW V \in SUBSET Nodes, NEW r \in [Nodes -> Int], NEW lo \in Int,
         Placed(A, U, B, V, r, lo)
  PROVE  /\ Listed = A
         /\ Chain(A, mDelegate, mNext, list.first) /\ Ends(A, mNext, list.last)
         /\ NoNode \notin A
         /\ \A x \in A : mDelegate[x] \in Int /\ mDelegate[x] \in 1 .. added
         /\ \A x, y \in A : mDelegate[x] = mDelegate[y] => x = y
<1>1. Listed = A
  <2>1. Object(list, A, U, r, lo)
    BY Zenon DEF Placed
  <2>2. From(list.first) = A /\ From(list.unused) = U
    BY <2>1, ObjectIs, Zenon
  <2> QED BY <2>2, Zenon DEF Listed
<1>2. Chain(A, mDelegate, mNext, list.first) /\ Ends(A, mNext, list.last)
  BY Zenon DEF Placed, Object, Links
<1>3. \A x \in A : mDelegate[x] \in Int /\ mDelegate[x] \in 1 .. added
  BY DEF Placed, Object, Links, MultiTypeOK
<1>4. \A x, y \in A : mDelegate[x] = mDelegate[y] => x = y
  BY <1>2 DEF Chain
<1> QED BY <1>1, <1>2, <1>3, <1>4, NodesAssumption

\* The node before one that is listed.
LEMMA PredecessorIs ==
  ASSUME MultiTypeOK, NEW A \in SUBSET Nodes, Listed = A,
         Chain(A, mDelegate, mNext, list.first), NEW n \in A
  PROVE  IsBefore(A, mNext, list.first, n, Predecessor(n))
<1>1. CASE n = list.first
  BY <1>1 DEF IsBefore, Predecessor
<1>2. CASE n # list.first
  <2>1. \E m \in A : mNext[m] = n
    BY <1>2 DEF Chain
  <2>2. Predecessor(n) = CHOOSE m \in A : mNext[m] = n
    BY <1>2, Zenon DEF Predecessor
  <2>3. Predecessor(n) \in A /\ mNext[Predecessor(n)] = n
    BY <2>1, <2>2
  <2> QED BY <2>3 DEF IsBefore
<1> QED BY <1>1, <1>2

\* A node that the call has not reached is erased.
LEMMA EraseOK ==
  ASSUME MultiInv, NEW n \in Nodes, Erase(n)
  PROVE  MultiInv'
<1>0. MultiTypeOK
  BY DEF MultiInv
<1>1. PICK A \in SUBSET Nodes, U \in SUBSET Nodes, B \in SUBSET Nodes, V \in SUBSET Nodes,
           r \in [Nodes -> Int], lo \in Int : Placed(A, U, B, V, r, lo) /\ Calling(A)
  BY Zenon DEF MultiInv
<1>2. /\ Listed = A
      /\ Chain(A, mDelegate, mNext, list.first) /\ Ends(A, mNext, list.last)
      /\ NoNode \notin A
      /\ \A x \in A : mDelegate[x] \in Int /\ mDelegate[x] \in 1 .. added
      /\ \A x, y \in A : mDelegate[x] = mDelegate[y] => x = y
  BY <1>0, <1>1, MultiFacts
<1>3. n \in A
  BY <1>2 DEF Erase
<1>a. PICK p : p = Predecessor(n)
  OBVIOUS
<1>4. IsBefore(A, mNext, list.first, n, p)
  BY <1>0, <1>2, <1>3, <1>a, PredecessorIs
<1>5. /\ Unlinked(n, p) /\ due' = due \ {mDelegate[n]} /\ ~Reached(n)
      /\ UNCHANGED <<isQueue, moved, it, called, added>>
  BY <1>a, Zenon DEF Erase
<1>6. /\ \E W \in SUBSET Nodes, r2 \in [Nodes -> Int], lo2 \in Int :
             Placed(A \ {n}, W, B, V, r2, lo2)'
      /\ \A x \in A \ {n} : /\ mDelegate'[x] = mDelegate[x]
                            /\ mNext'[x] = IF x = p THEN mNext[n] ELSE mNext[x]
      /\ list'.first = IF p = NoNode THEN mNext[n] ELSE list.first
      /\ list' \in Lists /\ mNext' \in [Nodes -> Nodes \cup {NoNode}]
      /\ mDelegate' \in [Nodes -> Nat] /\ heap' \in SUBSET Nodes
      /\ list'.nodeCount = list.nodeCount
  BY <1>0, <1>1, <1>3, <1>4, <1>5, UnlinkedOK
<1>7. MultiTypeOK'
  <2>1. due' \in SUBSET Nat
    BY <1>0, <1>5 DEF MultiTypeOK
  <2> QED BY <1>0, <1>5, <1>6, <2>1 DEF MultiTypeOK
<1>8. p # NoNode => p \in A /\ mNext[p] = n
  BY <1>4, <1>2 DEF IsBefore
<1>9. ASSUME it.phase # "done"
      PROVE  /\ it.current \in A \ {n} /\ it.stop \in Nodes
             /\ mDelegate'[it.current] = mDelegate[it.current]
             /\ IsBefore(A \ {n}, mNext', list'.first, it.current, it.prev)
  <2>1. /\ it.current \in A /\ it.stop \in Nodes
        /\ IsBefore(A, mNext, list.first, it.current, it.prev)
    BY <1>1, <1>9 DEF Calling
  <2>2. ~(mDelegate[n] <= mDelegate[it.current])
    BY <1>5, <1>9 DEF Reached
  <2>3. it.current # n
    BY <2>1, <2>2, <1>2
  <2>4. mDelegate[it.current] < mDelegate[n]
    BY <2>1, <2>2, <1>2, <1>3
  <2>5. CASE it.prev = NoNode /\ it.current = list.first
    <3>1. n # list.first
      BY <2>3, <2>5
    <3>2. p # NoNode
      BY <3>1, <1>4, <1>2 DEF IsBefore
    <3> QED BY <2>1, <2>3, <2>5, <3>2, <1>6 DEF IsBefore
  <2>6. CASE it.prev \in A /\ mNext[it.prev] = it.current
    <3>1. mDelegate[it.prev] < mDelegate[it.current]
      BY <2>1, <2>6, <1>2 DEF Chain
    <3>2. it.prev # n
      BY <3>1, <2>4, <2>1, <2>6, <1>2, <1>3
    <3>3. it.prev # p
      BY <2>3, <2>6, <1>8, <1>2
    <3> QED BY <2>1, <2>3, <2>6, <3>2, <3>3, <1>6 DEF IsBefore
  <2> QED BY <2>1, <2>5, <2>6 DEF IsBefore
<1>10. Calling(A \ {n})'
  <2>1. ASSUME it'.phase # "done"
        PROVE  /\ it'.current \in A \ {n} /\ it'.stop \in Nodes
               /\ IsBefore(A \ {n}, mNext', list'.first, it'.current, it'.prev)
               /\ \A i \in 1 .. Len(called') :
                    /\ called'[i] <= mDelegate'[it'.current]
                    /\ it'.phase = "call" => called'[i] < mDelegate'[it'.current]
    BY <2>1, <1>1, <1>5, <1>9 DEF Calling
  <2>2. \A i, j \in 1 .. Len(called') : i < j => called'[i] < called'[j]
    BY <1>1, <1>5 DEF Calling
  <2>3. ASSUME NEW d \in due' PROVE WasCalled(d)' \/ WillBeCalled(A \ {n}, d)'
    <3>1. d \in due /\ d # mDelegate[n]
      BY <1>5
    <3>2. CASE WasCalled(d)
      BY <3>2, <1>5 DEF WasCalled
    <3>3. CASE WillBeCalled(A, d)
      <4>1. PICK x \in A : mDelegate[x] = d
        BY <3>3 DEF WillBeCalled
      <4>2. x \in A \ {n} /\ mDelegate'[x] = d
        BY <4>1, <3>1, <1>6
      <4>3. it.phase # "done"
        BY <3>3 DEF WillBeCalled
      <4>4. it.stop \in A \ {n} => d <= mDelegate'[it.stop]
        BY <3>3, <1>6 DEF WillBeCalled
      <4> QED BY <4>2, <4>3, <4>4, <3>3, <1>5, <1>9 DEF WillBeCalled
    <3> QED BY <3>1, <3>2, <3>3, <1>1 DEF Calling
  <2> QED BY <2>1, <2>2, <2>3 DEF Calling
<1>11. A \ {n} \in SUBSET Nodes
  OBVIOUS
<1> QED BY <1>6, <1>7, <1>10, <1>11, Zenon DEF MultiInv
\* Where the list does not change, it is as it was.
LEMMA PlacedFrame ==
  ASSUME NEW A, NEW U, NEW B, NEW V, NEW r, NEW lo, Placed(A, U, B, V, r, lo),
         UNCHANGED <<list, moved, mNext, mDelegate, heap, added>>
  PROVE  Placed(A, U, B, V, r, lo)'
BY Zenon DEF Placed, Apart, Object

\* A call begins at the first node.
LEMMA BeginOK ==
  ASSUME MultiInv, Begin
  PROVE  MultiInv'
<1>0. MultiTypeOK
  BY DEF MultiInv
<1>1. PICK A \in SUBSET Nodes, U \in SUBSET Nodes, B \in SUBSET Nodes, V \in SUBSET Nodes,
           r \in [Nodes -> Int], lo \in Int : Placed(A, U, B, V, r, lo) /\ Calling(A)
  BY Zenon DEF MultiInv
<1>2. /\ Listed = A
      /\ Chain(A, mDelegate, mNext, list.first) /\ Ends(A, mNext, list.last)
      /\ NoNode \notin A
      /\ \A x \in A : mDelegate[x] \in Int /\ mDelegate[x] \in 1 .. added
      /\ \A x, y \in A : mDelegate[x] = mDelegate[y] => x = y
  BY <1>0, <1>1, MultiFacts
<1>3. /\ it' = [phase |-> "call", current |-> list.first, prev |-> NoNode, stop |-> list.last]
      /\ called' = <<>> /\ due' = {mDelegate[n] : n \in A} /\ list.first # NoNode
      /\ UNCHANGED <<isQueue, list, moved, mNext, mDelegate, heap, added>>
  BY <1>2, Zenon DEF Begin
<1>4. list.first \in A /\ list.last \in A
  BY <1>2, <1>3 DEF Chain, Ends
<1>5. MultiTypeOK'
  <2>1. due' \in SUBSET Nat
    BY <1>0, <1>3 DEF MultiTypeOK
  <2>2. it' \in [phase : {"done", "call", "called"}, current : Nodes \cup {NoNode},
                prev : Nodes \cup {NoNode}, stop : Nodes \cup {NoNode}]
    BY <1>3, <1>4
  <2>3. called' \in Seq(Nat)
    BY <1>3
  <2> QED BY <1>0, <1>3, <2>1, <2>2, <2>3 DEF MultiTypeOK
<1>6. \A x \in A : mDelegate[list.first] <= mDelegate[x]
  BY <1>2 DEF Chain
<1>7. \A x \in A : mDelegate[x] <= mDelegate[list.last]
  BY <1>2, LastIsEnd
<1>8. Calling(A)'
  <2>1. /\ it'.current \in A /\ it'.stop \in Nodes
        /\ IsBefore(A, mNext', list'.first, it'.current, it'.prev)
    BY <1>3, <1>4 DEF IsBefore
  <2>2. Len(called') = 0
    BY <1>3
  <2>3. ASSUME NEW d \in due' PROVE WillBeCalled(A, d)'
    <3>1. PICK x \in A : d = mDelegate[x]
      BY <1>3
    <3>2. it'.phase = "call" /\ it'.current = list.first /\ it'.stop = list.last
      BY <1>3
    <3> QED BY <3>1, <3>2, <1>3, <1>6, <1>7 DEF WillBeCalled
  <2> QED BY <2>1, <2>2, <2>3 DEF Calling
<1>9. Placed(A, U, B, V, r, lo)'
  BY <1>1, <1>3, PlacedFrame
<1> QED BY <1>5, <1>8, <1>9, Zenon DEF MultiInv

\* The delegate at the iterator is called.
LEMMA CallDelegateOK ==
  ASSUME MultiInv, CallDelegate
  PROVE  MultiInv'
<1>0. MultiTypeOK
  BY DEF MultiInv
<1>1. PICK A \in SUBSET Nodes, U \in SUBSET Nodes, B \in SUBSET Nodes, V \in SUBSET Nodes,
           r \in [Nodes -> Int], lo \in Int : Placed(A, U, B, V, r, lo) /\ Calling(A)
  BY Zenon DEF MultiInv
<1>2. /\ Listed = A
      /\ Chain(A, mDelegate, mNext, list.first) /\ Ends(A, mNext, list.last)
      /\ NoNode \notin A
      /\ \A x \in A : mDelegate[x] \in Int /\ mDelegate[x] \in 1 .. added
      /\ \A x, y \in A : mDelegate[x] = mDelegate[y] => x = y
  BY <1>0, <1>1, MultiFacts
<1>3. /\ it.phase = "call" /\ called' = Append(called, mDelegate[it.current])
      /\ it' = [it EXCEPT !.phase = "called"]
      /\ UNCHANGED <<isQueue, list, moved, mNext, mDelegate, heap, due, added>>
  BY Zenon DEF CallDelegate
<1>4. /\ it'.phase = "called" /\ it'.current = it.current /\ it'.prev = it.prev /\ it'.stop = it.stop
  BY <1>0, <1>3 DEF MultiTypeOK
<1>5. /\ it.current \in A /\ it.stop \in Nodes
      /\ IsBefore(A, mNext, list.first, it.current, it.prev)
      /\ \A i \in 1 .. Len(called) : called[i] < mDelegate[it.current]
  BY <1>1, <1>3 DEF Calling
<1>6. mDelegate[it.current] \in Nat /\ called \in Seq(Nat)
  BY <1>0, <1>5 DEF MultiTypeOK
<1>7. /\ Len(called') = Len(called) + 1
      /\ called'[Len(called) + 1] = mDelegate[it.current]
      /\ \A i \in 1 .. Len(called) : called'[i] = called[i]
      /\ called' \in Seq(Nat) /\ Len(called) \in Nat
  BY <1>3, <1>6
<1>8. MultiTypeOK'
  BY <1>0, <1>3, <1>7 DEF MultiTypeOK
<1>9. Calling(A)'
  <2>1. \A i \in 1 .. Len(called') : called'[i] <= mDelegate'[it'.current]
    <3> TAKE i \in 1 .. Len(called')
    <3>1. i \in 1 .. Len(called) \/ i = Len(called) + 1
      BY <1>7
    <3>2. \A j \in 1 .. Len(called) : called[j] \in Nat
      BY <1>6
    <3> QED BY <3>1, <3>2, <1>3, <1>4, <1>5, <1>6, <1>7
  <2>2. \A i, j \in 1 .. Len(called') : i < j => called'[i] < called'[j]
    <3> SUFFICES ASSUME NEW i \in 1 .. Len(called'), NEW j \in 1 .. Len(called'), i < j
                 PROVE  called'[i] < called'[j]
      OBVIOUS
    <3>1. i \in 1 .. Len(called)
      BY <1>7
    <3>2. j \in 1 .. Len(called) \/ j = Len(called) + 1
      BY <1>7
    <3>3. CASE j \in 1 .. Len(called)
      BY <3>1, <3>3, <1>1, <1>7 DEF Calling
    <3>4. CASE j = Len(called) + 1
      BY <3>1, <3>4, <1>5, <1>7
    <3> QED BY <3>2, <3>3, <3>4
  <2>3. ASSUME NEW d \in due' PROVE WasCalled(d)' \/ WillBeCalled(A, d)'
    <3>1. CASE WasCalled(d)
      <4>1. PICK i \in 1 .. Len(called) : called[i] = d
        BY <3>1 DEF WasCalled
      <4>2. i \in 1 .. Len(called') /\ called'[i] = d
        BY <4>1, <1>7
      <4> QED BY <4>2 DEF WasCalled
    <3>2. CASE WillBeCalled(A, d) /\ d = mDelegate[it.current]
      <4>1. Len(called) + 1 \in 1 .. Len(called')
        BY <1>7
      <4> QED BY <4>1, <3>2, <1>7 DEF WasCalled
    <3>3. CASE WillBeCalled(A, d) /\ d # mDelegate[it.current]
      <4>1. d \in Nat
        BY <1>0, <1>3 DEF MultiTypeOK
      <4>2. mDelegate[it.current] < d
        BY <4>1, <3>3, <1>6 DEF WillBeCalled
      <4> QED BY <4>2, <3>3, <1>3, <1>4 DEF WillBeCalled
    <3> QED BY <3>1, <3>2, <3>3, <1>1, <1>3 DEF Calling
  <2> QED BY <2>1, <2>2, <2>3, <1>3, <1>4, <1>5 DEF Calling
<1>10. Placed(A, U, B, V, r, lo)'
  BY <1>1, <1>3, PlacedFrame
<1> QED BY <1>8, <1>9, <1>10, Zenon DEF MultiInv
\* What the iterator is at when it goes on.
LEMMA AtIs ==
  ASSUME MultiTypeOK, NEW c \in Nodes \cup {NoNode}, NEW q \in Nodes \cup {NoNode}
  PROVE  /\ At(c, q) \in [phase : {"done", "call", "called"}, current : Nodes \cup {NoNode},
                         prev : Nodes \cup {NoNode}, stop : Nodes \cup {NoNode}]
         /\ At(c, q).current = c /\ At(c, q).prev = q /\ At(c, q).stop = it.stop
         /\ At(c, q).phase = IF c = NoNode \/ it.stop = NoNode THEN "done" ELSE "call"
BY DEF At, MultiTypeOK

\* A node that was called is behind the one after it, and no delegate that must be
\* called is between them.
LEMMA NextInOrder ==
  ASSUME MultiTypeOK, NEW A \in SUBSET Nodes, NEW U \in SUBSET Nodes, NEW B \in SUBSET Nodes,
         NEW V \in SUBSET Nodes, NEW r \in [Nodes -> Int], NEW lo \in Int,
         Placed(A, U, B, V, r, lo), Calling(A), it.phase = "called",
         NEW x, x = mNext[it.current]
  PROVE  /\ it.current \in A /\ it.stop \in Nodes /\ it.stop # NoNode
         /\ x \in (A \ {it.current}) \cup {NoNode}
         /\ x # NoNode => mDelegate[it.current] < mDelegate[x]
         /\ x # NoNode => \A i \in 1 .. Len(called) : called[i] < mDelegate[x]
         /\ \A d \in due : WillBeCalled(A, d) => x # NoNode /\ mDelegate[x] <= d
<1>2. /\ Listed = A
      /\ Chain(A, mDelegate, mNext, list.first) /\ Ends(A, mNext, list.last)
      /\ NoNode \notin A
      /\ \A y \in A : mDelegate[y] \in Int /\ mDelegate[y] \in 1 .. added
      /\ \A y, z \in A : mDelegate[y] = mDelegate[z] => y = z
  BY MultiFacts
<1>3. it.current \in A /\ it.stop \in Nodes
  BY DEF Calling
<1>4. x \in (A \ {it.current}) \cup {NoNode}
  BY <1>2, <1>3 DEF Chain
<1>5. x # NoNode => mDelegate[it.current] < mDelegate[x]
  BY <1>2, <1>3, <1>4 DEF Chain
<1>6. ASSUME x # NoNode, NEW i \in 1 .. Len(called) PROVE called[i] < mDelegate[x]
  <2>1. called[i] <= mDelegate[it.current]
    BY DEF Calling
  <2>2. called[i] \in Int /\ mDelegate[it.current] \in Int /\ mDelegate[x] \in Int
    BY <1>2, <1>3, <1>4, <1>6 DEF MultiTypeOK
  <2> QED BY <2>1, <2>2, <1>5, <1>6
<1>7. ASSUME NEW d \in due, WillBeCalled(A, d) PROVE x # NoNode /\ mDelegate[x] <= d
  <2>1. PICK y \in A : mDelegate[y] = d
    BY <1>7 DEF WillBeCalled
  <2>2. mDelegate[it.current] < mDelegate[y]
    BY <2>1, <1>7 DEF WillBeCalled
  <2>3. x \in A /\ mDelegate[x] <= mDelegate[y]
    BY <2>2, <1>2, <1>3 DEF Chain
  <2> QED BY <2>1, <2>3, <1>2
<1> QED BY <1>3, <1>4, <1>5, <1>6, <1>7, NodesAssumption

\* A queue lets go of the node it has called.
LEMMA EraseCalledOK ==
  ASSUME MultiInv, EraseCalled
  PROVE  MultiInv'
<1>0. MultiTypeOK
  BY DEF MultiInv
<1>1. PICK A \in SUBSET Nodes, U \in SUBSET Nodes, B \in SUBSET Nodes, V \in SUBSET Nodes,
           r \in [Nodes -> Int], lo \in Int : Placed(A, U, B, V, r, lo) /\ Calling(A)
  BY Zenon DEF MultiInv
<1>2. /\ Listed = A
      /\ Chain(A, mDelegate, mNext, list.first) /\ Ends(A, mNext, list.last)
      /\ NoNode \notin A
      /\ \A x \in A : mDelegate[x] \in Int /\ mDelegate[x] \in 1 .. added
      /\ \A x, y \in A : mDelegate[x] = mDelegate[y] => x = y
  BY <1>0, <1>1, MultiFacts
<1>a. PICK n : n = it.current
  OBVIOUS
<1>b. PICK p : p = it.prev
  OBVIOUS
<1>c. PICK x : x = mNext[n]
  OBVIOUS
<1>3. /\ it.phase = "called" /\ it' = At(x, p) /\ Unlinked(n, p)
      /\ UNCHANGED <<isQueue, moved, called, due, added>>
  BY <1>a, <1>b, <1>c, Zenon DEF EraseCalled
<1>4. n \in A /\ IsBefore(A, mNext, list.first, n, p)
  BY <1>1, <1>3, <1>a, <1>b DEF Calling
<1>5. /\ it.current \in A /\ it.stop \in Nodes /\ it.stop # NoNode
      /\ x \in (A \ {it.current}) \cup {NoNode}
      /\ x # NoNode => mDelegate[it.current] < mDelegate[x]
      /\ x # NoNode => \A i \in 1 .. Len(called) : called[i] < mDelegate[x]
      /\ \A d \in due : WillBeCalled(A, d) => x # NoNode /\ mDelegate[x] <= d
  BY <1>0, <1>1, <1>3, <1>a, <1>c, NextInOrder
<1>6. /\ \E W \in SUBSET Nodes, r2 \in [Nodes -> Int], lo2 \in Int :
             Placed(A \ {n}, W, B, V, r2, lo2)'
      /\ \A y \in A \ {n} : /\ mDelegate'[y] = mDelegate[y]
                            /\ mNext'[y] = IF y = p THEN mNext[n] ELSE mNext[y]
      /\ list'.first = IF p = NoNode THEN mNext[n] ELSE list.first
      /\ list' \in Lists /\ mNext' \in [Nodes -> Nodes \cup {NoNode}]
      /\ mDelegate' \in [Nodes -> Nat] /\ heap' \in SUBSET Nodes
      /\ list'.nodeCount = list.nodeCount
  BY <1>0, <1>1, <1>3, <1>4, UnlinkedOK
<1>7. /\ it' \in [phase : {"done", "call", "called"}, current : Nodes \cup {NoNode},
                  prev : Nodes \cup {NoNode}, stop : Nodes \cup {NoNode}]
      /\ it'.current = x /\ it'.prev = p /\ it'.stop = it.stop
      /\ it'.phase = IF x = NoNode \/ it.stop = NoNode THEN "done" ELSE "call"
  <2>1. x \in Nodes \cup {NoNode} /\ p \in Nodes \cup {NoNode}
    BY <1>0, <1>5, <1>b DEF MultiTypeOK
  <2>2. /\ At(x, p) \in [phase : {"done", "call", "called"}, current : Nodes \cup {NoNode},
                          prev : Nodes \cup {NoNode}, stop : Nodes \cup {NoNode}]
        /\ At(x, p).current = x /\ At(x, p).prev = p /\ At(x, p).stop = it.stop
        /\ At(x, p).phase = IF x = NoNode \/ it.stop = NoNode THEN "done" ELSE "call"
    BY <2>1, <1>0, AtIs
  <2> QED BY <2>2, <1>3, Zenon
<1>8. MultiTypeOK'
  BY <1>0, <1>3, <1>6, <1>7 DEF MultiTypeOK
<1>9. p # NoNode => p \in A \ {n} /\ mNext[p] = n
  <2> SUFFICES ASSUME p # NoNode PROVE p \in A \ {n} /\ mNext[p] = n
    OBVIOUS
  <2>1. p \in A /\ mNext[p] = n
    BY <1>4 DEF IsBefore
  <2>2. mDelegate[p] < mDelegate[n]
    BY <2>1, <1>2, <1>4 DEF Chain
  <2> QED BY <2>1, <2>2, <1>2, <1>4
<1>10. Calling(A \ {n})'
  <2>1. ASSUME it'.phase # "done"
        PROVE  /\ it'.current \in A \ {n} /\ it'.stop \in Nodes
               /\ IsBefore(A \ {n}, mNext', list'.first, it'.current, it'.prev)
               /\ \A i \in 1 .. Len(called') :
                    /\ called'[i] <= mDelegate'[it'.current]
                    /\ it'.phase = "call" => called'[i] < mDelegate'[it'.current]
    <3>1. x # NoNode /\ x \in A \ {n} /\ it'.current = x /\ it'.prev = p /\ it'.stop = it.stop
      BY <2>1, <1>5, <1>7, <1>a
    <3>2. IsBefore(A \ {n}, mNext', list'.first, x, p)
      <4>1. CASE p = NoNode
        BY <4>1, <1>6, <1>c DEF IsBefore
      <4>2. CASE p # NoNode
        BY <4>2, <1>6, <1>9, <1>c DEF IsBefore
      <4> QED BY <4>1, <4>2
    <3>3. \A i \in 1 .. Len(called) : called[i] < mDelegate'[x]
      BY <3>1, <1>5, <1>6
    <3>4. mDelegate'[x] \in Int /\ \A i \in 1 .. Len(called) : called[i] \in Int
      <4>1. mDelegate'[x] \in Int
        BY <3>1, <1>6
      <4>2. \A i \in 1 .. Len(called) : called[i] \in Int
        BY <1>0 DEF MultiTypeOK
      <4> QED BY <4>1, <4>2
    <3> QED BY <3>1, <3>2, <3>3, <3>4, <1>3, <1>5
  <2>2. \A i, j \in 1 .. Len(called') : i < j => called'[i] < called'[j]
    BY <1>1, <1>3 DEF Calling
  <2>3. ASSUME NEW d \in due' PROVE WasCalled(d)' \/ WillBeCalled(A \ {n}, d)'
    <3>1. d \in due
      BY <1>3
    <3>2. CASE WasCalled(d)
      BY <3>2, <1>3 DEF WasCalled
    <3>3. CASE WillBeCalled(A, d)
      <4>1. x # NoNode /\ mDelegate[x] <= d /\ x \in A \ {n}
        BY <3>1, <3>3, <1>5, <1>a
      <4>2. PICK y \in A : mDelegate[y] = d
        BY <3>3 DEF WillBeCalled
      <4>3. y # n
        BY <4>1, <4>2, <1>2, <1>4, <1>5, <1>a
      <4>4. y \in A \ {n} /\ mDelegate'[y] = d /\ mDelegate'[x] <= d
        BY <4>1, <4>2, <4>3, <1>6
      <4>5. it'.phase = "call" /\ it'.current = x /\ it'.stop = it.stop
        BY <4>1, <1>5, <1>7
      <4>6. it.stop \in A \ {n} => d <= mDelegate'[it.stop]
        BY <3>3, <1>6 DEF WillBeCalled
      <4> QED BY <4>4, <4>5, <4>6 DEF WillBeCalled
    <3> QED BY <3>1, <3>2, <3>3, <1>1 DEF Calling
  <2> QED BY <2>1, <2>2, <2>3 DEF Calling
<1>11. A \ {n} \in SUBSET Nodes
  OBVIOUS
<1> QED BY <1>6, <1>8, <1>10, <1>11, Zenon DEF MultiInv

\* A list that keeps its delegates goes on to the next one.
LEMMA AdvanceOK ==
  ASSUME MultiInv, Advance
  PROVE  MultiInv'
<1>0. MultiTypeOK
  BY DEF MultiInv
<1>1. PICK A \in SUBSET Nodes, U \in SUBSET Nodes, B \in SUBSET Nodes, V \in SUBSET Nodes,
           r \in [Nodes -> Int], lo \in Int : Placed(A, U, B, V, r, lo) /\ Calling(A)
  BY Zenon DEF MultiInv
<1>2. /\ Listed = A
      /\ Chain(A, mDelegate, mNext, list.first) /\ Ends(A, mNext, list.last)
      /\ NoNode \notin A
      /\ \A x \in A : mDelegate[x] \in Int /\ mDelegate[x] \in 1 .. added
      /\ \A x, y \in A : mDelegate[x] = mDelegate[y] => x = y
  BY <1>0, <1>1, MultiFacts
<1>a. PICK n : n = it.current
  OBVIOUS
<1>b. PICK p : p = IF n = it.stop THEN it.prev ELSE n
  OBVIOUS
<1>c. PICK x : x = mNext[n]
  OBVIOUS
<1>d. PICK y : y = IF n = it.stop THEN NoNode ELSE x
  OBVIOUS
<1>3. /\ it.phase = "called" /\ it' = At(y, p)
      /\ UNCHANGED <<isQueue, list, moved, mNext, mDelegate, heap, called, due, added>>
  BY <1>a, <1>b, <1>c, <1>d, Zenon DEF Advance
<1>5. /\ it.current \in A /\ it.stop \in Nodes /\ it.stop # NoNode
      /\ x \in (A \ {it.current}) \cup {NoNode}
      /\ x # NoNode => mDelegate[it.current] < mDelegate[x]
      /\ x # NoNode => \A i \in 1 .. Len(called) : called[i] < mDelegate[x]
      /\ \A d \in due : WillBeCalled(A, d) => x # NoNode /\ mDelegate[x] <= d
  BY <1>0, <1>1, <1>3, <1>a, <1>c, NextInOrder
<1>7. /\ it' \in [phase : {"done", "call", "called"}, current : Nodes \cup {NoNode},
                  prev : Nodes \cup {NoNode}, stop : Nodes \cup {NoNode}]
      /\ it'.current = y /\ it'.prev = p /\ it'.stop = it.stop
      /\ it'.phase = IF y = NoNode \/ it.stop = NoNode THEN "done" ELSE "call"
  <2>1. y \in Nodes \cup {NoNode} /\ p \in Nodes \cup {NoNode}
    BY <1>0, <1>5, <1>a, <1>b, <1>d DEF MultiTypeOK
  <2>2. /\ At(y, p) \in [phase : {"done", "call", "called"}, current : Nodes \cup {NoNode},
                          prev : Nodes \cup {NoNode}, stop : Nodes \cup {NoNode}]
        /\ At(y, p).current = y /\ At(y, p).prev = p /\ At(y, p).stop = it.stop
        /\ At(y, p).phase = IF y = NoNode \/ it.stop = NoNode THEN "done" ELSE "call"
    BY <2>1, <1>0, AtIs
  <2> QED BY <2>2, <1>3, Zenon
<1>8. MultiTypeOK'
  BY <1>0, <1>3, <1>7 DEF MultiTypeOK
<1>10. Calling(A)'
  <2>1. ASSUME it'.phase # "done"
        PROVE  /\ it'.current \in A /\ it'.stop \in Nodes
               /\ IsBefore(A, mNext', list'.first, it'.current, it'.prev)
               /\ \A i \in 1 .. Len(called') :
                    /\ called'[i] <= mDelegate'[it'.current]
                    /\ it'.phase = "call" => called'[i] < mDelegate'[it'.current]
    <3>1. /\ x # NoNode /\ x \in A /\ n # it.stop
          /\ it'.current = x /\ it'.prev = n /\ it'.stop = it.stop
      BY <2>1, <1>5, <1>7, <1>b, <1>d
    <3>2. IsBefore(A, mNext', list'.first, x, n)
      BY <1>3, <1>5, <1>a, <1>c DEF IsBefore
    <3>3. \A i \in 1 .. Len(called) : called[i] < mDelegate'[x]
      BY <3>1, <1>3, <1>5
    <3>4. mDelegate'[x] \in Int /\ \A i \in 1 .. Len(called) : called[i] \in Int
      BY <3>1, <1>0, <1>3 DEF MultiTypeOK
    <3> QED BY <3>1, <3>2, <3>3, <3>4, <1>3, <1>5
  <2>2. \A i, j \in 1 .. Len(called') : i < j => called'[i] < called'[j]
    BY <1>1, <1>3 DEF Calling
  <2>3. ASSUME NEW d \in due' PROVE WasCalled(d)' \/ WillBeCalled(A, d)'
    <3>1. d \in due
      BY <1>3
    <3>2. CASE WasCalled(d)
      BY <3>2, <1>3 DEF WasCalled
    <3>3. CASE WillBeCalled(A, d)
      <4>1. x # NoNode /\ mDelegate[x] <= d /\ x \in A
        BY <3>1, <3>3, <1>5
      <4>2. n # it.stop
        <5> SUFFICES ASSUME n = it.stop PROVE FALSE
          OBVIOUS
        <5>1. d <= mDelegate[n] /\ mDelegate[n] < d
          BY <3>3, <1>3, <1>5, <1>a DEF WillBeCalled
        <5>2. d \in Int /\ mDelegate[n] \in Int
          BY <3>1, <1>0, <1>2, <1>5, <1>a DEF MultiTypeOK
        <5> QED BY <5>1, <5>2
      <4>5. it'.phase = "call" /\ it'.current = x /\ it'.stop = it.stop
        BY <4>1, <4>2, <1>5, <1>7, <1>d
      <4> QED BY <4>1, <4>5, <3>3, <1>3 DEF WillBeCalled
    <3> QED BY <3>1, <3>2, <3>3, <1>1 DEF Calling
  <2> QED BY <2>1, <2>2, <2>3 DEF Calling
<1>11. Placed(A, U, B, V, r, lo)'
  BY <1>1, <1>3, PlacedFrame
<1> QED BY <1>8, <1>10, <1>11, Zenon DEF MultiInv
\* A delegate is added behind the last one, in an unused node or a new one.
LEMMA AddOK ==
  ASSUME MultiInv, NEW n \in Nodes, Add(n)
  PROVE  MultiInv'
<1>0. MultiTypeOK
  BY DEF MultiInv
<1>1. PICK A \in SUBSET Nodes, U \in SUBSET Nodes, B \in SUBSET Nodes, V \in SUBSET Nodes,
           r \in [Nodes -> Int], lo \in Int : Placed(A, U, B, V, r, lo) /\ Calling(A)
  BY Zenon DEF MultiInv
<1>2. /\ Listed = A
      /\ Chain(A, mDelegate, mNext, list.first) /\ Ends(A, mNext, list.last)
      /\ NoNode \notin A
      /\ \A x \in A : mDelegate[x] \in Int /\ mDelegate[x] \in 1 .. added
      /\ \A x, y \in A : mDelegate[x] = mDelegate[y] => x = y
  BY <1>0, <1>1, MultiFacts
<1>3. /\ GetNode(n) /\ heap' = heap \cup {n} /\ added' = added + 1
      /\ mDelegate' = [mDelegate EXCEPT ![n] = added + 1]
      /\ mNext' = [m \in Nodes |-> CASE m = n         -> NoNode
                                     [] m = list.last -> n
                                     [] OTHER         -> mNext[m]]
      /\ UNCHANGED <<isQueue, moved, it, called, due>>
  BY Zenon DEF Add
<1>4. /\ list'.first = IF list.last = NoNode THEN n ELSE list.first
      /\ list'.last = n
      /\ list'.unused = IF n = list.unused THEN mNext[n] ELSE list.unused
      /\ list'.nodeCount = IF isQueue /\ n \notin heap THEN list.nodeCount + 1 ELSE list.nodeCount
      /\ list' = [first |-> list'.first, last |-> list'.last, unused |-> list'.unused,
                  nodeCount |-> list'.nodeCount]
  BY DEF Add
<1>5. /\ Chain(U, r, mNext, list.unused) /\ Ranked(U, r, lo) /\ Apart(A, U, B, V)
      /\ Links(moved, mDelegate, mNext, added, B, V, r, lo)
  BY <1>1, Zenon DEF Placed, Object, Links
<1>6. n \notin A /\ n \notin B /\ n \notin V /\ n # NoNode /\ (n \in U => n = list.unused)
      /\ (n = list.unused => n \in U)
  <2>1. n = list.unused => n \in U
    BY <1>5, NodesAssumption DEF Chain
  <2>2. (n \in U /\ n = list.unused) \/ n \notin heap
    BY <1>3, <2>1 DEF GetNode
  <2> QED BY <2>1, <2>2, <1>5, NodesAssumption DEF Apart
<1>7. \A m \in Nodes : mNext'[m] = CASE m = n         -> NoNode
                                     [] m = list.last -> n
                                     [] OTHER         -> mNext[m]
  BY <1>3, Zenon
<1>8. list.last \in A \cup {NoNode}
  BY <1>2 DEF Ends
<1>9. \A m \in (U \cup B \cup V) \ {n} : mNext'[m] = mNext[m]
  BY <1>5, <1>7, <1>8, NodesAssumption DEF Apart
<1>10. /\ mDelegate'[n] = added + 1 /\ \A m \in Nodes \ {n} : mDelegate'[m] = mDelegate[m]
       /\ mDelegate' \in [Nodes -> Nat] /\ added \in Nat
  BY <1>0, <1>3 DEF MultiTypeOK
<1>11. MultiTypeOK'
  <2>1. mNext' \in [Nodes -> Nodes \cup {NoNode}]
    <3>1. \A m \in Nodes : mNext'[m] \in Nodes \cup {NoNode}
      BY <1>0, <1>7 DEF MultiTypeOK
    <3>2. mNext' = [m \in Nodes |-> mNext'[m]]
      BY <1>3
    <3> QED BY <3>1, <3>2
  <2>2. list'.nodeCount \in Nat /\ (isQueue => list'.nodeCount <= QueueCapacity)
    <3>1. list.nodeCount \in Nat /\ (isQueue => list.nodeCount <= QueueCapacity)
      BY <1>0 DEF MultiTypeOK, Lists
    <3>2. CASE isQueue /\ n \notin heap
      <4>1. n # list.unused
        BY <3>2, <1>5, <1>6 DEF Apart
      <4>2. list.nodeCount < QueueCapacity
        BY <3>2, <4>1, <1>3 DEF GetNode
      <4> QED BY <3>1, <3>2, <4>2, <1>4, NodesAssumption
    <3>3. CASE ~(isQueue /\ n \notin heap)
      BY <3>1, <3>3, <1>4
    <3> QED BY <3>2, <3>3
  <2>3. list' \in Lists
    <3>1. list'.first \in Nodes \cup {NoNode} /\ list'.last \in Nodes \cup {NoNode}
      BY <1>0, <1>4 DEF MultiTypeOK, Lists
    <3>2. list'.unused \in Nodes \cup {NoNode}
      BY <1>0, <1>4 DEF MultiTypeOK, Lists
    <3> QED BY <3>1, <3>2, <2>2, <1>4 DEF Lists
  <2>4. heap' \in SUBSET Nodes /\ added' \in Nat
    BY <1>0, <1>3 DEF MultiTypeOK
  <2> QED BY <1>0, <1>3, <1>10, <2>1, <2>2, <2>3, <2>4 DEF MultiTypeOK
<1>12. Chain(A \cup {n}, mDelegate', mNext', list'.first) /\ Ends(A \cup {n}, mNext', list'.last)
  <2>1. \A x \in A : mDelegate[x] \in Int /\ mDelegate[x] < mDelegate'[n]
    BY <1>2, <1>10
  <2>2. mDelegate'[n] \in Int /\ mNext'[n] = NoNode
    <3>1. mNext'[n] = NoNode
      BY <1>6, <1>7, <1>8
    <3> QED BY <3>1, <1>10
  <2>3. \A x \in A : /\ mDelegate'[x] = mDelegate[x]
                     /\ mNext'[x] = IF x = list.last THEN n ELSE mNext[x]
    BY <1>6, <1>7, <1>10
  <2>5. IsBehind(A, mDelegate, mNext, list.last, mDelegate', mNext', n)
    BY <2>1, <2>2, <2>3 DEF IsBehind
  <2>4. /\ Chain(A \cup {n}, mDelegate', mNext', IF list.last = NoNode THEN n ELSE list.first)
        /\ Ends(A \cup {n}, mNext', n)
    BY <1>2, <1>6, <2>5, ChainAppended
  <2> QED BY <2>4, <1>4
<1>13. Chain(U \ {n}, r, mNext', list'.unused) /\ Ranked(U \ {n}, r, lo)
  <2>1. Ranked(U \ {n}, r, lo)
    BY <1>5 DEF Ranked
  <2>2. CASE n = list.unused
    <3>1. n \in U /\ IsBefore(U, mNext, list.unused, n, NoNode)
      BY <2>2, <1>6 DEF IsBefore
    <3>2. Unlinks(U, r, mNext, r, mNext', n, NoNode)
      BY <1>9, NodesAssumption DEF Unlinks
    <3>3. NoNode \notin U /\ \A x \in U : r[x] \in Int
      BY NodesAssumption
    <3>4. Chain(U \ {n}, r, mNext', IF NoNode = NoNode THEN mNext[n] ELSE list.unused)
      BY <1>5, <3>1, <3>2, <3>3, ChainWithout
    <3> QED BY <2>1, <2>2, <3>4, <1>4
  <2>3. CASE n # list.unused
    <3>1. U \ {n} = U
      BY <2>3, <1>6
    <3>2. Alike(U, r, mNext, r, mNext')
      BY <3>1, <1>9 DEF Alike
    <3>3. Chain(U, r, mNext', list.unused)
      BY <3>2, <1>5, ChainFrame
    <3> QED BY <2>1, <2>3, <3>1, <3>3, <1>4
  <2> QED BY <2>2, <2>3
<1>14. Links(list', mDelegate', mNext', added', A \cup {n}, U \ {n}, r, lo)
  <2>1. \A x \in A \cup {n} : mDelegate'[x] \in 1 .. added'
    BY <1>2, <1>3, <1>6, <1>10
  <2> QED BY <2>1, <1>12, <1>13, Zenon DEF Links
<1>15. Links(moved', mDelegate', mNext', added', B, V, r, lo)
  <2>1. Alike(B, mDelegate, mNext, mDelegate', mNext')
    BY <1>6, <1>9, <1>10 DEF Alike
  <2>2. Alike(V, r, mNext, r, mNext')
    BY <1>6, <1>9 DEF Alike
  <2>3. added' \in Nat /\ added \in Nat /\ added <= added' /\ lo <= lo
    BY <1>3, <1>10
  <2>4. Links(moved, mDelegate', mNext', added', B, V, r, lo)
    BY <2>1, <2>2, <2>3, <1>5, ObjectFrame
  <2> QED BY <2>4, <1>3
<1>16. Placed(A \cup {n}, U \ {n}, B, V, r, lo)'
  <2>1. Apart(A \cup {n}, U \ {n}, B, V)'
    BY <1>3, <1>5, <1>6 DEF Apart
  <2> QED BY <2>1, <1>14, <1>15, Zenon DEF Placed, Object
<1>17. Calling(A \cup {n})'
  <2>1. ASSUME it.phase # "done"
        PROVE  /\ it.current \in A /\ it.stop \in Nodes
               /\ mDelegate'[it.current] = mDelegate[it.current]
               /\ IsBefore(A \cup {n}, mNext', list'.first, it.current, it.prev)
    <3>1. it.current \in A /\ it.stop \in Nodes /\ IsBefore(A, mNext, list.first, it.current, it.prev)
      BY <2>1, <1>1 DEF Calling
    <3>2. mDelegate'[it.current] = mDelegate[it.current]
      BY <3>1, <1>6, <1>10
    <3>3. CASE it.prev = NoNode /\ it.current = list.first
      <4>1. list.last # NoNode
        BY <3>1, <1>2 DEF Ends
      <4> QED BY <4>1, <3>1, <3>2, <3>3, <1>4 DEF IsBefore
    <3>4. CASE it.prev \in A /\ mNext[it.prev] = it.current
      <4>1. it.prev # list.last
        BY <3>1, <3>4, <1>2 DEF Ends
      <4>2. mNext'[it.prev] = it.current
        BY <4>1, <3>4, <1>6, <1>7
      <4> QED BY <4>2, <3>1, <3>2, <3>4 DEF IsBefore
    <3> QED BY <3>1, <3>3, <3>4 DEF IsBefore
  <2>2. ASSUME it'.phase # "done"
        PROVE  /\ it'.current \in A \cup {n} /\ it'.stop \in Nodes
               /\ IsBefore(A \cup {n}, mNext', list'.first, it'.current, it'.prev)
               /\ \A i \in 1 .. Len(called') :
                    /\ called'[i] <= mDelegate'[it'.current]
                    /\ it'.phase = "call" => called'[i] < mDelegate'[it'.current]
    BY <2>1, <2>2, <1>1, <1>3 DEF Calling
  <2>3. \A i, j \in 1 .. Len(called') : i < j => called'[i] < called'[j]
    BY <1>1, <1>3 DEF Calling
  <2>4. ASSUME NEW d \in due' PROVE WasCalled(d)' \/ WillBeCalled(A \cup {n}, d)'
    <3>1. d \in due
      BY <1>3
    <3>2. CASE WasCalled(d)
      BY <3>2, <1>3 DEF WasCalled
    <3>3. CASE WillBeCalled(A, d)
      <4>1. PICK x \in A : mDelegate[x] = d
        BY <3>3 DEF WillBeCalled
      <4>2. x \in A \cup {n} /\ mDelegate'[x] = d
        BY <4>1, <1>6, <1>10
      <4>3. it.stop \in A \cup {n} => d <= mDelegate'[it.stop]
        <5>1. CASE it.stop \in A
          BY <5>1, <3>3, <1>6, <1>10 DEF WillBeCalled
        <5>2. CASE it.stop = n
          <6>1. d \in 1 .. added
            BY <4>1, <1>2
          <6> QED BY <6>1, <5>2, <1>10
        <5> QED BY <5>1, <5>2
      <4>4. it.phase # "done"
        BY <3>3 DEF WillBeCalled
      <4> QED BY <4>2, <4>3, <4>4, <3>3, <2>1, <1>3 DEF WillBeCalled
    <3> QED BY <3>1, <3>2, <3>3, <1>1 DEF Calling
  <2> QED BY <2>2, <2>3, <2>4 DEF Calling
<1>18. A \cup {n} \in SUBSET Nodes /\ U \ {n} \in SUBSET Nodes
  OBVIOUS
<1> QED BY <1>11, <1>16, <1>17, <1>18, Zenon DEF MultiInv

\* Between calls nothing is ahead of an iterator.
LEMMA AtRest ==
  ASSUME NEW A, NEW C, Calling(A), it.phase = "done", UNCHANGED it,
         UNCHANGED <<called, due>>
  PROVE  Calling(C)'
BY Zenon DEF Calling, WasCalled, WillBeCalled

\* A list goes to the other object, or comes back, as a whole.
LEMMA MoveOK ==
  ASSUME MultiInv, it.phase = "done", list' = moved, moved' = list,
         UNCHANGED <<isQueue, mNext, mDelegate, heap, it, called, due, added>>
  PROVE  MultiInv'
<1>0. MultiTypeOK
  BY DEF MultiInv
<1>1. PICK A \in SUBSET Nodes, U \in SUBSET Nodes, B \in SUBSET Nodes, V \in SUBSET Nodes,
           r \in [Nodes -> Int], lo \in Int : Placed(A, U, B, V, r, lo) /\ Calling(A)
  BY Zenon DEF MultiInv
<1>2. MultiTypeOK'
  BY <1>0 DEF MultiTypeOK
<1>3. Apart(B, V, A, U)'
  BY <1>1 DEF Placed, Apart
<1>4. Object(list, B, V, r, lo)' /\ Object(moved, A, U, r, lo)'
  BY <1>1, Zenon DEF Placed, Object
<1>5. Placed(B, V, A, U, r, lo)'
  BY <1>3, <1>4, Zenon DEF Placed
<1>6. Calling(B)'
  BY <1>1, AtRest, Zenon
<1> QED BY <1>2, <1>5, <1>6, Zenon DEF MultiInv
\* The destructor reaches the listed and the unused nodes of its object.
LEMMA DestroyedIs ==
  ASSUME MultiTypeOK, NEW A \in SUBSET Nodes, NEW U \in SUBSET Nodes, NEW r, NEW lo \in Int,
         NEW next, Object(list, A, U, r, lo), A \cap U = {},
         next = [n \in Nodes |-> IF n = list.last THEN list.unused ELSE mNext[n]]
  PROVE  Reach(next, IF list.first # NoNode THEN list.first ELSE list.unused) = A \cup U
<1>1. /\ Chain(A, mDelegate, mNext, list.first) /\ Ends(A, mNext, list.last)
      /\ Chain(U, r, mNext, list.unused) /\ Ranked(U, r, lo)
      /\ \A x \in A : mDelegate[x] \in 1 .. added
  BY Zenon DEF Object, Links
<1>a. PICK f : f = IF list.first # NoNode THEN list.first ELSE list.unused
  OBVIOUS
<1>2. NoNode \notin A /\ NoNode \notin U
  BY NodesAssumption
<1>3. Ranked(A, mDelegate, 0) /\ 0 \in Int
  BY DEF Ranked, MultiTypeOK
<1>4. list.last \in A \cup {NoNode} /\ (list.first # NoNode => list.last \in A)
  BY <1>1 DEF Chain, Ends
<1>5. Reach(next, f) \subseteq A \cup U
  <2>1. {f} \cap Nodes \subseteq A \cup U
    BY <1>1, <1>a, NodesAssumption DEF Chain
  <2>2. ASSUME NEW x \in A \cup U PROVE next[x] \in A \cup U \cup {NoNode}
    <3>1. CASE x = list.last
      BY <3>1, <1>1 DEF Chain
    <3>2. CASE x # list.last
      BY <3>2, <1>1 DEF Chain
    <3> QED BY <3>1, <3>2
  <2>3. A \cup U \in SUBSET Nodes
    OBVIOUS
  <2> QED BY <2>1, <2>2, <2>3 DEF Reach
<1>6. ASSUME NEW T \in SUBSET Nodes, {f} \cap Nodes \subseteq T,
             \A x \in T : next[x] \in T \cup {NoNode}
      PROVE  A \cup U \subseteq T
  <2>1. A \subseteq T
    <3>1. \A x \in A : x = list.first => x \in T
      BY <1>2, <1>6, <1>a
    <3>2. ASSUME NEW x \in A \cap T, mNext[x] \in A PROVE mNext[x] \in T
      <4>1. x # list.last
        BY <3>2, <1>1, <1>2 DEF Ends
      <4>2. next[x] = mNext[x]
        BY <4>1
      <4> QED BY <4>2, <3>2, <1>2, <1>6
    <3>3. Follows(T, A, mNext, list.first)
      BY <3>1, <3>2 DEF Follows
    <3> QED BY <3>3, <1>1, <1>3, Covered, Zenon
  <2>2. U \subseteq T
    <3>1. ASSUME NEW x \in U, x = list.unused PROVE x \in T
      <4>1. CASE list.first = NoNode
        BY <4>1, <3>1, <1>6, <1>a
      <4>2. CASE list.first # NoNode
        <5>1. list.last \in T /\ next[list.last] = list.unused
          BY <4>2, <2>1, <1>4
        <5> QED BY <5>1, <3>1, <1>2, <1>6
      <4> QED BY <4>1, <4>2
    <3>2. ASSUME NEW x \in U \cap T, mNext[x] \in U PROVE mNext[x] \in T
      <4>1. next[x] = mNext[x]
        BY <1>2, <1>4
      <4> QED BY <4>1, <3>2, <1>2, <1>6
    <3>3. Follows(T, U, mNext, list.unused)
      BY <3>1, <3>2 DEF Follows
    <3> QED BY <3>3, <1>1, Covered, Zenon
  <2> QED BY <2>1, <2>2
<1>7. Reach(next, f) = A \cup U
  BY <1>5, <1>6 DEF Reach
<1> QED BY <1>7, <1>a

\* An object dies with its nodes.
LEMMA DestroyOK ==
  ASSUME MultiInv, Destroy
  PROVE  MultiInv'
<1>0. MultiTypeOK
  BY DEF MultiInv
<1>1. PICK A \in SUBSET Nodes, U \in SUBSET Nodes, B \in SUBSET Nodes, V \in SUBSET Nodes,
           r \in [Nodes -> Int], lo \in Int : Placed(A, U, B, V, r, lo) /\ Calling(A)
  BY Zenon DEF MultiInv
<1>a. PICK next : next = [n \in Nodes |-> IF n = list.last THEN list.unused ELSE mNext[n]]
  OBVIOUS
<1>b. PICK gone : gone = Reach(next, IF list.first # NoNode THEN list.first ELSE list.unused)
  OBVIOUS
<1>2. /\ heap' = heap \ gone /\ mNext' = next /\ it.phase = "done"
      /\ mDelegate' = [n \in Nodes |-> IF n \in gone THEN 0 ELSE mDelegate[n]]
      /\ list' = EmptyList /\ called' = <<>> /\ due' = {}
      /\ UNCHANGED <<isQueue, moved, it, added>>
  BY <1>a, <1>b, Zenon DEF Destroy
<1>3. Object(list, A, U, r, lo) /\ Apart(A, U, B, V) /\ Links(moved, mDelegate, mNext, added, B, V, r, lo)
  BY <1>1, Zenon DEF Placed, Object
<1>4. gone = A \cup U
  BY <1>0, <1>3, <1>a, <1>b, DestroyedIs DEF Apart
<1>5. \A x \in B \cup V : x # list.last /\ x \notin gone
  <2>1. list.last \in A \cup {NoNode}
    BY <1>3 DEF Object, Links, Ends
  <2> QED BY <2>1, <1>3, <1>4, NodesAssumption DEF Apart
<1>6. MultiTypeOK'
  <2>1. mNext' \in [Nodes -> Nodes \cup {NoNode}]
    BY <1>0, <1>2, <1>a DEF MultiTypeOK, Lists
  <2>2. list' \in Lists /\ list'.nodeCount = 0
    BY <1>2 DEF EmptyList, Lists
  <2>3. mDelegate' \in [Nodes -> Nat] /\ heap' \in SUBSET Nodes
    BY <1>0, <1>2 DEF MultiTypeOK
  <2>4. called' \in Seq(Nat) /\ due' \in SUBSET Nat
    BY <1>2
  <2> QED BY <1>0, <1>2, <2>1, <2>2, <2>3, <2>4, NodesAssumption DEF MultiTypeOK
<1>7. Links(moved', mDelegate', mNext', added', B, V, r, lo)
  <2>1. Alike(B, mDelegate, mNext, mDelegate', mNext') /\ Alike(V, r, mNext, r, mNext')
    BY <1>2, <1>5, <1>a DEF Alike
  <2>2. added \in Nat /\ added <= added /\ lo <= lo
    BY <1>0 DEF MultiTypeOK
  <2>3. Links(moved, mDelegate', mNext', added, B, V, r, lo)
    BY <2>1, <2>2, <1>3, ObjectFrame
  <2> QED BY <2>3, <1>2
<1>8. Links(list', mDelegate', mNext', added', {}, {}, r, lo)
  BY <1>2 DEF Links, Chain, Ends, Ranked, EmptyList
<1>9. Placed({}, {}, B, V, r, lo)'
  <2>1. Apart({}, {}, B, V)'
    BY <1>2, <1>3, <1>4 DEF Apart
  <2> QED BY <2>1, <1>7, <1>8, Zenon DEF Placed, Object
<1>10. Calling({})'
  BY <1>2 DEF Calling
<1>11. {} \in SUBSET Nodes
  OBVIOUS
<1> QED BY <1>6, <1>9, <1>10, <1>11, Zenon DEF MultiInv

\* Each step keeps the invariant.
LEMMA MultiNextOK == MultiInv /\ [MultiNext]_multiVars => MultiInv'
<1> SUFFICES ASSUME MultiInv, [MultiNext]_multiVars PROVE MultiInv'
  OBVIOUS
<1>1. ASSUME NEW n \in Nodes, Add(n) PROVE MultiInv'
  BY <1>1, AddOK
<1>2. ASSUME NEW n \in Nodes, Erase(n) PROVE MultiInv'
  BY <1>2, EraseOK
<1>3. CASE MoveAway
  <2>1. list = EmptyList \/ list # EmptyList
    OBVIOUS
  <2> QED BY <1>3, MoveOK, Zenon DEF MoveAway, Move
<1>4. CASE MoveBack
  BY <1>4, MoveOK, Zenon DEF MoveBack, Move
<1>5. CASE Destroy
  BY <1>5, DestroyOK
<1>6. CASE Begin
  BY <1>6, BeginOK
<1>7. CASE CallDelegate
  BY <1>7, CallDelegateOK
<1>8. CASE EraseCalled
  BY <1>8, EraseCalledOK
<1>9. CASE Advance
  BY <1>9, AdvanceOK
<1>10. CASE UNCHANGED multiVars
  <2>1. UNCHANGED <<isQueue, list, moved, mNext, mDelegate, heap, it, called, due, added>>
    BY <1>10 DEF multiVars
  <2>2. PICK A \in SUBSET Nodes, U \in SUBSET Nodes, B \in SUBSET Nodes, V \in SUBSET Nodes,
             r \in [Nodes -> Int], lo \in Int : Placed(A, U, B, V, r, lo) /\ Calling(A)
    BY Zenon DEF MultiInv
  <2>3. Placed(A, U, B, V, r, lo)'
    BY <2>1, <2>2, PlacedFrame
  <2>4. Calling(A)'
    BY <2>1, <2>2 DEF Calling, WasCalled, WillBeCalled
  <2>5. MultiTypeOK'
    BY <2>1 DEF MultiInv, MultiTypeOK
  <2> QED BY <2>3, <2>4, <2>5, Zenon DEF MultiInv
<1> QED BY <1>1, <1>2, <1>3, <1>4, <1>5, <1>6, <1>7, <1>8, <1>9, <1>10, Zenon DEF MultiNext

-----------------------------------------------------------------------------
(* A delegate.                                                             *)

\* The kinds of a delegate, and what each has constructed.
UnionOK(u) ==
    /\ u \in [kind : {"none", "FUNC", "FP", "FPA"}, functional : Int, obj : Int, id : Int]
    /\ u.functional = (IF u.kind = "FUNC" THEN 1 ELSE 0)
    /\ u.obj = (IF u.kind = "FPA" THEN 1 ELSE 0)

\* The inductive invariant.
DelegateInv ==
    /\ union \in [Delegates -> [kind : {"none", "FUNC", "FP", "FPA"}, functional : Int, obj : Int, id : Int]]
    /\ \A d \in Delegates : UnionOK(union[d]) /\ meant[d] = Target(union[d])
    /\ DOMAIN meant = Delegates /\ meant = [d \in Delegates |-> meant[d]]

Held == {"FUNC", "FP", "FPA"}

\* What was constructed and destroyed has the member of its kind.
LEMMA ConstructedOK ==
  ASSUME NEW u, UnionOK(u), u.kind = "none", NEW k \in Held, NEW i \in Int
  PROVE  LET v == [Constructed(u, k) EXCEPT !.id = i] IN
         UnionOK(v) /\ Target(v) = [kind |-> k, id |-> i]
<1>1. CASE k = "FUNC"
  <2>1. Constructed(u, k) = [[u EXCEPT !.functional = @ + 1] EXCEPT !.kind = k]
    BY <1>1 DEF Constructed, Members
  <2>2. u.functional = 0 /\ u.obj = 0
    BY DEF UnionOK
  <2>3. u.functional + 1 = 1
    BY <2>2
  <2>4. Constructed(u, k) = [[u EXCEPT !.functional = 1] EXCEPT !.kind = k]
    BY <2>1, <2>3, Zenon
  <2>5. u = [kind |-> u.kind, functional |-> 0, obj |-> 0, id |-> u.id]
    BY <2>2 DEF UnionOK
  <2>a. [u EXCEPT !.functional = 1] = [kind |-> u.kind, functional |-> 1, obj |-> 0, id |-> u.id]
    BY <2>5
  <2>b. Constructed(u, k) = [kind |-> k, functional |-> 1, obj |-> 0, id |-> u.id]
    BY <2>4, <2>a
  <2>6. [Constructed(u, k) EXCEPT !.id = i] = [kind |-> k, functional |-> 1, obj |-> 0, id |-> i]
    BY <2>b
  <2>7. UnionOK([kind |-> k, functional |-> 1, obj |-> 0, id |-> i])
    BY <1>1 DEF UnionOK
  <2>8. Target([kind |-> k, functional |-> 1, obj |-> 0, id |-> i]) = [kind |-> k, id |-> i]
    BY DEF Target
  <2> QED BY <2>6, <2>7, <2>8, Zenon
<1>2. CASE k = "FPA"
  <2>1. Constructed(u, k) = [[u EXCEPT !.obj = @ + 1] EXCEPT !.kind = k]
    BY <1>2 DEF Constructed, Members
  <2>2. u.functional = 0 /\ u.obj = 0
    BY DEF UnionOK
  <2>3. u.obj + 1 = 1
    BY <2>2
  <2>4. Constructed(u, k) = [[u EXCEPT !.obj = 1] EXCEPT !.kind = k]
    BY <2>1, <2>3, Zenon
  <2>5. u = [kind |-> u.kind, functional |-> 0, obj |-> 0, id |-> u.id]
    BY <2>2 DEF UnionOK
  <2>a. [u EXCEPT !.obj = 1] = [kind |-> u.kind, functional |-> 0, obj |-> 1, id |-> u.id]
    BY <2>5
  <2>c. Constructed(u, k) = [[kind |-> u.kind, functional |-> 0, obj |-> 1, id |-> u.id] EXCEPT !.kind = k]
    BY <2>4, <2>a, Zenon
  <2>b. Constructed(u, k) = [kind |-> k, functional |-> 0, obj |-> 1, id |-> u.id]
    BY <2>c
  <2>6. [Constructed(u, k) EXCEPT !.id = i] = [kind |-> k, functional |-> 0, obj |-> 1, id |-> i]
    BY <2>b
  <2>7. UnionOK([kind |-> k, functional |-> 0, obj |-> 1, id |-> i])
    BY <1>2 DEF UnionOK
  <2>8. Target([kind |-> k, functional |-> 0, obj |-> 1, id |-> i]) = [kind |-> k, id |-> i]
    BY DEF Target
  <2> QED BY <2>6, <2>7, <2>8, Zenon
<1>3. CASE k = "FP"
  BY <1>3 DEF UnionOK, Constructed, Members, Target
<1> QED BY <1>1, <1>2, <1>3 DEF Held

\* What was destroyed holds nothing.
LEMMA DestroyedOK ==
  ASSUME NEW u, UnionOK(u)
  PROVE  UnionOK(Destroyed(u)) /\ Destroyed(u).kind = "none"
BY SMT DEF UnionOK, Destroyed, Members

\* What was assigned another delegate has the member of that one's kind.
LEMMA AssignedOK ==
  ASSUME NEW u, UnionOK(u), NEW k \in Held, NEW i \in Int
  PROVE  LET v == AssignedDelegate(u, k, i) IN
         UnionOK(v) /\ Target(v) = [kind |-> k, id |-> i]
<1>1. CASE u.kind = k
  BY <1>1 DEF AssignedDelegate, UnionOK, Target
<1>2. CASE u.kind # k
  <2>1. AssignedDelegate(u, k, i) = [Constructed(Destroyed(u), k) EXCEPT !.id = i]
    BY <1>2, Zenon DEF AssignedDelegate
  <2>2. UnionOK(Destroyed(u)) /\ Destroyed(u).kind = "none"
    BY DestroyedOK
  <2> QED BY <2>1, <2>2, ConstructedOK
<1> QED BY <1>1, <1>2
\* What was assigned a function has a function.
LEMMA AssignedFunctionOK ==
  ASSUME NEW u, UnionOK(u), NEW i \in Int
  PROVE  LET v == AssignedFunction(u, i) IN
         UnionOK(v) /\ Target(v) = [kind |-> "FP", id |-> i]
<1>1. UnionOK(Destroyed(u)) /\ Destroyed(u).kind = "none"
  BY DestroyedOK
<1> QED BY <1>1, ConstructedOK DEF AssignedFunction, Held

\* What a move leaves keeps its kind.
LEMMA LeftOK ==
  ASSUME NEW u, UnionOK(u), u.kind # "none"
  PROVE  UnionOK(LeftBy(u))
BY DEF UnionOK, LeftBy, Null, Moved

\* A delegate that becomes another one.
LEMMA BecomesOK ==
  ASSUME DelegateInv, NEW d \in Delegates, NEW u, NEW t,
         UnionOK(u), t = Target(u), Becomes(d, u, t)
  PROVE  DelegateInv'
BY DEF DelegateInv, Becomes, UnionOK

\* At first there is no delegate.
LEMMA DelegateInitOK == DelegateInit => DelegateInv
BY DEF DelegateInit, DelegateInv, NoDelegate, UnionOK, Target, Null

\* Each step keeps the invariant.
LEMMA DelegateNextOK == DelegateInv /\ [DelegateNext]_delegateVars => DelegateInv'
<1> SUFFICES ASSUME DelegateInv, [DelegateNext]_delegateVars PROVE DelegateInv'
  OBVIOUS
<1>0. \A d \in Delegates : UnionOK(union[d]) /\ meant[d] = Target(union[d])
  BY DEF DelegateInv
<1>a. \A d \in Delegates : Exists(d) => union[d].kind \in Held /\ union[d].id \in Int
  BY <1>0 DEF UnionOK, Exists, Held
<1>b. \A d \in Delegates : ~Exists(d) => union[d].kind = "none"
  BY DEF Exists
<1>1. ASSUME NEW d \in Delegates, ConstructDelegate(d) PROVE DelegateInv'
  <2>1. PICK t \in Callables \cup {[kind |-> "FP", id |-> Null]} :
           Becomes(d, [Constructed(union[d], t.kind) EXCEPT !.id = t.id], t)
    BY <1>1 DEF ConstructDelegate
  <2>2. t.kind \in Held /\ t.id \in Int /\ t = [kind |-> t.kind, id |-> t.id]
    BY DEF Callables, Null, Held
  <2>3. union[d].kind = "none"
    BY <1>1, <1>b DEF ConstructDelegate
  <2> QED BY <2>1, <2>2, <2>3, <1>0, ConstructedOK, BecomesOK
<1>2. ASSUME NEW d \in Delegates, AssignFunction(d) PROVE DelegateInv'
  <2>1. PICK i \in {Null, 1, 2} : Becomes(d, AssignedFunction(union[d], i), [kind |-> "FP", id |-> i])
    BY <1>2 DEF AssignFunction
  <2>2. i \in Int
    BY DEF Null
  <2> QED BY <2>1, <2>2, <1>0, AssignedFunctionOK, BecomesOK
<1>3. ASSUME NEW d \in Delegates, DestroyDelegate(d) PROVE DelegateInv'
  <2>1. Becomes(d, [Destroyed(union[d]) EXCEPT !.id = Null], Target(NoDelegate))
    BY <1>3 DEF DestroyDelegate
  <2>2. UnionOK(Destroyed(union[d])) /\ Destroyed(union[d]).kind = "none"
    BY <1>0, DestroyedOK
  <2>3. UnionOK([Destroyed(union[d]) EXCEPT !.id = Null])
    BY <2>2 DEF UnionOK, Null
  <2>4. Target([Destroyed(union[d]) EXCEPT !.id = Null]) = Target(NoDelegate)
    BY <2>2 DEF UnionOK, Null, Target, NoDelegate
  <2> QED BY <2>1, <2>3, <2>4, BecomesOK
<1>4. ASSUME NEW d \in Delegates, NEW s \in Delegates, CopyDelegate(d, s) PROVE DelegateInv'
  <2>1. /\ Becomes(d, [Constructed(union[d], union[s].kind) EXCEPT !.id = union[s].id], meant[s])
        /\ union[d].kind = "none" /\ Exists(s)
    BY <1>4, <1>b DEF CopyDelegate
  <2>2. meant[s] = [kind |-> union[s].kind, id |-> union[s].id]
    BY <1>0 DEF Target
  <2> QED BY <2>1, <2>2, <1>0, <1>a, ConstructedOK, BecomesOK
<1>5. ASSUME NEW d \in Delegates, NEW s \in Delegates, AssignDelegate(d, s) PROVE DelegateInv'
  <2>1. /\ Becomes(d, IF d = s THEN union[d]
                      ELSE AssignedDelegate(union[d], union[s].kind, union[s].id), meant[s])
        /\ Exists(s)
    BY <1>5 DEF AssignDelegate
  <2>2. meant[s] = [kind |-> union[s].kind, id |-> union[s].id]
    BY <1>0 DEF Target
  <2>3. CASE d = s
    BY <2>1, <2>3, <1>0, BecomesOK
  <2>4. CASE d # s
    BY <2>1, <2>2, <2>4, <1>0, <1>a, AssignedOK, BecomesOK
  <2> QED BY <2>3, <2>4
<1>6. ASSUME NEW d \in Delegates, NEW s \in Delegates, MoveDelegate(d, s) PROVE DelegateInv'
  <2>a. PICK u : u = IF Exists(d) THEN AssignedDelegate(union[d], union[s].kind, union[s].id)
                     ELSE [Constructed(union[d], union[s].kind) EXCEPT !.id = union[s].id]
    OBVIOUS
  <2>b. PICK v : v = LeftBy(union[s])
    OBVIOUS
  <2>1. /\ Exists(s) /\ d # s
        /\ union' = [union EXCEPT ![d] = u, ![s] = v]
        /\ meant' = [meant EXCEPT ![d] = meant[s], ![s] = Target(v)]
    BY <1>6, <2>a, <2>b, Zenon DEF MoveDelegate
  <2>2. UnionOK(u) /\ Target(u) = [kind |-> union[s].kind, id |-> union[s].id]
    BY <2>1, <2>a, <1>0, <1>a, <1>b, AssignedOK, ConstructedOK
  <2>3. meant[s] = Target(u)
    BY <2>2, <1>0 DEF Target
  <2>4. UnionOK(v)
    BY <2>1, <2>b, <1>0, LeftOK DEF Exists
  <2> QED BY <2>1, <2>2, <2>3, <2>4 DEF DelegateInv, UnionOK
<1>7. CASE UNCHANGED delegateVars
  BY <1>7 DEF delegateVars, DelegateInv, UnionOK
<1> QED BY <1>1, <1>2, <1>3, <1>4, <1>5, <1>6, <1>7 DEF DelegateNext

\* What the invariant says of a delegate is what is checked.
LEMMA DelegateIsKept == DelegateInv => DelegateKeepsWord
<1> SUFFICES ASSUME DelegateInv, NEW d \in Delegates
             PROVE  LET u == union[d] IN
                    /\ u.functional = (IF u.kind = "FUNC" THEN 1 ELSE 0)
                    /\ u.obj = (IF u.kind = "FPA" THEN 1 ELSE 0)
                    /\ Target(u) = meant[d]
                    /\ Exists(d) => Through(FunVPPtr(d), Arg(d)) = meant[d]
  BY Zenon DEF DelegateKeepsWord
<1>1. UnionOK(union[d]) /\ meant[d] = Target(union[d])
  BY DEF DelegateInv
<1>2. ASSUME Exists(d) PROVE Through(FunVPPtr(d), Arg(d)) = meant[d]
  <2>1. CASE union[d].kind = "FP"
    BY <2>1, <1>1 DEF Through, FunVPPtr, Arg, Target
  <2>2. CASE union[d].kind = "FPA" /\ d \in Pointers
    BY <2>2, <1>1 DEF Through, FunVPPtr, Arg, Target
  <2>3. CASE union[d].kind = "FPA" /\ d \notin Pointers
    BY <2>3, <1>1 DEF Through, FunVPPtr, Arg, Target
  <2>4. CASE union[d].kind = "FUNC"
    BY <2>4, <1>1 DEF Through, FunVPPtr, Arg, Target
  <2> QED BY <2>1, <2>2, <2>3, <2>4, <1>1, <1>2 DEF UnionOK, Exists
<1> QED BY <1>1, <1>2 DEF UnionOK

\* A delegate calls what it was given, and a list of them stays whole and calls
\* each of them once and in order, for any number of nodes and any capacity.
THEOREM DelegatesAreKept == DelegateSpec /\ MultiSpec => []DelegatesKept
<1>1. DelegateInit /\ [][DelegateNext]_delegateVars => []DelegateInv
  BY DelegateInitOK, DelegateNextOK, PTL
<1>2. MultiInit /\ [][MultiNext]_multiVars => []MultiInv
  BY MultiInitOK, MultiNextOK, PTL
<1>3. DelegateInv /\ MultiInv => DelegatesKept
  BY DelegateIsKept, MultiIsKept DEF DelegatesKept
<1> QED BY <1>1, <1>2, <1>3, PTL DEF DelegateSpec, MultiSpec
=============================================================================
