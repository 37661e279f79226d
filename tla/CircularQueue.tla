--------------------------- MODULE CircularQueue ----------------------------
(***************************************************************************)
(* circular_queue.h: the lock-free ring buffer between one producer (the   *)
(* pin interrupt of SoftwareSerial) and one consumer (its loop).  A step   *)
(* is what lies between two accesses to memory the other side may see; a   *)
(* side's loads of its own position are no steps, nobody else writes it.   *)
(* The fences order these steps, so memory is taken to be sequentially     *)
(* consistent.                                                             *)
(*                                                                         *)
(* available(), available_for_push() and peek() change nothing and have no *)
(* action.  The callbacks of for_each and for_each_rev_requeue see the     *)
(* elements and do not change them.                                        *)
(***************************************************************************)
EXTENDS Integers, Sequences, FiniteSets

CONSTANTS
  m_bufSize,    \* capacity + 1
  Vals,         \* the elements
  MaxBlock      \* bound on the size argument of push_n and pop_n

ASSUME BufSizeAssumption == m_bufSize \in Nat \ {0} /\ Vals # {} /\ MaxBlock \in Nat

VARIABLES
  m_buffer, m_inPos, m_outPos,
  ppc,          \* where the producer is
  pItems,       \* what it pushes; what push_n has no room for is cut off
  pBlock,       \* blockSize of push_n: how much of it goes to the end of the buffer
  pNext,        \* next
  cpc,          \* where the consumer is
  cIn,          \* inPos, inPos0 of the consumer
  cCount,       \* size of pop_n
  cVals,        \* what it has read
  cPos,         \* pos of for_each_rev_requeue
  cOut,         \* outPos1 of for_each_rev_requeue
  got           \* what the last pop, pop_n or callback of for_each got; gone with the next call

bufferVars   == <<m_buffer, m_inPos, m_outPos>>
producerVars == <<ppc, pItems, pBlock, pNext>>
consumerVars == <<cpc, cIn, cCount, cVals, cPos, cOut, got>>
vars == <<bufferVars, producerVars, consumerVars>>

Slots == 0 .. m_bufSize - 1

\* available(): how far b is ahead of a.
Dist(a, b) == IF b - a < 0 THEN b - a + m_bufSize ELSE b - a

available == Dist(m_outPos, m_inPos)

\* The slot i places after p.
Slot(p, i) == (p + i) % m_bufSize

Least(a, b) == IF a <= b THEN a ELSE b

Init ==
  /\ m_buffer \in [Slots -> Vals]
  /\ m_inPos = 0
  /\ m_outPos = 0
  /\ ppc = "idle" /\ pItems = <<>> /\ pBlock = 0 /\ pNext = 0
  /\ cpc = "idle" /\ cIn = 0 /\ cCount = 0 /\ cVals = <<>> /\ cPos = 0 /\ cOut = 0
  /\ got = <<>>

-----------------------------------------------------------------------------
\* The producer calls push(val), push_n(buffer, size), or writes through the
\* reference that pushpeek() gives it and calls push().
CallPush ==
  /\ ppc = "idle"
  /\ \E val \in Vals : pItems' = <<val>>
  /\ ppc' = "push"
  /\ UNCHANGED <<bufferVars, pBlock, pNext, consumerVars>>

CallPushN ==
  /\ ppc = "idle"
  /\ \E size \in 1 .. MaxBlock : pItems' \in [1 .. size -> Vals]
  /\ ppc' = "push_n"
  /\ UNCHANGED <<bufferVars, pBlock, pNext, consumerVars>>

pushpeek ==
  /\ ppc = "idle"
  /\ \E val \in Vals :
       /\ pItems' = <<val>>
       /\ m_buffer' = [m_buffer EXCEPT ![m_inPos] = val]
  /\ ppc' = "peeked"
  /\ UNCHANGED <<m_inPos, m_outPos, pBlock, pNext, consumerVars>>

\* push() and push(val) load m_outPos: full if the next position is the consumer's.
push ==
  /\ ppc \in {"push", "peeked"}
  /\ LET next == Slot(m_inPos, 1) IN
       \/ /\ next = m_outPos
          /\ ppc' = "idle"
          /\ pItems' = <<>>
          /\ UNCHANGED <<pBlock, pNext>>
       \/ /\ next # m_outPos
          /\ ppc' = IF ppc = "push" THEN "copy" ELSE "publish"
          /\ pBlock' = 1
          /\ pNext' = next
          /\ UNCHANGED pItems
  /\ UNCHANGED <<bufferVars, consumerVars>>

\* Mutant: fills the slot that tells a full queue from an empty one.
blockRoomFull ==
  IF m_outPos > m_inPos THEN m_outPos - m_inPos ELSE m_bufSize - m_inPos

\* The free slots from m_inPos on, up to the end of the buffer.
blockRoom ==
  IF m_outPos > m_inPos THEN m_outPos - 1 - m_inPos
  ELSE IF m_outPos = 0 THEN m_bufSize - 1 - m_inPos
  ELSE m_bufSize - m_inPos

\* push_n loads m_outPos: a block up to the end of the buffer, and what is left
\* of the items in a second one at its beginning.
push_n ==
  /\ ppc = "push_n"
  /\ LET size == Len(pItems)
         blockSize == Least(size, blockRoom)
         next == Slot(m_inPos, blockSize)
         rest == IF size = blockSize \/ m_outPos <= 1 THEN 0
                 ELSE Least(size - blockSize, m_outPos - next - 1)
     IN \/ /\ blockSize = 0
           /\ ppc' = "idle"
           /\ pItems' = <<>>
           /\ UNCHANGED <<pBlock, pNext>>
        \/ /\ blockSize # 0
           /\ ppc' = "copy"
           /\ pItems' = SubSeq(pItems, 1, blockSize + rest)
           /\ pBlock' = blockSize
           /\ pNext' = next + rest
  /\ UNCHANGED <<bufferVars, consumerVars>>

\* Mutant: forgets the block at the beginning of the buffer.
copyOneBlock ==
  /\ ppc = "copy"
  /\ m_buffer' = [k \in Slots |->
       IF k >= m_inPos /\ k < m_inPos + pBlock THEN pItems[k - m_inPos + 1] ELSE m_buffer[k]]
  /\ ppc' = "publish"
  /\ UNCHANGED <<m_inPos, m_outPos, pItems, pBlock, pNext, consumerVars>>

copy ==
  /\ ppc = "copy"
  /\ m_buffer' = [k \in Slots |->
       IF k >= m_inPos /\ k < m_inPos + pBlock THEN pItems[k - m_inPos + 1]
       ELSE IF k < Len(pItems) - pBlock THEN pItems[pBlock + k + 1]
       ELSE m_buffer[k]]
  /\ ppc' = "publish"
  /\ UNCHANGED <<m_inPos, m_outPos, pItems, pBlock, pNext, consumerVars>>

publish ==
  /\ ppc = "publish"
  /\ m_inPos' = pNext
  /\ ppc' = "idle"
  /\ pItems' = <<>> /\ pBlock' = 0 /\ pNext' = 0
  /\ UNCHANGED <<m_buffer, m_outPos, consumerVars>>

ProducerCall == CallPush \/ CallPushN \/ pushpeek
ProducerStep == push \/ push_n \/ copy \/ publish

-----------------------------------------------------------------------------
\* The locals go when the call returns.
ConsumerReturns ==
  /\ cpc' = "idle"
  /\ cIn' = 0 /\ cCount' = 0 /\ cVals' = <<>> /\ cPos' = 0 /\ cOut' = 0

\* pop() and pop_n() load m_inPos; on an empty queue they return at once.
pop ==
  /\ cpc = "idle"
  /\ m_inPos # m_outPos
  /\ cCount' = 1
  /\ cpc' = "read"
  /\ UNCHANGED <<bufferVars, producerVars, cIn, cVals, cPos, cOut>>
  /\ got' = <<>>

\* pop_n(buffer, size), and with a null buffer only the position moves.
pop_n ==
  /\ cpc = "idle"
  /\ m_inPos # m_outPos
  /\ \E size \in 1 .. MaxBlock : cCount' = Least(size, available)
  /\ cpc' \in {"read", "skip"}
  /\ UNCHANGED <<bufferVars, producerVars, cIn, cVals, cPos, cOut>>
  /\ got' = <<>>

read ==
  /\ cpc = "read"
  /\ LET n == Least(cCount, m_bufSize - m_outPos) IN
       cVals' = [i \in 1 .. cCount |-> IF i <= n THEN m_buffer[m_outPos + i - 1]
                                       ELSE m_buffer[i - n - 1]]
  /\ cpc' = "store"
  /\ UNCHANGED <<bufferVars, producerVars, cIn, cCount, cPos, cOut, got>>

store ==
  /\ cpc \in {"store", "skip"}
  /\ m_outPos' = Slot(m_outPos, cCount)
  /\ got' = IF cpc = "store" THEN cVals ELSE <<>>
  /\ ConsumerReturns
  /\ UNCHANGED <<m_buffer, m_inPos, producerVars>>

\* flush() loads m_inPos, and later stores it.
flush ==
  /\ cpc = "idle"
  /\ cIn' = m_inPos
  /\ cpc' = "flush"
  /\ UNCHANGED <<bufferVars, producerVars, cCount, cVals, cPos, cOut>>
  /\ got' = <<>>

flushStore ==
  /\ cpc = "flush"
  /\ m_outPos' = cIn
  /\ ConsumerReturns
  /\ UNCHANGED <<m_buffer, m_inPos, producerVars, got>>

\* for_each() loads m_inPos once; then a callback and a store per element.
for_each ==
  /\ cpc = "idle"
  /\ m_inPos # m_outPos
  /\ cIn' = m_inPos
  /\ cpc' = "each"
  /\ UNCHANGED <<bufferVars, producerVars, cCount, cVals, cPos, cOut>>
  /\ got' = <<>>

eachCall ==
  /\ cpc = "each"
  /\ cVals' = <<m_buffer[m_outPos]>>
  /\ cpc' = "eachStore"
  /\ UNCHANGED <<bufferVars, producerVars, cIn, cCount, cPos, cOut, got>>

\* Mutant: compares with where the producer is now.
eachStoreChasing ==
  /\ cpc = "eachStore"
  /\ m_outPos' = Slot(m_outPos, 1)
  /\ got' = cVals
  /\ cVals' = <<>>
  /\ cpc' = IF m_outPos' # m_inPos THEN "each" ELSE "idle"
  /\ UNCHANGED <<m_buffer, m_inPos, producerVars, cIn, cCount, cPos, cOut>>

eachStore ==
  /\ cpc = "eachStore"
  /\ m_outPos' = Slot(m_outPos, 1)
  /\ got' = cVals
  /\ \/ /\ m_outPos' # cIn
        /\ cVals' = <<>>
        /\ cpc' = "each"
        /\ UNCHANGED <<cIn, cCount, cPos, cOut>>
     \/ /\ m_outPos' = cIn
        /\ ConsumerReturns
  /\ UNCHANGED <<m_buffer, m_inPos, producerVars>>

\* for_each_rev_requeue() walks back from m_inPos and packs what the callback
\* wants to keep against the end; only at last it stores m_outPos.
for_each_rev_requeue ==
  /\ cpc = "idle"
  /\ m_inPos # m_outPos
  /\ cIn' = m_inPos
  /\ cPos' = m_inPos
  /\ cOut' = m_inPos
  /\ cpc' = "rev"
  /\ UNCHANGED <<bufferVars, producerVars, cCount, cVals>>
  /\ got' = <<>>

\* Mutant: keeps an element without packing it.
revCallUnmoved ==
  /\ cpc = "rev"
  /\ cPos' = Slot(cPos, m_bufSize - 1)
  /\ cOut' \in {cOut, Slot(cOut, m_bufSize - 1)}
  /\ cpc' = IF cPos' # m_outPos THEN "rev" ELSE "revStore"
  /\ UNCHANGED <<bufferVars, producerVars, cIn, cCount, cVals, got>>

revCall ==
  /\ cpc = "rev"
  /\ cPos' = Slot(cPos, m_bufSize - 1)
  /\ \/ UNCHANGED <<m_buffer, cOut>>
     \/ /\ cOut' = Slot(cOut, m_bufSize - 1)
        /\ m_buffer' = [m_buffer EXCEPT ![cOut'] = m_buffer[cPos']]
  /\ cpc' = IF cPos' # m_outPos THEN "rev" ELSE "revStore"
  /\ UNCHANGED <<m_inPos, m_outPos, producerVars, cIn, cCount, cVals, got>>

revStore ==
  /\ cpc = "revStore"
  /\ m_outPos' = cOut
  /\ ConsumerReturns
  /\ UNCHANGED <<m_buffer, m_inPos, producerVars, got>>

ConsumerCall == pop \/ pop_n \/ flush \/ for_each \/ for_each_rev_requeue
ConsumerStep == read \/ store \/ flushStore \/ eachCall \/ eachStore \/ revCall \/ revStore

Next == ProducerCall \/ ProducerStep \/ ConsumerCall \/ ConsumerStep

Spec == Init /\ [][Next]_vars

\* Interrupts end, and the loop they interrupt goes on: the consumer gets its
\* steps however often the producer gets its own, or if it gets none.
ConsumerSpec == Spec /\ WF_vars(ConsumerStep)

\* What the variables hold, whatever call the consumer is in.
DataOK ==
  /\ m_buffer \in [Slots -> Vals]
  /\ m_inPos \in Slots /\ m_outPos \in Slots
  /\ ppc \in {"idle", "push", "push_n", "peeked", "copy", "publish"}
  /\ pItems \in Seq(Vals)
  /\ pBlock \in 0 .. m_bufSize /\ pNext \in Slots
  /\ cIn \in Slots /\ cCount \in Nat /\ cVals \in Seq(Vals)
  /\ cPos \in Slots /\ cOut \in Slots
  /\ got \in Seq(Vals)

TypeOK ==
  /\ DataOK
  /\ cpc \in {"idle", "read", "store", "skip", "flush", "each", "eachStore", "rev", "revStore"}
=============================================================================
