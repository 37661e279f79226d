------------------------- MODULE CircularQueueProps -------------------------
(***************************************************************************)
(* What circular_queue is for: the queue of the specification Fifo, no     *)
(* slot touched by both sides, and calls that end whatever the other side  *)
(* does.                                                                   *)
(***************************************************************************)
EXTENDS CircularQueue

\* The elements in order.  In the middle of for_each_rev_requeue they are in
\* three pieces: not yet visited, kept, and pushed since it began.
InRev == cpc \in {"rev", "revStore"}
Unvisited == IF InRev THEN Dist(m_outPos, cPos) ELSE 0
Kept      == IF InRev THEN Dist(cOut, cIn) ELSE 0
Pushed    == IF InRev THEN Dist(cIn, m_inPos) ELSE available

Place(i) ==
  IF i <= Unvisited THEN Slot(m_outPos, i - 1)
  ELSE IF i <= Unvisited + Kept THEN Slot(cOut, i - Unvisited - 1)
  ELSE Slot(IF InRev THEN cIn ELSE m_outPos, i - Unvisited - Kept - 1)

Contents == [i \in 1 .. Unvisited + Kept + Pushed |-> m_buffer[Place(i)]]

Queue == INSTANCE Fifo WITH
  Capacity <- m_bufSize - 1, queue <- Contents, used <- available, offer <- pItems

\* Lock-free or not, the queue is a queue: in order, nothing lost, doubled or
\* changed, and a push is refused only for want of room.
IsFifo == Queue!FifoSpec

\* The fences publish finished work only, so no slot may be written by one side
\* while the other may use it: what the producer copies to is free, and what
\* the consumer works on is taken.
Copying == {k \in Slots : ppc = "copy" /\ Dist(m_inPos, k) < Len(pItems)}
Taken   == {k \in Slots : Dist(m_outPos, k) < available}
Working ==
  CASE cpc = "read" -> {k \in Slots : Dist(m_outPos, k) < cCount}
    [] cpc = "each" -> {m_outPos}
    [] cpc = "rev"  -> {k \in Slots : Dist(m_outPos, k) < Dist(m_outPos, cIn)}
    [] OTHER -> {}

NoSharedSlot == Copying \cap Taken = {} /\ Working \subseteq Taken

\* Why it holds, as the inductive invariant of the proofs.  The producer: what
\* it has checked stays true, the consumer only makes more room.
ProducerInv ==
  /\ ppc = "idle" <=> pItems = <<>>
  /\ ppc \in {"push", "peeked"} => Len(pItems) = 1
  /\ ppc \in {"copy", "publish"} =>
       /\ available + Len(pItems) < m_bufSize
       /\ pNext = Slot(m_inPos, Len(pItems))
       /\ pBlock \in 1 .. Len(pItems)
       /\ m_inPos + pBlock <= m_bufSize
       /\ pBlock < Len(pItems) => m_inPos + pBlock = m_bufSize
  /\ ppc = "peeked" => m_buffer[m_inPos] = pItems[1]
  /\ ppc = "publish" => \A i \in 1 .. Len(pItems) : m_buffer[Slot(m_inPos, i - 1)] = pItems[i]

\* The consumer: its positions are in order between m_outPos and m_inPos, and
\* what it has read is still there.
ConsumerInv ==
  /\ cpc \in {"read", "store", "skip"} => cCount \in 1 .. available
  /\ cpc = "store" => /\ Len(cVals) = cCount
                      /\ \A i \in 1 .. cCount : cVals[i] = m_buffer[Slot(m_outPos, i - 1)]
  /\ cpc = "flush" => Dist(m_outPos, cIn) <= available
  /\ cpc \in {"each", "eachStore"} => Dist(m_outPos, cIn) \in 1 .. available
  /\ cpc = "eachStore" => cVals = <<m_buffer[m_outPos]>>
  /\ InRev => /\ Dist(m_outPos, cPos) <= Dist(m_outPos, cOut)
              /\ Dist(m_outPos, cOut) <= Dist(m_outPos, cIn)
              /\ Dist(m_outPos, cIn) <= available
  /\ cpc = "rev" => cPos # m_outPos
  /\ cpc = "revStore" => cPos = m_outPos

\* The part of it that names no call, and holds of circular_queue_mp too.
SidesInv == DataOK /\ ProducerInv /\ ConsumerInv

QueueInv == TypeOK /\ ProducerInv /\ ConsumerInv

\* What the consumer does ends even if the producer never stops pushing:
\* for_each does not chase the end of the queue.
ConsumerEnds == cpc # "idle" ~> cpc = "idle"
=============================================================================
