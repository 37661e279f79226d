\* Capacity 3: blocks wrap in one and in two pieces, and a queue of three is
\* packed from its end.
CONSTANTS
  m_bufSize = 4
  Vals <- MCVals
  MaxBlock = 3
SPECIFICATION ConsumerSpec
INVARIANTS QueueInv NoSharedSlot
PROPERTIES IsFifo ConsumerEnds
CHECK_DEADLOCK TRUE
