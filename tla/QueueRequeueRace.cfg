\* Producers push whenever they like, as the class allows.
CONSTANTS
  m_bufSize = 4
  Vals = {a, b}
  MaxBlock = 2
  PushDuringRequeue = TRUE
SPECIFICATION MPSpec
INVARIANT NothingLost
CHECK_DEADLOCK TRUE
