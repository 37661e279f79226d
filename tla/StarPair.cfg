\* Two slaves that hear each other and the master: interleavings, losses, stale
\* resends, a reset of the master at any point.
CONSTANTS
  Master = 10
  NoNode = 0
  NoPacket = NoPacket
  slaveNode <- MCslaveNode
  MaxMsgID = 1
  MaxRows = 1
  MaxBoots = 2
  ErrorAnswers = TRUE
  MaxReplies = 1
  MaxResets = 0
  Damage = FALSE
SPECIFICATION Spec
INVARIANTS StoredTimesAreMasters SentAsBuilt SlavesListen
PROPERTIES ServiceSpec
