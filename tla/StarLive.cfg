\* One slave, two replies, a reset of it at any point and damaged
\* packets, under the fairness of the hardware and of loop().
CONSTANTS
  Master = 10
  NoNode = 0
  NoPacket = NoPacket
  slaveNode <- MCOneSlave
  MaxMsgID = 1
  MaxRows = 1
  MaxBoots = 1
  ErrorAnswers = TRUE
  MaxReplies = 2
  MaxResets = 1
  Damage = TRUE
SPECIFICATION FairSpec
PROPERTIES ReplyEventually LoopReturns ServiceSpec
