\* An answer other than 200 after a command.
CONSTANTS
  Master = 10
  NoNode = 0
  NoPacket = NoPacket
  slaveNode <- MCOneSlave
  MaxMsgID = 3
  MaxRows = 1
  MaxBoots = 1
  ErrorAnswers = TRUE
  MaxReplies = 1
  MaxResets = 0
  Damage = FALSE
SPECIFICATION Spec
PROPERTIES CommandOnlyWhenNew
