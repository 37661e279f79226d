CONSTANTS
  m_dataBits = 2
  m_parityMode = TRUE
  m_stopBits = 1
  m_bitCycles = 3
  CycleSpan = 32
  BitSpan = 8
  ByteBits = 2
  isrBufCapacity = 2
  bufCapacity = 1
  Words <- MCWords
  Latency = 1
  MaxPause = 1
  PollWithin = 5
  MaxSent = 2
  MaxIdle = 5
  MaxSwitches = 1
SPECIFICATION Spec
INVARIANTS ReadAsSent NoneMissing LossIsTold ParityInStep
PROPERTIES InOrder QuietEndsWord
