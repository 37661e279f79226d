\* The parts of the libraries, one at a time; some of them do stop.
CONSTANTS
  m_bufSize = 4
  Vals <- MCVals
  MaxBlock = 2
  PushDuringRequeue = FALSE
  Delegates = {d1, d2}
  Pointers = {d2}
  Nodes = {n1, n2, n3}
  QueueCapacity = 3
  MaxAdds = 4
  CbufSize = 2
  MaxWritten = 5
  MaxReceived = 4
  Terminators = {2, 3}
  TxBufSize = 2
  MaxLen = 5
  MaxArrived = 3
  Reuse = FALSE
  LenModulus = 4
  MaxUnacked = 2
  MaySkip = {"latitude"}
  Custom <- MCCustom
  Ends = {4, 9}
  MaxSentences = 2
  MaxTerms = 9
  MaxFrames = 3
  HidesIndicator = {2}
  TicksPerFrame = 2
  TicksPerTransition = 2
  UpdateInterval = 33
  Elapsed = {10, 33, 70, 170}
  Width = 3
  Pages = 3
  Xs <- MCXs
  Ys <- MCYs
  Lengths <- MCLengths
  MaxText = 6
  LineWidths = {3, 4}
  LogSizes = {1, 2, 3}
  MaxLogged = 8
  Tcps = {t1, t2}
  MaxSessions = 2
  TotLen = 2
  MaxPackets = 2
  Mss = 1
  WriteLen = 3
  FilePaths = {"d", "dx"}
  ParentOf <- MCParentOf
  FileObjects = {h1, h2}
  MaxFiles = 2
  MaxSize = 1
  Factors = {6, 13}
  Bandwidths = {7800, 125000, 500000}
  Denominators = {4, 8}
  Powers <- MCPowers
  Frequencies = {868000000}
  MaxRxLength = 2
  WordLengths = {5, 8}
  Bytes = {1, 170}
  MaxMessage = 2
  ClockSpan = 6
  TimeDelays = {0, 1}
  Timeouts = {0, 2}
  MaxLate = 1
  FontHeight = 4
  CursorSpan = 5
  TextSpan = 12
  TextXs = {0, 6}
  TextYs = {0, 6}
  MaxDrawn = 4
  MaxRounds = 1
  Powered = {{"master", "slave"}, {"master", "display"}}
  Servers = {s1, s2}
  Pcbs = {p1, p2}
  MaxConns = 2
SPECIFICATION LibrariesSpec
INVARIANTS
  NothingLost
  DelegatesKept
  StreamsKept
  EspClientKept
  OnlyChecked
  DisplayKept
  TlsKept
  FilesKept
  RadioKept
  TransmitKept
  TimesKept
  NetworkKept
CHECK_DEADLOCK FALSE
