SPECIFICATION Spec
CONSTANTS
  Texts <- MCTexts
  Names <- MCNames
  Indices <- MCIndices
  Leaves <- MCLeaves
  MaxCalls = 5
  ParseCalls = 2
  Keys <- MCKeys
  Values = {"u", "v"}
  bucketSize = 2
  Hash <- MCHash
  MaxHandle = 14
  MaxCrash = 1
  MaxCall = 4
  BlockSizes = {1, 2}
  MaxEnd = 3
  lenSize = 2
  BufSizes = {5, 8}
  Lengths = {1, 2}
  Payloads = {"p", "q"}
  Word = 64
  MaxShort = 3
  Senders = {"s1", "s2"}
  Receivers = {"r1", "r2"}
  ArraySize = 2
  Messages = {"x", "y"}
  MaxTimes = 2
  Workers = {"w1", "w2"}
  Ports = {1, 2}
  Backlog = 2
  MaxConn = 3
  QueueSize = 1
  MaxStart = 3
  buffSize = 4
  PieceSizes = {1, 2, 3, 4, 5}
  MaxPieces = 4
INVARIANTS
  TypeOK
  ParsedDocument NothingDangling
  ParsedTree TreeIntact
  KeptIsFound ChainsSound IterationComplete
  BlocksKept
  RecordsWhole SpaceAgrees
  BufferHasOneOwner DataIntact
  WaitingIsSignalled
  PiecesDisjoint
PROPERTIES
  MapIsDocument TreeIsDocument
  StopReturns
CHECK_DEADLOCK FALSE
