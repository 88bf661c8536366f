SPECIFICATION Spec
CONSTANTS
  Proc = {p1, p2}
  WordSize = 4
  msgQueueID = 2
  blockSize = 1
  msgNum = 2
  SysBytes = 12
  MaxOpen = 3
  MaxSend = 3
  MaxTrouble = 1
INVARIANTS
  TypeOK
  LockExclusive
  BlockHasOneOwner
  NoBlockLost
  RoomForBlock
  DataIntact
  OpenQueueStays
  LastCloseRemoves
SYMMETRY MCSymmetry
CHECK_DEADLOCK FALSE
