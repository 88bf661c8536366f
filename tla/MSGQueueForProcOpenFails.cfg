SPECIFICATION Spec
CONSTANTS
  Proc = {p1, p2}
  WordSize = 8
  msgQueueID = 2
  blockSize = 1
  msgNum = 2
  SysBytes = 12
  MaxOpen = 2
  MaxSend = 1
  MaxTrouble = 0
INVARIANT OpenSucceeds
CHECK_DEADLOCK FALSE
