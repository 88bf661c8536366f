SPECIFICATION HSpec
CONSTANTS
  Senders = {s1}
  Receivers = {r1}
  None = None
  Junk = Junk
  ArraySize = 2
  MaxBatch = 3
  MaxSend = 7
  MaxRecv = 2
CONSTANTS
  Item <- MCItem
  AllowedCalls <- MCAllForever
INVARIANTS
  AllDataKept
CHECK_DEADLOCK FALSE
