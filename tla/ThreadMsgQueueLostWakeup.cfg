SPECIFICATION FairHSpec
CONSTANTS
  Senders = {s1}
  Receivers = {r1}
  None = None
  Junk = Junk
  ArraySize = 2
  MaxBatch = 1
  MaxSend = 2
  MaxRecv = 1
CONSTANTS
  Item <- MCItem
  AllowedCalls <- MCForever
PROPERTIES
  BlockedReceiverGetsData
CHECK_DEADLOCK FALSE
