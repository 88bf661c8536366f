SPECIFICATION HSpec
CONSTANTS
  Senders = {s1}
  Receivers = {r1, r2}
  None = None
  Junk = Junk
  ArraySize = 2
  MaxBatch = 2
  MaxSend = 7
  MaxRecv = 2
CONSTANTS
  Item <- MCItem
  AllowedCalls <- MCCalls
INVARIANTS
  TypeOK
  HandedInOrder
  KeptUnlessBehindOrSpilt
SYMMETRY MCSymmetry
CHECK_DEADLOCK FALSE
