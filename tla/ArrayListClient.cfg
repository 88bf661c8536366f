SPECIFICATION ClientSpec
CONSTANTS
  Item = {a, b}
  Junk = Junk
  ArraySize = 3
  MaxBatch = 4
INVARIANTS
  ClientTypeOK
  IndexTestsSound
  NoWildCopy
PROPERTIES
  ImplementsBoundedQueue
