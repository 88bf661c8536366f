SPECIFICATION LSpec
CONSTANTS
  Senders = {s1}
  Receivers = {r1, r2}
  None = None
  Junk = Junk
  Plain = Plain
  Marked = Marked
  Item = {Plain, Marked}
  ArraySize = 2
  MaxBatch = 1
PROPERTIES
  StoredIsTaken
