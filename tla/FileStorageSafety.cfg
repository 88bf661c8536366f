SPECIFICATION Spec
CONSTANTS
  HeadLen = 2
  First = 3
  MaxFile = 12
  Sizes = {0, 1, 2}
  Data = {d1}
  Junk = junk
  Word = 64
INVARIANTS TypeOK BlocksTile MapsMatchFile FreeSpaceMerged KeptSurvives
