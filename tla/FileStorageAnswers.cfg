SPECIFICATION Spec
CONSTANTS
  HeadLen = 2
  First = 3
  MaxFile = 9
  Sizes = {1}
  Data = {d1}
  Junk = junk
  Word = 64
INVARIANT AllocateAnswers
