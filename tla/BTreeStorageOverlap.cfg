SPECIFICATION Spec
CONSTANTS
  Sizes = {1, 2}
  MaxEnd = 3
INVARIANT HeldIsNotFree
CHECK_DEADLOCK FALSE
