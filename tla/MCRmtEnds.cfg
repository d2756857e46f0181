SPECIFICATION Spec
CONSTANTS
  Channels = {0, 1}
  Lengths = {3, 6}
  MaxLate = 2
INVARIANT EndInBlock
