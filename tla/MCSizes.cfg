CONSTANTS
  W = 2
  UW = 4
  MaxWrites = 3

SPECIFICATION SSpec
INVARIANT STypeOK
PROPERTY ReadLoopEnds
