SPECIFICATION FlFairSpec
CONSTANTS
  Frames <- MCFive
  Size = 6
  Wrap = 16
  Chunk = 2
  Timeout = 2
  Window = 2
  Strays = 1
  Raced = 2
INVARIANTS WritesInside RanInOrder
PROPERTIES BufferEmpties DropsNoFrame
CHECK_DEADLOCK FALSE
