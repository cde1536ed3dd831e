SPECIFICATION Spec
CONSTANTS
  MaxScalars = 3
  MaxElements = 4
  MaxBytes = 4
  MaxChars = 5
  MaxDigits = 4
  MaxInt = 7
  FirstRoom = 4
  RealBuf = 10
  ExactFrac = 5
  ExactSig = 4
  varX = varX
  varY = varY
  SegmentMax = 6
  ArenaSize = 3
  Sizes = {1, 2}
  MaxDepth = 2
  MaxNest = 2
INVARIANTS JoinsFit
CHECK_DEADLOCK FALSE
