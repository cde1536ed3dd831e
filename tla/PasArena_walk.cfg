SPECIFICATION Spec
CONSTANTS
  ArenaSize = 3
  Sizes = {1, 2}
  MaxDepth = 2
  MaxNest = 2
INVARIANTS ValuesIntact
CHECK_DEADLOCK FALSE
