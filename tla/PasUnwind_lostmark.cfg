SPECIFICATION Spec
CONSTANTS
  cellA = cellA
  stream1 = stream1
  empty = empty
  Nil = empty
  Depth = 3
  Cell <- OneCell
  Value <- OneStream
CHECK_DEADLOCK FALSE
INVARIANTS LiveFilesUsable
