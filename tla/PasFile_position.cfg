SPECIFICATION Spec
CONSTANTS
  one = one
  two = two
  junk = junk
  Undefined = junk
  Component <- TwoComponents
  MaxLength = 3
  Kinds <- OneBoundedFile
CHECK_DEADLOCK FALSE
INVARIANTS PositionCounts
