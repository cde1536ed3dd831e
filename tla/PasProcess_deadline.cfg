SPECIFICATION Spec
CONSTANTS
  ArgvMax = 3
  FirstSlots = 2
  PipeSize = 3
  BufSize = 2
  Codes = {"good", "bad"}
PROPERTIES DeadlineEnds
CHECK_DEADLOCK FALSE
