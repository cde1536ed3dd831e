SPECIFICATION MCSpec
CONSTANTS
  program = program
  taskA = taskA
  taskB = taskB
  nobody = nobody
  stream1 = stream1
  empty = empty
  Nil = empty
  Depth = 3
  Cell = {}
  Value <- OneStream
  ArgvMax = 3
  FirstSlots = 2
  PipeSize = 3
  BufSize = 2
  Codes = {"good", "bad"}
CHECK_DEADLOCK FALSE
INVARIANTS NothingLeftBehind ReadToTheEnd
PROPERTIES WaitEnds UnwindingEnds DeadlineEnds
