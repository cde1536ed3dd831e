SPECIFICATION JumpSpec
CONSTANTS
  program = program
  taskA = taskA
  taskB = taskB
  taskC = taskC
  nobody = nobody
  Task <- ThreeTasks
  Main = program
  NoTask = nobody
  FirstCap = 1
  MaxInt = 3
CHECK_DEADLOCK FALSE
INVARIANTS BlockOutlivesItsTasks
