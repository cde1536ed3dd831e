SPECIFICATION MCSpec
CONSTANTS
  program = program
  taskA = taskA
  taskB = taskB
  taskC = taskC
  nobody = nobody
  cellA = cellA
  stream1 = stream1
  stream2 = stream2
  empty = empty
  Task <- ThreeTasks
  Main = program
  NoTask = nobody
  FirstCap = 1
  MaxInt = 3
  Depth = 3
  Cell <- OneCell
  Value <- TwoStreams
  Nil = empty
  Tasks <- ThreeTasks
  Program = program
  Measures = {"lines"}
SYMMETRY BothSymmetric
CHECK_DEADLOCK FALSE
INVARIANTS NoRecordUseAfterFree BlockOutlivesItsTasks NoWaitCycle
  ListsHoldLiveSlots ClosedOnce LiveFilesUsable NothingLeftOpen EndsInOrder
PROPERTIES WaitsForTheEnd DefersSeeTheirBlock
