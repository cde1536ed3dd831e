SPECIFICATION Spec
CONSTANTS
  main = main
  task1 = task1
  task2 = task2
  chanA = chanA
  chanB = chanB
  val1 = val1
  val2 = val2
  none = none
  junk = junk
  Thread = {main, task1, task2}
  Main = main
  Chan = {chanA}
  Value = {val1, val2}
  Cap <- CapTwo
  Selects = {}
  TurnMod = 4
  MaxCalls = 2
  NoThread = none
  Junk = junk
INVARIANTS
  TypeOK
  RefsCountHolders
  NoUseAfterFree
  NoLostWakeup
PROPERTY
  ImplementsChannel
SYMMETRY TaskSymmetry
CHECK_DEADLOCK FALSE
