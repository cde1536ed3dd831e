SPECIFICATION FairSpec
CONSTANTS
  main = main
  task1 = task1
  task2 = task2
  chanA = chanA
  chanB = chanB
  val1 = val1
  val2 = val2
  none = none
  junk = junk
  Thread = {main, task1}
  Main = main
  Chan = {chanA, chanB}
  Value = {val1}
  Cap <- CapOne
  Selects <- TwoChannels
  TurnMod = 4
  MaxCalls = 2
  NoThread = none
  Junk = junk
PROPERTIES
  CloseReleases
  SelectorServed
  BoundedSelectEnds
INVARIANTS
  LockOrder
  NoLostSelectWakeup
CHECK_DEADLOCK FALSE
