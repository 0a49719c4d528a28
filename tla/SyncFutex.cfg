SPECIFICATION SyncSpec
CONSTANTS
  t1 = t1
  t2 = t2
  t3 = t3
  t4 = t4
  Tasks <- MCTasks
  Main = Main
  SizeMax = 5
  Kinds = {"futex"}
  Priors = {"same_address"}
  MaxSignals = 0
INVARIANT
  MainWaitsForAllTasks
CHECK_DEADLOCK FALSE
