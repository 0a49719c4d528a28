SPECIFICATION SyncSpec
CONSTANTS
  t1 = t1
  t2 = t2
  t3 = t3
  t4 = t4
  Tasks <- MCTasks
  Main = Main
  SizeMax = 5
  Kinds = {"spin", "event", "posix", "futex", "promise"}
  Priors = {"none", "same_address", "same_object"}
  MaxSignals = 1
INVARIANTS
  FrameOutlivesCallback
  MainGoesOnAfterAllTasks
PROPERTY
  MainLeaves
CHECK_DEADLOCK FALSE
