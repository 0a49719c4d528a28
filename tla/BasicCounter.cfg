SPECIFICATION Spec
CONSTANTS
  t1 = t1
  t2 = t2
  t3 = t3
  t4 = t4
  t5 = t5
  Tasks <- MCTasks
  Main = Main
  SizeMax = 7
INVARIANTS
  CallbackAfterAllJoins
  NoUseAfterFree
  CallbackSeesAllTasks
PROPERTIES
  CallbackEventuallyRuns
  ImplementsForkJoin
CHECK_DEADLOCK FALSE
