SPECIFICATION Spec
CONSTANTS
  t1 = t1
  t2 = t2
  t3 = t3
  t4 = t4
  Tasks <- MCTasks
  Main = Main
  None = None
  MAX_COUNT = 2
  SizeMax = 5
  MaxNodes = 4
  MaxEmpty = 1
INVARIANTS
  Conservation
  CountBounded
  NoDanglingNode
  BufferMatchesCalls
  CallbackSeesAllTasks
PROPERTIES
  CallbackEventuallyRuns
  ImplementsForkJoin
CHECK_DEADLOCK FALSE
