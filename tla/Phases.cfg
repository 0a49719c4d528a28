SPECIFICATION Spec
CONSTANTS
  c1 = c1
  c2 = c2
  Callables <- MCCallables
  Main = Main
  None = None
  MaxPhases <- MCMaxPhases
  MaxRounds = 2
INVARIANTS
  PhasesOnceInOrder
  ManagedThreadsJoined
  LateOnlyAfterDaemons
PROPERTY
  ProgramEnds
CHECK_DEADLOCK FALSE
