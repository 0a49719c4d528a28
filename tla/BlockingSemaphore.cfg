SPECIFICATION Spec
CONSTANTS
  Main = Main
  Nobody = Nobody
  Rounds = 4
  MaxSpurious = 2
INVARIANTS
  IInv
  NobodyInsideAfterWait
PROPERTY
  ImplementsSemaphore
CHECK_DEADLOCK FALSE
