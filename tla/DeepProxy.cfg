SPECIFICATION Spec
CONSTANTS
  c1 = c1
  c2 = c2
  c3 = c3
  Cells <- MCCells
  Ids = {1, 2, 3}
  None = None
  Rubble = Rubble
SYMMETRY Symmetry
INVARIANT
  ObjectOwnedOnce
PROPERTIES
  DestroyedOnce
  ImplementsValueCells
CHECK_DEADLOCK FALSE
