SPECIFICATION Spec
CONSTANTS
  h1 = h1
  h2 = h2
  h3 = h3
  o1 = o1
  o2 = o2
  None = None
  Handles <- MCHandles
  Objects <- MCObjects
  SizeMax = 3
SYMMETRY Symmetry
INVARIANTS
  LiveIffHeld
  CountOK
  DeleteSeesAllUses
CHECK_DEADLOCK FALSE
