SPECIFICATION Spec
CONSTANTS
  w1 = w1
  w2 = w2
  w3 = w3
  w4 = w4
  Workers <- MCWorkers
  InitCount = 2
  SizeMax = 5
  MaxSpurious = 1
PROPERTIES
  ImplementsAtomicCheck
  EverybodyStops
CHECK_DEADLOCK FALSE
