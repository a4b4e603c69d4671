CONSTANTS
  MaxDescs = 3
  Faults = {}
SPECIFICATION Spec
INVARIANTS
  EverySecond
