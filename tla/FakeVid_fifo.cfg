CONSTANTS
  Callers = {c1, c2}
  Nobody = Nobody
  MaxBuffers = 3
  Faults = {}
SPECIFICATION Spec
PROPERTIES
  ImplementsFrameQueue
