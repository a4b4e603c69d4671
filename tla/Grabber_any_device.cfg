CONSTANTS
  ReqCount = 4
  MaxGranted = 5
  MaxLength = 2
  FrameCounts <- MCFrameCounts
  UINT = 8
  CaptureEnabled = TRUE
SPECIFICATION Spec
INVARIANTS
  TypeOK
  CountHonoured
  CleanExit
PROPERTIES
  FrameInMemory
