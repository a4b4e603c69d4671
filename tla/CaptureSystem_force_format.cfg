CONSTANTS
  Process = Process
  Nobody = Nobody
  ReqCount = 4
  FrameCounts <- MCFrameCounts
  UINT = 8
  CaptureEnabled = TRUE
  Faults = {}
  Refusals = {}
SPECIFICATION Spec
INVARIANTS
  FormatCanBeForced
