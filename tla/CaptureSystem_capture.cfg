CONSTANTS
  Process = Process
  Nobody = Nobody
  ReqCount = 4
  FrameCounts <- MCFrameCounts
  UINT = 8
  CaptureEnabled = TRUE
  Faults = {"kthread_run", "vaddr"}
  Refusals = {"open", "memory"}
SPECIFICATION Spec
INVARIANTS
  QueuedInMemory
  NeverStarved
PROPERTIES
  FailureExplained
  Terminates
