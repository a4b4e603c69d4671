CONSTANTS
  Callers = {c1, c2}
  Nobody = Nobody
  MaxBuffers = 2
  Faults = {"kthread_run", "vaddr"}
SPECIFICATION FairSpec
PROPERTIES
  StreamOffCompletes
  FramesComeBack
