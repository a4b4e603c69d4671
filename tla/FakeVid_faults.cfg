CONSTANTS
  Callers = {c1, c2}
  Nobody = Nobody
  MaxBuffers = 3
  Faults = {"kthread_run", "vaddr"}
SPECIFICATION Spec
INVARIANTS
  TypeOK
  BufferOwnership
  NoLeak
  DrainExclusive
  ThreadAccounted
  OopsExplained
