CONSTANTS
  MaxDescs = 3
  Faults = {"virq", "r_mem", "ioremap", "request_irq", "irq_alloc_descs"}
SPECIFICATION FairSpec
INVARIANTS
  TypeOK
  FirstLoadSafe
  BoundReady
  RegionsReturned
PROPERTIES
  KeepsFiring
