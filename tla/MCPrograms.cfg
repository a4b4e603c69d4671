CONSTANTS
  Files = {p1, p2}
  Vmas = {p1, p2}
  Blocks = {b1, b2, b3}
  NULL = NULL
  Faults = {"class_create", "alloc_chrdev_region", "cdev_add", "mmap", "kmalloc", "remap"}
  Cards <- MCCards
  Sizes = {1, 2, 3}
  Pads = {0, 4}
  Rounds = 2
SPECIFICATION ProgSpec
INVARIANTS
  MmapSafe
  NoBlockLost
  ProgramSafe
  DrmSafe
PROPERTIES
  DrawingEnds
