CONSTANTS
  Packets = {p1, p2}
  MaxWrites = 3
  Faults = {"kobject", "sysfs_create_file", "nf_register_hook"}
  Skbs = {s1, s2}
  Tags = {0, 100}
  MaxLoads = 2
  MaxIndex = 3
  SenderFaults = {"gethostbyname", "socket"}
SPECIFICATION NetSpec
INVARIANTS
  FilterSafe
  DisableIsFirm
  CaptureSafe
  PrivateVlan
PROPERTIES
  KeepsSending
