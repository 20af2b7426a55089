SPECIFICATION FairSpec
CONSTANTS
  CPUs = {0, 1}
  ThreadCPUs = {0}
  Clients = {c1}
  Count = 2
  RecordSize = 2
  Lengths = {3}
  Faults = {"kmalloc", "kthread"}
  MaxBranches = 3
  MaxDumps = 2
INVARIANTS
  LTypeOK
  DumpIsTrail
  MeasuresLatest
  KernelEntriesOldest
  ValidAccesses
PROPERTIES
  RecordingResumes
CHECK_DEADLOCK FALSE
