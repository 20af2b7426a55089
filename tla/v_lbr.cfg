SPECIFICATION Spec
CONSTANTS
  CPUs = {0, 1}
  ThreadCPUs = {0, 1}
  Clients = {c1, c2}
  Count = 2
  RecordSize = 1
  Lengths = {}
  Faults = {}
  MaxBranches = 1
  MaxDumps = 2
INVARIANTS
  DumpIsTrail
CHECK_DEADLOCK FALSE
