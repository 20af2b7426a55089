SPECIFICATION XFairSpec
CONSTANTS
  N = 4
  Sources <- FourBlocks
  Conds <- OneCond
  Asserts = TRUE
  DummyInstr = TRUE
  Emission = "obj"
  Homes = {"RBX"}
INVARIANTS
  NoBranchLeft
PROPERTIES
  ReachesNextBlock
  ForwardJumpsVisitEveryBlock
