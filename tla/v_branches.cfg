SPECIFICATION Spec
CONSTANTS
  N = 2
  Sources <- Accepted
  Conds <- MCConds
  Asserts = TRUE
  DummyInstr = FALSE
INVARIANTS
  NoBranchLeft
