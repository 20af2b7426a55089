SPECIFICATION XSpec
CONSTANTS
  N = 2
  Sources <- Convertible
  Conds <- OneCond
  Asserts = TRUE
  DummyInstr = FALSE
  Emission = "obj"
  Homes = {"R15"}
INVARIANTS
  ProgramValueIntact
