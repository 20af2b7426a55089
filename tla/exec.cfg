SPECIFICATION XSpec
CONSTANTS
  N = 3
  Sources <- Executed
  Conds <- MCConds
  Asserts = TRUE
  DummyInstr = FALSE
  Emission = "obj"
  Homes = {"RBX"}
INVARIANTS
  XTypeOK
PROPERTIES
  FollowsSource
