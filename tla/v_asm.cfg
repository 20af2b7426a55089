SPECIFICATION XFairSpec
CONSTANTS
  N = 2
  Sources <- Convertible
  Conds <- OneCond
  Asserts = TRUE
  DummyInstr = FALSE
  Emission = "asm"
  Homes = {"RBX"}
PROPERTIES
  FollowsSource
