SPECIFICATION XFairSpec
CONSTANTS
  N = 4
  Sources <- LateTests
  Conds <- OneCond
  Asserts = TRUE
  DummyInstr = TRUE
  Emission = "obj"
  Homes = {"RBX"}
PROPERTIES
  FollowsSource
