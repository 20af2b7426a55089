SPECIFICATION Spec
CONSTANTS
  N = 3
  Sources <- WithEmpty
  Conds <- OneCond
  Asserts = TRUE
  DummyInstr = FALSE
INVARIANTS
  SkipHasFakeBlock
