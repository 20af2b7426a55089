SPECIFICATION Spec
CONSTANTS
  N = 3
  Sources <- AnyBlock
  Conds <- OneCond
  Asserts = TRUE
  DummyInstr = FALSE
INVARIANTS
  RefusesOnlyUnsupported
  ConversionInvariant
  AssertionsHold
