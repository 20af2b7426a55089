SPECIFICATION FairSpec
CONSTANTS
  N = 3
  Sources <- Accepted
  Conds <- MCConds
  Asserts = TRUE
  DummyInstr = FALSE
INVARIANTS
  TypeOK
  OpenTrampolinesHaveOneLane
  EveryBlockLeaves
  NamedBlocksHaveLabels
PROPERTIES
  PassTerminates
