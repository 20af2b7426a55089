SPECIFICATION Spec
CONSTANTS
  Align = 65536
  PageSize = 256
  Sources <- MCSources
  Distances <- MCDistances
  Mems <- MCMems
INVARIANTS
  LayoutTypeOK
  SegmentsDisjoint
  LowBitsKept
  JumpsLand
  AbortsOnlyUnsupported
  AreaMapped
  JneAtAlignedSrc
CHECK_DEADLOCK FALSE
