\* Every configuration check() accepts whose numbers fit into u32.
SPECIFICATION Spec
CONSTANTS
  U32 <- Narrow
  USIZE <- Wide
  Configs <- SmallConfigs
  Positions <- SomePositions
  Lengths <- SomeLengths
  None = None
INVARIANT StaysInSlot
CHECK_DEADLOCK TRUE
