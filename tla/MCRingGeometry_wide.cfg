\* Slot sizes that do not fit into the answer to attach.
SPECIFICATION Spec
CONSTANTS
  U32 <- Narrow
  USIZE <- Wide
  Configs <- LargeConfigs
  Positions <- SomePositions
  Lengths <- SomeLengths
  None = None
INVARIANT GeometryShared
CHECK_DEADLOCK TRUE
