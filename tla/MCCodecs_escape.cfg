\* A producer whose name has a character that JSON escapes.
SPECIFICATION Spec
CONSTANTS
  Half = 4
  Words <- SomeWords
  Names <- SomeNames
  Blobs <- SomeBlobs
INVARIANT EveryEventDecodes
CHECK_DEADLOCK TRUE
