\* Every codec, one event after another through the same buffers.
SPECIFICATION Spec
CONSTANTS
  Half = 4
  Words <- SomeWords
  Names <- SomeNames
  Blobs <- SomeBlobs
INVARIANT DecodesAsEncoded
CHECK_DEADLOCK TRUE
