\* A ring of one slot, which RingConfig::check accepts.
SPECIFICATION Spec
CONSTANTS
  p1 = p1
  p2 = p2
  Producers <- TwoProducers
  NumSlots = 1
  Count = 2
  Oversize = {}
  Crashable = {}
  NoMessage = NoMessage
INVARIANT SlotExclusive
CHECK_DEADLOCK TRUE
