\* Two producers, three events each, through a ring of two slots: three laps.
\* Either may be killed at any point; the last event of p1 is too big.
SPECIFICATION FairSpec
CONSTANTS
  p1 = p1
  p2 = p2
  Producers <- TwoProducers
  NumSlots = 2
  Count = 3
  Oversize <- LastOfP1
  Crashable <- TwoProducers
  NoMessage = NoMessage
INVARIANTS TypeOK SlotExclusive ExactlyOnceInOrder RingInv
PROPERTIES ImplementsQueue EverythingDelivered FullIsHonest SeqNeverGoesBack
CHECK_DEADLOCK TRUE
