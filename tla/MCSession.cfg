\* Three producers, of which two may be killed at any point.
SPECIFICATION FairSpec
CONSTANTS
  c1 = c1
  c2 = c2
  c3 = c3
  Clients <- ThreeClients
  Crashable <- FirstTwo
  NumSlots = 2
  Posts = 2
INVARIANTS TypeOK UseAfterInit ReadsWhatItAwaits CallsOutliveCaller SessionInv
PROPERTIES OnlyUnservedEndServer HandshakeEnds SessionsEnd
CHECK_DEADLOCK TRUE
