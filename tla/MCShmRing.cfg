\* Two processes that push two events each through a ring of two slots, over
\* either control plane: p1 and the server may be killed, the last event of p2
\* is too big.
SPECIFICATION SystemSpec
CONSTANTS
  p1 = p1
  p2 = p2
  Producers <- TwoProducers
  NumSlots = 2
  Count = 2
  Oversize <- LastOfP2
  Crashable <- OnlyP1
  NoMessage = NoMessage
  ServerMortal = TRUE
  InBench = FALSE
INVARIANT CallerInv
PROPERTY ImplementsSystem
CHECK_DEADLOCK TRUE
