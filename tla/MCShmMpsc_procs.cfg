\* A server process and two producer processes over either control plane:
\* p1 and the server may be killed, the last event of p2 is too big.
SPECIFICATION FairSpec
CONSTANTS
  p1 = p1
  p2 = p2
  Producers <- TwoProducers
  Capacity = 2
  Count = 2
  Oversize <- LastOfP2
  Crashable <- OnlyP1
  ServerMortal = TRUE
  InBench = FALSE
INVARIANTS WakeOwed RunningIsAdvertised
PROPERTIES EventuallyDelivered ProducersFinish
CHECK_DEADLOCK TRUE
