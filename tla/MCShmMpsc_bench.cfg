\* bin/bench: two producers and the server in one runtime, JSON-RPC.
SPECIFICATION FairSpec
CONSTANTS
  p1 = p1
  p2 = p2
  Producers <- TwoProducers
  Capacity = 2
  Count = 2
  Oversize = {}
  Crashable = {}
  ServerMortal = FALSE
  InBench = TRUE
INVARIANTS TypeOK WakeOwed RunningIsAdvertised StopIsClean
PROPERTIES EventuallyDelivered ProducersFinish ConsumerStops
CHECK_DEADLOCK TRUE
