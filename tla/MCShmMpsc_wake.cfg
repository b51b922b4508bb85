\* bin/bench again: does a posted call ever reach a consumer that is working?
SPECIFICATION Spec
CONSTANTS
  p1 = p1
  p2 = p2
  Producers <- TwoProducers
  Capacity = 2
  Count = 2
  Oversize = {}
  Crashable = {}
  ServerMortal = FALSE
  InBench = TRUE
PROPERTY NeverWakesRunning
CHECK_DEADLOCK TRUE
