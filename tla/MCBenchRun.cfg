\* One pair of a size and a codec: a warm-up and a measured run of two producers.
\* 50 ms, 80 ms and a delay of 20 ms, in ticks of 10 ms.
SPECIFICATION FairSpec
CONSTANTS
  NumProducers = 2
  Pairs = 1
  NoWarmup = FALSE
  Count = 2
  Warmup = 1
  Capacity = 2
  ParkTicks = 5
  SleepTicks = 8
  Delay = 2
INVARIANTS TypeOK CountersAgree PostedCounted ConsumerGone FailsOnlyByFault
PROPERTY BenchEnds
CHECK_DEADLOCK TRUE
