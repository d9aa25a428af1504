\* Two-bit characters with four samples each over queues of two.
CONSTANTS
  BITS = 2
  OVERSAMPLING = 4
  CounterRange = 4
  FIFO_DEPTH = 2
  Payloads = {1, 2}
  Divisors = {1}
  MaxSent = 3
  MaxDivisorWrites = 1
SPECIFICATION FairSpec
INVARIANTS LineInOrder ReadsInOrder QueuesRespected
PROPERTIES AllArrives
