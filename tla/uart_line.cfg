\* Real sizes: eight bits of sixteen samples, two edges a sample, and a sender
\* that is up to 3 percent slower or faster.
CONSTANTS
  BITS = 8
  OVERSAMPLING = 16
  CounterRange = 256
  FIFO_DEPTH = 2
  Payloads = {0, 165, 255}
  Divisors = {1}
  MaxSent = 2
  MaxDivisorWrites = 1
  BitTimes = {31, 32, 33}
SPECIFICATION LineSpec
INVARIANT LineReceived
