\* Messages of one and of two blocks; ints of 12 bits, timers of eight counts,
\* three pins. The program ends when the digest is printed.
CONSTANTS
  Messages <- SomeMessages
  IntBits = 12
  TopExponent = 3
  Counts = 8
  NUM_GPIOS = 3
SPECIFICATION FunctionsSpec
CHECK_DEADLOCK FALSE
INVARIANTS
  TextRight
  InstructionsDecoded
  HeadersAgree
  DevicesRight
  TrapContext
