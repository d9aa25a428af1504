\* The way into an interrupt whose request lasts.
CONSTANTS
  Messages <- SomeMessages
  IntBits = 12
  TopExponent = 3
  Counts = 8
  NUM_GPIOS = 3
SPECIFICATION FunctionsSpec
CHECK_DEADLOCK FALSE
INVARIANT RequestsEntered
