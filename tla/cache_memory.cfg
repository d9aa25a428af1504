\* The same with the cache and twice as much code as it holds.
CONSTANTS
  CodeWords = 8
  LINE_SIZE = 2
  NUM_LINES = 2
  ICACHE_ENABLE = TRUE
  DataAddresses = {8, 9, 10}
  HighOf <- Highs
  PageOf <- Pages
  Stores <- OneStore
  Loads <- FewLoads
  LoadsApart = TRUE
  Stalls = {TRUE, FALSE}
  Targets = {0, 5}
SPECIFICATION FairSpec
INVARIANT CacheFits
PROPERTIES ImplementsStream ImplementsMemory BusProceeds
