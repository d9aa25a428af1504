\* Fetches, loads and stores over the bus adapters, loads apart.
CONSTANTS
  CodeWords = 3
  LINE_SIZE = 2
  NUM_LINES = 2
  ICACHE_ENABLE = FALSE
  DataAddresses = {8, 9, 10}
  HighOf <- Highs
  PageOf <- Pages
  Stores <- FewStores
  Loads <- FewLoads
  LoadsApart = TRUE
  Stalls = {TRUE, FALSE}
  Targets = {0, 2}
SPECIFICATION FairSpec
INVARIANT AnswersFit
PROPERTIES ImplementsStream ImplementsMemory BusProceeds
