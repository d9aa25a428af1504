\* CSR instructions between others, no delivery at consecutive edges.
CONSTANTS
  Word = 2
  Registers = {0, 1, 2}
  NUM_INSTRUCTIONS = 4
  LENGTH_MAIN = 4
  Programs <- CsrPrograms
  Instrs <- MCInstrs
  ImemAcks = {TRUE, FALSE}
  DmemAcks = {TRUE}
  BackToBack = FALSE
SPECIFICATION FairProgramsSpec
INVARIANTS TypeOK CsrAlone
PROPERTIES ImplementsIsa NothingWaits
