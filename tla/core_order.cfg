\* Branches under any delivery, and loads and stores delivered back to back.
CONSTANTS
  Word = 2
  Registers = {0, 1, 2}
  NUM_INSTRUCTIONS = 4
  LENGTH_MAIN = 4
  Programs <- OrderPrograms
  Instrs <- MCInstrs
  ImemAcks = {TRUE, FALSE}
  DmemAcks = {TRUE}
  BackToBack = TRUE
SPECIFICATION ProgramsSpec
INVARIANTS CoreInv NoOverwrite ResultsAwaited MemoryInOrder OperandsWritten
PROPERTIES SquashComplete ImplementsIsa
