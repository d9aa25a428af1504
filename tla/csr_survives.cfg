\* CSR instructions behind jumps in a table that is almost full.
CONSTANTS
  Word = 2
  Registers = {0, 1, 2}
  NUM_INSTRUCTIONS = 4
  LENGTH_MAIN = 4
  Programs <- CsrPrograms
  Instrs <- MCInstrs
  ImemAcks = {TRUE, FALSE}
  DmemAcks = {TRUE}
  BackToBack = FALSE
SPECIFICATION ProgramsSpec
PROPERTY KeptCsrDropped
