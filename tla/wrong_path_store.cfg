\* A store right behind a taken branch.
CONSTANTS
  Word = 2
  Registers = {0, 1, 2}
  NUM_INSTRUCTIONS = 4
  LENGTH_MAIN = 4
  Programs <- StoreJumpPrograms
  Instrs <- MCInstrs
  ImemAcks = {TRUE}
  DmemAcks = {TRUE}
  BackToBack = TRUE
SPECIFICATION ProgramsSpec
INVARIANT NoWrongPathStore
