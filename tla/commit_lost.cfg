\* A wait state meets a commit.
CONSTANTS
  Word = 2
  Registers = {0, 1, 2}
  NUM_INSTRUCTIONS = 4
  LENGTH_MAIN = 4
  Programs <- WaitPrograms
  Instrs <- MCInstrs
  ImemAcks = {TRUE, FALSE}
  DmemAcks = {TRUE, FALSE}
  BackToBack = TRUE
SPECIFICATION ProgramsSpec
PROPERTY CommitKept
