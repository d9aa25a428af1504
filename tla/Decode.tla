-------------------------------- MODULE Decode --------------------------------
(***************************************************************************)
(* The decode stage (src/src/pp_decode.vhd): a register for the decoded    *)
(* instruction, and the state machine that keeps a CSR instruction back    *)
(* until the reorder buffer is empty.                                      *)
(*                                                                         *)
(* The instruction register is kept only while one of the two valid bits   *)
(* counts it, and prev_instruction only while it waits to be issued: their *)
(* other values are never read.                                            *)
(***************************************************************************)
EXTENDS PotatoTypes

VARIABLES
  instruction,            \* the decoded instruction
  count_instruction,      \* ... is valid and goes to the reorder buffer
  count_instruction_csr,  \* ... is valid and goes to execute directly
  prev_instruction,       \* the CSR instruction kept back
  state,                  \* of the state machine
  stall_csr               \* stops fetch while a CSR instruction is kept back

decodeVars ==
  << instruction, count_instruction, count_instruction_csr,
     prev_instruction, state, stall_csr >>

DecodeStates == {"normal_execution", "rob_empty", "csr_execution"}

DecodeInit ==
  /\ instruction = Nop
  /\ count_instruction = FALSE
  /\ count_instruction_csr = FALSE
  /\ prev_instruction = Nop
  /\ state = "normal_execution"
  /\ stall_csr = FALSE

(* What the stage hands on at this edge: ins to the reorder buffer (count),*)
(* to execute (csr), or nothing.                                           *)
HandOn(ins, count, csr) ==
  /\ instruction' = IF count \/ csr THEN ins ELSE Nop
  /\ count_instruction' = count
  /\ count_instruction_csr' = csr

Enter(s, held) ==
  /\ state' = s
  /\ prev_instruction' = held

(* Mutant: the valid bit survives the flush.                               *)
DecodeFlushCounted ==
  /\ HandOn(instruction, count_instruction, FALSE)
  /\ Enter("normal_execution", Nop)
  /\ stall_csr' = FALSE

DecodeFlush ==
  /\ HandOn(Nop, FALSE, FALSE)
  /\ Enter("normal_execution", Nop)
  /\ stall_csr' = FALSE

(* Nothing to decode.                                                      *)
DecodeIdle(stall, ready) ==
  /\ state = "normal_execution"
  /\ stall \/ ~ready
  /\ HandOn(Nop, FALSE, FALSE)
  /\ UNCHANGED << state, prev_instruction, stall_csr >>

DecodeOrdinary(stall, ready, ins) ==
  /\ state = "normal_execution"
  /\ ~stall /\ ready /\ ~ins.csr
  /\ HandOn(ins, TRUE, FALSE)
  /\ Enter("normal_execution", Nop)
  /\ stall_csr' = FALSE

(* Mutant: executes a CSR instruction at once.                             *)
DecodeCsrAtOnce(stall, ready, ins, empty) ==
  /\ state = "normal_execution"
  /\ ~stall /\ ready /\ ins.csr
  /\ HandOn(ins, FALSE, TRUE)
  /\ UNCHANGED << state, prev_instruction, stall_csr >>

(* A CSR instruction is executed at once if the reorder buffer reports an  *)
(* empty table; that report does not see an instruction which this stage   *)
(* hands to it at the same edge.                                           *)
DecodeCsr(stall, ready, ins, empty) ==
  /\ state = "normal_execution"
  /\ ~stall /\ ready /\ ins.csr
  /\ HandOn(ins, FALSE, empty)
  /\ Enter(IF empty THEN "normal_execution" ELSE "rob_empty",
           IF empty THEN Nop ELSE ins)
  /\ stall_csr' = IF empty THEN stall_csr ELSE TRUE

WaitRobEmpty(empty) ==
  /\ state = "rob_empty"
  /\ HandOn(prev_instruction, FALSE, empty)
  /\ Enter(IF empty THEN "csr_execution" ELSE "rob_empty",
           IF empty THEN Nop ELSE prev_instruction)
  /\ stall_csr' = TRUE

CsrExecution(ready, ins) ==
  /\ state = "csr_execution"
  /\ HandOn(ins, ready, FALSE)
  /\ Enter("normal_execution", Nop)
  /\ stall_csr' = FALSE

DecodeClock(squash, stall, ready, ins, empty) ==
  \/ squash /\ DecodeFlush
  \/ /\ ~squash
     /\ \/ DecodeIdle(stall, ready)
        \/ DecodeOrdinary(stall, ready, ins)
        \/ DecodeCsr(stall, ready, ins, empty)
        \/ WaitRobEmpty(empty)
        \/ CsrExecution(ready, ins)

DecodeTypeOK ==
  /\ instruction \in Instructions
  /\ count_instruction \in BOOLEAN
  /\ count_instruction_csr \in BOOLEAN
  /\ prev_instruction \in Instructions
  /\ state \in DecodeStates
  /\ stall_csr \in BOOLEAN
==============================================================================
