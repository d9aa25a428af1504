--------------------------------- MODULE Core ---------------------------------
(***************************************************************************)
(* The processor core (src/src/pp_core.vhd): decode, the reorder buffer    *)
(* and the pipeline on one clock.  Every state change of the core happens  *)
(* in Clock, one rising edge, which takes from the environment what the    *)
(* instruction memory delivers, whether the data memory answers, and the   *)
(* values it and the CSR unit return.                                      *)
(*                                                                         *)
(* The instruction stream is free: any member of Instrs may come next,     *)
(* whatever was executed before, so every program over Instrs, and every   *)
(* wrong path behind a jump, is among the behaviours.  Traps are left out: *)
(* Instrs holds no instruction that raises one, and no interrupt arrives.  *)
(***************************************************************************)
EXTENDS Rob, Decode, Pipeline

CONSTANTS
  Instrs,       \* what the program is made of
  ImemAcks,     \* whether the instruction memory may be ready at an edge
  DmemAcks,     \* whether the data memory may answer at an edge
  BackToBack    \* the instruction memory may deliver at consecutive edges

ASSUME InstrsAssumption == Instrs \subseteq Instructions
ASSUME AcksAssumption == ImemAcks \subseteq BOOLEAN /\ DmemAcks \subseteq BOOLEAN
ASSUME LengthMainAssumption == LENGTH_MAIN = NUM_INSTRUCTIONS

vars == << robVars, decodeVars, pipelineVars >>

Init == RobInit /\ DecodeInit /\ PipelineInit

stall_id == fetch_enable
stall_if == fetch_enable \/ stall_csr
branch_taken == commit.jump_taken

done == [ num |-> wb.num, count |-> wb.count, res |-> wb.val, jump_taken |-> wb.jump_taken ]

(* Fetch hands an instruction to decode unless it is stalled.              *)
Delivers(ready) ==
  /\ ready
  /\ ~stall_if
  /\ BackToBack \/ ~(count_instruction \/ count_instruction_csr)

Edge(stall, ready, ins, csr_value, load_value) ==
  /\ DecodeClock(branch_taken /\ ~stall_id, stall_id, ready, ins, rob_empty)
  /\ RobClock(stall, count_instruction, instruction, done)
  /\ PipelineClock(branch_taken /\ ~stall, stall, commit, execution,
                   count_instruction_csr, instruction, csr_value, load_value)

(* An edge of a core that is fed instrs with the acknowledges acks.        *)
ClockOf(instrs, acks) ==
  \E imem_ack \in acks, dmem_ack \in DmemAcks :
    LET ready == Delivers(imem_ack)
    IN  \E ins \in IF ready THEN instrs ELSE {Nop},
           csr_value \in IF count_instruction_csr THEN Values ELSE {0},
           load_value \in IF IsLoad(mem.mem_op) /\ dmem_ack THEN Values ELSE {0} :
          Edge(StallMem(dmem_ack), ready, ins, csr_value, load_value)

Clock == ClockOf(Instrs, ImemAcks)

Next == Clock

Spec == Init /\ [][Next]_vars

(* The clock keeps ticking.                                                *)
FairSpec == Spec /\ WF_vars(Clock)

TypeOK == RobTypeOK /\ DecodeTypeOK /\ PipelineTypeOK

==============================================================================
