------------------------------- MODULE Pipeline -------------------------------
(***************************************************************************)
(* The register file and the execute, memory and writeback stages          *)
(* (src/src/pp_register_file.vhd, pp_execute.vhd, pp_memory.vhd,           *)
(* pp_writeback.vhd) with the multiplexers of pp_core.vhd in front of them.*)
(*                                                                         *)
(* An operation carries its result from the execute stage on: what the     *)
(* stage computes depends only on the operands it captured.  Fields of an  *)
(* operation that is not valid are normalised to those of Bubble.          *)
(***************************************************************************)
EXTENDS PotatoTypes

CONSTANT LENGTH_MAIN   \* the operation number that stands for "no row"

ASSUME LengthMainNat == LENGTH_MAIN \in Nat

VARIABLES
  registers,    \* the register file
  ex, mem, wb   \* the operations in execute, memory and writeback

pipelineVars == << registers, ex, mem, wb >>

Bubble ==
  [ num |-> LENGTH_MAIN,         \* row of the reorder buffer
    count |-> FALSE,       \* count_instruction
    csr |-> FALSE,         \* count_instruction_csr
    rd |-> 0, rd_write |-> FALSE, \* register a CSR instruction writes itself
    val |-> 0,             \* result
    jump_taken |-> FALSE,
    mem_op |-> "NONE" ]

PipelineInit ==
  /\ registers = [ r \in Registers |-> 0 ]
  /\ ex = Bubble
  /\ mem = Bubble
  /\ wb = Bubble

(* The memory stage holds everything until the memory answers.             *)
StallMem(ack) == IsMem(mem.mem_op) /\ ~ack

(* Mutant: the multiplexer looks at the memory stage.                      *)
WriteRegisterEarly(commit_port) ==
  LET port == IF mem.csr
              THEN [ rd |-> wb.rd, rd_write |-> wb.rd_write, res |-> wb.val ]
              ELSE commit_port
  IN  registers' = IF port.rd_write /\ port.rd # 0
                   THEN [ registers EXCEPT ![port.rd] = port.res ]
                   ELSE registers

(* The only writer of a register at an edge is the CSR instruction in      *)
(* writeback if there is one, the commit port of the reorder buffer        *)
(* otherwise.  Register 0 is not written.                                  *)
WriteRegister(commit_port) ==
  LET port == IF wb.csr
              THEN [ rd |-> wb.rd, rd_write |-> wb.rd_write, res |-> wb.val ]
              ELSE commit_port
  IN  registers' = IF port.rd_write /\ port.rd # 0
                   THEN [ registers EXCEPT ![port.rd] = port.res ]
                   ELSE registers

(* What execute captures: the operation issued by the reorder buffer, or   *)
(* the CSR instruction in decode.  The CSR instruction takes over the      *)
(* operand path, not the row number, the memory operation or the branch.   *)
(* The register file is written before it is read.  csr_value is what the  *)
(* CSR unit returns.                                                       *)
Issued(execution, csr, csr_ins, csr_value) ==
  LET ins == IF csr THEN csr_ins ELSE execution.ins
      a == registers'[ins.x_addr]
      b == registers'[ins.y_addr]
  IN  [ num        |-> execution.num,
        count      |-> execution.num # LENGTH_MAIN \/ csr,
        csr        |-> csr,
        rd         |-> IF csr THEN ins.rd ELSE 0,
        rd_write   |-> csr /\ ins.rd_write,
        val        |-> IF csr THEN csr_value ELSE AluResult(ins, a, b),
        jump_taken |-> JumpTaken(execution.ins, a, b),
        mem_op     |-> execution.ins.mem_op ]

execute_register(squash, stall, issued) ==
  ex' = IF squash THEN Bubble ELSE IF stall THEN ex ELSE issued

(* Mutant: a squash leaves the memory stage alone.                         *)
memory_register_kept(squash, stall) == mem' = IF stall THEN mem ELSE ex

(* A squash leaves count_instr_csr_out as it was.                          *)
memory_register(squash, stall) ==
  mem' = IF squash THEN [ Bubble EXCEPT !.csr = mem.csr ]
         ELSE IF stall THEN mem ELSE ex

writeback_register(squash, stall, load_value) ==
  wb' = IF squash THEN Bubble
        ELSE IF stall THEN wb
        ELSE [ mem EXCEPT !.val = IF IsLoad(mem.mem_op) THEN load_value ELSE @,
                          !.mem_op = "NONE" ]

PipelineClock(squash, stall, commit_port, execution, csr, csr_ins, csr_value, load_value) ==
  /\ WriteRegister(commit_port)
  /\ execute_register(squash, stall, Issued(execution, csr, csr_ins, csr_value))
  /\ memory_register(squash, stall)
  /\ writeback_register(squash, stall, load_value)

Operations ==
  [ num : 0 .. LENGTH_MAIN, count : BOOLEAN, csr : BOOLEAN, rd : Registers,
    rd_write : BOOLEAN, val : Values, jump_taken : BOOLEAN,
    mem_op : MemoryOperations ]

PipelineTypeOK ==
  /\ registers \in [ Registers -> Values ]
  /\ ex \in Operations
  /\ mem \in Operations
  /\ wb \in Operations
==============================================================================
