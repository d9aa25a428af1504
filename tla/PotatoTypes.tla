----------------------------- MODULE PotatoTypes -----------------------------
(***************************************************************************)
(* The values that travel through the Potato core: decoded instructions,   *)
(* operand sources, memory operations and branch kinds, and what the       *)
(* execute stage computes from them.                                       *)
(*                                                                         *)
(* Data is abstracted: words are the naturals below Word, register         *)
(* addresses are a set of naturals, and the program counter, the immediate *)
(* and the shift amount of an instruction are one datum, imm.  It is the   *)
(* operand of every source that is not a register, and the field the       *)
(* reorder buffer compares between two memory operations.                  *)
(***************************************************************************)
EXTENDS Integers

CONSTANTS
  Word,       \* number of values of a machine word (2^32 in the code)
  Registers   \* register addresses

ASSUME WordAssumption == Word \in Nat \ {0}
ASSUME RegistersAssumption == Registers \subseteq Nat /\ 0 \in Registers

Values == 0 .. Word - 1

AluOperations == {"ALU_ADD", "ALU_SUB", "ALU_SLTU", "ALU_NOP"}

OperandSources == {"REG", "IMM", "SHAMT", "PC", "NULL"}

MemoryOperations == {"NONE", "LOAD", "LOAD_UNSIGNED", "STORE"}

BranchTypes == {"NONE", "JUMP", "CONDITIONAL"}

InstructionFields ==
  [ alu_op : AluOperations,
    x_src  : OperandSources,  x_addr   : Registers,
    y_src  : OperandSources,  y_addr   : Registers,
    rd     : Registers,       rd_write : BOOLEAN,
    imm    : Values,
    mem_op : MemoryOperations,
    branch : BranchTypes,
    csr    : BOOLEAN ]

(* The comparator of a branch reads both registers past the multiplexers.  *)
(* The jump of mret is not among BranchTypes, and no other instruction     *)
(* that is taken for a CSR instruction jumps.                              *)
Instructions ==
  { i \in InstructionFields :
      /\ i.branch = "CONDITIONAL" => i.y_src = "NULL"
      /\ i.csr => i.branch = "NONE" }

(* The content of a row after reset and after a commit.                    *)
Nop ==
  [ alu_op |-> "ALU_NOP",
    x_src  |-> "NULL",      x_addr   |-> 0,
    y_src  |-> "NULL",      y_addr   |-> 0,
    rd     |-> 0,           rd_write |-> FALSE,
    imm    |-> 0,
    mem_op |-> "NONE",
    branch |-> "NONE",
    csr    |-> FALSE ]

IsLoad(mem_op) == mem_op \in {"LOAD", "LOAD_UNSIGNED"}
IsMem(mem_op)  == IsLoad(mem_op) \/ mem_op = "STORE"

(* What an operand multiplexer selects.  A CSR operand is the result of    *)
(* its instruction and needs no source of its own.                        *)
Operand(source, register, imm) ==
  CASE source = "REG"  -> register
    [] source = "NULL" -> 0
    [] OTHER           -> imm

AluResult(i, a, b) ==
  LET x == Operand(i.x_src, a, i.imm)
      y == Operand(i.y_src, b, i.imm)
  IN  CASE i.alu_op = "ALU_ADD"  -> (x + y) % Word
        [] i.alu_op = "ALU_SUB"  -> (x - y) % Word
        [] i.alu_op = "ALU_SLTU" -> IF x < y THEN 1 % Word ELSE 0
        [] OTHER                 -> 0

(* Every jump is taken; a conditional branch when its registers are equal, *)
(* the comparison that stands for the six of the comparator.               *)
JumpTaken(i, a, b) ==
  \/ i.branch = "JUMP"
  \/ i.branch = "CONDITIONAL" /\ a = b
==============================================================================
