------------------------------ MODULE Decoder ------------------------------
(***************************************************************************)
(* The decoding tables of the decode stage: pp_control_unit,               *)
(* pp_alu_control_unit, pp_imm_decoder and the choice of the CSR address.  *)
(* An instruction word is the set of its bits that are 1. The modules of   *)
(* the core take instructions that are decoded already; this one says what *)
(* they are decoded from.                                                  *)
(***************************************************************************)
EXTENDS Words, TLC

\* Bits 1 and 0 are not looked at: every instruction has 32 bits.
Opcode(w)  == Field(w, 6, 2)
Funct3(w)  == Field(w, 14, 12)
Funct7(w)  == Field(w, 31, 25)
Funct12(w) == Field(w, 31, 20)

LUI      == \b01101
AUIPC    == \b00101
JAL      == \b11011
JALR     == \b11001
BRANCH   == \b11000
LOAD     == \b00000
STORE    == \b01000
OP_IMM   == \b00100
OP       == \b01100
MISC_MEM == \b00011
SYSTEM   == \b11100

Opcodes == { LUI, AUIPC, JAL, JALR, BRANCH, LOAD, STORE, OP_IMM, OP, MISC_MEM, SYSTEM }

CSR_EPC_MRET == \h302

-----------------------------------------------------------------------------
(* pp_alu_control_unit                                                     *)

(* Mutant: funct7 is not looked at.                                        *)
ArithmeticPlain(opcode, funct3, funct7) ==
  << "ADD", "SLL", "SLT", "SLTU", "XOR", "SRL", "OR", "AND" >>[funct3 + 1]

Arithmetic(opcode, funct3, funct7) ==
  CASE funct3 = 0 -> IF opcode = OP /\ funct7 # 0 THEN "SUB" ELSE "ADD"
    [] funct3 = 1 -> "SLL"
    [] funct3 = 2 -> "SLT"
    [] funct3 = 3 -> "SLTU"
    [] funct3 = 4 -> "XOR"
    [] funct3 = 5 -> IF funct7 = 0 THEN "SRL" ELSE "SRA"
    [] funct3 = 6 -> "OR"
    [] funct3 = 7 -> "AND"

Alu(x_src, y_src, op) == [ x_src |-> x_src, y_src |-> y_src, op |-> op ]

AluControl(opcode, funct3, funct7) ==
  CASE opcode = LUI -> Alu("NULL", "IMM", "ADD")
    [] opcode = AUIPC -> Alu("PC", "IMM", "ADD")
    [] opcode \in {JAL, JALR} -> Alu("PC_NEXT", "NULL", "ADD")
    [] opcode = BRANCH -> Alu("NULL", "NULL", "NOP")
    [] opcode \in {LOAD, STORE} -> Alu("REG", "IMM", "ADD")
    [] opcode = OP_IMM ->
         Alu("REG", IF funct3 \in {1, 5} THEN "SHAMT" ELSE "IMM",
             Arithmetic(opcode, funct3, funct7))
    [] opcode = OP -> Alu("REG", "REG", Arithmetic(opcode, funct3, funct7))
    [] opcode = MISC_MEM -> Alu("REG", "REG", "NOP")
    [] opcode = SYSTEM -> Alu("CSR", "NULL", "ADD")
    [] OTHER -> Alu("REG", "REG", "INVALID")

-----------------------------------------------------------------------------
(* pp_control_unit                                                         *)

Environment(funct12) ==
  CASE funct12 = \h000 -> [ cause |-> "ECALL", branch |-> "NONE" ]
    [] funct12 = \h001 -> [ cause |-> "BREAKPOINT", branch |-> "NONE" ]
    [] funct12 = CSR_EPC_MRET -> [ cause |-> "NONE", branch |-> "SRET" ]
    [] funct12 = \h105 -> [ cause |-> "NONE", branch |-> "NONE" ]
    [] OTHER -> [ cause |-> "INVALID_INSTR", branch |-> "NONE" ]

BranchType(opcode) ==
  CASE opcode = JAL -> "JUMP"
    [] opcode = JALR -> "JUMP_INDIRECT"
    [] opcode = BRANCH -> "CONDITIONAL"
    [] OTHER -> "NONE"

Control(opcode, funct3, funct12) ==
  IF opcode = SYSTEM /\ funct3 = 0
  THEN [ rd_write |-> FALSE ] @@ Environment(funct12)
  ELSE [ rd_write |-> opcode \in Opcodes \ {BRANCH, STORE, MISC_MEM},
         branch   |-> BranchType(opcode),
         cause    |-> IF opcode \in Opcodes THEN "NONE" ELSE "INVALID_INSTR" ]

CsrWrite(opcode, funct3) ==
  CASE opcode = SYSTEM /\ funct3 \in {1, 5} -> "REPLACE"
    [] opcode = SYSTEM /\ funct3 \in {2, 6} -> "SET"
    [] opcode = SYSTEM /\ funct3 \in {3, 7} -> "CLEAR"
    [] OTHER -> "NONE"

(* Mutant: every size is taken for one that exists.                        *)
MemOpAny(opcode, funct3) ==
  CASE opcode = LOAD  -> IF funct3 >= 4 THEN "LOAD_UNSIGNED" ELSE "LOAD"
    [] opcode = STORE -> "STORE"
    [] OTHER -> "NONE"

MemOp(opcode, funct3) ==
  CASE opcode = LOAD  -> (CASE funct3 \in {0, 1, 2, 6} -> "LOAD"
                            [] funct3 \in {4, 5} -> "LOAD_UNSIGNED"
                            [] OTHER -> "INVALID")
    [] opcode = STORE -> IF funct3 \in 0..2 THEN "STORE" ELSE "INVALID"
    [] OTHER -> "NONE"

MemSize(opcode, funct3) ==
  CASE opcode \in {LOAD, STORE} /\ funct3 = 0 -> "BYTE"
    [] opcode = LOAD /\ funct3 = 4 -> "BYTE"
    [] opcode \in {LOAD, STORE} /\ funct3 = 1 -> "HALFWORD"
    [] opcode = LOAD /\ funct3 = 5 -> "HALFWORD"
    [] OTHER -> "WORD"

\* The comparator and the CSR access read funct3 themselves.
Decoded(w) ==
  LET opcode == Opcode(w)
      funct3 == Funct3(w)
  IN  AluControl(opcode, funct3, Funct7(w))
        @@ Control(opcode, funct3, Funct12(w))
        @@ [ csr_write |-> CsrWrite(opcode, funct3),
             csr_imm   |-> opcode = SYSTEM /\ funct3 >= 4,
             mem_op    |-> MemOp(opcode, funct3),
             mem_size  |-> MemSize(opcode, funct3),
             compare   |-> IF opcode = BRANCH THEN funct3 ELSE 0 ]

(* The word that raises an exception: at decode, or in the execute stage   *)
(* for a memory operation that does not exist.                             *)
Rejected(w) ==
  LET d == Decoded(w) IN d.cause # "NONE" \/ d.op = "INVALID" \/ d.mem_op = "INVALID"

-----------------------------------------------------------------------------
(* Mutant: a store has its immediate where a load has it.                  *)
FormatStoreAsLoad(opcode) ==
  CASE opcode \in {LUI, AUIPC} -> "U"
    [] opcode = JAL -> "J"
    [] opcode \in {JALR, LOAD, STORE, OP_IMM, SYSTEM} -> "I"
    [] opcode = BRANCH -> "B"
    [] OTHER -> "none"

(* pp_imm_decoder: the instruction bit each bit of the immediate repeats,  *)
(* or -1 where the immediate is 0.                                         *)
Format(opcode) ==
  CASE opcode \in {LUI, AUIPC} -> "U"
    [] opcode = JAL -> "J"
    [] opcode \in {JALR, LOAD, OP_IMM, SYSTEM} -> "I"
    [] opcode = BRANCH -> "B"
    [] opcode = STORE -> "S"
    [] OTHER -> "none"

ImmediateBit(format, b) ==
  CASE format = "U" -> IF b >= 12 THEN b ELSE -1
    [] format = "I" -> IF b >= 11 THEN 31 ELSE b + 20
    [] format = "S" -> (CASE b >= 11    -> 31
                          [] b \in 5..10 -> b + 20
                          [] b \in 0..4  -> b + 7)
    [] format = "J" -> (CASE b >= 20     -> 31
                          [] b \in 12..19 -> b
                          [] b = 11       -> 20
                          [] b \in 1..10  -> b + 20
                          [] b = 0        -> -1)
    [] format = "B" -> (CASE b >= 12     -> 31
                          [] b = 11       -> 7
                          [] b \in 5..10  -> b + 20
                          [] b \in 1..4   -> b + 7
                          [] b = 0        -> -1)
    [] OTHER -> -1

Immediate(w) == { b \in Bits : ImmediateBit(Format(Opcode(w)), b) \in w }

\* mret reads and restores mepc: its funct12 is exchanged for mepc's address.
CSR_MEPC == \h341

CsrAddress(w) ==
  LET immediate == Field(Immediate(w), 11, 0)
  IN  IF immediate = CSR_EPC_MRET THEN CSR_MEPC ELSE immediate

=============================================================================
