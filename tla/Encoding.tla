------------------------------ MODULE Encoding ------------------------------
(***************************************************************************)
(* The numbers of the instruction set as the repository's headers state    *)
(* them, encoding.h of riscv-tests first of all, and what the decoder and  *)
(* the packages of the core must make of them.                             *)
(***************************************************************************)
EXTENDS Decoder, FiniteSets

-----------------------------------------------------------------------------
(* MATCH_* and MASK_*: name, upper and lower half of the match, mask.      *)

OPCODE     == Word(\h0, \h7f)
FUNCT3     == Word(\h0, \h707f)
FUNCT5     == Word(\hf800, \h707f)
FUNCT5_RS2 == Word(\hf9f0, \h707f)
FUNCT6     == Word(\hfc00, \h707f)
FUNCT7     == Word(\hfe00, \h707f)
SFENCE     == Word(\hfe00, \h7fff)
ALL        == Word(\hffff, \hffff)

Jumps == {
  <<"BEQ", \h0, \h63, FUNCT3>>, <<"BNE", \h0, \h1063, FUNCT3>>,
  <<"BLT", \h0, \h4063, FUNCT3>>, <<"BGE", \h0, \h5063, FUNCT3>>,
  <<"BLTU", \h0, \h6063, FUNCT3>>, <<"BGEU", \h0, \h7063, FUNCT3>>,
  <<"JALR", \h0, \h67, FUNCT3>>, <<"JAL", \h0, \h6f, OPCODE>> }

ImmediateOperations == {
  <<"LUI", \h0, \h37, OPCODE>>, <<"AUIPC", \h0, \h17, OPCODE>>,
  <<"ADDI", \h0, \h13, FUNCT3>>, <<"SLLI", \h0, \h1013, FUNCT6>>,
  <<"SLTI", \h0, \h2013, FUNCT3>>, <<"SLTIU", \h0, \h3013, FUNCT3>>,
  <<"XORI", \h0, \h4013, FUNCT3>>, <<"SRLI", \h0, \h5013, FUNCT6>>,
  <<"SRAI", \h4000, \h5013, FUNCT6>>, <<"ORI", \h0, \h6013, FUNCT3>>,
  <<"ANDI", \h0, \h7013, FUNCT3>> }

RegisterOperations == {
  <<"ADD", \h0, \h33, FUNCT7>>, <<"SUB", \h4000, \h33, FUNCT7>>,
  <<"SLL", \h0, \h1033, FUNCT7>>, <<"SLT", \h0, \h2033, FUNCT7>>,
  <<"SLTU", \h0, \h3033, FUNCT7>>, <<"XOR", \h0, \h4033, FUNCT7>>,
  <<"SRL", \h0, \h5033, FUNCT7>>, <<"SRA", \h4000, \h5033, FUNCT7>>,
  <<"OR", \h0, \h6033, FUNCT7>>, <<"AND", \h0, \h7033, FUNCT7>> }

Words64 == {
  <<"ADDIW", \h0, \h1b, FUNCT3>>, <<"SLLIW", \h0, \h101b, FUNCT7>>,
  <<"SRLIW", \h0, \h501b, FUNCT7>>, <<"SRAIW", \h4000, \h501b, FUNCT7>>,
  <<"ADDW", \h0, \h3b, FUNCT7>>, <<"SUBW", \h4000, \h3b, FUNCT7>>,
  <<"SLLW", \h0, \h103b, FUNCT7>>, <<"SRLW", \h0, \h503b, FUNCT7>>,
  <<"SRAW", \h4000, \h503b, FUNCT7>> }

MemoryAccesses == {
  <<"LB", \h0, \h3, FUNCT3>>, <<"LH", \h0, \h1003, FUNCT3>>,
  <<"LW", \h0, \h2003, FUNCT3>>, <<"LD", \h0, \h3003, FUNCT3>>,
  <<"LBU", \h0, \h4003, FUNCT3>>, <<"LHU", \h0, \h5003, FUNCT3>>,
  <<"LWU", \h0, \h6003, FUNCT3>>, <<"SB", \h0, \h23, FUNCT3>>,
  <<"SH", \h0, \h1023, FUNCT3>>, <<"SW", \h0, \h2023, FUNCT3>>,
  <<"SD", \h0, \h3023, FUNCT3>> }

Fences == {
  <<"FENCE", \h0, \hf, FUNCT3>>, <<"FENCE_I", \h0, \h100f, FUNCT3>> }

MultiplyDivide == {
  <<"MUL", \h200, \h33, FUNCT7>>, <<"MULH", \h200, \h1033, FUNCT7>>,
  <<"MULHSU", \h200, \h2033, FUNCT7>>, <<"MULHU", \h200, \h3033, FUNCT7>>,
  <<"DIV", \h200, \h4033, FUNCT7>>, <<"DIVU", \h200, \h5033, FUNCT7>>,
  <<"REM", \h200, \h6033, FUNCT7>>, <<"REMU", \h200, \h7033, FUNCT7>>,
  <<"MULW", \h200, \h3b, FUNCT7>>, <<"DIVW", \h200, \h403b, FUNCT7>>,
  <<"DIVUW", \h200, \h503b, FUNCT7>>, <<"REMW", \h200, \h603b, FUNCT7>>,
  <<"REMUW", \h200, \h703b, FUNCT7>> }

Atomics == {
  <<"AMOADD_W", \h0, \h202f, FUNCT5>>, <<"AMOXOR_W", \h2000, \h202f, FUNCT5>>,
  <<"AMOOR_W", \h4000, \h202f, FUNCT5>>, <<"AMOAND_W", \h6000, \h202f, FUNCT5>>,
  <<"AMOMIN_W", \h8000, \h202f, FUNCT5>>, <<"AMOMAX_W", \ha000, \h202f, FUNCT5>>,
  <<"AMOMINU_W", \hc000, \h202f, FUNCT5>>, <<"AMOMAXU_W", \he000, \h202f, FUNCT5>>,
  <<"AMOSWAP_W", \h800, \h202f, FUNCT5>>, <<"LR_W", \h1000, \h202f, FUNCT5_RS2>>,
  <<"SC_W", \h1800, \h202f, FUNCT5>>, <<"AMOADD_D", \h0, \h302f, FUNCT5>>,
  <<"AMOXOR_D", \h2000, \h302f, FUNCT5>>, <<"AMOOR_D", \h4000, \h302f, FUNCT5>>,
  <<"AMOAND_D", \h6000, \h302f, FUNCT5>>, <<"AMOMIN_D", \h8000, \h302f, FUNCT5>>,
  <<"AMOMAX_D", \ha000, \h302f, FUNCT5>>, <<"AMOMINU_D", \hc000, \h302f, FUNCT5>>,
  <<"AMOMAXU_D", \he000, \h302f, FUNCT5>>, <<"AMOSWAP_D", \h800, \h302f, FUNCT5>>,
  <<"LR_D", \h1000, \h302f, FUNCT5_RS2>>, <<"SC_D", \h1800, \h302f, FUNCT5>> }

PrivilegedOperations == {
  <<"ECALL", \h0, \h73, ALL>>, <<"EBREAK", \h10, \h73, ALL>>,
  <<"URET", \h20, \h73, ALL>>, <<"SRET", \h1020, \h73, ALL>>,
  <<"MRET", \h3020, \h73, ALL>>, <<"DRET", \h7b20, \h73, ALL>>,
  <<"SFENCE_VMA", \h1200, \h73, SFENCE>>, <<"WFI", \h1050, \h73, ALL>> }

CsrOperations == {
  <<"CSRRW", \h0, \h1073, FUNCT3>>, <<"CSRRS", \h0, \h2073, FUNCT3>>,
  <<"CSRRC", \h0, \h3073, FUNCT3>>, <<"CSRRWI", \h0, \h5073, FUNCT3>>,
  <<"CSRRSI", \h0, \h6073, FUNCT3>>, <<"CSRRCI", \h0, \h7073, FUNCT3>> }

(* Floating point: the format (S, D, Q) is in bits 25 and 26, for a        *)
(* conversion between formats the other one in bits 20 and 21.             *)
FLOAT       == Word(\hfe00, \h7f)      \* any rounding mode
FLOAT_RS2   == Word(\hfff0, \h7f)
FLOAT_MOVE  == Word(\hfff0, \h707f)
FLOAT_FUSED == Word(\h600, \h7f)

Formats == {\h0, \h200, \h600}

Conversions == {\h4010, \h4200, \h4030, \h4600, \h4230, \h4610}

FloatOperations ==
  { <<op[1], op[2] + f, \h53, FLOAT>> :
      op \in { <<"FADD", \h0>>, <<"FSUB", \h800>>, <<"FMUL", \h1000>>, <<"FDIV", \h1800>> },
      f \in Formats }
  \cup { <<op[1], op[2] + f, op[3], FUNCT7>> :
      op \in { <<"FSGNJ", \h2000, \h53>>, <<"FSGNJN", \h2000, \h1053>>,
               <<"FSGNJX", \h2000, \h2053>>, <<"FMIN", \h2800, \h53>>,
               <<"FMAX", \h2800, \h1053>>, <<"FLE", \ha000, \h53>>,
               <<"FLT", \ha000, \h1053>>, <<"FEQ", \ha000, \h2053>> },
      f \in Formats }
  \cup { <<"FSQRT", \h5800 + f, \h53, FLOAT_RS2>> : f \in Formats }
  \cup { <<"FCVT", c, \h53, FLOAT_RS2>> : c \in Conversions }

\* From and to integers: W, WU, L, LU in bits 20 and 21.
FloatMoves ==
  { <<op[1], op[2] + f + i, \h53, FLOAT_RS2>> :
      op \in { <<"FCVT_X", \hc000>>, <<"FCVT", \hd000>> }, f \in Formats,
      i \in {\h0, \h10, \h20, \h30} }
  \cup { <<op[1], op[2] + f, op[3], FLOAT_MOVE>> :
      op \in { <<"FMV_X", \he000, \h53>>, <<"FCLASS", \he000, \h1053>>,
               <<"FMV", \hf000, \h53>> },
      f \in Formats }

FloatMemory ==
  { <<op[1], \h0, op[2] + size, FUNCT3>> :
      op \in { <<"FL", \h7>>, <<"FS", \h27>> }, size \in {\h2000, \h3000, \h4000} }

FloatFused ==
  { <<op[1], f, op[2], FLOAT_FUSED>> :
      op \in { <<"FMADD", \h43>>, <<"FMSUB", \h47>>, <<"FNMSUB", \h4b>>, <<"FNMADD", \h4f>> },
      f \in Formats }

\* The four opcodes left to implementations, by the registers they use.
Custom ==
  { <<"CUSTOM", \h0, opcode + registers, FUNCT3>> :
      opcode \in {\hb, \h2b, \h5b, \h7b},
      registers \in {\h0, \h2000, \h3000, \h4000, \h6000, \h7000} }

Match(row) == Word(row[2], row[3])
Mask(row)  == row[4]

(* What fills the bits a mask leaves free: nothing, everything, one bit,   *)
(* everything but one bit.                                                 *)
Fillings == { {}, Bits } \cup { {b} : b \in Bits } \cup { Bits \ {b} : b \in Bits }

WordsOf(row) == { Match(row) \cup (f \ Mask(row)) : f \in Fillings }

Named(rows, names) == { row \in rows : row[1] \in names }

(* RV32I with its CSR instructions. Bit 25 of a shift is a sixth bit of    *)
(* the shift amount in the header, which describes 64 bits too: it must be *)
(* 0 here.                                                                 *)
Base ==
  Jumps \cup RegisterOperations \cup CsrOperations \cup Fences
    \cup (MemoryAccesses \ Named(MemoryAccesses, {"LD", "LWU", "SD"}))
    \cup Named(PrivilegedOperations, {"ECALL", "EBREAK", "MRET", "WFI"})
    \cup { IF row[4] = FUNCT6 THEN [row EXCEPT ![4] = FUNCT7] ELSE row :
              row \in ImmediateOperations }

(* What the processor does not have.                                       *)
Foreign ==
  Words64 \cup Atomics \cup Named(MemoryAccesses, {"LD", "LWU", "SD"}) \cup MultiplyDivide
    \cup FloatOperations \cup FloatMoves \cup FloatMemory \cup FloatFused \cup Custom
    \cup Named(PrivilegedOperations, {"URET", "SRET", "DRET", "SFENCE_VMA"})

(* Those of them that the tables take for an instruction of the base set:  *)
(* LWU for LW, and the multiplications and divisions of full registers,    *)
(* whose bit 25 nothing looks at, for the operation of the same funct3.    *)
Mistaken ==
  Named(MemoryAccesses, {"LWU"}) \cup { row \in MultiplyDivide : row[3] % 128 = \h33 }

-----------------------------------------------------------------------------
(* Fields that the signals of a word say are used.                         *)

RdBits    == 7..11
Rs1Bits   == 15..19
Rs2Bits   == 20..24
ShamtBits == 20..24

UsedFields(w) ==
  LET d == Decoded(w)
      format == Format(Opcode(w))
      reads_rs1 == \/ d.x_src = "REG" \/ d.branch \in {"CONDITIONAL", "JUMP_INDIRECT"}
                   \/ d.csr_write # "NONE"
      reads_rs2 == d.y_src = "REG" \/ d.branch = "CONDITIONAL" \/ d.mem_op = "STORE"
      immediate == \/ d.y_src = "IMM" \/ d.csr_write # "NONE"
                   \/ d.branch \in {"JUMP", "JUMP_INDIRECT", "CONDITIONAL"}
  IN  << IF d.rd_write THEN RdBits ELSE {},
         IF reads_rs1 THEN Rs1Bits ELSE {},
         IF reads_rs2 THEN Rs2Bits ELSE {},
         IF d.y_src = "SHAMT" THEN ShamtBits ELSE {},
         IF immediate THEN { ImmediateBit(format, b) : b \in Bits } \ {-1} ELSE {} >>

=============================================================================
