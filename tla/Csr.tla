-------------------------------- MODULE Csr --------------------------------
(***************************************************************************)
(* Control and status registers as numbers and bits: pp_csr.vhd,           *)
(* pp_csr_alu.vhd, the registers of pp_csr_unit.vhd that software writes,  *)
(* the functions of src/potato.h, src/potato-test.h and what               *)
(* src/riscv-tests/encoding.h says of the same numbers. A word is the set  *)
(* of its bits that are 1.                                                 *)
(***************************************************************************)
EXTENDS Words, TLAPS

-----------------------------------------------------------------------------
(* Exception causes. Those of pp_csr.vhd have six bits, the top one tells  *)
(* an interrupt.                                                           *)

CSR_CAUSE == [
  INSTR_MISALIGN |-> \b000000, INSTR_FETCH    |-> \b000001,
  INVALID_INSTR  |-> \b000010, BREAKPOINT     |-> \b000011,
  LOAD_MISALIGN  |-> \b000100, LOAD_ERROR     |-> \b000101,
  STORE_MISALIGN |-> \b000110, STORE_ERROR    |-> \b000111,
  ECALL          |-> \b001011 ]

CSR_CAUSE_NONE         == \b011111
CSR_CAUSE_SOFTWARE_INT == \b100000
CSR_CAUSE_TIMER_INT    == \b100001
CSR_CAUSE_IRQ_BASE     == \b110000

\* What execute reports for request irq.
IrqCause(irq) == CSR_CAUSE_IRQ_BASE + irq

\* Whether bit b of a number is set.
BitOf(n, b) == (n \div 2 ^ b) % 2 = 1

(* mcause as software reads it: bit 5 of the cause is bit 31.              *)
McauseWord(cause) ==
  { b \in 0..4 : BitOf(cause, b) } \cup (IF cause >= 32 THEN {31} ELSE {})

POTATO_MCAUSE == [
  INSTR_MISALIGN |-> \h00, INSTR_FETCH    |-> \h01,
  INVALID_INSTR  |-> \h02, BREAKPOINT     |-> \h03,
  LOAD_MISALIGN  |-> \h04, LOAD_ERROR     |-> \h05,
  STORE_MISALIGN |-> \h06, STORE_ERROR    |-> \h07,
  ECALL          |-> \h0b ]

ENCODING_CAUSE == [
  INSTR_MISALIGN |-> \h0, INSTR_FETCH    |-> \h1,
  INVALID_INSTR  |-> \h2, BREAKPOINT     |-> \h3,
  LOAD_MISALIGN  |-> \h4, LOAD_ERROR     |-> \h5,
  STORE_MISALIGN |-> \h6, STORE_ERROR    |-> \h7,
  ECALL          |-> \hb ]

POTATO_NUM_IRQS             == 8
POTATO_MCAUSE_IRQ_MASK      == \h0f
POTATO_MCAUSE_INTERRUPT_BIT == 31
POTATO_MCAUSE_IRQ_BIT       == 4
POTATO_MCAUSE_IRQ_BASE      == Word(\h8000, \h0010)

(* The test and the number at the start of the benchmark's handler.        *)
IsIrq(mcause) ==
  POTATO_MCAUSE_INTERRUPT_BIT \in mcause /\ POTATO_MCAUSE_IRQ_BIT \in mcause

(* Mutant: the mask takes a bit too many.                                  *)
IrqOfWide(mcause) == CHOOSE n \in 0..31 : \A b \in 0..4 : b \in mcause <=> BitOf(n, b)

IrqOf(mcause) == CHOOSE n \in 0..15 : \A b \in 0..3 : b \in mcause <=> BitOf(n, b)

-----------------------------------------------------------------------------
(* Register addresses, in pp_csr.vhd and in encoding.h.                    *)

CSR == [
  CYCLE |-> \hc00, CYCLEH |-> \hc80, TIME |-> \hc01, TIMEH |-> \hc81,
  INSTRET |-> \hc02, INSTRETH |-> \hc82,
  MVENDORID |-> \hf11, MARCHID |-> \hf12, MIMPID |-> \hf13, MHARTID |-> \hf14,
  MSTATUS |-> \h300, MISA |-> \h301, MTVEC |-> \h305, MTDELEG |-> \h302,
  MIE |-> \h304, MTIMECMP |-> \h321, MTIME |-> \h701, MSCRATCH |-> \h340,
  MEPC |-> \h341, MCAUSE |-> \h342, MBADADDR |-> \h343, MIP |-> \h344,
  TEST |-> \hbf0 ]

ENCODING_COUNTERS == [ CYCLE |-> \hc00, TIME |-> \hc01, INSTRET |-> \hc02 ]

ENCODING_MACHINE == [
  MSTATUS |-> \h300, MISA |-> \h301, MEDELEG |-> \h302, MIDELEG |-> \h303,
  MIE |-> \h304, MTVEC |-> \h305, MCOUNTEREN |-> \h306, MSCRATCH |-> \h340,
  MEPC |-> \h341, MCAUSE |-> \h342, MBADADDR |-> \h343, MIP |-> \h344 ]

ENCODING_IDS == [
  MVENDORID |-> \hf11, MARCHID |-> \hf12, MIMPID |-> \hf13, MHARTID |-> \hf14 ]

(* Mutant: the address of another register of the same range.              *)
POTATO_TEST_CSR_NEXT == \hbf1

POTATO_TEST_CSR == \hbf0

-----------------------------------------------------------------------------
(* pp_csr_alu, and the registers software writes: status [ie, ie1], mie    *)
(* and the test register.                                                  *)

CsrAlu(mode, x, y) ==
  CASE mode = "NONE"    -> x
    [] mode = "SET"     -> x \cup y
    [] mode = "CLEAR"   -> x \ y
    [] mode = "REPLACE" -> y

CSR_SR_MIE_INDEX  == 3
CSR_SR_MPIE_INDEX == 7

csr_make_mstatus(status) ==
  (IF status.ie THEN {CSR_SR_MIE_INDEX} ELSE {})
    \cup (IF status.ie1 THEN {CSR_SR_MPIE_INDEX} ELSE {})

WriteMstatus(word) ==
  [ ie |-> CSR_SR_MIE_INDEX \in word, ie1 |-> CSR_SR_MPIE_INDEX \in word ]

TestState(word) ==
  CASE word \cap {0, 1} = {}     -> "IDLE"
    [] word \cap {0, 1} = {0}    -> "RUNNING"
    [] word \cap {0, 1} = {1}    -> "FAILED"
    [] word \cap {0, 1} = {0, 1} -> "PASSED"

std_logic_to_test_context(word) ==
  [ state |-> TestState(word), number |-> ShiftRight(word, 2) ]

-----------------------------------------------------------------------------
(* potato.h                                                                *)

STATUS_MIE  == 3
STATUS_MPIE == 7

potato_enable_interrupts(status) ==
  WriteMstatus(CsrAlu("SET", csr_make_mstatus(status), {STATUS_MIE}))

(* Mutant: the old enable bit is left set.                                 *)
potato_disable_interruptsNow(status) ==
  WriteMstatus(CsrAlu("CLEAR", csr_make_mstatus(status), {STATUS_MIE}))

potato_disable_interrupts(status) ==
  WriteMstatus(CsrAlu("CLEAR", csr_make_mstatus(status), {STATUS_MIE, STATUS_MPIE}))

\* 1 << (n + 24); the number of an unsigned byte may not fit.
potato_enable_irq(mie, n) == CsrAlu("SET", mie, {n + 24} \cap Bits)

potato_disable_irq(mie, n) == CsrAlu("CLEAR", mie, {n + 24} \cap Bits)

(* mie as execute reads it: bits 31..24 enable the requests.               *)
Enabled(mie) == { b - 24 : b \in mie \cap (24..31) }

(* The request execute reports: the lowest one that is enabled.            *)
Asserted(irq, mie) == irq \cap Enabled(mie)

irq_asserted_num(irq, mie) ==
  CHOOSE i \in Asserted(irq, mie) : \A j \in Asserted(irq, mie) : i <= j

-----------------------------------------------------------------------------
(* potato-test.h: the value the test register has after the macro. The     *)
(* assembler form shifts the number by 2, the C form by 3.                 *)

POTATO_TEST_STATE == [ IDLE |-> \h0, RUNNING |-> \h1, FAILED |-> \h2, PASSED |-> \h3 ]

StateBits(name) == { b \in 0..1 : BitOf(POTATO_TEST_STATE[name], b) }

(* Mutant: the number is shifted into the state.                           *)
TEST_START_ASM_SHORT(number) == ShiftLeft(number, 1) \cup StateBits("RUNNING")

TEST_START_ASM(number) == ShiftLeft(number, 2) \cup StateBits("RUNNING")

TEST_START_C(number) == ShiftLeft(number, 3) \cup StateBits("RUNNING")

TEST_END(register, name) ==
  CsrAlu("SET", CsrAlu("CLEAR", register, {0, 1}), StateBits(name))

TEST_FAIL(register) == TEST_END(register, "FAILED")

TEST_PASS(register) == TEST_END(register, "PASSED")

-----------------------------------------------------------------------------
(* The number of a request in mcause, as the handler takes it out again.   *)

LEMMA Powers == 2^0 = 1 /\ 2^1 = 2 /\ 2^2 = 4 /\ 2^3 = 8 /\ 2^4 = 16
  OBVIOUS

LEMMA BitsOfCause ==
  ASSUME NEW n \in 0..63
  PROVE  /\ BitOf(n, 0) <=> n % 2 = 1
         /\ BitOf(n, 1) <=> (n \div 2) % 2 = 1
         /\ BitOf(n, 2) <=> (n \div 4) % 2 = 1
         /\ BitOf(n, 3) <=> (n \div 8) % 2 = 1
         /\ BitOf(n, 4) <=> (n \div 16) % 2 = 1
  BY Powers DEF BitOf

(* Numbers below 16 differ in one of their four bits.                      *)
LEMMA LowBits ==
  ASSUME NEW n \in 0..15, NEW k \in 0..15, \A b \in 0..3 : BitOf(n, b) <=> BitOf(k, b)
  PROVE  n = k
  <1>1. /\ n % 2 = k % 2 /\ (n \div 2) % 2 = (k \div 2) % 2
        /\ (n \div 4) % 2 = (k \div 4) % 2 /\ (n \div 8) % 2 = (k \div 8) % 2
    BY BitsOfCause
  <1> QED
    BY <1>1

(* The handler finds the request execute reported, whichever it is.        *)
LEMMA RequestWord ==
  ASSUME NEW k \in 0..15
  PROVE  IsIrq(McauseWord(IrqCause(k))) /\ IrqOf(McauseWord(IrqCause(k))) = k
  <1> DEFINE word == McauseWord(IrqCause(k))
  <1>1. IrqCause(k) = 48 + k
    BY DEF IrqCause, CSR_CAUSE_IRQ_BASE
  <1>2. /\ BitOf(48 + k, 4)
        /\ BitOf(48 + k, 0) <=> BitOf(k, 0)
        /\ BitOf(48 + k, 1) <=> BitOf(k, 1)
        /\ BitOf(48 + k, 2) <=> BitOf(k, 2)
        /\ BitOf(48 + k, 3) <=> BitOf(k, 3)
    BY BitsOfCause
  <1>3. word = { b \in 0..4 : BitOf(48 + k, b) } \cup {31}
    BY <1>1 DEF McauseWord
  <1>4. IsIrq(word)
    BY <1>2, <1>3 DEF IsIrq, POTATO_MCAUSE_INTERRUPT_BIT, POTATO_MCAUSE_IRQ_BIT
  <1>5. \A b \in 0..3 : b \in word <=> BitOf(k, b)
    BY <1>2, <1>3
  <1> HIDE DEF word
  <1>6. PICK n \in 0..15 : /\ IrqOf(word) = n
                           /\ \A b \in 0..3 : b \in word <=> BitOf(n, b)
    BY <1>5 DEF IrqOf
  <1>7. n = k
    BY <1>5, <1>6, LowBits
  <1> QED
    BY <1>4, <1>6, <1>7 DEF word

=============================================================================
