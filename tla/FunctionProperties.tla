------------------------- MODULE FunctionProperties -------------------------
(***************************************************************************)
(* What must hold between the instruction set, the decoding tables, the    *)
(* control registers and the headers that name them for software; of the   *)
(* devices with their drivers, of the board's address map, of the way into *)
(* a trap and of the code around a handler, said of one instruction, one   *)
(* timer, one register or one trap at a time.                              *)
(***************************************************************************)
EXTENDS Encoding, Csr, Timer, Gpio, Icerror, Trap, StartCode, Platform

Signals == [ row \in Base |-> { Decoded(w) : w \in WordsOf(row) } ]

(* What fills the free bits of an instruction of the base set does not     *)
(* change the signals the decoder makes of it, and no two instructions get *)
(* the same signals; only the two fences do, which do nothing here         *)
(* (pp_control_unit.vhd:108-113, pp_alu_control_unit.vhd:117-120).         *)
DecodesApart(row) ==
  /\ Cardinality(Signals[row]) = 1
  /\ \A other \in Base \ {row} : {row, other} # Fences => Signals[row] # Signals[other]
  /\ \A w \in WordsOf(row) : Rejected(w) => row[1] \in {"ECALL", "EBREAK"}

(* The fields that the signals of an instruction use, registers, shift     *)
(* amount and immediate, do not overlap each other or its fixed bits, and  *)
(* no bit is left over: an immediate whose bits the decoder picks from the *)
(* wrong place fails one or the other. Fences and SYSTEM operations with   *)
(* funct3 0 ignore fields; CSR operations name rs1 or an immediate and     *)
(* the register address by the immediate.                                  *)
Covered == Base \ (Fences \cup PrivilegedOperations)

FieldsCover(row) ==
  LET used == UsedFields(Match(row))
  IN  /\ Mask(row) \cup UNION { used[k] : k \in 1..5 } = Bits
      /\ \A k \in 1..5 : used[k] \cap Mask(row) = {}
      /\ \A k, l \in 1..5 : k # l => used[k] \cap used[l] = {}

(* An instruction that the processor lacks raises an exception instead of  *)
(* doing something else (pp_control_unit.vhd:17-18). The Mistaken are the  *)
(* exceptions to it.                                                       *)
ForeignRejected(row) ==
  row \in Foreign \ Mistaken => \A w \in WordsOf(row) : Rejected(w)

-----------------------------------------------------------------------------
(* The three places that number exceptions and control registers agree     *)
(* where they name the same thing, and no address names two registers of   *)
(* the core.                                                               *)
NumbersAgree ==
  /\ CSR_CAUSE = POTATO_MCAUSE
  /\ CSR_CAUSE = ENCODING_CAUSE
  /\ \A table \in { ENCODING_COUNTERS, ENCODING_MACHINE, ENCODING_IDS } :
       \A name \in DOMAIN table \cap DOMAIN CSR : table[name] = CSR[name]
  /\ POTATO_TEST_CSR = CSR.TEST
  /\ \A a, b \in DOMAIN CSR : a # b => CSR[a] # CSR[b]

Causes ==
  { CSR_CAUSE[c] : c \in DOMAIN CSR_CAUSE }
    \cup { CSR_CAUSE_NONE, CSR_CAUSE_SOFTWARE_INT, CSR_CAUSE_TIMER_INT }

Requests == 0..(POTATO_NUM_IRQS - 1)

(* A handler that tests two bits of mcause and takes four for the request, *)
(* as the benchmark's does (main.c:35-37), recognises every request by its *)
(* number and takes no other cause for one.                                *)
IrqRecognised ==
  /\ \A irq \in Requests :
       LET mcause == McauseWord(IrqCause(irq))
       IN  IsIrq(mcause) /\ IrqOf(mcause) = irq /\ POTATO_MCAUSE_IRQ_BASE \subseteq mcause
  /\ \A cause \in Causes : ~IsIrq(McauseWord(cause))

Statuses == [ ie : BOOLEAN, ie1 : BOOLEAN ]

SomeWords == { {}, Bits } \cup { {b} : b \in Bits } \cup { Bits \ {b} : b \in Bits }

(* Enabling or disabling a request changes what execute takes for that     *)
(* request and for no other, whatever else is enabled and pending, and     *)
(* switching interrupts off leaves nothing that a return could switch on   *)
(* again.                                                                  *)
RequestsApart(mie) ==
  /\ \A n \in Requests :
       /\ Enabled(potato_enable_irq(mie, n)) = Enabled(mie) \cup {n}
       /\ Enabled(potato_disable_irq(mie, n)) = Enabled(mie) \ {n}
       /\ \A irq \in SUBSET {n, 3, 5} :
            Asserted(irq, potato_enable_irq(mie, n)) # {} =>
              LET first == irq_asserted_num(irq, potato_enable_irq(mie, n))
              IN  first \in irq /\ (n \in irq => first <= n)
  /\ \A s \in Statuses :
       /\ potato_enable_interrupts(s) = [s EXCEPT !.ie = TRUE]
       /\ potato_disable_interrupts(s) = [ ie |-> FALSE, ie1 |-> FALSE ]

(* What the test bench reads from the test register is the state of the    *)
(* test, and its number if the assembler form of the macro started it. Of  *)
(* a test that the C form started only the verdict is claimed.             *)
TestReported(number) ==
  LET asm == TEST_START_ASM(number)
      c   == TEST_START_C(number)
      Read(register) == std_logic_to_test_context(register)
  IN  /\ Read(asm) = [ state |-> "RUNNING", number |-> number ]
      /\ Read(TEST_PASS(asm)) = [ state |-> "PASSED", number |-> number ]
      /\ Read(TEST_FAIL(asm)) = [ state |-> "FAILED", number |-> number ]
      /\ Read(TEST_PASS(c)).state = "PASSED" /\ Read(TEST_FAIL(c)).state = "FAILED"

-----------------------------------------------------------------------------
(* A timer after k ticks.                                                  *)
Ticks(t, k) ==
  LET after[n \in 0..k] == IF n = 0 THEN t ELSE TimerTick(after[n - 1])
  IN  after[k]

(* A running timer raises its request after as many ticks as its counter   *)
(* is away from the compare value, around the end of the counter if it is  *)
(* past it already (a compare value lowered while it runs), and keeps it   *)
(* until it is cleared. Clearing does not stop it, stopping keeps the      *)
(* count, and set up as timer.h intends it first fires after compare       *)
(* ticks.                                                                  *)
TimerFires(t) ==
  LET away == (t.compare - t.counter) % Counts
  IN  /\ t.run => \A k \in 0..(away + 1) : TimerIrq(Ticks(t, k)) <=> k >= away
      /\ LET c == timer_clear(t, ReadControl(t))
         IN  c.run = t.run /\ (TimerIrq(c) <=> t.compare = 0)
      /\ \A k \in 0..Counts :
           timer_get_count(Ticks(timer_stop(t), k)) = timer_get_count(t)
      /\ \A from \in 0..(Counts - 1) :
           timer_get_count(timer_set_count(timer_stop(t), from)) = from
      /\ \A compare \in 1..(Counts - 1) :
           LET s == timer_start(timer_set_compare(timer_reset(t), compare))
           IN  \A k \in 0..Counts : TimerIrq(Ticks(s, k)) <=> k >= compare

Gpios == [ direction : SUBSET Pins, output : SUBSET Pins ]

(* Setting or clearing one pin through the shared output register changes  *)
(* what that pin drives and nothing else, a number with no pin changes     *)
(* nothing, and what the processor reads does not depend on what it        *)
(* drives.                                                                 *)
PinsApart(g) ==
  \A p \in 0..NUM_GPIOS :
    LET on == gpio_set_pin(g, p)  off == gpio_clear_pin(g, p)
    IN  /\ Driven(on) = Driven(g) \cup (g.direction \cap {p})
        /\ Driven(off) = Driven(g) \ {p}
        /\ \A outside \in SUBSET Pins :
             /\ gpio_get_input(on, outside) = gpio_get_input(g, outside)
             /\ gpio_get_input(g, outside) \cap g.direction = {}

Addresses == {"zero", "a", "b"}

Icerrors ==
  [ prev_error_access : {"NONE", "READ", "WRITE"}, read_error_address : Addresses,
    write_error_address : Addresses, irq_reset : BOOLEAN ]

(* An erroneous access that is held until it is acknowledged is recorded   *)
(* with its type and address even when it arrives while the last one is    *)
(* being reset, and the driver reads that type and address back; the       *)
(* address of the other type stays; a reset with no access behind it ends  *)
(* the request.                                                            *)
ErrorsKept(e) ==
  /\ \A error \in [ type : {"READ", "WRITE"}, address : {"a", "b"} ] :
       LET e1 == IcerrorClock(e, FALSE, error)
           e2 == IcerrorClock(e1, FALSE, IF error_acknowledged(e, error) THEN NoError ELSE error)
           status == ReadStatus(e2)
       IN  /\ error_irq(e2)
           /\ icerror_get_access_type(status, status) = error.type
           /\ IF error.type = "READ"
              THEN /\ icerror_get_read_address(e2) = error.address
                   /\ icerror_get_write_address(e2) = icerror_get_write_address(e)
              ELSE /\ icerror_get_write_address(e2) = error.address
                   /\ icerror_get_read_address(e2) = icerror_get_read_address(e)
  /\ LET e1 == IcerrorClock(IcerrorClock(e, TRUE, NoError), FALSE, NoError)
     IN  ~error_irq(e1) /\ ReadStatus(e1) = {}

(* Every base address of platform.h reaches the device it is named after,  *)
(* every request number is the line of its device, and the divisor the     *)
(* programs compute fits the register and is within 3 percent of the rate. *)
BasesDecoded ==
  \A d \in DOMAIN PLATFORM_BASE :
    Bus!Peripheral(PLATFORM_BASE[d][1], PLATFORM_BASE[d][2])
      = CASE d = "ICERROR"  -> "INTERCON"
          [] d = "PAEE_ROM" -> "AEE_ROM"
          [] d = "PAEE_RAM" -> "AEE_RAM"
          [] OTHER          -> d

LinesNumbered ==
  \A lines \in SUBSET DOMAIN PLATFORM_IRQ :
    irq_array(lines) = { PLATFORM_IRQ[d] : d \in lines }

RateClose ==
  LET divisor == uart_baud2divisor(115200, PLATFORM_SYSCLK_FREQ)
      actual  == PLATFORM_SYSCLK_FREQ \div (16 * (divisor + 1))
  IN  divisor < 256 /\ actual \in (115200 - 3456)..(115200 + 3456)

PlatformDecoded == BasesDecoded /\ LinesNumbered /\ RateClose

Pages == {0, 1, 2, \hbfff, \hc000, \hc001, \hfffe, \hffff} \X (0..15)

(* Below the firmware, ffff0000 to ffff7fff, toplevel.vhd:206-220 selects  *)
(* nothing: these pages are left out (see the README).                     *)
Unselected == {\hffff} \X (0..7)

(* Every access elsewhere is claimed by one device or answered by the      *)
(* error unit, so that the processor never waits for an answer for ever    *)
(* (toplevel.vhd:188-222, pp_soc_intercon.vhd:29-31).                      *)
AccessesAnswered ==
  \A a \in Pages \ Unselected : Bus!Peripheral(a[1], a[2]) # "NONE"

-----------------------------------------------------------------------------
Machine(stack) ==
  [ registers |-> [ r \in 1..31 |-> IF r = 2 THEN stack ELSE 100 + r ],
    memory    |-> [ a \in 0..(stack + 8) |-> 200 + a ] ]

(* What a handler compiled by the C compiler may do: it changes any        *)
(* register but sp and any word below its frame.                           *)
Handled(machine, value) ==
  [ registers |-> [ r \in 1..31 |-> IF r = 2 THEN machine.registers[r] ELSE value ],
    memory    |-> [ a \in DOMAIN machine.memory |->
                      IF a < sp(machine.registers) THEN value ELSE machine.memory[a] ] ]

(* The code a trap interrupts finds every register as it was, and its own  *)
(* part of the stack, whatever the handler left in registers.              *)
HandlerKeepsRegisters(stack) ==
  \A value \in {0, 7} :
    LET before == Machine(stack)
        after  == RestoreRegisters(Handled(SaveRegisters(before), value))
    IN  /\ after.registers = before.registers
        /\ \A a \in stack..(stack + 8) : after.memory[a] = before.memory[a]
        /\ \A begin, end \in 0..4 : begin <= end =>
             \A a \in DOMAIN before.memory :
               ClearBss(before.memory, begin, end)[a]
                 = IF a \in begin..(end - 1) THEN 0 ELSE before.memory[a]

-----------------------------------------------------------------------------
Operations ==
  { Bubble, Add(4), Invalid(8) }
    \cup { StatusWrite(12, [ ie |-> b, ie1 |-> FALSE ]) : b \in BOOLEAN }

Edges == [ irq : BOOLEAN, branch_taken : BOOLEAN, op : Operations ]

Starts == { [NewTrap EXCEPT !.ie = b] : b \in BOOLEAN }

(* Nothing is under way that writes the status.                            *)
Undisturbed(t) ==
  t.memory.csr = "NONE" /\ ~Writes(t, "MSTATUS") /\ ~t.wb_exception.exception

(* An invalid instruction whose trap is taken leaves interrupts off, the   *)
(* old value kept for the return, and its cause to the handler, three      *)
(* edges later, whatever comes behind it. What has to stay away is a       *)
(* request that is taken, at this edge or the next, and a jump committed   *)
(* at the next edge: both flush writeback, and with it the context         *)
(* (pp_core.vhd:230, pp_writeback.vhd, pp_csr_unit.vhd:166-171).           *)
TrapsMaskInterrupts(t) ==
  t.execute.type = "INVALID" /\ Undisturbed(t) =>
    \A first, second, third \in Edges :
      ~(t.ie /\ (first.irq \/ second.irq)) /\ ~second.branch_taken =>
        LET after == TrapAfter(t, << first, second, third >>)
        IN  after.ie = FALSE /\ after.ie1 = t.ie /\ after.mcause = "INVALID_INSTR"

(* A request that is taken in front of an ordinary instruction starts the  *)
(* handler: three edges later interrupts are off, the old value is kept,   *)
(* the cause is the request, and mepc is where the program was, which      *)
(* start.S:98-99 hands to the handler and mret returns to. The request     *)
(* lasts until the handler ends it.                                        *)
RequestEntered(t) ==
  t.ie /\ t.execute.type = "ADD" /\ Undisturbed(t) =>
    LET request == [ irq |-> TRUE, branch_taken |-> FALSE, op |-> Bubble ]
        after   == TrapAfter(t, << request, request, request >>)
    IN  /\ after.ie = FALSE /\ after.ie1 /\ after.mcause = "IRQ"
        /\ after.mepc = t.execute.pc

=============================================================================
