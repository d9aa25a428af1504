----------------------------- MODULE Benchmark -----------------------------
(***************************************************************************)
(* The benchmark of src/software/sha256/main.c with the devices it uses:   *)
(* main, which counts hashes, and exception_handler, which the timers and  *)
(* the interconnect error unit interrupt it with. A step is one access to  *)
(* state that the two, or a device, share. mcause, mie and the status bits *)
(* are those of pp_execute.vhd and pp_csr_unit.vhd. Of the trap itself     *)
(* this is what the program is written for: the handler may start at a     *)
(* request, and returns to where main was. On this core it does neither    *)
(* (module Trap), so that it may is all that is said: no handler need ever *)
(* start, and only what holds wherever one does is claimed of the program. *)
(* The values of handler locals are forgotten when they are dead.          *)
(***************************************************************************)
EXTENDS Serial, Timer, Gpio, Icerror, Csr, Platform

CONSTANTS
  Compare,       \* Compare[t]: ticks until timer t expires
  MaxHashes,     \* hashes between two reports
  Inputs,        \* what buttons (bits 0..3) and switches (bits 4..7) show
  Strays,        \* accesses that no device claims: [type, address]
  MaxStrays

ASSUME BenchmarkAssumption ==
  /\ Compare \in [ 0..1 -> 1..(Counts - 1) ]
  /\ MaxHashes \in Nat \ {0} /\ MaxStrays \in Nat
  /\ \A error \in Strays :
       /\ error.type \in { "READ", "WRITE" }
       /\ error = [ type |-> error.type, address |-> error.address ]

VARIABLES
  pc, step,      \* where main is, and the call of its setup
  handler,       \* where exception_handler is, "none" outside
  status,        \* [ie, ie1]
  mie, mcause,
  timer,         \* timer0 and timer1
  gpio, inputs,
  icerror,
  hashes_per_second, reset_counter, led_status,   \* of the program
  count,         \* the register of ++hashes_per_second
  number, switch_mask, button_mask, access,       \* locals of the handler
  since,         \* hashes counted since the last report
  ran,           \* timers for which a hash was made since their last tick
  last_error, strays, said   \* the last stray access, and the report of it

cpuVars == << pc, step, handler, status, mie, mcause >>
programVars == << hashes_per_second, reset_counter, led_status >>
localVars == << number, switch_mask, button_mask, access >>
deviceVars == << timer, gpio, icerror >>
errorVars == << last_error, strays, said >>

benchmarkVars ==
  << cpuVars, programVars, count, localVars, deviceVars, inputs, since, ran, errorVars >>

Leds == 8..11

BenchmarkInit ==
  /\ pc = "setup" /\ step = 1 /\ handler = "none"
  /\ status = [ ie |-> FALSE, ie1 |-> FALSE ] /\ mie = {} /\ mcause = {}
  /\ timer = [ t \in 0..1 |-> NewTimer ]
  /\ gpio = NewGpio /\ inputs \in Inputs
  /\ icerror = NewIcerror
  /\ hashes_per_second = 0 /\ reset_counter = TRUE /\ led_status = {0}
  /\ count = 0 /\ number = 0 /\ switch_mask = {} /\ button_mask = {} /\ access = "NONE"
  /\ since = 0 /\ ran = {}
  /\ last_error = NoError /\ strays = 0 /\ said = NoError

-----------------------------------------------------------------------------
(* Requests and interrupts.                                                *)

Lines ==
  (IF TimerIrq(timer[0]) THEN {"TIMER0"} ELSE {})
    \cup (IF TimerIrq(timer[1]) THEN {"TIMER1"} ELSE {})
    \cup (IF error_irq(icerror) THEN {"BUS_ERROR"} ELSE {})

Pending == status.ie /\ Asserted(irq_array(Lines), mie) # {}

(* A handler that starts, between two accesses of main. The call of        *)
(* exception_handler and the code around it (start.S) are part of it.      *)
Interrupt ==
  /\ handler = "none" /\ Pending
  /\ handler' = "entry"
  /\ status' = [ ie |-> FALSE, ie1 |-> status.ie ]
  /\ mcause' = McauseWord(IrqCause(irq_asserted_num(irq_array(Lines), mie)))
  /\ UNCHANGED << pc, step, mie, programVars, count, localVars, deviceVars, inputs,
                  since, ran, errorVars, serialVars >>

(* mret, as start.S means it: the core would go where mepc says, which no  *)
(* trap has stored (module Trap).                                          *)
Return ==
  /\ handler = "return" /\ handler' = "none"
  /\ status' = [ ie |-> status.ie1, ie1 |-> status.ie ]
  /\ number' = 0 /\ switch_mask' = {} /\ button_mask' = {} /\ mcause' = {}
  /\ UNCHANGED << pc, step, mie, programVars, count, access, deviceVars, inputs,
                  since, ran, errorVars, serialVars >>

-----------------------------------------------------------------------------
(* main: the setup, call by call.                                          *)

Sets(device) ==   \* nothing but this device and the next call changes
  /\ pc = "setup" /\ handler = "none" /\ step' = step + 1
  /\ UNCHANGED << pc, handler, status, mcause, programVars, count, localVars, inputs,
                  since, ran, errorVars >>
  /\ device # "gpio" => UNCHANGED gpio
  /\ device # "uart" => UNCHANGED serialVars
  /\ device # "timer" => UNCHANGED timer
  /\ device # "icerror" => UNCHANGED icerror
  /\ device # "mie" => UNCHANGED mie

ConfigureGpio ==
  /\ Sets("gpio")
  /\ \/ step = 1 /\ gpio' = gpio_set_direction(gpio, Leds)
     \/ step = 2 /\ gpio' = gpio_set_output(gpio, {8})

(* The divisor is set first; see Platform for its value.                   *)
ConfigureUart == Sets("uart") /\ step = 3 /\ uart_tx_string

ConfigureTimer ==
  /\ Sets("timer")
  /\ \E t \in 0..1 :
       \/ step = 4 + 3 * t /\ timer' = [timer EXCEPT ![t] = timer_reset(@)]
       \/ step = 5 + 3 * t /\ timer' = [timer EXCEPT ![t] = timer_set_compare(@, Compare[t])]
       \/ step = 6 + 3 * t /\ timer' = [timer EXCEPT ![t] = timer_start(@)]

ConfigureIcerror ==
  /\ Sets("icerror") /\ step = 10
  /\ icerror' = IcerrorClock(IcerrorClock(icerror, TRUE, NoError), FALSE, NoError)

Used == << PLATFORM_IRQ.TIMER0, PLATFORM_IRQ.TIMER1, PLATFORM_IRQ.BUS_ERROR >>

ConfigureIrq ==
  /\ Sets("mie") /\ step \in 11..13
  /\ mie' = potato_enable_irq(mie, Used[step - 10])

ConfigureInterrupts ==
  /\ pc = "setup" /\ handler = "none" /\ step = 14
  /\ status' = potato_enable_interrupts(status)
  /\ pc' = "hash"
  /\ UNCHANGED << step, handler, mie, mcause, programVars, count, localVars, deviceVars,
                  inputs, since, ran, errorVars, serialVars >>

Setup ==
  \/ ConfigureGpio \/ ConfigureUart \/ ConfigureTimer \/ ConfigureIcerror
  \/ ConfigureIrq \/ ConfigureInterrupts

-----------------------------------------------------------------------------
(* main: the loop.                                                         *)

MainStep(from, to) ==
  /\ pc = from /\ pc' = to /\ handler = "none"
  /\ UNCHANGED << step, handler, mie, mcause, led_status, localVars, deviceVars, inputs,
                  errorVars, serialVars >>

(* A hash is thousands of instructions; none ends while a request is       *)
(* pending.                                                                *)
Hash ==
  /\ MainStep("hash", "disable")
  /\ ~Pending /\ since < MaxHashes
  /\ ran' = {0, 1}
  /\ UNCHANGED << status, hashes_per_second, reset_counter, count, since >>

(* Mutant: interrupts stay on while the counter is changed.                *)
DisableNot ==
  /\ MainStep("disable", "test")
  /\ UNCHANGED << status, hashes_per_second, reset_counter, count, since, ran >>

Disable ==
  /\ MainStep("disable", "test")
  /\ status' = potato_disable_interrupts(status)
  /\ UNCHANGED << hashes_per_second, reset_counter, count, since, ran >>

TestReset ==
  /\ MainStep("test", IF reset_counter THEN "one" ELSE "load")
  /\ UNCHANGED << status, hashes_per_second, reset_counter, count, since, ran >>

(* Mutant: a new period starts from zero.                                  *)
StoreOneZero ==
  /\ MainStep("one", "unflag")
  /\ hashes_per_second' = 0
  /\ UNCHANGED << status, reset_counter, count, since, ran >>

StoreOne ==
  /\ MainStep("one", "unflag")
  /\ hashes_per_second' = 1
  /\ UNCHANGED << status, reset_counter, count, since, ran >>

ClearReset ==
  /\ MainStep("unflag", "enable")
  /\ reset_counter' = FALSE
  /\ UNCHANGED << status, hashes_per_second, count, since, ran >>

LoadCount ==
  /\ MainStep("load", "store")
  /\ count' = hashes_per_second
  /\ UNCHANGED << status, hashes_per_second, reset_counter, since, ran >>

StoreCount ==
  /\ MainStep("store", "enable")
  /\ hashes_per_second' = count + 1 /\ count' = 0
  /\ UNCHANGED << status, reset_counter, since, ran >>

Enable ==
  /\ MainStep("enable", "hash")
  /\ status' = potato_enable_interrupts(status)
  /\ since' = since + 1
  /\ UNCHANGED << hashes_per_second, reset_counter, count, ran >>

Loop ==
  \/ Hash \/ Disable \/ TestReset \/ StoreOne \/ ClearReset \/ LoadCount \/ StoreCount
  \/ Enable

-----------------------------------------------------------------------------
(* exception_handler                                                       *)

HandlerStep(from, to) ==
  /\ handler = from /\ handler' = to
  /\ UNCHANGED << pc, step, mie, mcause, hashes_per_second, count, inputs, ran,
                  last_error, strays >>

(* A trap that is no interrupt returns at once.                            *)
Branch ==
  CASE ~IsIrq(mcause) -> "return"
    [] IsIrq(mcause) /\ IrqOf(mcause) = PLATFORM_IRQ.TIMER0 -> "count"
    [] IsIrq(mcause) /\ IrqOf(mcause) = PLATFORM_IRQ.TIMER1 -> "shift"
    [] IsIrq(mcause) /\ IrqOf(mcause) = PLATFORM_IRQ.BUS_ERROR -> "say"
    [] OTHER -> "default"

(* The default branch disables the request and returns.                    *)
Dispatch ==
  /\ handler = "entry" /\ handler' = IF Branch = "default" THEN "return" ELSE Branch
  /\ mie' = IF Branch = "default" THEN potato_disable_irq(mie, IrqOf(mcause)) ELSE mie
  /\ UNCHANGED << pc, step, status, mcause, programVars, count, localVars, deviceVars, inputs,
                  since, ran, errorVars, serialVars >>

(* PLATFORM_IRQ_TIMER0                                                     *)

ReadCount ==
  /\ HandlerStep("count", "number")
  /\ number' = hashes_per_second
  /\ UNCHANGED << status, reset_counter, led_status, switch_mask, button_mask, access,
                  deviceVars, since, said, serialVars >>

PrintNumber ==
  /\ HandlerStep("number", "unit")
  /\ uart_tx_string /\ since' = 0
  /\ UNCHANGED << status, reset_counter, led_status, localVars, deviceVars, said >>

PrintUnit ==
  /\ HandlerStep("unit", "flag")
  /\ uart_tx_string
  /\ UNCHANGED << status, reset_counter, led_status, localVars, deviceVars, since, said >>

(* Mutant: the counter goes on from where it is.                           *)
SetResetNot ==
  /\ HandlerStep("flag", "clear0")
  /\ UNCHANGED << status, reset_counter, led_status, localVars, deviceVars, since, said,
                  serialVars >>

SetReset ==
  /\ HandlerStep("flag", "clear0")
  /\ reset_counter' = TRUE
  /\ UNCHANGED << status, led_status, localVars, deviceVars, since, said, serialVars >>

(* timer_clear reads the control register and writes it back; nobody else  *)
(* writes it.                                                              *)
Clears(t) ==
  /\ timer' = [timer EXCEPT ![t] = timer_clear(@, ReadControl(@))]
  /\ UNCHANGED << status, reset_counter, led_status, localVars, gpio, icerror, since, said,
                  serialVars >>

ClearTimer0 == HandlerStep("clear0", "return") /\ Clears(0)

(* PLATFORM_IRQ_TIMER1                                                     *)

(* Mutant: the light goes out at the end.                                  *)
ShiftedOut == { b - 1 : b \in led_status \ {0} }

\* uint8_t, shifted right; 8 when the low four bits are gone.
Shifted ==
  LET s == { b - 1 : b \in led_status \ {0} }
  IN  IF s \cap (0..3) = {} THEN {3} ELSE s

ShiftLed ==
  /\ HandlerStep("shift", "switches")
  /\ led_status' = Shifted
  /\ UNCHANGED << status, reset_counter, localVars, deviceVars, since, said, serialVars >>

ReadSwitches ==
  /\ HandlerStep("switches", "buttons")
  /\ switch_mask' = { b - 4 : b \in gpio_get_input(gpio, inputs) \cap (4..7) }
  /\ UNCHANGED << status, reset_counter, led_status, number, button_mask, access,
                  deviceVars, since, said, serialVars >>

ReadButtons ==
  /\ HandlerStep("buttons", "output")
  /\ button_mask' = gpio_get_input(gpio, inputs) \cap (0..3)
  /\ UNCHANGED << status, reset_counter, led_status, number, switch_mask, access,
                  deviceVars, since, said, serialVars >>

SetLeds ==
  /\ HandlerStep("output", "clear1")
  /\ gpio' = gpio_set_output(gpio, { b + 8 : b \in (led_status \cap switch_mask) \cup button_mask })
  /\ UNCHANGED << status, reset_counter, led_status, localVars, timer, icerror, since, said,
                  serialVars >>

(* Mutant: the other timer is cleared.                                     *)
ClearTimer1Other == HandlerStep("clear1", "return") /\ Clears(0)

ClearTimer1 == HandlerStep("clear1", "return") /\ Clears(1)

(* PLATFORM_IRQ_BUS_ERROR. The two reads of the status register see the    *)
(* same: only the processor makes accesses.                                *)

PrintError ==
  /\ HandlerStep("say", "status")
  /\ uart_tx_string
  /\ UNCHANGED << status, reset_counter, led_status, localVars, deviceVars, since, said >>

GetAccess ==
  /\ HandlerStep("status", "type")
  /\ access' = icerror_get_access_type(ReadStatus(icerror), ReadStatus(icerror))
  /\ UNCHANGED << status, reset_counter, led_status, number, switch_mask, button_mask,
                  deviceVars, since, said, serialVars >>

(* Mutant: the address of the last read is printed for both.               *)
PrintAccessRead ==
  /\ HandlerStep("type", "off")
  /\ uart_tx_string
  /\ said' = [ type |-> access, address |-> icerror_get_read_address(icerror) ]
  /\ UNCHANGED << status, reset_counter, led_status, localVars, deviceVars, since >>

\* Type and address; nothing of an ICERROR_ACCESS_NONE.
PrintAccess ==
  /\ HandlerStep("type", "off")
  /\ uart_tx_string
  /\ said' = CASE access = "READ"  -> [ type |-> "READ", address |-> icerror_get_read_address(icerror) ]
               [] access = "WRITE" -> [ type |-> "WRITE", address |-> icerror_get_write_address(icerror) ]
               [] OTHER            -> NoError
  /\ UNCHANGED << status, reset_counter, led_status, localVars, deviceVars, since >>

StopInterrupts ==
  /\ HandlerStep("off", "wfi")
  /\ status' = potato_disable_interrupts(status)
  /\ UNCHANGED << reset_counter, led_status, localVars, deviceVars, since, said, serialVars >>

(* while(1) potato_wfi()                                                   *)
WaitForever == handler = "wfi" /\ UNCHANGED << benchmarkVars, serialVars >>

Handler ==
  \/ Dispatch \/ ReadCount \/ PrintNumber \/ PrintUnit \/ SetReset \/ ClearTimer0
  \/ ShiftLed \/ ReadSwitches \/ ReadButtons \/ SetLeds \/ ClearTimer1
  \/ PrintError \/ GetAccess \/ PrintAccess \/ StopInterrupts \/ WaitForever
  \/ Return

-----------------------------------------------------------------------------
(* Time and the outside. A timer does not tick twice without a hash in     *)
(* between, unless main has made all the hashes of this period: a tick     *)
(* stands for millions of clock cycles.                                    *)
Tick(t) ==
  /\ timer[t].run /\ ~TimerIrq(timer[t])
  /\ t \in ran \/ since = MaxHashes
  /\ timer' = [timer EXCEPT ![t] = TimerTick(@)]
  /\ ran' = ran \ {t}
  /\ UNCHANGED << cpuVars, programVars, count, localVars, gpio, icerror, inputs, since,
                  errorVars, serialVars >>

Press ==
  /\ inputs' \in Inputs \ {inputs}
  /\ UNCHANGED << cpuVars, programVars, count, localVars, deviceVars, since, ran, errorVars,
                  serialVars >>

(* main reaches for an address that no device claims, where the code it    *)
(* runs should be hashing.                                                 *)
Stray ==
  /\ pc = "hash" /\ handler = "none" /\ strays < MaxStrays
  /\ \E error \in Strays :
       /\ icerror' = IcerrorClock(icerror, FALSE, error)
       /\ last_error' = error
  /\ strays' = strays + 1
  /\ UNCHANGED << cpuVars, programVars, count, localVars, timer, gpio, inputs, since, ran,
                  said, serialVars >>

=============================================================================
