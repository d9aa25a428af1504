------------------------- MODULE SoftwareProperties -------------------------
(***************************************************************************)
(* What the programs on the board promise together with the devices.       *)
(***************************************************************************)
EXTENDS Software

-----------------------------------------------------------------------------
(* The count of hashes, which main and the handler both write.             *)

Updating == { "test", "one", "unflag", "load", "store", "enable" }

(* The handler never runs while main is in the middle of its update of     *)
(* hashes_per_second and reset_counter (main.c:168-175).                   *)
HandlerExcluded == handler # "none" => pc \notin Updating

(* The handler keeps out of main's update, and whenever main hashes and no *)
(* handler runs, the count is that of the hashes since the last report, or *)
(* nothing has been hashed since and the next update starts from one: no   *)
(* update of main or of the handler is lost (main.c:45-48 and 168-175).    *)
CountExact ==
  /\ HandlerExcluded
  /\ pc \in { "hash", "disable" } /\ handler = "none" =>
       IF reset_counter THEN since = 0 ELSE hashes_per_second = since

(* A number that is printed is the number of hashes since the number       *)
(* before it, unless there were none: then the old number is repeated.     *)
ReportsTrue ==
  [][ handler = "number" /\ handler' = "unit" => since \in { 0, number } ]_softwareVars

-----------------------------------------------------------------------------
(* The devices.                                                            *)

(* After the setup a timer is cleared only when it has expired: no period  *)
(* of a timer is cut short by the other one's branch of the handler.       *)
ClearsExpired ==
  [][ \A t \in 0..1 :
        pc # "setup" /\ timer[t].counter # 0 /\ timer'[t].counter = 0 => TimerIrq(timer[t]) ]_softwareVars

(* What the handler reports of a bus error before it stops is the type and *)
(* the address of the last access that no device claimed.                  *)
ErrorReported == handler = "wfi" => said = last_error

(* When the light moves on with every switch on and no button held, one    *)
(* LED is lit, neither none nor two (main.c:55-66).                        *)
OneLedLit ==
  [][ handler = "output" /\ handler' = "clear1" /\ switch_mask = 0..3 /\ button_mask = {} =>
        \E b \in 0..3 : gpio'.output = {b + 8} ]_softwareVars

-----------------------------------------------------------------------------
(* The image and the programs.                                             *)

(* The loop of the bootloader keeps up with the line, which does not wait  *)
(* for it: no byte finds the receive queue full, be it of one place only   *)
(* (bootloader/main.c:31-38, pp_soc_uart.vhd:165-167).                     *)
BytesKept ==
  [][ sent' = sent + 1 => rx' = Append(rx, Byte(sending, sent)) ]_softwareVars

(* The bootloader jumps into the image that was sent, every byte in place. *)
ImageLoaded == boot = "booted" => Loaded(sending)

(* The program that was sent comes to its work: hello to its end, and the  *)
(* benchmark through its setup to its loop.                                *)
ProgramsRun ==
  /\ sending = "hello" => <>(hello = "wfi")
  /\ sending = "sha256" => <>(pc = "hash")

-----------------------------------------------------------------------------
(* Why the count, the exclusion and the image are right: an invariant that *)
(* every step preserves, in four parts (main.c:33-177, the bootloader's    *)
(* main.c:24-44).                                                          *)

(* Interrupts are off wherever main must not be interrupted, and in the    *)
(* handler, which only ever runs between two updates.                      *)
ExclusionInv ==
  /\ pc \in { "setup", "hash", "disable" } \cup Updating
  /\ status \in [ ie : BOOLEAN, ie1 : BOOLEAN ]
  /\ pc \in { "setup" } \cup Updating => ~status.ie /\ handler = "none"
  /\ handler # "none" => ~status.ie

Counted == IF reset_counter THEN since = 0 ELSE hashes_per_second = since

(* What the counter is at each place of main and of the handler. While the *)
(* number is printed the period is already the next one, of no hashes yet. *)
CounterInv ==
  /\ since \in Nat /\ hashes_per_second \in Nat /\ reset_counter \in BOOLEAN
  /\ pc \in { "setup", "hash", "disable", "test" } /\ handler \notin { "unit", "flag" } => Counted
  /\ handler \in { "unit", "flag" } => since = 0
  /\ handler = "number" => since \in { 0, number }
  /\ pc = "one" => reset_counter /\ since = 0
  /\ pc = "unflag" => hashes_per_second = 1 /\ since = 0
  /\ pc = "load" => ~reset_counter /\ hashes_per_second = since
  /\ pc = "store" => ~reset_counter /\ count = since
  /\ pc = "enable" => ~reset_counter /\ hashes_per_second = since + 1

Cells == { Nothing } \cup { Byte(a, i) : a \in Applications, i \in 0..(AppLength - 1) }

\* Bytes the bootloader has taken from the queue.
Received == IF boot = "dot" THEN index + 1 ELSE index

(* The image is cut in three: in memory, in the receive queue, not yet     *)
(* sent.                                                                   *)
ImageInv ==
  /\ boot \in { "welcome", "loop", "dot", "booted" }
  /\ boot = "booted" => index = AppLength
  /\ sending \in Applications /\ index \in Nat /\ sent \in 0..AppLength
  /\ rx \in Seq(Cells) /\ sent = Received + Len(rx)
  /\ memory \in [ 0..(AppLength - 1) -> Cells ]
  /\ \A k \in 1..Len(rx) : rx[k] = Byte(sending, Received + k - 1)
  /\ \A i \in 0..(Received - 1) : memory[i] = Byte(sending, i)

\* Steps the loop has to make for the bytes in the queue and the one in hand.
Work == 2 * Len(rx) + (IF boot = "dot" THEN 1 ELSE 0)

(* The bootloader is never behind by more than the byte that came last.    *)
PaceInv ==
  /\ elapsed \in 0..Pace
  /\ boot = "welcome" => rx = << >>
  /\ Work > 0 => Work + elapsed <= 2

SoftwareInv == ExclusionInv /\ CounterInv /\ ImageInv /\ PaceInv

-----------------------------------------------------------------------------
(* Why a timer is cleared only when it has expired, and what is said of a  *)
(* bus error is true: a request stays until the handler's own branch for   *)
(* it is over (main.c:33-109).                                             *)

(* A timer that has not run has not counted, and none counts past the      *)
(* value it is compared with.                                              *)
Paced(t) == t \in Timers /\ t.counter <= t.compare /\ (~t.run => t.counter = 0)

(* A timer runs only from the call of the setup that starts it.            *)
TimersInv ==
  /\ step \in Nat
  /\ timer \in [ 0..1 -> Timers ]
  /\ \A t \in 0..1 : Paced(timer[t]) /\ (timer[t].run => step > 6 + 3 * t)

Addresses == { NoError.address } \cup { error.address : error \in Strays }

Icerrors == [ prev_error_access   : { "NONE", "READ", "WRITE" },
              read_error_address  : Addresses,
              write_error_address : Addresses,
              irq_reset           : BOOLEAN ]

(* The unit holds the last access that no device claimed.                  *)
ErrorInv ==
  /\ last_error \in Strays \cup { NoError }
  /\ pc = "setup" => last_error = NoError
  /\ icerror \in Icerrors /\ ~icerror.irq_reset
  /\ icerror.prev_error_access = last_error.type
  /\ last_error.type = "READ" => icerror.read_error_address = last_error.address
  /\ last_error.type = "WRITE" => icerror.write_error_address = last_error.address
  /\ handler = "type" => access = last_error.type
  /\ handler \in { "off", "wfi" } => said = last_error

CountBranch == { "count", "number", "unit", "flag", "clear0" }

LedBranch == { "shift", "switches", "buttons", "output", "clear1" }

ErrorBranch == { "say", "status", "type", "off", "wfi" }

(* The handler serves a request that is still there.                       *)
RequestInv ==
  /\ handler = "entry" => \E d \in Lines : mcause = McauseWord(IrqCause(IRQ_INDEX[d]))
  /\ handler \in CountBranch => TimerIrq(timer[0])
  /\ handler \in LedBranch => TimerIrq(timer[1])
  /\ handler \in ErrorBranch => error_irq(icerror)

ServiceInv == TimersInv /\ ErrorInv /\ RequestInv

=============================================================================
