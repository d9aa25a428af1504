----------------------------- MODULE Bootloader -----------------------------
(***************************************************************************)
(* The bootloader, src/software/bootloader/main.c: it greets, stores the   *)
(* image that comes in over the serial line, and jumps to it. The other    *)
(* end of the line sends the image as the README beside the bootloader     *)
(* says: once it has read the greeting, padded to the length expected.     *)
(***************************************************************************)
EXTENDS Serial

CONSTANTS
  Applications,   \* the programs that may be sent
  AppLength,      \* length of an image
  DotEvery,       \* bytes between two dots
  Pace            \* steps of the loop that a byte on the line lasts at least

ASSUME BootloaderAssumption == AppLength \in Nat \ {0} /\ DotEvery \in Nat \ {0}

(* A byte is ten bits of 115200 baud on the line, some 4300 cycles of the  *)
(* 50 MHz clock; the loop needs two steps for it, ReadByte and Dot, of a   *)
(* few instructions each.                                                  *)
ASSUME PaceAssumption == Pace \in Nat /\ Pace >= 2

VARIABLES
  boot,      \* where the bootloader is
  index,     \* i of its loop
  memory,    \* the memory from APP_START, the bytes stored so far
  sending,   \* the application whose image is sent
  sent,      \* how many of its bytes
  elapsed    \* steps of the bootloader since the last of them, up to Pace

bootVars == << boot, index, memory, sending, sent, elapsed >>

\* Byte i of an image, from 0.
Byte(application, i) == << application, i >>

Nothing == << "nothing", 0 >>

BootInit ==
  /\ boot = "welcome" /\ index = 0
  /\ memory = [ i \in 0..(AppLength - 1) |-> Nothing ]
  /\ sending \in Applications /\ sent = 0 /\ elapsed = 0

-----------------------------------------------------------------------------

Welcome ==
  /\ boot = "welcome" /\ boot' = "loop"
  /\ uart_tx_string
  /\ UNCHANGED << index, memory, sending, sent >>

(* Mutants: the byte stays in the queue; the queue is read without waiting *)
(* for a byte.                                                             *)
ReadByteAgain ==
  /\ boot = "loop" /\ index < AppLength /\ boot' = "dot"
  /\ ~uart_rx_fifo_empty
  /\ memory' = [memory EXCEPT ![index] = Head(rx)]
  /\ UNCHANGED << index, sending, sent, serialVars >>

ReadByteNow ==
  /\ boot = "loop" /\ index < AppLength /\ boot' = "dot"
  /\ memory' = [memory EXCEPT ![index] = IF rx = << >> THEN Nothing ELSE Head(rx)]
  /\ rx' = IF rx = << >> THEN rx ELSE Tail(rx)
  /\ UNCHANGED << index, sending, sent, tx >>

ReadByte ==
  /\ boot = "loop" /\ index < AppLength /\ boot' = "dot"
  /\ ~uart_rx_fifo_empty
  /\ memory' = [memory EXCEPT ![index] = Head(rx)]
  /\ rx' = Tail(rx)
  /\ UNCHANGED << index, sending, sent, tx >>

(* A dot is left out when there is no room for it.                         *)
Dot ==
  /\ boot = "dot" /\ boot' = "loop" /\ index' = index + 1
  /\ IF index % DotEvery = 0 /\ ~uart_tx_fifo_full
     THEN uart_tx_string ELSE UNCHANGED serialVars
  /\ UNCHANGED << memory, sending, sent >>

(* Mutant: one byte more is waited for.                                    *)
BootingLate ==
  /\ boot = "loop" /\ index = AppLength + 1 /\ boot' = "booted"
  /\ uart_tx_string
  /\ UNCHANGED << index, memory, sending, sent >>

Booting ==
  /\ boot = "loop" /\ index = AppLength /\ boot' = "booted"
  /\ uart_tx_string
  /\ UNCHANGED << index, memory, sending, sent >>

Boot ==
  /\ Welcome \/ ReadByte \/ Dot \/ Booting
  /\ elapsed' = IF elapsed < Pace THEN elapsed + 1 ELSE elapsed

-----------------------------------------------------------------------------
(* The other end. It does not ask whether the loop keeps up: it sends the  *)
(* bytes one after the other, and the receiver drops one that finds the    *)
(* queue full. What bounds it is the time a byte takes on the line, and    *)
(* that any time passes while the loop waits for a byte.                   *)

Waiting == boot = "loop" /\ index < AppLength /\ uart_rx_fifo_empty

SendByte ==
  /\ boot # "welcome" /\ sent < AppLength
  /\ sent = 0 => tx = 0
  /\ Waiting \/ elapsed >= Pace
  /\ Arrives(Byte(sending, sent)) /\ sent' = sent + 1 /\ elapsed' = 0
  /\ UNCHANGED << boot, index, memory, sending, tx >>

=============================================================================
