------------------------------ MODULE WbArbiter ------------------------------
(***************************************************************************)
(* The bus arbiter of the processor, src/src/pp_wb_arbiter.vhd, and the    *)
(* address decoder with the bus multiplexer of the board design,           *)
(* src/example/toplevel.vhd: who owns the bus, and who answers.            *)
(***************************************************************************)
EXTENDS Integers, WbAdapter

(* Mutant: both masters see the answer.                                    *)
ToMasterBoth(state, busy, answer) == answer

ToMaster(state, busy, answer) == IF state = busy THEN answer ELSE NoAnswer

OutputMux(state, m1, m2) ==
  CASE state = "M1_BUSY" -> m1
    [] state = "M2_BUSY" -> m2
    [] OTHER             -> NoTransfer

HoldsBus(state, m1, m2) ==
  \/ state = "M1_BUSY" /\ m1.cyc
  \/ state = "M2_BUSY" /\ m2.cyc

ArbiterClock(state, m1, m2) ==
  CASE HoldsBus(state, m1, m2)   -> state
    [] state = "IDLE" /\ m1.cyc  -> "M1_BUSY"
    [] state = "IDLE" /\ ~m1.cyc /\ m2.cyc -> "M2_BUSY"
    [] OTHER                     -> "IDLE"

-------------------------------------------------------------------------------
(* An address is a pair of its upper half word and the four bits below.    *)
Peripheral(high, page) ==
  CASE high \in {0, 1}  -> "MAIN_MEMORY"
    [] high = 49152     -> IF page \in 0..5
                           THEN << "TIMER0", "TIMER1", "UART0", "UART1",
                                   "GPIO", "INTERCON" >>[page + 1]
                           ELSE "ERROR"
    [] high = 65535     -> CASE page \in 8..11  -> "AEE_ROM"
                             [] page \in 12..15 -> "AEE_RAM"
                             [] OTHER           -> "NONE"
    [] OTHER            -> "ERROR"

NewDecoder == [ peripheral |-> "NONE", busy |-> FALSE ]

(* A transfer keeps its peripheral until the cycle ends.                   *)
DecoderClock(d, transfer, high, page) ==
  CASE ~d.busy /\ transfer.cyc ->
         [ peripheral |-> Peripheral(high, page), busy |-> TRUE ]
    [] ~d.busy /\ ~transfer.cyc -> [ d EXCEPT !.peripheral = "NONE" ]
    [] d.busy /\ ~transfer.cyc  -> NewDecoder
    [] OTHER                    -> d

Selected(d, peripheral, transfer) ==
  IF d.peripheral = peripheral
  THEN transfer ELSE [ transfer EXCEPT !.cyc = FALSE, !.stb = FALSE ]
==============================================================================
