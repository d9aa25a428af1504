------------------------------ MODULE SocMemory ------------------------------
(***************************************************************************)
(* The slaves of the bus that the memory system is checked with: the       *)
(* on-chip memory, src/soc/pp_soc_memory.vhd, and the error port of        *)
(* src/soc/pp_soc_intercon.vhd, which answers transfers to nowhere.        *)
(***************************************************************************)
EXTENDS Integers

NewMemory(contents) ==
  [ state |-> "IDLE", read_ack |-> FALSE, dat_out |-> 0, memory |-> contents ]

MemoryAnswer(m, transfer) ==
  [ ack |-> m.read_ack /\ transfer.stb, dat |-> m.dat_out ]

MemoryClock(m, transfer) ==
  CASE ~transfer.cyc -> [ m EXCEPT !.state = "IDLE", !.read_ack = FALSE ]
    [] transfer.cyc /\ m.state = "IDLE" /\ transfer.stb ->
         LET acked == [ m EXCEPT !.state = "ACK", !.read_ack = TRUE ]
         IN  IF transfer.we
             THEN [ acked EXCEPT !.memory[transfer.adr] = transfer.dat ]
             ELSE [ acked EXCEPT !.dat_out = m.memory[transfer.adr] ]
    [] transfer.cyc /\ m.state = "ACK" /\ ~transfer.stb ->
         [ m EXCEPT !.state = "IDLE", !.read_ack = FALSE ]
    [] OTHER -> m

-------------------------------------------------------------------------------
(* The error port: the acknowledge falls at the next edge, for its test    *)
(* looks at the strobe of the register interface.                          *)
ErrorAnswer(error_ack, transfer) ==
  [ ack |-> error_ack /\ transfer.stb, dat |-> 0 ]

ErrorClock(error_ack, transfer) == transfer.cyc /\ transfer.stb /\ ~error_ack
==============================================================================
