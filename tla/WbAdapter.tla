------------------------------ MODULE WbAdapter ------------------------------
(***************************************************************************)
(* The wishbone adapter, src/src/pp_wb_adapter.vhd, as a record of its     *)
(* registers and what one clock edge makes of it.  There is one for data   *)
(* and, without the instruction cache, one for instructions.  Transfers    *)
(* are whole words: the shifts by byte lane are left out.                  *)
(***************************************************************************)

(* What a bus master drives and what it sees.                              *)
NoTransfer == [ cyc |-> FALSE, stb |-> FALSE, we |-> FALSE, adr |-> 0, dat |-> 0 ]
NoAnswer   == [ ack |-> FALSE, dat |-> 0 ]

NewAdapter ==
  [ state |-> "IDLE", out |-> NoTransfer, mem_r_ack |-> FALSE, mem_data_out |-> 0 ]

(* Mutant: a write is acknowledged before the bus has answered.            *)
WriteAckEarly(a, answer) == a.state = "WRITE_WAIT_ACK"

WriteAck(a, answer) == a.state = "WRITE_WAIT_ACK" /\ answer.ack

AdapterIdle(a, request) ==
  LET begin == [ cyc |-> TRUE, stb |-> TRUE, we |-> request.write,
                 adr |-> request.adr,
                 dat |-> IF request.write THEN request.dat ELSE a.out.dat ]
      idle  == [ a EXCEPT !.mem_r_ack = FALSE ]
  IN  CASE request.write -> [ idle EXCEPT !.out = begin, !.state = "WRITE_WAIT_ACK" ]
        [] ~request.write /\ request.read
                         -> [ idle EXCEPT !.out = begin, !.state = "READ_WAIT_ACK" ]
        [] OTHER         -> idle

AdapterClock(a, request, answer) ==
  CASE a.state = "IDLE" -> AdapterIdle(a, request)
    [] a.state = "READ_WAIT_ACK" /\ answer.ack ->
         [ a EXCEPT !.mem_data_out = answer.dat, !.mem_r_ack = TRUE,
                    !.out.cyc = FALSE, !.out.stb = FALSE, !.state = "IDLE" ]
    [] a.state = "WRITE_WAIT_ACK" /\ answer.ack ->
         [ a EXCEPT !.out.cyc = FALSE, !.out.stb = FALSE, !.out.we = FALSE,
                    !.state = "IDLE" ]
    [] OTHER -> a
==============================================================================
