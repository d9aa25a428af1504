------------------------------ MODULE Icerror ------------------------------
(***************************************************************************)
(* The interconnect error unit, src/soc/pp_soc_intercon.vhd, and its       *)
(* driver, src/libsoc/icerror.h. It answers the accesses no peripheral     *)
(* claims and keeps the address of the last read and of the last write of  *)
(* that kind. The byte selects and the data are left out: no driver reads  *)
(* them.                                                                   *)
(***************************************************************************)
EXTENDS Integers

NewIcerror ==
  [ prev_error_access |-> "NONE", read_error_address |-> "zero",
    write_error_address |-> "zero", irq_reset |-> FALSE ]

error_irq(e) == e.prev_error_access # "NONE"

(* One clock edge. Either port may carry a request: control says that bit  *)
(* 0 of the control register is written, error is an access to answer (a   *)
(* record) or NoError. An access that meets irq_reset is not acknowledged  *)
(* and waits for the next edge.                                            *)
NoError == [ type |-> "NONE", address |-> "zero" ]

Recorded(e, error) ==
  CASE error.type = "READ"  -> [e EXCEPT !.prev_error_access = "READ",
                                         !.read_error_address = error.address]
    [] error.type = "WRITE" -> [e EXCEPT !.prev_error_access = "WRITE",
                                         !.write_error_address = error.address]
    [] OTHER -> e

IcerrorClock(e, control, error) ==
  LET e1 == IF e.irq_reset THEN [e EXCEPT !.prev_error_access = "NONE"]
            ELSE Recorded(e, error)
  IN  [e1 EXCEPT !.irq_reset = control]

(* Mutant: an access is acknowledged during a reset too.                   *)
error_acknowledgedAlways(e, error) == error.type # "NONE"

error_acknowledged(e, error) == error.type # "NONE" /\ ~e.irq_reset

(* The status register: bit 0 an error, bit 1 a read, bit 2 a write.       *)
STATUS_IRQ_STATUS  == 0
STATUS_READ_ERROR  == 1
STATUS_WRITE_ERROR == 2

ReadStatus(e) ==
  CASE e.prev_error_access = "READ"  -> {STATUS_IRQ_STATUS, STATUS_READ_ERROR}
    [] e.prev_error_access = "WRITE" -> {STATUS_IRQ_STATUS, STATUS_WRITE_ERROR}
    [] e.prev_error_access = "NONE"  -> {}

-----------------------------------------------------------------------------
(* libsoc/icerror.h. icerror_get_access_type reads the status once or      *)
(* twice; the two reads are its arguments.                                 *)

icerror_get_access_type(first, second) ==
  CASE STATUS_READ_ERROR \in first -> "READ"
    [] STATUS_READ_ERROR \notin first /\ STATUS_WRITE_ERROR \in second -> "WRITE"
    [] OTHER -> "NONE"

icerror_get_read_address(e) == e.read_error_address

icerror_get_write_address(e) == e.write_error_address

=============================================================================
