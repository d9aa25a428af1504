------------------------------- MODULE Timer -------------------------------
(***************************************************************************)
(* The timer, src/soc/pp_soc_timer.vhd, and its driver, src/libsoc/        *)
(* timer.h. A timer is the record of its registers; an operator gives the  *)
(* record after a clock tick or after one access of the bus. A tick and a  *)
(* write at the same edge are the tick, then the write: the assignments of *)
(* the write come second in the process.                                   *)
(***************************************************************************)
EXTENDS Integers, FiniteSets

CONSTANT Counts   \* how many values a counter has, 2 ^ 32 in the code

ASSUME CountsAssumption == Counts \in Nat \ {0, 1}

Timers == [ run : BOOLEAN, counter : 0..(Counts - 1), compare : 0..(Counts - 1) ]

NewTimer == [ run |-> FALSE, counter |-> 0, compare |-> Counts - 1 ]

TimerIrq(t) == t.counter = t.compare

(* Mutant: the counter runs on past the compare value.                     *)
TimerTickOn(t) == IF t.run THEN [t EXCEPT !.counter = (@ + 1) % Counts] ELSE t

TimerTick(t) ==
  IF t.run /\ t.counter # t.compare
  THEN [t EXCEPT !.counter = (@ + 1) % Counts] ELSE t

CONTROL_RUN   == 0
CONTROL_CLEAR == 1

(* Writes of the three registers; a control word is the set of its bits.   *)
WriteControl(t, bits) ==
  [t EXCEPT !.run = CONTROL_RUN \in bits,
            !.counter = IF CONTROL_CLEAR \in bits THEN 0 ELSE @]

WriteCompare(t, value) == [t EXCEPT !.compare = value]

WriteCounter(t, value) == [t EXCEPT !.counter = value]

ReadControl(t) == IF t.run THEN {CONTROL_RUN} ELSE {}

ReadCounter(t) == t.counter

-----------------------------------------------------------------------------
(* libsoc/timer.h. timer_clear reads the control register, then writes it. *)

timer_reset(t) == WriteControl(t, {CONTROL_CLEAR})

timer_start(t) == WriteControl(t, {CONTROL_RUN, CONTROL_CLEAR})

timer_stop(t) == WriteControl(t, {})

timer_clear(t, control) == WriteControl(t, control \cup {CONTROL_CLEAR})

timer_set_compare(t, compare) == WriteCompare(t, compare)

timer_get_count(t) == ReadCounter(t)

timer_set_count(t, counter) == WriteCounter(t, counter)

=============================================================================
