----------------------------- MODULE DeviceProofs -----------------------------
(***************************************************************************)
(* Proofs about the devices with their drivers, the way into a trap, the   *)
(* code around a handler, the headers and the padding: for every width of  *)
(* the timer's counter, number of pins, stack, word and block of bytes.    *)
(***************************************************************************)
EXTENDS MCFunctions, WellFoundedInduction, TLAPS

-----------------------------------------------------------------------------
(* Counting along a clock.                                                 *)

\* What holds at tick 0 and after every tick if before it holds at all ticks.
LEMMA Counting ==
  ASSUME NEW k \in Nat, NEW Holds \in SUBSET (0..k), 0 \in Holds,
         \A n \in 1..k : n - 1 \in Holds => n \in Holds
  PROVE  Holds = 0..k
  <1> DEFINE Missing == { n \in 0..k : n \notin Holds }
  <1> SUFFICES Missing = {}
    OBVIOUS
  <1> SUFFICES ASSUME Missing # {}
               PROVE  FALSE
    OBVIOUS
  <1>1. Missing \subseteq Nat
    OBVIOUS
  <1>2. PICK n \in Missing : \A m \in Missing : ~ (<< m, n >> \in OpToRel(<, Nat))
    <2> HIDE DEF Missing
    <2> QED
      BY <1>1, NatLessThanWellFounded, WFMin
  <1>3. n \in 1..k
    OBVIOUS
  <1>4. << n - 1, n >> \in OpToRel(<, Nat)
    BY <1>3 DEF OpToRel
  <1>5. n - 1 \in 0..k
    BY <1>3
  <1>6. n - 1 \in Holds
    BY <1>2, <1>4, <1>5
  <1> QED
    BY <1>3, <1>6

(* The recursion of Ticks and of TrapAfter has a solution: step[n][s] is   *)
(* the state after tick n of a machine that was in s.                      *)
LEMMA RunExists ==
  ASSUME NEW k \in Nat, NEW States, NEW first \in States,
         NEW step \in [1..k -> [States -> States]]
  PROVE  \E run \in [0..k -> States] :
           /\ run[0] = first
           /\ \A n \in 1..k : run[n] = step[n][run[n - 1]]
  <1> DEFINE Runs(m) == { run \in [0..m -> States] :
                            /\ run[0] = first
                            /\ \A n \in 1..m : run[n] = step[n][run[n - 1]] }
             Ticked == { m \in 0..k : Runs(m) # {} }
  <1>1. 0 \in Ticked
    <2> DEFINE still == [n \in 0..0 |-> first]
    <2>1. still \in Runs(0)
      OBVIOUS
    <2> HIDE DEF Runs
    <2> QED
      BY <2>1
  <1>2. ASSUME NEW m \in 1..k, m - 1 \in Ticked
        PROVE  m \in Ticked
    <2>1. PICK run \in Runs(m - 1) : TRUE
      BY <1>2
    <2>2. /\ run \in [0..(m - 1) -> States]
          /\ run[0] = first
          /\ \A n \in 1..(m - 1) : run[n] = step[n][run[n - 1]]
      BY <2>1
    <2> DEFINE longer == [n \in 0..m |-> IF n = m THEN step[m][run[m - 1]] ELSE run[n]]
    <2>3. step[m][run[m - 1]] \in States
      <3>1. run[m - 1] \in States
        BY <2>2, m - 1 \in 0..(m - 1)
      <3> QED
        BY <3>1
    <2>4. longer \in [0..m -> States]
      <3>1. ASSUME NEW n \in 0..m, n # m PROVE run[n] \in States
        BY <2>2, <3>1, n \in 0..(m - 1)
      <3> QED
        BY <2>3, <3>1
    <2>5. longer[0] = first
      BY <2>2
    <2>6. ASSUME NEW n \in 1..m
          PROVE  longer[n] = step[n][longer[n - 1]]
      <3>1. longer[n - 1] = run[n - 1]
        OBVIOUS
      <3>2. CASE n = m
        BY <3>1, <3>2
      <3>3. CASE n # m
        <4>1. n \in 1..(m - 1) /\ longer[n] = run[n]
          BY <3>3
        <4> QED
          BY <2>2, <3>1, <4>1
      <3> QED
        BY <3>2, <3>3
    <2>7. longer \in Runs(m)
      <3> HIDE DEF longer
      <3> QED
        BY <2>4, <2>5, <2>6
    <2> HIDE DEF Runs
    <2> QED
      BY <2>7
  <1>3. Ticked = 0..k
    <2> HIDE DEF Ticked
    <2>1. Ticked \in SUBSET (0..k)
      BY DEF Ticked
    <2> QED
      BY <1>1, <1>2, <2>1, Counting
  <1>4. PICK run \in Runs(k) : TRUE
    <2> HIDE DEF Runs
    <2> QED
      BY <1>3
  <1> QED
    BY <1>4

-----------------------------------------------------------------------------
(* The timer.                                                              *)

LEMMA TickTyped ==
  ASSUME NEW t \in Timers
  PROVE  TimerTick(t) \in Timers
  <1>1. Counts \in Nat /\ Counts > 1
    BY CountsAssumption
  <1>2. (t.counter + 1) % Counts \in 0..(Counts - 1)
    BY <1>1 DEF Timers
  <1> QED
    BY <1>2 DEF TimerTick, Timers

LEMMA TicksRun ==
  ASSUME NEW t \in Timers, NEW k \in Nat
  PROVE  \E run \in [0..k -> Timers] :
           /\ run[0] = t
           /\ \A n \in 1..k : run[n] = TimerTick(run[n - 1])
           /\ Ticks(t, k) = run[k]
  <1> DEFINE step == [n \in 1..k |-> [u \in Timers |-> TimerTick(u)]]
             after == CHOOSE after : after = [n \in 0..k |-> IF n = 0 THEN t ELSE TimerTick(after[n - 1])]
  <1>1. step \in [1..k -> [Timers -> Timers]]
    BY TickTyped
  <1>2. PICK run \in [0..k -> Timers] :
          /\ run[0] = t
          /\ \A n \in 1..k : run[n] = step[n][run[n - 1]]
    <2> HIDE DEF step
    <2> QED
      BY <1>1, RunExists
  <1>3. ASSUME NEW n \in 1..k
        PROVE  run[n] = TimerTick(run[n - 1])
    <2>1. run[n - 1] \in Timers
      BY n - 1 \in 0..k
    <2>2. step[n][run[n - 1]] = TimerTick(run[n - 1])
      BY <2>1
    <2> QED
      BY <1>2, <2>2
  <1>4. run = [n \in 0..k |-> IF n = 0 THEN t ELSE TimerTick(run[n - 1])]
    BY <1>2, <1>3
  <1>5. after = [n \in 0..k |-> IF n = 0 THEN t ELSE TimerTick(after[n - 1])]
    <2> HIDE DEF step
    <2> QED
      BY <1>4
  <1>6. Ticks(t, k) = after[k]
    BY DEF Ticks
  <1> HIDE DEF after
  <1>7. /\ after[0] = t
        /\ \A n \in 1..k : after[n] = TimerTick(after[n - 1])
    BY <1>5
  <1> DEFINE Typed == { n \in 0..k : after[n] \in Timers }
  <1>8. 0 \in Typed
    BY <1>7
  <1>9. ASSUME NEW n \in 1..k, n - 1 \in Typed PROVE n \in Typed
    BY <1>7, <1>9, TickTyped
  <1>10. Typed = 0..k
    <2>1. Typed \in SUBSET (0..k)
      OBVIOUS
    <2> HIDE DEF Typed
    <2> QED
      BY <1>8, <1>9, <2>1, Counting
  <1>11. after \in [0..k -> Timers]
    BY <1>5, <1>10
  <1> QED
    BY <1>6, <1>7, <1>11

(* Where the counter of a timer is after k ticks: it stays in a timer that *)
(* does not run, and in one that runs it goes on to the compare value and  *)
(* no further.                                                             *)
LEMMA TicksStopped ==
  ASSUME NEW t \in Timers, NEW k \in Nat, ~t.run
  PROVE  Ticks(t, k) = t
  <1>1. PICK run \in [0..k -> Timers] :
          /\ run[0] = t
          /\ \A n \in 1..k : run[n] = TimerTick(run[n - 1])
          /\ Ticks(t, k) = run[k]
    BY TicksRun
  <1> DEFINE Same == { n \in 0..k : run[n] = t }
  <1>2. Same \in SUBSET (0..k) /\ 0 \in Same
    BY <1>1
  <1>3. ASSUME NEW n \in 1..k, n - 1 \in Same PROVE n \in Same
    <2>1. TimerTick(t) = t
      BY DEF TimerTick
    <2>2. run[n] = TimerTick(run[n - 1]) /\ run[n - 1] = t
      BY <1>1, <1>3
    <2> QED
      BY <2>1, <2>2
  <1> HIDE DEF Same
  <1>4. Same = 0..k
    BY <1>2, <1>3, Counting
  <1>5. k \in Same
    BY <1>4
  <1> QED
    BY <1>1, <1>5 DEF Same

Away(t) == (t.compare - t.counter) % Counts

LEMMA AwayFrom ==
  ASSUME NEW t \in Timers
  PROVE  /\ Away(t) = IF t.compare >= t.counter THEN t.compare - t.counter
                      ELSE t.compare - t.counter + Counts
         /\ Away(t) \in Nat
         /\ TimerIrq(t) <=> Away(t) = 0
  <1>1. Counts \in Nat /\ Counts > 1
    BY CountsAssumption
  <1>2. \A d \in Int : /\ d >= 0 /\ d < Counts => d % Counts = d
                       /\ d < 0 /\ d > -Counts => d % Counts = d + Counts
    BY <1>1
  <1>3. t.compare \in 0..(Counts - 1) /\ t.counter \in 0..(Counts - 1)
    BY DEF Timers
  <1>4. t.compare - t.counter \in Int /\ t.compare - t.counter > -Counts
        /\ t.compare - t.counter < Counts
    BY <1>1, <1>3
  <1>5. Away(t) = IF t.compare >= t.counter THEN t.compare - t.counter
                  ELSE t.compare - t.counter + Counts
    BY <1>1, <1>2, <1>3, <1>4 DEF Away
  <1> QED
    BY <1>1, <1>3, <1>5 DEF TimerIrq

LEMMA AwayTick ==
  ASSUME NEW t \in Timers, t.run
  PROVE  /\ TimerTick(t).run
         /\ TimerTick(t).compare = t.compare
         /\ Away(TimerTick(t)) = IF Away(t) = 0 THEN 0 ELSE Away(t) - 1
  <1>1. Counts \in Nat /\ Counts > 1
    BY CountsAssumption
  <1>2. t.compare \in 0..(Counts - 1) /\ t.counter \in 0..(Counts - 1)
    BY DEF Timers
  <1>3. CASE t.counter = t.compare
    BY <1>3, AwayFrom DEF TimerTick, TimerIrq
  <1>4. CASE t.counter # t.compare
    <2> DEFINE u == TimerTick(t)
    <2>1. u \in Timers
      BY TickTyped
    <2>2. u.run /\ u.compare = t.compare /\ u.counter = (t.counter + 1) % Counts
      BY <1>4 DEF TimerTick, Timers
    <2>3. u.counter = IF t.counter = Counts - 1 THEN 0 ELSE t.counter + 1
      BY <1>1, <1>2, <2>2
    <2>4. /\ Away(t) = IF t.compare >= t.counter THEN t.compare - t.counter
                       ELSE t.compare - t.counter + Counts
          /\ Away(u) = IF u.compare >= u.counter THEN u.compare - u.counter
                       ELSE u.compare - u.counter + Counts
      BY <2>1, AwayFrom
    <2> HIDE DEF u
    <2>5. Away(u) = IF Away(t) = 0 THEN 0 ELSE Away(t) - 1
      BY <1>1, <1>2, <1>4, <2>2, <2>3, <2>4
    <2> QED
      BY <2>2, <2>5 DEF u
  <1> QED
    BY <1>3, <1>4

\* What is left of the way after n ticks.
LEMMA TicksLeave ==
  ASSUME NEW t \in Timers, NEW k \in Nat, t.run
  PROVE  /\ Ticks(t, k) \in Timers
         /\ Away(Ticks(t, k)) = IF k < Away(t) THEN Away(t) - k ELSE 0
  <1>1. PICK run \in [0..k -> Timers] :
          /\ run[0] = t
          /\ \A n \in 1..k : run[n] = TimerTick(run[n - 1])
          /\ Ticks(t, k) = run[k]
    BY TicksRun
  <1>2. Away(t) \in Nat
    BY AwayFrom
  <1> DEFINE Counted == { n \in 0..k :
                            /\ run[n].run
                            /\ Away(run[n]) = IF n < Away(t) THEN Away(t) - n ELSE 0 }
  <1>3. 0 \in Counted
    BY <1>1, <1>2
  <1>4. ASSUME NEW n \in 1..k, n - 1 \in Counted
        PROVE  n \in Counted
    <2>1. n - 1 \in 0..k /\ n \in 0..k
      OBVIOUS
    <2>2. run[n - 1] \in Timers /\ run[n - 1].run
      BY <1>1, <1>4, <2>1
    <2>3. Away(run[n - 1]) = IF n - 1 < Away(t) THEN Away(t) - (n - 1) ELSE 0
      BY <1>4
    <2>4. /\ run[n].run
          /\ Away(run[n]) = IF Away(run[n - 1]) = 0 THEN 0 ELSE Away(run[n - 1]) - 1
      BY <1>1, <2>2, AwayTick
    <2>5. Away(run[n]) = IF n < Away(t) THEN Away(t) - n ELSE 0
      BY <1>2, <2>3, <2>4
    <2> QED
      BY <2>1, <2>4, <2>5
  <1>5. Counted = 0..k
    <2>1. Counted \in SUBSET (0..k)
      OBVIOUS
    <2> HIDE DEF Counted
    <2> QED
      BY <1>3, <1>4, <2>1, Counting
  <1>6. k \in Counted
    BY <1>5
  <1> QED
    BY <1>1, <1>6

(* A running timer raises its request after exactly the ticks it is away   *)
(* from the compare value, and keeps it, at every later tick               *)
(* (pp_soc_timer.vhd).                                                     *)
THEOREM RunningFires ==
  ASSUME NEW t \in Timers, t.run, NEW k \in Nat
  PROVE  TimerIrq(Ticks(t, k)) <=> k >= Away(t)
  <1>1. Away(t) \in Nat
    BY AwayFrom
  <1>2. TimerIrq(Ticks(t, k)) <=> Away(Ticks(t, k)) = 0
    BY TicksLeave, AwayFrom
  <1>3. Away(Ticks(t, k)) = IF k < Away(t) THEN Away(t) - k ELSE 0
    BY TicksLeave
  <1> QED
    BY <1>1, <1>2, <1>3

LEMMA ControlWritten ==
  ASSUME NEW t \in Timers, NEW bits
  PROVE  /\ WriteControl(t, bits) \in Timers
         /\ WriteControl(t, bits).run <=> CONTROL_RUN \in bits
         /\ WriteControl(t, bits).counter = IF CONTROL_CLEAR \in bits THEN 0 ELSE t.counter
         /\ WriteControl(t, bits).compare = t.compare
  <1>1. 0 \in 0..(Counts - 1)
    BY CountsAssumption
  <1>2. t.counter \in 0..(Counts - 1)
    BY DEF Timers
  <1> DEFINE running == CONTROL_RUN \in bits
             counter == IF CONTROL_CLEAR \in bits THEN 0 ELSE t.counter
  <1>3. running \in BOOLEAN /\ counter \in 0..(Counts - 1)
    BY <1>1, <1>2
  <1>4. WriteControl(t, bits) = [t EXCEPT !.run = running, !.counter = counter]
    BY DEF WriteControl
  <1> HIDE DEF running, counter
  <1>5. /\ WriteControl(t, bits) \in Timers
        /\ WriteControl(t, bits).run = running
        /\ WriteControl(t, bits).counter = counter
        /\ WriteControl(t, bits).compare = t.compare
    BY <1>3, <1>4 DEF Timers
  <1> QED
    BY <1>5 DEF running, counter

(* TimerFires for every width of the counter: when a timer asks, what      *)
(* clearing, stopping and setting it keep, and when it first asks after it *)
(* is set up as timer.h intends (pp_soc_timer.vhd, timer.h).               *)
THEOREM TimersFire ==
  ASSUME NEW t \in Timers
  PROVE  TimerFires(t)
  <1>0. Counts \in Nat /\ Counts > 1
    BY CountsAssumption
  <1>1. ASSUME t.run, NEW k \in 0..(Away(t) + 1)
        PROVE  TimerIrq(Ticks(t, k)) <=> k >= Away(t)
    BY <1>1, AwayFrom, RunningFires
  <1>2. LET c == timer_clear(t, ReadControl(t))
        IN  c.run = t.run /\ (TimerIrq(c) <=> t.compare = 0)
    BY DEF timer_clear, ReadControl, WriteControl, TimerIrq, Timers, CONTROL_RUN, CONTROL_CLEAR
  <1>3. ASSUME NEW k \in 0..Counts
        PROVE  timer_get_count(Ticks(timer_stop(t), k)) = timer_get_count(t)
    <2>1. timer_stop(t) \in Timers /\ ~timer_stop(t).run /\ timer_stop(t).counter = t.counter
      BY ControlWritten DEF timer_stop
    <2>2. Ticks(timer_stop(t), k) = timer_stop(t)
      BY <1>0, <2>1, TicksStopped
    <2> QED
      BY <2>1, <2>2 DEF timer_get_count, ReadCounter
  <1>4. ASSUME NEW from \in 0..(Counts - 1)
        PROVE  timer_get_count(timer_set_count(timer_stop(t), from)) = from
    BY DEF timer_get_count, ReadCounter, timer_set_count, WriteCounter, timer_stop, WriteControl,
           Timers
  <1>5. ASSUME NEW compare \in 1..(Counts - 1)
        PROVE  LET s == timer_start(timer_set_compare(timer_reset(t), compare))
               IN  \A k \in 0..Counts : TimerIrq(Ticks(s, k)) <=> k >= compare
    <2> DEFINE r == timer_set_compare(timer_reset(t), compare)
               s == timer_start(r)
    <2>1. r \in Timers /\ r.compare = compare
      <3>1. timer_reset(t) \in Timers
        BY ControlWritten DEF timer_reset
      <3>2. compare \in 0..(Counts - 1)
        BY <1>0
      <3> QED
        BY <3>1, <3>2 DEF timer_set_compare, WriteCompare, Timers
    <2> HIDE DEF r
    <2>2. s \in Timers /\ s.run /\ s.counter = 0 /\ s.compare = compare
      BY <2>1, ControlWritten DEF timer_start
    <2> HIDE DEF s
    <2>3. Away(s) = compare
      BY <1>0, <2>2, AwayFrom
    <2>4. \A k \in 0..Counts : TimerIrq(Ticks(s, k)) <=> k >= compare
      BY <1>0, <2>2, <2>3, RunningFires
    <2> QED
      BY <2>4 DEF s, r
  <1> QED
    BY <1>1, <1>2, <1>3, <1>4, <1>5 DEF TimerFires, Away

-----------------------------------------------------------------------------
(* The pins and the error unit.                                            *)

LEMMA OutputWritten ==
  ASSUME NEW g \in Gpios, NEW bits
  PROVE  /\ WriteOutput(g, bits).output = bits \cap Pins
         /\ WriteOutput(g, bits).direction = g.direction
  BY DEF WriteOutput, Gpios

(* PinsApart for every number of pins: the read-modify-write of the shared *)
(* output register by gpio.h moves one pin, and what the processor reads   *)
(* of the pins does not depend on what it drives (pp_soc_gpio.vhd).        *)
THEOREM PinsAreApart ==
  ASSUME NEW g \in Gpios
  PROVE  PinsApart(g)
  <1> SUFFICES ASSUME NEW p \in 0..NUM_GPIOS
               PROVE  LET on == gpio_set_pin(g, p)  off == gpio_clear_pin(g, p)
                      IN  /\ Driven(on) = Driven(g) \cup (g.direction \cap {p})
                          /\ Driven(off) = Driven(g) \ {p}
                          /\ \A outside \in SUBSET Pins :
                               /\ gpio_get_input(on, outside) = gpio_get_input(g, outside)
                               /\ gpio_get_input(g, outside) \cap g.direction = {}
    BY DEF PinsApart
  <1> DEFINE on == gpio_set_pin(g, p)
             off == gpio_clear_pin(g, p)
  <1>1. g.direction \subseteq Pins /\ g.output \subseteq Pins
    BY DEF Gpios
  <1>2. on.output = (g.output \cup {p}) \cap Pins /\ on.direction = g.direction
    BY OutputWritten DEF gpio_set_pin
  <1>3. off.output = (g.output \ {p}) \cap Pins /\ off.direction = g.direction
    BY OutputWritten DEF gpio_clear_pin
  <1> HIDE DEF on, off
  <1>4. Driven(on) = Driven(g) \cup (g.direction \cap {p})
    BY <1>1, <1>2 DEF Driven
  <1>5. Driven(off) = Driven(g) \ {p}
    BY <1>1, <1>3 DEF Driven
  <1>6. ASSUME NEW outside
        PROVE  /\ gpio_get_input(on, outside) = gpio_get_input(g, outside)
               /\ gpio_get_input(g, outside) \cap g.direction = {}
    BY <1>2 DEF gpio_get_input, input_register
  <1> QED
    BY <1>4, <1>5, <1>6 DEF on, off

Units(A) ==
  [ prev_error_access : {"NONE", "READ", "WRITE"}, read_error_address : A,
    write_error_address : A, irq_reset : BOOLEAN ]

(* The unit u after an edge that finds it as e, field by field.            *)
UnitAfter(A, e, control, error, u) ==
  LET kind == IF e.irq_reset THEN "RESET" ELSE error.type
  IN  /\ u \in Units(A)
      /\ u.irq_reset = control
      /\ kind = "RESET" => u.prev_error_access = "NONE"
      /\ kind = "NONE" => u.prev_error_access = e.prev_error_access
      /\ kind \in {"READ", "WRITE"} => u.prev_error_access = kind
      /\ u.read_error_address = IF kind = "READ" THEN error.address ELSE e.read_error_address
      /\ u.write_error_address = IF kind = "WRITE" THEN error.address ELSE e.write_error_address

LEMMA IcerrorEdge ==
  ASSUME NEW A, NEW e \in Units(A), NEW control \in BOOLEAN,
         NEW error \in [ type : {"NONE", "READ", "WRITE"}, address : A ]
  PROVE  UnitAfter(A, e, control, error, IcerrorClock(e, control, error))
  <1> DEFINE after == IcerrorClock(e, control, error)
             Passed(u) == [u EXCEPT !.irq_reset = control]
  <1>1. ASSUME NEW u \in Units(A)
        PROVE  /\ Passed(u) \in Units(A)
               /\ Passed(u).irq_reset = control
               /\ Passed(u).prev_error_access = u.prev_error_access
               /\ Passed(u).read_error_address = u.read_error_address
               /\ Passed(u).write_error_address = u.write_error_address
    BY DEF Units
  <1> HIDE DEF Passed
  <1>2. CASE e.irq_reset
    <2> DEFINE u == [e EXCEPT !.prev_error_access = "NONE"]
    <2>1. after = Passed(u)
      BY <1>2 DEF IcerrorClock, Passed
    <2>2. u \in Units(A) /\ u.prev_error_access = "NONE"
          /\ u.read_error_address = e.read_error_address
          /\ u.write_error_address = e.write_error_address
      BY DEF Units
    <2> HIDE DEF u
    <2> QED
      BY <1>1, <1>2, <2>1, <2>2 DEF UnitAfter
  <1>3. CASE ~e.irq_reset /\ error.type = "READ"
    <2> DEFINE u == [e EXCEPT !.prev_error_access = "READ", !.read_error_address = error.address]
    <2>1. after = Passed(u)
      BY <1>3 DEF IcerrorClock, Recorded, Passed
    <2>2. u \in Units(A) /\ u.prev_error_access = "READ"
          /\ u.read_error_address = error.address
          /\ u.write_error_address = e.write_error_address
      BY DEF Units
    <2> HIDE DEF u
    <2> QED
      BY <1>1, <1>3, <2>1, <2>2 DEF UnitAfter
  <1>4. CASE ~e.irq_reset /\ error.type = "WRITE"
    <2> DEFINE u == [e EXCEPT !.prev_error_access = "WRITE", !.write_error_address = error.address]
    <2>1. after = Passed(u)
      BY <1>4 DEF IcerrorClock, Recorded, Passed
    <2>2. u \in Units(A) /\ u.prev_error_access = "WRITE"
          /\ u.read_error_address = e.read_error_address
          /\ u.write_error_address = error.address
      BY DEF Units
    <2> HIDE DEF u
    <2> QED
      BY <1>1, <1>4, <2>1, <2>2 DEF UnitAfter
  <1>5. CASE ~e.irq_reset /\ error.type = "NONE"
    <2>1. after = Passed(e)
      BY <1>5 DEF IcerrorClock, Recorded, Passed
    <2> QED
      BY <1>1, <1>5, <2>1 DEF UnitAfter
  <1>6. error.type \in {"NONE", "READ", "WRITE"}
    OBVIOUS
  <1> QED
    BY <1>2, <1>3, <1>4, <1>5, <1>6

\* An edge with no write of the control register.
Quiet(e, error) == IcerrorClock(e, FALSE, error)

LEMMA QuietEdge ==
  ASSUME NEW A, NEW e \in Units(A),
         NEW error \in [ type : {"NONE", "READ", "WRITE"}, address : A ]
  PROVE  UnitAfter(A, e, FALSE, error, Quiet(e, error))
  <1>1. \A control \in BOOLEAN :
          UnitAfter(A, e, control, error, IcerrorClock(e, control, error))
    BY IcerrorEdge
  <1>2. FALSE \in BOOLEAN
    OBVIOUS
  <1>3. UnitAfter(A, e, FALSE, error, IcerrorClock(e, FALSE, error))
    BY <1>1, <1>2, Zenon
  <1> QED
    BY <1>3, Zenon DEF Quiet

\* An edge with a write of the control register and no access.
LEMMA ResetEdge ==
  ASSUME NEW A, NEW e \in Units(A), "zero" \in A
  PROVE  UnitAfter(A, e, TRUE, NoError, IcerrorClock(e, TRUE, NoError))
  <1>1. NoError \in [ type : {"NONE", "READ", "WRITE"}, address : A ]
    BY DEF NoError
  <1>2. \A control \in BOOLEAN :
          UnitAfter(A, e, control, NoError, IcerrorClock(e, control, NoError))
    BY <1>1, IcerrorEdge
  <1>3. TRUE \in BOOLEAN
    OBVIOUS
  <1> QED
    BY <1>2, <1>3, Zenon

\* An access is held until it is acknowledged; Settled is two edges on.
Held(e, error) == IF error_acknowledged(e, error) THEN NoError ELSE error

Settled(e, error) == Quiet(Quiet(e, error), Held(e, error))

(* An erroneous access of either kind is recorded with its type and its    *)
(* address, whichever addresses there are and whatever the unit held, and  *)
(* the address of the other type stays (pp_soc_intercon.vhd).              *)
THEOREM AccessKept ==
  ASSUME NEW A, "zero" \in A, NEW e \in Units(A),
         NEW error \in [ type : {"READ", "WRITE"}, address : A ]
  PROVE  LET after == Settled(e, error)
         IN  /\ after.prev_error_access = error.type
             /\ after.read_error_address =
                  IF error.type = "READ" THEN error.address ELSE e.read_error_address
             /\ after.write_error_address =
                  IF error.type = "WRITE" THEN error.address ELSE e.write_error_address
  <1> DEFINE Accesses == [ type : {"NONE", "READ", "WRITE"}, address : A ]
             e1 == Quiet(e, error)
             e2 == Settled(e, error)
             held == Held(e, error)
  <1>1. error \in Accesses /\ error.type \in {"READ", "WRITE"}
    OBVIOUS
  <1>2. NoError \in Accesses /\ NoError.type = "NONE"
    BY DEF NoError
  <1>3. held = IF e.irq_reset THEN error ELSE NoError
    BY <1>1 DEF Held, error_acknowledged
  <1>4. held \in Accesses
    BY <1>1, <1>2, <1>3
  <1>5. UnitAfter(A, e, FALSE, error, e1)
    BY <1>1, QuietEdge
  <1> HIDE DEF e1, held
  <1>6. e1 \in Units(A) /\ ~e1.irq_reset
    BY <1>5 DEF UnitAfter
  <1>7. UnitAfter(A, e1, FALSE, held, e2)
    <2>1. UnitAfter(A, e1, FALSE, held, Quiet(e1, held))
      BY <1>4, <1>6, QuietEdge
    <2> QED
      BY <2>1 DEF Settled, e1, held
  <1> HIDE DEF e2
  <1>8. CASE e.irq_reset
    <2>1. /\ e1.read_error_address = e.read_error_address
          /\ e1.write_error_address = e.write_error_address
      BY <1>5, <1>8 DEF UnitAfter
    <2>2. held = error
      BY <1>3, <1>8
    <2>3. /\ e2.prev_error_access = error.type
          /\ e2.read_error_address =
               IF error.type = "READ" THEN error.address ELSE e1.read_error_address
          /\ e2.write_error_address =
               IF error.type = "WRITE" THEN error.address ELSE e1.write_error_address
      BY <1>1, <1>6, <1>7, <2>2 DEF UnitAfter
    <2> QED
      BY <2>1, <2>3 DEF e2
  <1>9. CASE ~e.irq_reset
    <2>1. /\ e1.prev_error_access = error.type
          /\ e1.read_error_address =
               IF error.type = "READ" THEN error.address ELSE e.read_error_address
          /\ e1.write_error_address =
               IF error.type = "WRITE" THEN error.address ELSE e.write_error_address
      BY <1>1, <1>5, <1>9 DEF UnitAfter
    <2>2. held.type = "NONE"
      BY <1>2, <1>3, <1>9
    <2>3. /\ e2.prev_error_access = e1.prev_error_access
          /\ e2.read_error_address = e1.read_error_address
          /\ e2.write_error_address = e1.write_error_address
      BY <1>6, <1>7, <2>2 DEF UnitAfter
    <2> QED
      BY <2>1, <2>3 DEF e2
  <1> QED
    BY <1>8, <1>9

(* ErrorsKept for every state of the error unit: what icerror.h reads is   *)
(* the access that was recorded, and a reset ends the request.             *)
THEOREM ErrorsAreKept ==
  ASSUME NEW e \in Icerrors
  PROVE  ErrorsKept(e)
  <1>1. e \in Units(Addresses) /\ "zero" \in Addresses
    BY DEF Icerrors, Units, Addresses
  <1>2. ASSUME NEW error \in [ type : {"READ", "WRITE"}, address : {"a", "b"} ]
        PROVE  LET e2 == Settled(e, error)
                   status == ReadStatus(e2)
               IN  /\ error_irq(e2)
                   /\ icerror_get_access_type(status, status) = error.type
                   /\ IF error.type = "READ"
                      THEN /\ icerror_get_read_address(e2) = error.address
                           /\ icerror_get_write_address(e2) = icerror_get_write_address(e)
                      ELSE /\ icerror_get_write_address(e2) = error.address
                           /\ icerror_get_read_address(e2) = icerror_get_read_address(e)
    <2> DEFINE e2 == Settled(e, error)
    <2>1. error \in [ type : {"READ", "WRITE"}, address : Addresses ]
          /\ error.type \in {"READ", "WRITE"}
      BY DEF Addresses
    <2>2. /\ e2.prev_error_access = error.type
          /\ e2.read_error_address =
               IF error.type = "READ" THEN error.address ELSE e.read_error_address
          /\ e2.write_error_address =
               IF error.type = "WRITE" THEN error.address ELSE e.write_error_address
      BY <1>1, <2>1, AccessKept
    <2> HIDE DEF e2
    <2>3. error_irq(e2)
      BY <2>1, <2>2 DEF error_irq
    <2>4. icerror_get_access_type(ReadStatus(e2), ReadStatus(e2)) = error.type
      <3>1. CASE error.type = "READ"
        BY <2>2, <3>1 DEF icerror_get_access_type, ReadStatus, STATUS_READ_ERROR
      <3>2. CASE error.type = "WRITE"
        BY <2>2, <3>2 DEF icerror_get_access_type, ReadStatus, STATUS_IRQ_STATUS, STATUS_READ_ERROR,
                          STATUS_WRITE_ERROR
      <3> QED
        BY <2>1, <3>1, <3>2
    <2>5. IF error.type = "READ"
          THEN /\ icerror_get_read_address(e2) = error.address
               /\ icerror_get_write_address(e2) = icerror_get_write_address(e)
          ELSE /\ icerror_get_write_address(e2) = error.address
               /\ icerror_get_read_address(e2) = icerror_get_read_address(e)
      BY <2>1, <2>2 DEF icerror_get_read_address, icerror_get_write_address
    <2> QED
      BY <2>3, <2>4, <2>5 DEF e2
  <1>3. LET e1 == IcerrorClock(IcerrorClock(e, TRUE, NoError), FALSE, NoError)
        IN  ~error_irq(e1) /\ ReadStatus(e1) = {}
    <2> DEFINE e0 == IcerrorClock(e, TRUE, NoError)
               e1 == Quiet(e0, NoError)
    <2>1. NoError \in [ type : {"NONE", "READ", "WRITE"}, address : Addresses ]
      BY DEF NoError, Addresses
    <2>2. UnitAfter(Addresses, e, TRUE, NoError, e0)
      BY <1>1, ResetEdge
    <2> HIDE DEF e0
    <2>3. e0 \in Units(Addresses) /\ e0.irq_reset
      BY <2>2 DEF UnitAfter
    <2>4. UnitAfter(Addresses, e0, FALSE, NoError, e1)
      BY <2>1, <2>3, QuietEdge
    <2> HIDE DEF e1
    <2>5. e1.prev_error_access = "NONE"
      BY <2>3, <2>4 DEF UnitAfter
    <2>6. ~error_irq(e1) /\ ReadStatus(e1) = {}
      BY <2>5 DEF error_irq, ReadStatus
    <2> QED
      BY <2>6 DEF e0, e1, Quiet
  <1> QED
    BY <1>2, <1>3 DEF ErrorsKept, Settled, Quiet, Held

-----------------------------------------------------------------------------
(* The board.                                                              *)

(* Every base address, line and divisor of platform.h is the one of the    *)
(* board (toplevel.vhd), and every page but the unselected ones answers.   *)
THEOREM PlatformIsDecoded ==
  PlatformDecoded /\ AccessesAnswered
  <1>1. ASSUME NEW d \in DOMAIN PLATFORM_BASE
        PROVE  Bus!Peripheral(PLATFORM_BASE[d][1], PLATFORM_BASE[d][2])
                 = CASE d = "ICERROR"  -> "INTERCON"
                     [] d = "PAEE_ROM" -> "AEE_ROM"
                     [] d = "PAEE_RAM" -> "AEE_RAM"
                     [] OTHER          -> d
    <2>1. d \in { "TIMER0", "TIMER1", "UART0", "UART1", "GPIO", "ICERROR", "PAEE_ROM", "PAEE_RAM" }
      BY DEF PLATFORM_BASE
    <2>2. CASE d = "TIMER0"
      BY <2>2 DEF PLATFORM_BASE, Bus!Peripheral
    <2>3. CASE d = "TIMER1"
      BY <2>3 DEF PLATFORM_BASE, Bus!Peripheral
    <2>4. CASE d = "UART0"
      BY <2>4 DEF PLATFORM_BASE, Bus!Peripheral
    <2>5. CASE d = "UART1"
      BY <2>5 DEF PLATFORM_BASE, Bus!Peripheral
    <2>6. CASE d = "GPIO"
      BY <2>6 DEF PLATFORM_BASE, Bus!Peripheral
    <2>7. CASE d = "ICERROR"
      BY <2>7 DEF PLATFORM_BASE, Bus!Peripheral
    <2>8. CASE d = "PAEE_ROM"
      BY <2>8 DEF PLATFORM_BASE, Bus!Peripheral
    <2>9. CASE d = "PAEE_RAM"
      BY <2>9 DEF PLATFORM_BASE, Bus!Peripheral
    <2> QED
      BY <2>1, <2>2, <2>3, <2>4, <2>5, <2>6, <2>7, <2>8, <2>9, Zenon
  <1>2. LinesNumbered
    BY DEF LinesNumbered, irq_array, PLATFORM_IRQ, IRQ_INDEX
  <1>3. RateClose
    BY DEF RateClose, uart_baud2divisor, PLATFORM_SYSCLK_FREQ
  <1>4. PlatformDecoded
    <2>1. BasesDecoded
      BY <1>1, Zenon DEF BasesDecoded
    <2> QED
      BY <1>2, <1>3, <2>1 DEF PlatformDecoded
  <1>5. ASSUME NEW high \in {0, 1, 2, \hbfff, \hc000, \hc001, \hfffe, \hffff}, NEW page \in 0..15
        PROVE  Bus!Peripheral(high, page) = "NONE" <=> high = \hffff /\ page \in 0..7
    BY <1>5 DEF Bus!Peripheral
  <1>6. AccessesAnswered
    <2> SUFFICES ASSUME NEW a \in Pages \ Unselected
                 PROVE  Bus!Peripheral(a[1], a[2]) # "NONE"
      BY Zenon DEF AccessesAnswered
    <2>1. /\ a[1] \in {0, 1, 2, \hbfff, \hc000, \hc001, \hfffe, \hffff} /\ a[2] \in 0..15
          /\ ~(a[1] = \hffff /\ a[2] \in 0..7)
      BY DEF Pages, Unselected
    <2> QED
      BY <1>5, <2>1
  <1> QED
    BY <1>4, <1>6

-----------------------------------------------------------------------------
(* The code around a handler.                                              *)

\* A handler that keeps sp and what is above it.
KeepsFrame(handled, registers, memory, Stack) ==
  LET saved == SaveRegisters([registers |-> registers, memory |-> memory])
  IN  /\ handled.registers[2] = saved.registers[2]
      /\ \A a \in Stack : a >= registers[2] - Frame => handled.memory[a] = saved.memory[a]

(* Whatever the registers and the stack hold, and whatever a handler that  *)
(* keeps its frame does: the code it interrupts gets its registers and its *)
(* part of the stack back (start.S:63-137).                                *)
THEOREM ContextRestored ==
  ASSUME NEW Stack, Stack \subseteq Int,
         NEW registers, registers = [ r \in 1..31 |-> registers[r] ], registers[2] \in Int,
         NEW memory, DOMAIN memory = Stack,
         (registers[2] - Frame)..(registers[2] - 1) \subseteq Stack,
         NEW handled, KeepsFrame(handled, registers, memory, Stack)
  PROVE  /\ RestoreRegisters(handled).registers = registers
         /\ \A a \in Stack : a >= registers[2] => handled.memory[a] = memory[a]
  <1> DEFINE before == [registers |-> registers, memory |-> memory]
             base == registers[2] - Frame
             lower == [registers EXCEPT ![2] = base]
             saved == SaveRegisters(before)
  <1>1. /\ saved.registers = lower
        /\ \A a \in Stack : saved.memory[a] = IF a \in base..(base + Frame - 1)
                                             THEN lower[a - base + 1] ELSE memory[a]
    BY DEF SaveRegisters, sp
  <1> HIDE DEF saved
  <1>2. /\ handled.registers[2] = saved.registers[2]
        /\ \A a \in Stack : a >= base => handled.memory[a] = saved.memory[a]
    BY DEF KeepsFrame, saved
  <1>3. base \in Int /\ lower[2] = base
    BY DEF Frame
  <1>4. handled.registers[2] = base
    BY <1>1, <1>3, <1>2
  <1>5. ASSUME NEW r \in 1..31, r # 2
        PROVE  handled.memory[base + Slot(r)] = registers[r]
    <2> DEFINE a == base + Slot(r)
    <2>1. a \in base..(base + Frame - 1) /\ a - base + 1 = r /\ a >= base
      BY <1>3 DEF Slot, Frame
    <2>2. a \in Stack
      BY <1>3, <2>1 DEF Frame
    <2> HIDE DEF a
    <2>3. handled.memory[a] = saved.memory[a]
      BY <1>2, <2>1, <2>2
    <2>4. saved.memory[a] = lower[r]
      BY <1>1, <2>1, <2>2
    <2>5. lower[r] = registers[r]
      BY <1>5
    <2> QED
      BY <2>3, <2>4, <2>5 DEF a
  <1>6. RestoreRegisters(handled).registers =
          [ r \in 1..31 |-> IF r = 2 THEN base + Frame ELSE handled.memory[base + Slot(r)] ]
    BY <1>4 DEF RestoreRegisters, sp
  <1>7. base + Frame = registers[2]
    BY DEF Frame
  <1>8. RestoreRegisters(handled).registers = registers
    <2> HIDE DEF base
    <2> QED
      BY <1>5, <1>6, <1>7
  <1>9. ASSUME NEW a \in Stack, a >= registers[2]
        PROVE  handled.memory[a] = memory[a]
    <2>1. a >= base /\ a \notin base..(base + Frame - 1)
      BY <1>9 DEF Frame
    <2>2. handled.memory[a] = saved.memory[a]
      BY <1>2, <2>1
    <2> QED
      BY <1>1, <2>1, <2>2
  <1> QED
    BY <1>8, <1>9

(* HandlerKeepsRegisters for every stack with room for the frame, with the *)
(* clearing of the bss section (start.S:37-47, 63-137).                    *)
THEOREM HandlersKeepRegisters ==
  ASSUME NEW stack \in Nat, stack >= Frame
  PROVE  HandlerKeepsRegisters(stack)
  <1> DEFINE registers == [ r \in 1..31 |-> IF r = 2 THEN stack ELSE 100 + r ]
             memory == [ a \in 0..(stack + 8) |-> 200 + a ]
             saved == SaveRegisters([registers |-> registers, memory |-> memory])
             Stack == 0..(stack + 8)
  <1>1. Machine(stack) = [registers |-> registers, memory |-> memory]
    BY DEF Machine
  <1>2. stack \in Int /\ Frame \in Nat
    BY DEF Frame
  <1>3. registers \in [1..31 -> Int] /\ registers[2] = stack /\ memory \in [Stack -> Int]
    BY <1>2
  <1> HIDE DEF registers, memory
  <1>4. Stack \subseteq Int /\ (stack - Frame)..(stack - 1) \subseteq Stack
    BY <1>2
  <1> HIDE DEF Stack
  <1>5. /\ saved.registers = [registers EXCEPT ![2] = stack - Frame]
        /\ DOMAIN saved.memory = DOMAIN memory
    BY <1>3 DEF SaveRegisters, sp
  <1> HIDE DEF saved
  <1>6. DOMAIN saved.memory = Stack /\ saved.registers[2] = stack - Frame
    BY <1>3, <1>5
  <1>7. ASSUME NEW value \in {0, 7}
        PROVE  LET after == RestoreRegisters(Handled(saved, value))
               IN  /\ after.registers = registers
                   /\ \A a \in stack..(stack + 8) : after.memory[a] = memory[a]
    <2> DEFINE handled == Handled(saved, value)
    <2>1. /\ handled.registers[2] = saved.registers[2]
          /\ \A a \in Stack :
               handled.memory[a] = IF a < stack - Frame THEN value ELSE saved.memory[a]
      BY <1>6 DEF Handled, sp
    <2>2. RestoreRegisters(handled).memory = handled.memory
      BY DEF RestoreRegisters, Handled
    <2> HIDE DEF handled
    <2>3. \A a \in Stack : a >= stack - Frame => handled.memory[a] = saved.memory[a]
      <3> SUFFICES ASSUME NEW a \in Stack, a >= stack - Frame
                   PROVE  handled.memory[a] = saved.memory[a]
        OBVIOUS
      <3>1. a \in Int
        BY <1>4
      <3>2. ~ (a < stack - Frame)
        BY <1>2, <3>1
      <3> QED
        BY <2>1, <3>2
    <2>4. KeepsFrame(handled, registers, memory, Stack)
      BY <1>3, <2>1, <2>3 DEF KeepsFrame, saved
    <2>5. /\ RestoreRegisters(handled).registers = registers
          /\ \A a \in Stack : a >= registers[2] => handled.memory[a] = memory[a]
      <3>1. registers[2] \in Int /\ (registers[2] - Frame)..(registers[2] - 1) \subseteq Stack
        BY <1>2, <1>3, <1>4
      <3>2. registers = [ r \in 1..31 |-> registers[r] ] /\ DOMAIN memory = Stack
        BY <1>3
      <3> QED
        BY <1>4, <2>4, <3>1, <3>2, ContextRestored
    <2>6. \A a \in stack..(stack + 8) : a \in Stack /\ a >= registers[2]
      BY <1>2, <1>3 DEF Stack
    <2> QED
      BY <2>2, <2>5, <2>6 DEF handled
  <1>8. ASSUME NEW begin \in 0..4, NEW end \in 0..4, NEW a \in DOMAIN memory
        PROVE  ClearBss(memory, begin, end)[a] = IF a \in begin..(end - 1) THEN 0 ELSE memory[a]
    <2>1. a \in Int
      BY <1>3, <1>4
    <2>2. ClearBss(memory, begin, end)[a] = IF begin <= a /\ a < end THEN 0 ELSE memory[a]
      BY DEF ClearBss
    <2>3. begin <= a /\ a < end <=> a \in begin..(end - 1)
      BY <2>1
    <2> QED
      BY <2>2, <2>3
  <1> QED
    BY <1>1, <1>7, <1>8 DEF HandlerKeepsRegisters, saved

-----------------------------------------------------------------------------
(* The way into a trap.                                                    *)

(* TrapAfter is the end of a run of the clock, whatever t and the          *)
(* operations are.                                                         *)
IsRun(run, t, edges, k) ==
  /\ run[0] = t
  /\ \A n \in 1..k : run[n] = AfterEdge(run[n - 1], edges[n])

LEMMA TrapRun ==
  ASSUME NEW t, NEW edges, NEW k \in Nat, Len(edges) = k
  PROVE  \E run : IsRun(run, t, edges, k) /\ TrapAfter(t, edges) = run[k]
  <1> DEFINE Step(n, u) == AfterEdge(u, edges[n])
             Runs(m, run) == /\ run = [ n \in 0..m |-> run[n] ]
                             /\ run[0] = t
                             /\ \A n \in 1..m : run[n] = Step(n, run[n - 1])
             Clocked == { m \in 0..k : \E run : Runs(m, run) }
             after == CHOOSE after : after = [n \in 0..k |-> IF n = 0 THEN t ELSE Step(n, after[n - 1])]
  <1>0. TrapAfter(t, edges) = after[k]
    BY DEF TrapAfter
  <1>1. k \in Nat
    OBVIOUS
  <1> HIDE DEF Step
  <1>2. 0 \in Clocked
    <2> DEFINE still == [ n \in 0..0 |-> t ]
    <2>1. Runs(0, still)
      OBVIOUS
    <2> HIDE DEF Runs, still
    <2> QED
      BY <1>1, <2>1
  <1>3. ASSUME NEW m \in 1..k, m - 1 \in Clocked
        PROVE  m \in Clocked
    <2>1. PICK run : Runs(m - 1, run)
      BY <1>3
    <2> DEFINE longer == [ n \in 0..m |-> IF n = m THEN Step(m, run[m - 1]) ELSE run[n] ]
    <2>2. longer = [ n \in 0..m |-> longer[n] ] /\ longer[0] = t
      BY <2>1
    <2>3. ASSUME NEW n \in 1..m
          PROVE  longer[n] = Step(n, longer[n - 1])
      <3>1. longer[n - 1] = run[n - 1]
        OBVIOUS
      <3>2. CASE n = m
        BY <3>1, <3>2
      <3>3. CASE n # m
        <4>1. n \in 1..(m - 1) /\ longer[n] = run[n]
          BY <3>3
        <4> QED
          BY <2>1, <3>1, <4>1
      <3> QED
        BY <3>2, <3>3
    <2> HIDE DEF longer
    <2>4. Runs(m, longer)
      BY <2>2, <2>3
    <2> HIDE DEF Runs
    <2> QED
      BY <2>4
  <1>4. Clocked = 0..k
    <2> HIDE DEF Clocked
    <2>1. Clocked \in SUBSET (0..k)
      BY DEF Clocked
    <2> QED
      BY <1>1, <1>2, <1>3, <2>1, Counting
  <1>5. PICK run : Runs(k, run)
    <2>1. k \in Clocked
      BY <1>1, <1>4
    <2> HIDE DEF Runs
    <2> QED
      BY <2>1
  <1>6. run = [ n \in 0..k |-> IF n = 0 THEN t ELSE Step(n, run[n - 1]) ]
    <2>1. /\ run = [ n \in 0..k |-> run[n] ]
          /\ run[0] = t
          /\ \A n \in 1..k : run[n] = Step(n, run[n - 1])
      BY <1>5
    <2>2. ASSUME NEW n \in 0..k
          PROVE  run[n] = IF n = 0 THEN t ELSE Step(n, run[n - 1])
      <3>1. CASE n = 0
        BY <2>1, <3>1
      <3>2. CASE n # 0
        BY <2>1, <3>2, n \in 1..k
      <3> QED
        BY <3>1, <3>2
    <2> QED
      BY <2>1, <2>2
  <1>7. after = [ n \in 0..k |-> IF n = 0 THEN t ELSE Step(n, after[n - 1]) ]
    BY <1>6
  <1> HIDE DEF after
  <1>8. after[0] = t /\ \A n \in 1..k : after[n] = Step(n, after[n - 1])
    BY <1>1, <1>7
  <1> QED
    BY <1>0, <1>8 DEF Step, IsRun

(* A write on its way to the control registers has these three fields.     *)
IsWrite(w) == w = [ csr |-> w.csr, data |-> w.data, count_csr |-> w.count_csr ]

(* What makes mepc stay: the write of it never gets past the memory stage. *)
TrapInv(t) ==
  /\ IsWrite(t.memory) /\ t.memory.csr # "MEPC"
  /\ IsWrite(t.writeback) /\ t.writeback.csr # "MEPC"
  /\ t.mepc = NewTrap.mepc

Counted(w, count, counted) ==
  IsWrite(counted) /\ counted.csr = w.csr /\ counted.count_csr = count

LEMMA WriteFlushed ==
  ASSUME NEW w, IsWrite(w)
  PROVE  Counted(w, FALSE, [w EXCEPT !.count_csr = FALSE])
  <1>1. ASSUME NEW count
        PROVE  Counted(w, count, [w EXCEPT !.count_csr = count])
    BY DEF IsWrite, Counted
  <1> QED
    BY <1>1, Zenon

LEMMA WritesShaped ==
  ASSUME NEW t, NEW irq, NEW branch_taken
  PROVE  LET w == MemoryClock(t, irq, branch_taken)
         IN  IsWrite(w) /\ w.csr # "MEPC"
  <1>1. IsWrite(NoWrite) /\ NoWrite.csr # "MEPC"
    BY DEF IsWrite, NoWrite
  <1>2. IsWrite(InstructionWrite(t)) /\ InstructionWrite(t).csr # "MEPC"
    BY <1>1 DEF InstructionWrite, IsWrite
  <1>3. \/ MemoryClock(t, irq, branch_taken) = NoWrite
        \/ MemoryClock(t, irq, branch_taken) = InstructionWrite(t)
    BY DEF MemoryClock, flush_mem
  <1> QED
    BY <1>1, <1>2, <1>3

LEMMA TrapStep ==
  ASSUME NEW t, TrapInv(t), NEW edge
  PROVE  TrapInv(AfterEdge(t, edge))
  <1> DEFINE u == AfterEdge(t, edge)
             irq == edge.irq
             branch_taken == edge.branch_taken
  <1>1. /\ u.memory = MemoryClock(t, irq, branch_taken)
        /\ u.writeback = WritebackClock(t, irq, branch_taken).write
        /\ u.mepc = CsrClock(t).mepc
    BY DEF AfterEdge, TrapClock
  <1> HIDE DEF u
  <1>2. IsWrite(u.memory) /\ u.memory.csr # "MEPC"
    BY <1>1, WritesShaped
  <1>3. IsWrite(u.writeback) /\ u.writeback.csr # "MEPC"
    <2>1. CASE flush_wb(t, irq, branch_taken)
      <3>1. u.writeback = [t.writeback EXCEPT !.count_csr = FALSE]
        BY <1>1, <2>1 DEF WritebackClock
      <3> QED
        BY <3>1, WriteFlushed DEF TrapInv, Counted
    <2>2. CASE ~flush_wb(t, irq, branch_taken)
      <3>1. u.writeback = t.memory
        BY <1>1, <2>2 DEF WritebackClock
      <3> QED
        BY <3>1 DEF TrapInv
    <2> QED
      BY <2>1, <2>2
  <1>4. u.mepc = NewTrap.mepc
    <2>1. CsrClock(t).mepc = t.mepc
      BY DEF CsrClock, Writes, TrapInv
    <2> QED
      BY <1>1, <2>1 DEF TrapInv
  <1> QED
    BY <1>2, <1>3, <1>4 DEF TrapInv, u

(* An edge that takes an exception while none is under way: the stages are *)
(* emptied and the context of this edge waits in the memory stage.         *)
LEMMA TrapTaken ==
  ASSUME NEW t, TrapInv(t), Undisturbed(t), NEW edge,
         exception_taken(t, edge.irq)
  PROVE  LET u == AfterEdge(t, edge)
         IN  /\ Undisturbed(u)
             /\ u.execute = Bubble /\ u.memory = NoWrite
             /\ u.ie = t.ie
             /\ u.mem_exception = [ exception |-> TRUE, ie1 |-> t.ie, cause |-> exception_cause(t, edge.irq) ]
             /\ u.wb_exception = NoTrap
  <1> DEFINE u == AfterEdge(t, edge)
             irq == edge.irq
             branch_taken == edge.branch_taken
  <1>1. /\ u.execute = ExecuteClock(t, irq, branch_taken, edge.op)
        /\ u.memory = MemoryClock(t, irq, branch_taken)
        /\ u.mem_exception = update_exception_context(t, irq)
        /\ u.writeback = WritebackClock(t, irq, branch_taken).write
        /\ u.wb_exception = WritebackClock(t, irq, branch_taken).exception
        /\ u.ie = CsrClock(t).ie
    BY DEF AfterEdge, TrapClock
  <1> HIDE DEF u
  <1>2. u.execute = Bubble /\ u.memory = NoWrite
    BY <1>1 DEF ExecuteClock, flush_ex, MemoryClock, flush_mem
  <1>3. u.mem_exception = [ exception |-> TRUE, ie1 |-> t.ie, cause |-> exception_cause(t, irq) ]
    BY <1>1, Zenon DEF update_exception_context
  <1>4. u.writeback = [t.writeback EXCEPT !.count_csr = FALSE] /\ u.wb_exception = NoTrap
    BY <1>1 DEF WritebackClock, flush_wb
  <1>5. ~u.writeback.count_csr
    BY <1>4, WriteFlushed DEF TrapInv, Counted
  <1>6. ~u.wb_exception.exception /\ u.memory.csr = "NONE"
    BY <1>2, <1>4 DEF NoTrap, NoWrite
  <1>7. Undisturbed(u)
    BY <1>5, <1>6 DEF Undisturbed, Writes
  <1>8. u.ie = t.ie
    <2>1. ~Writes(t, "MSTATUS") /\ ~t.wb_exception.exception
      BY DEF Undisturbed
    <2>2. Context(t).ie = t.ie
      BY <2>1 DEF Context
    <2>3. CsrClock(t).ie = Context(t).ie
      BY <2>1 DEF CsrClock
    <2> QED
      BY <1>1, <2>2, <2>3
  <1> QED
    BY <1>2, <1>3, <1>4, <1>7, <1>8 DEF u

LEMMA RequestTaken ==
  ASSUME NEW t, t.ie, NEW irq, irq
  PROVE  exception_taken(t, irq)
  <1>1. exception_cause(t, irq) = "IRQ"
    BY DEF exception_cause
  <1> QED
    BY <1>1 DEF exception_taken, NoCause

(* The extent of what request_repeats finds: a request that lasts is taken *)
(* again at every edge, for ever, whatever else comes. No number of edges  *)
(* masks it, for the context that would clear ie is flushed from writeback *)
(* each time (pp_core.vhd:230, pp_csr_unit.vhd:166-171).                   *)
THEOREM RequestLasts ==
  ASSUME NEW t, TrapInv(t), Undisturbed(t), t.ie, NEW k \in Nat,
         NEW edges, Len(edges) = k, \A n \in 1..k : edges[n].irq
  PROVE  LET after == TrapAfter(t, edges)
         IN  after.ie /\ exception_taken(after, TRUE)
  <1>4. PICK run : IsRun(run, t, edges, k) /\ TrapAfter(t, edges) = run[k]
    BY TrapRun
  <1>5. /\ run[0] = t
        /\ \A n \in 1..k : run[n] = AfterEdge(run[n - 1], edges[n])
        /\ TrapAfter(t, edges) = run[k]
    BY <1>4 DEF IsRun
  <1> DEFINE Asking == { n \in 0..k : TrapInv(run[n]) /\ Undisturbed(run[n]) /\ run[n].ie }
  <1>6. 0 \in Asking
    BY <1>5
  <1>7. ASSUME NEW n \in 1..k, n - 1 \in Asking
        PROVE  n \in Asking
    <2> DEFINE u == run[n - 1]
    <2>1. TrapInv(u) /\ Undisturbed(u) /\ u.ie
      BY <1>7
    <2>2. run[n] = AfterEdge(u, edges[n])
      BY <1>5
    <2>3. edges[n].irq
      OBVIOUS
    <2> HIDE DEF u
    <2>4. exception_taken(u, edges[n].irq)
      BY <2>1, <2>3, RequestTaken
    <2>5. TrapInv(run[n])
      BY <2>1, <2>2, TrapStep
    <2>6. Undisturbed(run[n]) /\ run[n].ie
      <3>1. LET w == AfterEdge(u, edges[n])
            IN  Undisturbed(w) /\ w.ie = u.ie
        BY <2>1, <2>4, TrapTaken
      <3> QED
        BY <2>1, <2>2, <3>1
    <2> QED
      BY <2>5, <2>6
  <1>8. Asking = 0..k
    <2> HIDE DEF Asking
    <2>1. Asking \in SUBSET (0..k)
      BY DEF Asking
    <2> QED
      BY <1>6, <1>7, <2>1, Counting
  <1>9. run[k].ie
    BY <1>8
  <1>10. exception_taken(run[k], TRUE)
    <2>1. \A irq : irq => exception_taken(run[k], irq)
      BY <1>9, RequestTaken
    <2> QED
      BY <2>1, Zenon
  <1> QED
    BY <1>5, <1>9, <1>10

(* The trap of an invalid instruction masks interrupts after three edges.  *)
LEMMA TrapMasks ==
  ASSUME NEW t, TrapInv(t)
  PROVE  TrapsMaskInterrupts(t)
  <1> SUFFICES ASSUME t.execute.type = "INVALID", Undisturbed(t),
                      NEW first \in Edges, NEW second \in Edges, NEW third \in Edges,
                      ~(t.ie /\ (first.irq \/ second.irq)), ~second.branch_taken
               PROVE  LET after == TrapAfter(t, << first, second, third >>)
                      IN  after.ie = FALSE /\ after.ie1 = t.ie /\ after.mcause = "INVALID_INSTR"
    BY Zenon DEF TrapsMaskInterrupts
  <1> DEFINE edges == << first, second, third >>
             after == TrapAfter(t, edges)
  <1>1. Len(edges) = 3
    OBVIOUS
  <1>2. edges[1] = first /\ edges[2] = second /\ edges[3] = third
    OBVIOUS
  <1> HIDE DEF edges
  <1>3. PICK run : IsRun(run, t, edges, 3) /\ after = run[3]
    BY <1>1, 3 \in Nat, TrapRun
  <1> HIDE DEF after
  <1> DEFINE u == run[1]
             v == run[2]
  <1>4. /\ u = AfterEdge(t, first)
        /\ v = AfterEdge(u, second)
        /\ after = AfterEdge(v, third)
    BY <1>2, <1>3 DEF IsRun
  <1> HIDE DEF u, v
  <1>5. exception_cause(t, first.irq) = "INVALID_INSTR"
    BY DEF exception_cause
  <1>6. /\ Undisturbed(u) /\ u.execute = Bubble /\ u.memory = NoWrite /\ u.ie = t.ie
        /\ u.mem_exception = [ exception |-> TRUE, ie1 |-> t.ie, cause |-> "INVALID_INSTR" ]
    BY <1>4, <1>5, TrapTaken DEF exception_taken, NoCause
  <1>7. ~exception_taken(u, second.irq)
    BY <1>6 DEF exception_taken, exception_cause, Bubble
  <1>8. v.writeback = NoWrite /\ v.wb_exception = u.mem_exception
    BY <1>4, <1>6, <1>7 DEF AfterEdge, TrapClock, WritebackClock, flush_wb
  <1>9. v.wb_exception.exception /\ v.wb_exception.ie1 = t.ie /\ v.wb_exception.cause = "INVALID_INSTR"
    BY <1>6, <1>8
  <1>10. Context(v) = [ ie |-> FALSE, ie1 |-> t.ie, mcause |-> "INVALID_INSTR" ]
    BY <1>9, Zenon DEF Context
  <1>11. ~Writes(v, "MSTATUS")
    BY <1>8 DEF Writes, NoWrite
  <1>12. /\ CsrClock(v).ie = Context(v).ie /\ CsrClock(v).ie1 = Context(v).ie1
         /\ CsrClock(v).mcause = Context(v).mcause
    BY <1>11 DEF CsrClock
  <1>13. after.ie = CsrClock(v).ie /\ after.ie1 = CsrClock(v).ie1 /\ after.mcause = CsrClock(v).mcause
    BY <1>4 DEF AfterEdge, TrapClock
  <1>14. after.ie = FALSE /\ after.ie1 = t.ie /\ after.mcause = "INVALID_INSTR"
    BY <1>10, <1>12, <1>13
  <1> QED
    BY <1>14 DEF after, edges

-----------------------------------------------------------------------------
(* The headers and the control registers.                                  *)

(* The causes and the register addresses of pp_csr.vhd, potato.h and       *)
(* encoding.h are the same where they name the same thing.                 *)
THEOREM NumbersAgreeing == NumbersAgree
  <1>1. CSR_CAUSE = POTATO_MCAUSE
    BY DEF CSR_CAUSE, POTATO_MCAUSE
  <1>2. CSR_CAUSE = ENCODING_CAUSE
    BY DEF CSR_CAUSE, ENCODING_CAUSE
  <1>3. ASSUME NEW table \in { ENCODING_COUNTERS, ENCODING_MACHINE, ENCODING_IDS },
               NEW name \in DOMAIN table \cap DOMAIN CSR
        PROVE  table[name] = CSR[name]
    <2>1. CASE table = ENCODING_COUNTERS
      BY <1>3, <2>1 DEF CSR, ENCODING_COUNTERS
    <2>2. CASE table = ENCODING_MACHINE
      BY <1>3, <2>2 DEF CSR, ENCODING_MACHINE
    <2>3. CASE table = ENCODING_IDS
      BY <1>3, <2>3 DEF CSR, ENCODING_IDS
    <2> QED
      BY <1>3, <2>1, <2>2, <2>3
  <1>4. POTATO_TEST_CSR = CSR.TEST
    BY DEF POTATO_TEST_CSR, CSR
  <1>5. ASSUME NEW a \in DOMAIN CSR, NEW b \in DOMAIN CSR, a # b
        PROVE  CSR[a] # CSR[b]
    BY <1>5, SMTT(60) DEF CSR
  <1> QED
    BY <1>1, <1>2, <1>3, <1>4, <1>5 DEF NumbersAgree

(* A handler that tests two bits of mcause takes no exception and no other *)
(* interrupt for a request.                                                *)
LEMMA NoOtherCause ==
  ASSUME NEW cause \in Causes
  PROVE  ~IsIrq(McauseWord(cause))
  <1>1. cause \in 0..11 \cup {31, 32, 33}
    BY DEF Causes, CSR_CAUSE, CSR_CAUSE_NONE, CSR_CAUSE_SOFTWARE_INT, CSR_CAUSE_TIMER_INT
  <1>2. 31 \in McauseWord(cause) <=> cause >= 32
    BY <1>1 DEF McauseWord
  <1>3. 4 \in McauseWord(cause) <=> BitOf(cause, 4)
    BY <1>1 DEF McauseWord
  <1>4. BitOf(cause, 4) <=> (cause \div 16) % 2 = 1
    BY <1>1, BitsOfCause
  <1> QED
    BY <1>1, <1>2, <1>3, <1>4 DEF IsIrq, POTATO_MCAUSE_INTERRUPT_BIT, POTATO_MCAUSE_IRQ_BIT

\* The bits of 8000 and of 0010.
LEMMA HalfWords ==
  ASSUME NEW r \in 0..15
  PROVE  (BitOf(32768, r) => r = 15) /\ (BitOf(16, r) => r = 4)
  <1>1. CASE r = 0
    BY <1>1, 2^0 = 1 DEF BitOf
  <1>2. CASE r = 1
    BY <1>2, 2^1 = 2 DEF BitOf
  <1>3. CASE r = 2
    BY <1>3, 2^2 = 4 DEF BitOf
  <1>4. CASE r = 3
    BY <1>4, 2^3 = 8 DEF BitOf
  <1>5. CASE r = 4
    BY <1>5, 2^4 = 16 DEF BitOf
  <1>6. CASE r = 5
    BY <1>6, 2^5 = 32 DEF BitOf
  <1>7. CASE r = 6
    BY <1>7, 2^6 = 64 DEF BitOf
  <1>8. CASE r = 7
    BY <1>8, 2^7 = 128 DEF BitOf
  <1>9. CASE r = 8
    BY <1>9, 2^8 = 256 DEF BitOf
  <1>10. CASE r = 9
    BY <1>10, 2^9 = 512 DEF BitOf
  <1>11. CASE r = 10
    BY <1>11, 2^10 = 1024 DEF BitOf
  <1>12. CASE r = 11
    BY <1>12, 2^11 = 2048 DEF BitOf
  <1>13. CASE r = 12
    BY <1>13, 2^12 = 4096 DEF BitOf
  <1>14. CASE r = 13
    BY <1>14, 2^13 = 8192 DEF BitOf
  <1>15. CASE r = 14
    BY <1>15, 2^14 = 16384 DEF BitOf
  <1>16. CASE r = 15
    BY <1>16, 2^15 = 32768 DEF BitOf
  <1>17. \/ r = 0 \/ r = 1 \/ r = 2 \/ r = 3 \/ r = 4 \/ r = 5 \/ r = 6 \/ r = 7 \/ r = 8 \/ r = 9
         \/ r = 10 \/ r = 11 \/ r = 12 \/ r = 13 \/ r = 14 \/ r = 15
    OBVIOUS
  <1> QED
    BY <1>1, <1>2, <1>3, <1>4, <1>5, <1>6, <1>7, <1>8, <1>9, <1>10, <1>11, <1>12, <1>13, <1>14, <1>15, <1>16, <1>17

LEMMA IrqBase == POTATO_MCAUSE_IRQ_BASE \subseteq {4, 31}
  <1> SUFFICES ASSUME NEW b \in Bits,
                      ((IF b > 15 THEN \h8000 ELSE \h0010) \div 2^(b % 16)) % 2 = 1
               PROVE  b \in {4, 31}
    BY DEF POTATO_MCAUSE_IRQ_BASE, Word
  <1> DEFINE r == b % 16
  <1>1. b \in 0..31 /\ r \in 0..15 /\ (b > 15 => b = r + 16) /\ (b <= 15 => b = r)
    BY DEF Bits
  <1> HIDE DEF r
  <1>2. r \in 0..15
    BY <1>1
  <1>3. BitOf(IF b > 15 THEN 32768 ELSE 16, r)
    BY DEF r, BitOf
  <1>4. CASE b > 15
    <2>1. BitOf(32768, r)
      BY <1>3, <1>4
    <2>2. r = 15
      BY <1>2, <2>1, HalfWords
    <2> QED
      BY <1>1, <1>4, <2>2
  <1>5. CASE b <= 15
    <2>1. BitOf(16, r)
      BY <1>1, <1>3, <1>5
    <2>2. r = 4
      BY <1>2, <2>1, HalfWords
    <2> QED
      BY <1>1, <1>5, <2>2
  <1> QED
    BY <1>1, <1>4, <1>5

(* The handler of the benchmark (main.c:35-37) recognises every request by *)
(* its number and takes no other cause of the core for one.                *)
THEOREM RequestsRecognised == IrqRecognised
  <1>1. ASSUME NEW irq \in Requests
        PROVE  LET mcause == McauseWord(IrqCause(irq))
               IN  IsIrq(mcause) /\ IrqOf(mcause) = irq /\ POTATO_MCAUSE_IRQ_BASE \subseteq mcause
    <2>1. irq \in 0..15
      BY DEF Requests, POTATO_NUM_IRQS
    <2>2. IsIrq(McauseWord(IrqCause(irq))) /\ IrqOf(McauseWord(IrqCause(irq))) = irq
      BY <2>1, RequestWord
    <2>3. {4, 31} \subseteq McauseWord(IrqCause(irq))
      BY <2>2 DEF IsIrq, POTATO_MCAUSE_INTERRUPT_BIT, POTATO_MCAUSE_IRQ_BIT
    <2> QED
      BY <2>2, <2>3, IrqBase
  <1> QED
    BY <1>1, NoOtherCause DEF IrqRecognised

\* The request execute reports: an enabled one, and the lowest.
LEMMA LowestRequest ==
  ASSUME NEW irq, NEW mie, irq \subseteq 0..7, Asserted(irq, mie) # {}
  PROVE  /\ irq_asserted_num(irq, mie) \in Asserted(irq, mie)
         /\ \A j \in Asserted(irq, mie) : irq_asserted_num(irq, mie) <= j
  <1> DEFINE asserted == Asserted(irq, mie)
  <1>1. asserted \subseteq irq
    BY DEF Asserted
  <1>2. asserted \subseteq Nat /\ asserted # {}
    <2>1. irq \subseteq Nat
      OBVIOUS
    <2>2. asserted # {}
      OBVIOUS
    <2> HIDE DEF asserted
    <2> QED
      BY <1>1, <2>1, <2>2
  <1> HIDE DEF asserted
  <1>3. PICK first \in asserted : \A j \in asserted : ~ (<< j, first >> \in OpToRel(<, Nat))
    BY <1>2, NatLessThanWellFounded, WFMin
  <1>4. ASSUME NEW j \in asserted
        PROVE  first <= j
    <2>1. j \in Nat /\ first \in Nat
      BY <1>2, <1>3
    <2>2. j < first => << j, first >> \in OpToRel(<, Nat)
      BY <2>1 DEF OpToRel
    <2>3. ~ (j < first)
      BY <1>3, <2>2
    <2> QED
      BY <2>1, <2>3
  <1> QED
    BY <1>3, <1>4 DEF irq_asserted_num, asserted

LEMMA EnabledAfter ==
  ASSUME NEW mie \in SUBSET Bits, NEW n \in 0..7
  PROVE  /\ Enabled(potato_enable_irq(mie, n)) = Enabled(mie) \cup {n}
         /\ Enabled(potato_disable_irq(mie, n)) = Enabled(mie) \ {n}
  <1>1. {n + 24} \cap Bits = {n + 24}
    <2>1. n + 24 \in Bits
      BY DEF Bits
    <2> QED
      BY <2>1
  <1>2. potato_enable_irq(mie, n) = mie \cup {n + 24}
    BY <1>1 DEF potato_enable_irq, CsrAlu
  <1>3. potato_disable_irq(mie, n) = mie \ {n + 24}
    BY <1>1 DEF potato_disable_irq, CsrAlu
  <1>4. Enabled(mie \cup {n + 24}) = Enabled(mie) \cup {n}
    BY DEF Enabled, Bits
  <1>5. Enabled(mie \ {n + 24}) = Enabled(mie) \ {n}
    BY DEF Enabled, Bits
  <1> QED
    BY <1>2, <1>3, <1>4, <1>5

(* Switching all interrupts on and off, through the word of mstatus.       *)
LEMMA StatusBits ==
  ASSUME NEW s \in Statuses
  PROVE  /\ potato_enable_interrupts(s) = [s EXCEPT !.ie = TRUE]
         /\ potato_disable_interrupts(s) = [ ie |-> FALSE, ie1 |-> FALSE ]
  <1> DEFINE word == csr_make_mstatus(s)
  <1>1. word \subseteq {3, 7} /\ (3 \in word <=> s.ie) /\ (7 \in word <=> s.ie1)
    BY DEF csr_make_mstatus, CSR_SR_MIE_INDEX, CSR_SR_MPIE_INDEX
  <1>2. potato_enable_interrupts(s) = WriteMstatus(word \cup {3})
    BY DEF potato_enable_interrupts, CsrAlu, STATUS_MIE
  <1>3. potato_disable_interrupts(s) = WriteMstatus(word \ {3, 7})
    BY DEF potato_disable_interrupts, CsrAlu, STATUS_MIE, STATUS_MPIE
  <1> HIDE DEF word
  <1>4. \A x : WriteMstatus(x) = [ ie |-> 3 \in x, ie1 |-> 7 \in x ]
    BY DEF WriteMstatus, CSR_SR_MIE_INDEX, CSR_SR_MPIE_INDEX
  <1>5. 3 \in word \cup {3} /\ (7 \in word \cup {3} <=> s.ie1)
    BY <1>1
  <1>6. 3 \notin word \ {3, 7} /\ 7 \notin word \ {3, 7}
    OBVIOUS
  <1>7. s.ie1 \in BOOLEAN /\ s = [ ie |-> s.ie, ie1 |-> s.ie1 ]
    BY DEF Statuses
  <1>8. (3 \in word \cup {3}) = TRUE /\ (7 \in word \cup {3}) = s.ie1
    BY <1>5, <1>7
  <1>9. (3 \in word \ {3, 7}) = FALSE /\ (7 \in word \ {3, 7}) = FALSE
    BY <1>6
  <1>10. WriteMstatus(word \cup {3}) = [ ie |-> TRUE, ie1 |-> s.ie1 ]
    BY <1>4, <1>8
  <1>11. WriteMstatus(word \ {3, 7}) = [ ie |-> FALSE, ie1 |-> FALSE ]
    BY <1>4, <1>9
  <1>12. [s EXCEPT !.ie = TRUE] = [ ie |-> TRUE, ie1 |-> s.ie1 ]
    <2>1. ASSUME NEW v
          PROVE  [s EXCEPT !.ie = v] = [ ie |-> v, ie1 |-> s.ie1 ]
      BY <1>7
    <2> QED
      BY <2>1, Zenon
  <1> QED
    BY <1>2, <1>3, <1>10, <1>11, <1>12

(* Enabling, disabling and reporting a request, for every contents of mie  *)
(* (potato.h, pp_execute.vhd).                                             *)
THEOREM RequestsAreApart ==
  ASSUME NEW mie \in SUBSET Bits
  PROVE  RequestsApart(mie)
  <1>1. ASSUME NEW n \in Requests
        PROVE  /\ Enabled(potato_enable_irq(mie, n)) = Enabled(mie) \cup {n}
               /\ Enabled(potato_disable_irq(mie, n)) = Enabled(mie) \ {n}
               /\ \A irq \in SUBSET {n, 3, 5} :
                    Asserted(irq, potato_enable_irq(mie, n)) # {} =>
                      LET first == irq_asserted_num(irq, potato_enable_irq(mie, n))
                      IN  first \in irq /\ (n \in irq => first <= n)
    <2>1. n \in 0..7
      BY DEF Requests, POTATO_NUM_IRQS
    <2>2. Enabled(potato_enable_irq(mie, n)) = Enabled(mie) \cup {n}
          /\ Enabled(potato_disable_irq(mie, n)) = Enabled(mie) \ {n}
      BY <2>1, EnabledAfter
    <2> DEFINE word == potato_enable_irq(mie, n)
    <2> HIDE DEF word
    <2>3. ASSUME NEW irq \in SUBSET {n, 3, 5}, Asserted(irq, word) # {}
          PROVE  /\ irq_asserted_num(irq, word) \in irq
                 /\ n \in irq => irq_asserted_num(irq, word) <= n
      <3>1. irq \subseteq 0..7
        BY <2>1
      <3>2. /\ irq_asserted_num(irq, word) \in Asserted(irq, word)
            /\ \A j \in Asserted(irq, word) : irq_asserted_num(irq, word) <= j
        BY <2>3, <3>1, LowestRequest
      <3>3. n \in irq => n \in Asserted(irq, word)
        BY <2>2 DEF Asserted, word
      <3> QED
        BY <3>2, <3>3 DEF Asserted
    <2> QED
      BY <2>2, <2>3 DEF word
  <1> QED
    BY <1>1, StatusBits DEF RequestsApart

(* The states of a test as the macros write them into the two lowest bits. *)
LEMMA StatesOfTests ==
  StateBits("RUNNING") = {0} /\ StateBits("FAILED") = {1} /\ StateBits("PASSED") = {0, 1}
  <1>1. /\ POTATO_TEST_STATE["RUNNING"] = 1
        /\ POTATO_TEST_STATE["FAILED"] = 2
        /\ POTATO_TEST_STATE["PASSED"] = 3
    BY DEF POTATO_TEST_STATE
  <1>2. /\ BitOf(1, 0) /\ ~BitOf(1, 1)
        /\ ~BitOf(2, 0) /\ BitOf(2, 1)
        /\ BitOf(3, 0) /\ BitOf(3, 1)
    BY BitsOfCause
  <1>3. \A name : StateBits(name) = { b \in {0, 1} : BitOf(POTATO_TEST_STATE[name], b) }
    BY 0..1 = {0, 1} DEF StateBits
  <1> QED
    BY <1>1, <1>2, <1>3

(* A register whose upper bits are those of above, two places up.          *)
LEMMA TestRead ==
  ASSUME NEW above \in SUBSET Nat, NEW bits \in SUBSET {0, 1}
  PROVE  LET register == { b + 2 : b \in above } \cup bits
         IN  /\ std_logic_to_test_context(register) = [ state |-> TestState(bits), number |-> above ]
             /\ \A name : TEST_END(register, name) = { b + 2 : b \in above } \cup StateBits(name)
  <1> DEFINE up       == { b + 2 : b \in above }
             register == up \cup bits
  <1>1. up \cap {0, 1} = {}
    OBVIOUS
  <1>2. register \cap {0, 1} = bits /\ bits \cap {0, 1} = bits
    BY <1>1
  <1>3. TestState(register) = TestState(bits)
    BY <1>2 DEF TestState
  <1>4. ShiftRight(register, 2) = above
    <2>1. \A c \in register : c >= 2 <=> c \in up
      <3>1. \A c \in up : c >= 2
        OBVIOUS
      <3>2. \A c \in bits : ~ (c >= 2)
        OBVIOUS
      <3> HIDE DEF up
      <3> QED
        BY <3>1, <3>2
    <2>2. \A b \in above : b + 2 \in up /\ (b + 2) - 2 = b
      OBVIOUS
    <2>3. \A c \in up : c - 2 \in above
      OBVIOUS
    <2> HIDE DEF up
    <2>4. { c \in register : c >= 2 } = up
      BY <2>1
    <2>5. { c - 2 : c \in up } = above
      BY <2>2, <2>3
    <2> QED
      BY <2>4, <2>5 DEF ShiftRight
  <1>5. register \ {0, 1} = up
    BY <1>1
  <1>6. \A name : TEST_END(register, name) = up \cup StateBits(name)
    BY <1>5 DEF TEST_END, CsrAlu
  <1> QED
    BY <1>3, <1>4, <1>6 DEF std_logic_to_test_context

LEMMA StatesRead == TestState({0}) = "RUNNING" /\ TestState({1}) = "FAILED" /\ TestState({0, 1}) = "PASSED"
  <1>1. {0} \cap {0, 1} = {0} /\ {1} \cap {0, 1} = {1} /\ {0, 1} \cap {0, 1} = {0, 1}
    OBVIOUS
  <1>2. \A zero, one : zero # one =>
          /\ {zero} # {} /\ {one} # {} /\ {zero} # {one} /\ {zero, one} # {}
          /\ {zero, one} # {zero} /\ {zero, one} # {one}
    BY Zenon
  <1>3. /\ {0} # {} /\ {1} # {} /\ {0} # {1} /\ {0, 1} # {}
        /\ {0, 1} # {0} /\ {0, 1} # {1}
    <2>1. 0 # 1
      OBVIOUS
    <2> QED
      BY <1>2, <2>1, Zenon
  <1>4. TestState({0}) = "RUNNING"
    BY <1>1, <1>3 DEF TestState
  <1>5. TestState({1}) = "FAILED"
    BY <1>1, <1>3 DEF TestState
  <1>6. TestState({0, 1}) = "PASSED"
    BY <1>1, <1>3 DEF TestState
  <1> QED
    BY <1>4, <1>5, <1>6

(* The test bench reads the verdict that the macros of potato-test.h leave *)
(* in the test register, and the number of a test that the assembler form  *)
(* started, for every number whose bits all fit.                           *)
THEOREM TestsAreReported ==
  ASSUME NEW number \in SUBSET (0..28)
  PROVE  TestReported(number)
  <1> DEFINE twice == { b + 1 : b \in number }
  <1>1. number \in SUBSET Nat /\ twice \in SUBSET Nat
    OBVIOUS
  <1>2. ShiftLeft(number, 1) = twice /\ ShiftLeft(number, 2) = { b + 2 : b \in number }
    BY DEF ShiftLeft, Bits
  <1>3. ShiftLeft(number, 3) = { b + 2 : b \in twice }
    <2>1. ShiftLeft(number, 3) = { b + 3 : b \in number }
      BY DEF ShiftLeft, Bits
    <2>2. \A b \in number : b + 1 \in twice /\ (b + 1) + 2 = b + 3
      OBVIOUS
    <2>3. \A c \in twice : \E b \in number : c + 2 = b + 3
      OBVIOUS
    <2> HIDE DEF twice
    <2> QED
      BY <2>1, <2>2, <2>3
  <1> HIDE DEF twice
  <1>4. /\ TEST_START_ASM(number) = { b + 2 : b \in number } \cup {0}
        /\ TEST_START_C(number) = { b + 2 : b \in twice } \cup {0}
    BY <1>2, <1>3, StatesOfTests DEF TEST_START_ASM, TEST_START_C
  <1>5. ASSUME NEW above \in SUBSET Nat, NEW register, register = { b + 2 : b \in above } \cup {0}
        PROVE  /\ std_logic_to_test_context(register) = [ state |-> "RUNNING", number |-> above ]
               /\ std_logic_to_test_context(TEST_PASS(register)) = [ state |-> "PASSED", number |-> above ]
               /\ std_logic_to_test_context(TEST_FAIL(register)) = [ state |-> "FAILED", number |-> above ]
    <2>1. /\ TEST_PASS(register) = { b + 2 : b \in above } \cup {0, 1}
          /\ TEST_FAIL(register) = { b + 2 : b \in above } \cup {1}
      BY <1>5, TestRead, StatesOfTests DEF TEST_PASS, TEST_FAIL
    <2> QED
      BY <1>5, <2>1, TestRead, StatesRead
  <1>6. /\ std_logic_to_test_context(TEST_START_ASM(number)) = [ state |-> "RUNNING", number |-> number ]
        /\ std_logic_to_test_context(TEST_PASS(TEST_START_ASM(number))) = [ state |-> "PASSED", number |-> number ]
        /\ std_logic_to_test_context(TEST_FAIL(TEST_START_ASM(number))) = [ state |-> "FAILED", number |-> number ]
    BY <1>1, <1>4, <1>5
  <1>7. /\ std_logic_to_test_context(TEST_PASS(TEST_START_C(number))).state = "PASSED"
        /\ std_logic_to_test_context(TEST_FAIL(TEST_START_C(number))).state = "FAILED"
    BY <1>1, <1>4, <1>5
  <1> QED
    BY <1>6, <1>7, Zenon DEF TestReported

-----------------------------------------------------------------------------
(* The padding of the last block.                                          *)

LEMMA PowersOfTwo ==
  /\ 2^5 = 32 /\ 2^6 = 64 /\ 2^7 = 128
  /\ \A x \in 8..30 : 2^x \in Nat /\ 2^x >= 256
  <1>1. 2^5 = 32 /\ 2^6 = 64 /\ 2^7 = 128
    OBVIOUS
  <1>2. /\ 2^8 = 256 /\ 2^9 = 512 /\ 2^10 = 1024 /\ 2^11 = 2048 /\ 2^12 = 4096 /\ 2^13 = 8192
        /\ 2^14 = 16384 /\ 2^15 = 32768 /\ 2^16 = 65536 /\ 2^17 = 131072 /\ 2^18 = 262144
        /\ 2^19 = 524288 /\ 2^20 = 1048576 /\ 2^21 = 2097152 /\ 2^22 = 4194304
        /\ 2^23 = 8388608 /\ 2^24 = 16777216 /\ 2^25 = 33554432 /\ 2^26 = 67108864
        /\ 2^27 = 134217728 /\ 2^28 = 268435456 /\ 2^29 = 536870912 /\ 2^30 = 1073741824
    OBVIOUS
  <1> QED
    BY <1>1, <1>2

\* A byte has eight bits.
LEMMA ByteBits ==
  ASSUME NEW v \in 0..255
  PROVE  LengthBits(v) = { x \in 0..7 : BitOf(v, x) }
  <1>1. LengthBits(v) = { x \in 0..30 : BitOf(v, x) }
    BY DEF LengthBits, BitOf
  <1>2. ASSUME NEW x \in 8..30
        PROVE  ~BitOf(v, x)
    <2>1. \A d \in Nat : d >= 256 => (v \div d) % 2 # 1
      OBVIOUS
    <2>2. 2^x \in Nat /\ 2^x >= 256
      BY PowersOfTwo, Zenon
    <2> QED
      BY <2>1, <2>2 DEF BitOf
  <1> QED
    BY <1>1, <1>2

LEMMA OneBit ==
  ASSUME NEW x \in 0..7
  PROVE  (BitOf(128, x) <=> x = 7) /\ ~BitOf(0, x)
  <1>1. CASE x = 0
    BY <1>1, 2^0 = 1 DEF BitOf
  <1>2. CASE x = 1
    BY <1>2, 2^1 = 2 DEF BitOf
  <1>3. CASE x = 2
    BY <1>3, 2^2 = 4 DEF BitOf
  <1>4. CASE x = 3
    BY <1>4, 2^3 = 8 DEF BitOf
  <1>5. CASE x = 4
    BY <1>5, 2^4 = 16 DEF BitOf
  <1>6. CASE x = 5
    BY <1>6, 2^5 = 32 DEF BitOf
  <1>7. CASE x = 6
    BY <1>7, 2^6 = 64 DEF BitOf
  <1>8. CASE x = 7
    BY <1>8, 2^7 = 128 DEF BitOf
  <1>9. x = 0 \/ x = 1 \/ x = 2 \/ x = 3 \/ x = 4 \/ x = 5 \/ x = 6 \/ x = 7
    OBVIOUS
  <1> QED
    BY <1>1, <1>2, <1>3, <1>4, <1>5, <1>6, <1>7, <1>8, <1>9

\* Bit x of byte b of a word in big-endian order.
LEMMA BytesTurned ==
  ASSUME NEW w \in SUBSET Bits, NEW b \in 0..3, NEW x \in 0..7
  PROVE  x + 8 * (3 - b) \in htobe32(w) <=> x + 8 * b \in w
  <1>1. CASE b = 0
    BY <1>1 DEF htobe32, ShiftLeft, ShiftRight, Bits
  <1>2. CASE b = 1
    BY <1>2 DEF htobe32, ShiftLeft, ShiftRight, Bits
  <1>3. CASE b = 2
    BY <1>3 DEF htobe32, ShiftLeft, ShiftRight, Bits
  <1>4. CASE b = 3
    BY <1>4 DEF htobe32, ShiftLeft, ShiftRight, Bits
  <1> QED
    BY <1>1, <1>2, <1>3, <1>4

\* What a word holds is told by its four bytes.
LEMMA WordsByBytes ==
  ASSUME NEW v \in SUBSET Bits, NEW w \in SUBSET Bits,
         \A b \in 0..3, x \in 0..7 : x + 8 * (3 - b) \in v <=> x + 8 * (3 - b) \in w
  PROVE  v = w
  <1>1. ASSUME NEW y \in Bits
        PROVE  \E b \in 0..3, x \in 0..7 : y = x + 8 * (3 - b)
    <2> DEFINE b == 3 - (y \div 8)
    <2>1. b \in 0..3 /\ y % 8 \in 0..7 /\ y = (y % 8) + 8 * (3 - b)
      BY DEF Bits
    <2> HIDE DEF b
    <2> QED
      BY <2>1
  <1> QED
    BY <1>1

LEMMA ElementIn ==
  ASSUME NEW S, NEW s \in Seq(S), NEW p \in 1..Len(s)
  PROVE  s[p] \in S
  OBVIOUS

\* A word put together from four bytes, the first one on top.
Together(four) == UNION { { x + 8 * (3 - b) : x \in four[b] } : b \in 0..3 }

LEMMA BytesTogether ==
  ASSUME NEW four, \A b \in 0..3 : four[b] \subseteq 0..7
  PROVE  /\ Together(four) \subseteq Bits
         /\ \A b \in 0..3, x \in 0..7 : x + 8 * (3 - b) \in Together(four) <=> x \in four[b]
  <1> DEFINE word == Together(four)
  <1>1. word \subseteq Bits
    <2> SUFFICES ASSUME NEW b \in 0..3, NEW x \in four[b]
                 PROVE  x + 8 * (3 - b) \in Bits
      BY DEF Together
    <2>1. x \in 0..7
      OBVIOUS
    <2> QED
      BY <2>1 DEF Bits
  <1>2. ASSUME NEW b \in 0..3, NEW x \in 0..7, x \in four[b]
        PROVE  x + 8 * (3 - b) \in word
    BY <1>2 DEF Together
  <1>3. ASSUME NEW b \in 0..3, NEW x \in 0..7, x + 8 * (3 - b) \in word
        PROVE  x \in four[b]
    <2>1. PICK c \in 0..3 : \E y \in four[c] : x + 8 * (3 - b) = y + 8 * (3 - c)
      BY <1>3 DEF Together
    <2>2. PICK y \in four[c] : x + 8 * (3 - b) = y + 8 * (3 - c)
      BY <2>1
    <2>3. y \in 0..7
      OBVIOUS
    <2>4. b = c /\ x = y
      BY <2>2, <2>3
    <2> QED
      BY <2>4
  <1> QED
    BY <1>1, <1>2, <1>3

\* The bytes before the end marker, the end marker, and the ones after it.
LEMMA ByteBefore ==
  ASSUME NEW bytes, NEW n \in Nat, NEW total, NEW c \in 0..63, c < n
  PROVE  ExpectedByte(bytes, n, total, c) = LengthBits(bytes[c + 1])
  BY DEF ExpectedByte

LEMMA ByteOfMarker ==
  ASSUME NEW bytes, NEW n \in Nat, NEW total, NEW c \in 0..63, c = n
  PROVE  ExpectedByte(bytes, n, total, c) = {7}
  BY DEF ExpectedByte

\* Byte c of the block, as one of the bytes of the length in bits.
ByteOfLength(total, c) == { x \in 0..7 : 8 * (63 - c) + x - 3 \in total }

LEMMA ByteAfter ==
  ASSUME NEW bytes, NEW n \in Nat, NEW total, NEW c \in 0..63, c > n
  PROVE  ExpectedByte(bytes, n, total, c) = ByteOfLength(total, c)
  <1>1. ~ (c < n) /\ c # n
    OBVIOUS
  <1> QED
    BY <1>1 DEF ExpectedByte, ByteOfLength

LEMMA ZeroBytes ==
  ASSUME NEW n \in Nat
  PROVE  [ b \in 1..n |-> 0 ] \in Seq({0}) /\ Len([ b \in 1..n |-> 0 ]) = n
  OBVIOUS

LEMMA LastBytes ==
  ASSUME NEW k \in {14, 15}, NEW b \in 0..3, NEW x \in 0..7
  PROVE  /\ 4 * k + b \in 56..63 /\ x + 8 * (3 - b) \in Bits
         /\ x + 8 * (3 - b) + 32 * (15 - k) - 3 = 8 * (63 - (4 * k + b)) + x - 3
  BY DEF Bits

\* Named to keep the length of a sequence out of the arithmetic of the bytes.
HasLength(s, n) == Len(s) = n

LEMMA ExpectedWord ==
  ASSUME NEW bytes \in Seq(0..255), NEW n \in Nat, HasLength(bytes, n), NEW total, NEW k \in 0..15
  PROVE  /\ Expected(bytes, total)[k] \subseteq Bits
         /\ \A b \in 0..3, x \in 0..7 :
              x + 8 * (3 - b) \in Expected(bytes, total)[k] <=> x \in ExpectedByte(bytes, n, total, 4 * k + b)
  <1> DEFINE four == [ b \in 0..3 |-> ExpectedByte(bytes, n, total, 4 * k + b) ]
  <1>1. \A p \in 1..n : bytes[p] \in 0..255
    BY ElementIn DEF HasLength
  <1>2. ASSUME NEW c \in 0..63
        PROVE  ExpectedByte(bytes, n, total, c) \subseteq 0..7
    <2>1. CASE c < n
      <3>1. c + 1 \in 1..n
        BY <2>1
      <3>3. bytes[c + 1] \in 0..255
        BY <1>1, <3>1
      <3>2. LengthBits(bytes[c + 1]) \subseteq 0..7
        BY <3>3, ByteBits
      <3> QED
        BY <2>1, <3>2, ByteBefore
    <2>2. CASE c = n
      <3>1. ExpectedByte(bytes, n, total, c) = {7}
        BY <2>2, ByteOfMarker
      <3> QED
        BY <3>1
    <2>3. CASE c > n
      <3>1. ExpectedByte(bytes, n, total, c) = ByteOfLength(total, c)
        BY <2>3, ByteAfter
      <3> QED
        BY <3>1 DEF ByteOfLength
    <2> QED
      BY <2>1, <2>2, <2>3
  <1>3. \A b \in 0..3 : four[b] \subseteq 0..7
    <2>1. \A b \in 0..3 : 4 * k + b \in 0..63
      OBVIOUS
    <2> QED
      BY <1>2, <2>1
  <1>4. Expected(bytes, total)[k] = UNION { { x + 8 * (3 - b) : x \in four[b] } : b \in 0..3 }
    BY DEF Expected, HasLength
  <1>5. \A b \in 0..3 : four[b] = ExpectedByte(bytes, n, total, 4 * k + b)
    OBVIOUS
  <1> DEFINE word == Expected(bytes, total)[k]
  <1> HIDE DEF four, word
  <1>6. word = Together(four)
    BY <1>4 DEF word, Together
  <1>7. /\ word \subseteq Bits
        /\ \A b \in 0..3, x \in 0..7 : x + 8 * (3 - b) \in word <=> x \in four[b]
    BY <1>3, <1>6, BytesTogether
  <1> QED
    BY <1>5, <1>7 DEF word

\* The block after the end marker and the zeros have been put in.
Padded(bytes) == bytes \o << 128 >> \o [ b \in 1..(63 - Len(bytes)) |-> 0 ]

LEMMA PaddedBytes ==
  ASSUME NEW bytes \in Seq(0..255), NEW n \in 0..55, HasLength(bytes, n), NEW c \in 0..63
  PROVE  Padded(bytes)[c + 1] =
           IF c < n THEN bytes[c + 1] ELSE IF c = n THEN 128 ELSE 0
  <1> DEFINE zeros == [ b \in 1..(63 - n) |-> 0 ]
             marked == bytes \o << 128 >>
  <1>2. zeros \in Seq({0}) /\ Len(zeros) = 63 - n
    <2>1. 63 - n \in Nat
      OBVIOUS
    <2> QED
      BY <2>1, ZeroBytes
  <1>3. /\ marked \in Seq(0..255) /\ Len(marked) = n + 1
        /\ \A p \in 1..(n + 1) : marked[p] = IF p <= n THEN bytes[p] ELSE 128
    BY DEF HasLength
  <1>4. \A p \in 1..(63 - n) : zeros[p] = 0
    OBVIOUS
  <1> HIDE DEF zeros, marked
  <1>5. Padded(bytes) = marked \o zeros
    BY DEF HasLength, Padded, marked, zeros
  <1>6. CASE c <= n
    <2>1. (marked \o zeros)[c + 1] = marked[c + 1]
      BY <1>2, <1>3, <1>6
    <2> QED
      BY <1>3, <1>5, <1>6, <2>1
  <1>7. CASE c > n
    <2>1. (marked \o zeros)[c + 1] = zeros[c - n]
      <3>1. /\ c + 1 > Len(marked) /\ c + 1 <= Len(marked) + Len(zeros)
            /\ c + 1 - Len(marked) = c - n
        BY <1>2, <1>3, <1>7
      <3>2. \A p \in 1..(Len(marked) + Len(zeros)) :
              p > Len(marked) => (marked \o zeros)[p] = zeros[p - Len(marked)]
        BY <1>2, <1>3
      <3>3. c + 1 \in 1..(Len(marked) + Len(zeros))
        BY <1>2, <1>3
      <3> QED
        BY <3>1, <3>2, <3>3
    <2> QED
      BY <1>4, <1>5, <1>7, <2>1
  <1> QED
    BY <1>6, <1>7

LEMMA PaddedWord ==
  ASSUME NEW bytes \in Seq(0..255), NEW n \in 0..55, HasLength(bytes, n), NEW total \in SUBSET (0..60),
         NEW k \in 0..13
  PROVE  htobe32(WordAt(Padded(bytes), k)) = Expected(bytes, total)[k]
  <1>0. n \in Nat
    OBVIOUS
  <1> DEFINE w == WordAt(Padded(bytes), k)
  <1>2. w \subseteq Bits
    BY DEF WordAt
  <1>3. ASSUME NEW b \in 0..3, NEW x \in 0..7
        PROVE  x + 8 * b \in w <=> BitOf(Padded(bytes)[4 * k + b + 1], x)
    <2>1. x + 8 * b \in Bits /\ (x + 8 * b) \div 8 = b /\ (x + 8 * b) % 8 = x
      BY DEF Bits
    <2> QED
      BY <2>1 DEF WordAt, BitOf
  <1> HIDE DEF w
  <1>4. ASSUME NEW b \in 0..3, NEW x \in 0..7
        PROVE  BitOf(Padded(bytes)[4 * k + b + 1], x) <=> x \in ExpectedByte(bytes, n, total, 4 * k + b)
    <2> DEFINE c == 4 * k + b
    <2>1. c \in 0..55 /\ c \in 0..63
      OBVIOUS
    <2> HIDE DEF c
    <2>2. Padded(bytes)[c + 1] =
            IF c < n THEN bytes[c + 1] ELSE IF c = n THEN 128 ELSE 0
      BY <2>1, PaddedBytes
    <2>3. ASSUME c < n
          PROVE  BitOf(Padded(bytes)[c + 1], x) <=> x \in ExpectedByte(bytes, n, total, c)
      <3>1. bytes[c + 1] \in 0..255
        BY <2>1, <2>3, c + 1 \in 1..n, ElementIn DEF HasLength
      <3>2. x \in LengthBits(bytes[c + 1]) <=> BitOf(bytes[c + 1], x)
        BY <3>1, ByteBits
      <3>3. ExpectedByte(bytes, n, total, c) = LengthBits(bytes[c + 1])
        BY <1>0, <2>1, <2>3, ByteBefore
      <3> QED
        BY <2>2, <2>3, <3>2, <3>3
    <2>4. ASSUME c = n
          PROVE  BitOf(Padded(bytes)[c + 1], x) <=> x \in ExpectedByte(bytes, n, total, c)
      <3>1. ExpectedByte(bytes, n, total, c) = {7}
        BY <1>0, <2>1, <2>4, ByteOfMarker
      <3>2. Padded(bytes)[c + 1] = 128
        BY <2>2, <2>4
      <3> QED
        BY <3>1, <3>2, OneBit
    <2>5. ASSUME c > n
          PROVE  BitOf(Padded(bytes)[c + 1], x) <=> x \in ExpectedByte(bytes, n, total, c)
      <3>1. 8 * (63 - c) + x - 3 \notin total
        BY <2>1
      <3>2. x \notin ExpectedByte(bytes, n, total, c)
        <4>1. ExpectedByte(bytes, n, total, c) = ByteOfLength(total, c)
          BY <1>0, <2>1, <2>5, ByteAfter
        <4> QED
          BY <3>1, <4>1 DEF ByteOfLength
      <3>3. Padded(bytes)[c + 1] = 0
        BY <2>1, <2>2, <2>5
      <3> QED
        BY <3>2, <3>3, OneBit
    <2>6. BitOf(Padded(bytes)[c + 1], x) <=> x \in ExpectedByte(bytes, n, total, c)
      BY <2>1, <2>3, <2>4, <2>5
    <2> QED
      BY <2>6 DEF c
  <1> DEFINE v == htobe32(w)
             e == Expected(bytes, total)[k]
  <1>5. v \subseteq Bits
    <2>1. \A m : ShiftLeft(w, m) \subseteq Bits
      BY DEF ShiftLeft
    <2>2. ShiftRight(w, 24) \subseteq Bits
      <3>1. \A y \in Bits : y >= 24 => y - 24 \in Bits
        BY DEF Bits
      <3> QED
        BY <1>2, <3>1 DEF ShiftRight
    <2>3. 8..15 \subseteq Bits
      BY DEF Bits
    <2> QED
      BY <2>1, <2>2, <2>3 DEF htobe32
  <1>6. /\ e \subseteq Bits
        /\ \A b \in 0..3, x \in 0..7 : x + 8 * (3 - b) \in e <=> x \in ExpectedByte(bytes, n, total, 4 * k + b)
    <2>1. k \in 0..15 /\ n \in Nat
      OBVIOUS
    <2> QED
      BY <2>1, ExpectedWord
  <1>7. \A b \in 0..3, x \in 0..7 : x + 8 * (3 - b) \in v <=> x + 8 * b \in w
    BY <1>2, BytesTurned
  <1> HIDE DEF v, e
  <1>8. v = e
    BY <1>3, <1>4, <1>5, <1>6, <1>7, WordsByBytes
  <1> QED
    BY <1>8 DEF v, w, e

\* The length in bits, in one of the two last words.
LEMMA LengthWord ==
  ASSUME NEW bytes \in Seq(0..255), NEW n \in 0..55, HasLength(bytes, n), NEW total \in SUBSET (0..60),
         NEW k \in {14, 15}, NEW w \in SUBSET Bits,
         \A y \in Bits : y \in w <=> y + 32 * (15 - k) - 3 \in total
  PROVE  w = Expected(bytes, total)[k]
  <1>2. ASSUME NEW b \in 0..3, NEW x \in 0..7
        PROVE  x + 8 * (3 - b) \in w <=> x \in ExpectedByte(bytes, n, total, 4 * k + b)
    <2> DEFINE c == 4 * k + b
    <2>1. c \in 56..63 /\ x + 8 * (3 - b) \in Bits
      BY LastBytes
    <2>2. x + 8 * (3 - b) + 32 * (15 - k) - 3 = 8 * (63 - c) + x - 3
      BY LastBytes
    <2> HIDE DEF c
    <2>3. x \in ExpectedByte(bytes, n, total, c) <=> 8 * (63 - c) + x - 3 \in total
      <3>1. c \in 0..63 /\ c > n /\ n \in Nat
        BY <2>1
      <3> QED
        <4>1. ExpectedByte(bytes, n, total, c) = ByteOfLength(total, c)
          BY <3>1, ByteAfter
        <4> QED
          BY <4>1 DEF ByteOfLength
    <2>4. x + 8 * (3 - b) \in w <=> 8 * (63 - c) + x - 3 \in total
      BY <2>1, <2>2
    <2> QED
      BY <2>3, <2>4 DEF c
  <1> DEFINE e == Expected(bytes, total)[k]
  <1>3. /\ e \subseteq Bits
        /\ \A b \in 0..3, x \in 0..7 : x + 8 * (3 - b) \in e <=> x \in ExpectedByte(bytes, n, total, 4 * k + b)
    <2>1. k \in 0..15 /\ n \in Nat
      OBVIOUS
    <2> QED
      BY <2>1, ExpectedWord
  <1> HIDE DEF e
  <1>4. w = e
    BY <1>2, <1>3, WordsByBytes
  <1> QED
    BY <1>4 DEF e

(* The padding is right for every block that leaves room for the length:   *)
(* whatever its bytes are and however long the message is, if only its     *)
(* length in bits fits 64 bits (sha256.c:127-139).                         *)
THEOREM PaddingIsRight ==
  ASSUME NEW bytes \in Seq(0..255), Len(bytes) \in 0..55, NEW total \in SUBSET (0..60)
  PROVE  sha256_pad_le_block(bytes, total) = Expected(bytes, total)
  <1> DEFINE n    == Len(bytes)
             bits == { b + 3 : b \in total } \cap (0..63)
             made == sha256_pad_le_block(bytes, total)
             e    == Expected(bytes, total)
  <1>1. ASSUME NEW k \in 0..15
        PROVE  made[k] = CASE k = 14 -> { b - 32 : b \in bits \cap (32..63) }
                           [] k = 15 -> bits \cap Bits
                           [] OTHER  -> htobe32(WordAt(Padded(bytes), k))
    BY DEF sha256_pad_le_block, Padded
  <1>2. bits \subseteq 0..63 /\ \A y \in 0..63 : y \in bits <=> y - 3 \in total
    <2>1. \A y \in 0..63 : y - 3 \in total => \E b \in total : y = b + 3
      OBVIOUS
    <2>2. \A b \in total : (b + 3) - 3 = b
      OBVIOUS
    <2> QED
      BY <2>1, <2>2
  <1>3. made = [ k \in 0..15 |-> made[k] ] /\ e = [ k \in 0..15 |-> e[k] ]
    BY DEF sha256_pad_le_block, Expected
  <1>n. n \in 0..55 /\ HasLength(bytes, n)
    BY DEF HasLength
  <1> HIDE DEF n, bits, made
  <1>4. ASSUME NEW k \in 0..15
        PROVE  made[k] = Expected(bytes, total)[k]
    <2>1. CASE k = 14
      <3>1. made[k] = { b - 32 : b \in bits \cap (32..63) }
        BY <1>1, <2>1
      <3>2. ASSUME NEW y \in Bits
            PROVE  y \in made[k] <=> y + 32 * (15 - k) - 3 \in total
        <4> DEFINE z == y + 32
        <4>1. z \in 32..63 /\ z \in 0..63 /\ z - 32 = y /\ y + 32 * (15 - k) - 3 = z - 3
          BY <2>1 DEF Bits
        <4>2. \A c \in 32..63 : c - 32 = y => c = z
          BY DEF Bits
        <4> HIDE DEF z
        <4>3. z \in bits <=> z - 3 \in total
          BY <1>2, <4>1
        <4>4. y \in made[k] <=> z \in bits
          BY <3>1, <4>1, <4>2
        <4> QED
          BY <4>1, <4>3, <4>4
      <3>3. made[k] \in SUBSET Bits
        <4>1. \A b \in 32..63 : b - 32 \in Bits
          BY DEF Bits
        <4> QED
          BY <3>1, <4>1
      <3> QED
        BY <2>1, <3>2, <3>3, <1>n, LengthWord
    <2>2. CASE k = 15
      <3>1. made[k] = bits \cap Bits
        BY <1>1, <2>2
      <3>2. ASSUME NEW y \in Bits
            PROVE  y \in made[k] <=> y + 32 * (15 - k) - 3 \in total
        <4>1. y \in 0..63 /\ y + 32 * (15 - k) - 3 = y - 3
          BY <2>2 DEF Bits
        <4> QED
          BY <1>2, <3>1, <4>1
      <3>3. made[k] \in SUBSET Bits
        BY <3>1
      <3> QED
        BY <2>2, <3>2, <3>3, <1>n, LengthWord
    <2>3. CASE k \notin {14, 15}
      <3>1. made[k] = htobe32(WordAt(Padded(bytes), k))
        BY <1>1, <2>3
      <3>2. k \in 0..13
        BY <2>3
      <3> QED
        BY <3>1, <3>2, <1>n, PaddedWord
    <2> QED
      BY <2>1, <2>2, <2>3
  <1>5. \A k \in 0..15 : made[k] = e[k]
    BY <1>4
  <1> HIDE DEF e
  <1>6. made = e
    BY <1>3, <1>5
  <1> QED
    BY <1>6 DEF made, e

-----------------------------------------------------------------------------
(* The specification of the functions.                                     *)

(* What is looked at is a timer, a register, a unit, a word, a stack or a  *)
(* trap.                                                                   *)
SubjectInv ==
  /\ Is("timer") => It \in Timers
  /\ Is("gpio") => It \in Gpios
  /\ Is("icerror") => It \in Icerrors
  /\ Is("word") => It \in SUBSET Bits
  /\ Is("stack") => It \in Nat /\ It >= Frame
  /\ Is("trap") => TrapInv(It)

LEMMA SubjectInitially ==
  ASSUME FunctionsInit
  PROVE  SubjectInv
  <1>1. ASSUME NEW kind, NEW values, Look(kind, values)
        PROVE  subject[1] = kind /\ subject[2] \in values
    BY <1>1 DEF Look
  <1>2. ASSUME NEW t \in Starts
        PROVE  TrapInv(t)
    <2>1. PICK ie \in BOOLEAN : t = [NewTrap EXCEPT !.ie = ie]
      BY DEF Starts
    <2>2. t.memory = NewTrap.memory /\ t.writeback = NewTrap.writeback /\ t.mepc = NewTrap.mepc
      BY <2>1 DEF NewTrap
    <2>3. NewTrap.memory = NoWrite /\ NewTrap.writeback = NoWrite
      BY DEF NewTrap
    <2>4. IsWrite(NoWrite) /\ NoWrite.csr # "MEPC"
      BY DEF IsWrite, NoWrite
    <2> QED
      BY <2>2, <2>3, <2>4 DEF TrapInv
  <1>3. Frame \in Nat /\ Frame + 5 \in Nat
    BY DEF Frame
  <1>4. CASE subject = << "message", message >>
    BY <1>4 DEF SubjectInv, Is
  <1>5. CASE Look("timer", Timers)
    BY <1>1, <1>5 DEF SubjectInv, Is, It
  <1>6. CASE Look("gpio", Gpios)
    BY <1>1, <1>6 DEF SubjectInv, Is, It
  <1>7. CASE Look("icerror", Icerrors)
    BY <1>1, <1>7 DEF SubjectInv, Is, It
  <1>8. CASE Look("stack", {Frame, Frame + 5})
    <2>1. subject[1] = "stack" /\ subject[2] \in {Frame, Frame + 5}
      BY <1>1, <1>8
    <2> QED
      BY <1>3, <2>1 DEF SubjectInv, Is, It
  <1>9. CASE Look("trap", Starts)
    <2>1. subject[1] = "trap" /\ subject[2] \in Starts
      BY <1>1, <1>9
    <2> QED
      BY <1>2, <2>1 DEF SubjectInv, Is, It
  <1>10. CASE Look("word", SomeWords)
    <2>1. SomeWords \subseteq SUBSET Bits
      BY DEF SomeWords
    <2> QED
      BY <1>1, <1>10, <2>1 DEF SubjectInv, Is, It
  <1>11. CASE \E kind \in {"length", "int", "base", "covered", "foreign", "tables"} :
                \E values : Look(kind, values)
    <2>1. subject[1] \in {"length", "int", "base", "covered", "foreign", "tables"}
      BY <1>1, <1>11
    <2> QED
      BY <2>1 DEF SubjectInv, Is
  <1> QED
    BY <1>4, <1>5, <1>6, <1>7, <1>8, <1>9, <1>10, <1>11 DEF FunctionsInit

LEMMA SubjectStep ==
  ASSUME SubjectInv, [Digest \/ Edge]_<< vars, subject >>
  PROVE  SubjectInv'
  <1>1. CASE UNCHANGED subject
    BY <1>1 DEF SubjectInv, Is, It
  <1>2. CASE Edge
    <2>1. PICK e \in Edges : subject' = << "trap", AfterEdge(It, e) >>
      BY <1>2 DEF Edge
    <2>2. TrapInv(It)
      BY <1>2 DEF Edge, SubjectInv
    <2>3. TrapInv(AfterEdge(It, e))
      BY <2>2, TrapStep
    <2>4. subject'[1] = "trap" /\ subject'[2] = AfterEdge(It, e)
      BY <2>1
    <2> QED
      BY <2>3, <2>4 DEF SubjectInv, Is, It
  <1>3. CASE Digest
    BY <1>1, <1>3 DEF Digest
  <1> QED
    BY <1>1, <1>2, <1>3

(* What is looked at is always of its kind, along every run of a trap.     *)
THEOREM SubjectInvariant == FunctionsSpec => []SubjectInv
  <1>1. FunctionsInit => SubjectInv
    BY SubjectInitially
  <1>2. SubjectInv /\ [Digest \/ Edge]_<< vars, subject >> => SubjectInv'
    BY SubjectStep
  <1> QED
    BY <1>1, <1>2, PTL DEF FunctionsSpec

(* After any sequence of operations, requests and jumps the trap of an     *)
(* invalid instruction masks interrupts and names its cause if no request  *)
(* and no jump flushes its context, and the code around a handler keeps    *)
(* every register.                                                         *)
THEOREM TrapContextKept == FunctionsSpec => []TrapContext
  <1>1. SubjectInv => TrapContext
    BY TrapMasks, HandlersKeepRegisters DEF SubjectInv, TrapContext
  <1> QED
    BY <1>1, SubjectInvariant, PTL

(* The extent of what request_repeats finds: along no sequence of          *)
(* operations, requests and jumps does a trap store its return address.    *)
(* The write of mepc is flushed from the memory stage by the exception     *)
(* that causes it (pp_core.vhd:229, pp_memory.vhd:86-110).                 *)
THEOREM ReturnAddressNeverStored ==
  FunctionsSpec => [](Is("trap") => It.mepc = NewTrap.mepc)
  <1>1. SubjectInv => (Is("trap") => It.mepc = NewTrap.mepc)
    BY DEF SubjectInv, TrapInv
  <1> QED
    BY <1>1, SubjectInvariant, PTL

(* The timer, the pins, the error unit and the address map keep what their *)
(* drivers and platform.h promise, whatever Counts and NUM_GPIOS are.      *)
THEOREM DevicesAreRight == FunctionsSpec => []DevicesRight
  <1>1. SubjectInv => DevicesRight
    BY TimersFire, PinsAreApart, ErrorsAreKept, PlatformIsDecoded DEF SubjectInv, DevicesRight
  <1> QED
    BY <1>1, SubjectInvariant, PTL

(* The headers of the software and the registers of the core mean the same *)
(* by every cause, register address, request, interrupt enable and test    *)
(* verdict, and by the number of a test started by the assembler form.     *)
THEOREM HeadersAreAgreed == FunctionsSpec => []HeadersAgree
  <1>1. ASSUME NEW word \in SUBSET Bits
        PROVE  ShiftRight(word, 3) \in SUBSET (0..28)
    BY DEF ShiftRight, Bits
  <1>2. SubjectInv => HeadersAgree
    BY <1>1, NumbersAgreeing, RequestsRecognised, RequestsAreApart, TestsAreReported
       DEF SubjectInv, HeadersAgree
  <1> QED
    BY <1>2, SubjectInvariant, PTL

===============================================================================
