-------------------------------- MODULE Fifo --------------------------------
(***************************************************************************)
(* The queue of the UART, src/soc/pp_fifo.vhd, as a value: a record with   *)
(* the memory, the two indices, the last operation and the output          *)
(* register, and what one clock edge makes of it.  The entity does not     *)
(* refuse a push when it is full or a pop when it is empty; that is left   *)
(* to its users.                                                           *)
(***************************************************************************)
EXTENDS Integers

CONSTANTS
  DEPTH,   \* slots
  Data     \* what a slot can hold

Slots == 0 .. DEPTH - 1

Fifos ==
  [ memory   : [Slots -> Data],
    top      : Slots,
    bottom   : Slots,
    prev_op  : {"FIFO_POP", "FIFO_PUSH"},
    data_out : Data ]

(* After power-up: the indices start at the left end of their range.       *)
NewFifo(d) ==
  [ memory   |-> [ s \in Slots |-> d ],
    top      |-> 0,
    bottom   |-> 0,
    prev_op  |-> "FIFO_POP",
    data_out |-> d ]

Empty(f) == f.top = f.bottom /\ f.prev_op = "FIFO_POP"
Full(f)  == f.top = f.bottom /\ f.prev_op = "FIFO_PUSH"

Following(s) == (s + 1) % DEPTH

(* Mutant: the last push is forgotten at the next edge.                    *)
SetPrevOpForgets(f, push, pop) == IF push THEN "FIFO_PUSH" ELSE "FIFO_POP"

SetPrevOp(f, push, pop) ==
  IF pop THEN "FIFO_POP" ELSE IF push THEN "FIFO_PUSH" ELSE f.prev_op

(* One edge.  The read and the write process share the memory; they would  *)
(* race for one slot only in a pop from an empty or a push to a full queue.*)
FifoClock(f, push, pop, data_in) ==
  [ memory   |-> IF push THEN [ f.memory EXCEPT ![f.top] = data_in ] ELSE f.memory,
    top      |-> IF push THEN Following(f.top) ELSE f.top,
    bottom   |-> IF pop THEN Following(f.bottom) ELSE f.bottom,
    prev_op  |-> SetPrevOp(f, push, pop),
    data_out |-> IF pop THEN f.memory[f.bottom] ELSE f.data_out ]

(* Number of queued values, and the values, oldest first.                  *)
Queued(f) ==
  IF Full(f) THEN DEPTH ELSE (f.top - f.bottom) % DEPTH

Contents(f) ==
  [ i \in 1 .. Queued(f) |-> f.memory[(f.bottom + i - 1) % DEPTH] ]
==============================================================================
