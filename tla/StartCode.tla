----------------------------- MODULE StartCode -----------------------------
(***************************************************************************)
(* The trap entry and exit and the clearing of .bss, src/software/start.S. *)
(* registers maps 1..31 to values, memory maps word addresses (bytes / 4)  *)
(* to values; sp is register 2 and holds a word address.                   *)
(***************************************************************************)
EXTENDS Integers

Frame == 31   \* words of the frame: 124 bytes

(* Mutant: the last register is loaded from its neighbour's word.          *)
SlotWrong(r) == IF r = 31 THEN 29 ELSE r - 1

Slot(r) == r - 1   \* word of the frame a register is kept in

sp(registers) == registers[2]

(* _machine_exception_handler, up to the call.                             *)
SaveRegisters(machine) ==
  LET base  == sp(machine.registers) - Frame
      lower == [machine.registers EXCEPT ![2] = base]
  IN  [ registers |-> lower,
        memory |-> [ a \in DOMAIN machine.memory |->
                       IF a \in base..(base + Frame - 1)
                       THEN lower[a - base + 1] ELSE machine.memory[a] ] ]

(* _machine_exception_return: every register but sp, then sp.              *)
RestoreRegisters(machine) ==
  LET base == sp(machine.registers)
  IN  [machine EXCEPT !.registers =
         [ r \in 1..31 |-> IF r = 2 THEN base + Frame
                           ELSE machine.memory[base + Slot(r)] ]]

(* clear_bss                                                               *)
ClearBss(memory, begin, end) ==
  [ a \in DOMAIN memory |-> IF begin <= a /\ a < end THEN 0 ELSE memory[a] ]

=============================================================================
