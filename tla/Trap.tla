-------------------------------- MODULE Trap --------------------------------
(***************************************************************************)
(* The way into a trap: how the exception a stage of execution raises      *)
(* reaches the registers ie, ie1, mcause and mepc (pp_execute.vhd,         *)
(* pp_memory.vhd, pp_writeback.vhd, the flushes of pp_core.vhd, and        *)
(* pp_csr_unit.vhd). No stage is stalled. A trap is a record of the        *)
(* registers on the way, and TrapClock gives it after an edge with the     *)
(* operation that decode or the reorder buffer hands to execute, the       *)
(* request line of an interrupt that mie enables, and branch_taken, by     *)
(* which the reorder buffer commits a jump. Operations that write mstatus  *)
(* stand for all that write a register; mret is left out.                  *)
(***************************************************************************)
EXTENDS Integers, Sequences

Bubble   == [ type |-> "BUBBLE", pc |-> 0 ]
Add(pc)  == [ type |-> "ADD", pc |-> pc ]
Invalid(pc) == [ type |-> "INVALID", pc |-> pc ]      \* decode_exception
StatusWrite(pc, value) == [ type |-> "CSR", pc |-> pc, value |-> value ]

NoWrite == [ csr |-> "NONE", data |-> 0, count_csr |-> FALSE ]
NoTrap  == [ exception |-> FALSE ]
NoCause == "NONE"

NewTrap == [ execute |-> Bubble,
             memory |-> NoWrite, mem_exception |-> NoTrap,
             writeback |-> NoWrite, wb_exception |-> NoTrap,
             ie |-> FALSE, ie1 |-> FALSE, mcause |-> NoCause, mepc |-> 0 ]

(* pp_execute                                                              *)

exception_cause(t, irq) ==
  IF irq /\ t.ie THEN "IRQ"
  ELSE IF t.execute.type = "INVALID" THEN "INVALID_INSTR" ELSE NoCause

exception_taken(t, irq) == exception_cause(t, irq) # NoCause

(* pp_core: an exception, and a jump that is committed, flush every stage  *)
(* at the edge that takes it.                                              *)
flush_ex(t, irq, branch_taken)  == branch_taken \/ exception_taken(t, irq)
flush_mem(t, irq, branch_taken) == branch_taken \/ exception_taken(t, irq)
flush_wb(t, irq, branch_taken)  == branch_taken \/ exception_taken(t, irq)

ExecuteClock(t, irq, branch_taken, op) ==
  IF flush_ex(t, irq, branch_taken) THEN Bubble ELSE op

(* pp_memory. The context is registered by a process that has no flush.    *)
MepcWrite(t) == [ csr |-> "MEPC", data |-> t.execute.pc, count_csr |-> FALSE ]

InstructionWrite(t) ==
  IF t.execute.type = "CSR"
  THEN [ csr |-> "MSTATUS", data |-> t.execute.value, count_csr |-> TRUE ]
  ELSE NoWrite

MemoryClock(t, irq, branch_taken) ==
  CASE flush_mem(t, irq, branch_taken) -> NoWrite
    [] ~flush_mem(t, irq, branch_taken) /\ exception_taken(t, irq)  -> MepcWrite(t)
    [] ~flush_mem(t, irq, branch_taken) /\ ~exception_taken(t, irq) -> InstructionWrite(t)

(* Mutant: the old enable bit is not kept.                                 *)
update_exception_contextOff(t, irq) ==
  IF exception_taken(t, irq)
  THEN [ exception |-> TRUE, ie1 |-> FALSE, cause |-> exception_cause(t, irq) ]
  ELSE NoTrap

update_exception_context(t, irq) ==
  IF exception_taken(t, irq)
  THEN [ exception |-> TRUE, ie1 |-> t.ie, cause |-> exception_cause(t, irq) ]
  ELSE NoTrap

(* pp_writeback                                                            *)

(* Mutant: the context of a trap is not passed on.                         *)
WritebackClockEmpty(t, irq, branch_taken) ==
  IF flush_wb(t, irq, branch_taken)
  THEN [ write |-> [t.writeback EXCEPT !.count_csr = FALSE], exception |-> NoTrap ]
  ELSE [ write |-> t.memory, exception |-> NoTrap ]

WritebackClock(t, irq, branch_taken) ==
  IF flush_wb(t, irq, branch_taken)
  THEN [ write |-> [t.writeback EXCEPT !.count_csr = FALSE], exception |-> NoTrap ]
  ELSE [ write |-> t.memory, exception |-> t.mem_exception ]

(* pp_csr_unit: a register is written for a CSR instruction only; where an *)
(* exception writes the status too, the instruction's write comes second.  *)

Context(t) ==
  IF t.wb_exception.exception
  THEN [ ie |-> FALSE, ie1 |-> t.wb_exception.ie1, mcause |-> t.wb_exception.cause ]
  ELSE [ ie |-> t.ie, ie1 |-> t.ie1, mcause |-> t.mcause ]

Writes(t, csr) == t.writeback.csr = csr /\ t.writeback.count_csr

CsrClock(t) ==
  LET c == Context(t)
  IN  [ ie     |-> IF Writes(t, "MSTATUS") THEN t.writeback.data.ie ELSE c.ie,
        ie1    |-> IF Writes(t, "MSTATUS") THEN t.writeback.data.ie1 ELSE c.ie1,
        mcause |-> c.mcause,
        mepc   |-> IF Writes(t, "MEPC") THEN t.writeback.data ELSE t.mepc ]

TrapClock(t, irq, branch_taken, op) ==
  LET w == WritebackClock(t, irq, branch_taken)
      c == CsrClock(t)
  IN  [ execute |-> ExecuteClock(t, irq, branch_taken, op),
        memory |-> MemoryClock(t, irq, branch_taken),
        mem_exception |-> update_exception_context(t, irq),
        writeback |-> w.write, wb_exception |-> w.exception,
        ie |-> c.ie, ie1 |-> c.ie1, mcause |-> c.mcause, mepc |-> c.mepc ]

(* The trap after an edge, and after a sequence of edges.                  *)
AfterEdge(t, edge) == TrapClock(t, edge.irq, edge.branch_taken, edge.op)

TrapAfter(t, edges) ==
  LET after[n \in 0..Len(edges)] ==
        IF n = 0 THEN t ELSE AfterEdge(after[n - 1], edges[n])
  IN  after[Len(edges)]

=============================================================================
