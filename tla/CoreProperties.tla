--------------------------- MODULE CoreProperties ---------------------------
(***************************************************************************)
(* What the core must guarantee, and how its state stands for the state of *)
(* the in-order machine of Isa.                                            *)
(***************************************************************************)
EXTENDS Core, Sequences

(* The architectural state the core stands for, by which it implements the *)
(* in-order machine of Isa.  An ordinary instruction retires at the edge   *)
(* that latches it into the commit port, a CSR instruction at the edge     *)
(* that brings it into execute.                                            *)

Overlay(f, rd, rd_write, val) ==
  IF rd_write /\ rd # 0 THEN [ f EXCEPT ![rd] = val ] ELSE f

OverlayCsr(f, op) == Overlay(f, op.rd, op.csr /\ op.rd_write, op.val)

ArchRegisters ==
  OverlayCsr(OverlayCsr(OverlayCsr(
    Overlay(registers, commit.rd, commit.rd_write, commit.res), wb), mem), ex)

RowAtAge(a) == IF pntr_end + a < NUM_INSTRUCTIONS THEN pntr_end + a
               ELSE pntr_end + a - NUM_INSTRUCTIONS

TableQueue ==
  [ k \in 1 .. Cardinality({ r \in Rows : uses[r] }) |-> row[RowAtAge(k - 1)] ]

ArchQueue ==
  IF flush THEN << >>
  ELSE TableQueue
       \o (IF count_instruction \/ count_instruction_csr
           THEN << instruction >> ELSE << >>)
       \o (IF state = "rob_empty" THEN << prev_instruction >> ELSE << >>)

Machine == INSTANCE Isa WITH regs <- ArchRegisters, queue <- ArchQueue

(* Whatever the core does out of order, its registers and the instructions *)
(* it holds evolve like those of the in-order machine: every instruction   *)
(* of the right path retires once, in program order, on the registers all  *)
(* older ones left, and nothing in the table behind a taken jump ever does.*)
(* A CSR instruction that decode keeps across the jump passes for one that *)
(* is fetched behind it, since any may be: KeptCsrDropped is about it.     *)
ImplementsIsa == Machine!Spec

(* The table never takes an instruction into a row that is in use: "three  *)
(* rows free", read two edges before the instruction arrives, leaves room  *)
(* for what decode still has.                                              *)
NoOverwrite == count_instruction => ~uses[pntr_start]

(* A row is recycled only at the edge at which the commit port takes over  *)
(* what the row holds.                                                     *)
CommitKept ==
  [][ \A r \in Rows :
        (uses[r] /\ ~uses'[r] /\ ~flush)
          => commit' = [ rd         |-> row[r].rd,
                         rd_write   |-> row[r].rd_write,
                         res        |-> res[r],
                         jump_taken |-> jump_taken[r] ] ]_vars

(* How far the instruction in row r went.                                  *)
Progress(r) ==
  CASE comm[r]            -> 7
    [] wb.num = r         -> 6
    [] mem.num = r        -> 5
    [] ex.num = r         -> 4
    [] execution.num = r  -> 3
    [] pntr_exec = r /\ ~exec[r] -> 2
    [] pntr_nextexec = r  -> 1
    [] OTHER              -> 0

(* Memory operations pass every stage in program order, although the       *)
(* selection skips over instructions that wait for their operands.         *)
MemoryInOrder ==
  \A o, r \in Rows :
    (/\ uses[o] /\ IsMem(row[o].mem_op)
     /\ uses[r] /\ IsMem(row[r].mem_op)
     /\ Age(o) < Age(r) /\ Progress(r) > 0 /\ ~flush)
      => Progress(o) > Progress(r) \/ Progress(o) = 7

ReadsRegister(i, r) ==
  /\ r # 0
  /\ \/ r = i.x_addr /\ (i.x_src = "REG" \/ i.branch # "NONE")
     \/ r = i.y_addr /\ (i.y_src = "REG" \/ i.mem_op = "STORE" \/ i.branch = "CONDITIONAL")

(* An instruction that reads the register file at this edge finds the      *)
(* results of all older instructions there.                                *)
OperandsWritten ==
  \A r, o \in Rows :
    (/\ execution.num = r /\ uses[r] /\ uses[o] /\ Age(o) < Age(r)
     /\ row[o].rd_write)
      => ~ReadsRegister(row[r], row[o].rd)

(* At the edge after a taken jump is committed nothing younger is left:    *)
(* not in decode, not in the table, not in a stage of the pipeline.        *)
SquashComplete ==
  [][ flush => /\ state' = "normal_execution"
               /\ ~count_instruction' /\ ~count_instruction_csr'
               /\ rob_empty'
               /\ \A op \in {ex', mem', wb'} : ~op.count /\ op.mem_op = "NONE" ]_vars

(* A CSR instruction kept back in decode is dropped with everything else   *)
(* behind a taken jump: if it is kept any longer it is executed as soon as *)
(* the table, now reset, is empty (pp_decode 194-211).                     *)
KeptCsrDropped ==
  [][ flush /\ state = "rob_empty" => state' = "normal_execution" ]_vars

(* A result comes back only to a row that was sent and still waits for it. *)
ResultsAwaited ==
  (wb.count /\ wb.num \in Rows /\ ~flush)
     => uses[wb.num] /\ exec[wb.num] /\ ~comm[wb.num]

(* No store behind a taken jump was performed when the jump is committed.  *)
NoWrongPathStore ==
  flush => \A r \in Rows : (uses[r] /\ row[r].mem_op = "STORE") => ~comm[r]

(* A CSR instruction is executed only when nothing older is in flight.     *)
CsrAlone == count_instruction_csr => rob_empty

(* Every instruction leaves the table: nothing waits for an operand, for   *)
(* the memory or for its commit for ever.                                  *)
RowsDrain == \A r \in Rows : uses[r] ~> ~uses[r]

(* A CSR instruction that is kept back is executed, or squashed, and fetch *)
(* goes on.                                                                *)
CsrProceeds == (state = "rob_empty") ~> (state = "normal_execution" /\ ~stall_csr)

(* Nothing in the table and nothing kept back in decode waits for ever.    *)
NothingWaits == RowsDrain /\ CsrProceeds

-----------------------------------------------------------------------------
(***************************************************************************)
(* The inductive invariant of the core when the data memory never makes it *)
(* wait (SingleCycleMemory).  It follows one instruction through the       *)
(* reorder buffer: its row is in use inside the ring, it is selected once, *)
(* it is in one stage of the pipeline at a time, its result comes back to  *)
(* it, and only then is it committed.                                      *)
(***************************************************************************)

(* Every memory operation is answered in its memory stage.  Memory that    *)
(* needs longer freezes a part of the processes only, see the README.      *)
SingleCycleMemory == DmemAcks \subseteq {TRUE}

FreeRows == { r \in Rows : ~uses[r] }

(* The rows in use are those from pntr_end up to pntr_start.               *)
RingInv ==
  \/ pntr_start > pntr_end
     /\ \A r \in Rows : uses[r] <=> (pntr_end <= r /\ r < pntr_start)
  \/ pntr_start < pntr_end
     /\ \A r \in Rows : uses[r] <=> (pntr_end <= r \/ r < pntr_start)
  \/ pntr_start = pntr_end /\ \A r \in Rows : uses[r]
  \/ pntr_start = pntr_end /\ \A r \in Rows : ~uses[r]

(* Fetch is stopped early enough for what decode already holds.            *)
CapacityInv ==
  /\ ~fetch_enable => Cardinality(FreeRows) >= 2
  /\ count_instruction => Cardinality(FreeRows) >= 1

LifeInv == \A r \in Rows : (exec[r] => uses[r]) /\ (comm[r] => exec[r])

CommitInv ==
  /\ pntr_nextend = IF committing THEN Successor(pntr_end) ELSE pntr_end
  /\ committing => uses[pntr_end] /\ comm[pntr_end]

(* A selected row waits for execution.  The hold that follows two memory   *)
(* operations lasts one edge, so it never sees the same row twice.         *)
SelectInv ==
  /\ pntr_nextexec \in Rows =>
       /\ uses[pntr_nextexec] /\ ~exec[pntr_nextexec]
       /\ pntr_nextexec # pntr_exec
  /\ pntr_exec \in Rows =>
       /\ uses[pntr_exec] /\ ~comm[pntr_exec]
       /\ exec[pntr_exec] => pntr_exec = pntr_exec_prev
  /\ multiple_load_op => pntr_exec # pntr_exec_prev \/ pntr_exec = NopRow
  /\ multiple_load_op <=> clk_waiting = 1
  /\ multiple_load_op => multiple_load = 1

Sent(n) == n \in Rows => uses[n] /\ exec[n] /\ ~comm[n]
Apart(m, n) == m \in Rows => m # n

StageInv ==
  /\ Sent(execution.num) /\ Sent(ex.num) /\ Sent(mem.num) /\ Sent(wb.num)
  /\ Apart(execution.num, ex.num) /\ Apart(execution.num, mem.num)
  /\ Apart(execution.num, wb.num) /\ Apart(ex.num, mem.num)
  /\ Apart(ex.num, wb.num) /\ Apart(mem.num, wb.num)
  /\ \A op \in {ex, mem, wb} : op.num \in Rows => op.count

FlushInv == flush <=> commit.jump_taken

(* The whole life of an instruction in the reorder buffer, from its entry  *)
(* to its commit.                                                          *)
CoreInv ==
  /\ RingInv
  /\ CapacityInv
  /\ LifeInv
  /\ CommitInv
  /\ SelectInv
  /\ StageInv
  /\ FlushInv
==============================================================================
