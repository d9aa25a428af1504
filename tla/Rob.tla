--------------------------------- MODULE Rob ---------------------------------
(***************************************************************************)
(* The reorder buffer of the out-of-order core (src/src/pp_rob.vhd).       *)
(*                                                                         *)
(* Every clocked process of the entity is one operator below, named after  *)
(* it, that says what its signals become at the next rising edge of the    *)
(* clock; an edge is the conjunction of all of them (RobClock).  Signals   *)
(* keep their names.  A std_logic is a boolean.                            *)
(*                                                                         *)
(* The table is a ring.  Decoded instructions enter at pntr_start, the     *)
(* oldest one is at pntr_end, and row NUM_INSTRUCTIONS is a fixed NOP      *)
(* outside the ring that stands for "no instruction".                      *)
(***************************************************************************)
EXTENDS PotatoTypes, FiniteSets

CONSTANT NUM_INSTRUCTIONS   \* rows of the ring

(* With fewer rows the "three rows free" test of fulltable_evaluation      *)
(* never lets an instruction in.  The core instantiates sixteen.           *)
ASSUME NumInstructionsAssumption ==
  NUM_INSTRUCTIONS \in Nat /\ NUM_INSTRUCTIONS >= 3

VARIABLES
  row,                \* instruction fields of every row, the NOP row included
  uses,               \* the row holds an instruction
  exec,               \* ... that was sent to the execute stage
  comm,               \* ... whose result came back
  p1, p2,             \* ... whose first, second operand has no RAW hazard
  res,                \* ... and its result
  jump_taken,         \* ... and whether it jumps
  pntr_start,         \* first free row
  pntr_nextexec,      \* row chosen to be executed next
  pntr_exec,          \* row being sent to execution
  pntr_exec_prev,     \* row that was sent one edge earlier
  pntr_end,           \* oldest row
  pntr_nextend,       \* what pntr_end becomes
  committing,         \* the oldest row is being committed
  multiple_load,      \* two memory operations follow each other
  clk_waiting,        \* edges waited because of that
  multiple_load_op,   \* the selection is held back because of that
  fetch_enable,       \* registered output: TRUE stops fetch and decode
  execution,          \* registered output: the instruction to execute
  commit,             \* registered output: the instruction to commit
  flush               \* a taken jump was committed: reset the table

robVars ==
  << row, uses, exec, comm, p1, p2, res, jump_taken, pntr_start,
     pntr_nextexec, pntr_exec, pntr_exec_prev, pntr_end, pntr_nextend,
     committing, multiple_load, clk_waiting, multiple_load_op, fetch_enable,
     execution, commit, flush >>

Rows    == 0 .. NUM_INSTRUCTIONS - 1
NopRow  == NUM_INSTRUCTIONS
AllRows == Rows \union {NopRow}

(* Mutant: wraps one row late, over the NOP row.                           *)
SuccessorLate(r) == IF r = NUM_INSTRUCTIONS THEN 0 ELSE r + 1

Successor(r) == IF r = NUM_INSTRUCTIONS - 1 THEN 0 ELSE r + 1

(* Position of row r counted from the oldest row: every loop of the entity *)
(* over the table starts at pntr_end and wraps at the last row.            *)
Age(r) ==
  IF r >= pntr_end THEN r - pntr_end ELSE r - pntr_end + NUM_INSTRUCTIONS

Commits == [ rd : Registers, rd_write : BOOLEAN, res : Values, jump_taken : BOOLEAN ]
NoCommit == [ rd |-> 0, rd_write |-> FALSE, res |-> 0, jump_taken |-> FALSE ]

Executions == [ num : AllRows, ins : Instructions ]
NoExecution == [ num |-> NopRow, ins |-> Nop ]

rob_empty == \A r \in Rows : ~uses[r]

(* The values reset gives, which are those of the internal reset too.      *)
RobInit ==
  /\ row = [ r \in AllRows |-> Nop ]
  /\ uses = [ r \in Rows |-> FALSE ]
  /\ exec = [ r \in Rows |-> FALSE ]
  /\ comm = [ r \in Rows |-> FALSE ]
  /\ p1 = [ r \in Rows |-> FALSE ]
  /\ p2 = [ r \in Rows |-> FALSE ]
  /\ res = [ r \in Rows |-> 0 ]
  /\ jump_taken = [ r \in Rows |-> FALSE ]
  /\ pntr_start = 0
  /\ pntr_nextexec = NopRow
  /\ pntr_exec = NopRow
  /\ pntr_exec_prev = NopRow
  /\ pntr_end = 0
  /\ pntr_nextend = 0
  /\ committing = FALSE
  /\ multiple_load = 0
  /\ clk_waiting = 0
  /\ multiple_load_op = FALSE
  /\ fetch_enable = FALSE
  /\ execution = NoExecution
  /\ commit = NoCommit
  /\ flush = FALSE

RobReset ==
  /\ row' = [ r \in AllRows |-> Nop ]
  /\ uses' = [ r \in Rows |-> FALSE ]
  /\ exec' = [ r \in Rows |-> FALSE ]
  /\ comm' = [ r \in Rows |-> FALSE ]
  /\ p1' = [ r \in Rows |-> FALSE ]
  /\ p2' = [ r \in Rows |-> FALSE ]
  /\ res' = [ r \in Rows |-> 0 ]
  /\ jump_taken' = [ r \in Rows |-> FALSE ]
  /\ pntr_start' = 0
  /\ pntr_nextexec' = NopRow
  /\ pntr_exec' = NopRow
  /\ pntr_exec_prev' = NopRow
  /\ pntr_end' = 0
  /\ pntr_nextend' = 0
  /\ committing' = FALSE
  /\ multiple_load' = 0
  /\ clk_waiting' = 0
  /\ multiple_load_op' = FALSE
  /\ fetch_enable' = FALSE
  /\ execution' = NoExecution
  /\ commit' = NoCommit
  /\ flush' = FALSE

------------------------------------------------------------------------------
(* Allocation and release of rows.  None of these processes looks at stall.*)

(* Clears the row of the oldest instruction while it is committed.         *)
Release(f, value) == IF committing THEN [ f EXCEPT ![pntr_end] = value ] ELSE f

(* Mutant: stops fetch one row later.                                      *)
fulltable_late ==
  fetch_enable' = (Cardinality({ r \in Rows : ~uses[r] }) < 2)

fulltable_evaluation ==
  fetch_enable' = (Cardinality({ r \in Rows : ~uses[r] }) < 3)

nextstart_pntrs_evaluation(count) ==
  pntr_start' = IF count THEN Successor(pntr_start) ELSE pntr_start

input_instrs_managing(count, ins) ==
  row' = Release(IF count THEN [ row EXCEPT ![pntr_start] = ins ] ELSE row, Nop)

uses_flag_managing(count) ==
  uses' = Release(IF count THEN [ uses EXCEPT ![pntr_start] = TRUE ] ELSE uses,
                  FALSE)

(* Hazards of row r against every older row, whatever that row holds: the  *)
(* destination is compared even if it is x0 or not written.                *)
(* Mutant: the nested loop starts behind the oldest row.                   *)
OlderRowsButOldest(r) == { o \in Rows : Age(o) < Age(r) /\ o # pntr_end }

OlderRows(r) == { o \in Rows : Age(o) < Age(r) }
HazardSrc1(r) == \E o \in OlderRows(r) : row[r].x_addr = row[o].rd
HazardSrc2(r) == \E o \in OlderRows(r) : row[r].y_addr = row[o].rd
HazardMem(r) ==
  /\ row[r].mem_op = "LOAD"
  /\ \E o \in OlderRows(r) : row[r].x_addr = row[o].x_addr /\ row[r].imm = row[o].imm

IsNop(i) ==
  /\ i.alu_op \in {"ALU_ADD", "ALU_NOP"}
  /\ i.rd = 0 /\ i.x_addr = 0
  /\ i.y_addr = 0 \/ i.y_src = "IMM"

(* Mutant: forgets that a store reads its second register.                 *)
IgnoresSrc2Store(i) == i.y_src \in {"IMM", "SHAMT"}

IgnoresSrc2(i) == i.y_src \in {"IMM", "SHAMT"} /\ i.mem_op # "STORE"

p1p2_flags_managing ==
  LET Oldest(r) == r = pntr_end
  IN  /\ p1' = [ r \in Rows |->
                   IF Oldest(r) THEN ~committing
                   ELSE ~IsNop(row[r]) /\ ~HazardSrc1(r) /\ ~HazardMem(r) ]
      /\ p2' = [ r \in Rows |->
                   IF Oldest(r) THEN ~committing
                   ELSE /\ ~HazardMem(r)
                        /\ IgnoresSrc2(row[r]) \/ (~IsNop(row[r]) /\ ~HazardSrc2(r)) ]

------------------------------------------------------------------------------
(* Selection of the instruction to execute, frozen by stall.               *)

(* Mutant: forgets the row that is on its way to execution.                *)
WaitingOrSelected == { r \in Rows : uses[r] /\ ~exec[r] /\ r # pntr_nextexec }

(* Rows in use that were not selected yet.                                 *)
Waiting == { r \in Rows : uses[r] /\ ~exec[r] /\ r # pntr_exec /\ r # pntr_nextexec }

HasOperands(r) == p1[r] /\ p2[r]

(* Mutant: only loads block.                                               *)
MemBlockedByLoad(r) ==
  \E o \in Waiting : Age(o) < Age(r) /\ IsLoad(row[o].mem_op) /\ ~HasOperands(o)

(* Memory operations keep their order: one that waits for its operands     *)
(* blocks the younger ones.                                                *)
MemBlocked(r) ==
  \E o \in Waiting : Age(o) < Age(r) /\ IsMem(row[o].mem_op) /\ ~HasOperands(o)

Executable ==
  { r \in Waiting : HasOperands(r) /\ (IsMem(row[r].mem_op) => ~MemBlocked(r)) }

SelectedRow ==
  IF Executable = {} THEN NopRow
  ELSE CHOOSE r \in Executable : \A o \in Executable : Age(r) <= Age(o)

output_instrs_evaluation(stall) ==
  pntr_nextexec' =
    IF stall \/ multiple_load_op THEN pntr_nextexec ELSE SelectedRow

sequential_process(stall) ==
  /\ pntr_exec' = IF stall \/ multiple_load_op THEN pntr_exec ELSE pntr_nextexec
  /\ pntr_end'  = IF stall THEN pntr_end ELSE pntr_nextend

(* After two memory operations in a row the selection is held for an edge. *)
check_multiple_loads_op(stall) ==
  LET Consecutive ==
        /\ pntr_exec # pntr_exec_prev
        /\ IsMem(row[pntr_exec].mem_op) /\ IsMem(row[pntr_nextexec].mem_op)
  IN  IF stall
      THEN UNCHANGED << multiple_load, clk_waiting, multiple_load_op >>
      ELSE IF multiple_load < 1
      THEN /\ multiple_load' = IF Consecutive THEN 1 ELSE 0
           /\ UNCHANGED << clk_waiting, multiple_load_op >>
      ELSE IF clk_waiting < 1
      THEN /\ clk_waiting' = 1
           /\ multiple_load_op' = TRUE
           /\ UNCHANGED multiple_load
      ELSE /\ clk_waiting' = 0
           /\ multiple_load_op' = FALSE
           /\ multiple_load' = 0

(* A row is sent once: while pntr_exec stays on it a bubble follows.       *)
execution_output(stall) ==
  IF stall THEN UNCHANGED << execution, pntr_exec_prev >>
  ELSE /\ execution' = IF pntr_exec # pntr_exec_prev
                       THEN [ num |-> pntr_exec, ins |-> row[pntr_exec] ]
                       ELSE NoExecution
       /\ pntr_exec_prev' = pntr_exec

(* Mutant: a commit leaves the flag of its row.                            *)
exec_flag_kept(stall) ==
  exec' = IF stall THEN exec ELSE [ r \in Rows |-> exec[r] \/ r = pntr_exec ]

exec_flag_managing(stall) ==
  exec' = IF stall THEN exec
          ELSE Release([ r \in Rows |-> exec[r] \/ r = pntr_exec ], FALSE)

------------------------------------------------------------------------------
(* Completion and commit, frozen by stall; done is what writeback returns. *)

Completes(done) == done.num # NopRow /\ done.count

input_completed_instr_managing(stall, done) ==
  res' = IF ~stall /\ Completes(done)
         THEN [ res EXCEPT ![done.num] = done.res ] ELSE res

jump_taken_flag_managing(stall, done) ==
  jump_taken' =
    IF stall THEN jump_taken
    ELSE Release(IF Completes(done)
                 THEN [ jump_taken EXCEPT ![done.num] = done.jump_taken ]
                 ELSE jump_taken, FALSE)

comm_flag_managing(stall, done) ==
  comm' = IF stall THEN comm
          ELSE Release(IF Completes(done)
                       THEN [ comm EXCEPT ![done.num] = TRUE ] ELSE comm, FALSE)

(* Mutant: forgets that a row is being committed already.                  *)
CommittableAgain(done) == comm[pntr_end] \/ done.num = pntr_end

(* The oldest row may be committed: it was completed and is not being      *)
(* committed already, or the next one is completed too, or its completion  *)
(* arrives at this edge.                                                   *)
Committable(done) ==
  \/ comm[pntr_end] /\ ~committing
  \/ comm[pntr_end] /\ comm[pntr_nextend]
  \/ done.num = pntr_end

pntr_nextend_evaluation(stall, done) ==
  IF stall THEN UNCHANGED << pntr_nextend, committing >>
  ELSE /\ committing' = Committable(done)
       /\ pntr_nextend' = IF Committable(done) THEN Successor(pntr_nextend)
                          ELSE pntr_nextend

commit_output(stall) ==
  commit' =
    IF stall THEN commit
    ELSE IF committing
    THEN [ rd         |-> row[pntr_end].rd,
           rd_write   |-> row[pntr_end].rd_write,
           res        |-> res[pntr_end],
           jump_taken |-> jump_taken[pntr_end] ]
    ELSE NoCommit

(* Not frozen by stall.                                                    *)
flush_generation ==
  flush' = IF committing THEN jump_taken[pntr_end] ELSE flush

------------------------------------------------------------------------------
(* One rising edge outside reset: an instruction ins arrives from decode   *)
(* when count holds, done arrives from writeback, stall comes from memory. *)
RobStep(stall, count, ins, done) ==
  /\ ~flush
  /\ fulltable_evaluation
  /\ nextstart_pntrs_evaluation(count)
  /\ input_instrs_managing(count, ins)
  /\ uses_flag_managing(count)
  /\ p1p2_flags_managing
  /\ output_instrs_evaluation(stall)
  /\ sequential_process(stall)
  /\ check_multiple_loads_op(stall)
  /\ execution_output(stall)
  /\ exec_flag_managing(stall)
  /\ input_completed_instr_managing(stall, done)
  /\ jump_taken_flag_managing(stall, done)
  /\ comm_flag_managing(stall, done)
  /\ pntr_nextend_evaluation(stall, done)
  /\ commit_output(stall)
  /\ flush_generation

(* reset_internal <= reset or flush                                        *)
RobClock(stall, count, ins, done) ==
  \/ RobStep(stall, count, ins, done)
  \/ flush /\ RobReset

RobTypeOK ==
  /\ row \in [ AllRows -> Instructions ]
  /\ uses \in [ Rows -> BOOLEAN ]
  /\ exec \in [ Rows -> BOOLEAN ]
  /\ comm \in [ Rows -> BOOLEAN ]
  /\ p1 \in [ Rows -> BOOLEAN ]
  /\ p2 \in [ Rows -> BOOLEAN ]
  /\ res \in [ Rows -> Values ]
  /\ jump_taken \in [ Rows -> BOOLEAN ]
  /\ pntr_start \in Rows
  /\ pntr_nextexec \in AllRows
  /\ pntr_exec \in AllRows
  /\ pntr_exec_prev \in AllRows
  /\ pntr_end \in Rows
  /\ pntr_nextend \in Rows
  /\ committing \in BOOLEAN
  /\ multiple_load \in 0 .. 1
  /\ clk_waiting \in 0 .. 1
  /\ multiple_load_op \in BOOLEAN
  /\ fetch_enable \in BOOLEAN
  /\ execution \in Executions
  /\ commit \in Commits
  /\ flush \in BOOLEAN
==============================================================================
