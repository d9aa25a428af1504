------------------------------ MODULE CoreProofs ------------------------------
(***************************************************************************)
(* Proofs about the core, for every number of rows, every set of registers,*)
(* every word size and every program.                                      *)
(***************************************************************************)
EXTENDS CoreProperties, FiniteSetTheorems, SequenceTheorems, WellFoundedInduction, TLAPS

USE NumInstructionsAssumption, LengthMainAssumption

------------------------------------------------------------------------------
(* Typing.                                                                 *)

(* The NOP is an instruction.                                              *)
LEMMA NopTyped == Nop \in Instructions
  BY RegistersAssumption, WordAssumption
     DEF Nop, Instructions, InstructionFields, AluOperations, OperandSources, MemoryOperations,
         BranchTypes, Values

(* A bubble is an operation of a stage.                                    *)
LEMMA BubbleTyped == Bubble \in Operations
  BY RegistersAssumption, WordAssumption
     DEF Bubble, Operations, MemoryOperations, Values

(* What the ALU computes is a word.                                        *)
LEMMA AluResultTyped ==
  ASSUME NEW i \in Instructions, NEW a \in Values, NEW b \in Values
  PROVE  AluResult(i, a, b) \in Values
  <1>1. i.imm \in Values
    BY DEF Instructions, InstructionFields
  <1> DEFINE x == Operand(i.x_src, a, i.imm)
             y == Operand(i.y_src, b, i.imm)
  <1>2. 0 \in Values /\ 1 % Word \in Values
    BY WordAssumption DEF Values
  <1>3. x \in Values /\ y \in Values
    BY <1>1, <1>2 DEF Operand
  <1>4. (x + y) % Word \in Values /\ (x - y) % Word \in Values
    <2> HIDE DEF x, y
    <2> QED BY <1>3, WordAssumption DEF Values
  <1> QED
    BY <1>2, <1>4 DEF AluResult

(* The NOP row is outside the ring.                                        *)
LEMMA RowsFacts ==
  /\ Rows \subseteq AllRows /\ NopRow \in AllRows /\ NopRow \notin Rows
  /\ \A r \in AllRows : r # NopRow => r \in Rows
  /\ \A r \in Rows : Successor(r) \in Rows
  /\ 0 \in Rows
  BY DEF Rows, AllRows, NopRow, Successor

(* A nonempty set has a member of least age: inclusion of the intervals    *)
(* below the ages is well-founded.                                         *)
LEMMA LeastMember ==
  ASSUME NEW S, S # {}, NEW age \in [ S -> Nat ]
  PROVE  \E r \in S : \A o \in S : age[r] <= age[o]
  <1> DEFINE Below(n) == 0 .. n - 1
             T == { Below(age[r]) : r \in S }
  <1>1. \A n \in Nat : IsFiniteSet(Below(n)) /\ Below(n) \subseteq Nat
    BY FS_Interval
  <1>2. T \subseteq FiniteSubsetsOf(Nat) /\ T # {}
    BY <1>1 DEF FiniteSubsetsOf
  <1>3. PICK b \in T : \A c \in T : << c, b >> \notin StrictSubsetOrdering(Nat)
    <2> HIDE DEF T
    <2> QED BY <1>2, FS_StrictSubsetOrderingWellFounded, WFMin
  <1>4. PICK r \in S : b = Below(age[r])
    OBVIOUS
  <1>5. ASSUME NEW o \in S, age[o] < age[r]
        PROVE  FALSE
    <2>1. Below(age[o]) \subseteq Below(age[r]) /\ Below(age[o]) # Below(age[r])
      <3>1. age[o] \in Below(age[r]) /\ age[o] \notin Below(age[o])
        BY <1>5
      <3> QED
        BY <1>5, <3>1
    <2>2. Below(age[o]) \in SUBSET Nat /\ Below(age[r]) \in SUBSET Nat
      BY <1>1
    <2>3. << Below(age[o]), Below(age[r]) >> \in StrictSubsetOrdering(Nat)
      <3> HIDE DEF Below
      <3> QED BY <2>1, <2>2 DEF StrictSubsetOrdering
    <2> QED
      BY <1>3, <1>4, <2>3
  <1> QED
    BY <1>5

(* Ages are natural numbers.                                               *)
LEMMA AgeTyped ==
  ASSUME pntr_end \in Rows
  PROVE  \A r \in Rows : Age(r) \in Nat
  BY DEF Rows, Age

(* The selected row is the oldest of those that may be executed, or none.  *)
LEMMA SelectedRowTyped ==
  ASSUME pntr_end \in Rows
  PROVE  /\ SelectedRow \in Executable \union {NopRow}
         /\ \A o \in Executable : Age(SelectedRow) <= Age(o)
  <1>1. CASE Executable = {}
    BY <1>1 DEF SelectedRow
  <1>2. CASE Executable # {}
    <2> DEFINE age == [ r \in Executable |-> Age(r) ]
    <2>1. age \in [ Executable -> Nat ]
      BY AgeTyped DEF Executable, Waiting
    <2>2. \E r \in Executable : \A o \in Executable : age[r] <= age[o]
      <3> HIDE DEF age
      <3> QED BY <1>2, <2>1, LeastMember
    <2> QED
      BY <1>2, <2>2 DEF SelectedRow
  <1> QED
    BY <1>1, <1>2

(* Every signal of the reorder buffer keeps its range.                     *)
LEMMA RobTyping ==
  ASSUME TypeOK, NEW stall \in BOOLEAN,
         RobClock(stall, count_instruction, instruction, done)
  PROVE  RobTypeOK'
  <1> USE RowsFacts
  <1>1. RobTypeOK
    BY DEF TypeOK
  <1>2. /\ instruction \in Instructions
        /\ done.num \in AllRows /\ done.res \in Values /\ done.jump_taken \in BOOLEAN
    BY DEF TypeOK, DecodeTypeOK, PipelineTypeOK, Operations, done, AllRows, Rows, NopRow
  <1>3. CASE RobReset
    <2>1. NoExecution \in Executions /\ NoCommit \in Commits /\ 0 \in Values
      BY NopTyped, RegistersAssumption, WordAssumption
         DEF NoExecution, Executions, NoCommit, Commits, Values
    <2>2. /\ row' \in [ AllRows -> Instructions ]
          /\ uses' \in [ Rows -> BOOLEAN ] /\ exec' \in [ Rows -> BOOLEAN ]
          /\ comm' \in [ Rows -> BOOLEAN ] /\ p1' \in [ Rows -> BOOLEAN ]
          /\ p2' \in [ Rows -> BOOLEAN ] /\ res' \in [ Rows -> Values ]
          /\ jump_taken' \in [ Rows -> BOOLEAN ]
      BY <1>3, <2>1, NopTyped DEF RobReset
    <2>3. multiple_load' \in 0 .. 1 /\ clk_waiting' \in 0 .. 1
      BY <1>3 DEF RobReset
    <2> QED
      BY <1>3, <2>1, <2>2, <2>3, Zenon DEF RobReset, RobTypeOK
  <1>4. CASE RobStep(stall, count_instruction, instruction, done)
    <2>1. row' \in [ AllRows -> Instructions ]
      BY <1>1, <1>2, <1>4, NopTyped
         DEF RobTypeOK, RobStep, input_instrs_managing, Release
    <2>2. uses' \in [ Rows -> BOOLEAN ]
      BY <1>1, <1>4 DEF RobTypeOK, RobStep, uses_flag_managing, Release
    <2>3. exec' \in [ Rows -> BOOLEAN ]
      BY <1>1, <1>4 DEF RobTypeOK, RobStep, exec_flag_managing, Release
    <2>4. comm' \in [ Rows -> BOOLEAN ]
      BY <1>1, <1>2, <1>4 DEF RobTypeOK, RobStep, comm_flag_managing, Release, Completes
    <2>5. p1' \in [ Rows -> BOOLEAN ] /\ p2' \in [ Rows -> BOOLEAN ]
      BY <1>1, <1>4 DEF RobTypeOK, RobStep, p1p2_flags_managing, IsNop, HazardSrc1,
                        HazardSrc2, HazardMem, IgnoresSrc2
    <2>6. res' \in [ Rows -> Values ]
      BY <1>1, <1>2, <1>4
         DEF RobTypeOK, RobStep, input_completed_instr_managing, Completes
    <2>7. jump_taken' \in [ Rows -> BOOLEAN ]
      BY <1>1, <1>2, <1>4
         DEF RobTypeOK, RobStep, jump_taken_flag_managing, Release, Completes
    <2>8. pntr_start' \in Rows
      BY <1>1, <1>4 DEF RobTypeOK, RobStep, nextstart_pntrs_evaluation
    <2>9. pntr_nextexec' \in AllRows
      BY <1>1, <1>4, SelectedRowTyped
         DEF RobTypeOK, RobStep, output_instrs_evaluation, Executable, Waiting
    <2>10. pntr_exec' \in AllRows /\ pntr_end' \in Rows
      BY <1>1, <1>4 DEF RobTypeOK, RobStep, sequential_process
    <2>11. pntr_exec_prev' \in AllRows /\ execution' \in Executions
      BY <1>1, <1>4, NopTyped
         DEF RobTypeOK, RobStep, execution_output, Executions, NoExecution
    <2>12. pntr_nextend' \in Rows /\ committing' \in BOOLEAN
      BY <1>1, <1>4 DEF RobTypeOK, RobStep, pntr_nextend_evaluation, Committable
    <2>13. /\ multiple_load' \in 0 .. 1 /\ clk_waiting' \in 0 .. 1
           /\ multiple_load_op' \in BOOLEAN
      <3>1. /\ multiple_load \in 0 .. 1 /\ clk_waiting \in 0 .. 1
            /\ multiple_load_op \in BOOLEAN
        BY <1>1 DEF RobTypeOK
      <3>2. check_multiple_loads_op(stall)
        BY <1>4 DEF RobStep
      <3>3. multiple_load' \in 0 .. 1 /\ clk_waiting' \in 0 .. 1
        BY <3>1, <3>2 DEF check_multiple_loads_op
      <3>4. multiple_load_op' \in BOOLEAN
        BY <3>1, <3>2 DEF check_multiple_loads_op
      <3> QED
        BY <3>3, <3>4
    <2>14. fetch_enable' \in BOOLEAN
      BY <1>4 DEF RobStep, fulltable_evaluation
    <2>15. commit' \in Commits
      BY <1>1, <1>4, RegistersAssumption, WordAssumption
         DEF RobTypeOK, RobStep, commit_output, Commits, NoCommit, Values, Instructions, InstructionFields
    <2>16. flush' \in BOOLEAN
      BY <1>1, <1>4 DEF RobTypeOK, RobStep, flush_generation
    <2> QED
      BY <2>1, <2>2, <2>3, <2>4, <2>5, <2>6, <2>7, <2>8, <2>9, <2>10, <2>11,
         <2>12, <2>13, <2>14, <2>15, <2>16 DEF RobTypeOK
  <1> QED
    BY <1>3, <1>4 DEF RobClock

(* So does every register of decode.                                       *)
LEMMA DecodeTyping ==
  ASSUME TypeOK, NEW squash \in BOOLEAN, NEW imem_ack \in BOOLEAN,
         NEW ins \in Instructions,
         DecodeClock(squash, stall_id, Delivers(imem_ack), ins, rob_empty)
  PROVE  DecodeTypeOK'
  <1> DEFINE ready == Delivers(imem_ack)
  <1>1. ready \in BOOLEAN /\ rob_empty \in BOOLEAN
    BY DEF Delivers, rob_empty
  <1>2. DecodeTypeOK
    BY DEF TypeOK
  <1>3. CASE DecodeFlush
    BY <1>3, NopTyped DEF DecodeFlush, DecodeTypeOK, HandOn, Enter, DecodeStates
  <1> HIDE DEF ready
  <1>4. CASE DecodeIdle(stall_id, ready)
    BY <1>2, <1>4, NopTyped DEF DecodeIdle, DecodeTypeOK, HandOn
  <1>5. CASE DecodeOrdinary(stall_id, ready, ins)
    BY <1>5, NopTyped DEF DecodeOrdinary, DecodeTypeOK, HandOn, Enter, DecodeStates
  <1>6. CASE DecodeCsr(stall_id, ready, ins, rob_empty)
    BY <1>1, <1>2, <1>6, NopTyped DEF DecodeCsr, DecodeTypeOK, HandOn, Enter, DecodeStates
  <1>7. CASE WaitRobEmpty(rob_empty)
    BY <1>1, <1>2, <1>7, NopTyped DEF WaitRobEmpty, DecodeTypeOK, HandOn, Enter, DecodeStates
  <1>8. CASE CsrExecution(ready, ins)
    BY <1>1, <1>8, NopTyped DEF CsrExecution, DecodeTypeOK, HandOn, Enter, DecodeStates
  <1> QED
    BY <1>3, <1>4, <1>5, <1>6, <1>7, <1>8 DEF DecodeClock, ready

(* So does every register of the pipeline.                                 *)
LEMMA PipelineTyping ==
  ASSUME TypeOK, NEW squash \in BOOLEAN, NEW stall \in BOOLEAN,
         NEW csr_value \in Values, NEW load_value \in Values,
         PipelineClock(squash, stall, commit, execution, count_instruction_csr,
                       instruction, csr_value, load_value)
  PROVE  PipelineTypeOK'
  <1>1. /\ registers \in [ Registers -> Values ]
        /\ ex \in Operations /\ mem \in Operations /\ wb \in Operations
        /\ commit.rd \in Registers /\ commit.res \in Values
        /\ execution.num \in 0 .. LENGTH_MAIN /\ execution.ins \in Instructions
        /\ count_instruction_csr \in BOOLEAN /\ instruction \in Instructions
    BY DEF TypeOK, PipelineTypeOK, RobTypeOK, DecodeTypeOK, Commits, Executions,
           AllRows, Rows, NopRow
  <1>2. registers' \in [ Registers -> Values ]
    BY <1>1 DEF PipelineClock, WriteRegister, Operations
  <1> DEFINE issued == Issued(execution, count_instruction_csr, instruction, csr_value)
  <1>3. issued \in Operations
    <2> DEFINE i == IF count_instruction_csr THEN instruction ELSE execution.ins
               a == registers'[i.x_addr]
               b == registers'[i.y_addr]
    <2>1. i \in Instructions
      BY <1>1
    <2>2. a \in Values /\ b \in Values
      BY <1>2, <2>1 DEF Instructions, InstructionFields
    <2>3. AluResult(i, a, b) \in Values
      <3> HIDE DEF i, a, b
      <3> QED BY <2>1, <2>2, AluResultTyped
    <2>4. JumpTaken(execution.ins, a, b) \in BOOLEAN
      BY DEF JumpTaken
    <2>5. execution.ins.mem_op \in MemoryOperations /\ i.rd \in Registers
          /\ i.rd_write \in BOOLEAN
      BY <1>1, <2>1 DEF Instructions, InstructionFields
    <2>6. issued =
            [ num        |-> execution.num,
              count      |-> execution.num # LENGTH_MAIN \/ count_instruction_csr,
              csr        |-> count_instruction_csr,
              rd         |-> IF count_instruction_csr THEN i.rd ELSE 0,
              rd_write   |-> count_instruction_csr /\ i.rd_write,
              val        |-> IF count_instruction_csr THEN csr_value
                             ELSE AluResult(i, a, b),
              jump_taken |-> JumpTaken(execution.ins, a, b),
              mem_op     |-> execution.ins.mem_op ]
      BY DEF Issued
    <2> HIDE DEF i, a, b, issued
    <2> QED
      BY <1>1, <2>3, <2>4, <2>5, <2>6, RegistersAssumption DEF Operations
  <1> HIDE DEF issued
  <1>4. ex' \in Operations
    BY <1>1, <1>3, BubbleTyped DEF PipelineClock, execute_register, issued
  <1>5. mem' \in Operations
    BY <1>1, BubbleTyped DEF PipelineClock, memory_register, Operations
  <1>6. wb' \in Operations
    BY <1>1, BubbleTyped DEF PipelineClock, writeback_register, Operations, MemoryOperations
  <1> QED
    BY <1>2, <1>4, <1>5, <1>6 DEF PipelineTypeOK

(* Reset establishes the types.                                            *)
LEMMA InitTyping == Init => TypeOK
  <1> SUFFICES ASSUME Init PROVE TypeOK
    OBVIOUS
  <1>1. NoExecution \in Executions /\ NoCommit \in Commits /\ 0 \in Values
    BY NopTyped, RegistersAssumption, WordAssumption, RowsFacts
       DEF NoExecution, Executions, NoCommit, Commits, Values
  <1>2. /\ row \in [ AllRows -> Instructions ]
        /\ uses \in [ Rows -> BOOLEAN ] /\ exec \in [ Rows -> BOOLEAN ]
        /\ comm \in [ Rows -> BOOLEAN ] /\ p1 \in [ Rows -> BOOLEAN ]
        /\ p2 \in [ Rows -> BOOLEAN ] /\ res \in [ Rows -> Values ]
        /\ jump_taken \in [ Rows -> BOOLEAN ]
    BY <1>1, NopTyped DEF Init, RobInit
  <1>3. multiple_load \in 0 .. 1 /\ clk_waiting \in 0 .. 1
    BY DEF Init, RobInit
  <1>4. RobTypeOK
    BY <1>1, <1>2, <1>3, RowsFacts, Zenon DEF Init, RobInit, RobTypeOK
  <1>5. DecodeTypeOK
    BY NopTyped DEF Init, DecodeInit, DecodeTypeOK, DecodeStates
  <1>6. PipelineTypeOK
    BY <1>1, BubbleTyped DEF Init, PipelineInit, PipelineTypeOK
  <1> QED
    BY <1>4, <1>5, <1>6 DEF TypeOK

(* What a clock edge is: one Edge, on inputs of the right type.            *)
LEMMA ClockEdge ==
  ASSUME Clock
  PROVE  \E imem_ack \in BOOLEAN, dmem_ack \in DmemAcks, ins \in Instructions,
            csr_value \in Values, load_value \in Values :
           /\ Edge(StallMem(dmem_ack), Delivers(imem_ack), ins, csr_value, load_value)
           /\ ins \in Instrs \union {Nop}
           /\ Delivers(imem_ack) => ins \in Instrs
  BY NopTyped, InstrsAssumption, AcksAssumption, WordAssumption
     DEF Clock, ClockOf, Values

(* Every signal keeps its range, whatever the program, the memories and    *)
(* the size of the core (all processes of src/src/pp_rob.vhd, the stages).  *)
THEOREM Typing == Spec => []TypeOK
  <1>1. TypeOK /\ [Next]_vars => TypeOK'
    <2> SUFFICES ASSUME TypeOK, [Next]_vars PROVE TypeOK'
      OBVIOUS
    <2>1. CASE Clock
      <3>1. PICK imem_ack \in BOOLEAN, dmem_ack \in DmemAcks, ins \in Instructions,
                 csr_value \in Values, load_value \in Values :
              Edge(StallMem(dmem_ack), Delivers(imem_ack), ins, csr_value, load_value)
        BY <2>1, ClockEdge
      <3>2. /\ StallMem(dmem_ack) \in BOOLEAN
            /\ (branch_taken /\ ~stall_id) \in BOOLEAN
            /\ (branch_taken /\ ~StallMem(dmem_ack)) \in BOOLEAN
        BY DEF StallMem
      <3>3. RobTypeOK'
        BY <3>1, <3>2, RobTyping DEF Edge
      <3>4. DecodeTypeOK'
        BY <3>1, <3>2, DecodeTyping DEF Edge
      <3>5. PipelineTypeOK'
        BY <3>1, <3>2, PipelineTyping DEF Edge
      <3> QED
        BY <3>3, <3>4, <3>5 DEF TypeOK
    <2>2. CASE UNCHANGED vars
      BY <2>2 DEF vars, robVars, decodeVars, pipelineVars, TypeOK, RobTypeOK,
                  DecodeTypeOK, PipelineTypeOK
    <2> QED
      BY <2>1, <2>2 DEF Next
  <1> QED
    BY <1>1, InitTyping, PTL DEF Spec

------------------------------------------------------------------------------
(* The life of an instruction, with a memory that never makes the core     *)
(* wait: CoreInv is inductive.                                             *)

Stays(r) == ~(committing /\ r = pntr_end)

(* What an edge without stall does to the flags of a row.                  *)
LEMMA FlagsAfter ==
  ASSUME TypeOK, RobStep(FALSE, count_instruction, instruction, done), NEW r \in Rows
  PROVE  /\ uses'[r] <=> Stays(r) /\ (uses[r] \/ (count_instruction /\ r = pntr_start))
         /\ exec'[r] <=> Stays(r) /\ (exec[r] \/ r = pntr_exec)
         /\ comm'[r] <=> Stays(r) /\ (comm[r] \/ (Completes(done) /\ r = done.num))
  <1>1. /\ uses \in [ Rows -> BOOLEAN ] /\ exec \in [ Rows -> BOOLEAN ]
        /\ comm \in [ Rows -> BOOLEAN ]
        /\ pntr_start \in Rows /\ pntr_end \in Rows
        /\ count_instruction \in BOOLEAN /\ committing \in BOOLEAN
        /\ Completes(done) => done.num \in Rows
    BY DEF TypeOK, RobTypeOK, DecodeTypeOK, PipelineTypeOK, Operations, Completes,
           done, Rows, NopRow
  <1>2. uses'[r] <=> Stays(r) /\ (uses[r] \/ (count_instruction /\ r = pntr_start))
    BY <1>1 DEF RobStep, uses_flag_managing, Release, Stays
  <1>3. exec'[r] <=> Stays(r) /\ (exec[r] \/ r = pntr_exec)
    BY <1>1 DEF RobStep, exec_flag_managing, Release, Stays
  <1>4. comm'[r] <=> Stays(r) /\ (comm[r] \/ (Completes(done) /\ r = done.num))
    BY <1>1 DEF RobStep, comm_flag_managing, Release, Stays
  <1> QED
    BY <1>2, <1>3, <1>4

(* A decoded instruction finds its row free.                               *)
LEMMA RoomForCounted ==
  ASSUME TypeOK, RingInv, CapacityInv, count_instruction
  PROVE  ~uses[pntr_start]
  <1>1. FreeRows # {}
    <2>1. Cardinality(FreeRows) >= 1
      BY DEF CapacityInv
    <2>2. Cardinality({}) = 0
      BY FS_EmptySet
    <2> QED
      BY <2>1, <2>2
  <1>2. PICK r \in Rows : ~uses[r]
    BY <1>1 DEF FreeRows
  <1> QED
    BY <1>2 DEF RingInv, TypeOK, RobTypeOK, Rows

(* An edge without a flush keeps the rows in use one segment of the ring.  *)
LEMMA RingStep ==
  ASSUME TypeOK, RingInv, CapacityInv, CommitInv,
         RobStep(FALSE, count_instruction, instruction, done)
  PROVE  RingInv'
  <1>1. /\ pntr_start \in Rows /\ pntr_end \in Rows
        /\ committing \in BOOLEAN /\ count_instruction \in BOOLEAN
    BY DEF TypeOK, RobTypeOK, DecodeTypeOK
  <1>2. /\ pntr_start' = IF count_instruction THEN Successor(pntr_start) ELSE pntr_start
        /\ pntr_end' = IF committing THEN Successor(pntr_end) ELSE pntr_end
    BY DEF RobStep, nextstart_pntrs_evaluation, sequential_process, CommitInv
  <1>3. \A r \in Rows : uses'[r] <=> Stays(r) /\ (uses[r] \/ (count_instruction /\ r = pntr_start))
    BY FlagsAfter
  <1>4. count_instruction => ~uses[pntr_start]
    BY RoomForCounted
  <1>5. committing => uses[pntr_end]
    BY DEF CommitInv
  <1>6. CASE pntr_start > pntr_end
    BY <1>1, <1>2, <1>3, <1>5, <1>6 DEF RingInv, Rows, Successor, Stays
  <1>7. CASE pntr_start < pntr_end
    BY <1>1, <1>2, <1>3, <1>5, <1>7 DEF RingInv, Rows, Successor, Stays
  <1>8. CASE pntr_start = pntr_end /\ \A r \in Rows : uses[r]
    <2>1. ~count_instruction
      BY <1>1, <1>4, <1>8
    <2>2. \A r \in Rows : uses'[r] <=> Stays(r)
      BY <1>3, <1>8, <2>1
    <2> QED
      BY <1>1, <1>2, <1>8, <2>1, <2>2 DEF RingInv, Rows, Successor, Stays
  <1>9. CASE pntr_start = pntr_end /\ \A r \in Rows : ~uses[r]
    <2>1. ~committing
      BY <1>1, <1>5, <1>9
    <2>2. \A r \in Rows : uses'[r] <=> (count_instruction /\ r = pntr_start)
      BY <1>3, <1>9, <2>1 DEF Stays
    <2> QED
      BY <1>1, <1>2, <1>9, <2>1, <2>2 DEF RingInv, Rows, Successor, Stays
  <1> QED
    BY <1>6, <1>7, <1>8, <1>9 DEF RingInv

(* Free rows can be counted.                                               *)
LEMMA FreeRowsFinite == IsFiniteSet(FreeRows) /\ Cardinality(FreeRows) \in Nat
  <1>1. IsFiniteSet(Rows)
    BY FS_Interval DEF Rows
  <1>2. FreeRows \in SUBSET Rows
    BY DEF FreeRows
  <1> QED
    BY <1>1, <1>2, FS_Subset, FS_CardinalityType

(* An edge takes at most the row of the instruction that arrives.          *)
LEMMA FreeRowsStep ==
  ASSUME TypeOK, RobStep(FALSE, count_instruction, instruction, done)
  PROVE  /\ Cardinality(FreeRows') >= Cardinality(FreeRows) - 1
         /\ Cardinality(FreeRows') \in Nat
  <1> DEFINE Left == IF count_instruction THEN FreeRows \ {pntr_start} ELSE FreeRows
  <1>1. IsFiniteSet(Left) /\ Cardinality(Left) >= Cardinality(FreeRows) - 1
    BY FreeRowsFinite, FS_RemoveElement
  <1>2. Left \subseteq FreeRows'
    BY FlagsAfter DEF FreeRows, Rows
  <1>3. IsFiniteSet(FreeRows') /\ Cardinality(FreeRows') \in Nat
    <2>1. IsFiniteSet(Rows)
      BY FS_Interval DEF Rows
    <2>2. FreeRows' \in SUBSET Rows
      BY DEF FreeRows, Rows
    <2> QED
      BY <2>1, <2>2, FS_Subset, FS_CardinalityType
  <1>4. Cardinality(Left) <= Cardinality(FreeRows')
    <2> HIDE DEF Left
    <2> QED BY <1>2, <1>3, FS_Subset
  <1>5. Cardinality(Left) \in Nat
    <2> HIDE DEF Left
    <2> QED BY <1>1, FS_CardinalityType
  <1> QED
    BY <1>1, <1>3, <1>4, <1>5, FreeRowsFinite

(* Decode counts an instruction only at an edge at which fetch_enable did  *)
(* not stop it.                                                            *)
LEMMA CountedWhenEnabled ==
  ASSUME TypeOK, NEW squash, NEW imem_ack, NEW ins, NEW empty,
         DecodeClock(squash, stall_id, Delivers(imem_ack), ins, empty),
         count_instruction'
  PROVE  ~fetch_enable
  BY DEF DecodeClock, DecodeFlush, DecodeIdle, DecodeOrdinary, DecodeCsr,
         WaitRobEmpty, CsrExecution, HandOn, Delivers, stall_id, stall_if

(* An edge without a flush keeps room for what decode may still send.      *)
LEMMA CapacityStep ==
  ASSUME TypeOK, CapacityInv, count_instruction' => ~fetch_enable,
         RobStep(FALSE, count_instruction, instruction, done)
  PROVE  CapacityInv'
  <1>1. fetch_enable' <=> Cardinality(FreeRows) < 3
    BY DEF RobStep, fulltable_evaluation, FreeRows
  <1>2. ~fetch_enable' => Cardinality(FreeRows) >= 3
    BY <1>1, FreeRowsFinite
  <1>3. /\ Cardinality(FreeRows') >= Cardinality(FreeRows) - 1
        /\ Cardinality(FreeRows') \in Nat
    BY FreeRowsStep
  <1> QED
    BY <1>2, <1>3, FreeRowsFinite DEF CapacityInv

(* What the other steps need of the types.                                 *)
LEMMA RobTypes ==
  ASSUME TypeOK
  PROVE  /\ uses \in [ Rows -> BOOLEAN ] /\ exec \in [ Rows -> BOOLEAN ]
         /\ comm \in [ Rows -> BOOLEAN ]
         /\ pntr_start \in Rows /\ pntr_end \in Rows /\ pntr_nextend \in Rows
         /\ pntr_exec \in Rows \union {NopRow} /\ pntr_nextexec \in Rows \union {NopRow}
         /\ pntr_exec_prev \in Rows \union {NopRow}
         /\ execution.num \in Rows \union {NopRow} /\ ex.num \in Rows \union {NopRow}
         /\ mem.num \in Rows \union {NopRow} /\ wb.num \in Rows \union {NopRow}
         /\ committing \in BOOLEAN /\ count_instruction \in BOOLEAN
         /\ done.num = wb.num /\ done.count = wb.count
  BY DEF TypeOK, RobTypeOK, DecodeTypeOK, PipelineTypeOK, Operations, Executions,
         done, Rows, NopRow, AllRows

(* Rows that are in use and not completed survive the edge.                *)
LEMMA PendingStays ==
  ASSUME TypeOK, CommitInv, RobStep(FALSE, count_instruction, instruction, done),
         NEW r \in Rows, uses[r], ~comm[r]
  PROVE  Stays(r) /\ uses'[r]
  BY FlagsAfter, RobTypes DEF CommitInv, Stays

(* An edge without a flush keeps the order of a row's flags.               *)
LEMMA LifeStep ==
  ASSUME TypeOK, CoreInv, RobStep(FALSE, count_instruction, instruction, done)
  PROVE  LifeInv'
  <1> SUFFICES ASSUME NEW r \in Rows
               PROVE  (exec'[r] => uses'[r]) /\ (comm'[r] => exec'[r])
    BY DEF LifeInv, Rows
  <1>1. /\ exec[r] => uses[r]
        /\ comm[r] => exec[r]
        /\ r = pntr_exec => uses[r]
        /\ Completes(done) /\ r = done.num => exec[r]
    BY RobTypes DEF CoreInv, LifeInv, SelectInv, StageInv, Sent, Completes
  <1> QED
    BY <1>1, FlagsAfter

(* An edge without a flush keeps the commit on the oldest row.             *)
LEMMA CommitStep ==
  ASSUME TypeOK, CoreInv, RobStep(FALSE, count_instruction, instruction, done)
  PROVE  CommitInv'
  <1>1. /\ pntr_end' = pntr_nextend
        /\ committing' <=> Committable(done)
        /\ pntr_nextend' = IF Committable(done) THEN Successor(pntr_nextend)
                           ELSE pntr_nextend
    BY DEF RobStep, sequential_process, pntr_nextend_evaluation
  <1>2. ASSUME Committable(done)
        PROVE  uses'[pntr_nextend] /\ comm'[pntr_nextend]
    <2>1. CASE committing
      <3>1. comm[pntr_nextend] /\ pntr_nextend # pntr_end
        BY <1>2, <2>1, RobTypes
           DEF CoreInv, CommitInv, StageInv, Sent, Committable, Successor, Rows
      <3> QED
        BY <3>1, RobTypes, FlagsAfter DEF CoreInv, LifeInv, Stays
    <2>2. CASE ~committing
      <3>1. pntr_nextend = pntr_end
        BY <2>2 DEF CoreInv, CommitInv
      <3>2. CASE comm[pntr_end]
        BY <2>2, <3>1, <3>2, RobTypes, FlagsAfter DEF CoreInv, LifeInv, Stays
      <3>3. CASE done.num = pntr_end
        <4>1. wb.num \in Rows /\ wb.count /\ uses[wb.num] /\ Completes(done)
          BY <3>3, RobTypes, RowsFacts DEF CoreInv, StageInv, Sent, Completes
        <4> QED
          BY <2>2, <3>1, <3>3, <4>1, RobTypes, FlagsAfter DEF Stays
      <3> QED
        BY <1>2, <3>2, <3>3 DEF Committable
    <2> QED
      BY <2>1, <2>2, RobTypes
  <1> QED
    BY <1>1, <1>2 DEF CommitInv, Successor

(* An edge without a flush keeps the selected rows apart.                  *)
LEMMA SelectStep ==
  ASSUME TypeOK, CoreInv, RobStep(FALSE, count_instruction, instruction, done)
  PROVE  SelectInv'
  <1> DEFINE hold == multiple_load_op
  <1>1. /\ pntr_nextexec' = IF hold THEN pntr_nextexec ELSE SelectedRow
        /\ pntr_exec' = IF hold THEN pntr_exec ELSE pntr_nextexec
        /\ pntr_exec_prev' = pntr_exec
    BY DEF RobStep, output_instrs_evaluation, sequential_process, execution_output
  <1>2. SelectedRow \in Rows =>
          /\ uses[SelectedRow] /\ ~exec[SelectedRow]
          /\ SelectedRow # pntr_exec /\ SelectedRow # pntr_nextexec
    BY SelectedRowTyped, RobTypes, RowsFacts DEF Executable, Waiting
  <1>3. ASSUME pntr_nextexec' \in Rows
        PROVE  /\ uses'[pntr_nextexec'] /\ ~exec'[pntr_nextexec']
               /\ pntr_nextexec' # pntr_exec'
    <2>1. /\ uses[pntr_nextexec'] /\ ~exec[pntr_nextexec']
          /\ pntr_nextexec' # pntr_exec /\ pntr_nextexec' # pntr_exec'
      BY <1>1, <1>2, <1>3 DEF CoreInv, SelectInv
    <2>2. ~comm[pntr_nextexec']
      BY <1>3, <2>1 DEF CoreInv, LifeInv
    <2> QED
      BY <1>3, <2>1, <2>2, PendingStays, FlagsAfter DEF CoreInv
  <1>4. ASSUME pntr_exec' \in Rows
        PROVE  /\ uses'[pntr_exec'] /\ ~comm'[pntr_exec']
               /\ exec'[pntr_exec'] => pntr_exec' = pntr_exec_prev'
    <2>1. /\ uses[pntr_exec'] /\ ~comm[pntr_exec'] /\ ~exec[pntr_exec']
          /\ pntr_exec' # pntr_exec \/ hold
      BY <1>1, <1>4, RowsFacts DEF CoreInv, SelectInv, LifeInv
    <2>2. ~(Completes(done) /\ pntr_exec' = done.num)
      BY <1>4, <2>1, RobTypes DEF CoreInv, StageInv, Sent
    <2>3. exec'[pntr_exec'] => pntr_exec' = pntr_exec
      BY <1>4, <2>1, FlagsAfter
    <2> QED
      BY <1>1, <1>4, <2>1, <2>2, <2>3, PendingStays, FlagsAfter DEF CoreInv
  <1>5. /\ multiple_load_op' => pntr_exec' # pntr_exec_prev' \/ pntr_exec' = NopRow
        /\ multiple_load_op' <=> clk_waiting' = 1
        /\ multiple_load_op' => multiple_load' = 1
    <2>1. /\ multiple_load \in 0 .. 1 /\ clk_waiting \in 0 .. 1
          /\ multiple_load_op \in BOOLEAN
          /\ multiple_load_op <=> clk_waiting = 1
          /\ multiple_load_op => multiple_load = 1
      BY DEF TypeOK, RobTypeOK, CoreInv, SelectInv
    <2>2. check_multiple_loads_op(FALSE)
      BY DEF RobStep
    <2>3. /\ multiple_load_op' <=> clk_waiting' = 1
          /\ multiple_load_op' => multiple_load' = 1 /\ ~hold
      BY <2>1, <2>2 DEF check_multiple_loads_op
    <2>4. ~hold => pntr_exec' # pntr_exec_prev' \/ pntr_exec' = NopRow
      BY <1>1, RobTypes DEF CoreInv, SelectInv
    <2> QED
      BY <2>3, <2>4
  <1> QED
    BY <1>3, <1>4, <1>5, RowsFacts DEF SelectInv, Rows, NopRow

(* The stages move on: what was in one is in the next.                     *)
LEMMA StageStep ==
  ASSUME TypeOK, CoreInv, RobStep(FALSE, count_instruction, instruction, done),
         NEW csr_value, NEW load_value,
         PipelineClock(FALSE, FALSE, commit, execution, count_instruction_csr,
                       instruction, csr_value, load_value)
  PROVE  StageInv'
  <1>1. /\ execution'.num = IF pntr_exec # pntr_exec_prev THEN pntr_exec ELSE NopRow
        /\ ex'.num = execution.num /\ mem'.num = ex.num /\ wb'.num = mem.num
    <2>1. execution'.num = IF pntr_exec # pntr_exec_prev THEN pntr_exec ELSE NopRow
      BY DEF RobStep, execution_output, NoExecution
    <2>2. ex'.num = execution.num
      BY DEF PipelineClock, execute_register, Issued
    <2>3. mem'.num = ex.num
      BY DEF PipelineClock, memory_register
    <2>4. wb'.num = mem.num
      BY DEF TypeOK, PipelineTypeOK, Operations, PipelineClock, writeback_register
    <2> QED
      BY <2>1, <2>2, <2>3, <2>4
  <1>2. /\ ex'.num \in Rows => ex'.count
        /\ mem'.num \in Rows => mem'.count
        /\ wb'.num \in Rows => wb'.count
    <2>1. execution.num \in Rows => ex'.count
      <3>1. ex'.count = (execution.num # LENGTH_MAIN \/ count_instruction_csr)
        BY DEF PipelineClock, execute_register, Issued
      <3>2. execution.num \in Rows => execution.num # LENGTH_MAIN
        BY DEF Rows
      <3> QED
        BY <3>1, <3>2
    <2>2. mem'.count = ex.count
      BY DEF PipelineClock, memory_register
    <2>3. wb'.count = mem.count
      BY DEF TypeOK, PipelineTypeOK, Operations, PipelineClock, writeback_register
    <2>4. (ex.num \in Rows => ex.count) /\ (mem.num \in Rows => mem.count)
      BY DEF CoreInv, StageInv
    <2> QED
      BY <1>1, <2>1, <2>2, <2>3, <2>4 DEF Rows
  <1>3. ASSUME NEW n \in Rows, uses[n], exec[n], ~comm[n], n # wb.num
        PROVE  uses'[n] /\ exec'[n] /\ ~comm'[n]
    BY <1>3, PendingStays, FlagsAfter, RobTypes DEF CoreInv
  <1>4. Sent(execution.num)'
    <2> SUFFICES ASSUME execution'.num \in Rows
                 PROVE  /\ uses'[execution'.num] /\ exec'[execution'.num]
                        /\ ~comm'[execution'.num]
      BY DEF Sent, Rows
    <2>1. /\ pntr_exec \in Rows /\ execution'.num = pntr_exec
          /\ uses[pntr_exec] /\ ~comm[pntr_exec] /\ ~exec[pntr_exec]
      BY <1>1, RowsFacts DEF CoreInv, SelectInv
    <2>2. ~(Completes(done) /\ pntr_exec = done.num)
      BY <2>1, RobTypes DEF CoreInv, StageInv, Sent
    <2> QED
      BY <2>1, <2>2, PendingStays, FlagsAfter DEF CoreInv
  <1>5. Sent(ex.num)' /\ Sent(mem.num)' /\ Sent(wb.num)'
    BY <1>1, <1>3 DEF CoreInv, StageInv, Sent, Apart, Rows
  <1>6. /\ Apart(execution.num, ex.num)' /\ Apart(execution.num, mem.num)'
        /\ Apart(execution.num, wb.num)'
    <2>1. execution'.num \in Rows => uses[execution'.num] /\ ~exec[execution'.num]
      BY <1>1, RowsFacts DEF CoreInv, SelectInv
    <2> QED
      BY <1>1, <2>1 DEF CoreInv, StageInv, Sent, Apart, Rows
  <1>7. Apart(ex.num, mem.num)' /\ Apart(ex.num, wb.num)' /\ Apart(mem.num, wb.num)'
    BY <1>1 DEF CoreInv, StageInv, Apart, Rows
  <1> QED
    BY <1>2, <1>4, <1>5, <1>6, <1>7 DEF StageInv, Rows

(* The commit port tells decode and the pipeline of the taken jump at the  *)
(* edge at which the table resets itself.                                  *)
LEMMA FlushStep ==
  ASSUME TypeOK, FlushInv, RobStep(FALSE, count_instruction, instruction, done)
  PROVE  FlushInv'
  <1>1. ~flush /\ flush \in BOOLEAN /\ jump_taken[pntr_end] \in BOOLEAN
    BY DEF RobStep, TypeOK, RobTypeOK
  <1>2. CASE committing
    BY <1>1, <1>2 DEF RobStep, flush_generation, commit_output, FlushInv
  <1>3. CASE ~committing
    BY <1>1, <1>3 DEF RobStep, flush_generation, commit_output, FlushInv, NoCommit
  <1> QED
    BY <1>2, <1>3

(* After a reset the table and the pipeline are empty.                     *)
LEMMA ResetEstablishes ==
  ASSUME TypeOK, RobReset, NEW csr_value, NEW load_value,
         PipelineClock(TRUE, FALSE, commit, execution, count_instruction_csr,
                       instruction, csr_value, load_value)
  PROVE  CoreInv'
  <1>1. /\ ex'.num = NopRow /\ mem'.num = NopRow /\ wb'.num = NopRow
        /\ execution'.num = NopRow
    BY DEF PipelineClock, execute_register, memory_register, writeback_register,
           Bubble, NopRow, RobReset, NoExecution
  <1>2. \A r \in Rows : ~uses'[r] /\ ~exec'[r] /\ ~comm'[r]
    BY DEF RobReset
  <1>3. FreeRows' = Rows
    BY <1>2 DEF FreeRows, Rows
  <1>4. Cardinality(Rows) = NUM_INSTRUCTIONS
    BY FS_Interval DEF Rows
  <1>5. RingInv' /\ LifeInv'
    BY <1>2 DEF RobReset, RingInv, LifeInv, Rows
  <1>6. CapacityInv'
    BY <1>3, <1>4 DEF CapacityInv
  <1>7. CommitInv' /\ FlushInv'
    BY DEF RobReset, CommitInv, FlushInv, NoCommit
  <1>8. SelectInv'
    BY RowsFacts DEF RobReset, SelectInv, Rows, NopRow
  <1>9. StageInv'
    BY <1>1, RowsFacts DEF StageInv, Sent, Apart, Rows, NopRow
  <1> QED
    BY <1>5, <1>6, <1>7, <1>8, <1>9 DEF CoreInv

(* Reset establishes the invariant.                                        *)
LEMMA InitInvariant == Init => CoreInv
  <1> SUFFICES ASSUME Init PROVE CoreInv
    OBVIOUS
  <1>1. /\ ex.num = NopRow /\ mem.num = NopRow /\ wb.num = NopRow
        /\ execution.num = NopRow
    BY DEF Init, PipelineInit, Bubble, NopRow, RobInit, NoExecution
  <1>2. \A r \in Rows : ~uses[r] /\ ~exec[r] /\ ~comm[r]
    BY DEF Init, RobInit
  <1>3. FreeRows = Rows
    BY <1>2 DEF FreeRows
  <1>4. Cardinality(Rows) = NUM_INSTRUCTIONS
    BY FS_Interval DEF Rows
  <1>5. RingInv /\ LifeInv
    BY <1>2 DEF Init, RobInit, RingInv, LifeInv, Rows
  <1>6. CapacityInv
    BY <1>3, <1>4 DEF CapacityInv
  <1>7. CommitInv /\ FlushInv
    BY DEF Init, RobInit, CommitInv, FlushInv, NoCommit
  <1>8. SelectInv
    BY RowsFacts DEF Init, RobInit, SelectInv
  <1>9. StageInv
    BY <1>1, RowsFacts DEF StageInv, Sent, Apart
  <1> QED
    BY <1>5, <1>6, <1>7, <1>8, <1>9 DEF CoreInv

(* Every edge keeps it.                                                    *)
LEMMA NextInvariant ==
  ASSUME SingleCycleMemory, TypeOK, CoreInv, [Next]_vars
  PROVE  CoreInv'
  <1>1. CASE Clock
    <2>1. PICK imem_ack \in BOOLEAN, dmem_ack \in DmemAcks, ins \in Instructions,
               csr_value \in Values, load_value \in Values :
            Edge(StallMem(dmem_ack), Delivers(imem_ack), ins, csr_value, load_value)
      BY <1>1, ClockEdge
    <2>2. StallMem(dmem_ack) = FALSE
      BY DEF SingleCycleMemory, StallMem
    <2>3. DecodeClock(branch_taken /\ ~stall_id, stall_id, Delivers(imem_ack), ins, rob_empty)
      BY <2>1 DEF Edge
    <2>4. RobClock(FALSE, count_instruction, instruction, done)
      BY <2>1, <2>2 DEF Edge
    <2>5. PipelineClock(branch_taken, FALSE, commit, execution, count_instruction_csr,
                        instruction, csr_value, load_value)
      <3>1. (branch_taken /\ ~FALSE) = branch_taken
        BY DEF TypeOK, RobTypeOK, Commits, branch_taken
      <3> QED
        BY <2>1, <2>2, <3>1 DEF Edge
    <2>6. branch_taken = flush
      BY DEF CoreInv, FlushInv, branch_taken, TypeOK, RobTypeOK, Commits
    <2>7. CASE flush /\ RobReset
      <3>1. branch_taken = TRUE
        BY <2>6, <2>7 DEF TypeOK, RobTypeOK
      <3> QED
        BY <2>5, <2>7, <3>1, ResetEstablishes
    <2>8. CASE RobStep(FALSE, count_instruction, instruction, done)
      <3>1. branch_taken = FALSE
        BY <2>6, <2>8 DEF RobStep, TypeOK, RobTypeOK
      <3>2. PipelineClock(FALSE, FALSE, commit, execution, count_instruction_csr,
                          instruction, csr_value, load_value)
        BY <2>5, <3>1
      <3>3. count_instruction' => ~fetch_enable
        BY <2>3, CountedWhenEnabled
      <3> QED
        BY <2>8, <3>2, <3>3, RingStep, CapacityStep, LifeStep, CommitStep, SelectStep,
           StageStep, FlushStep DEF CoreInv
    <2> QED
      BY <2>4, <2>7, <2>8 DEF RobClock
  <1>2. CASE UNCHANGED vars
    <2> USE <1>2 DEF vars, robVars, decodeVars, pipelineVars
    <2>1. RingInv' /\ LifeInv' /\ CommitInv' /\ FlushInv'
      BY DEF CoreInv, RingInv, LifeInv, CommitInv, FlushInv
    <2>2. CapacityInv'
      BY DEF CoreInv, CapacityInv, FreeRows
    <2>3. SelectInv'
      BY DEF CoreInv, SelectInv
    <2>4. StageInv'
      BY DEF CoreInv, StageInv, Sent, Apart
    <2> QED
      BY <2>1, <2>2, <2>3, <2>4 DEF CoreInv
  <1> QED
    BY <1>1, <1>2 DEF Next

(* The life of an instruction in the reorder buffer, for every number of   *)
(* rows: one row, selected once, one stage at a time, committed after its  *)
(* result came back.                                                       *)
THEOREM InstructionLife ==
  ASSUME SingleCycleMemory
  PROVE  Spec => []CoreInv
  <1>1. TypeOK /\ CoreInv /\ [Next]_vars => CoreInv'
    BY NextInvariant
  <1> QED
    BY <1>1, InitInvariant, Typing, PTL DEF Spec

(* The "three rows free" test of fulltable_evaluation is early enough:     *)
(* the table never takes an instruction into a row in use.                 *)
THEOREM TableNeverOverruns ==
  ASSUME SingleCycleMemory
  PROVE  Spec => []NoOverwrite
  <1>1. TypeOK /\ CoreInv => NoOverwrite
    BY RoomForCounted DEF CoreInv, NoOverwrite
  <1> QED
    BY <1>1, Typing, InstructionLife, PTL

(* A result comes back only to a row that was sent and waits for it.       *)
THEOREM ResultsFindTheirRow ==
  ASSUME SingleCycleMemory
  PROVE  Spec => []ResultsAwaited
  <1>1. CoreInv => ResultsAwaited
    BY DEF CoreInv, StageInv, Sent, ResultsAwaited
  <1> QED
    BY <1>1, InstructionLife, PTL

------------------------------------------------------------------------------
(* CSR instructions and squashes.                                          *)

(* Rows are taken by what decode counts, and by nothing else.              *)
LEMMA EmptyStays ==
  ASSUME TypeOK, rob_empty, ~count_instruction, NEW stall,
         RobClock(stall, count_instruction, instruction, done)
  PROVE  rob_empty'
  BY DEF TypeOK, RobTypeOK, rob_empty, RobClock, RobStep, RobReset, uses_flag_managing,
         Release, Rows

(* The program has no CSR instructions.                                    *)
WithoutCsrs == \A i \in Instrs : ~i.csr

(* No instruction arrives behind a CSR instruction while decode hands it   *)
(* on: the report of an empty table is true when it is read.               *)
CsrsApart == WithoutCsrs \/ ~BackToBack

(* Decode hands a CSR instruction on alone, or keeps it back with nothing  *)
(* on its way to the table.                                                *)
DecodeInv ==
  /\ count_instruction_csr =>
       /\ rob_empty /\ ~count_instruction /\ state # "rob_empty"
       /\ instruction \in Instrs /\ instruction.csr
  /\ state = "rob_empty" =>
       /\ ~count_instruction
       /\ prev_instruction \in Instrs /\ prev_instruction.csr
  /\ state = "csr_execution" => count_instruction_csr

(* A CSR instruction arrives alone, and nothing arrives behind one.        *)
LEMMA ArrivesAlone ==
  ASSUME CsrsApart, DecodeInv, NEW ack, Delivers(ack), NEW ins \in Instrs,
         ins.csr \/ count_instruction_csr
  PROVE  ~count_instruction /\ ~count_instruction_csr
  <1>1. ~WithoutCsrs
    BY DEF WithoutCsrs, DecodeInv
  <1> QED
    BY <1>1 DEF CsrsApart, Delivers

(* Every edge keeps CSR instructions apart from the others.                *)
LEMMA DecodeStep ==
  ASSUME CsrsApart, TypeOK, DecodeInv, [Next]_vars
  PROVE  DecodeInv'
  <1>1. CASE Clock
    <2>1. PICK imem_ack \in BOOLEAN, dmem_ack \in DmemAcks, ins \in Instructions,
               csr_value \in Values, load_value \in Values :
            /\ Edge(StallMem(dmem_ack), Delivers(imem_ack), ins, csr_value, load_value)
            /\ Delivers(imem_ack) => ins \in Instrs
      BY <1>1, ClockEdge
    <2> DEFINE ready == Delivers(imem_ack)
               squash == branch_taken /\ ~stall_id
    <2>2. DecodeClock(squash, stall_id, ready, ins, rob_empty)
      BY <2>1 DEF Edge
    <2>3. /\ ready => ins \in Instrs
          /\ ready /\ ins.csr => ~count_instruction
      BY <2>1, ArrivesAlone
    <2>4. rob_empty /\ ~count_instruction => rob_empty'
      BY <2>1, EmptyStays DEF Edge
    <2> HIDE DEF ready, squash
    <2>5. CASE DecodeFlush \/ DecodeIdle(stall_id, ready) \/ DecodeOrdinary(stall_id, ready, ins)
      BY <2>5 DEF DecodeFlush, DecodeIdle, DecodeOrdinary, HandOn, Enter, DecodeInv
    <2>6. CASE DecodeCsr(stall_id, ready, ins, rob_empty)
      BY <2>3, <2>4, <2>6 DEF DecodeCsr, HandOn, Enter, DecodeInv
    <2>7. CASE WaitRobEmpty(rob_empty)
      BY <2>4, <2>7 DEF WaitRobEmpty, HandOn, Enter, DecodeInv
    <2>8. CASE CsrExecution(ready, ins)
      BY <2>8 DEF CsrExecution, HandOn, Enter, DecodeInv
    <2> QED
      BY <2>2, <2>5, <2>6, <2>7, <2>8 DEF DecodeClock
  <1>2. CASE UNCHANGED vars
    BY <1>2 DEF vars, robVars, decodeVars, DecodeInv, rob_empty
  <1> QED
    BY <1>1, <1>2 DEF Next

(* A CSR instruction is executed only when nothing older is in the table,  *)
(* whatever the memories, if nothing arrives behind it (pp_decode 159-211).*)
THEOREM CsrsRunAlone ==
  ASSUME CsrsApart
  PROVE  Spec => []CsrAlone
  <1>1. Init => DecodeInv
    BY DEF Init, DecodeInit, DecodeInv
  <1>2. TypeOK /\ DecodeInv /\ [Next]_vars => DecodeInv'
    BY DecodeStep
  <1>3. DecodeInv => CsrAlone
    BY DEF DecodeInv, CsrAlone
  <1> QED
    BY <1>1, <1>2, <1>3, Typing, PTL DEF Spec

(* Without CSR instructions decode never leaves its normal state.          *)
NormalInv == state = "normal_execution" /\ ~count_instruction_csr

(* Without CSR instructions no edge leaves the normal state.               *)
LEMMA NormalStep ==
  ASSUME WithoutCsrs, NormalInv, NEW squash, NEW ready, NEW ins \in Instrs \union {Nop},
         DecodeClock(squash, stall_id, ready, ins, rob_empty)
  PROVE  NormalInv'
  <1>1. ~ins.csr
    BY DEF WithoutCsrs, Nop
  <1> QED
    BY <1>1 DEF NormalInv, DecodeClock, DecodeFlush, DecodeIdle, DecodeOrdinary,
                DecodeCsr, WaitRobEmpty, CsrExecution, HandOn, Enter

(* The edge after a taken jump is committed leaves nothing younger behind, *)
(* in programs without CSR instructions; with them, one that is kept back  *)
(* may be left.                                                            *)
THEOREM SquashesAreComplete ==
  ASSUME SingleCycleMemory, WithoutCsrs
  PROVE  Spec => SquashComplete
  <1> DEFINE Squashed ==
        flush => /\ state' = "normal_execution"
                 /\ ~count_instruction' /\ ~count_instruction_csr'
                 /\ rob_empty'
                 /\ \A op \in {ex', mem', wb'} : ~op.count /\ op.mem_op = "NONE"
  <1>1. Init => NormalInv
    BY DEF Init, DecodeInit, NormalInv
  <1>2. NormalInv /\ [Next]_vars => NormalInv'
    <2> SUFFICES ASSUME NormalInv, [Next]_vars PROVE NormalInv'
      OBVIOUS
    <2>1. CASE Clock
      BY <2>1, ClockEdge, NormalStep DEF Edge
    <2>2. CASE UNCHANGED vars
      BY <2>2 DEF vars, decodeVars, NormalInv
    <2> QED
      BY <2>1, <2>2 DEF Next
  <1>3. TypeOK /\ CoreInv /\ NormalInv /\ [Next]_vars => [Squashed]_vars
    <2> SUFFICES ASSUME TypeOK, CoreInv, NormalInv, Clock, flush PROVE Squashed
      BY DEF Next
    <2>1. PICK imem_ack \in BOOLEAN, dmem_ack \in DmemAcks, ins \in Instrs \union {Nop},
               csr_value \in Values, load_value \in Values :
            Edge(StallMem(dmem_ack), Delivers(imem_ack), ins, csr_value, load_value)
      BY ClockEdge
    <2>2. StallMem(dmem_ack) = FALSE
      BY DEF SingleCycleMemory, StallMem
    <2>3. branch_taken
      BY DEF CoreInv, FlushInv, branch_taken
    <2>4. DecodeClock(branch_taken /\ ~stall_id, stall_id, Delivers(imem_ack), ins, rob_empty)
      BY <2>1 DEF Edge
    <2>5. state' = "normal_execution" /\ ~count_instruction_csr'
      BY <2>4, NormalStep DEF NormalInv
    <2>6. ~count_instruction'
      BY <2>3, <2>4 DEF NormalInv, DecodeClock, DecodeFlush, DecodeIdle, DecodeOrdinary,
                        DecodeCsr, WaitRobEmpty, CsrExecution, HandOn
    <2>7. rob_empty'
      <3>1. RobReset
        BY <2>1 DEF Edge, RobClock, RobStep
      <3> QED
        BY <3>1 DEF RobReset, rob_empty
    <2>8. \A op \in {ex', mem', wb'} : ~op.count /\ op.mem_op = "NONE"
      <3>1. PipelineClock(branch_taken /\ ~FALSE, FALSE, commit, execution,
                          count_instruction_csr, instruction, csr_value, load_value)
        BY <2>1, <2>2 DEF Edge
      <3>2. ex' = Bubble /\ mem' = [ Bubble EXCEPT !.csr = mem.csr ] /\ wb' = Bubble
        BY <2>3, <3>1 DEF PipelineClock, execute_register, memory_register,
                          writeback_register
      <3> QED
        BY <3>2 DEF Bubble
    <2> QED
      BY <2>5, <2>6, <2>7, <2>8
  <1> QED
    BY <1>1, <1>2, <1>3, Typing, InstructionLife, PTL DEF Spec, SquashComplete

------------------------------------------------------------------------------
(* Operands.                                                               *)

(* A free row holds no instruction, so it is no hazard for any other.      *)
FreeInv == \A r \in Rows : ~uses[r] => row[r] = Nop

(* No older row in use writes a register that the one in row r reads.      *)
Clear(r) ==
  \A o \in Rows :
    uses[o] /\ Age(o) < Age(r)
      => /\ row[r].x_addr # row[o].rd
         /\ IgnoresSrc2(row[r]) \/ row[r].y_addr # row[o].rd

(* A row whose operands are there is clear of hazards, and stays so until  *)
(* it is committed.                                                        *)
ClearInv ==
  \A r \in Rows :
    /\ uses[r]
    /\ HasOperands(r) \/ r \in { pntr_nextexec, pntr_exec } \/ exec[r]
    => Clear(r)

(* What an edge without stall does to a row: it keeps its instruction or   *)
(* gives it up, or takes the one that arrives.                             *)
LEMMA RowAfter ==
  ASSUME TypeOK, CoreInv, RobStep(FALSE, count_instruction, instruction, done),
         NEW r \in Rows
  PROVE  /\ uses'[r] /\ uses[r] => row'[r] = row[r] /\ Stays(r)
         /\ uses'[r] /\ ~uses[r] => r = pntr_start /\ count_instruction
         /\ ~uses'[r] => row'[r] = Nop \/ (~uses[r] /\ row'[r] = row[r])
  <1>1. /\ uses'[r] <=> Stays(r) /\ (uses[r] \/ (count_instruction /\ r = pntr_start))
        /\ count_instruction => ~uses[pntr_start]
    BY FlagsAfter, RoomForCounted DEF CoreInv
  <1>2. row'[r] = IF ~Stays(r) THEN Nop
                  ELSE IF count_instruction /\ r = pntr_start THEN instruction ELSE row[r]
    BY RowsFacts DEF RobStep, input_instrs_managing, Release, Stays, TypeOK, RobTypeOK
  <1> QED
    BY <1>1, <1>2 DEF Stays

(* The order of the rows in use is that of their arrival.                  *)
LEMMA AgeOrder ==
  ASSUME TypeOK, CoreInv, RobStep(FALSE, count_instruction, instruction, done),
         NEW o \in Rows, NEW r \in Rows, uses'[o], uses'[r], Age(o)' < Age(r)'
  PROVE  uses[o] /\ (uses[r] => Age(o) < Age(r))
  <1>1. /\ pntr_start \in Rows /\ pntr_end \in Rows
        /\ committing \in BOOLEAN /\ count_instruction \in BOOLEAN
        /\ pntr_end' = IF committing THEN Successor(pntr_end) ELSE pntr_end
        /\ committing => uses[pntr_end]
    BY DEF TypeOK, RobTypeOK, DecodeTypeOK, RobStep, sequential_process, CoreInv, CommitInv
  <1>2. /\ Stays(o) /\ (uses[o] \/ (count_instruction /\ o = pntr_start))
        /\ Stays(r) /\ (uses[r] \/ (count_instruction /\ r = pntr_start))
        /\ count_instruction => ~uses[pntr_start]
    BY FlagsAfter, RoomForCounted DEF CoreInv
  <1>3. Age(o)' = IF o >= pntr_end' THEN o - pntr_end' ELSE o - pntr_end' + NUM_INSTRUCTIONS
    BY DEF Age
  <1>4. Age(r)' = IF r >= pntr_end' THEN r - pntr_end' ELSE r - pntr_end' + NUM_INSTRUCTIONS
    BY DEF Age
  <1>5. Age(o) < Age(r)
    BY <1>1, <1>2, <1>3, <1>4 DEF Age, Successor, Stays, Rows
  <1>6. uses[o]
    <2> SUFFICES ASSUME ~uses[o] PROVE FALSE
      OBVIOUS
    <2>1. o = pntr_start /\ uses[r] /\ o # r
      BY <1>1, <1>2, <1>5, AgeTyped
    <2> QED
      BY <1>1, <1>5, <2>1 DEF CoreInv, RingInv, Age, Rows
  <1> QED
    BY <1>5, <1>6

(* An edge without a flush leaves nothing in a free row.                   *)
LEMMA FreeStep ==
  ASSUME TypeOK, CoreInv, FreeInv,
         RobStep(FALSE, count_instruction, instruction, done)
  PROVE  FreeInv'
  BY RowAfter DEF FreeInv, Rows

(* What was clear is clear after the edge.                                 *)
LEMMA ClearStays ==
  ASSUME TypeOK, CoreInv, RobStep(FALSE, count_instruction, instruction, done),
         NEW r \in Rows, uses[r], uses'[r], Clear(r)
  PROVE  Clear(r)'
  <1> SUFFICES ASSUME NEW o \in Rows, uses'[o], Age(o)' < Age(r)'
               PROVE  /\ row'[r].x_addr # row'[o].rd
                      /\ IgnoresSrc2(row'[r]) \/ row'[r].y_addr # row'[o].rd
    BY DEF Clear, Rows, IgnoresSrc2
  <1>1. uses[o] /\ Age(o) < Age(r)
    BY AgeOrder
  <1>2. row'[o] = row[o] /\ row'[r] = row[r]
    BY <1>1, RowAfter
  <1> QED
    BY <1>1, <1>2 DEF Clear

(* A row whose flags say that its operands are there is clear.             *)
LEMMA FlagsTrue ==
  ASSUME TypeOK, CoreInv, FreeInv,
         RobStep(FALSE, count_instruction, instruction, done),
         NEW r \in Rows, uses'[r], HasOperands(r)'
  PROVE  Clear(r)'
  <1>1. /\ p1'[r] = IF r = pntr_end THEN ~committing
                    ELSE ~IsNop(row[r]) /\ ~HazardSrc1(r) /\ ~HazardMem(r)
        /\ p2'[r] = IF r = pntr_end THEN ~committing
                    ELSE /\ ~HazardMem(r)
                         /\ IgnoresSrc2(row[r]) \/ (~IsNop(row[r]) /\ ~HazardSrc2(r))
    BY DEF RobStep, p1p2_flags_managing
  <1>2. p1'[r] /\ p2'[r]
    BY DEF HasOperands
  <1>3. CASE ~uses[r]
    <2>1. row[r] = Nop /\ r = pntr_start /\ count_instruction
      BY <1>3, RowAfter DEF FreeInv
    <2>2. IsNop(row[r])
      BY <2>1 DEF Nop, IsNop
    <2>3. r = pntr_end /\ ~committing
      BY <1>1, <1>2, <2>2
    <2>4. pntr_end' = pntr_end
      BY <2>3 DEF RobStep, sequential_process, CoreInv, CommitInv
    <2>5. \A o \in Rows : ~(Age(o)' < Age(r)')
      BY <2>3, <2>4, RobTypes DEF Age, Rows
    <2> QED
      BY <2>5 DEF Clear, Rows
  <1>4. CASE uses[r] /\ r = pntr_end
    <2>1. \A o \in Rows : ~(Age(o) < Age(r))
      BY <1>4, RobTypes DEF Age, Rows
    <2>2. Clear(r)
      BY <2>1 DEF Clear
    <2> QED
      BY <1>4, <2>2, ClearStays
  <1>5. CASE uses[r] /\ r # pntr_end
    <2>1. ~HazardSrc1(r) /\ (IgnoresSrc2(row[r]) \/ ~HazardSrc2(r))
      BY <1>1, <1>2, <1>5
    <2>2. Clear(r)
      BY <2>1 DEF Clear, HazardSrc1, HazardSrc2, OlderRows
    <2> QED
      BY <1>5, <2>2, ClearStays
  <1> QED
    BY <1>3, <1>4, <1>5

(* A selected row has its operands, and the pointers follow it to execute. *)
LEMMA ClearStep ==
  ASSUME TypeOK, CoreInv, FreeInv, ClearInv,
         RobStep(FALSE, count_instruction, instruction, done)
  PROVE  ClearInv'
  <1>1. /\ pntr_nextexec' \in { pntr_nextexec, SelectedRow }
        /\ pntr_exec' \in { pntr_exec, pntr_nextexec }
    BY DEF RobStep, output_instrs_evaluation, sequential_process
  <1>2. SelectedRow \in Rows => uses[SelectedRow] /\ HasOperands(SelectedRow)
    BY SelectedRowTyped, RobTypes, RowsFacts DEF Executable, Waiting
  <1> SUFFICES ASSUME NEW r \in Rows, uses'[r],
                      HasOperands(r)' \/ r \in { pntr_nextexec', pntr_exec' } \/ exec'[r]
               PROVE  Clear(r)'
    BY DEF ClearInv, Rows
  <1>3. CASE HasOperands(r)'
    BY <1>3, FlagsTrue
  <1>4. CASE r \in { pntr_nextexec', pntr_exec' } \/ exec'[r]
    <2>1. uses[r] /\ (HasOperands(r) \/ r \in { pntr_nextexec, pntr_exec } \/ exec[r])
      BY <1>1, <1>2, <1>4, RowsFacts, FlagsAfter DEF CoreInv, SelectInv, LifeInv
    <2>2. Clear(r)
      BY <2>1 DEF ClearInv
    <2> QED
      BY <2>1, <2>2, ClearStays
  <1> QED
    BY <1>3, <1>4

OperandInv == FreeInv /\ ClearInv

(* Nothing is in use after a reset, nor at the start.                      *)
LEMMA ResetClear ==
  ASSUME RobReset
  PROVE  OperandInv'
  BY DEF RobReset, OperandInv, FreeInv, ClearInv, Rows, AllRows

(* Every edge keeps operands clear of hazards.                             *)
LEMMA OperandStep ==
  ASSUME SingleCycleMemory, TypeOK, CoreInv, OperandInv, [Next]_vars
  PROVE  OperandInv'
  <1>1. CASE Clock
    <2>1. RobClock(FALSE, count_instruction, instruction, done)
      BY <1>1, ClockEdge DEF SingleCycleMemory, StallMem, Edge
    <2>2. CASE RobReset
      BY <2>2, ResetClear
    <2>3. CASE RobStep(FALSE, count_instruction, instruction, done)
      BY <2>3, FreeStep, ClearStep DEF OperandInv
    <2> QED
      BY <2>1, <2>2, <2>3 DEF RobClock
  <1>2. CASE UNCHANGED vars
    BY <1>2 DEF vars, robVars, OperandInv, FreeInv, ClearInv, Clear, HasOperands, Age,
                IgnoresSrc2, Rows
  <1> QED
    BY <1>1, <1>2 DEF Next

(* Whoever reads the register file finds the results of all older          *)
(* instructions there: flags that are one edge old, pointers that pass     *)
(* them on and rows that are reused never let an instruction read early.   *)
THEOREM OperandsAreWritten ==
  ASSUME SingleCycleMemory
  PROVE  Spec => []OperandsWritten
  <1>1. Init => OperandInv
    BY DEF Init, RobInit, OperandInv, FreeInv, ClearInv, Rows, AllRows
  <1>2. TypeOK /\ CoreInv /\ OperandInv /\ [Next]_vars => OperandInv'
    BY OperandStep
  <1>3. TypeOK /\ CoreInv /\ OperandInv => OperandsWritten
    <2> SUFFICES ASSUME TypeOK, CoreInv, OperandInv, NEW r \in Rows, NEW o \in Rows,
                        execution.num = r, uses[r], uses[o], Age(o) < Age(r)
                 PROVE  ~ReadsRegister(row[r], row[o].rd)
      BY DEF OperandsWritten
    <2>1. /\ row[r].x_addr # row[o].rd
          /\ IgnoresSrc2(row[r]) \/ row[r].y_addr # row[o].rd
      BY DEF CoreInv, StageInv, Sent, OperandInv, ClearInv, Clear
    <2>2. row[r].branch = "CONDITIONAL" => row[r].y_src = "NULL"
      BY DEF TypeOK, RobTypeOK, Instructions, Rows, AllRows
    <2> QED
      BY <2>1, <2>2 DEF ReadsRegister, IgnoresSrc2
  <1> QED
    BY <1>1, <1>2, <1>3, Typing, InstructionLife, PTL DEF Spec

------------------------------------------------------------------------------
(* The order of memory operations.                                         *)

OnItsWay(r) == r \in { execution.num, ex.num, mem.num, wb.num }

(* A row that was sent is in a stage or complete, and a row is sent before *)
(* the pointer rests on it.                                                *)
SentInv ==
  /\ \A r \in Rows : exec[r] => comm[r] \/ OnItsWay(r)
  /\ pntr_exec \in Rows /\ pntr_exec = pntr_exec_prev => exec[pntr_exec]

(* Row o is past the place that row r is at.                               *)
Ahead(o, r) ==
  /\ pntr_nextexec = r => exec[o] \/ o = pntr_exec
  /\ pntr_exec = r \/ exec[r] => exec[o]
  /\ ex.num = r  => o \in { mem.num, wb.num } \/ comm[o]
  /\ mem.num = r => o = wb.num \/ comm[o]
  /\ wb.num = r \/ comm[r] => comm[o]

OlderMemory(o, r) ==
  /\ uses[o] /\ IsMem(row[o].mem_op)
  /\ uses[r] /\ IsMem(row[r].mem_op)
  /\ Age(o) < Age(r)

(* Of two memory operations the older one is ahead, from the selection to  *)
(* the completion.                                                         *)
OrderInv == SentInv /\ \A o, r \in Rows : OlderMemory(o, r) => Ahead(o, r)

(* Operations move on by one stage an edge.                                *)
LEMMA StagesMove ==
  ASSUME TypeOK, RobStep(FALSE, count_instruction, instruction, done),
         NEW csr_value, NEW load_value,
         PipelineClock(FALSE, FALSE, commit, execution, count_instruction_csr,
                       instruction, csr_value, load_value)
  PROVE  /\ execution'.num = IF pntr_exec # pntr_exec_prev THEN pntr_exec ELSE NopRow
         /\ ex'.num = execution.num /\ mem'.num = ex.num /\ wb'.num = mem.num
  <1>1. execution'.num = IF pntr_exec # pntr_exec_prev THEN pntr_exec ELSE NopRow
    BY DEF RobStep, execution_output, NoExecution
  <1>2. ex'.num = execution.num
    BY DEF PipelineClock, execute_register, Issued
  <1>3. mem'.num = ex.num
    BY DEF PipelineClock, memory_register
  <1>4. wb'.num = mem.num
    BY DEF TypeOK, PipelineTypeOK, Operations, PipelineClock, writeback_register
  <1> QED
    BY <1>1, <1>2, <1>3, <1>4

(* What is complete, and what leaves writeback, is complete after the edge.*)
LEMMA CompletesAfter ==
  ASSUME TypeOK, CoreInv, RobStep(FALSE, count_instruction, instruction, done),
         NEW r \in Rows, uses'[r], comm[r] \/ r = wb.num
  PROVE  comm'[r]
  <1>1. r = wb.num => Completes(done) /\ r = done.num
    BY RobTypes, RowsFacts DEF CoreInv, StageInv, Completes
  <1> QED
    BY <1>1, FlagsAfter

(* A row that was sent is completed or in one of the stages.               *)
LEMMA SentStep ==
  ASSUME TypeOK, CoreInv, SentInv, RobStep(FALSE, count_instruction, instruction, done),
         NEW csr_value, NEW load_value,
         PipelineClock(FALSE, FALSE, commit, execution, count_instruction_csr,
                       instruction, csr_value, load_value)
  PROVE  SentInv'
  <1>1. ASSUME NEW r \in Rows, exec'[r]
        PROVE  comm'[r] \/ OnItsWay(r)'
    <2>1. uses'[r] /\ (exec[r] \/ r = pntr_exec)
      BY <1>1, FlagsAfter, LifeStep DEF LifeInv, Rows
    <2>2. CASE exec[r]
      <3>1. comm[r] \/ OnItsWay(r)
        BY <2>2 DEF SentInv
      <3> QED
        BY <2>1, <3>1, CompletesAfter, StagesMove DEF OnItsWay
    <2>3. CASE ~exec[r]
      BY <2>1, <2>3, StagesMove DEF SentInv, OnItsWay
    <2> QED
      BY <2>2, <2>3
  <1>2. ASSUME pntr_exec' \in Rows, pntr_exec' = pntr_exec_prev'
        PROVE  exec'[pntr_exec']
    <2>1. pntr_exec_prev' = pntr_exec
      BY DEF RobStep, execution_output
    <2>2. pntr_exec \in Rows /\ uses[pntr_exec] /\ ~comm[pntr_exec]
      BY <1>2, <2>1 DEF CoreInv, SelectInv
    <2> QED
      BY <1>2, <2>1, <2>2, PendingStays, FlagsAfter DEF CoreInv
  <1> QED
    BY <1>1, <1>2 DEF SentInv, Rows

(* The selection skips an older memory operation only after that was       *)
(* selected itself.                                                        *)
LEMMA SelectedInOrder ==
  ASSUME TypeOK, NEW o \in Rows, NEW r \in Rows, OlderMemory(o, r), r = SelectedRow
  PROVE  exec[o] \/ o \in { pntr_exec, pntr_nextexec }
  <1> SUFFICES ASSUME o \in Waiting PROVE FALSE
    BY DEF Waiting, OlderMemory
  <1>1. r \in Executable /\ \A p \in Executable : Age(r) <= Age(p)
    BY SelectedRowTyped, RobTypes, RowsFacts
  <1>2. HasOperands(o) /\ ~MemBlocked(o)
    <2>1. ~MemBlocked(r)
      BY <1>1 DEF Executable, OlderMemory
    <2>2. HasOperands(o)
      BY <2>1 DEF MemBlocked, OlderMemory
    <2>3. ASSUME NEW p \in Waiting, Age(p) < Age(o)
          PROVE  Age(p) < Age(r)
      BY <2>3, AgeTyped, RobTypes DEF OlderMemory, Waiting
    <2> QED
      BY <2>1, <2>2, <2>3 DEF MemBlocked
  <1>3. o \in Executable
    BY <1>2 DEF Executable
  <1> QED
    BY <1>1, <1>3, AgeTyped, RobTypes DEF OlderMemory

(* The older of two memory operations stays ahead of the other.            *)
LEMMA AheadStep ==
  ASSUME TypeOK, CoreInv, OrderInv,
         RobStep(FALSE, count_instruction, instruction, done),
         NEW csr_value, NEW load_value,
         PipelineClock(FALSE, FALSE, commit, execution, count_instruction_csr,
                       instruction, csr_value, load_value),
         NEW o \in Rows, NEW r \in Rows, OlderMemory(o, r)'
  PROVE  Ahead(o, r)'
  <1>1. uses'[o] /\ uses'[r] /\ uses[o] /\ (uses[r] => Age(o) < Age(r))
    BY AgeOrder DEF OlderMemory
  <1>2. /\ pntr_nextexec' = IF multiple_load_op THEN pntr_nextexec ELSE SelectedRow
        /\ pntr_exec' = IF multiple_load_op THEN pntr_exec ELSE pntr_nextexec
    BY DEF RobStep, output_instrs_evaluation, sequential_process
  <1>3. /\ exec'[r] => exec[r] \/ r = pntr_exec
        /\ comm'[r] => comm[r] \/ r = wb.num
        /\ exec[o] \/ o = pntr_exec => exec'[o]
        /\ comm[o] \/ o = wb.num => comm'[o]
    BY <1>1, FlagsAfter, RobTypes, CompletesAfter
  <1>4. CASE ~uses[r]
    <2>1. SelectedRow # r
      BY <1>4, SelectedRowTyped, RobTypes, RowsFacts DEF Executable, Waiting
    <2>2. /\ r \notin { pntr_nextexec, pntr_exec, execution.num, ex.num, mem.num, wb.num }
          /\ ~exec[r] /\ ~comm[r]
      BY <1>4 DEF CoreInv, LifeInv, SelectInv, StageInv, Sent
    <2> QED
      BY <1>2, <1>3, <2>1, <2>2, StagesMove DEF Ahead
  <1>5. CASE uses[r]
    <2>1. OlderMemory(o, r)
      BY <1>1, <1>5, RowAfter DEF OlderMemory
    <2>2. Ahead(o, r) /\ o # r
      BY <2>1, AgeTyped, RobTypes DEF OrderInv, OlderMemory
    <2>3. pntr_nextexec' = r => exec'[o] \/ o = pntr_exec'
      BY <1>2, <1>3, <2>1, <2>2, SelectedInOrder DEF Ahead
    <2>4. pntr_exec' = r \/ exec'[r] => exec'[o]
      BY <1>2, <1>3, <2>2 DEF Ahead
    <2>5. ex'.num = r => o \in { mem'.num, wb'.num } \/ comm'[o]
      <3>1. execution.num = r => exec[r]
        BY DEF CoreInv, StageInv, Sent
      <3>2. execution.num = r => o \in { ex.num, mem.num, wb.num } \/ comm[o]
        BY <2>2, <3>1 DEF Ahead, OrderInv, SentInv, OnItsWay
      <3> QED
        BY <1>3, <3>2, StagesMove
    <2>6. mem'.num = r => o = wb'.num \/ comm'[o]
      BY <1>3, <2>2, StagesMove DEF Ahead
    <2>7. wb'.num = r \/ comm'[r] => comm'[o]
      BY <1>3, <2>2, StagesMove DEF Ahead
    <2> QED
      BY <2>3, <2>4, <2>5, <2>6, <2>7 DEF Ahead
  <1> QED
    BY <1>4, <1>5

(* Every edge keeps the order of memory operations.                        *)
LEMMA OrderStep ==
  ASSUME SingleCycleMemory, TypeOK, CoreInv, OrderInv, [Next]_vars
  PROVE  OrderInv'
  <1>1. CASE Clock
    <2>1. PICK csr_value \in Values, load_value \in Values :
            /\ RobClock(FALSE, count_instruction, instruction, done)
            /\ PipelineClock(branch_taken /\ ~FALSE, FALSE, commit, execution,
                             count_instruction_csr, instruction, csr_value, load_value)
      BY <1>1, ClockEdge DEF SingleCycleMemory, StallMem, Edge
    <2>2. CASE RobReset
      BY <2>2, RowsFacts DEF RobReset, OrderInv, OlderMemory, SentInv, Rows, NopRow
    <2>3. CASE RobStep(FALSE, count_instruction, instruction, done)
      <3>1. (branch_taken /\ ~FALSE) = FALSE
        BY <2>3 DEF CoreInv, FlushInv, RobStep, branch_taken, TypeOK, RobTypeOK, Commits
      <3>2. PipelineClock(FALSE, FALSE, commit, execution, count_instruction_csr,
                          instruction, csr_value, load_value)
        BY <2>1, <3>1
      <3> QED
        BY <2>3, <3>2, SentStep, AheadStep DEF OrderInv, Rows
    <2> QED
      BY <2>1, <2>2, <2>3 DEF RobClock
  <1>2. CASE UNCHANGED vars
    BY <1>2 DEF vars, robVars, pipelineVars, OrderInv, SentInv, OnItsWay, OlderMemory,
                Ahead, Age, Rows
  <1> QED
    BY <1>1, <1>2 DEF Next

(* How far a row went, by the place it is at.                              *)
LEMMA ProgressOf ==
  ASSUME TypeOK, CoreInv, SentInv, NEW r \in Rows
  PROVE  /\ comm[r] => Progress(r) = 7
         /\ wb.num = r => Progress(r) = 6
         /\ mem.num = r => Progress(r) = 5
         /\ ex.num = r => Progress(r) = 4
         /\ execution.num = r => Progress(r) = 3
         /\ pntr_exec = r /\ ~exec[r] => Progress(r) = 2
         /\ pntr_nextexec = r => Progress(r) = 1
         /\ ~exec[r] /\ r \notin { pntr_exec, pntr_nextexec } => Progress(r) = 0
  <1>1. exec[r] => comm[r] \/ OnItsWay(r)
    BY DEF SentInv
  <1>2. /\ comm[r] => exec[r] /\ r # pntr_nextexec /\ ~OnItsWay(r)
        /\ OnItsWay(r) => exec[r]
        /\ r = pntr_nextexec => ~exec[r] /\ r # pntr_exec
    BY DEF CoreInv, LifeInv, SelectInv, StageInv, Sent, OnItsWay
  <1>3. /\ wb.num = r => r \notin { mem.num, ex.num, execution.num }
        /\ mem.num = r => r \notin { ex.num, execution.num }
        /\ ex.num = r => r # execution.num
    BY DEF CoreInv, StageInv, Apart
  <1> QED
    BY <1>1, <1>2, <1>3 DEF Progress, OnItsWay

(* Memory operations pass every stage in program order, although the       *)
(* selection skips over instructions that wait for their operands.         *)
THEOREM MemoryKeepsOrder ==
  ASSUME SingleCycleMemory
  PROVE  Spec => []MemoryInOrder
  <1>1. Init => OrderInv
    BY RowsFacts DEF Init, RobInit, OrderInv, OlderMemory, SentInv
  <1>2. TypeOK /\ CoreInv /\ OrderInv /\ [Next]_vars => OrderInv'
    BY OrderStep
  <1>3. TypeOK /\ CoreInv /\ OrderInv => MemoryInOrder
    <2> SUFFICES ASSUME TypeOK, CoreInv, OrderInv, NEW o \in Rows, NEW r \in Rows,
                        OlderMemory(o, r), Progress(r) > 0
                 PROVE  Progress(o) > Progress(r) \/ Progress(o) = 7
      BY DEF MemoryInOrder, OlderMemory
    <2>1. Ahead(o, r) /\ SentInv
      BY DEF OrderInv
    <2>2. execution.num = r => exec[r]
      BY DEF CoreInv, StageInv, Sent
    <2>3. exec[o] => comm[o] \/ OnItsWay(o)
      BY <2>1 DEF SentInv
    <2>4. o # r
      BY AgeTyped, RobTypes DEF OlderMemory
    <2>5. exec[o] => Progress(o) \in 3 .. 7
      BY <2>1, <2>3, ProgressOf DEF OnItsWay
    <2>6. CASE comm[r] \/ r \in { wb.num, mem.num, ex.num }
      BY <2>1, <2>6, ProgressOf DEF Ahead
    <2>7. CASE execution.num = r
      <3>1. comm[o] \/ o \in { ex.num, mem.num, wb.num }
        BY <2>1, <2>2, <2>3, <2>4, <2>7 DEF Ahead, OnItsWay
      <3> QED
        BY <2>1, <2>7, <3>1, ProgressOf
    <2>8. CASE ~exec[r] /\ pntr_exec = r
      BY <2>1, <2>5, <2>8, ProgressOf DEF Ahead
    <2>9. CASE ~exec[r] /\ pntr_nextexec = r
      BY <2>1, <2>5, <2>9, ProgressOf DEF Ahead
    <2>10. CASE ~exec[r] /\ r \notin { pntr_exec, pntr_nextexec }
      BY <2>1, <2>10, ProgressOf
    <2> QED
      BY <2>1, <2>6, <2>7, <2>8, <2>9, <2>10 DEF SentInv, OnItsWay
  <1> QED
    BY <1>1, <1>2, <1>3, Typing, InstructionLife, PTL DEF Spec

------------------------------------------------------------------------------
(* Values in flight.                                                       *)

(* While a CSR instruction is in flight the commit port is idle; it is     *)
(* ahead of everything that enters the table, and carries no load.         *)
CsrInv ==
  /\ row[NopRow] = Nop
  /\ execution.num = NopRow => execution.ins = Nop
  /\ ex.csr => rob_empty /\ ~count_instruction /\ ~IsLoad(ex.mem_op)
  /\ mem.csr => rob_empty /\ ~IsLoad(mem.mem_op)
  /\ (count_instruction_csr \/ ex.csr \/ mem.csr \/ wb.csr) => commit = NoCommit

(* The value and the jump are those of instruction i on registers regs.    *)
Computes(i, regs, value, jumps) ==
  /\ IsLoad(i.mem_op) \/ value = AluResult(i, regs[i.x_addr], regs[i.y_addr])
  /\ jumps = JumpTaken(i, regs[i.x_addr], regs[i.y_addr])

(* What a stage or the table holds for a row is what its instruction gives *)
(* on the registers that all older instructions leave: those that are not  *)
(* retired yet do not change what it reads.                                *)
ValueInv ==
  /\ execution.num \in Rows => execution.ins = row[execution.num]
  /\ \A op \in {ex, mem} : op.num \in Rows => op.mem_op = row[op.num].mem_op
  /\ \A op \in {ex, mem, wb} :
       op.num \in Rows => Computes(row[op.num], ArchRegisters, op.val, op.jump_taken)
  /\ \A r \in Rows : comm[r] => Computes(row[r], ArchRegisters, res[r], jump_taken[r])

(* Writing a register keeps the registers words.                           *)
LEMMA OverlayTyped ==
  ASSUME NEW f \in [ Registers -> Values ], NEW rd, NEW rd_write, NEW val \in Values
  PROVE  Overlay(f, rd, rd_write, val) \in [ Registers -> Values ]
  BY DEF Overlay

(* The registers with all that is on its way to them.                      *)
LEMMA ArchTyped ==
  ASSUME TypeOK
  PROVE  ArchRegisters \in [ Registers -> Values ]
  <1>1. /\ registers \in [ Registers -> Values ] /\ commit.res \in Values
        /\ wb.val \in Values /\ mem.val \in Values /\ ex.val \in Values
    BY DEF TypeOK, RobTypeOK, PipelineTypeOK, Commits, Operations
  <1> QED
    BY <1>1, OverlayTyped DEF ArchRegisters, OverlayCsr

(* With an empty table nothing is committed or sent.                       *)
LEMMA EmptyIsIdle ==
  ASSUME TypeOK, CoreInv, rob_empty, RobClock(FALSE, count_instruction, instruction, done)
  PROVE  /\ commit' = NoCommit /\ ~flush' /\ ~committing
         /\ execution.num = NopRow
  <1>1. ~committing
    BY RobTypes DEF CoreInv, CommitInv, rob_empty
  <1>2. commit' = NoCommit /\ ~flush'
    BY <1>1 DEF RobClock, RobStep, RobReset, commit_output, flush_generation
  <1>3. execution.num = NopRow
    BY RobTypes, RowsFacts DEF CoreInv, StageInv, Sent, rob_empty
  <1> QED
    BY <1>1, <1>2, <1>3

(* Every edge keeps the CSR instructions in flight apart.                  *)
LEMMA CsrStep ==
  ASSUME TypeOK, CoreInv, DecodeInv, CsrInv,
         RobClock(FALSE, count_instruction, instruction, done),
         count_instruction_csr => ~count_instruction',
         count_instruction_csr' => rob_empty,
         NEW csr_value, NEW load_value,
         PipelineClock(commit.jump_taken, FALSE, commit, execution, count_instruction_csr,
                       instruction, csr_value, load_value)
  PROVE  CsrInv'
  <1>1. /\ commit.jump_taken \in BOOLEAN
        /\ commit.jump_taken => ~(count_instruction_csr \/ ex.csr \/ mem.csr \/ wb.csr)
    BY DEF TypeOK, RobTypeOK, Commits, CsrInv, NoCommit
  <1>2. row'[NopRow] = Nop
    BY RowsFacts, RobTypes DEF TypeOK, RobTypeOK, CsrInv, RobClock, RobStep, RobReset,
                               input_instrs_managing, Release
  <1>3. execution'.num = NopRow => execution'.ins = Nop
    <2>1. \/ execution' = NoExecution
          \/ execution' = [ num |-> pntr_exec, ins |-> row[pntr_exec] ]
      BY DEF RobClock, RobStep, RobReset, execution_output
    <2>2. row[NopRow] = Nop
      BY DEF CsrInv
    <2> QED
      BY <2>1, <2>2 DEF NoExecution
  <1>4. rob_empty /\ ~count_instruction => rob_empty'
    BY EmptyStays
  <1>5. ex'.csr => /\ count_instruction_csr /\ rob_empty' /\ ~count_instruction'
                   /\ ~IsLoad(ex'.mem_op)
    <2> SUFFICES ASSUME ex'.csr
                 PROVE  /\ count_instruction_csr /\ rob_empty' /\ ~count_instruction'
                        /\ ~IsLoad(ex'.mem_op)
      OBVIOUS
    <2>1. /\ count_instruction_csr /\ ~commit.jump_taken
          /\ ex'.mem_op = execution.ins.mem_op
      BY <1>1 DEF PipelineClock, execute_register, Issued, Bubble
    <2>2. rob_empty /\ ~count_instruction
      BY <2>1 DEF DecodeInv
    <2>3. ~IsLoad(ex'.mem_op)
      BY <2>1, <2>2, EmptyIsIdle DEF CsrInv, Nop, IsLoad
    <2> QED
      BY <1>4, <2>1, <2>2, <2>3
  <1>6. mem'.csr => ex.csr /\ rob_empty' /\ ~IsLoad(mem'.mem_op)
    BY <1>1, <1>4 DEF PipelineClock, memory_register, Bubble, CsrInv
  <1>7. wb'.csr => mem.csr
    BY <1>1 DEF PipelineClock, writeback_register, Bubble, TypeOK, PipelineTypeOK, Operations
  <1>8. count_instruction_csr' \/ ex'.csr \/ mem'.csr \/ wb'.csr => commit' = NoCommit
    BY <1>5, <1>6, <1>7, EmptyIsIdle DEF CsrInv, DecodeInv
  <1> QED
    BY <1>2, <1>3, <1>5, <1>6, <1>8 DEF CsrInv, Rows, NopRow

(* An edge lets one ordinary instruction retire through the commit port or *)
(* one CSR instruction on its way into execute; who reads the registers    *)
(* for the table finds all that retired before.                            *)
LEMMA ArchStep ==
  ASSUME TypeOK, CoreInv, DecodeInv, CsrInv,
         RobClock(FALSE, count_instruction, instruction, done),
         NEW csr_value, NEW load_value,
         PipelineClock(commit.jump_taken, FALSE, commit, execution, count_instruction_csr,
                       instruction, csr_value, load_value)
  PROVE  /\ execution.num \in Rows => registers' = ArchRegisters
         /\ ~count_instruction_csr =>
              ArchRegisters' = Overlay(ArchRegisters, commit'.rd, commit'.rd_write, commit'.res)
         /\ count_instruction_csr =>
              ArchRegisters' = Overlay(ArchRegisters, instruction.rd, instruction.rd_write,
                                       csr_value)
  <1>1. /\ commit.jump_taken \in BOOLEAN
        /\ commit.jump_taken => ~(count_instruction_csr \/ ex.csr \/ mem.csr \/ wb.csr)
    BY DEF TypeOK, RobTypeOK, Commits, CsrInv, NoCommit
  <1>2. registers' = OverlayCsr(Overlay(registers, commit.rd, commit.rd_write, commit.res), wb)
    <2>1. WriteRegister(commit)
      BY DEF PipelineClock
    <2>2. CASE wb.csr
      <3>1. commit = NoCommit
        BY <2>2 DEF CsrInv
      <3>2. Overlay(registers, commit.rd, commit.rd_write, commit.res) = registers
        BY <3>1 DEF NoCommit, Overlay
      <3> QED
        BY <2>1, <2>2, <3>2 DEF WriteRegister, OverlayCsr, Overlay
    <2>3. CASE ~wb.csr
      BY <2>1, <2>3 DEF WriteRegister, OverlayCsr, Overlay
    <2> QED
      BY <2>2, <2>3
  <1>3. ArchRegisters = OverlayCsr(OverlayCsr(registers', mem), ex)
    BY <1>2 DEF ArchRegisters
  <1>4. \A f : OverlayCsr(f, wb') = OverlayCsr(f, mem)
    <2>1. CASE commit.jump_taken
      BY <1>1, <2>1 DEF PipelineClock, writeback_register, Bubble, OverlayCsr, Overlay
    <2>2. CASE ~commit.jump_taken
      <3>1. /\ wb'.csr = mem.csr /\ wb'.rd = mem.rd /\ wb'.rd_write = mem.rd_write
            /\ mem.csr => wb'.val = mem.val
        BY <2>2 DEF PipelineClock, writeback_register, TypeOK, PipelineTypeOK, Operations, CsrInv
      <3> QED
        BY <3>1 DEF OverlayCsr, Overlay
    <2> QED
      BY <2>1, <2>2
  <1>5. \A f : OverlayCsr(f, mem') = OverlayCsr(f, ex)
    BY <1>1 DEF PipelineClock, memory_register, Bubble, OverlayCsr, Overlay
  <1>6. \A f : OverlayCsr(f, ex') =
                 IF count_instruction_csr
                 THEN Overlay(f, instruction.rd, instruction.rd_write, csr_value) ELSE f
    BY <1>1 DEF PipelineClock, execute_register, Issued, Bubble, OverlayCsr, Overlay
  <1> DEFINE Port == Overlay(registers', commit'.rd, commit'.rd_write, commit'.res)
             Flight == OverlayCsr(OverlayCsr(Port, mem), ex)
  <1>7. ArchRegisters' =
          IF count_instruction_csr
          THEN Overlay(Flight, instruction.rd, instruction.rd_write, csr_value) ELSE Flight
    <2>1. ArchRegisters' = OverlayCsr(OverlayCsr(OverlayCsr(Port, wb'), mem'), ex')
      BY DEF ArchRegisters
    <2> HIDE DEF Port
    <2> QED
      BY <1>4, <1>5, <1>6, <2>1
  <1>8. CASE rob_empty
    <2>1. commit' = NoCommit /\ execution.num = NopRow
      BY <1>8, EmptyIsIdle
    <2>2. Port = registers' /\ \A f : Overlay(f, commit'.rd, commit'.rd_write, commit'.res) = f
      BY <2>1 DEF NoCommit, Overlay
    <2> QED
      BY <1>3, <1>7, <2>1, <2>2, RowsFacts
  <1>9. CASE ~rob_empty
    <2>1. ~count_instruction_csr /\ ~mem.csr /\ ~ex.csr
      BY <1>9 DEF DecodeInv, CsrInv
    <2>2. \A f : OverlayCsr(OverlayCsr(f, mem), ex) = f
      BY <2>1 DEF OverlayCsr, Overlay
    <2> QED
      BY <1>3, <1>7, <2>1, <2>2
  <1> QED
    BY <1>8, <1>9

(* What an instruction does not read does not change what it computes.     *)
LEMMA ComputesAgain ==
  ASSUME NEW i \in Instructions, NEW f, NEW g, NEW value, NEW jumps,
         Computes(i, f, value, jumps),
         f[i.x_addr] = g[i.x_addr],
         IgnoresSrc2(i) \/ f[i.y_addr] = g[i.y_addr]
  PROVE  Computes(i, g, value, jumps)
  <1>1. CASE IgnoresSrc2(i)
    <2>1. i.branch # "CONDITIONAL"
      BY <1>1 DEF IgnoresSrc2, Instructions
    <2>2. i.y_src \in {"IMM", "SHAMT"}
      BY <1>1 DEF IgnoresSrc2
    <2>3. \A a, b, c : AluResult(i, a, b) = AluResult(i, a, c)
      BY <2>2 DEF AluResult, Operand
    <2>4. \A a, b, c : JumpTaken(i, a, b) = JumpTaken(i, a, c)
      BY <2>1 DEF JumpTaken
    <2> QED
      BY <2>3, <2>4 DEF Computes
  <1>2. CASE ~IgnoresSrc2(i)
    BY <1>2 DEF Computes
  <1> QED
    BY <1>1, <1>2

(* A row that was sent reads nothing that is retired before it.            *)
LEMMA ComputedStays ==
  ASSUME TypeOK, TypeOK', CoreInv, OperandInv,
         RobStep(FALSE, count_instruction, instruction, done),
         ArchRegisters' = Overlay(ArchRegisters, commit'.rd, commit'.rd_write, commit'.res),
         NEW r \in Rows, exec[r], uses'[r], NEW value, NEW jumps,
         Computes(row[r], ArchRegisters, value, jumps)
  PROVE  Computes(row'[r], ArchRegisters', value, jumps)
  <1>1. uses[r] /\ row'[r] = row[r] /\ Stays(r) /\ Clear(r)
    BY RowAfter DEF CoreInv, LifeInv, OperandInv, ClearInv
  <1>2. row[r] \in Instructions /\ row[r].x_addr \in Registers /\ row[r].y_addr \in Registers
    BY DEF TypeOK, RobTypeOK, Rows, AllRows, Instructions, InstructionFields
  <1>3. ArchRegisters \in [ Registers -> Values ]
    BY ArchTyped
  <1>4. /\ ArchRegisters[row[r].x_addr] = ArchRegisters'[row[r].x_addr]
        /\ \/ IgnoresSrc2(row[r])
           \/ ArchRegisters[row[r].y_addr] = ArchRegisters'[row[r].y_addr]
    <2>1. CASE committing
      <3>1. commit'.rd = row[pntr_end].rd
        BY <2>1 DEF RobStep, commit_output
      <3>2. uses[pntr_end] /\ pntr_end \in Rows /\ r # pntr_end
        BY <1>1, <2>1, RobTypes DEF Stays, CoreInv, CommitInv
      <3>3. Age(pntr_end) < Age(r)
        BY <3>2 DEF Age, Rows
      <3>4. /\ row[r].x_addr # row[pntr_end].rd
            /\ IgnoresSrc2(row[r]) \/ row[r].y_addr # row[pntr_end].rd
        BY <1>1, <3>2, <3>3 DEF Clear
      <3>5. \A x \in Registers : x # commit'.rd => ArchRegisters'[x] = ArchRegisters[x]
        BY <1>3 DEF Overlay
      <3> QED
        BY <1>2, <3>1, <3>4, <3>5
    <2>2. CASE ~committing
      BY <2>2 DEF RobStep, commit_output, NoCommit, Overlay
    <2> QED
      BY <2>1, <2>2
  <1> QED
    BY <1>1, <1>2, <1>4, ComputesAgain

(* Every value in flight is right after the edge.                          *)
LEMMA ValueStep ==
  ASSUME TypeOK, TypeOK', CoreInv, OperandInv, ValueInv, ~count_instruction_csr,
         execution.num \in Rows => registers' = ArchRegisters,
         ArchRegisters' = Overlay(ArchRegisters, commit'.rd, commit'.rd_write, commit'.res),
         RobStep(FALSE, count_instruction, instruction, done),
         NEW csr_value, NEW load_value,
         PipelineClock(FALSE, FALSE, commit, execution, count_instruction_csr,
                       instruction, csr_value, load_value)
  PROVE  ValueInv'
  <1>2. ASSUME NEW n \in Rows, exec[n], ~comm[n]
        PROVE  exec[n] /\ uses'[n] /\ row'[n] = row[n]
    BY <1>2, PendingStays, RowAfter DEF CoreInv, LifeInv
  <1>3. ASSUME execution'.num \in Rows
        PROVE  execution'.ins = row'[execution'.num]
    <2>1. execution'.num = pntr_exec /\ execution'.ins = row[pntr_exec]
      BY <1>3, RowsFacts DEF RobStep, execution_output, NoExecution
    <2>2. pntr_exec \in Rows /\ uses[pntr_exec] /\ ~comm[pntr_exec]
      BY <1>3, <2>1 DEF CoreInv, SelectInv
    <2>3. uses'[pntr_exec] /\ row'[pntr_exec] = row[pntr_exec]
      BY <2>2, PendingStays, RowAfter DEF CoreInv
    <2> QED
      BY <2>1, <2>3
  <1>4. ASSUME ex'.num \in Rows
        PROVE  /\ ex'.mem_op = row'[ex'.num].mem_op
               /\ Computes(row'[ex'.num], ArchRegisters', ex'.val, ex'.jump_taken)
    <2> DEFINE i == execution.ins
    <2>1. /\ ex'.num = execution.num /\ ex'.mem_op = i.mem_op
          /\ ex'.val = AluResult(i, registers'[i.x_addr], registers'[i.y_addr])
          /\ ex'.jump_taken = JumpTaken(i, registers'[i.x_addr], registers'[i.y_addr])
      BY DEF PipelineClock, execute_register, Issued
    <2>2. /\ execution.num \in Rows /\ i = row[execution.num]
          /\ exec[execution.num] /\ ~comm[execution.num]
      BY <1>4, <2>1 DEF ValueInv, CoreInv, StageInv, Sent
    <2>3. Computes(row[execution.num], ArchRegisters, ex'.val, ex'.jump_taken)
      BY <2>1, <2>2 DEF Computes
    <2>4. uses'[execution.num] /\ row'[execution.num] = row[execution.num]
      BY <1>2, <2>2
    <2>5. Computes(row'[execution.num], ArchRegisters', ex'.val, ex'.jump_taken)
      BY <2>2, <2>3, <2>4, ComputedStays
    <2> QED
      BY <2>1, <2>2, <2>4, <2>5
  <1>5. ASSUME mem'.num \in Rows
        PROVE  /\ mem'.mem_op = row'[mem'.num].mem_op
               /\ Computes(row'[mem'.num], ArchRegisters', mem'.val, mem'.jump_taken)
    <2>1. mem' = ex
      BY DEF PipelineClock, memory_register
    <2>2. /\ ex.num \in Rows /\ exec[ex.num] /\ ~comm[ex.num]
          /\ ex.mem_op = row[ex.num].mem_op
          /\ Computes(row[ex.num], ArchRegisters, ex.val, ex.jump_taken)
      BY <1>5, <2>1 DEF ValueInv, CoreInv, StageInv, Sent
    <2>3. uses'[ex.num] /\ row'[ex.num] = row[ex.num]
      BY <1>2, <2>2
    <2>4. Computes(row'[ex.num], ArchRegisters', ex.val, ex.jump_taken)
      BY <2>2, <2>3, ComputedStays
    <2> QED
      BY <2>1, <2>2, <2>3, <2>4
  <1>6. ASSUME wb'.num \in Rows
        PROVE  Computes(row'[wb'.num], ArchRegisters', wb'.val, wb'.jump_taken)
    <2>1. /\ wb'.num = mem.num /\ wb'.jump_taken = mem.jump_taken
          /\ ~IsLoad(mem.mem_op) => wb'.val = mem.val
      BY DEF PipelineClock, writeback_register, TypeOK, PipelineTypeOK, Operations
    <2>2. /\ mem.num \in Rows /\ exec[mem.num] /\ ~comm[mem.num]
          /\ mem.mem_op = row[mem.num].mem_op
          /\ Computes(row[mem.num], ArchRegisters, mem.val, mem.jump_taken)
      BY <1>6, <2>1 DEF ValueInv, CoreInv, StageInv, Sent
    <2>3. Computes(row[mem.num], ArchRegisters, wb'.val, wb'.jump_taken)
      BY <2>1, <2>2 DEF Computes
    <2>4. uses'[mem.num]
      BY <1>2, <2>2
    <2> QED
      BY <2>1, <2>2, <2>3, <2>4, ComputedStays
  <1>7. ASSUME NEW r \in Rows, comm'[r]
        PROVE  Computes(row'[r], ArchRegisters', res'[r], jump_taken'[r])
    <2>1. /\ Stays(r) /\ uses'[r] /\ exec[r]
          /\ comm[r] \/ (Completes(done) /\ r = done.num)
      <3>1. Stays(r) /\ (comm[r] \/ (Completes(done) /\ r = done.num))
        BY <1>7, FlagsAfter
      <3>2. exec[r] /\ uses[r]
        BY <3>1, RobTypes DEF CoreInv, LifeInv, StageInv, Sent
      <3> QED
        BY <3>1, <3>2, FlagsAfter
    <2>2. /\ res'[r] = IF Completes(done) /\ r = done.num THEN done.res ELSE res[r]
          /\ jump_taken'[r] = IF Completes(done) /\ r = done.num THEN done.jump_taken
                              ELSE jump_taken[r]
      <3>1. res \in [ Rows -> Values ] /\ jump_taken \in [ Rows -> BOOLEAN ]
        BY DEF TypeOK, RobTypeOK
      <3>2. res'[r] = IF Completes(done) /\ r = done.num THEN done.res ELSE res[r]
        BY <3>1 DEF RobStep, input_completed_instr_managing
      <3>3. jump_taken'[r] = IF Completes(done) /\ r = done.num THEN done.jump_taken
                             ELSE jump_taken[r]
        BY <2>1, <3>1 DEF RobStep, jump_taken_flag_managing, Release, Stays
      <3> QED
        BY <3>2, <3>3
    <2>3. CASE Completes(done) /\ r = done.num
      <3>1. r = wb.num /\ res'[r] = wb.val /\ jump_taken'[r] = wb.jump_taken
        BY <2>2, <2>3 DEF done
      <3>2. Computes(row[r], ArchRegisters, res'[r], jump_taken'[r])
        BY <3>1 DEF ValueInv
      <3> QED
        BY <2>1, <3>2, ComputedStays
    <2>4. CASE ~(Completes(done) /\ r = done.num)
      <3>1. Computes(row[r], ArchRegisters, res'[r], jump_taken'[r])
        BY <2>1, <2>2, <2>4 DEF ValueInv
      <3> QED
        BY <2>1, <3>1, ComputedStays
    <2> QED
      BY <2>3, <2>4
  <1> QED
    BY <1>3, <1>4, <1>5, <1>6, <1>7 DEF ValueInv, Rows

(* There is none in an empty table.                                        *)
LEMMA ValueEmpty ==
  ASSUME rob_empty', CoreInv'
  PROVE  ValueInv'
  BY DEF rob_empty, CoreInv, LifeInv, StageInv, Sent, ValueInv, Rows

------------------------------------------------------------------------------
(* The queue of the in-order machine.                                      *)

UsedRows == { r \in Rows : uses[r] }

(* The row at distance a behind row e in the ring.                         *)
RowBehind(e, a) == IF e + a < NUM_INSTRUCTIONS THEN e + a ELSE e + a - NUM_INSTRUCTIONS

(* The rows of a ring segment from e up to s, counted from e on.           *)
LEMMA SegmentCount ==
  ASSUME NEW s \in Rows, NEW e \in Rows, NEW U, U \subseteq Rows,
         \/ s > e /\ \A r \in Rows : r \in U <=> (e <= r /\ r < s)
         \/ s < e /\ \A r \in Rows : r \in U <=> (e <= r \/ r < s)
         \/ s = e /\ \A r \in Rows : r \in U
         \/ s = e /\ \A r \in Rows : r \notin U
  PROVE  /\ IsFiniteSet(U) /\ Cardinality(U) \in 0 .. NUM_INSTRUCTIONS
         /\ \A k \in 0 .. NUM_INSTRUCTIONS - 1 :
              RowBehind(e, k) \in Rows /\ (RowBehind(e, k) \in U <=> k < Cardinality(U))
         /\ Cardinality(U) < NUM_INSTRUCTIONS => RowBehind(e, Cardinality(U)) = s
  <1>1. \A k \in 0 .. NUM_INSTRUCTIONS - 1 : RowBehind(e, k) \in Rows
    BY DEF RowBehind, Rows
  <1>2. CASE s > e /\ \A r \in Rows : r \in U <=> (e <= r /\ r < s)
    <2>1. U = e .. (s - 1)
      <3>1. \A x \in U : x \in e .. (s - 1)
        BY <1>2 DEF Rows
      <3>2. \A x \in e .. (s - 1) : x \in U
        BY <1>2 DEF Rows
      <3> QED
        BY <3>1, <3>2
    <2>2. IsFiniteSet(U) /\ Cardinality(U) = s - e
      BY <1>2, <2>1, FS_Interval DEF Rows
    <2> QED
      BY <1>1, <1>2, <2>2 DEF RowBehind, Rows
  <1>3. CASE s < e /\ \A r \in Rows : r \in U <=> (e <= r \/ r < s)
    <2> DEFINE S == e .. (NUM_INSTRUCTIONS - 1)
               T == 0 .. (s - 1)
    <2>1. U = S \union T /\ S \cap T = {}
      <3>1. \A x \in U : x \in S \/ x \in T
        BY <1>3 DEF Rows
      <3>2. \A x \in S : x \in U /\ x \notin T
        BY <1>3 DEF Rows
      <3>3. \A x \in T : x \in U
        BY <1>3 DEF Rows
      <3> HIDE DEF S, T
      <3> QED
        BY <3>1, <3>2, <3>3
    <2>2. /\ IsFiniteSet(S) /\ Cardinality(S) = NUM_INSTRUCTIONS - e
          /\ IsFiniteSet(T) /\ Cardinality(T) = s
      <3>1. /\ e \in Int /\ NUM_INSTRUCTIONS - 1 \in Int /\ s - 1 \in Int
            /\ 0 <= s /\ e <= NUM_INSTRUCTIONS - 1
            /\ S = e .. (NUM_INSTRUCTIONS - 1) /\ T = 0 .. (s - 1)
        BY DEF Rows
      <3> HIDE DEF S, T
      <3>2. IsFiniteSet(S) /\ Cardinality(S) = NUM_INSTRUCTIONS - e
        BY <3>1, FS_Interval
      <3>3. IsFiniteSet(T) /\ Cardinality(T) = s
        BY <3>1, FS_Interval
      <3> QED
        BY <3>2, <3>3
    <2> HIDE DEF S, T
    <2>3. IsFiniteSet(U) /\ Cardinality(U) = NUM_INSTRUCTIONS - e + s
      BY <2>1, <2>2, FS_Union, FS_EmptySet DEF Rows
    <2> QED
      BY <1>1, <1>3, <2>3 DEF RowBehind, Rows
  <1>4. CASE s = e /\ \A r \in Rows : r \in U
    <2>1. U = 0 .. (NUM_INSTRUCTIONS - 1)
      BY <1>4 DEF Rows
    <2>2. IsFiniteSet(U) /\ Cardinality(U) = NUM_INSTRUCTIONS
      BY <2>1, FS_Interval
    <2> QED
      BY <1>1, <1>4, <2>2
  <1>5. CASE s = e /\ \A r \in Rows : r \notin U
    <2>1. U = {}
      BY <1>5
    <2>2. IsFiniteSet(U) /\ Cardinality(U) = 0
      BY <2>1, FS_EmptySet
    <2> QED
      BY <1>1, <1>5, <2>2 DEF RowBehind, Rows
  <1> QED
    BY <1>2, <1>3, <1>4, <1>5

(* A function on 1 .. n is a sequence of length n.                         *)
LEMMA FunctionIsSequence ==
  ASSUME NEW S, NEW n \in Nat, NEW Q \in [ 1 .. n -> S ]
  PROVE  Q \in Seq(S) /\ Len(Q) = n
  <1>1. Q \in Seq(S)
    BY SeqDef
  <1>2. DOMAIN Q = 1 .. n /\ DOMAIN Q = 1 .. Len(Q) /\ Len(Q) \in Nat
    BY <1>1, LenProperties
  <1> QED
    BY <1>1, <1>2

(* What decode hands to the table at this edge.                            *)
Arriving == IF count_instruction THEN << instruction >> ELSE << >>

(* An edge appends what arrives and drops what is committed.               *)
LEMMA TableStep ==
  ASSUME TypeOK, TypeOK', CoreInv, RingInv',
         RobStep(FALSE, count_instruction, instruction, done)
  PROVE  /\ committing => /\ TableQueue # << >>
                          /\ Head(TableQueue \o Arriving) = row[pntr_end]
         /\ TableQueue \in Seq(Instructions) /\ TableQueue' \in Seq(Instructions)
         /\ TableQueue \o Arriving \in Seq(Instructions)
         /\ TableQueue' = IF committing THEN Tail(TableQueue \o Arriving)
                          ELSE TableQueue \o Arriving
  <1> DEFINE n == Cardinality(UsedRows)
             m == Cardinality(UsedRows')
             more == IF count_instruction THEN 1 ELSE 0
             less == IF committing THEN 1 ELSE 0
             A == TableQueue \o Arriving
  <1>1. /\ pntr_start \in Rows /\ pntr_end \in Rows
        /\ committing \in BOOLEAN /\ count_instruction \in BOOLEAN
        /\ instruction \in Instructions
        /\ pntr_end' = IF committing THEN Successor(pntr_end) ELSE pntr_end
        /\ committing => uses[pntr_end]
        /\ count_instruction => ~uses[pntr_start]
    BY RoomForCounted DEF TypeOK, RobTypeOK, DecodeTypeOK, RobStep, sequential_process,
                          CoreInv, CommitInv
  <1>2. /\ n \in 0 .. NUM_INSTRUCTIONS /\ IsFiniteSet(UsedRows)
        /\ \A k \in 0 .. NUM_INSTRUCTIONS - 1 :
             RowAtAge(k) \in Rows /\ (uses[RowAtAge(k)] <=> k < n)
        /\ n < NUM_INSTRUCTIONS => RowAtAge(n) = pntr_start
    <2>1. \A k : RowAtAge(k) = RowBehind(pntr_end, k)
      BY DEF RowAtAge, RowBehind
    <2>2. \A r \in Rows : r \in UsedRows <=> uses[r]
      BY DEF UsedRows
    <2>3. UsedRows \subseteq Rows
      BY DEF UsedRows
    <2> QED
      BY <1>1, <2>1, <2>2, <2>3, SegmentCount DEF CoreInv, RingInv
  <1>3. /\ m \in 0 .. NUM_INSTRUCTIONS
        /\ \A k \in 0 .. NUM_INSTRUCTIONS - 1 :
             RowAtAge(k)' \in Rows /\ (uses'[RowAtAge(k)'] <=> k < m)
    <2>1. \A k : RowAtAge(k)' = RowBehind(pntr_end', k)
      BY DEF RowAtAge, RowBehind
    <2>2. \A r \in Rows : r \in UsedRows' <=> uses'[r]
      BY DEF UsedRows, Rows
    <2>3. UsedRows' \subseteq Rows
      BY DEF UsedRows, Rows
    <2>4. pntr_start' \in Rows /\ pntr_end' \in Rows
      BY DEF TypeOK, RobTypeOK, Rows
    <2>5. \/ pntr_start' > pntr_end'
             /\ \A r \in Rows : uses'[r] <=> (pntr_end' <= r /\ r < pntr_start')
          \/ pntr_start' < pntr_end'
             /\ \A r \in Rows : uses'[r] <=> (pntr_end' <= r \/ r < pntr_start')
          \/ pntr_start' = pntr_end' /\ \A r \in Rows : uses'[r]
          \/ pntr_start' = pntr_end' /\ \A r \in Rows : ~uses'[r]
      BY DEF RingInv, Rows
    <2> QED
      <3> DEFINE U == UsedRows'
      <3> HIDE DEF U
      <3>1. /\ Cardinality(U) \in 0 .. NUM_INSTRUCTIONS
            /\ \A k \in 0 .. NUM_INSTRUCTIONS - 1 :
                 /\ RowBehind(pntr_end', k) \in Rows
                 /\ RowBehind(pntr_end', k) \in U <=> k < Cardinality(U)
        BY <2>2, <2>3, <2>4, <2>5, SegmentCount DEF U
      <3> QED
        BY <2>1, <2>2, <3>1 DEF U
  <1>4. m = n + more - less
    <2> DEFINE T == IF count_instruction THEN UsedRows \union {pntr_start} ELSE UsedRows
    <2>1. IsFiniteSet(T) /\ Cardinality(T) = n + more
      <3>1. count_instruction => pntr_start \notin UsedRows
        BY <1>1 DEF UsedRows
      <3>2. CASE count_instruction
        <4>1. Cardinality(UsedRows \union {pntr_start}) = Cardinality(UsedRows) + 1
          BY <1>2, <3>1, <3>2, FS_AddElement
        <4> QED
          BY <1>2, <3>2, <4>1, FS_AddElement
      <3>3. CASE ~count_instruction
        BY <1>2, <3>3
      <3> QED
        BY <3>2, <3>3
    <2>2. UsedRows' = IF committing THEN T \ {pntr_end} ELSE T
      BY <1>1, FlagsAfter DEF UsedRows, Stays, Rows
    <2>3. pntr_end \in T \/ ~committing
      BY <1>1 DEF UsedRows
    <2>4. n \in Int /\ more \in Int
      BY <1>2
    <2> HIDE DEF T
    <2>5. CASE committing
      <3>1. m = Cardinality(T) - 1
        BY <2>1, <2>2, <2>3, <2>5, FS_RemoveElement
      <3>2. less = 1
        BY <2>5
      <3> HIDE DEF n, m, more, less
      <3> QED
        BY <2>1, <2>4, <3>1, <3>2
    <2>6. CASE ~committing
      BY <2>1, <2>2, <2>4, <2>6
    <2> QED
      BY <2>5, <2>6
  <1>5. /\ TableQueue \in Seq(Instructions) /\ Len(TableQueue) = n
        /\ \A k \in 1 .. n : TableQueue[k] = row[RowAtAge(k - 1)]
    <2>1. TableQueue = [ k \in 1 .. n |-> row[RowAtAge(k - 1)] ]
      BY DEF TableQueue, UsedRows
    <2>2. \A k \in 1 .. n : RowAtAge(k - 1) \in AllRows
      BY <1>2, RowsFacts
    <2>3. row \in [ AllRows -> Instructions ] /\ n \in Nat
      BY <1>2 DEF TypeOK, RobTypeOK
    <2> HIDE DEF n
    <2>4. TableQueue \in [ 1 .. n -> Instructions ]
      BY <2>1, <2>2, <2>3
    <2> QED
      BY <2>1, <2>3, <2>4, FunctionIsSequence
  <1>6. /\ TableQueue' \in Seq(Instructions) /\ Len(TableQueue') = m
        /\ \A k \in 1 .. m : TableQueue'[k] = row'[RowAtAge(k - 1)']
    <2>1. TableQueue' = [ k \in 1 .. m |-> row'[RowAtAge(k - 1)'] ]
      BY DEF TableQueue, UsedRows, Rows
    <2>2. \A k \in 1 .. m : RowAtAge(k - 1)' \in AllRows
      BY <1>3, RowsFacts
    <2>3. row' \in [ AllRows -> Instructions ] /\ m \in Nat
      BY <1>3 DEF TypeOK, RobTypeOK, Rows, AllRows
    <2> HIDE DEF m
    <2>4. TableQueue' \in [ 1 .. m -> Instructions ]
      BY <2>1, <2>2, <2>3
    <2> QED
      BY <2>1, <2>3, <2>4, FunctionIsSequence
  <1>7. /\ Arriving \in Seq(Instructions) /\ Len(Arriving) = more
        /\ count_instruction => Arriving[1] = instruction
    BY <1>1 DEF Arriving
  <1>8. /\ A \in Seq(Instructions) /\ Len(A) = n + more
        /\ \A k \in 1 .. (n + more) : A[k] = IF k <= n THEN TableQueue[k] ELSE Arriving[k - n]
    <2> HIDE DEF n, more
    <2> QED BY <1>5, <1>7, ConcatProperties
  <1>0. count_instruction => n < NUM_INSTRUCTIONS
    <2> DEFINE k == IF pntr_start >= pntr_end THEN pntr_start - pntr_end
                    ELSE pntr_start - pntr_end + NUM_INSTRUCTIONS
    <2>1. k \in 0 .. NUM_INSTRUCTIONS - 1 /\ RowAtAge(k) = pntr_start
      BY <1>1 DEF RowAtAge, Rows
    <2> HIDE DEF k
    <2> QED
      BY <1>1, <1>2, <2>1
  <1>9. committing => n > 0 /\ RowAtAge(0) = pntr_end
    BY <1>1, <1>2 DEF RowAtAge, Rows
  <1>10. \A k \in 1 .. m : TableQueue'[k] = A[k + less]
    <2> TAKE k \in 1 .. m
    <2> DEFINE a == k - 1 + less
    <2> HIDE DEF n, m
    <2>1. /\ a \in 0 .. NUM_INSTRUCTIONS - 1 \/ a = NUM_INSTRUCTIONS
          /\ a < n + more /\ k - 1 \in 0 .. NUM_INSTRUCTIONS - 1
      BY <1>1, <1>2, <1>3, <1>4
    <2>2. RowAtAge(k - 1)' = RowAtAge(a)
      BY <1>1, <2>1 DEF RowAtAge, Successor, Rows
    <2> DEFINE r == RowAtAge(a)
    <2>3. r \in Rows /\ uses'[r] /\ TableQueue'[k] = row'[r]
      BY <1>3, <1>6, <2>1, <2>2
    <2>4. CASE a < n
      <3>1. uses[r]
        BY <1>2, <2>1, <2>4
      <3>2. row'[r] = row[r]
        BY <2>3, <3>1, RowAfter
      <3>3. A[k + less] = row[r]
        BY <1>1, <1>2, <1>5, <1>8, <2>1, <2>4
      <3> QED
        BY <2>3, <3>2, <3>3
    <2>5. CASE ~(a < n)
      <3>1. count_instruction /\ a = n
        BY <1>1, <1>2, <2>1, <2>5
      <3>2. ~uses[r]
        BY <1>0, <1>2, <3>1
      <3>3. r = pntr_start /\ Stays(r)
        BY <2>3, <3>2, FlagsAfter
      <3>4. row'[r] = instruction
        BY <3>1, <3>3, RowsFacts, <2>3 DEF RobStep, input_instrs_managing, Release, Stays,
                                           TypeOK, RobTypeOK
      <3>5. A[k + less] = instruction
        BY <1>1, <1>2, <1>7, <1>8, <2>1, <3>1
      <3> QED
        BY <2>3, <3>4, <3>5
    <2> QED
      BY <2>4, <2>5
  <1>11. CASE ~committing
    <2>1. Len(TableQueue') = Len(A) /\ \A k \in 1 .. Len(TableQueue') : TableQueue'[k] = A[k]
      BY <1>2, <1>4, <1>6, <1>8, <1>10, <1>11
    <2>2. TableQueue' = A
      <3> HIDE DEF A
      <3> QED BY <1>6, <1>8, <2>1, SeqEqual
    <2> QED
      BY <1>8, <1>11, <2>2
  <1>12. CASE committing
    <2>1. A # << >> /\ TableQueue # << >>
      BY <1>2, <1>5, <1>8, <1>9, <1>12, EmptySeq
    <2>2. Head(A) = row[pntr_end]
      <3>1. A[1] = TableQueue[1] /\ TableQueue[1] = row[RowAtAge(0)]
        BY <1>2, <1>5, <1>8, <1>9, <1>12
      <3> QED
        BY <1>9, <1>12, <2>1, <3>1
    <2>3. /\ Tail(A) \in Seq(Instructions) /\ Len(Tail(A)) = n + more - 1
          /\ \A k \in 1 .. Len(Tail(A)) : Tail(A)[k] = A[k + 1]
      <3>1. Len(A) = n + more /\ n \in Int /\ more \in Int
        BY <1>2, <1>8
      <3>2. A \in Seq(Instructions)
        BY <1>8
      <3> HIDE DEF A, n, more
      <3>3. /\ Tail(A) \in Seq(Instructions) /\ Len(Tail(A)) = Len(A) - 1
            /\ \A k \in 1 .. Len(Tail(A)) : Tail(A)[k] = A[k + 1]
        BY <2>1, <3>2, HeadTailProperties
      <3> QED
        BY <3>1, <3>3
    <2>4. Len(TableQueue') = Len(Tail(A))
          /\ \A k \in 1 .. Len(TableQueue') : TableQueue'[k] = Tail(A)[k]
      BY <1>4, <1>6, <1>10, <1>12, <2>3
    <2>5. TableQueue' = Tail(A)
      <3> HIDE DEF A
      <3> QED BY <1>6, <2>3, <2>4, SeqEqual
    <2> QED
      BY <1>8, <1>12, <2>1, <2>2, <2>5
  <1> QED
    BY <1>5, <1>6, <1>11, <1>12

------------------------------------------------------------------------------
(* The refinement of the in-order machine.                                 *)

(* What decode hands on at this edge, and what it keeps back.              *)
Decoded == IF count_instruction \/ count_instruction_csr THEN << instruction >> ELSE << >>
KeptBack == IF state = "rob_empty" THEN << prev_instruction >> ELSE << >>

(* Instruction i enters decode, and is handed on or kept back.             *)
Enters(i) ==
  \/ Decoded' = << i >> /\ KeptBack' = << >>
  \/ Decoded' = << >> /\ KeptBack' = << i >>

(* While none is kept back an instruction of the program may enter decode. *)
(* The one that is kept back stays, kept or on its way.                    *)
LEMMA DecodeMoves ==
  ASSUME TypeOK, DecodeInv, ~count_instruction_csr,
         NEW squash, NEW ready, NEW ins, ready => ins \in Instrs,
         DecodeClock(squash, stall_id, ready, ins, rob_empty)
  PROVE  /\ state = "normal_execution" \/ state = "rob_empty"
         /\ squash => Decoded' = << >> /\ KeptBack' = << >>
         /\ ~squash /\ state = "rob_empty" => Enters(prev_instruction)
         /\ ~squash /\ state = "normal_execution" =>
              \/ Decoded' = << >> /\ KeptBack' = << >>
              \/ ~stall_id /\ \E i \in Instrs : Enters(i)
  <1>1. state = "normal_execution" \/ state = "rob_empty"
    BY DEF TypeOK, DecodeTypeOK, DecodeStates, DecodeInv
  <1>2. CASE squash
    BY <1>1, <1>2 DEF DecodeClock, DecodeFlush, HandOn, Enter, Decoded, KeptBack
  <1>3. CASE ~squash /\ state = "rob_empty"
    <2>1. WaitRobEmpty(rob_empty)
      BY <1>3 DEF DecodeClock, DecodeIdle, DecodeOrdinary, DecodeCsr, CsrExecution
    <2> QED
      BY <1>3, <2>1 DEF WaitRobEmpty, HandOn, Enter, Enters, Decoded, KeptBack
  <1>4. CASE ~squash /\ state = "normal_execution"
    <2>1. \/ DecodeIdle(stall_id, ready) \/ DecodeOrdinary(stall_id, ready, ins)
          \/ DecodeCsr(stall_id, ready, ins, rob_empty)
      BY <1>4 DEF DecodeClock, WaitRobEmpty, CsrExecution
    <2>2. CASE DecodeIdle(stall_id, ready)
      BY <1>4, <2>2 DEF DecodeIdle, HandOn, Decoded, KeptBack
    <2>3. CASE DecodeOrdinary(stall_id, ready, ins)
      <3>1. ~stall_id /\ ins \in Instrs
        BY <2>3 DEF DecodeOrdinary
      <3>2. Enters(ins)
        BY <2>3 DEF DecodeOrdinary, HandOn, Enter, Enters, Decoded, KeptBack
      <3> QED
        BY <1>4, <3>1, <3>2
    <2>4. CASE DecodeCsr(stall_id, ready, ins, rob_empty)
      <3>1. ~stall_id /\ ins \in Instrs
        BY <2>4 DEF DecodeCsr
      <3>2. Enters(ins)
        BY <2>4 DEF DecodeCsr, HandOn, Enter, Enters, Decoded, KeptBack
      <3> QED
        BY <1>4, <3>1, <3>2
    <2> QED
      BY <1>4, <2>1, <2>2, <2>3, <2>4
  <1> QED
    BY <1>1, <1>2, <1>3, <1>4

(* The queue is the table and what decode holds behind it.                 *)
LEMMA QueueParts ==
  /\ flush => ArchQueue = << >>
  /\ ~flush => ArchQueue = TableQueue \o Decoded \o KeptBack
  BY DEF ArchQueue, Decoded, KeptBack

(* One instruction behind a sequence, at either place.                     *)
LEMMA PartsJoin ==
  ASSUME NEW S, NEW T \in Seq(S), NEW i \in S
  PROVE  /\ T \o << >> \o << >> = T
         /\ T \o << i >> \o << >> = Append(T, i)
         /\ T \o << >> \o << i >> = Append(T, i)
  <1>1. Append(T, i) \in Seq(S) /\ Append(T, i) = T \o << i >>
    BY AppendProperties, AppendIsConcat
  <1>2. T \o << >> = T
    BY ConcatEmptySeq
  <1>3. (T \o << i >>) \o << >> = Append(T, i)
    BY <1>1, ConcatEmptySeq
  <1> QED
    BY <1>1, <1>2, <1>3

(* A table without rows in use is an empty queue.                          *)
LEMMA TableEmpty ==
  ASSUME rob_empty
  PROVE  TableQueue = << >>
  <1> DEFINE U == { r \in Rows : uses[r] }
  <1>1. U = {}
    BY DEF rob_empty
  <1>2. Cardinality(U) = 0
    BY <1>1, FS_EmptySet
  <1>3. TableQueue = [ k \in 1 .. Cardinality(U) |-> row[RowAtAge(k - 1)] ]
    BY DEF TableQueue
  <1>4. TableQueue \in [ 1 .. 0 -> Instructions ]
    <2> HIDE DEF U
    <2> QED BY <1>2, <1>3
  <1> QED
    BY <1>4, FunctionIsSequence, EmptySeq

(* The same after an edge.                                                 *)
LEMMA TableEmptied ==
  ASSUME rob_empty'
  PROVE  TableQueue' = << >>
  <1> DEFINE U == { r \in Rows : uses'[r] }
  <1>1. U = {}
    BY DEF rob_empty, Rows
  <1>2. Cardinality(U) = 0
    BY <1>1, FS_EmptySet
  <1>3. TableQueue' = [ k \in 1 .. Cardinality(U) |-> row'[RowAtAge(k - 1)'] ]
    BY DEF TableQueue, Rows
  <1>4. TableQueue' \in [ 1 .. 0 -> Instructions ]
    <2> HIDE DEF U
    <2> QED BY <1>2, <1>3
  <1> QED
    BY <1>4, FunctionIsSequence, EmptySeq

(* What the in-order machine computes is what the ALU computes.            *)
LEMMA SameFunctions ==
  /\ \A i, a, b : Machine!AluResult(i, a, b) = AluResult(i, a, b)
  /\ \A i, a, b : Machine!JumpTaken(i, a, b) = JumpTaken(i, a, b)
  /\ \A m : Machine!IsLoad(m) = IsLoad(m)
  /\ Machine!Values = Values
  BY DEF Machine!AluResult, Machine!JumpTaken, Machine!IsLoad, Machine!Values, Machine!Operand,
         AluResult, JumpTaken, IsLoad, Values, Operand

(* A committed row is the head of the queue: it retires with the result    *)
(* and the jump the in-order machine would give it.                        *)
LEMMA HeadRetires ==
  ASSUME TypeOK, CoreInv, ValueInv, committing,
         RobStep(FALSE, count_instruction, instruction, done),
         ArchRegisters' = Overlay(ArchRegisters, commit'.rd, commit'.rd_write, commit'.res),
         Head(ArchQueue) = row[pntr_end]
  PROVE  /\ res[pntr_end] \in Values
         /\ Machine!Execute(Head(ArchQueue), res[pntr_end])
         /\ Machine!Taken(Head(ArchQueue)) <=> flush'
  <1> DEFINE i == row[pntr_end]
  <1>1. /\ pntr_end \in Rows /\ comm[pntr_end]
        /\ res[pntr_end] \in Values /\ jump_taken[pntr_end] \in BOOLEAN
    BY DEF TypeOK, RobTypeOK, CoreInv, CommitInv
  <1>2. Computes(i, ArchRegisters, res[pntr_end], jump_taken[pntr_end])
    BY <1>1 DEF ValueInv
  <1>3. /\ commit'.rd = i.rd /\ commit'.rd_write = i.rd_write /\ commit'.res = res[pntr_end]
        /\ flush' = jump_taken[pntr_end]
    BY DEF RobStep, commit_output, flush_generation
  <1>4. IF i.rd_write /\ i.rd # 0
        THEN ArchRegisters' = [ ArchRegisters EXCEPT ![i.rd] = res[pntr_end] ]
        ELSE ArchRegisters' = ArchRegisters
    BY <1>3 DEF Overlay
  <1>5. Machine!Result(i, res[pntr_end]) = res[pntr_end]
    BY <1>2, SameFunctions DEF Machine!Result, Computes
  <1>6. Machine!Execute(i, res[pntr_end])
    BY <1>4, <1>5 DEF Machine!Execute
  <1>7. Machine!Taken(i) <=> flush'
    BY <1>2, <1>3, SameFunctions DEF Machine!Taken, Computes
  <1> QED
    BY <1>1, <1>6, <1>7

(* An edge that hands no CSR instruction on takes the head from the queue  *)
(* if a row is committed, and puts at most one instruction behind it.      *)
LEMMA QueueStep ==
  ASSUME TypeOK, TypeOK', CoreInv, CoreInv', DecodeInv, ~count_instruction_csr,
         RobStep(FALSE, count_instruction, instruction, done),
         NEW ready, NEW ins, ready => ins \in Instrs,
         DecodeClock(FALSE, stall_id, ready, ins, rob_empty)
  PROVE  /\ committing => ArchQueue # << >> /\ Head(ArchQueue) = row[pntr_end]
         /\ ~flush' =>
              \/ ArchQueue' = IF committing THEN Tail(ArchQueue) ELSE ArchQueue
              \/ \E i \in Instrs :
                   ArchQueue' = Append(IF committing THEN Tail(ArchQueue) ELSE ArchQueue, i)
  <1> DEFINE A == TableQueue \o Arriving
             B == IF committing THEN Tail(A) ELSE A
  <1>1. /\ TableQueue \in Seq(Instructions) /\ A \in Seq(Instructions)
        /\ B \in Seq(Instructions)
        /\ committing => A # << >> /\ Head(A) = row[pntr_end]
        /\ TableQueue' = B
    <2>1. /\ committing => TableQueue # << >> /\ Head(A) = row[pntr_end]
          /\ TableQueue \in Seq(Instructions) /\ TableQueue' \in Seq(Instructions)
          /\ A \in Seq(Instructions)
          /\ TableQueue' = B
      BY TableStep DEF CoreInv
    <2>2. Arriving \in Seq(Instructions)
      BY DEF Arriving, TypeOK, DecodeTypeOK
    <2>3. committing => A # << >>
      BY <2>1, <2>2, ConcatEqualIffEmpty
    <2> QED
      BY <2>1, <2>3
  <1>2. ArchQueue = A \o KeptBack
    BY QueueParts DEF RobStep, Decoded, Arriving
  <1>3. ~flush' => ArchQueue' = B \o Decoded' \o KeptBack'
    BY <1>1 DEF ArchQueue, Decoded, KeptBack
  <1>4. prev_instruction \in Instructions /\ Instrs \subseteq Instructions
    BY InstrsAssumption DEF TypeOK, DecodeTypeOK
  <1> HIDE DEF A
  <1>5. CASE state = "rob_empty"
    <2>1. ArchQueue = Append(A, prev_instruction)
      BY <1>1, <1>2, <1>4, <1>5, AppendIsConcat DEF KeptBack
    <2>2. ~flush' => ArchQueue' = Append(B, prev_instruction)
      <3>1. Enters(prev_instruction)
        BY <1>5, DecodeMoves
      <3> HIDE DEF B
      <3> QED
        BY <1>1, <1>3, <1>4, <3>1, PartsJoin DEF Enters
    <2>3. committing => /\ ArchQueue # << >> /\ Head(ArchQueue) = row[pntr_end]
                        /\ Tail(ArchQueue) = Append(Tail(A), prev_instruction)
      BY <1>1, <1>4, <2>1, AppendProperties, HeadTailAppend
    <2> QED
      BY <2>1, <2>2, <2>3
  <1>6. CASE state = "normal_execution"
    <2>1. ArchQueue = A
      BY <1>1, <1>2, <1>6, ConcatEmptySeq DEF KeptBack
    <2>2. ~flush' => ArchQueue' = B \/ \E i \in Instrs : ArchQueue' = Append(B, i)
      <3> HIDE DEF B
      <3>1. CASE Decoded' = << >> /\ KeptBack' = << >>
        BY <1>1, <1>3, <1>4, <3>1, PartsJoin
      <3>2. ASSUME NEW i \in Instrs, Enters(i)
            PROVE  ~flush' => ArchQueue' = Append(B, i)
        <4>1. i \in Instructions
          BY <1>4
        <4> QED
          BY <1>1, <1>3, <3>2, <4>1, PartsJoin DEF Enters
      <3> QED
        BY <1>6, <3>1, <3>2, DecodeMoves
    <2> QED
      BY <1>1, <2>1, <2>2
  <1> QED
    BY <1>5, <1>6, DecodeMoves

(* An edge without a flush that hands no CSR instruction on is a step of   *)
(* the in-order machine or a stutter.                                      *)
LEMMA OrdinaryEdge ==
  ASSUME TypeOK, TypeOK', CoreInv, CoreInv', DecodeInv, ValueInv, ~count_instruction_csr,
         RobStep(FALSE, count_instruction, instruction, done),
         ArchRegisters' = Overlay(ArchRegisters, commit'.rd, commit'.rd_write, commit'.res),
         NEW ready, NEW ins, ready => ins \in Instrs,
         DecodeClock(FALSE, stall_id, ready, ins, rob_empty)
  PROVE  Machine!Next \/ UNCHANGED Machine!isaVars
  <1>1. flush = FALSE /\ flush' \in BOOLEAN
    BY DEF TypeOK, RobTypeOK, RobStep
  <1>2. CASE committing
    <2>1. /\ ArchQueue # << >> /\ Head(ArchQueue) = row[pntr_end]
          /\ ~flush' => \/ ArchQueue' = Tail(ArchQueue)
                        \/ \E i \in Instrs : ArchQueue' = Append(Tail(ArchQueue), i)
      BY <1>2, QueueStep
    <2>2. /\ res[pntr_end] \in Machine!Values
          /\ Machine!Execute(Head(ArchQueue), res[pntr_end])
          /\ Machine!Taken(Head(ArchQueue)) <=> flush'
      BY <1>2, <2>1, HeadRetires, SameFunctions
    <2>3. CASE flush'
      <3>1. ArchQueue' = << >>
        BY <2>3 DEF ArchQueue
      <3>2. Machine!Retire(res[pntr_end])
        BY <2>1, <2>2, <2>3, <3>1 DEF Machine!Retire
      <3> QED
        BY <2>2, <3>2 DEF Machine!Next
    <2>4. CASE ~flush' /\ ArchQueue' = Tail(ArchQueue)
      <3>1. Machine!Retire(res[pntr_end])
        BY <2>1, <2>2, <2>4 DEF Machine!Retire
      <3> QED
        BY <2>2, <3>1 DEF Machine!Next
    <2>5. ASSUME ~flush', NEW i \in Instrs, ArchQueue' = Append(Tail(ArchQueue), i)
          PROVE  Machine!Next
      <3>1. Machine!RetireAndFetch(res[pntr_end], i)
        BY <2>1, <2>2, <2>5 DEF Machine!RetireAndFetch
      <3> QED
        BY <2>2, <3>1 DEF Machine!Next
    <2> QED
      BY <2>1, <2>3, <2>4, <2>5
  <1>3. CASE ~committing
    <2>1. ~flush' /\ ArchRegisters' = ArchRegisters
      BY <1>1, <1>3 DEF RobStep, flush_generation, commit_output, NoCommit, Overlay
    <2>2. CASE ArchQueue' = ArchQueue
      BY <2>1, <2>2 DEF Machine!isaVars
    <2>3. ASSUME NEW i \in Instrs, ArchQueue' = Append(ArchQueue, i)
          PROVE  Machine!Next
      <3>1. Machine!Fetch(i)
        BY <2>1, <2>3 DEF Machine!Fetch
      <3> QED
        BY <3>1 DEF Machine!Next
    <2> QED
      BY <1>3, <2>1, <2>2, <2>3, QueueStep
  <1> QED
    BY <1>2, <1>3

(* The edge that brings a CSR instruction into execute retires it: it is   *)
(* the only one in the queue.                                              *)
LEMMA CsrEdge ==
  ASSUME TypeOK, CoreInv, DecodeInv, count_instruction_csr, ~flush,
         RobClock(FALSE, count_instruction, instruction, done),
         ~count_instruction', ~count_instruction_csr', state' # "rob_empty",
         NEW csr_value \in Values,
         ArchRegisters' = Overlay(ArchRegisters, instruction.rd, instruction.rd_write, csr_value)
  PROVE  Machine!Next
  <1>1. /\ rob_empty /\ ~count_instruction /\ state # "rob_empty"
        /\ instruction \in Instructions /\ instruction.csr
    BY InstrsAssumption DEF DecodeInv
  <1>2. rob_empty' /\ ~flush'
    BY <1>1, EmptyStays, EmptyIsIdle
  <1>3. TableQueue = << >> /\ TableQueue' = << >>
    BY <1>1, <1>2, TableEmpty, TableEmptied
  <1>4. << >> \in Seq(Instructions)
    BY EmptySeq
  <1>5. ArchQueue = Append(<< >>, instruction)
    <2>1. ArchQueue = << >> \o << instruction >> \o << >>
      BY <1>1, <1>3, QueueParts DEF Decoded, KeptBack
    <2> QED
      BY <1>1, <1>4, <2>1, PartsJoin
  <1>6. ArchQueue' = << >>
    <2>1. ArchQueue' = << >> \o << >> \o << >>
      BY <1>2, <1>3 DEF ArchQueue
    <2> QED
      BY <1>1, <1>4, <2>1, PartsJoin
  <1>7. /\ ArchQueue # << >> /\ Head(ArchQueue) = instruction
        /\ Tail(ArchQueue) = << >>
    BY <1>1, <1>4, <1>5, AppendProperties, HeadTailAppend
  <1>8. Machine!Execute(instruction, csr_value)
    BY <1>1 DEF Machine!Execute, Machine!Result, Overlay
  <1>9. ~Machine!Taken(instruction)
    BY <1>1, SameFunctions DEF Machine!Taken, JumpTaken, Instructions
  <1>10. Machine!Retire(csr_value)
    BY <1>6, <1>7, <1>8, <1>9 DEF Machine!Retire
  <1> QED
    BY <1>10, SameFunctions DEF Machine!Next

(* The edge of a flush drops the wrong path, which the in-order machine    *)
(* does not know, and leaves its registers.  A CSR instruction that decode *)
(* keeps across it is fetched by that machine.                             *)
LEMMA FlushEdge ==
  ASSUME TypeOK, DecodeInv, flush, RobReset, ~count_instruction_csr,
         ArchRegisters' = Overlay(ArchRegisters, commit'.rd, commit'.rd_write, commit'.res),
         NEW ready, NEW ins, ready => ins \in Instrs,
         DecodeClock(~stall_id, stall_id, ready, ins, rob_empty)
  PROVE  Machine!Next \/ UNCHANGED Machine!isaVars
  <1>1. ArchRegisters' = ArchRegisters
    BY DEF RobReset, NoCommit, Overlay
  <1>2. TableQueue' = << >> /\ ~flush'
    <2>1. rob_empty'
      BY DEF RobReset, rob_empty
    <2> QED
      BY <2>1, TableEmptied DEF RobReset
  <1>3. ArchQueue = << >> /\ ArchQueue' = << >> \o Decoded' \o KeptBack'
    BY <1>2 DEF ArchQueue, Decoded, KeptBack
  <1>4. << >> \in Seq(Instructions) /\ Nop \in Instructions
    BY EmptySeq, NopTyped
  <1>5. CASE Decoded' = << >> /\ KeptBack' = << >>
    <2>1. ArchQueue' = << >>
      BY <1>3, <1>4, <1>5, PartsJoin
    <2> QED
      BY <1>1, <1>3, <2>1 DEF Machine!isaVars
  <1>6. CASE ~(Decoded' = << >> /\ KeptBack' = << >>)
    <2>1. state = "rob_empty" /\ Enters(prev_instruction)
      BY <1>6, DecodeMoves
    <2>2. prev_instruction \in Instrs /\ prev_instruction \in Instructions
      BY <2>1, InstrsAssumption DEF DecodeInv
    <2>3. ArchQueue' = Append(ArchQueue, prev_instruction)
      BY <1>3, <1>4, <2>1, <2>2, PartsJoin DEF Enters
    <2>4. Machine!Fetch(prev_instruction)
      BY <1>1, <2>3 DEF Machine!Fetch
    <2> QED
      BY <2>2, <2>4 DEF Machine!Next
  <1> QED
    BY <1>5, <1>6

(* At reset nothing is in flight and both machines are the same.           *)
LEMMA InitRefines ==
  ASSUME Init
  PROVE  OperandInv /\ DecodeInv /\ CsrInv /\ ValueInv /\ Machine!Init
  <1>1. OperandInv
    BY DEF Init, RobInit, OperandInv, FreeInv, ClearInv, Rows, AllRows
  <1>2. DecodeInv
    BY DEF Init, DecodeInit, DecodeInv
  <1>3. CsrInv
    BY RowsFacts DEF Init, RobInit, DecodeInit, PipelineInit, CsrInv, Bubble, NoExecution
  <1>4. ValueInv
    <2>1. /\ execution.num = NopRow
          /\ \A op \in {ex, mem, wb} : op.num = NopRow
          /\ \A r \in Rows : ~comm[r]
      BY DEF Init, RobInit, PipelineInit, NoExecution, Bubble, NopRow, Rows
    <2>2. NopRow \notin Rows
      BY DEF NopRow, Rows
    <2> QED
      BY <2>1, <2>2 DEF ValueInv
  <1>5. Machine!Init
    <2>1. ArchRegisters = [ r \in Registers |-> 0 ]
      BY DEF ArchRegisters, OverlayCsr, Overlay, Init, RobInit, PipelineInit, NoCommit, Bubble
    <2>2. TableQueue = << >>
      <3>1. rob_empty
        BY DEF Init, RobInit, rob_empty
      <3> QED
        BY <3>1, TableEmpty
    <2>3. ArchQueue = << >> \o << >> \o << >>
      BY <2>2 DEF ArchQueue, Init, RobInit, DecodeInit
    <2>4. ArchQueue = << >>
      BY <2>3, EmptySeq, NopTyped, PartsJoin
    <2> QED
      BY <2>1, <2>4 DEF Machine!Init
  <1> QED
    BY <1>1, <1>2, <1>3, <1>4, <1>5

(* Every edge is a step of the in-order machine or leaves it alone.        *)
LEMMA EdgeRefines ==
  ASSUME SingleCycleMemory, CsrsApart, TypeOK, TypeOK', CoreInv, CoreInv',
         OperandInv, DecodeInv, DecodeInv', CsrInv, ValueInv, Clock
  PROVE  /\ CsrInv' /\ ValueInv'
         /\ Machine!Next \/ UNCHANGED Machine!isaVars
  <1>1. PICK imem_ack \in BOOLEAN, dmem_ack \in DmemAcks, ins \in Instructions,
             csr_value \in Values, load_value \in Values :
          /\ Edge(StallMem(dmem_ack), Delivers(imem_ack), ins, csr_value, load_value)
          /\ Delivers(imem_ack) => ins \in Instrs
    BY ClockEdge
  <1>2. StallMem(dmem_ack) = FALSE
    BY DEF SingleCycleMemory, StallMem
  <1> DEFINE ready == Delivers(imem_ack)
  <1>3. branch_taken = flush /\ commit.jump_taken = flush /\ flush \in BOOLEAN
    BY DEF TypeOK, RobTypeOK, CoreInv, FlushInv, branch_taken, Commits
  <1>4. /\ DecodeClock(flush /\ ~stall_id, stall_id, ready, ins, rob_empty)
        /\ RobClock(FALSE, count_instruction, instruction, done)
    BY <1>1, <1>2, <1>3 DEF Edge
  <1>5. PipelineClock(commit.jump_taken, FALSE, commit, execution,
                      count_instruction_csr, instruction, csr_value, load_value)
    <2>1. (branch_taken /\ ~FALSE) = commit.jump_taken
      BY <1>3
    <2> QED
      BY <1>1, <1>2, <2>1 DEF Edge
  <1>6. ready => ins \in Instrs /\ ~count_instruction_csr
    BY <1>1, ArrivesAlone
  <1> HIDE DEF ready
  <1>7. /\ count_instruction_csr =>
             ~count_instruction' /\ ~count_instruction_csr' /\ state' # "rob_empty"
        /\ count_instruction_csr' => rob_empty
    <2>1. CASE DecodeFlush
      BY <2>1 DEF DecodeFlush, HandOn, Enter
    <2>2. CASE DecodeIdle(stall_id, ready)
      BY <2>2 DEF DecodeIdle, HandOn
    <2>3. CASE DecodeOrdinary(stall_id, ready, ins)
      BY <1>6, <2>3 DEF DecodeOrdinary, HandOn
    <2>4. CASE DecodeCsr(stall_id, ready, ins, rob_empty)
      BY <1>6, <2>4 DEF DecodeCsr, HandOn
    <2>5. CASE WaitRobEmpty(rob_empty)
      BY <2>5 DEF WaitRobEmpty, HandOn, DecodeInv
    <2>6. CASE CsrExecution(ready, ins)
      BY <1>6, <2>6 DEF CsrExecution, HandOn, Enter
    <2> QED
      BY <1>4, <2>1, <2>2, <2>3, <2>4, <2>5, <2>6 DEF DecodeClock
  <1>8. CsrInv'
    BY <1>4, <1>5, <1>7, CsrStep
  <1>9. /\ execution.num \in Rows => registers' = ArchRegisters
        /\ ~count_instruction_csr =>
             ArchRegisters' = Overlay(ArchRegisters, commit'.rd, commit'.rd_write, commit'.res)
        /\ count_instruction_csr =>
             ArchRegisters' = Overlay(ArchRegisters, instruction.rd, instruction.rd_write,
                                      csr_value)
    BY <1>4, <1>5, ArchStep
  <1>10. count_instruction_csr => ~flush
    BY <1>3 DEF CsrInv, NoCommit
  <1>11. CASE count_instruction_csr
    <2>1. rob_empty'
      BY <1>4, <1>11, EmptyStays DEF DecodeInv
    <2>2. ValueInv'
      BY <2>1, ValueEmpty
    <2>3. Machine!Next
      BY <1>4, <1>7, <1>9, <1>10, <1>11, CsrEdge
    <2> QED
      BY <1>8, <2>2, <2>3
  <1>12. CASE ~count_instruction_csr /\ RobStep(FALSE, count_instruction, instruction, done)
    <2>1. (flush /\ ~stall_id) = FALSE /\ commit.jump_taken = FALSE
      BY <1>3, <1>12 DEF RobStep
    <2>2. PipelineClock(FALSE, FALSE, commit, execution, count_instruction_csr,
                        instruction, csr_value, load_value)
      BY <1>5, <2>1
    <2>3. ValueInv'
      BY <1>9, <1>12, <2>2, ValueStep
    <2>4. DecodeClock(FALSE, stall_id, ready, ins, rob_empty)
      BY <1>4, <2>1
    <2>5. Machine!Next \/ UNCHANGED Machine!isaVars
      BY <1>6, <1>9, <1>12, <2>4, OrdinaryEdge
    <2> QED
      BY <1>8, <2>3, <2>5
  <1>13. CASE ~count_instruction_csr /\ flush /\ RobReset
    <2>1. rob_empty'
      BY <1>13 DEF RobReset, rob_empty
    <2>2. ValueInv'
      BY <2>1, ValueEmpty
    <2>3. (flush /\ ~stall_id) = (~stall_id)
      BY <1>13
    <2>4. DecodeClock(~stall_id, stall_id, ready, ins, rob_empty)
      BY <1>4, <2>3
    <2>5. Machine!Next \/ UNCHANGED Machine!isaVars
      BY <1>6, <1>9, <1>13, <2>4, FlushEdge
    <2> QED
      BY <1>8, <2>2, <2>5
  <1> QED
    BY <1>4, <1>11, <1>12, <1>13 DEF RobClock

(* Out of order as it runs, the core is the in-order machine for its       *)
(* programs: with any number of rows, every instruction of the right path  *)
(* retires once, in program order, with the result and the jump that the   *)
(* registers of all older ones give, and none behind a taken jump does.    *)
(* CSR instructions, which pass the reorder buffer by, retire in their     *)
(* place among the others.                                                 *)
THEOREM CoreIsInOrder ==
  ASSUME SingleCycleMemory, CsrsApart
  PROVE  Spec => ImplementsIsa
  <1> DEFINE RefineInv == OperandInv /\ DecodeInv /\ CsrInv /\ ValueInv
  <1>1. Init => RefineInv /\ Machine!Init
    BY InitRefines
  <1>2. /\ TypeOK /\ TypeOK' /\ CoreInv /\ CoreInv' /\ RefineInv /\ [Next]_vars
        => RefineInv' /\ [Machine!Next]_(Machine!isaVars)
    <2> SUFFICES ASSUME TypeOK, TypeOK', CoreInv, CoreInv', RefineInv, [Next]_vars
                 PROVE  RefineInv' /\ (Machine!Next \/ UNCHANGED Machine!isaVars)
      OBVIOUS
    <2>1. OperandInv' /\ DecodeInv'
      BY OperandStep, DecodeStep
    <2>2. CASE Clock
      BY <2>1, <2>2, EdgeRefines
    <2>3. CASE UNCHANGED vars
      BY <2>1, <2>3 DEF vars, robVars, decodeVars, pipelineVars, CsrInv, ValueInv, rob_empty,
                        Computes, ArchRegisters, ArchQueue, TableQueue, RowAtAge,
                        Machine!isaVars
    <2> QED
      BY <2>2, <2>3 DEF Next
  <1> QED
    BY <1>1, <1>2, Typing, InstructionLife, PTL DEF Spec, ImplementsIsa, Machine!Spec

==============================================================================
