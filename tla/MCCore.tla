-------------------------------- MODULE MCCore --------------------------------
(* Programs for model checking the core. A run of the core keeps to one of *)
(* them; every behaviour is one of Core with Instrs and ImemAcks.          *)
EXTENDS CoreProperties

CONSTANT Programs   \* [instrs, acks]: instructions, and how they are delivered

ASSUME ProgramsAssumption ==
  \A p \in Programs : p.instrs \subseteq Instrs /\ p.acks \subseteq ImemAcks

VARIABLE program

Instr(op, x, y, rd) ==
  [ alu_op |-> op, x_src |-> "REG", x_addr |-> x, y_src |-> "REG", y_addr |-> y,
    rd |-> rd, rd_write |-> TRUE, imm |-> 0, mem_op |-> "NONE",
    branch |-> "NONE", csr |-> FALSE ]

AddImm(rd, x, imm) ==
  [ Instr("ALU_ADD", x, 0, rd) EXCEPT !.y_src = "IMM", !.imm = imm ]
Add(rd, x, y) == Instr("ALU_ADD", x, y, rd)
Beq(x, y) ==
  [ Instr("ALU_NOP", x, y, 0) EXCEPT !.x_src = "NULL", !.y_src = "NULL",
                                     !.rd_write = FALSE, !.branch = "CONDITIONAL" ]
Jal(rd) ==
  [ Instr("ALU_ADD", 0, 0, rd) EXCEPT !.x_src = "PC", !.y_src = "NULL", !.imm = 1,
                                      !.branch = "JUMP" ]
LwImm(rd, x, imm) ==
  [ Instr("ALU_ADD", x, 0, rd) EXCEPT !.y_src = "IMM", !.imm = imm, !.mem_op = "LOAD" ]
Lw(rd, x) == LwImm(rd, x, 0)
Sw(y, x) ==
  [ Instr("ALU_ADD", x, y, 0) EXCEPT !.y_src = "IMM", !.rd_write = FALSE,
                                     !.mem_op = "STORE" ]
Csrr(rd, x) == [ Instr("ALU_ADD", x, 0, rd) EXCEPT !.csr = TRUE ]

Program(instrs, acks) == [ instrs |-> instrs, acks |-> acks ]

JumpProgram == { AddImm(1, 1, 1), Add(2, 1, 1), Beq(1, 2) }
MemoryProgram == { Add(2, 1, 2), LwImm(1, 1, 1), Sw(2, 1) }

OrderPrograms == { Program(JumpProgram, {TRUE, FALSE}), Program(MemoryProgram, {TRUE}) }
WaitPrograms == { Program({ AddImm(1, 1, 1), Lw(2, 0) }, {TRUE, FALSE}) }
CsrPrograms == { Program({ AddImm(1, 1, 1), Csrr(1, 2), Beq(1, 2) }, {TRUE, FALSE}) }
StoreJumpPrograms == { Program({ Beq(1, 2), Sw(2, 1), AddImm(1, 1, 1) }, {TRUE}) }

MCInstrs == UNION { p.instrs : p \in Programs }

ProgramStep == ClockOf(program.instrs, program.acks) /\ UNCHANGED program

ProgramsInit == Init /\ program \in Programs

ProgramsSpec == ProgramsInit /\ [][ProgramStep]_<< vars, program >>

FairProgramsSpec == ProgramsSpec /\ WF_<< vars, program >>(ProgramStep)
==============================================================================
