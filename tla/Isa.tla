---------------------------------- MODULE Isa ----------------------------------
(***************************************************************************)
(* What the core promises its programs: an in-order machine.  Instructions *)
(* are fetched along the predicted path (always the next one) into a queue *)
(* and retired one by one, in that order, each of them on the registers    *)
(* all older ones left; a jump that is taken empties the queue, because    *)
(* everything behind it was fetched on the wrong path.  What a load or a   *)
(* CSR access returns is up to the memory and to the CSR unit.             *)
(***************************************************************************)
EXTENDS PotatoTypes, Sequences

CONSTANT Instrs     \* what the program is made of

VARIABLES
  regs,     \* the architectural registers
  queue     \* instructions fetched and not retired, the oldest first

isaVars == << regs, queue >>

Init ==
  /\ regs = [ r \in Registers |-> 0 ]
  /\ queue = << >>

Result(i, returned) ==
  IF i.csr \/ IsLoad(i.mem_op) THEN returned
  ELSE AluResult(i, regs[i.x_addr], regs[i.y_addr])

Taken(i) == JumpTaken(i, regs[i.x_addr], regs[i.y_addr])

Execute(i, returned) ==
  regs' = IF i.rd_write /\ i.rd # 0
          THEN [ regs EXCEPT ![i.rd] = Result(i, returned) ] ELSE regs

Fetch(i) ==
  /\ queue' = Append(queue, i)
  /\ UNCHANGED regs

Retire(returned) ==
  /\ queue # << >>
  /\ Execute(Head(queue), returned)
  /\ queue' = IF Taken(Head(queue)) THEN << >> ELSE Tail(queue)

RetireAndFetch(returned, i) ==
  /\ queue # << >>
  /\ ~Taken(Head(queue))
  /\ Execute(Head(queue), returned)
  /\ queue' = Append(Tail(queue), i)

Next ==
  \/ \E i \in Instrs : Fetch(i)
  \/ \E returned \in Values : Retire(returned)
  \/ \E returned \in Values, i \in Instrs : RetireAndFetch(returned, i)

Spec == Init /\ [][Next]_isaVars
==============================================================================
