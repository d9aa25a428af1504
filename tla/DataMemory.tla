----------------------------- MODULE DataMemory -----------------------------
(***************************************************************************)
(* What the data side promises: the memory operations that reach the       *)
(* memory stage are performed one by one; a store has changed the memory   *)
(* when it leaves, a load leaves with the word the memory holds.           *)
(***************************************************************************)

CONSTANT NoOperation

VARIABLES
  contents,    \* the memory
  operation,   \* the operation in the memory stage
  answer       \* the word of the last load

Init == operation = NoOperation

Perform ==
  /\ operation.kind = "STORE"
  /\ contents' = [ contents EXCEPT ![operation.adr] = operation.dat ]
  /\ UNCHANGED << operation, answer >>

Leave ==
  /\ operation.kind = "STORE" => contents[operation.adr] = operation.dat
  /\ answer' = IF operation.kind = "LOAD" THEN contents[operation.adr] ELSE answer
  /\ UNCHANGED contents

Next == Perform \/ Leave
Spec == Init /\ [][Next]_<< contents, operation, answer >>
==============================================================================
