-------------------------- MODULE InstructionStream --------------------------
(***************************************************************************)
(* What fetching promises: the instructions of the program are delivered   *)
(* one after the other, from wherever the last redirection pointed.        *)
(***************************************************************************)
EXTENDS Integers

CONSTANTS Program, CodeWords

VARIABLES next, delivered, redirect

Init ==
  /\ next = 0 /\ ~redirect.taken
  /\ delivered = [ pc |-> 0, word |-> Program[0] ]

Deliver == delivered' = [ pc |-> next, word |-> Program[next] ]

(* An instruction may still come at the edge of a redirection: it is the   *)
(* one that the stages behind throw away.                                  *)
Redirect ==
  /\ redirect.taken
  /\ next' = redirect.target
  /\ Deliver \/ UNCHANGED delivered

Advance ==
  /\ ~redirect.taken
  /\ Deliver
  /\ next' = (next + 1) % CodeWords

Hold == ~redirect.taken /\ UNCHANGED << next, delivered >>

Next == Redirect \/ Advance \/ Hold
Spec == Init /\ [][Next]_<< next, delivered, redirect >>
==============================================================================
