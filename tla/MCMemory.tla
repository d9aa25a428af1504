------------------------------ MODULE MCMemory ------------------------------
(* Address maps and operations for the model checker.                      *)
EXTENDS MemorySystem

(* Two words of main memory at 8 and 9, an unused page of the peripheral   *)
(* space at 10.                                                            *)
Highs == [ a \in 0..10 |-> IF a = 10 THEN 49152 ELSE 0 ]
Pages == [ a \in 0..10 |-> IF a = 10 THEN 9 ELSE 0 ]

FewStores == { Operation("STORE", 8, d) : d \in {1, 2} }
FewLoads  == { Operation("LOAD", a, 0) : a \in {8, 10} }
OneStore  == { Operation("STORE", 8, 1) }
==============================================================================
