-------------------------------- MODULE Fetch --------------------------------
(***************************************************************************)
(* The fetch stage, src/src/pp_fetch.vhd: the program counter, and         *)
(* cancel_fetch, which drops the answer to a request that a redirection    *)
(* overtook.  Branch and exception are one input, redirect.  Addresses     *)
(* count words.                                                            *)
(***************************************************************************)
EXTENDS Integers

CONSTANT CodeWords   \* words of the program: the counter wraps there

ASSUME CodeAssumption == CodeWords \in Nat \ {0}

CodeAddresses == 0 .. CodeWords - 1

VARIABLES pc, cancel_fetch

FetchInit == pc = 0 /\ cancel_fetch = FALSE

Redirects == [ taken : BOOLEAN, target : CodeAddresses ]

instruction_ready(stall, imem_ack) == imem_ack /\ ~stall /\ ~cancel_fetch

pc_next(stall, imem_ack, redirect) ==
  CASE redirect.taken                     -> redirect.target
    [] ~redirect.taken /\ instruction_ready(stall, imem_ack) -> (pc + 1) % CodeWords
    [] OTHER                              -> pc

imem_address(stall, imem_ack, redirect) ==
  IF cancel_fetch THEN pc ELSE pc_next(stall, imem_ack, redirect)

(* Mutant: a redirection does not cancel the request under way.            *)
OvertakesNever(imem_ack, redirect) == FALSE

Overtakes(imem_ack, redirect) == redirect.taken /\ ~imem_ack

(* Mutant: the cancelled answer does not end the cancelling.               *)
CancelEndsNever(imem_ack) == FALSE

CancelEnds(imem_ack) == cancel_fetch /\ imem_ack

set_pc(stall, imem_ack, redirect) ==
  CASE Overtakes(imem_ack, redirect) ->
         /\ cancel_fetch' = TRUE
         /\ pc' = pc_next(stall, imem_ack, redirect)
    [] ~Overtakes(imem_ack, redirect) /\ CancelEnds(imem_ack) ->
         /\ cancel_fetch' = FALSE
         /\ UNCHANGED pc
    [] OTHER ->
         /\ pc' = pc_next(stall, imem_ack, redirect)
         /\ UNCHANGED cancel_fetch
==============================================================================
