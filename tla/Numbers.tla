------------------------------ MODULE Numbers ------------------------------
(***************************************************************************)
(* The conversion the benchmark prints its counts with, int2string of      *)
(* src/software/sha256/main.c. An int has IntBits bits, and the divisor of *)
(* int2string starts at 10 ^ TopExponent (32 and 9 in the code). A string  *)
(* is the sequence of its character codes before the terminating zero.     *)
(***************************************************************************)
EXTENDS Words, Sequences, SequencesExt

CONSTANTS IntBits, TopExponent

ASSUME NumbersAssumption ==
  /\ IntBits \in 4..31
  /\ TopExponent \in Nat
  /\ 10 ^ TopExponent < 2 ^ (IntBits - 1)
  /\ 10 ^ (TopExponent + 1) >= 2 ^ (IntBits - 1)

INT_MIN == -(2 ^ (IntBits - 1))

Ints == INT_MIN .. -INT_MIN - 1

Magnitude(n) == IF n < 0 THEN -n ELSE n

(* Division in C rounds towards zero.                                      *)
Quotient(n, d) == IF n < 0 THEN -((-n) \div d) ELSE n \div d

(* ~n + 1, which leaves the smallest int as it is.                         *)
Complement(n) == IF n = INT_MIN THEN n ELSE -n

Zero  == 48
Minus == 45

(* Mutant: zeros are written before the first digit too.                   *)
DigitStepZeros(st, i) ==
  LET q == Quotient(st.n, i)
  IN  [ n |-> st.n - q * i, first |-> FALSE, s |-> Append(st.s, Zero + q) ]

(* One turn of the loop: n, first and the string written so far. A         *)
(* negative quotient gives a character below '0'.                          *)
DigitStep(st, i) ==
  LET q == Quotient(st.n, i)
  IN  CASE q = 0 /\ st.first  -> st
        [] q = 0 /\ ~st.first -> [st EXCEPT !.s = Append(@, Zero)]
        [] q # 0 -> [ n     |-> st.n - q * i,
                      first |-> FALSE,
                      s     |-> Append(st.s, Zero + q) ]

Divisors == [ k \in 1..(TopExponent + 1) |-> 10 ^ (TopExponent + 1 - k) ]

int2string(n) ==
  IF n = 0 THEN << Zero >>
  ELSE FoldLeft(DigitStep,
                [ n     |-> IF n < 0 THEN Complement(n) ELSE n,
                  first |-> TRUE,
                  s     |-> IF n < 0 THEN << Minus >> ELSE << >> ],
                Divisors).s

=============================================================================
