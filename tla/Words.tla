------------------------------- MODULE Words -------------------------------
(***************************************************************************)
(* The unsigned 32-bit arithmetic of the software (uint32_t), for the code *)
(* that works on bits: a word is the set of its bits that are 1. The and,  *)
(* the or and the complement of C are then the set operations.             *)
(***************************************************************************)
EXTENDS Integers
LOCAL INSTANCE FiniteSetsExt

Bits == 0..31

\* The word 0xhhhhllll, written as two halves that fit TLC's integers.
Word(high, low) ==
  { b \in Bits : ((IF b > 15 THEN high ELSE low) \div 2 ^ (b % 16)) % 2 = 1 }

(* The bits first..last of a word as a number.                             *)
Field(x, last, first) == SumSet({ 2 ^ (b - first) : b \in x \cap (first..last) })

Xor(x, y) == SymDiff(x, y)

Not(x) == Bits \ x

ShiftRight(x, n) == { b - n : b \in { c \in x : c >= n } }

ShiftLeft(x, n) == { b + n : b \in x } \cap Bits

(* The carry into a bit: a lower bit generated it, all between propagate   *)
(* it. The carry out of bit 31 is lost.                                    *)
Carries(x, y) ==
  { b \in Bits : \E g \in x \cap y : g < b /\ (g + 1)..(b - 1) \subseteq x \cup y }

x ++ y == Xor(Xor(x, y), Carries(x, y))

=============================================================================
