---------------------------- MODULE MCFunctions ----------------------------
(***************************************************************************)
(* The functions of the software and of the hardware that the other runs   *)
(* take for granted, for the model checker. subject is what is looked at,  *)
(* a kind and a value: Sha256 computes a digest step by step, a trap goes  *)
(* on edge by edge, and every other subject is an input of a function or a *)
(* state of a device, and stays.                                           *)
(***************************************************************************)
EXTENDS Sha256, Numbers, FunctionProperties

VARIABLE subject

(* The messages: none, the benchmark's, the longest that fits one block    *)
(* with its padding, and one of a full block and three bytes.              *)
Abc       == << 97, 98, 99 >>
OneBlock  == [ k \in 1..55 |-> (5 * (k - 1) + 1) % 256 ]
TwoBlocks == [ k \in 1..67 |-> (7 * (k - 1) + 3) % 256 ]

SomeMessages == { << >>, Abc, OneBlock, TwoBlocks }

(* SHA-256 of the messages, from another implementation, in half words.    *)
Published(m) ==
  CASE m = << >> ->
      << \he3b0, \hc442, \h98fc, \h1c14, \h9afb, \hf4c8, \h996f, \hb924,
         \h27ae, \h41e4, \h649b, \h934c, \ha495, \h991b, \h7852, \hb855 >>
    [] m = Abc ->
      << \hba78, \h16bf, \h8f01, \hcfea, \h4141, \h40de, \h5dae, \h2223,
         \hb003, \h61a3, \h9617, \h7a9c, \hb410, \hff61, \hf200, \h15ad >>
    [] m = OneBlock ->
      << \h8396, \hd53b, \h28ac, \h5cae, \hb478, \h7a01, \h66f0, \h3530,
         \h71f1, \h8f13, \h44ab, \hf59c, \h39f0, \hc4f0, \h7491, \h46dd >>
    [] m = TwoBlocks ->
      << \h06e3, \hcd2e, \hd0fa, \h6071, \hc44d, \hc044, \h441f, \h1d16,
         \he92b, \h7505, \hce10, \h7872, \h30dc, \h895f, \hcc66, \h22b2 >>

(* The text formatted at the end is the SHA-256 of the message.            *)
DigestRight ==
  phase = "done" =>
    \A d \in 0..63 :
      output[d] = hex_digits[1 + ((Published(message)[(d \div 4) + 1] \div 16 ^ (3 - (d % 4))) % 16)]

(* The block the padding should give: the bytes, 80, zeros, and the length *)
(* in bits as the last eight bytes, all in big-endian words.               *)
ExpectedByte(bytes, block_length, total_length, b) ==
  CASE b < block_length -> LengthBits(bytes[b + 1])
    [] b = block_length -> {7}
    [] b > block_length -> { x \in 0..7 : 8 * (63 - b) + x - 3 \in total_length }

Expected(bytes, total_length) ==
  [ k \in 0..15 |->
      UNION { { x + 8 * (3 - b) :
                  x \in ExpectedByte(bytes, Len(bytes), total_length, 4 * k + b) } :
                b \in 0..3 } ]

Some(n) == [ k \in 1..n |-> (37 * k + 200) % 256 ]

Totals == { {}, {0, 1}, {28}, {29}, {31, 29, 0}, {32}, {59} }

(* Padding is right for every block that leaves room for the length,       *)
(* totals whose number of bits takes more than one word included           *)
(* (sha256.c:127-139). Fuller blocks are left out: see the README.         *)
PaddingRight(n) ==
  \A total \in Totals : sha256_pad_le_block(Some(n), total) = Expected(Some(n), total)

-----------------------------------------------------------------------------
Value(s) ==
  LET digits == IF s[1] = Minus THEN Tail(s) ELSE s
      n == FoldLeft(LAMBDA v, c : 10 * v + (c - Zero), 0, digits)
  IN  IF s[1] = Minus THEN -n ELSE n

(* Every int but the smallest is printed as its decimal digits with no     *)
(* leading zero; what is not negative fits the buffer of the handler,      *)
(* eleven characters for ten digits and the zero (main.c:28, 44, 182-211). *)
(* The smallest int, which is its own complement, is left out: see the     *)
(* README. No count of hashes is negative.                                 *)
DecimalRight(n) ==
  LET s == int2string(n)
      digits == IF n < 0 THEN Tail(s) ELSE s
  IN  /\ n # INT_MIN =>
           /\ Value(s) = n
           /\ \A k \in DOMAIN digits : digits[k] \in Zero..(Zero + 9)
           /\ digits[1] = Zero => n = 0
      /\ n >= 0 => Len(s) + 1 <= TopExponent + 2

-----------------------------------------------------------------------------
Is(kind) == subject[1] = kind
It == subject[2]

Look(kind, values) == \E v \in values : subject = << kind, v >>

FunctionsInit ==
  /\ Init
  /\ \/ subject = << "message", message >>
     \/ /\ message = Abc
        /\ \/ Look("length", {0, 1, 3, 4, 31, 32, 51, 52, 54, 55})
           \/ Look("int", Ints) \/ Look("word", SomeWords)
           \/ Look("base", Base) \/ Look("covered", Covered) \/ Look("foreign", Foreign)
           \/ Look("timer", Timers) \/ Look("gpio", Gpios) \/ Look("icerror", Icerrors)
           \/ Look("stack", {Frame, Frame + 5}) \/ Look("trap", Starts)
           \/ Look("tables", {"all"})

Digest == Is("message") /\ Next /\ UNCHANGED subject

Edge ==
  /\ Is("trap")
  /\ \E e \in Edges : subject' = << "trap", AfterEdge(It, e) >>
  /\ UNCHANGED vars

FunctionsSpec == FunctionsInit /\ [][Digest \/ Edge]_<< vars, subject >>

-----------------------------------------------------------------------------
(* What the benchmark computes and prints: the digest of every message,    *)
(* the padding of a block that leaves room for the length, and the decimal *)
(* digits of a count (sha256.c, main.c:28 and 182-211).                    *)
TextRight ==
  /\ DigestRight
  /\ Is("length") => PaddingRight(It)
  /\ Is("int") => DecimalRight(It)

(* Every word of the base set is decoded as what the headers call it: no   *)
(* instruction is taken for another one and no field for another field.    *)
(* What the processor lacks is rejected, except for LWU and the            *)
(* multiplications and divisions (Mistaken), of which nothing is claimed.  *)
InstructionsDecoded ==
  /\ Is("base") => DecodesApart(It)
  /\ Is("covered") => FieldsCover(It)
  /\ Is("foreign") => ForeignRejected(It)

(* The headers of the software and the registers of the core mean the same *)
(* by causes, register addresses, requests and the enable bits, and by the *)
(* test register but for the number that the C form of POTATO_TEST_START   *)
(* writes, of which nothing is claimed.                                    *)
HeadersAgree ==
  /\ Is("tables") => NumbersAgree /\ IrqRecognised
  /\ Is("word") => RequestsApart(It) /\ TestReported(ShiftRight(It, 3))

(* The devices keep what their drivers promise, and the software reaches   *)
(* them where it looks for them.                                           *)
DevicesRight ==
  /\ Is("timer") => TimerFires(It)
  /\ Is("gpio") => PinsApart(It)
  /\ Is("icerror") => ErrorsKept(It)
  /\ Is("tables") => PlatformDecoded /\ AccessesAnswered

(* What software may rely on when it is interrupted: the trap of an        *)
(* invalid instruction masks interrupts and names its cause, and the code  *)
(* around the handler keeps the registers.                                 *)
TrapContext ==
  /\ Is("trap") => TrapsMaskInterrupts(It)
  /\ Is("stack") => HandlerKeepsRegisters(It)

(* The claim of start.S:98-99 and pp_csr_unit.vhd:180 about interrupts,    *)
(* which the core does not keep.                                           *)
RequestsEntered == Is("trap") => RequestEntered(It)

=============================================================================
