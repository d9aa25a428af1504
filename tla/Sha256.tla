------------------------------- MODULE Sha256 -------------------------------
(***************************************************************************)
(* The SHA-256 of the benchmark, sha256.c, with a caller that hashes whole *)
(* messages: reset, hash every block, the last one padded by               *)
(* sha256_pad_le_block, then read and format the hash. A step of Next is   *)
(* one call, or one round of sha256_hash_block.                            *)
(***************************************************************************)
EXTENDS Words, Sequences, SequencesExt

CONSTANT Messages   \* byte sequences the caller hashes

ASSUME MessagesAssumption == \A m \in Messages : m \in Seq(0..255)

VARIABLES
  phase,          \* the call made next
  message,        \* what the caller hashes
  position,       \* how many of its bytes have been hashed
  block,          \* uint32_t block[16]
  intermediate,   \* ctx->intermediate
  temp, W,        \* sha256_hash_block's arrays
  i,              \* and its loop counter
  hash, output    \* of sha256_get_hash and sha256_format_hash

vars == << phase, message, position, block, intermediate, temp, W, i, hash, output >>

initial == <<
  Word(\h6a09, \he667), Word(\hbb67, \hae85), Word(\h3c6e, \hf372), Word(\ha54f, \hf53a),
  Word(\h510e, \h527f), Word(\h9b05, \h688c), Word(\h1f83, \hd9ab), Word(\h5be0, \hcd19) >>

constants == <<
  Word(\h428a, \h2f98), Word(\h7137, \h4491), Word(\hb5c0, \hfbcf), Word(\he9b5, \hdba5),
  Word(\h3956, \hc25b), Word(\h59f1, \h11f1), Word(\h923f, \h82a4), Word(\hab1c, \h5ed5),
  Word(\hd807, \haa98), Word(\h1283, \h5b01), Word(\h2431, \h85be), Word(\h550c, \h7dc3),
  Word(\h72be, \h5d74), Word(\h80de, \hb1fe), Word(\h9bdc, \h06a7), Word(\hc19b, \hf174),
  Word(\he49b, \h69c1), Word(\hefbe, \h4786), Word(\h0fc1, \h9dc6), Word(\h240c, \ha1cc),
  Word(\h2de9, \h2c6f), Word(\h4a74, \h84aa), Word(\h5cb0, \ha9dc), Word(\h76f9, \h88da),
  Word(\h983e, \h5152), Word(\ha831, \hc66d), Word(\hb003, \h27c8), Word(\hbf59, \h7fc7),
  Word(\hc6e0, \h0bf3), Word(\hd5a7, \h9147), Word(\h06ca, \h6351), Word(\h1429, \h2967),
  Word(\h27b7, \h0a85), Word(\h2e1b, \h2138), Word(\h4d2c, \h6dfc), Word(\h5338, \h0d13),
  Word(\h650a, \h7354), Word(\h766a, \h0abb), Word(\h81c2, \hc92e), Word(\h9272, \h2c85),
  Word(\ha2bf, \he8a1), Word(\ha81a, \h664b), Word(\hc24b, \h8b70), Word(\hc76c, \h51a3),
  Word(\hd192, \he819), Word(\hd699, \h0624), Word(\hf40e, \h3585), Word(\h106a, \ha070),
  Word(\h19a4, \hc116), Word(\h1e37, \h6c08), Word(\h2748, \h774c), Word(\h34b0, \hbcb5),
  Word(\h391c, \h0cb3), Word(\h4ed8, \haa4a), Word(\h5b9c, \hca4f), Word(\h682e, \h6ff3),
  Word(\h748f, \h82ee), Word(\h78a5, \h636f), Word(\h84c8, \h7814), Word(\h8cc7, \h0208),
  Word(\h90be, \hfffa), Word(\ha450, \h6ceb), Word(\hbef9, \ha3f7), Word(\hc671, \h78f2) >>

rotate_right(x, n) == ShiftRight(x, n) \cup ShiftLeft(x, 32 - n)

Ch(x, y, z) == Xor(x \cap y, Not(x) \cap z)

Maj(x, y, z) == Xor(Xor(x \cap y, x \cap z), y \cap z)

s0(x) == Xor(Xor(rotate_right(x, 2), rotate_right(x, 13)), rotate_right(x, 22))

s1(x) == Xor(Xor(rotate_right(x, 6), rotate_right(x, 11)), rotate_right(x, 25))

o0(x) == Xor(Xor(rotate_right(x, 7), rotate_right(x, 18)), ShiftRight(x, 3))

o1(x) == Xor(Xor(rotate_right(x, 17), rotate_right(x, 19)), ShiftRight(x, 10))

\* w is W[0..k-1], a sequence: W[k - n] of the code is w[k - n + 1].
schedule(input, w, k) ==
  IF k < 16 THEN input
  ELSE ((o1(w[k - 1]) ++ w[k - 6]) ++ o0(w[k - 14])) ++ w[k - 15]

compress(t, w, k) ==
  LET t1 == (((t[8] ++ s1(t[5])) ++ Ch(t[5], t[6], t[7])) ++ k) ++ w
      t2 == s0(t[1]) ++ Maj(t[1], t[2], t[3])
  IN  << t1 ++ t2, t[1], t[2], t[3], t[4] ++ t1, t[5], t[6], t[7] >>

-----------------------------------------------------------------------------
(* Memory is little-endian: byte b of a word is its bits 8b .. 8b + 7.     *)
WordAt(bytes, k) ==
  { b \in Bits : (bytes[4 * k + (b \div 8) + 1] \div 2 ^ (b % 8)) % 2 = 1 }

(* Mutant: the bytes keep their order.                                     *)
htobe32Same(n) == n

htobe32(n) ==
  ShiftLeft(n, 24) \cup (ShiftLeft(n, 8) \cap (16..23))
    \cup (ShiftRight(n, 8) \cap (8..15)) \cup ShiftRight(n, 24)

\* bytes are the block_length bytes the caller has put at the start of the
\* block; total_length is the set of the bits of a uint64_t.
sha256_pad_le_block(bytes, total_length) ==
  LET block_length == Len(bytes)
      padded == bytes \o << 128 >> \o [ b \in 1..(63 - block_length) |-> 0 ]
      bits   == { b + 3 : b \in total_length } \cap (0..63)   \* total_length * 8
      words  == [ k \in 0..15 |->
                    CASE k = 14 -> { b - 32 : b \in bits \cap (32..63) }
                      [] k = 15 -> bits \cap Bits
                      [] OTHER  -> WordAt(padded, k) ]
  IN  [ k \in 0..15 |-> IF k < 14 THEN htobe32(words[k]) ELSE words[k] ]

sha256_get_hash(context) ==
  [ b \in 0..31 |->
      ShiftRight(context[(b \div 4) + 1], 8 * (3 - (b % 4))) \cap (0..7) ]

hex_digits == << "0", "1", "2", "3", "4", "5", "6", "7",
                 "8", "9", "a", "b", "c", "d", "e", "f" >>

sha256_format_hash(bytes) ==
  [ d \in 0..63 |->
      LET h == bytes[d \div 2]
      IN  hex_digits[1 + (IF d % 2 = 0 THEN Field(h, 7, 4) ELSE Field(h, 3, 0))] ]

-----------------------------------------------------------------------------
Zeros == [ k \in 1..8 |-> {} ]

Init ==
  /\ message \in Messages
  /\ phase = "reset" /\ position = 0 /\ i = 0
  /\ block = [ k \in 0..15 |-> {} ]
  /\ intermediate = Zeros /\ temp = Zeros /\ W = << >>
  /\ hash = << >> /\ output = << >>

sha256_reset ==
  /\ phase = "reset" /\ phase' = "block"
  /\ intermediate' = initial
  /\ UNCHANGED << message, position, block, temp, W, i, hash, output >>

Rest == SubSeq(message, position + 1, Len(message))

(* A block full of message bytes goes to sha256_hash_block as big-endian   *)
(* words; the caller converts it, no code in the repository does.          *)
FullBlock ==
  /\ phase = "block" /\ Len(Rest) >= 64
  /\ block' = [ k \in 0..15 |-> htobe32(WordAt(Rest, k)) ]
  /\ position' = position + 64
  /\ phase' = "hash"
  /\ UNCHANGED << message, intermediate, temp, W, i, hash, output >>

LengthBits(n) == { b \in 0..30 : (n \div 2 ^ b) % 2 = 1 }

LastBlock ==
  /\ phase = "block" /\ Len(Rest) < 64
  /\ block' = sha256_pad_le_block(Rest, LengthBits(Len(message)))
  /\ position' = Len(message) + 1   \* the padding is in
  /\ phase' = "hash"
  /\ UNCHANGED << message, intermediate, temp, W, i, hash, output >>

BeginHashBlock ==
  /\ phase = "hash" /\ phase' = "round"
  /\ temp' = intermediate /\ W' = << >> /\ i' = 0
  /\ UNCHANGED << message, position, block, intermediate, hash, output >>

Round ==
  /\ phase = "round" /\ i < 64
  /\ LET v == IF i < 16 THEN block[i] ELSE {}
         w == schedule(v, W, i)
     IN  /\ W' = Append(W, w)
         /\ temp' = compress(temp, w, constants[i + 1])
  /\ i' = i + 1
  /\ UNCHANGED << phase, message, position, block, intermediate, hash, output >>

(* Mutant: the result of the rounds replaces the intermediate hash.        *)
EndHashBlockAlone ==
  /\ phase = "round" /\ i = 64
  /\ intermediate' = temp
  /\ phase' = IF position > Len(message) THEN "get" ELSE "block"
  /\ UNCHANGED << message, position, block, temp, W, i, hash, output >>

EndHashBlock ==
  /\ phase = "round" /\ i = 64
  /\ intermediate' = [ k \in 1..8 |-> intermediate[k] ++ temp[k] ]
  /\ phase' = IF position > Len(message) THEN "get" ELSE "block"
  /\ UNCHANGED << message, position, block, temp, W, i, hash, output >>

GetHash ==
  /\ phase = "get" /\ phase' = "format"
  /\ hash' = sha256_get_hash(intermediate)
  /\ UNCHANGED << message, position, block, intermediate, temp, W, i, output >>

FormatHash ==
  /\ phase = "format" /\ phase' = "done"
  /\ output' = sha256_format_hash(hash)
  /\ UNCHANGED << message, position, block, intermediate, temp, W, i, hash >>

Next ==
  \/ sha256_reset \/ FullBlock \/ LastBlock \/ BeginHashBlock \/ Round
  \/ EndHashBlock \/ GetHash \/ FormatHash

Spec == Init /\ [][Next]_vars

=============================================================================
