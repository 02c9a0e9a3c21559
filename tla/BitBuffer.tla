------------------------------- MODULE BitBuffer -------------------------------
(***************************************************************************)
(* How HuffmanEncoder::encode appends one code to the output: words of 64  *)
(* bits stored over the end of the buffer, the first of their bits ORed    *)
(* into the last byte.  The buffer and the codes are sequences of bits; the*)
(* sizes of a byte and of a word are parameters, 8 and 8 in the code.      *)
(*                                                                         *)
(* The writer is a record: the buffer, the byte written to next, the bits  *)
(* that byte lacks (0: none of its bits is used) and the bytes used.  A    *)
(* code longer than a word would need more than 44 * 10^12 bins (Fibonacci *)
(* numbers as frequencies), so the branches for it are left out.           *)
(***************************************************************************)
EXTENDS Integers, Sequences

CONSTANTS ByteBits, WordBytes

ASSUME BitAssumption == ByteBits \in Nat \ {0} /\ WordBytes \in Nat \ {0}

Bit      == {0, 1}
WordBits == WordBytes * ByteBits

\* code[0]: the code in the highest bits of the word.
Word(code) == [k \in 1 .. WordBits |-> IF k <= Len(code) THEN code[k] ELSE 0]

ShiftLeft(word, n) == [k \in 1 .. WordBits |-> IF k + n <= WordBits THEN word[k + n] ELSE 0]

int64ToBytes_bigEndian(bytes, p, word) ==
  [k \in DOMAIN bytes |->
     LET j == k - p * ByteBits IN IF j \in 1 .. WordBits THEN word[j] ELSE bytes[k]]

\* *p | word >> (64 - lackBits)
OrTail(bytes, p, lackBits, word) ==
  [k \in DOMAIN bytes |->
     LET j == k - ((p + 1) * ByteBits - lackBits)
     IN  IF j \in 1 .. lackBits /\ word[j] = 1 THEN 1 ELSE bytes[k]]

\* Mutant: a full byte is taken for an empty one.
LackBits_Full(n) == ByteBits - (n % ByteBits)

LackBits(n) == IF n % ByteBits = 0 THEN 0 ELSE ByteBits - (n % ByteBits)
ByteSize(n) == IF n % ByteBits = 0 THEN n \div ByteBits ELSE n \div ByteBits + 1

Fresh(bytes) == [bytes |-> bytes, p |-> 0, lackBits |-> 0, outSize |-> 0]

\* No byte is begun: the word goes to a byte of its own.
Append0(w, code) ==
  [bytes    |-> int64ToBytes_bigEndian(w.bytes, w.p, Word(code)),
   p        |-> w.p + Len(code) \div ByteBits,
   lackBits |-> LackBits(Len(code)),
   outSize  |-> w.outSize + ByteSize(Len(code))]

\* Mutant: the rest of the code is not shifted.
Spill_Unshifted(w, code) ==
  LET filled == OrTail(w.bytes, w.p, w.lackBits, Word(code))
      rest   == Len(code) - w.lackBits
  IN  [bytes    |-> int64ToBytes_bigEndian(filled, w.p + 1, Word(code)),
       p        |-> w.p + 1 + rest \div ByteBits,
       lackBits |-> LackBits(rest),
       outSize  |-> w.outSize + ByteSize(rest)]

\* The code fills the begun byte and goes on in the next ones.
Spill(w, code) ==
  LET filled == OrTail(w.bytes, w.p, w.lackBits, Word(code))
      rest   == Len(code) - w.lackBits
  IN  [bytes    |-> int64ToBytes_bigEndian(filled, w.p + 1, ShiftLeft(Word(code), w.lackBits)),
       p        |-> w.p + 1 + rest \div ByteBits,
       lackBits |-> LackBits(rest),
       outSize  |-> w.outSize + ByteSize(rest)]

\* Mutant: the byte is not left when it is full.
Fit_Stays(w, code) ==
  [bytes    |-> OrTail(w.bytes, w.p, w.lackBits, Word(code)),
   p        |-> w.p,
   lackBits |-> w.lackBits - Len(code),
   outSize  |-> w.outSize]

\* The begun byte takes the whole code.
Fit(w, code) ==
  [bytes    |-> OrTail(w.bytes, w.p, w.lackBits, Word(code)),
   p        |-> IF w.lackBits = Len(code) THEN w.p + 1 ELSE w.p,
   lackBits |-> w.lackBits - Len(code),
   outSize  |-> w.outSize]

WriteCode(w, code) ==
  IF w.lackBits = 0 THEN Append0(w, code)
  ELSE IF w.lackBits < Len(code) THEN Spill(w, code) ELSE Fit(w, code)

\* The writer holds exactly the given bits: they are in the buffer, and the size
\* is that of the bytes they touch.
Holds(w, bits) ==
  /\ \A k \in 1 .. Len(bits) : w.bytes[k] = bits[k]
  /\ w.outSize = ByteSize(Len(bits))
=============================================================================
