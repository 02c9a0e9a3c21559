------------------------------- MODULE BitWriter -------------------------------
(***************************************************************************)
(* The loop of HuffmanEncoder::encode for any code table: one action is one*)
(* bin.  written is the concatenation of the codes so far, a history.      *)
(***************************************************************************)
EXTENDS BitBuffer

CONSTANTS Codes,      \* the codes of the table
          Capacity    \* bytes of the buffer behind the size

ASSUME WriterAssumption ==
  /\ Codes \subseteq Seq(Bit) /\ \A code \in Codes : Len(code) <= WordBits
  /\ Capacity \in Nat

VARIABLES w, written

vars == <<w, written>>

\* The buffer is not initialised: any bit, the same everywhere.
Init ==
  /\ \E garbage \in Bit : w = Fresh([k \in 1 .. Capacity * ByteBits |-> garbage])
  /\ written = <<>>

\* The callers give a buffer with room for the whole output and a word.
EncodeBin ==
  \E code \in Codes :
    /\ Len(written) + Len(code) + WordBits + ByteBits <= Capacity * ByteBits
    /\ w' = WriteCode(w, code)
    /\ written' = written \o code

Next == EncodeBin

Spec == Init /\ [][Next]_vars

\* The buffer of the writer keeps its size, and its cursors stay in it.
TypeOK ==
  /\ w.bytes \in [1 .. Capacity * ByteBits -> Bit]
  /\ w.p \in Nat /\ w.lackBits \in 0 .. ByteBits - 1 /\ w.outSize \in Nat
  /\ written \in Seq(Bit)

\* Whatever was in the buffer and wherever in a byte a code begins and ends, the
\* output is the concatenation of the codes, and outSize, which decode skips by,
\* counts its bytes.
Written == Holds(w, written)

\* Where the cursor stands: the byte that the next bit belongs to, with zeros in
\* the rest of it, which the next code is ORed into.
CursorInv ==
  /\ w.p * ByteBits = Len(written) + w.lackBits - (IF w.lackBits = 0 THEN 0 ELSE ByteBits)
  /\ w.outSize = w.p + IF w.lackBits = 0 THEN 0 ELSE 1
  /\ Len(written) + w.lackBits <= Capacity * ByteBits
  /\ \A k \in 1 .. w.lackBits : w.bytes[Len(written) + k] = 0
=============================================================================
