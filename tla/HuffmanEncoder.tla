---------------------------- MODULE HuffmanEncoder ----------------------------
(***************************************************************************)
(* HuffmanEncoder, both sides: preprocess_encode, save and encode write an *)
(* array of bins behind c, load and decode read it back from there.        *)
(*                                                                         *)
(* Two things the language leaves open are left open here: the order in    *)
(* which the hash map yields the bins (part of the input) and the order in *)
(* which the arguments of new_node(0, 0, qremove(), qremove()) are taken.  *)
(***************************************************************************)
EXTENDS HuffmanTree

CONSTANT Inputs      \* records: bins, and order, in which the hash map yields them

ASSUME InputAssumption ==
  \A x \in Inputs : /\ x.bins \in Seq(Int) /\ x.bins # <<>>
                    /\ Range(x.order) = Range(x.bins) /\ IsInjective(x.order)

VARIABLES
  pc,       \* what is done next
  input,    \* bins and order
  pool, qq, \* the nodes and the queue
  code,     \* the code of each state
  next,     \* the bin encode writes next,
  w,        \*   and its writer
  hdr,      \* what save has written
  c,        \* the encoder's cursor: bytes behind the start
  tree,     \* the decoder's tree,
  bit,      \*   the bits it has read
  out,      \*   and the bins it has decoded
  dc        \* the decoder's cursor

encVars == <<pool, qq, code, next, w, hdr, c>>
decVars == <<tree, bit, out, dc>>
vars == <<pc, input, encVars, decVars>>

bins         == input.bins
offset       == Min(Range(bins))

\* Mutant: the range is counted without its reserve.
stateNum_Tight == Max(Range(bins)) - offset + 1

stateNum     == Max(Range(bins)) - offset + 2
Frequency(s) == Cardinality({i \in DOMAIN bins : bins[i] = s})
nodeCount    == 2 * Cardinality(DOMAIN code) - 1

-----------------------------------------------------------------------------
(* preprocess_encode, save and encode.                                     *)

\* Room for codes as long as the alphabet, and a word.
Init ==
  /\ input \in Inputs
  /\ pc = "insert"
  /\ pool = <<>> /\ qq = <<>> /\ code = <<>> /\ next = 1 /\ hdr = <<>> /\ c = 0
  /\ \E garbage \in Bit :
       w = Fresh([k \in 1 .. (Len(bins) * Len(input.order) + WordBits + ByteBits) |-> garbage])
  /\ tree = Null /\ bit = 0 /\ out = <<>> /\ dc = 0

InsertState ==
  /\ pc = "insert"
  /\ Len(pool) < Len(input.order)
  /\ LET s == input.order[Len(pool) + 1]
     IN  pool' = Append(pool, Leaf(Frequency(s), s - offset))
  /\ qq' = qinsert(pool', qq, Len(pool'))
  /\ UNCHANGED <<pc, input, code, next, w, hdr, c, decVars>>

\* Mutant: a parent is as frequent as its left child.
Join_NoSum ==
  /\ pc = "insert"
  /\ Len(pool) >= Len(input.order) /\ Len(qq) > 1
  /\ LET first  == qq[1]
         rest   == qremove(pool, qq)
         second == rest[1]
     IN  /\ pool' = Append(pool, [Inner(pool, first, second) EXCEPT !.freq = pool[first].freq])
         /\ qq' = qinsert(pool', qremove(pool, rest), Len(pool'))
  /\ UNCHANGED <<pc, input, code, next, w, hdr, c, decVars>>

\* The two least frequent nodes get a parent.
Join ==
  /\ pc = "insert"
  /\ Len(pool) >= Len(input.order) /\ Len(qq) > 1
  /\ LET first  == qq[1]
         rest   == qremove(pool, qq)
         second == rest[1]
     IN  /\ \/ pool' = Append(pool, Inner(pool, first, second))
            \/ pool' = Append(pool, Inner(pool, second, first))
         /\ qq' = qinsert(pool', qremove(pool, rest), Len(pool'))
  /\ UNCHANGED <<pc, input, code, next, w, hdr, c, decVars>>

BuildCode ==
  /\ pc = "insert"
  /\ Len(pool) >= Len(input.order) /\ Len(qq) = 1
  /\ code' = build_code(pool, qq[1])
  /\ pc' = "save"
  /\ UNCHANGED <<input, pool, qq, next, w, hdr, c, decVars>>

\* Bytes of int, of size_t, and of T, which is int.
SizeInt  == 4
SizeLong == 8
SizeT    == 4

Save ==
  /\ pc = "save"
  /\ hdr' = [offset |-> offset, nodeCount |-> nodeCount, stateNum |-> stateNum \div 2,
             arrays |-> pad_tree(pool, qq[1], nodeCount)]
  /\ c' = c + SizeT + 2 * SizeInt
            + 1 + 2 * nodeCount * Bytes(nodeCount) + nodeCount + nodeCount * SizeT
  /\ pc' = "encode"
  /\ UNCHANGED <<input, pool, qq, code, next, w, decVars>>

EncodeBin ==
  /\ pc = "encode"
  /\ next <= Len(bins)
  /\ w' = WriteCode(w, code[bins[next] - offset])
  /\ next' = next + 1
  /\ UNCHANGED <<pc, input, pool, qq, code, hdr, c, decVars>>

\* outSize goes in front of the bits; postprocess_encode frees the tree.
FinishEncode ==
  /\ pc = "encode"
  /\ next > Len(bins)
  /\ c' = c + SizeLong + w.outSize
  /\ pc' = "load"
  /\ UNCHANGED <<input, pool, qq, code, w, next, hdr, decVars>>

-----------------------------------------------------------------------------
(* load and decode.                                                        *)

\* Mutant: the widest form is read as the middle one.
EncodeStartIndex_Short(n) ==
  IF n <= 2^ByteBits THEN 1 + 3 * n + n * SizeT ELSE 1 + 2 * n * 2 + n + n * SizeT

\* The bytes of the tree, as load computes them.
EncodeStartIndex(n) ==
  IF n <= 2^ByteBits THEN 1 + 3 * n + n * SizeT
  ELSE IF n <= 2^(2 * ByteBits) THEN 1 + 2 * n * 2 + n + n * SizeT
  ELSE 1 + 2 * n * 4 + n + n * SizeT

Load ==
  /\ pc = "load"
  /\ tree' = unpad_tree(hdr.arrays)
  /\ dc' = dc + SizeT + 2 * SizeInt + EncodeStartIndex(hdr.nodeCount)
  /\ pc' = "decode"
  /\ UNCHANGED <<input, encVars, bit, out>>

\* One bin: bits lead down from the root to a leaf; a tree of one leaf takes none.
DecodeBin ==
  LET node[k \in bit .. Len(w.bytes)] ==
        IF k = bit THEN tree
        ELSE IF node[k - 1].t = 1 THEN node[k - 1]
        ELSE IF w.bytes[k] = 0 THEN node[k - 1].left ELSE node[k - 1].right
      end == CHOOSE k \in bit .. Len(w.bytes) :
               node[k].t = 1 /\ \A j \in bit .. k - 1 : node[j].t = 0
  IN  /\ pc = "decode"
      /\ Len(out) < Len(bins)
      /\ out' = Append(out, node[end].c + hdr.offset)
      /\ bit' = end
      /\ UNCHANGED <<pc, input, encVars, tree, dc>>

FinishDecode ==
  /\ pc = "decode"
  /\ Len(out) = Len(bins)
  /\ dc' = dc + SizeLong + IF tree.t = 1 THEN 0 ELSE w.outSize
  /\ pc' = "done"
  /\ UNCHANGED <<input, encVars, tree, bit, out>>

Done == pc = "done" /\ UNCHANGED vars

Next ==
  \/ InsertState \/ Join \/ BuildCode \/ Save \/ EncodeBin \/ FinishEncode
  \/ Load \/ DecodeBin \/ FinishDecode \/ Done

Spec == Init /\ [][Next]_vars

-----------------------------------------------------------------------------
(* Properties.                                                             *)

\* The nodes stay in the two pools, whose sizes are guesses from the range of the
\* bins (the decoder's from a halved and doubled one), and every code in a word.
TypeOK ==
  /\ Len(pool) <= 4 * stateNum
  /\ pc \in {"decode", "done"} => hdr.nodeCount <= 4 * 2 * hdr.stateNum
  /\ Range(qq) \subseteq DOMAIN pool /\ IsInjective(qq)
  /\ \A s \in DOMAIN code : code[s] \in Seq(Bit) /\ Len(code[s]) <= WordBits
  /\ next \in 1 .. Len(bins) + 1

\* build_code's table is as short as any: no lengths that a prefix-free code can
\* have (Kraft's inequality) give fewer bits.
Optimal ==
  LET states == DOMAIN code
      K      == Cardinality(states) - 1
      size(lengths) == FoldFunctionOnSet(LAMBDA x, y : x + y, 0,
                         [s \in states |-> Frequency(s + offset) * lengths[s]], states)
      kraft(lengths) == FoldFunctionOnSet(LAMBDA x, y : x + y, 0,
                         [s \in states |-> 2^(K - lengths[s])], states) <= 2^K
  IN  (pc = "save" /\ K < 5) =>
        \A lengths \in [states -> 0 .. K] :
          kraft(lengths) => size([s \in states |-> Len(code[s])]) <= size(lengths)

\* Decoding gives the bins back: the tree survives its way through arrays of the
\* smallest width, and no code is taken for another.
RoundTrip == pc = "done" => out = bins

\* What comes next in the stream is found: the decoder's cursor ends where the
\* encoder's does, and the bits it has read lie in the bytes it skips.
Aligned ==
  pc = "done" => /\ dc = c
                 /\ bit <= w.outSize * ByteBits /\ w.outSize * ByteBits < bit + ByteBits
=============================================================================
