------------------------------ MODULE HuffmanTree ------------------------------
(***************************************************************************)
(* The tree of HuffmanEncoder: its nodes in a pool, the priority queue that*)
(* joins them, the codes read off it, and its form in the stream.          *)
(*                                                                         *)
(* A node is a record; nodes are named by their place in the pool, counted *)
(* from 1, and 0 is the null pointer.  The queue is the heap qq[1 .. qend) *)
(* of names.                                                               *)
(***************************************************************************)
EXTENDS BitBuffer, SequencesExt, FiniteSets

Leaf(freq, c) == [freq |-> freq, t |-> 1, c |-> c, left |-> 0, right |-> 0]
Inner(pool, a, b) ==
  [freq |-> pool[a].freq + pool[b].freq, t |-> 0, c |-> 0, left |-> a, right |-> b]

-----------------------------------------------------------------------------
\* Mutant: the hole moves up by one place only.
qinsert_Once(pool, qq, n) ==
  LET i == Len(qq) + 1
      j == i \div 2
  IN  IF j = 0 \/ pool[qq[Max({j, 1})]].freq <= pool[n].freq THEN Append(qq, n)
      ELSE [Append(qq, qq[j]) EXCEPT ![j] = n]

\* A hole at the end moves up past the nodes that are more frequent than n.
qinsert(pool, qq, n) ==
  LET up[i \in 1 .. Len(qq) + 1] ==
        IF i = 1 \/ pool[qq[Max({i \div 2, 1})]].freq <= pool[n].freq
        THEN [Append(qq, n) EXCEPT ![i] = n]
        ELSE [up[i \div 2] EXCEPT ![i] = qq[i \div 2]]
  IN  up[Len(qq) + 1]

\* The queue without its first node: the last one takes its place and moves down
\* past less frequent ones.
qremove(pool, qq) ==
  LET q        == [Front(qq) EXCEPT ![1] = Last(qq)]
      freq(i)  == pool[q[i]].freq
      lower(i) == IF 2 * i + 1 <= Len(q) /\ freq(2 * i + 1) < freq(2 * i) THEN 2 * i + 1 ELSE 2 * i
      down[i \in 1 .. Len(q)] ==
        IF 2 * i > Len(q) \/ freq(1) <= freq(lower(i))
        THEN [q EXCEPT ![i] = q[1]]
        ELSE [down[lower(i)] EXCEPT ![i] = q[lower(i)]]
  IN  IF Len(qq) = 1 THEN <<>> ELSE down[1]

-----------------------------------------------------------------------------
\* build_code: the path from the root to every leaf, 0 to the left.
build_code(pool, root) ==
  LET parent(n) == CHOOSE m \in DOMAIN pool : n \in {pool[m].left, pool[m].right}
      path[n \in DOMAIN pool] ==
        IF n = root THEN <<>>
        ELSE Append(path[parent(n)], IF pool[parent(n)].left = n THEN 0 ELSE 1)
      leaf(c)   == CHOOSE n \in DOMAIN pool : pool[n].t = 1 /\ pool[n].c = c
  IN  [c \in {pool[n].c : n \in {m \in DOMAIN pool : pool[m].t = 1}} |-> path[leaf(c)]]

-----------------------------------------------------------------------------
(* The tree in the stream, as four arrays counted from 0 in preorder.      *)

\* Mutant: the narrow form is kept for a node too many.
Bytes_Late(nodeCount) ==
  IF nodeCount <= 2^ByteBits + 1 THEN 1 ELSE IF nodeCount <= 2^(2 * ByteBits) THEN 2 ELSE 4

\* The bytes of T1, unsigned char, short or int.
Bytes(nodeCount) ==
  IF nodeCount <= 2^ByteBits THEN 1 ELSE IF nodeCount <= 2^(2 * ByteBits) THEN 2 ELSE 4

pad_tree(pool, root, nodeCount) ==
  LET preorder[n \in DOMAIN pool] ==
        IF pool[n].t = 1 THEN <<n>>
        ELSE <<n>> \o preorder[pool[n].left] \o preorder[pool[n].right]
      order    == preorder[root]
      index(n) == IF n = 0 THEN 0
                  ELSE ((CHOOSE k \in DOMAIN order : order[k] = n) - 1) % 2^(ByteBits * Bytes(nodeCount))
      array(f(_)) == [i \in 0 .. nodeCount - 1 |-> f(pool[order[i + 1]])]
  IN  [L |-> array(LAMBDA n : index(n.left)), R |-> array(LAMBDA n : index(n.right)),
       C |-> array(LAMBDA n : n.c),           t |-> array(LAMBDA n : n.t)]

\* A null child stands for a leaf of no symbol: decode never gets to one.
Null == [t |-> 1, c |-> -1]

\* The tree that unpad_tree builds below node 0.
unpad_tree(a) ==
  LET sub[i \in DOMAIN a.t] ==
        IF a.t[i] = 1 THEN [t |-> 1, c |-> a.C[i]]
        ELSE [t |-> 0, left  |-> IF a.L[i] = 0 THEN Null ELSE sub[a.L[i]],
                       right |-> IF a.R[i] = 0 THEN Null ELSE sub[a.R[i]]]
  IN  sub[0]
=============================================================================
