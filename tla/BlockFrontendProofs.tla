-------------------------- MODULE BlockFrontendProofs --------------------------
(***************************************************************************)
(* SZGeneralFrontend codes every element of the array once, predicts it    *)
(* from its neighbours and from nothing that is not coded, and decodes     *)
(* every block with the predictor and the coefficients it was coded with,  *)
(* for every shape of 1 to 4 dimensions, every block size and set of       *)
(* predictors.  The last holds where no predictor refuses a block it is    *)
(* picked for, the second where none has more layers than a block has      *)
(* elements across.                                                        *)
(*                                                                         *)
(* compress and decompress take one walk over blocks and elements, and     *)
(* never look at one another: the walk is a function of the configuration, *)
(* and a number of steps says where either of them is.  The invariant of   *)
(* the first half has four parts:                                          *)
(*   Typed       the types, and the stream holds the encoder's lists;      *)
(*   Walked      the encoder is EncSteps along the walk, and every step    *)
(*               behind it has left its block in used and selection, its   *)
(*               element in log;                                           *)
(*   AllChained  the list of a regression predictor holds the blocks coded *)
(*               with it in order, each as a difference to the one before; *)
(*   Replayed    the decoder is DecSteps along the walk, not further than  *)
(*               the encoder; what it has decoded is a beginning of what   *)
(*               was coded; its cursors stand behind the entries of the    *)
(*               blocks decoded, its coefficients are those of the last.   *)
(* The first three hold whichever predictors refuse, the last one where    *)
(* none does.                                                              *)
(*                                                                         *)
(* In the second half a point has its indices; its offset (Place) is the   *)
(* sum of what they add along the directions (Along), and the indices are  *)
(* the digits of the offset (DigitsAre, PlaceOnto).  A point is in one     *)
(* block at one place (CutPoint, JoinPoint).  An iterator that is Aligned  *)
(* has the offset of its indices, operator++ keeps it so and goes to the   *)
(* next indices in the order Before (IncrementAligned), and it compares    *)
(* equal to the end when its indices have left the range and never earlier *)
(* (BlockEnds, ElementEnds).                                               *)
(*                                                                         *)
(* Its invariant is Placed: both iterators of compress are aligned, and    *)
(* what is in the log are the points of the blocks before block and, in    *)
(* it, those at places before elem.  So all are coded at the end; the next *)
(* element is not coded yet; and what is a layer or two before it along    *)
(* each direction is in a block that comes before, or at a place before in *)
(* the same block (BackCoded).                                             *)
(***************************************************************************)
EXTENDS BlockFrontend, NumberLemmas, FiniteSetTheorems

-----------------------------------------------------------------------------
(* The walk over blocks and elements, which both sides take.               *)

\* A step of it: into a block, to the next element, or on to the next block.
WalkOn(c, w) ==
  IF ~w.inside
  THEN [w EXCEPT !.inside = TRUE, !.elem = Begin(ElementRange(c, w.block)),
                 !.started = w.started + 1]
  ELSE IF AtEnd(ElementRange(c, w.block), w.elem)
  THEN [w EXCEPT !.inside = FALSE, !.block = Increment(BlockRange(c), w.block)]
  ELSE [w EXCEPT !.elem = Increment(ElementRange(c, w.block), w.elem), !.coded = w.coded + 1]

\* Before the first block.
Outset(c) ==
  [inside |-> FALSE, block |-> Begin(BlockRange(c)), elem |-> Begin(BlockRange(c)),
   started |-> 0, coded |-> 0]

\* Where it is after m steps: how many blocks it has started, how many elements coded.
Walk(c) == LET walk[m \in Nat] == IF m = 0 THEN Outset(c) ELSE WalkOn(c, walk[m - 1]) IN walk

\* Walk is what its recursive definition says.
LEMMA WalkIs ==
  ASSUME NEW c
  PROVE  /\ Walk(c)[0] = Outset(c)
         /\ \A m \in Nat : Walk(c)[m + 1] = WalkOn(c, Walk(c)[m])
<1> DEFINE Step(w) == WalkOn(c, w)
           first == Outset(c)
<1> SUFFICES /\ Walk(c)[0] = first
             /\ \A k \in Nat : Walk(c)[k + 1] = Step(Walk(c)[k])
  OBVIOUS
<1> DEFINE Solves(f) == f = [k \in Nat |-> IF k = 0 THEN first ELSE Step(f[k - 1])]
<1>1. Walk(c) = CHOOSE f : Solves(f)
  BY Zenon DEF Walk
<1> HIDE DEF Step, first
<1> DEFINE Good(f, n) == f = [k \in 0 .. n |-> IF k = 0 THEN first ELSE Step(f[k - 1])]
           T == {n \in Nat : ~\E f : Good(f, n)}
<1>2. T = {}
  <2>1. SUFFICES ASSUME T # {} PROVE FALSE
    OBVIOUS
  <2>2. PICK n \in T : \A y \in T : n <= y
    BY <2>1, Least
  <2>3. n \in Nat /\ ~\E f : Good(f, n)
    BY <2>2
  <2>4. n # 0
    <3>1. Good([k \in 0 .. 0 |-> first], 0)
      OBVIOUS
    <3> QED
      BY <2>3, <3>1
  <2>5. n - 1 \in Nat /\ ~(n <= n - 1)
    BY <2>3, <2>4
  <2>6. PICK f : Good(f, n - 1)
    BY <2>2, <2>5
  <2> DEFINE g == [k \in 0 .. n |-> IF k = n THEN Step(f[n - 1]) ELSE f[k]]
  <2>7. ASSUME NEW k \in 0 .. n
        PROVE  g[k] = IF k = 0 THEN first ELSE Step(g[k - 1])
    <3>1. k # 0 => k - 1 \in 0 .. n /\ k - 1 # n
      BY <2>3
    <3>2. k # 0 => g[k - 1] = f[k - 1]
      BY <3>1
    <3>3. k # n => k \in 0 .. n - 1
      BY <2>3
    <3>4. k # n => g[k] = f[k] /\ f[k] = IF k = 0 THEN first ELSE Step(f[k - 1])
      BY <2>6, <3>3
    <3>5. k = n => g[k] = Step(f[n - 1]) /\ k # 0
      BY <2>4
    <3> QED
      BY <3>2, <3>4, <3>5
  <2>8. Good(g, n)
    BY <2>7
  <2> QED
    BY <2>3, <2>8
<1> DEFINE sol == [n \in Nat |-> CHOOSE f : Good(f, n)]
<1>3. ASSUME NEW n \in Nat PROVE Good(sol[n], n)
  <2>1. \E f : Good(f, n)
    BY <1>2
  <2>2. Good(CHOOSE f : Good(f, n), n)
    BY <2>1, Zenon
  <2>3. sol[n] = CHOOSE f : Good(f, n)
    BY Zenon
  <2> QED
    BY <2>2, <2>3, Zenon
<1> HIDE DEF sol
\* Two of them agree as far as both go.
<1>4. ASSUME NEW n \in Nat, NEW m \in Nat, m <= n
      PROVE  sol[n][m] = sol[m][m]
  <2> PICK p : p = sol[n]
    OBVIOUS
  <2> PICK q : q = sol[m]
    OBVIOUS
  <2>1. /\ \A i \in 0 .. n : p[i] = IF i = 0 THEN first ELSE Step(p[i - 1])
        /\ \A i \in 0 .. m : q[i] = IF i = 0 THEN first ELSE Step(q[i - 1])
    BY <1>3
  <2> DEFINE U == {i \in 0 .. m : p[i] # q[i]}
  <2>2. SUFFICES ASSUME U # {} PROVE FALSE
    <3>1. m \in 0 .. m
      OBVIOUS
    <3> QED
      BY <2>2, <3>1
  <2>3. U \subseteq Nat
    OBVIOUS
  <2>4. PICK i \in U : \A j \in U : i <= j
    BY <2>2, <2>3, Least
  <2>5. i \in 0 .. m /\ i \in 0 .. n /\ p[i] # q[i]
    BY <1>4, <2>4
  <2>6. i # 0
    BY <2>1, <2>5
  <2>7. i - 1 \in 0 .. m /\ ~(i <= i - 1)
    BY <2>5, <2>6
  <2>8. p[i - 1] = q[i - 1]
    BY <2>4, <2>7
  <2> QED
    BY <2>1, <2>5, <2>6, <2>8
<1> DEFINE h == [n \in Nat |-> sol[n][n]]
<1>5. ASSUME NEW n \in Nat
      PROVE  h[n] = IF n = 0 THEN first ELSE Step(h[n - 1])
  <2>1. h[n] = IF n = 0 THEN first ELSE Step(sol[n][n - 1])
    <3> PICK p : p = sol[n]
      OBVIOUS
    <3>1. Good(p, n)
      BY <1>3, Zenon
    <3>2. n \in 0 .. n
      OBVIOUS
    <3>3. h[n] = p[n]
      OBVIOUS
    <3> QED
      BY <3>1, <3>2, <3>3
  <2>2. CASE n = 0
    BY <2>1, <2>2
  <2>3. CASE n # 0
    <3>1. n - 1 \in Nat /\ n - 1 <= n
      BY <2>3
    <3>2. sol[n][n - 1] = sol[n - 1][n - 1]
      BY <1>4, <3>1
    <3> QED
      BY <2>1, <2>3, <3>1, <3>2
  <2> QED
    BY <2>2, <2>3
<1>6. Solves(h)
  BY <1>5
<1> HIDE DEF h
<1>7. Solves(CHOOSE f : Solves(f))
  BY <1>6, Zenon
<1>8. Walk(c) = [k \in Nat |-> IF k = 0 THEN first ELSE Step(Walk(c)[k - 1])]
  BY <1>1, <1>7
<1>9. \A k \in Nat : Walk(c)[k] = IF k = 0 THEN first ELSE Step(Walk(c)[k - 1])
  BY <1>8
<1>10. \A k \in Nat : k + 1 \in Nat /\ k + 1 # 0 /\ (k + 1) - 1 = k
  OBVIOUS
<1> QED
  BY <1>9, <1>10

-----------------------------------------------------------------------------
(* Configurations.                                                         *)

\* There is a method.
LEMMA ConfigIs ==
  ASSUME NEW c \in Configs
  PROVE  /\ Len(c.dims) \in 1 .. 4
         /\ \A d \in Dims(c) : c.dims[d] \in Nat \ {0}
         /\ c.block_size \in Nat \ {0}
         /\ Len(c.methods) \in Nat \ {0}
<1>1. PICK enabled \in SUBSET (1 .. 4) :
        /\ enabled # {}
        /\ \E S : c.methods \in [1 .. Cardinality(enabled) -> S]
  <2>1. PICK enabled \in SUBSET (1 .. 4) :
          /\ enabled # {}
          /\ c.methods = [k \in 1 .. Cardinality(enabled) |->
                            Methods[CHOOSE i \in enabled :
                                      Cardinality({j \in enabled : j <= i}) = k]]
    BY FrontendAssumption DEF IsConfig
  <2> DEFINE M(k) == Methods[CHOOSE i \in enabled : Cardinality({j \in enabled : j <= i}) = k]
  <2>2. c.methods = [k \in 1 .. Cardinality(enabled) |-> M(k)]
    BY <2>1
  <2> HIDE DEF M
  <2>3. c.methods \in [1 .. Cardinality(enabled) -> {M(k) : k \in 1 .. Cardinality(enabled)}]
    BY <2>2
  <2> QED
    BY <2>1, <2>3
<1>2. Cardinality(enabled) \in Nat /\ Cardinality(enabled) # 0
  <2>1. IsFiniteSet(enabled)
    <3>1. enabled \in SUBSET Nat /\ \A i \in enabled : i <= 4
      OBVIOUS
    <3> QED
      BY <3>1, FS_BoundedSetOfNaturals
  <2> QED
    BY <1>1, <2>1, FS_CardinalityType, FS_EmptySet
<1>3. Len(c.methods) = Cardinality(enabled)
  <2>1. PICK S : c.methods \in [1 .. Cardinality(enabled) -> S]
    BY <1>1
  <2>2. c.methods \in Seq(S) /\ DOMAIN c.methods = 1 .. Cardinality(enabled)
    BY <2>1, <1>2
  <2> QED
    BY <2>2, <1>2
<1>4. /\ Len(c.dims) \in 1 .. 4
      /\ \A d \in Dims(c) : c.dims[d] \in Nat \ {0}
      /\ c.block_size \in Nat \ {0}
  BY FrontendAssumption DEF IsConfig, Dims
<1> QED
  BY <1>2, <1>3, <1>4

\* A predictor is picked, and the only one if there is no other.
LEMMA PicksIs ==
  ASSUME NEW c \in Configs, NEW range
  PROVE  /\ Picks(c, range) \subseteq 1 .. Len(c.methods)
         /\ ~Composed(c) => Picks(c, range) \subseteq {1}
<1>1. Len(c.methods) \in Nat \ {0}
  BY ConfigIs
<1>2. Picks(c, range) \in {{1}, 1 .. Len(c.methods)}
  BY DEF Picks
<1> QED
  BY <1>1, <1>2 DEF Composed

\* A block is as long as it may be, or what is left over.
LEMMA BlockSizes ==
  ASSUME NEW c \in Configs, NEW b
  PROVE  LET dims == ElementRange(c, b).dims
         IN  /\ dims \in [Dims(c) -> 1 .. c.block_size]
             /\ \A d \in Dims(c) : dims[d] \in {c.block_size, ((c.dims[d] - 1) % c.block_size) + 1}
<1> DEFINE size == c.block_size
           dims == ElementRange(c, b).dims
<1>1. size \in Nat \ {0} /\ \A d \in Dims(c) : c.dims[d] \in Nat \ {0}
  BY ConfigIs
<1>2. dims = [d \in Dims(c) |-> IF b.local[d] = BlockRange(c).dims[d] - 1
                                THEN c.dims[d] - b.local[d] * c.block_size ELSE c.block_size]
  BY DEF ElementRange
<1>3. BlockRange(c).dims = [d \in Dims(c) |-> ((c.dims[d] - 1) \div c.block_size) + 1]
  BY DEF BlockRange
<1>4. ASSUME NEW d \in Dims(c)
      PROVE  dims[d] = c.block_size \/ dims[d] = ((c.dims[d] - 1) % c.block_size) + 1
  <2> DEFINE x == c.dims[d] - 1
             q == x \div size
  <2>1. x \in Nat /\ q \in Nat
    BY <1>1, QuotientOf
  <2>2. BlockRange(c).dims[d] - 1 = q
    BY <1>3, <2>1
  <2>3. dims[d] = IF b.local[d] = q THEN c.dims[d] - q * size ELSE size
    BY <1>2, <2>2
  <2>4. c.dims[d] - q * size = (x % size) + 1
    <3>1. x % size = x - size * q
      BY <1>1, <2>1, RemainderOf
    <3>2. size * q = q * size /\ q * size \in Int
      BY <1>1, <2>1
    <3>3. c.dims[d] = x + 1
      BY <1>1
    <3> HIDE DEF x, q
    <3> QED
      BY <3>1, <3>2, <3>3, <2>1
  <2> QED
    BY <2>3, <2>4
<1>5. ASSUME NEW d \in Dims(c)
      PROVE  c.block_size \in 1 .. size /\ ((c.dims[d] - 1) % c.block_size) + 1 \in 1 .. size
  <2> DEFINE x == c.dims[d] - 1
  <2>1. x \in Nat
    BY <1>1
  <2> HIDE DEF x
  <2>2. x % size \in 0 .. size - 1
    BY <1>1, <2>1, RemainderOf
  <2>3. (x % size) + 1 \in 1 .. size /\ size \in 1 .. size
    BY <1>1, <2>2
  <2> QED
    BY <2>3 DEF x
<1> QED
  BY <1>2, <1>4, <1>5

\* Where no predictor refuses, none does.
LEMMA NoneRefuses ==
  ASSUME NEW c \in Configs, NeverRefuses(c), Composed(c), NEW b,
         NEW sid \in Picks(c, ElementRange(c, b))
  PROVE  Accepts(c.methods[sid], ElementRange(c, b))
<1> DEFINE dims == ElementRange(c, b).dims
<1>1. /\ dims \in [Dims(c) -> 1 .. c.block_size]
      /\ \A d \in Dims(c) : dims[d] \in {c.block_size, ((c.dims[d] - 1) % c.block_size) + 1}
  BY BlockSizes
<1>2. Picks(c, [dims |-> dims]) = Picks(c, ElementRange(c, b))
  BY DEF Picks
<1>3. Accepts(c.methods[sid], [dims |-> dims])
  BY <1>1, <1>2 DEF NeverRefuses
<1> QED
  BY <1>3 DEF Accepts

-----------------------------------------------------------------------------
(* Sequences and control.                                                  *)

\* The coefficients of a block as a difference to those of another.
Entry == [prev : Int, cur : Int]

\* The regression predictors enabled.
Fitted(c) == {c.methods[k] : k \in 1 .. Len(c.methods)} \cap Regressions

\* pc in compress.
Encoding == {"block", "element"}

\* pc where decompress has not started.
Unread == Encoding \cup {"exited"}

\* The type invariant; decompress reads the lists compress wrote.
Typed ==
  /\ cfg \in Configs
  /\ pc \in Unread \cup {"dblock", "delement", "done", "undefined"}
  /\ IsSeq(used) /\ IsSeq(log) /\ IsSeq(dused) /\ IsSeq(dlog) /\ IsSeq(selection)
  /\ coeffs \in [Fitted(cfg) -> Seq(Entry)]
  /\ prev_coeffs \in [Fitted(cfg) -> Int]
  /\ current_coeffs \in [Fitted(cfg) -> Int]
  /\ regression_coeff_index \in [Fitted(cfg) -> Nat]
  /\ pc \notin Unread => stream = [selection |-> selection, coeffs |-> coeffs]

\* A method with coefficients is one of those that have a list.
LEMMA FittedIs ==
  ASSUME NEW c \in Configs, NEW range, NEW sid \in Picks(c, range), c.methods[sid] \in Regressions
  PROVE  c.methods[sid] \in Fitted(c)
BY PicksIs DEF Fitted

\* The types hold at the start of compress.
LEMMA TypedInit == Init => Typed
<1> SUFFICES ASSUME Init PROVE Typed
  OBVIOUS
<1>1. IsSeq(<<>>)
  BY DEF IsSeq
<1>2. /\ coeffs = [m \in Fitted(cfg) |-> <<>>] /\ prev_coeffs = [m \in Fitted(cfg) |-> 0]
      /\ current_coeffs = prev_coeffs /\ regression_coeff_index = prev_coeffs
      /\ cfg \in Configs /\ pc = "block"
      /\ used = <<>> /\ log = <<>> /\ dused = <<>> /\ dlog = <<>> /\ selection = <<>>
  BY DEF Init, Fitted
<1>3. coeffs \in [Fitted(cfg) -> Seq(Entry)] /\ prev_coeffs \in [Fitted(cfg) -> Nat]
  BY <1>2
<1> QED
  BY <1>1, <1>2, <1>3 DEF Typed, Unread, Encoding

\* Every step keeps them: what the lists are changed by is of the right kind.
LEMMA TypedNext == Typed /\ [Next]_vars => Typed'
<1> SUFFICES ASSUME Typed, [Next]_vars PROVE Typed'
  OBVIOUS
<1> USE DEF Typed, Unread, Encoding, encVars, decVars
<1>1. CASE StartBlock
  <2>1. PICK sid \in Picks(cfg, ElementRange(cfg, block)) :
          LET by == cfg.methods[sid] IN
            /\ selection' = IF Composed(cfg) THEN Append(selection, sid) ELSE selection
            /\ IF by \in Regressions THEN Commit(by, Len(used) + 1)
                                     ELSE UNCHANGED <<coeffs, prev_coeffs>>
            /\ used' = Append(used, [by |-> by, coeffs |-> IF by \in Regressions THEN Len(used) + 1
                                                                                ELSE 0])
    BY <1>1 DEF StartBlock
  <2> DEFINE by == cfg.methods[sid]
  <2>2. /\ pc = "block" /\ pc' = "element"
        /\ UNCHANGED <<cfg, log, dlog, dused, current_coeffs, regression_coeff_index>>
    BY <1>1 DEF StartBlock
  <2>3. IsSeq(selection') /\ IsSeq(used')
    BY <2>1, AppendIs
  <2>4. by \in Regressions => by \in Fitted(cfg)
    BY FittedIs
  <2>5. Len(used) + 1 \in Int
    BY AppendIs
  <2>6. /\ coeffs' \in [Fitted(cfg) -> Seq(Entry)]
        /\ prev_coeffs' \in [Fitted(cfg) -> Int]
    <3>1. CASE by \in Regressions
      <4> DEFINE n == Len(used) + 1
      <4>1. /\ coeffs' = [coeffs EXCEPT ![by] = Append(@, [prev |-> prev_coeffs[by], cur |-> n])]
            /\ prev_coeffs' = [prev_coeffs EXCEPT ![by] = n]
        BY <2>1, <3>1 DEF Commit
      <4> HIDE DEF n, by
      <4>2. n \in Int /\ by \in Fitted(cfg)
        BY <2>4, <2>5, <3>1 DEF n
      <4>3. [prev |-> prev_coeffs[by], cur |-> n] \in Entry
        BY <4>2 DEF Entry
      <4> QED
        BY <4>1, <4>2, <4>3
    <3>2. CASE by \notin Regressions
      BY <2>1, <3>2
    <3> QED
      BY <3>1, <3>2
  <2> QED
    BY <2>2, <2>3, <2>6
<1>2. CASE StartFallback
  BY <1>2, AppendIs DEF StartFallback
<1>3. CASE CodeElement
  BY <1>3, AppendIs DEF CodeElement
<1>4. CASE NextBlock
  BY <1>4 DEF NextBlock
<1>5. CASE SaveExits
  BY <1>5 DEF SaveExits
<1>6. CASE Save
  BY <1>6 DEF Save
<1>7. CASE DecodeRunsOff
  BY <1>7 DEF DecodeRunsOff
<1>8. CASE DecodeStartBlock
  <2> DEFINE range == ElementRange(cfg, dblock)
             by == cfg.methods[IF Composed(cfg) THEN stream.selection[current_index + 1] ELSE 1]
  <2>1. /\ pc = "dblock" /\ pc' = "delement" /\ UNCHANGED <<cfg, stream, dlog, encVars>>
        /\ IF by \in Regressions /\ Accepts(by, range)
           THEN /\ current_coeffs' = [current_coeffs EXCEPT ![by] =
                     Recovered(stream.coeffs[by][regression_coeff_index[by] + 1], @)]
                /\ regression_coeff_index' = [regression_coeff_index EXCEPT ![by] = @ + 1]
           ELSE UNCHANGED <<current_coeffs, regression_coeff_index>>
        /\ \E e : dused' = Append(dused, e)
    BY <1>8, Zenon DEF DecodeStartBlock
  <2>2. IsSeq(dused')
    BY <2>1, AppendIs
  <2>3. InLists(range)
    BY <1>8 DEF DecodeStartBlock
  <2>4. CASE by \in Regressions /\ Accepts(by, range)
    <3> DEFINE l == stream.coeffs[by]
               n == regression_coeff_index[by]
    <3>1. n < Len(l)
      BY <2>3, <2>4 DEF InLists
    <3>2. by \in Fitted(cfg) => Recovered(l[n + 1], current_coeffs[by]) \in Int
      <4> SUFFICES ASSUME by \in Fitted(cfg) PROVE Recovered(l[n + 1], current_coeffs[by]) \in Int
        OBVIOUS
      <4>1. l \in Seq(Entry) /\ n \in Nat
        BY <2>1
      <4> HIDE DEF l, n
      <4>2. l[n + 1] \in Entry
        BY <4>1, <3>1, MemberIs
      <4> QED
        BY <4>2 DEF Recovered, Entry
    <3>3. /\ current_coeffs' = [current_coeffs EXCEPT ![by] = Recovered(l[n + 1], @)]
          /\ regression_coeff_index' = [regression_coeff_index EXCEPT ![by] = @ + 1]
      BY <2>1, <2>4
    <3> DEFINE r == Recovered(l[n + 1], current_coeffs[by])
    <3>5. /\ current_coeffs' = [current_coeffs EXCEPT ![by] = r]
          /\ by \in Fitted(cfg) => r \in Int
      BY <3>2, <3>3
    <3> HIDE DEF r, by, l, n
    <3>6. current_coeffs' \in [Fitted(cfg) -> Int]
      BY <3>5, ExceptIs
    <3>7. regression_coeff_index' = [regression_coeff_index EXCEPT ![by] = n + 1]
      BY <3>3 DEF n
    <3>8. by \in Fitted(cfg) => n + 1 \in Nat
      BY DEF n
    <3>4. regression_coeff_index' \in [Fitted(cfg) -> Nat]
      BY <3>7, <3>8, ExceptIs
    <3> QED
      BY <2>1, <2>2, <3>4, <3>6
  <2>5. CASE ~(by \in Regressions /\ Accepts(by, range))
    BY <2>1, <2>2, <2>5
  <2> QED
    BY <2>4, <2>5
<1>9. CASE DecodeElement
  BY <1>9, AppendIs DEF DecodeElement
<1>10. CASE DecodeNextBlock
  BY <1>10 DEF DecodeNextBlock
<1>11. CASE Return
  BY <1>11 DEF Return
<1>12. CASE UNCHANGED vars
  BY <1>12 DEF vars
<1> QED
  BY <1>1, <1>2, <1>3, <1>4, <1>5, <1>6, <1>7, <1>8, <1>9, <1>10, <1>11, <1>12 DEF Next, Done

-----------------------------------------------------------------------------
(* What the encoder leaves behind on its walk.                             *)

\* How far compress has walked: a step into each block and out of it, one for an element.
EncSteps == 2 * Len(used) + Len(log) - (IF pc = "element" THEN 1 ELSE 0)

\* Its two iterators and the length of its lists.
Here ==
  [inside |-> pc = "element", block |-> block, elem |-> elem,
   started |-> Len(used), coded |-> Len(log)]

\* Block i, of this range, has been coded with a predictor that was picked and accepted
\* it, or with the fallback; where none refuses, the pick is on the list.
StartedAs(i, range) ==
  /\ i \in 1 .. Len(used)
  /\ \E sid \in Picks(cfg, range) :
       LET by == cfg.methods[sid]
       IN  /\ Composed(cfg) /\ NeverRefuses(cfg) =>
                i \in 1 .. Len(selection) /\ selection[i] = sid
           /\ used[i] = IF Accepts(by, range)
                        THEN [by |-> by, coeffs |-> IF by \in Regressions THEN i ELSE 0]
                        ELSE [by |-> "fallback", coeffs |-> 0]

\* What is left of step m.
Passed(m) ==
  LET w     == Walk(cfg)[m]
      range == ElementRange(cfg, w.block)
  IN  /\ ~w.inside =>
           ~AtEnd(BlockRange(cfg), w.block) /\ StartedAs(w.started + 1, range)
      /\ w.inside /\ ~AtEnd(range, w.elem) =>
           /\ w.started \in 1 .. Len(used)
           /\ w.coded + 1 \in 1 .. Len(log)
           /\ log[w.coded + 1] = {Event(cfg, range, w.elem, used[w.started].by)}

\* compress is where the walk is, and left its traces at each step behind it.
Walked ==
  /\ pc = "element" => Len(used) >= 1
  /\ Walk(cfg)[EncSteps] = Here
  /\ pc \notin Encoding => AtEnd(BlockRange(cfg), block)
  /\ Len(selection) = (IF Composed(cfg) THEN Len(used) ELSE 0) \/ ~NeverRefuses(cfg)
  /\ \A m \in 0 .. EncSteps - 1 : Passed(m)

\* What is left stays.
LEMMA PassedStays ==
  ASSUME NEW m, Passed(m), cfg' = cfg, IsSeq(used), IsSeq(log), IsSeq(selection),
         IsSeq(used'), IsSeq(log'), IsSeq(selection'),
         Begins(used, used'), Begins(log, log'), Begins(selection, selection')
  PROVE  Passed(m)'
<1> PICK w : w = Walk(cfg)[m]
  OBVIOUS
<1> PICK range : range = ElementRange(cfg, w.block)
  OBVIOUS
<1>1. /\ Len(used) \in Nat /\ Len(log) \in Nat /\ Len(selection) \in Nat
      /\ Len(used') \in Nat /\ Len(log') \in Nat /\ Len(selection') \in Nat
  BY LengthIs
<1>2. ASSUME NEW i, StartedAs(i, range) PROVE StartedAs(i, range)'
  <2>1. i \in 1 .. Len(used) /\ i \in 1 .. Len(used') /\ used'[i] = used[i]
    BY <1>1, <1>2 DEF StartedAs, Begins
  <2>2. i \in 1 .. Len(selection) => i \in 1 .. Len(selection') /\ selection'[i] = selection[i]
    BY <1>1 DEF Begins
  <2>3. PICK sid \in Picks(cfg, range) :
           /\ Composed(cfg) /\ NeverRefuses(cfg) =>
                i \in 1 .. Len(selection) /\ selection[i] = sid
           /\ used[i] = IF Accepts(cfg.methods[sid], range)
                        THEN [by |-> cfg.methods[sid],
                              coeffs |-> IF cfg.methods[sid] \in Regressions THEN i ELSE 0]
                        ELSE [by |-> "fallback", coeffs |-> 0]
    BY <1>2 DEF StartedAs
  <2> QED
    BY <2>1, <2>2, <2>3 DEF StartedAs
<1>3. ASSUME ~w.inside
      PROVE  ~AtEnd(BlockRange(cfg), w.block) /\ StartedAs(w.started + 1, range)'
  BY <1>2, <1>3 DEF Passed
<1>4. ASSUME w.inside, ~AtEnd(range, w.elem)
      PROVE  /\ w.started \in 1 .. Len(used')
             /\ w.coded + 1 \in 1 .. Len(log')
             /\ log'[w.coded + 1] = {Event(cfg, range, w.elem, used'[w.started].by)}
  <2>1. /\ w.started \in 1 .. Len(used)
        /\ w.coded + 1 \in 1 .. Len(log)
        /\ log[w.coded + 1] = {Event(cfg, range, w.elem, used[w.started].by)}
    BY <1>4 DEF Passed
  <2>2. w.started \in 1 .. Len(used') /\ used'[w.started] = used[w.started]
    BY <1>1, <2>1 DEF Begins
  <2>3. w.coded + 1 \in 1 .. Len(log') /\ log'[w.coded + 1] = log[w.coded + 1]
    BY <1>1, <2>1 DEF Begins
  <2> QED
    BY <2>1, <2>2, <2>3
<1> QED
  BY <1>3, <1>4 DEF Passed

\* A step that takes the walk one further.
LEMMA WalkedOn ==
  ASSUME Typed, Typed', Walked, cfg' = cfg,
         Begins(used, used'), Begins(log, log'), Begins(selection, selection'),
         EncSteps' = EncSteps + 1, Here' = WalkOn(cfg, Here),
         NEW n, n = EncSteps, Passed(n)'
  PROVE  /\ EncSteps \in Nat
         /\ Walk(cfg')[EncSteps'] = Here'
         /\ \A m \in 0 .. EncSteps' - 1 : Passed(m)'
<1>1. Len(used) \in Nat /\ Len(log) \in Nat
  BY LengthIs DEF Typed
<1>2. EncSteps \in Nat
  BY <1>1 DEF EncSteps, Walked
<1>3. Walk(cfg')[EncSteps'] = Here'
  BY <1>2, WalkIs DEF Walked
<1>4. ASSUME NEW m \in 0 .. EncSteps' - 1 PROVE Passed(m)'
  <2>1. CASE m = n
    BY <2>1
  <2>2. CASE m # n
    <3>1. m \in 0 .. EncSteps - 1
      BY <1>2, <2>2
    <3>2. Passed(m)
      BY <3>1 DEF Walked
    <3> QED
      BY <3>2, PassedStays DEF Typed
  <2> QED
    BY <2>1, <2>2
<1> QED
  BY <1>2, <1>3, <1>4

\* compress sets out where the walk does.
LEMMA WalkedInit == Init => Walked
<1> SUFFICES ASSUME Init PROVE Walked
  OBVIOUS
<1>1. /\ pc = "block" /\ block = Begin(BlockRange(cfg)) /\ elem = Begin(BlockRange(cfg))
      /\ used = <<>> /\ log = <<>> /\ selection = <<>>
  BY DEF Init
<1>2. EncSteps = 0 /\ Here = Outset(cfg)
  <2>1. Len(used) = 0 /\ Len(log) = 0 /\ pc # "element"
    BY <1>1
  <2>2. EncSteps = 0
    <3>1. 2 * Len(used) + Len(log) - 0 = 0
      BY <2>1
    <3> QED
      BY <2>1, <3>1, Zenon DEF EncSteps
  <2>3. (pc = "element") = FALSE
    BY <2>1
  <2>4. Here = Outset(cfg)
    BY <1>1, <2>1, <2>3, Zenon DEF Here, Outset
  <2> QED
    BY <2>2, <2>4
<1>3. Walk(cfg)[EncSteps] = Here
  BY <1>2, WalkIs
<1> QED
  BY <1>1, <1>2, <1>3 DEF Walked, Encoding

\* A step into a block.
LEMMA StartWalks ==
  ASSUME Typed, Typed', Walked, cfg' = cfg, pc = "block", pc' = "element",
         ~AtEnd(BlockRange(cfg), block), block' = block, log' = log,
         elem' = Begin(ElementRange(cfg, block)),
         Begins(used, used'), Len(used') = Len(used) + 1, Begins(selection, selection'),
         Len(selection') = (IF Composed(cfg) THEN Len(used') ELSE 0) \/ ~NeverRefuses(cfg),
         NEW i, i = Len(used) + 1, NEW range, range = ElementRange(cfg, block),
         StartedAs(i, range)'
  PROVE  Walked'
<1>1. Len(used) \in Nat /\ Len(log) \in Nat
  BY LengthIs DEF Typed
<1>2. EncSteps' = EncSteps + 1
  BY <1>1 DEF EncSteps
<1>3. Here' = WalkOn(cfg, Here)
  BY DEF Here, WalkOn
<1>4. PICK n : n = EncSteps
  OBVIOUS
<1>5. Walk(cfg)[n] = Here
  BY <1>4 DEF Walked
<1>6. PICK w : w = Here
  OBVIOUS
<1>7. w.inside = FALSE /\ w.block = block /\ w.started + 1 = i
  BY <1>6 DEF Here
<1>8. Passed(n)'
  BY <1>5, <1>6, <1>7 DEF Passed
<1>9. Begins(log, log')
  BY BeginsIs DEF Typed
<1>10. /\ EncSteps \in Nat
       /\ Walk(cfg')[EncSteps'] = Here'
       /\ \A m \in 0 .. EncSteps' - 1 : Passed(m)'
  BY <1>2, <1>3, <1>4, <1>8, <1>9, WalkedOn
<1> QED
  BY <1>1, <1>10 DEF Walked, Encoding

\* compress keeps to the walk, and decompress does not touch its lists.
LEMMA WalkedNext == Typed /\ Typed' /\ Walked /\ [Next]_vars => Walked'
<1> SUFFICES ASSUME Typed, Typed', Walked, [Next]_vars PROVE Walked'
  OBVIOUS
<1>0. Len(used) \in Nat /\ Len(log) \in Nat
  BY LengthIs DEF Typed
<1>1. CASE StartBlock
  <2>1. PICK sid \in Picks(cfg, ElementRange(cfg, block)) :
          LET by == cfg.methods[sid] IN
            /\ Accepts(by, ElementRange(cfg, block))
            /\ selection' = IF Composed(cfg) THEN Append(selection, sid) ELSE selection
            /\ used' = Append(used, [by |-> by, coeffs |-> IF by \in Regressions THEN Len(used) + 1
                                                                                ELSE 0])
    BY <1>1 DEF StartBlock
  <2>2. /\ pc = "block" /\ pc' = "element" /\ ~AtEnd(BlockRange(cfg), block)
        /\ elem' = Begin(ElementRange(cfg, block))
        /\ UNCHANGED <<cfg, block, log>>
    BY <1>1 DEF StartBlock
  <2>3. /\ Begins(used, used') /\ Len(used') = Len(used) + 1
        /\ used'[Len(used) + 1] =
             [by |-> cfg.methods[sid],
              coeffs |-> IF cfg.methods[sid] \in Regressions THEN Len(used) + 1 ELSE 0]
    BY <2>1, BeginsIs, AppendIs DEF Typed
  <2>4. /\ Begins(selection, selection')
        /\ Composed(cfg) => /\ Len(selection') = Len(selection) + 1
                            /\ selection'[Len(selection) + 1] = sid
        /\ ~Composed(cfg) => selection' = selection
    BY <2>1, BeginsIs, AppendIs DEF Typed
  <2>5. Len(selection') = (IF Composed(cfg) THEN Len(used') ELSE 0) \/ ~NeverRefuses(cfg)
    BY <1>0, <2>3, <2>4 DEF Walked
  <2>6. PICK i : i = Len(used) + 1
    OBVIOUS
  <2>7. PICK range : range = ElementRange(cfg, block)
    OBVIOUS
  <2>8. StartedAs(i, range)'
    <3>1. i \in 1 .. Len(used')
      BY <1>0, <2>3, <2>6
    <3>2. Composed(cfg) /\ NeverRefuses(cfg) => i \in 1 .. Len(selection') /\ selection'[i] = sid
      BY <1>0, <2>4, <2>6 DEF Walked
    <3> QED
      BY <2>1, <2>2, <2>3, <2>6, <2>7, <3>1, <3>2 DEF StartedAs
  <2> QED
    BY <2>2, <2>3, <2>4, <2>5, <2>6, <2>7, <2>8, StartWalks
<1>2. CASE StartFallback
  <2>1. PICK sid \in Picks(cfg, ElementRange(cfg, block)) :
          ~Accepts(cfg.methods[sid], ElementRange(cfg, block))
    BY <1>2 DEF StartFallback
  <2>2. /\ pc = "block" /\ pc' = "element" /\ ~AtEnd(BlockRange(cfg), block)
        /\ elem' = Begin(ElementRange(cfg, block))
        /\ UNCHANGED <<cfg, block, log, selection>>
        /\ used' = Append(used, [by |-> "fallback", coeffs |-> 0])
    BY <1>2 DEF StartFallback
  <2>3. /\ Begins(used, used') /\ Len(used') = Len(used) + 1
        /\ used'[Len(used) + 1] = [by |-> "fallback", coeffs |-> 0]
    BY <2>2, BeginsIs, AppendIs DEF Typed
  <2>4. Begins(selection, selection')
    BY <2>2, BeginsIs DEF Typed
  <2>5. ~(Composed(cfg) /\ NeverRefuses(cfg))
    BY <2>1, NoneRefuses DEF Typed
  <2>6. Len(selection') = (IF Composed(cfg) THEN Len(used') ELSE 0) \/ ~NeverRefuses(cfg)
    BY <2>2, <2>5 DEF Walked
  <2>7. PICK i : i = Len(used) + 1
    OBVIOUS
  <2>8. PICK range : range = ElementRange(cfg, block)
    OBVIOUS
  <2>9. StartedAs(i, range)'
    <3>1. i \in 1 .. Len(used')
      BY <1>0, <2>3, <2>7
    <3> QED
      BY <2>1, <2>2, <2>3, <2>5, <2>7, <2>8, <3>1 DEF StartedAs
  <2> QED
    BY <2>2, <2>3, <2>4, <2>6, <2>7, <2>8, <2>9, StartWalks
<1>3. CASE CodeElement
  <2>1. /\ pc = "element" /\ pc' = "element" /\ ~AtEnd(ElementRange(cfg, block), elem)
        /\ elem' = Increment(ElementRange(cfg, block), elem)
        /\ log' = Append(log, {Event(cfg, ElementRange(cfg, block), elem, used[Len(used)].by)})
        /\ UNCHANGED <<cfg, block, selection, used>>
    BY <1>3 DEF CodeElement
  <2>2. /\ Begins(log, log') /\ Len(log') = Len(log) + 1
        /\ log'[Len(log) + 1] = {Event(cfg, ElementRange(cfg, block), elem, used[Len(used)].by)}
    BY <2>1, BeginsIs, AppendIs DEF Typed
  <2>3. Begins(used, used') /\ Begins(selection, selection')
    BY <2>1, BeginsIs DEF Typed
  <2>4. EncSteps' = EncSteps + 1
    BY <1>0, <2>1, <2>2 DEF EncSteps
  <2>5. Here' = WalkOn(cfg, Here)
    BY <2>1, <2>2 DEF Here, WalkOn
  <2>6. PICK n : n = EncSteps
    OBVIOUS
  <2>7. PICK w : w = Here
    OBVIOUS
  <2>8. Walk(cfg)[n] = w
    BY <2>6, <2>7 DEF Walked
  <2>9. /\ w.inside = TRUE /\ w.block = block /\ w.elem = elem /\ w.started = Len(used)
        /\ w.coded = Len(log)
    BY <2>1, <2>7 DEF Here
  <2>10. Len(used) \in 1 .. Len(used') /\ Len(log) + 1 \in 1 .. Len(log')
    BY <1>0, <2>1, <2>2 DEF Walked
  <2>11. Passed(n)'
    BY <2>1, <2>2, <2>8, <2>9, <2>10 DEF Passed
  <2>12. /\ EncSteps \in Nat
         /\ Walk(cfg')[EncSteps'] = Here'
         /\ \A m \in 0 .. EncSteps' - 1 : Passed(m)'
    BY <2>1, <2>2, <2>3, <2>4, <2>5, <2>6, <2>11, WalkedOn
  <2> QED
    BY <2>1, <2>12 DEF Walked, Encoding
<1>4. CASE NextBlock
  <2>1. /\ pc = "element" /\ pc' = "block" /\ AtEnd(ElementRange(cfg, block), elem)
        /\ block' = Increment(BlockRange(cfg), block)
        /\ UNCHANGED <<cfg, elem, selection, used, log>>
    BY <1>4 DEF NextBlock
  <2>2. Begins(log, log') /\ Begins(used, used') /\ Begins(selection, selection')
    BY <2>1, BeginsIs DEF Typed
  <2>3. EncSteps' = EncSteps + 1
    BY <1>0, <2>1 DEF EncSteps
  <2>4. Here' = WalkOn(cfg, Here)
    BY <2>1 DEF Here, WalkOn
  <2>5. PICK n : n = EncSteps
    OBVIOUS
  <2>6. PICK w : w = Here
    OBVIOUS
  <2>7. Walk(cfg)[n] = w
    BY <2>5, <2>6 DEF Walked
  <2>8. w.inside = TRUE /\ w.block = block /\ w.elem = elem
    BY <2>1, <2>6 DEF Here
  <2>9. Passed(n)'
    BY <2>1, <2>7, <2>8 DEF Passed
  <2>10. /\ EncSteps \in Nat
         /\ Walk(cfg')[EncSteps'] = Here'
         /\ \A m \in 0 .. EncSteps' - 1 : Passed(m)'
    BY <2>1, <2>2, <2>3, <2>4, <2>5, <2>9, WalkedOn
  <2> QED
    BY <2>1, <2>10 DEF Walked, Encoding
\* The rest leaves the encoder's side alone.
<1>5. ASSUME UNCHANGED <<cfg, block, elem, selection, used, log>>,
             (pc # "element" /\ pc' # "element") \/ pc' = pc,
             pc' \notin Encoding => AtEnd(BlockRange(cfg), block)
      PROVE  Walked'
  <2>1. EncSteps' = EncSteps /\ Here' = Here
    BY <1>5 DEF EncSteps, Here
  <2>2. Begins(log, log') /\ Begins(used, used') /\ Begins(selection, selection')
    BY <1>5, BeginsIs DEF Typed
  <2>3. \A m \in 0 .. EncSteps - 1 : Passed(m)'
    BY <1>5, <2>2, PassedStays DEF Walked, Typed
  <2> QED
    BY <1>5, <2>1, <2>3 DEF Walked
<1>6. CASE SaveExits \/ Save
  BY <1>6, <1>5 DEF SaveExits, Save, encVars, Encoding
<1>7. CASE DecodeRunsOff \/ DecodeStartBlock \/ DecodeElement \/ DecodeNextBlock \/ Return
  <2>1. UNCHANGED <<cfg, block, elem, selection, used, log>>
    BY <1>7 DEF DecodeRunsOff, DecodeStartBlock, DecodeElement, DecodeNextBlock, Return, encVars
  <2>2. pc \in {"dblock", "delement"} /\ pc' \in {"dblock", "delement", "done", "undefined"}
    BY <1>7 DEF DecodeRunsOff, DecodeStartBlock, DecodeElement, DecodeNextBlock, Return
  <2> QED
    BY <1>5, <2>1, <2>2 DEF Walked, Encoding
<1>8. CASE UNCHANGED vars
  BY <1>8, <1>5 DEF vars, encVars, Walked
<1> QED
  BY <1>1, <1>2, <1>3, <1>4, <1>6, <1>7, <1>8 DEF Next, Done

-----------------------------------------------------------------------------
(* The lists of coefficients.                                              *)

\* The list of a predictor holds its blocks, one after the other, and each entry is the
\* difference to the one before.
Chained(m) ==
  LET l == coeffs[m]
  IN  /\ prev_coeffs[m] = IF Len(l) = 0 THEN 0 ELSE l[Len(l)].cur
      /\ \A k \in 1 .. Len(l) :
           /\ l[k].cur \in 1 .. Len(used)
           /\ used[l[k].cur].by = m
           /\ l[k].prev = IF k = 1 THEN 0 ELSE l[k - 1].cur
           /\ \A j \in 1 .. k - 1 : l[j].cur < l[k].cur
      /\ \A i \in 1 .. Len(used) : used[i].by = m => \E k \in 1 .. Len(l) : l[k].cur = i

\* So it is with every predictor that has one.
AllChained == \A m \in Fitted(cfg) : Chained(m)

\* Empty lists are chained, prev_coeffs being zero.
LEMMA ChainedInit == Init => AllChained
<1> SUFFICES ASSUME Init, NEW m \in Fitted(cfg) PROVE Chained(m)
  BY DEF AllChained
<1>1. coeffs[m] = <<>> /\ prev_coeffs[m] = 0 /\ used = <<>>
  BY DEF Init, Fitted
<1> QED
  BY <1>1 DEF Chained

\* A block of another predictor leaves the list alone.
LEMMA OthersChained ==
  ASSUME Typed, NEW m \in Fitted(cfg), Chained(m), Begins(used, used'),
         IsSeq(used'), Len(used') = Len(used) + 1, used'[Len(used) + 1].by # m,
         coeffs'[m] = coeffs[m], prev_coeffs'[m] = prev_coeffs[m]
  PROVE  Chained(m)'
<1> DEFINE l == coeffs[m]
<1>1. Len(used) \in Nat
  BY LengthIs DEF Typed
<1>2. \A i \in 1 .. Len(used) : i \in 1 .. Len(used') /\ used'[i] = used[i]
  BY <1>1 DEF Begins
<1>3. \A i \in 1 .. Len(used') : i \in 1 .. Len(used) \/ i = Len(used) + 1
  BY <1>1
<1>4. \A k \in 1 .. Len(l) :
        /\ l[k].cur \in 1 .. Len(used')
        /\ used'[l[k].cur].by = m
        /\ l[k].prev = IF k = 1 THEN 0 ELSE l[k - 1].cur
        /\ \A j \in 1 .. k - 1 : l[j].cur < l[k].cur
  BY <1>2 DEF Chained
<1>5. \A i \in 1 .. Len(used') : used'[i].by = m => \E k \in 1 .. Len(l) : l[k].cur = i
  BY <1>2, <1>3 DEF Chained
<1> QED
  BY <1>4, <1>5 DEF Chained

\* A block of its own comes last.
LEMMA OwnChained ==
  ASSUME Typed, NEW m \in Fitted(cfg), Chained(m), Begins(used, used'),
         IsSeq(used'), Len(used') = Len(used) + 1, used'[Len(used) + 1].by = m,
         coeffs'[m] = Append(coeffs[m], [prev |-> prev_coeffs[m], cur |-> Len(used) + 1]),
         prev_coeffs'[m] = Len(used) + 1
  PROVE  Chained(m)'
<1> PICK l : l = coeffs[m]
  OBVIOUS
<1> PICK r : r = coeffs'[m]
  OBVIOUS
<1> PICK e : e = [prev |-> prev_coeffs[m], cur |-> Len(used) + 1]
  OBVIOUS
<1>1. Len(used) \in Nat
  BY LengthIs DEF Typed
<1>2. l \in Seq(Entry) /\ e \in Entry
  BY <1>1 DEF Typed, Entry
<1>3. /\ Len(l) \in Nat /\ Len(r) = Len(l) + 1 /\ r[Len(l) + 1] = e
      /\ \A k \in 1 .. Len(l) : r[k] = l[k]
  BY <1>2
<1>4. \A i \in 1 .. Len(used) : i \in 1 .. Len(used') /\ used'[i] = used[i]
  BY <1>1 DEF Begins
<1>5. \A i \in 1 .. Len(used') : i \in 1 .. Len(used) \/ i = Len(used) + 1
  BY <1>1
<1>6. /\ prev_coeffs[m] = IF Len(l) = 0 THEN 0 ELSE l[Len(l)].cur
      /\ \A k \in 1 .. Len(l) :
           /\ l[k].cur \in 1 .. Len(used)
           /\ used[l[k].cur].by = m
           /\ l[k].prev = IF k = 1 THEN 0 ELSE l[k - 1].cur
           /\ \A j \in 1 .. k - 1 : l[j].cur < l[k].cur
      /\ \A i \in 1 .. Len(used) : used[i].by = m => \E k \in 1 .. Len(l) : l[k].cur = i
  BY DEF Chained
<1>7. ASSUME NEW k \in 1 .. Len(r)
      PROVE  /\ r[k].cur \in 1 .. Len(used')
             /\ used'[r[k].cur].by = m
             /\ r[k].prev = IF k = 1 THEN 0 ELSE r[k - 1].cur
             /\ \A j \in 1 .. k - 1 : r[j].cur < r[k].cur
  <2>1. \A j \in 1 .. k - 1 : j \in 1 .. Len(l)
    BY <1>3
  <2>2. CASE k \in 1 .. Len(l)
    <3>1. k # 1 => k - 1 \in 1 .. Len(l)
      BY <1>3, <2>2
    <3>2. r[k] = l[k] /\ (k # 1 => r[k - 1] = l[k - 1])
      BY <1>3, <2>2, <3>1
    <3>3. r[k].cur \in 1 .. Len(used') /\ used'[r[k].cur].by = m
      <4>1. l[k].cur \in 1 .. Len(used) /\ used[l[k].cur].by = m
        BY <1>6, <2>2
      <4> QED
        BY <1>4, <3>2, <4>1
    <3>4. r[k].prev = IF k = 1 THEN 0 ELSE r[k - 1].cur
      BY <1>6, <2>2, <3>2
    <3>5. \A j \in 1 .. k - 1 : r[j].cur < r[k].cur
      BY <1>3, <1>6, <2>1, <2>2, <3>2
    <3> QED
      BY <3>3, <3>4, <3>5
  <2>3. CASE k = Len(l) + 1
    <3>1. r[k].cur = Len(used) + 1 /\ r[k].prev = prev_coeffs[m]
      BY <1>3, <2>3
    <3>2. k # 1 => k - 1 = Len(l) /\ Len(l) \in 1 .. Len(l) /\ Len(l) # 0
      BY <1>3, <2>3
    <3>3. k = 1 => Len(l) = 0
      BY <1>3, <2>3
    <3>4. r[k].prev = IF k = 1 THEN 0 ELSE r[k - 1].cur
      BY <1>3, <1>6, <3>1, <3>2, <3>3
    <3>5. \A j \in 1 .. k - 1 : r[j].cur < r[k].cur
      BY <1>1, <1>3, <1>6, <2>1, <3>1
    <3>6. r[k].cur \in 1 .. Len(used')
      BY <1>1, <3>1
    <3> QED
      BY <3>1, <3>4, <3>5, <3>6
  <2> QED
    BY <1>3, <2>2, <2>3
<1>8. ASSUME NEW i \in 1 .. Len(used'), used'[i].by = m
      PROVE  \E k \in 1 .. Len(r) : r[k].cur = i
  <2>1. CASE i \in 1 .. Len(used)
    <3>1. PICK k \in 1 .. Len(l) : l[k].cur = i
      BY <1>4, <1>6, <1>8, <2>1
    <3> QED
      BY <1>3, <3>1
  <2>2. CASE i = Len(used) + 1
    <3>1. Len(l) + 1 \in 1 .. Len(r)
      BY <1>3
    <3> QED
      BY <1>3, <2>2, <3>1
  <2> QED
    BY <1>5, <2>1, <2>2
<1>9. prev_coeffs'[m] = IF Len(r) = 0 THEN 0 ELSE r[Len(r)].cur
  BY <1>3
<1> QED
  BY <1>7, <1>8, <1>9 DEF Chained

\* Every step keeps the lists chained: precompress_block_commit is the only one to append.
LEMMA ChainedNext == Typed /\ Typed' /\ AllChained /\ [Next]_vars => AllChained'
<1> SUFFICES ASSUME Typed, Typed', AllChained, [Next]_vars, NEW m \in Fitted(cfg'),
                    cfg' = cfg
             PROVE  Chained(m)'
  BY DEF AllChained, Next, StartBlock, StartFallback, CodeElement, NextBlock, SaveExits, Save,
         DecodeRunsOff, DecodeStartBlock, DecodeElement, DecodeNextBlock, Return, Done, vars
<1>0. m \in Fitted(cfg) /\ Chained(m)
  BY DEF AllChained
<1>1. CASE StartBlock
  <2>1. PICK sid \in Picks(cfg, ElementRange(cfg, block)) :
          LET by == cfg.methods[sid] IN
            /\ IF by \in Regressions THEN Commit(by, Len(used) + 1)
                                     ELSE UNCHANGED <<coeffs, prev_coeffs>>
            /\ used' = Append(used, [by |-> by, coeffs |-> IF by \in Regressions THEN Len(used) + 1
                                                                                ELSE 0])
    BY <1>1 DEF StartBlock
  <2> PICK by : by = cfg.methods[sid]
    OBVIOUS
  <2>2. /\ Begins(used, used') /\ Len(used') = Len(used) + 1
        /\ used'[Len(used) + 1].by = by
    BY <2>1, BeginsIs, AppendIs DEF Typed
  <2>3. m \in Regressions /\ m \in DOMAIN coeffs /\ m \in DOMAIN prev_coeffs
    BY <1>0 DEF Fitted, Typed
  <2>4. CASE by = m
    <3>1. Commit(m, Len(used) + 1)
      BY <2>1, <2>3, <2>4
    <3>2. /\ coeffs'[m] = Append(coeffs[m], [prev |-> prev_coeffs[m], cur |-> Len(used) + 1])
          /\ prev_coeffs'[m] = Len(used) + 1
      BY <2>3, <3>1 DEF Commit
    <3> QED
      BY <1>0, <2>2, <2>4, <3>2, OwnChained DEF Typed
  <2>5. CASE by # m
    <3>1. coeffs'[m] = coeffs[m] /\ prev_coeffs'[m] = prev_coeffs[m]
      BY <2>1, <2>3, <2>5 DEF Commit
    <3> QED
      BY <1>0, <2>2, <2>5, <3>1, OthersChained DEF Typed
  <2> QED
    BY <2>4, <2>5
<1>2. CASE StartFallback
  <2>1. /\ Begins(used, used') /\ Len(used') = Len(used) + 1
        /\ used'[Len(used) + 1].by = "fallback"
        /\ UNCHANGED <<coeffs, prev_coeffs>>
    BY <1>2, BeginsIs, AppendIs DEF StartFallback, Typed
  <2>2. m # "fallback"
    BY <1>0 DEF Fitted, Regressions
  <2> QED
    BY <1>0, <2>1, <2>2, OthersChained DEF Typed
<1>3. CASE UNCHANGED <<used, coeffs, prev_coeffs>>
  BY <1>0, <1>3 DEF Chained
<1>4. CASE \/ CodeElement \/ NextBlock \/ SaveExits \/ Save \/ DecodeRunsOff \/ DecodeStartBlock
           \/ DecodeElement \/ DecodeNextBlock \/ Return \/ UNCHANGED vars
  BY <1>3, <1>4 DEF CodeElement, NextBlock, SaveExits, Save, DecodeRunsOff, DecodeStartBlock,
                    DecodeElement, DecodeNextBlock, Return, vars, encVars
<1> QED
  BY <1>1, <1>2, <1>4 DEF Next, Done

-----------------------------------------------------------------------------
(* The decoder on the same walk.                                           *)

\* How far decompress has walked.
DecSteps == 2 * Len(dused) + Len(dlog) - (IF pc = "delement" THEN 1 ELSE 0)

\* Its two iterators and the length of its lists.
There ==
  [inside |-> pc = "delement", block |-> dblock, elem |-> delem,
   started |-> Len(dused), coded |-> Len(dlog)]

\* The cursor is behind the entries of the blocks decoded, and the coefficients at hand
\* are those of the last of them.
Cursor(m) ==
  LET l == coeffs[m]
      k == regression_coeff_index[m]
  IN  /\ k \in 0 .. Len(l)
      /\ current_coeffs[m] = IF k = 0 THEN 0 ELSE l[k].cur
      /\ \A j \in 1 .. Len(l) : l[j].cur <= Len(dused) <=> j <= k

\* decompress is where the walk is, and repeats what compress has left there.
Replayed ==
  /\ pc # "undefined"
  /\ pc = "delement" => Len(dused) >= 1
  /\ Walk(cfg)[DecSteps] = There
  /\ pc \in Unread => Len(dused) = 0 /\ Len(dlog) = 0
  /\ pc \notin Unread => DecSteps <= EncSteps
  /\ pc = "done" => DecSteps = EncSteps
  /\ Begins(dused, used)
  /\ Begins(dlog, log)
  /\ current_index = IF Composed(cfg) THEN Len(dused) ELSE 0
  /\ \A m \in Fitted(cfg) : Cursor(m)

\* decompress sets out where the walk does, with its cursors at 0.
LEMMA ReplayedInit == Init => Replayed
<1> SUFFICES ASSUME Init PROVE Replayed
  OBVIOUS
<1>1. /\ pc = "block" /\ dblock = Begin(BlockRange(cfg)) /\ delem = Begin(BlockRange(cfg))
      /\ dused = <<>> /\ dlog = <<>> /\ used = <<>> /\ log = <<>> /\ current_index = 0
      /\ coeffs = [m \in Fitted(cfg) |-> <<>>]
      /\ regression_coeff_index = [m \in Fitted(cfg) |-> 0]
      /\ current_coeffs = [m \in Fitted(cfg) |-> 0]
  BY DEF Init, Fitted
<1>2. Len(dused) = 0 /\ Len(dlog) = 0 /\ Len(used) = 0 /\ Len(log) = 0 /\ pc # "delement"
  BY <1>1
<1>3. Walk(cfg)[DecSteps] = There
  <2>1. 2 * Len(dused) + Len(dlog) - 0 = 0
    BY <1>2
  <2>2. DecSteps = 0
    BY <1>2, <2>1, Zenon DEF DecSteps
  <2>3. (pc = "delement") = FALSE
    BY <1>2
  <2>4. There = Outset(cfg)
    BY <1>1, <1>2, <2>3, Zenon DEF There, Outset
  <2> QED
    BY <2>2, <2>4, WalkIs
<1>4. \A m \in Fitted(cfg) : Cursor(m)
  BY <1>1, <1>2 DEF Cursor
<1> QED
  BY <1>1, <1>2, <1>3, <1>4 DEF Replayed, Unread, Encoding, Begins

\* Where the decoder is, the encoder has been.
LEMMA Ahead ==
  ASSUME Typed, Walked, Replayed, pc \in {"dblock", "delement"},
         ~(pc = "dblock" /\ AtEnd(BlockRange(cfg), dblock))
  PROVE  /\ DecSteps \in Nat /\ EncSteps \in Nat /\ DecSteps < EncSteps
         /\ pc = "dblock" => StartedAs(Len(dused) + 1, ElementRange(cfg, dblock))
         /\ pc = "delement" /\ ~AtEnd(ElementRange(cfg, dblock), delem) =>
              /\ Len(dlog) + 1 \in 1 .. Len(log)
              /\ log[Len(dlog) + 1] =
                   {Event(cfg, ElementRange(cfg, dblock), delem, used[Len(dused)].by)}
<1>1. Len(used) \in Nat /\ Len(log) \in Nat /\ Len(dused) \in Nat /\ Len(dlog) \in Nat
  BY LengthIs DEF Typed
<1>2. DecSteps \in Nat /\ EncSteps \in Nat
  BY <1>1 DEF DecSteps, EncSteps, Replayed, Walked
<1>3. DecSteps <= EncSteps /\ Walk(cfg)[DecSteps] = There
  BY DEF Replayed, Unread, Encoding
<1>4. DecSteps # EncSteps
  <2>1. pc # "element" /\ AtEnd(BlockRange(cfg), block) /\ Walk(cfg)[EncSteps] = Here
    BY DEF Walked, Encoding
  <2>2. Here.inside = FALSE /\ Here.block = block
    BY <2>1 DEF Here
  <2>3. There.inside = (pc = "delement") /\ There.block = dblock
    BY DEF There
  <2>4. SUFFICES ASSUME There = Here PROVE FALSE
    BY <1>3, <2>1
  <2>5. pc = "dblock" /\ dblock = block
    BY <2>2, <2>3, <2>4
  <2> QED
    BY <2>1, <2>5
<1>5. DecSteps < EncSteps /\ DecSteps \in 0 .. EncSteps - 1
  BY <1>2, <1>3, <1>4
<1>6. Passed(DecSteps)
  BY <1>5 DEF Walked
<1>7. PICK w : w = There
  OBVIOUS
<1>8. /\ w.inside = (pc = "delement") /\ w.block = dblock /\ w.elem = delem
      /\ w.started = Len(dused) /\ w.coded = Len(dlog) /\ w = Walk(cfg)[DecSteps]
  BY <1>3, <1>7 DEF There
<1>9. /\ ~w.inside => StartedAs(w.started + 1, ElementRange(cfg, w.block))
      /\ w.inside /\ ~AtEnd(ElementRange(cfg, w.block), w.elem) =>
           /\ w.coded + 1 \in 1 .. Len(log)
           /\ log[w.coded + 1] =
                {Event(cfg, ElementRange(cfg, w.block), w.elem, used[w.started].by)}
  BY <1>6, <1>8 DEF Passed
<1>10. pc = "dblock" => StartedAs(Len(dused) + 1, ElementRange(cfg, dblock))
  BY <1>8, <1>9
<1>11. pc = "delement" /\ ~AtEnd(ElementRange(cfg, dblock), delem) =>
         /\ Len(dlog) + 1 \in 1 .. Len(log)
         /\ log[Len(dlog) + 1] =
              {Event(cfg, ElementRange(cfg, dblock), delem, used[Len(dused)].by)}
  BY <1>8, <1>9
<1> QED
  BY <1>2, <1>5, <1>10, <1>11

\* The predictor the decoder takes for the next block.
Selected ==
  cfg.methods[IF Composed(cfg) THEN stream.selection[current_index + 1] ELSE 1]

\* It is the one the encoder had picked.
LEMMA SelectedIs ==
  ASSUME Typed, Walked, Replayed, NeverRefuses(cfg), pc = "dblock",
         ~AtEnd(BlockRange(cfg), dblock)
  PROVE  LET n     == Len(dused) + 1
             range == ElementRange(cfg, dblock)
         IN  /\ n \in 1 .. Len(used)
             /\ used[n] = IF Accepts(Selected, range)
                          THEN [by |-> Selected,
                                coeffs |-> IF Selected \in Regressions THEN n ELSE 0]
                          ELSE [by |-> "fallback", coeffs |-> 0]
             /\ Composed(cfg) => current_index < Len(stream.selection)
             /\ Selected \in Regressions => Selected \in Fitted(cfg)
<1> DEFINE n == Len(dused) + 1
           range == ElementRange(cfg, dblock)
<1>1. StartedAs(n, range)
  BY Ahead
<1>2. PICK sid \in Picks(cfg, range) :
         /\ Composed(cfg) /\ NeverRefuses(cfg) => n \in 1 .. Len(selection) /\ selection[n] = sid
         /\ used[n] = IF Accepts(cfg.methods[sid], range)
                      THEN [by |-> cfg.methods[sid],
                            coeffs |-> IF cfg.methods[sid] \in Regressions THEN n ELSE 0]
                      ELSE [by |-> "fallback", coeffs |-> 0]
  BY <1>1, Zenon DEF StartedAs
<1>3. n \in 1 .. Len(used)
  BY <1>1 DEF StartedAs
<1>4. stream.selection = selection /\ Len(dused) \in Nat /\ Len(selection) \in Nat
  BY LengthIs DEF Typed, Unread, Encoding
<1>5. Selected = cfg.methods[sid] /\ (Composed(cfg) => current_index < Len(stream.selection))
  <2>1. CASE Composed(cfg)
    <3>1. current_index = Len(dused)
      BY <2>1 DEF Replayed
    <3> QED
      BY <1>2, <1>4, <2>1, <3>1 DEF Selected
  <2>2. CASE ~Composed(cfg)
    <3>1. sid = 1
      BY <2>2, PicksIs DEF Typed
    <3> QED
      BY <2>2, <3>1 DEF Selected
  <2> QED
    BY <2>1, <2>2
<1>6. Selected \in Regressions => Selected \in Fitted(cfg)
  BY <1>5, FittedIs DEF Typed
<1> HIDE DEF n, range
<1>7. used[n] = IF Accepts(Selected, range)
                THEN [by |-> Selected, coeffs |-> IF Selected \in Regressions THEN n ELSE 0]
                ELSE [by |-> "fallback", coeffs |-> 0]
  BY <1>2, <1>5
<1> QED
  BY <1>3, <1>5, <1>6, <1>7 DEF n, range

\* If it has coefficients they are next in its list, as a difference to those at hand.
LEMMA CursorAtNext ==
  ASSUME Typed, NEW m \in Fitted(cfg), Chained(m), Cursor(m), NEW n, n = Len(dused) + 1,
         n \in 1 .. Len(used), used[n].by = m
  PROVE  LET l == coeffs[m]
             k == regression_coeff_index[m]
         IN  /\ k \in Nat /\ k < Len(l)
             /\ l[k + 1].cur = n /\ l[k + 1].prev = current_coeffs[m]
             /\ \A j \in 1 .. Len(l) : l[j].cur <= n <=> j <= k + 1
<1> PICK l : l = coeffs[m]
  OBVIOUS
<1> PICK k : k = regression_coeff_index[m]
  OBVIOUS
<1>1. Len(dused) \in Nat /\ Len(used) \in Nat /\ l \in Seq(Entry)
  BY LengthIs DEF Typed
<1>2. Len(l) \in Nat /\ \A j \in 1 .. Len(l) : l[j] \in Entry
  BY <1>1
<1>3. \A j \in 1 .. Len(l) : l[j].cur \in Int
  BY <1>2 DEF Entry
<1>4. /\ k \in 0 .. Len(l) /\ current_coeffs[m] = IF k = 0 THEN 0 ELSE l[k].cur
      /\ \A j \in 1 .. Len(l) : l[j].cur <= Len(dused) <=> j <= k
  BY DEF Cursor
<1>5. /\ \A i \in 1 .. Len(l) : /\ l[i].prev = IF i = 1 THEN 0 ELSE l[i - 1].cur
                                /\ \A j \in 1 .. i - 1 : l[j].cur < l[i].cur
      /\ \E j \in 1 .. Len(l) : l[j].cur = n
  BY DEF Chained
<1>6. PICK j \in 1 .. Len(l) : l[j].cur = n
  BY <1>5
<1>7. j > k
  BY <1>1, <1>4, <1>6
<1>8. k + 1 \in 1 .. Len(l) /\ k \in Nat /\ k < Len(l)
  BY <1>2, <1>4, <1>6, <1>7
<1>9. l[k + 1].cur >= n
  <2>1. ~(l[k + 1].cur <= Len(dused))
    BY <1>4, <1>8
  <2> QED
    BY <1>1, <1>3, <1>8, <2>1
<1>10. j = k + 1
  <2>1. SUFFICES ASSUME k + 1 < j PROVE FALSE
    BY <1>7, <1>8
  <2>2. k + 1 \in 1 .. j - 1
    BY <1>8, <2>1
  <2>3. l[k + 1].cur < l[j].cur
    BY <1>5, <2>2
  <2> QED
    BY <1>1, <1>3, <1>6, <1>8, <1>9, <2>3
<1>11. l[k + 1].prev = current_coeffs[m]
  <2>1. l[k + 1].prev = IF k + 1 = 1 THEN 0 ELSE l[(k + 1) - 1].cur
    BY <1>5, <1>8
  <2>2. (k + 1) - 1 = k /\ (k + 1 = 1 <=> k = 0)
    BY <1>8
  <2> QED
    BY <1>4, <2>1, <2>2
<1>12. ASSUME NEW i \in 1 .. Len(l) PROVE l[i].cur <= n <=> i <= k + 1
  <2>1. CASE i < k + 1
    <3>1. i \in 1 .. (k + 1) - 1
      BY <1>8, <2>1
    <3>2. l[i].cur < l[k + 1].cur
      BY <1>5, <1>8, <3>1
    <3> QED
      BY <1>1, <1>3, <1>6, <1>8, <1>10, <2>1, <3>2
  <2>2. CASE i = k + 1
    BY <1>1, <1>6, <1>10, <2>2
  <2>3. CASE i > k + 1
    <3>1. k + 1 \in 1 .. i - 1
      BY <1>8, <2>3
    <3>2. l[k + 1].cur < l[i].cur
      BY <1>5, <3>1
    <3> QED
      BY <1>1, <1>3, <1>6, <1>8, <1>10, <2>3, <3>2
  <2> QED
    BY <1>8, <2>1, <2>2, <2>3
<1> QED
  BY <1>6, <1>8, <1>10, <1>11, <1>12

\* A block of another predictor leaves the cursor where it is.
LEMMA CursorBefore ==
  ASSUME Typed, NEW m \in Fitted(cfg), Chained(m), Cursor(m), NEW n, n = Len(dused) + 1,
         n \in 1 .. Len(used), used[n].by # m
  PROVE  \A j \in 1 .. Len(coeffs[m]) : coeffs[m][j].cur <= n <=> j <= regression_coeff_index[m]
<1> SUFFICES ASSUME NEW j \in 1 .. Len(coeffs[m])
             PROVE  coeffs[m][j].cur <= n <=> coeffs[m][j].cur <= Len(dused)
  BY DEF Cursor
<1>1. Len(dused) \in Nat /\ Len(used) \in Nat
  BY LengthIs DEF Typed
<1>2. coeffs[m][j].cur \in 1 .. Len(used) /\ used[coeffs[m][j].cur].by = m
  BY DEF Chained
<1> QED
  BY <1>1, <1>2

\* What the encoder appends is ahead of the decoder.
LEMMA CursorWaits ==
  ASSUME Typed, NEW m \in Fitted(cfg), Cursor(m), Begins(dused, used),
         NEW e \in Entry, e.cur = Len(used) + 1,
         coeffs'[m] \in {coeffs[m], Append(coeffs[m], e)},
         UNCHANGED <<dused, current_coeffs, regression_coeff_index>>
  PROVE  Cursor(m)'
<1> PICK l : l = coeffs[m]
  OBVIOUS
<1> PICK r : r = coeffs'[m]
  OBVIOUS
<1> PICK k : k = regression_coeff_index[m]
  OBVIOUS
<1>1. Len(dused) \in Nat /\ Len(used) \in Nat /\ l \in Seq(Entry) /\ Len(dused) <= Len(used)
  BY LengthIs DEF Typed, Begins
<1>2. /\ Len(l) \in Nat /\ Len(r) \in {Len(l), Len(l) + 1}
      /\ \A i \in 1 .. Len(l) : r[i] = l[i]
      /\ Len(r) = Len(l) + 1 => r[Len(l) + 1] = e
  BY <1>1
<1>3. /\ k \in 0 .. Len(l) /\ current_coeffs[m] = IF k = 0 THEN 0 ELSE l[k].cur
      /\ \A j \in 1 .. Len(l) : l[j].cur <= Len(dused) <=> j <= k
  BY DEF Cursor
<1>4. k \in 0 .. Len(r) /\ current_coeffs[m] = IF k = 0 THEN 0 ELSE r[k].cur
  <2>1. k # 0 => k \in 1 .. Len(l)
    BY <1>2, <1>3
  <2> QED
    BY <1>2, <1>3, <2>1
<1>5. ASSUME NEW j \in 1 .. Len(r) PROVE r[j].cur <= Len(dused) <=> j <= k
  <2>1. CASE j \in 1 .. Len(l)
    BY <1>2, <1>3, <2>1
  <2>2. CASE j \notin 1 .. Len(l)
    <3>1. j = Len(l) + 1 /\ r[j] = e
      BY <1>2, <2>2
    <3> QED
      BY <1>1, <1>2, <1>3, <3>1
  <2> QED
    BY <2>1, <2>2
<1> QED
  BY <1>4, <1>5 DEF Cursor

\* The encoder's steps do not concern the decoder.
LEMMA ReplayWaits ==
  ASSUME Typed, Typed', Replayed, AllChained, cfg' = cfg, Unread' = Unread,
         pc \in Encoding, pc' \in Unread, Begins(used, used'), Begins(log, log'),
         UNCHANGED decVars,
         \A m \in Fitted(cfg) :
           coeffs'[m] = coeffs[m]
             \/ coeffs'[m] = Append(coeffs[m], [prev |-> prev_coeffs[m], cur |-> Len(used) + 1])
  PROVE  Replayed'
<1>1. /\ Len(used) \in Nat /\ Len(used') \in Nat /\ Len(log) \in Nat /\ Len(log') \in Nat
      /\ Len(dused) = 0 /\ Len(dlog) = 0
  BY LengthIs DEF Typed, Replayed, Unread
<1>2. UNCHANGED <<dblock, delem, current_index, current_coeffs, regression_coeff_index, dused, dlog>>
  BY DEF decVars
<1>3. DecSteps' = DecSteps /\ There' = There
  BY <1>2 DEF DecSteps, There, Unread, Encoding
<1>4. Begins(dused', used') /\ Begins(dlog', log')
  BY <1>1, <1>2 DEF Begins
<1>5. ASSUME NEW m \in Fitted(cfg) PROVE Cursor(m)'
  <2>1. [prev |-> prev_coeffs[m], cur |-> Len(used) + 1] \in Entry
    BY <1>1 DEF Typed, Entry
  <2>2. PICK e \in Entry : e = [prev |-> prev_coeffs[m], cur |-> Len(used) + 1]
    BY <2>1
  <2>3. coeffs'[m] \in {coeffs[m], Append(coeffs[m], e)}
    BY <2>2
  <2>4. Cursor(m) /\ Begins(dused, used)
    BY DEF Replayed
  <2> QED
    BY <1>2, <2>2, <2>3, <2>4, CursorWaits
<1> QED
  BY <1>1, <1>2, <1>3, <1>4, <1>5 DEF Replayed, Unread, Encoding

\* A step of the decoder's takes its walk one further.
LEMMA ReplayedOn ==
  ASSUME Typed, Walked, Replayed, pc \in {"dblock", "delement"},
         ~(pc = "dblock" /\ AtEnd(BlockRange(cfg), dblock)),
         UNCHANGED <<cfg, stream, encVars>>, pc' \in {"dblock", "delement"},
         DecSteps' = DecSteps + 1, There' = WalkOn(cfg, There)
  PROVE  Walk(cfg')[DecSteps'] = There' /\ DecSteps' <= EncSteps'
<1>1. DecSteps \in Nat /\ EncSteps \in Nat /\ DecSteps < EncSteps
  BY Ahead
<1>2. Walk(cfg')[DecSteps'] = There'
  BY <1>1, WalkIs DEF Replayed
<1>3. EncSteps' = EncSteps
  BY DEF EncSteps, encVars
<1> QED
  BY <1>1, <1>2, <1>3

\* A block is decoded as it was coded.
LEMMA DecodeStartReplays ==
  ASSUME Typed, Typed', Walked, AllChained, Replayed, NeverRefuses(cfg), DecodeStartBlock
  PROVE  Replayed'
<1> PICK n : n = Len(dused) + 1
  OBVIOUS
<1> PICK range : range = ElementRange(cfg, dblock)
  OBVIOUS
<1> PICK by : by = Selected
  OBVIOUS
<1>1. /\ pc = "dblock" /\ pc' = "delement" /\ ~AtEnd(BlockRange(cfg), dblock)
      /\ current_index' = IF Composed(cfg) THEN current_index + 1 ELSE current_index
      /\ delem' = Begin(range)
      /\ UNCHANGED <<cfg, stream, dblock, dlog, encVars>>
  BY DEF DecodeStartBlock
<1>2. IF by \in Regressions /\ Accepts(by, range)
      THEN /\ current_coeffs' = [current_coeffs EXCEPT ![by] =
                Recovered(stream.coeffs[by][regression_coeff_index[by] + 1], @)]
           /\ regression_coeff_index' = [regression_coeff_index EXCEPT ![by] = @ + 1]
           /\ dused' = Append(dused, [by |-> by, coeffs |-> current_coeffs'[by]])
      ELSE /\ dused' = Append(dused, [by |-> IF Accepts(by, range) THEN by ELSE "fallback",
                                      coeffs |-> 0])
           /\ UNCHANGED <<current_coeffs, regression_coeff_index>>
  BY Zenon DEF DecodeStartBlock, Selected
<1>3. /\ n \in 1 .. Len(used)
      /\ used[n] = IF Accepts(by, range)
                   THEN [by |-> by, coeffs |-> IF by \in Regressions THEN n ELSE 0]
                   ELSE [by |-> "fallback", coeffs |-> 0]
      /\ by \in Regressions => by \in Fitted(cfg)
  BY <1>1, SelectedIs
<1>4. /\ Len(dused) \in Nat /\ Len(used) \in Nat /\ Len(dlog) \in Nat
      /\ stream.coeffs = coeffs /\ used' = used /\ log' = log /\ coeffs' = coeffs
  BY <1>1, LengthIs DEF Typed, Unread, Encoding, encVars
<1>5. \A m \in Fitted(cfg) : Chained(m) /\ Cursor(m)
  BY DEF AllChained, Replayed
<1>6. /\ dused' = Append(dused, used[n])
      /\ \A m \in Fitted(cfg) : Len(dused') = n => Cursor(m)'
  <2>1. CASE by \in Regressions /\ Accepts(by, range)
    <3> PICK l : l = coeffs[by]
      OBVIOUS
    <3> PICK k : k = regression_coeff_index[by]
      OBVIOUS
    <3>1. by \in Fitted(cfg) /\ used[n] = [by |-> by, coeffs |-> n] /\ used[n].by = by
      BY <1>3, <2>1
    <3>2. /\ k \in Nat /\ k < Len(l)
          /\ l[k + 1].cur = n /\ l[k + 1].prev = current_coeffs[by]
          /\ \A j \in 1 .. Len(l) : l[j].cur <= n <=> j <= k + 1
      BY <1>3, <1>5, <3>1, CursorAtNext
    <3>3. /\ current_coeffs' = [current_coeffs EXCEPT ![by] = Recovered(l[k + 1], @)]
          /\ regression_coeff_index' = [regression_coeff_index EXCEPT ![by] = @ + 1]
          /\ dused' = Append(dused, [by |-> by, coeffs |-> current_coeffs'[by]])
      BY <1>2, <1>4, <2>1
    <3>4. Recovered(l[k + 1], current_coeffs[by]) = n
      BY <3>2 DEF Recovered
    <3>5. by \in DOMAIN current_coeffs /\ by \in DOMAIN regression_coeff_index
      BY <3>1 DEF Typed
    <3>6. current_coeffs'[by] = n /\ regression_coeff_index'[by] = k + 1
      BY <3>3, <3>4, <3>5
    <3>7. \A m \in Fitted(cfg) \ {by} : /\ current_coeffs'[m] = current_coeffs[m]
                                        /\ regression_coeff_index'[m] = regression_coeff_index[m]
      BY <3>3 DEF Typed
    <3>8. ASSUME NEW m \in Fitted(cfg), Len(dused') = n PROVE Cursor(m)'
      <4>1. CASE m = by
        <5>1. k + 1 \in 0 .. Len(l) /\ k + 1 # 0
          <6>1. Len(l) \in Nat
            BY <3>1 DEF Typed
          <6> QED
            BY <3>2, <6>1
        <5> QED
          BY <1>4, <3>2, <3>6, <3>8, <4>1, <5>1 DEF Cursor
      <4>2. CASE m # by
        <5>1. \A j \in 1 .. Len(coeffs[m]) : coeffs[m][j].cur <= n <=> j <= regression_coeff_index[m]
          BY <1>3, <1>5, <3>1, <4>2, CursorBefore
        <5> QED
          BY <1>4, <1>5, <3>7, <3>8, <4>2, <5>1 DEF Cursor
      <4> QED
        BY <4>1, <4>2
    <3> QED
      BY <3>1, <3>3, <3>6, <3>8
  <2>2. CASE ~(by \in Regressions /\ Accepts(by, range))
    <3>1. dused' = Append(dused, used[n]) /\ UNCHANGED <<current_coeffs, regression_coeff_index>>
      BY <1>2, <1>3, <2>2
    <3>2. ASSUME NEW m \in Fitted(cfg), Len(dused') = n PROVE Cursor(m)'
      <4>1. used[n].by # m
        BY <1>3, <2>2 DEF Fitted, Regressions
      <4>2. \A j \in 1 .. Len(coeffs[m]) : coeffs[m][j].cur <= n <=> j <= regression_coeff_index[m]
        BY <1>3, <1>5, <4>1, CursorBefore
      <4> QED
        BY <1>4, <1>5, <3>1, <3>2, <4>2 DEF Cursor
    <3> QED
      BY <3>1, <3>2
  <2> QED
    BY <2>1, <2>2
<1>7. /\ Len(dused') = n /\ dused'[n] = used[n]
      /\ \A i \in 1 .. Len(dused) : dused'[i] = dused[i]
  BY <1>6, AppendIs DEF Typed
<1>8. Begins(dused', used') /\ Begins(dlog', log')
  <2>1. \A i \in 1 .. n : i \in 1 .. Len(dused) \/ i = n
    BY <1>4
  <2>2. Begins(dused, used) /\ Begins(dlog, log)
    BY DEF Replayed
  <2>3. \A i \in 1 .. n : dused'[i] = used[i]
    BY <1>7, <2>1, <2>2 DEF Begins
  <2>4. Len(dused') <= Len(used)
    BY <1>3, <1>4, <1>7
  <2> QED
    BY <1>1, <1>4, <1>7, <2>2, <2>3, <2>4 DEF Begins
<1>9. DecSteps' = DecSteps + 1
  BY <1>1, <1>4, <1>7 DEF DecSteps
<1>10. There' = WalkOn(cfg, There)
  BY <1>1, <1>7 DEF There, WalkOn
<1>11. Walk(cfg')[DecSteps'] = There' /\ DecSteps' <= EncSteps'
  BY <1>1, <1>9, <1>10, ReplayedOn
<1>12. current_index' = IF Composed(cfg) THEN Len(dused') ELSE 0
  BY <1>1, <1>7 DEF Replayed
<1>13. n >= 1
  BY <1>4
<1> QED
  BY <1>1, <1>6, <1>7, <1>8, <1>11, <1>12, <1>13 DEF Replayed, Unread, Encoding

\* An element is decoded as it was coded.
LEMMA DecodeElementReplays ==
  ASSUME Typed, Typed', Walked, Replayed, DecodeElement
  PROVE  Replayed'
<1>1. /\ pc = "delement" /\ pc' = pc /\ ~AtEnd(ElementRange(cfg, dblock), delem)
      /\ dlog' = Append(dlog, {Event(cfg, ElementRange(cfg, dblock), delem, dused[Len(dused)].by)})
      /\ delem' = Increment(ElementRange(cfg, dblock), delem)
      /\ UNCHANGED <<cfg, stream, dblock, current_index, current_coeffs,
                     regression_coeff_index, dused, encVars>>
  BY DEF DecodeElement
<1>2. UNCHANGED <<used, log, coeffs>>
  BY <1>1 DEF encVars
<1>3. Len(dused) \in Nat /\ Len(dlog) \in Nat /\ Len(log) \in Nat /\ Len(used) \in Nat
  BY LengthIs DEF Typed
<1>4. Begins(dused, used) /\ Begins(dlog, log) /\ Len(dused) >= 1
  BY <1>1 DEF Replayed
<1>5. dused[Len(dused)] = used[Len(dused)]
  BY <1>3, <1>4 DEF Begins
<1>6. /\ Len(dlog) + 1 \in 1 .. Len(log)
      /\ log[Len(dlog) + 1] =
           {Event(cfg, ElementRange(cfg, dblock), delem, used[Len(dused)].by)}
  BY <1>1, Ahead
<1>7. dlog' = Append(dlog, log[Len(dlog) + 1])
  BY <1>1, <1>5, <1>6
<1>8. /\ Len(dlog') = Len(dlog) + 1 /\ dlog'[Len(dlog) + 1] = log[Len(dlog) + 1]
      /\ \A i \in 1 .. Len(dlog) : dlog'[i] = dlog[i]
  BY <1>7, AppendIs DEF Typed
<1>9. Begins(dlog', log') /\ Begins(dused', used')
  <2>1. \A i \in 1 .. Len(dlog') : i \in 1 .. Len(dlog) \/ i = Len(dlog) + 1
    BY <1>3, <1>8
  <2>2. \A i \in 1 .. Len(dlog') : dlog'[i] = log[i]
    BY <1>4, <1>8, <2>1 DEF Begins
  <2>3. Len(dlog') <= Len(log)
    BY <1>3, <1>6, <1>8
  <2>4. Begins(dlog', log')
    BY <1>2, <2>2, <2>3 DEF Begins
  <2>5. Begins(dused', used')
    BY <1>1, <1>2, <1>4 DEF Begins
  <2> QED
    BY <2>4, <2>5
<1>10. DecSteps' = DecSteps + 1
  BY <1>1, <1>3, <1>8 DEF DecSteps
<1>11. There' = WalkOn(cfg, There)
  BY <1>1, <1>8 DEF There, WalkOn
<1>12. Walk(cfg')[DecSteps'] = There' /\ DecSteps' <= EncSteps'
  BY <1>1, <1>10, <1>11, ReplayedOn
<1>13. \A m \in Fitted(cfg) : Cursor(m)'
  BY <1>1, <1>2 DEF Cursor, Replayed
<1> QED
  BY <1>1, <1>4, <1>9, <1>12, <1>13 DEF Replayed, Unread, Encoding

\* So is the step to the next block.
LEMMA DecodeNextReplays ==
  ASSUME Typed, Typed', Walked, Replayed, DecodeNextBlock
  PROVE  Replayed'
<1>1. /\ pc = "delement" /\ pc' = "dblock" /\ AtEnd(ElementRange(cfg, dblock), delem)
      /\ dblock' = Increment(BlockRange(cfg), dblock)
      /\ UNCHANGED <<cfg, stream, delem, current_index, current_coeffs,
                     regression_coeff_index, dused, dlog, encVars>>
  BY DEF DecodeNextBlock
<1>2. UNCHANGED <<used, log, coeffs>>
  BY <1>1 DEF encVars
<1>3. Len(dused) \in Nat /\ Len(dlog) \in Nat
  BY LengthIs DEF Typed
<1>4. DecSteps' = DecSteps + 1
  BY <1>1, <1>3 DEF DecSteps
<1>5. There' = WalkOn(cfg, There)
  BY <1>1 DEF There, WalkOn
<1>6. Walk(cfg')[DecSteps'] = There' /\ DecSteps' <= EncSteps'
  BY <1>1, <1>4, <1>5, ReplayedOn
<1>7. \A m \in Fitted(cfg) : Cursor(m)'
  BY <1>1, <1>2 DEF Cursor, Replayed
<1>8. Begins(dused', used') /\ Begins(dlog', log')
  BY <1>1, <1>2 DEF Replayed, Begins
<1> QED
  BY <1>1, <1>6, <1>7, <1>8 DEF Replayed, Unread, Encoding

\* When the decoder returns it has come as far as the encoder.
LEMMA ReturnReplays ==
  ASSUME Typed, Walked, Replayed, Return
  PROVE  Replayed'
<1>1. /\ pc = "dblock" /\ pc' = "done" /\ AtEnd(BlockRange(cfg), dblock)
      /\ UNCHANGED <<cfg, stream, encVars, decVars>>
  BY DEF Return
<1>2. Len(used) \in Nat /\ Len(log) \in Nat /\ Len(dused) \in Nat /\ Len(dlog) \in Nat
  BY LengthIs DEF Typed
<1>3. DecSteps \in Nat /\ EncSteps \in Nat /\ DecSteps <= EncSteps
  BY <1>1, <1>2 DEF DecSteps, EncSteps, Replayed, Walked, Unread, Encoding
<1>4. DecSteps = EncSteps
  <2>1. SUFFICES ASSUME DecSteps # EncSteps PROVE FALSE
    OBVIOUS
  <2>2. DecSteps \in 0 .. EncSteps - 1
    BY <1>3, <2>1
  <2>3. Passed(DecSteps) /\ Walk(cfg)[DecSteps] = There
    BY <2>2 DEF Walked, Replayed
  <2>4. PICK w : w = There
    OBVIOUS
  <2>5. w.inside = FALSE /\ w.block = dblock
    BY <1>1, <2>4 DEF There
  <2> QED
    BY <1>1, <2>3, <2>4, <2>5 DEF Passed
<1>5. UNCHANGED <<used, log, coeffs, dused, dlog, dblock, delem, current_index, current_coeffs,
                  regression_coeff_index>>
  BY <1>1 DEF encVars, decVars
<1>6. DecSteps' = DecSteps /\ EncSteps' = EncSteps /\ There' = There
  BY <1>1, <1>5 DEF DecSteps, EncSteps, There
<1>7. \A m \in Fitted(cfg) : Cursor(m)'
  BY <1>5 DEF Cursor, Replayed
<1>8. Begins(dused', used') /\ Begins(dlog', log')
  BY <1>5 DEF Replayed, Begins
<1> QED
  BY <1>1, <1>3, <1>4, <1>5, <1>6, <1>7, <1>8 DEF Replayed, Unread, Encoding

\* Every step keeps decompress behind compress.
LEMMA ReplayedNext ==
  ASSUME Typed, Typed', Walked, AllChained, Replayed, NeverRefuses(cfg), [Next]_vars
  PROVE  Replayed'
<1>1. CASE StartBlock
  <2>1. /\ pc = "block" /\ pc' = "element" /\ cfg' = cfg /\ log' = log /\ UNCHANGED decVars
        /\ \E e : used' = Append(used, e)
        /\ \E by : IF by \in Regressions THEN Commit(by, Len(used) + 1)
                                         ELSE UNCHANGED <<coeffs, prev_coeffs>>
    BY <1>1, Zenon DEF StartBlock
  <2>2. PICK by : IF by \in Regressions THEN Commit(by, Len(used) + 1)
                                        ELSE UNCHANGED <<coeffs, prev_coeffs>>
    BY <2>1
  <2>3. ASSUME NEW m \in Fitted(cfg)
        PROVE  coeffs'[m] = coeffs[m]
             \/ coeffs'[m] = Append(coeffs[m], [prev |-> prev_coeffs[m], cur |-> Len(used) + 1])
    <3>1. m \in DOMAIN coeffs
      BY DEF Typed
    <3>2. CASE by \in Regressions
      <4>1. coeffs' = [coeffs EXCEPT ![by] = Append(@, [prev |-> prev_coeffs[by], cur |-> Len(used) + 1])]
        BY <2>2, <3>2 DEF Commit
      <4> QED
        BY <3>1, <4>1
    <3>3. CASE by \notin Regressions
      BY <2>2, <3>3
    <3> QED
      BY <3>2, <3>3
  <2>4. Begins(used, used') /\ Begins(log, log')
    BY <2>1, BeginsIs DEF Typed
  <2> QED
    BY <2>1, <2>3, <2>4, ReplayWaits DEF Unread, Encoding
<1>2. CASE StartFallback
  <2>1. /\ pc = "block" /\ pc' = "element" /\ UNCHANGED <<cfg, log, coeffs, decVars>>
        /\ used' = Append(used, [by |-> "fallback", coeffs |-> 0])
    BY <1>2 DEF StartFallback
  <2>2. Begins(used, used') /\ Begins(log, log')
    BY <2>1, BeginsIs DEF Typed
  <2> QED
    BY <2>1, <2>2, ReplayWaits DEF Unread, Encoding
<1>3. CASE CodeElement
  <2>1. /\ pc = "element" /\ pc' = "element" /\ UNCHANGED <<cfg, used, coeffs, decVars>>
        /\ \E e : log' = Append(log, e)
    BY <1>3 DEF CodeElement
  <2>2. Begins(used, used') /\ Begins(log, log')
    BY <2>1, BeginsIs DEF Typed
  <2> QED
    BY <2>1, <2>2, ReplayWaits DEF Unread, Encoding
<1>4. CASE NextBlock \/ SaveExits
  <2>1. /\ pc \in Encoding /\ pc' \in Unread /\ UNCHANGED <<cfg, used, log, coeffs, decVars>>
    BY <1>4 DEF NextBlock, SaveExits, encVars, Unread, Encoding
  <2>2. Begins(used, used') /\ Begins(log, log')
    BY <2>1, BeginsIs DEF Typed
  <2> QED
    BY <2>1, <2>2, ReplayWaits DEF Unread, Encoding
<1>5. CASE Save
  <2>1. pc = "block" /\ pc' = "dblock" /\ UNCHANGED <<cfg, encVars, decVars>>
    BY <1>5 DEF Save
  <2>2. UNCHANGED <<used, log, coeffs, dused, dlog, dblock, delem, current_index, current_coeffs,
                    regression_coeff_index>>
    BY <2>1 DEF encVars, decVars
  <2>3. Len(used) \in Nat /\ Len(log) \in Nat /\ Len(dused) = 0 /\ Len(dlog) = 0
    BY <2>1, LengthIs DEF Typed, Replayed, Unread, Encoding
  <2>4. DecSteps' = DecSteps /\ There' = There /\ DecSteps' <= EncSteps'
    BY <2>1, <2>2, <2>3 DEF DecSteps, EncSteps, There
  <2>5. \A m \in Fitted(cfg) : Cursor(m)'
    BY <2>2 DEF Cursor, Replayed
  <2>6. Begins(dused', used') /\ Begins(dlog', log')
    BY <2>2 DEF Replayed, Begins
  <2> QED
    BY <2>1, <2>2, <2>4, <2>5, <2>6 DEF Replayed, Unread, Encoding
<1>6. CASE DecodeRunsOff
  <2>1. /\ pc = "dblock" /\ ~AtEnd(BlockRange(cfg), dblock) /\ ~InLists(ElementRange(cfg, dblock))
    BY <1>6 DEF DecodeRunsOff
  <2> PICK n : n = Len(dused) + 1
    OBVIOUS
  <2>2. /\ n \in 1 .. Len(used)
        /\ used[n] = IF Accepts(Selected, ElementRange(cfg, dblock))
                     THEN [by |-> Selected, coeffs |-> IF Selected \in Regressions THEN n ELSE 0]
                     ELSE [by |-> "fallback", coeffs |-> 0]
        /\ Composed(cfg) => current_index < Len(stream.selection)
        /\ Selected \in Regressions => Selected \in Fitted(cfg)
    BY <2>1, SelectedIs
  <2>3. ASSUME Selected \in Regressions, Accepts(Selected, ElementRange(cfg, dblock))
        PROVE  regression_coeff_index[Selected] < Len(stream.coeffs[Selected])
    <3> PICK m : m = Selected
      OBVIOUS
    <3>1. m \in Fitted(cfg) /\ used[n].by = m /\ Chained(m) /\ Cursor(m)
      BY <2>2, <2>3 DEF AllChained, Replayed
    <3>2. regression_coeff_index[m] < Len(coeffs[m])
      BY <2>2, <3>1, CursorAtNext
    <3>3. stream.coeffs = coeffs
      BY <2>1 DEF Typed, Unread, Encoding
    <3> QED
      BY <3>2, <3>3
  <2>4. InLists(ElementRange(cfg, dblock))
    BY <2>2, <2>3 DEF InLists, Selected
  <2> QED
    BY <2>1, <2>4
<1>7. CASE DecodeStartBlock
  BY <1>7, DecodeStartReplays
<1>8. CASE DecodeElement
  BY <1>8, DecodeElementReplays
<1>9. CASE DecodeNextBlock
  BY <1>9, DecodeNextReplays
<1>10. CASE Return
  BY <1>10, ReturnReplays
<1>11. CASE UNCHANGED vars
  <2>1. UNCHANGED <<pc, cfg, used, log, coeffs, dused, dlog, dblock, delem, current_index,
                    current_coeffs, regression_coeff_index>>
    BY <1>11 DEF vars, encVars, decVars
  <2>2. DecSteps' = DecSteps /\ EncSteps' = EncSteps /\ There' = There
    BY <2>1 DEF DecSteps, EncSteps, There
  <2>3. \A m \in Fitted(cfg) : Cursor(m)'
    BY <2>1 DEF Cursor, Replayed
  <2>4. Begins(dused', used') /\ Begins(dlog', log')
    BY <2>1 DEF Replayed, Begins
  <2> QED
    BY <2>1, <2>2, <2>3, <2>4 DEF Replayed, Unread, Encoding
<1> QED
  BY <1>1, <1>2, <1>3, <1>4, <1>5, <1>6, <1>7, <1>8, <1>9, <1>10, <1>11 DEF Next, Done

-----------------------------------------------------------------------------
(* Theorems about the lists.                                               *)

\* The inductive invariant.
ReplayInv == Typed /\ Walked /\ AllChained /\ (NeverRefuses(cfg) => Replayed)

\* compress and decompress of SZGeneralFrontend are always on the same walk over blocks
\* and elements; the picks and the coefficients compress keeps are those of the blocks it
\* walked, and decompress, where no predictor refuses, has read just those of the blocks
\* it has come to.
THEOREM InductiveReplay == Spec => []ReplayInv
<1>1. Init => ReplayInv
  BY TypedInit, WalkedInit, ChainedInit, ReplayedInit DEF ReplayInv
<1>2. ReplayInv /\ [Next]_vars => ReplayInv'
  <2> SUFFICES ASSUME ReplayInv, [Next]_vars PROVE ReplayInv'
    OBVIOUS
  <2>1. Typed /\ Walked /\ AllChained
    BY DEF ReplayInv
  <2>2. Typed'
    BY <2>1, TypedNext
  <2>3. Walked' /\ AllChained'
    BY <2>1, <2>2, WalkedNext, ChainedNext
  <2>4. NeverRefuses(cfg) => Replayed'
    BY <2>1, <2>2, ReplayedNext DEF ReplayInv
  <2>5. cfg' = cfg
    BY DEF Next, StartBlock, StartFallback, CodeElement, NextBlock, SaveExits, Save,
           DecodeRunsOff, DecodeStartBlock, DecodeElement, DecodeNextBlock, Return, Done, vars
  <2>6. NeverRefuses(cfg') => Replayed'
    BY <2>4, <2>5
  <2> QED
    BY <2>2, <2>3, <2>6 DEF ReplayInv
<1> QED
  BY <1>1, <1>2, PTL DEF Spec

\* Where no predictor refuses a block it is picked for, decompress never reads past the
\* end of selection or of regression_coeff_quant_inds, and takes for every block the
\* predictor and the coefficients compress took, though coefficients are kept as
\* differences and other predictors may have coded the blocks in between.
THEOREM AlwaysInStep == Spec => []InStep
<1>1. ReplayInv => InStep
  <2> SUFFICES ASSUME ReplayInv, NeverRefuses(cfg) PROVE BlocksAgree
    BY DEF InStep
  <2>1. pc # "undefined" /\ Begins(dused, used)
    BY DEF ReplayInv, Replayed
  <2>2. Len(used) \in Nat /\ Len(dused) \in Nat
    BY LengthIs DEF ReplayInv, Typed
  <2> QED
    BY <2>1, <2>2 DEF BlocksAgree, Begins
<1> QED
  BY <1>1, InductiveReplay, PTL

\* When decompress returns it has then used up selection and every list of coefficients:
\* compress stored none that is not read.
THEOREM AlwaysListsConsumed == Spec => []ListsConsumed
<1>1. ReplayInv => ListsConsumed
  <2> SUFFICES ASSUME ReplayInv, pc = "done", NeverRefuses(cfg)
               PROVE  /\ current_index = Len(selection)
                      /\ \A m \in DOMAIN coeffs : regression_coeff_index[m] = Len(coeffs[m])
    BY DEF ListsConsumed
  <2>1. Typed /\ Walked /\ AllChained /\ Replayed
    BY DEF ReplayInv
  <2>2. Here = There
    BY <2>1 DEF Walked, Replayed
  <2>3. Here.started = Len(used) /\ There.started = Len(dused)
    BY DEF Here, There
  <2>4. Len(dused) = Len(used)
    BY <2>2, <2>3
  <2>5. current_index = Len(selection)
    BY <2>1, <2>4 DEF Walked, Replayed
  <2>6. ASSUME NEW m \in DOMAIN coeffs PROVE regression_coeff_index[m] = Len(coeffs[m])
    <3>1. m \in Fitted(cfg) /\ Chained(m) /\ Cursor(m) /\ Len(coeffs[m]) \in Nat
      BY <2>1, <2>6 DEF Typed, AllChained, Replayed
    <3>2. \A j \in 1 .. Len(coeffs[m]) : j <= regression_coeff_index[m]
      <4> SUFFICES ASSUME NEW j \in 1 .. Len(coeffs[m]) PROVE j <= regression_coeff_index[m]
        OBVIOUS
      <4>1. coeffs[m][j].cur \in 1 .. Len(used) /\ Len(used) \in Nat
        BY <2>1, <3>1, LengthIs DEF Chained, Typed
      <4>2. coeffs[m][j].cur <= Len(dused)
        BY <2>4, <4>1
      <4> QED
        BY <3>1, <4>2 DEF Cursor
    <3>3. regression_coeff_index[m] \in 0 .. Len(coeffs[m])
      BY <3>1 DEF Cursor
    <3> QED
      BY <3>1, <3>2, <3>3
  <2> QED
    BY <2>5, <2>6
<1> QED
  BY <1>1, InductiveReplay, PTL

-----------------------------------------------------------------------------
(* Directions: induction over them, sums and strides.                      *)

\* What holds behind the last direction, and in front of each where it holds behind it,
\* holds everywhere.
LEMMA Backwards ==
  ASSUME NEW n \in Nat, NEW T, n + 1 \in T, \A d \in 1 .. n : d + 1 \in T => d \in T
  PROVE  \A d \in 1 .. n + 1 : d \in T
<1> DEFINE U == {k \in 0 .. n : n + 1 - k \notin T}
<1>1. SUFFICES ASSUME U # {} PROVE FALSE
  <2> SUFFICES ASSUME NEW d \in 1 .. n + 1, d \notin T PROVE U # {}
    BY <1>1
  <2>1. n + 1 - d \in 0 .. n /\ n + 1 - (n + 1 - d) = d
    OBVIOUS
  <2>2. n + 1 - (n + 1 - d) \notin T
    BY <2>1
  <2> QED
    BY <2>1, <2>2
<1>2. PICK k \in U : \A j \in U : k <= j
  <2>1. U \in SUBSET Nat
    OBVIOUS
  <2> QED
    BY <1>1, <2>1, Least
<1>3. k \in 1 .. n
  <2>1. k \in 0 .. n /\ n + 1 - k \notin T
    BY <1>2
  <2>2. k # 0
    BY <2>1
  <2> QED
    BY <2>1, <2>2
<1>4. k - 1 \in 0 .. n /\ ~(k <= k - 1) /\ n + 1 - (k - 1) = (n + 1 - k) + 1
  BY <1>3
<1>5. (n + 1 - k) + 1 \in T
  BY <1>2, <1>4
<1>6. n + 1 - k \in 1 .. n
  BY <1>3
<1>7. n + 1 - k \in T
  BY <1>5, <1>6
<1> QED
  BY <1>2, <1>7

\* And the other way round.
LEMMA Forwards ==
  ASSUME NEW n \in Nat, NEW T, 1 \in T, \A d \in 1 .. n - 1 : d \in T => d + 1 \in T
  PROVE  \A d \in 1 .. n : d \in T
<1> DEFINE U == {d \in 1 .. n : d \notin T}
<1>1. SUFFICES ASSUME U # {} PROVE FALSE
  BY <1>1
<1>2. PICK d \in U : \A e \in U : d <= e
  <2>1. U \in SUBSET Nat
    OBVIOUS
  <2> QED
    BY <1>1, <2>1, Least
<1>3. d # 1 /\ d \in 1 .. n /\ d \notin T
  BY <1>2
<1>4. d - 1 \in 1 .. n - 1 /\ d - 1 \in 1 .. n /\ ~(d <= d - 1) /\ (d - 1) + 1 = d
  BY <1>3
<1>5. d - 1 \in T
  BY <1>2, <1>4
<1> QED
  BY <1>3, <1>4, <1>5

\* A sum is its first term and the rest.
LEMMA SumIs ==
  ASSUME NEW n \in 0 .. 4, NEW f \in [1 .. n -> Int]
  PROVE  /\ SumFrom(f, n + 1) = 0
         /\ \A d \in 1 .. n : SumFrom(f, d) = f[d] + SumFrom(f, d + 1)
         /\ \A d \in 1 .. n + 1 : SumFrom(f, d) \in Int
<1> DEFINE Solves(g) == g = [d \in Nat |-> IF d \in DOMAIN f THEN f[d] + g[d + 1] ELSE 0]
           g == CHOOSE h : Solves(h)
           t(d) == IF d \in 1 .. n THEN f[d] ELSE 0
           w == [d \in Nat |-> IF d \in 1 .. n THEN t(d) + t(d + 1) + t(d + 2) + t(d + 3) ELSE 0]
<1>1. \A i : SumFrom(f, i) = g[i]
  BY Zenon DEF SumFrom
<1>2. Solves(w)
  <2>1. \A d \in Nat : t(d) \in Int
    OBVIOUS
  <2>2. \A d \in 1 .. n : t(d + 4) = 0 /\ f[d] = t(d)
    OBVIOUS
  <2>3. \A d \in Nat : d + 1 \in Nat /\ d + 2 \in Nat /\ d + 3 \in Nat /\ d + 4 \in Nat
    OBVIOUS
  <2>4. \A d \in Nat : w[d] = IF d \in 1 .. n THEN t(d) + t(d + 1) + t(d + 2) + t(d + 3) ELSE 0
    OBVIOUS
  <2>5. \A d \in 1 .. n : (d + 1) + 1 = d + 2 /\ (d + 1) + 2 = d + 3 /\ (d + 1) + 3 = d + 4
    OBVIOUS
  <2>6. ASSUME NEW d \in 1 .. n, d + 1 \notin 1 .. n
        PROVE  t(d + 1) = 0 /\ t(d + 2) = 0 /\ t(d + 3) = 0
    BY <2>6
  <2> HIDE DEF t, w
  <2>7. ASSUME NEW d \in 1 .. n PROVE w[d] = f[d] + w[d + 1]
    <3>1. d \in Nat /\ d + 1 \in Nat
      OBVIOUS
    <3>2. w[d] = t(d) + t(d + 1) + t(d + 2) + t(d + 3)
      BY <2>4, <3>1
    <3>3. w[d + 1] = t(d + 1) + t(d + 2) + t(d + 3)
      <4>1. CASE d + 1 \in 1 .. n
        <5>1. w[d + 1] = t(d + 1) + t((d + 1) + 1) + t((d + 1) + 2) + t((d + 1) + 3)
          BY <2>4, <3>1, <4>1
        <5>2. t((d + 1) + 3) = 0
          BY <2>2, <2>5
        <5>3. t(d + 1) \in Int /\ t(d + 2) \in Int /\ t(d + 3) \in Int
          BY <2>1, <2>3, <3>1
        <5>4. w[d + 1] = t(d + 1) + t(d + 2) + t(d + 3) + 0
          BY <2>5, <5>1, <5>2
        <5> QED
          BY <5>3, <5>4
      <4>2. CASE d + 1 \notin 1 .. n
        BY <2>4, <2>6, <3>1, <4>2
      <4> QED
        BY <4>1, <4>2
    <3>4. t(d + 1) \in Int /\ t(d + 2) \in Int /\ t(d + 3) \in Int /\ t(d) \in Int
      BY <2>1, <2>3, <3>1
    <3> QED
      BY <2>2, <3>2, <3>3, <3>4
  <2>8. \A d \in Nat : w[d] = IF d \in DOMAIN f THEN f[d] + w[d + 1] ELSE 0
    BY <2>4, <2>7
  <2>9. w = [d \in Nat |-> w[d]]
    BY DEF w
  <2> QED
    BY <2>8, <2>9
<1> HIDE DEF w, g, t
<1>3. g = [d \in Nat |-> IF d \in DOMAIN f THEN f[d] + g[d + 1] ELSE 0]
  <2>1. Solves(CHOOSE h : Solves(h))
    BY <1>2, Zenon
  <2> QED
    BY <2>1 DEF g
<1>4. \A d \in Nat : g[d] = IF d \in 1 .. n THEN f[d] + g[d + 1] ELSE 0
  BY <1>3
<1>5. g[n + 1] = 0 /\ \A d \in 1 .. n : g[d] = f[d] + g[d + 1]
  BY <1>4
<1>6. \A d \in 1 .. n + 1 : g[d] \in Int
  <2> DEFINE T == {d \in 1 .. n + 1 : g[d] \in Int}
  <2>1. n + 1 \in T /\ \A d \in 1 .. n : d + 1 \in T => d \in T
    BY <1>5
  <2> HIDE DEF T
  <2>2. \A d \in 1 .. n + 1 : d \in T
    BY <2>1, Backwards
  <2> QED
    BY <2>2 DEF T
<1> QED
  BY <1>1, <1>5, <1>6

\* h is the sum of f and g, term by term.
Adds(f, g, h, n) ==
  /\ n \in 0 .. 4
  /\ f \in [1 .. n -> Int] /\ g \in [1 .. n -> Int] /\ h \in [1 .. n -> Int]
  /\ \A d \in 1 .. n : h[d] = f[d] + g[d]

\* So are their sums.
LEMMA SumPlus ==
  ASSUME NEW n, NEW f, NEW g, NEW h, Adds(f, g, h, n)
  PROVE  \A d \in 1 .. n + 1 : SumFrom(h, d) = SumFrom(f, d) + SumFrom(g, d)
<1> DEFINE T == {d \in 1 .. n + 1 : SumFrom(h, d) = SumFrom(f, d) + SumFrom(g, d)}
<1>0. /\ n \in 0 .. 4 /\ n \in Nat /\ n + 1 \in 1 .. n + 1 /\ 0 + 0 = 0
      /\ f \in [1 .. n -> Int] /\ g \in [1 .. n -> Int] /\ h \in [1 .. n -> Int]
      /\ \A d \in 1 .. n : h[d] = f[d] + g[d]
  BY DEF Adds
<1>1. n + 1 \in T
  <2>1. SumFrom(h, n + 1) = 0 /\ SumFrom(f, n + 1) = 0 /\ SumFrom(g, n + 1) = 0
    BY <1>0, SumIs
  <2>2. SumFrom(h, n + 1) = SumFrom(f, n + 1) + SumFrom(g, n + 1)
    BY <2>1, <1>0
  <2> QED
    BY <1>0, <2>2
<1>2. ASSUME NEW d \in 1 .. n, d + 1 \in T PROVE d \in T
  <2>1. d \in 1 .. n + 1 /\ d + 1 \in 1 .. n + 1
    BY <1>0
  <2>2. SumFrom(h, d + 1) = SumFrom(f, d + 1) + SumFrom(g, d + 1)
    BY <1>2
  <2>3. /\ SumFrom(h, d) = h[d] + SumFrom(h, d + 1) /\ SumFrom(f, d) = f[d] + SumFrom(f, d + 1)
        /\ SumFrom(g, d) = g[d] + SumFrom(g, d + 1)
    BY <1>0, SumIs
  <2>4. /\ SumFrom(f, d + 1) \in Int /\ SumFrom(g, d + 1) \in Int /\ SumFrom(h, d + 1) \in Int
        /\ f[d] \in Int /\ g[d] \in Int /\ h[d] = f[d] + g[d]
    BY <1>0, <2>1, SumIs
  <2>5. SumFrom(h, d) = SumFrom(f, d) + SumFrom(g, d)
    BY <2>2, <2>3, <2>4
  <2> QED
    BY <2>1, <2>5
<1> HIDE DEF T
<1>3. \A d \in 1 .. n + 1 : d \in T
  BY <1>0, <1>1, <1>2, Backwards
<1> QED
  BY <1>3 DEF T

\* A sum of natural numbers is one.
LEMMA SumNat ==
  ASSUME NEW n \in 0 .. 4, NEW f \in [1 .. n -> Nat]
  PROVE  \A d \in 1 .. n + 1 : SumFrom(f, d) \in Nat
<1> DEFINE T == {d \in 1 .. n + 1 : SumFrom(f, d) \in Nat}
<1>0. f \in [1 .. n -> Int] /\ n \in Nat /\ n + 1 \in 1 .. n + 1
  OBVIOUS
<1>1. n + 1 \in T
  <2>1. SumFrom(f, n + 1) = 0
    BY <1>0, SumIs
  <2> QED
    BY <1>0, <2>1
<1>2. ASSUME NEW d \in 1 .. n, d + 1 \in T PROVE d \in T
  <2>1. SumFrom(f, d) = f[d] + SumFrom(f, d + 1) /\ f[d] \in Nat
    BY <1>0, SumIs
  <2> QED
    BY <1>2, <2>1
<1> HIDE DEF T
<1>3. \A d \in 1 .. n + 1 : d \in T
  BY <1>0, <1>1, <1>2, Backwards
<1> QED
  BY <1>3 DEF T

\* The array of a configuration.
LEMMA DimsAre ==
  ASSUME NEW c \in Configs
  PROVE  /\ Len(c.dims) \in 1 .. 4
         /\ Dims(c) = 1 .. Len(c.dims)
         /\ \A d \in Dims(c) : c.dims[d] \in Nat \ {0}
         /\ c.block_size \in Nat \ {0}
BY FrontendAssumption DEF IsConfig, Dims

\* The strides of a row-major array.
LEMMA StridesAre ==
  ASSUME NEW c \in Configs
  PROVE  /\ Strides(c) \in [Dims(c) -> Nat \ {0}]
         /\ Strides(c)[Len(c.dims)] = 1
         /\ \A d \in 1 .. Len(c.dims) - 1 : Strides(c)[d] = Strides(c)[d + 1] * c.dims[d + 1]
<1> DEFINE D == c.dims
           n == Len(c.dims)
           Solves(g) == g = [d \in Dims(c) |-> IF d = n THEN 1 ELSE g[d + 1] * D[d + 1]]
           w == [d \in Dims(c) |-> IF d = n THEN 1
                                   ELSE IF d = n - 1 THEN 1 * D[n]
                                   ELSE IF d = n - 2 THEN (1 * D[n]) * D[n - 1]
                                   ELSE ((1 * D[n]) * D[n - 1]) * D[n - 2]]
<1>1. n \in 1 .. 4 /\ Dims(c) = 1 .. n /\ \A d \in 1 .. n : D[d] \in Nat \ {0}
  BY DimsAre
<1> HIDE DEF D, n
<1>2. Strides(c) = CHOOSE g : Solves(g)
  BY Zenon DEF Strides, D, n
<1>3. Solves(w)
  <2>1. ASSUME NEW d \in 1 .. n PROVE w[d] = IF d = n THEN 1 ELSE w[d + 1] * D[d + 1]
    <3>1. CASE d = n
      BY <1>1, <3>1
    <3>2. CASE d = n - 1
      <4>1. d # n /\ d + 1 = n /\ d + 1 \in 1 .. n
        BY <1>1, <3>2
      <4> QED
        BY <1>1, <3>2, <4>1
    <3>3. CASE d = n - 2
      <4>1. d # n /\ d # n - 1 /\ d + 1 = n - 1 /\ d + 1 # n /\ d + 1 \in 1 .. n
        BY <1>1, <3>3
      <4>2. w[d] = (1 * D[n]) * D[n - 1] /\ w[d + 1] = 1 * D[n]
        BY <1>1, <3>3, <4>1
      <4> QED
        BY <4>1, <4>2
    <3>4. CASE d = n - 3
      <4>1. /\ d # n /\ d # n - 1 /\ d # n - 2 /\ d + 1 = n - 2 /\ d + 1 # n /\ d + 1 # n - 1
            /\ d + 1 \in 1 .. n
        BY <1>1, <3>4
      <4>2. w[d] = ((1 * D[n]) * D[n - 1]) * D[n - 2] /\ w[d + 1] = (1 * D[n]) * D[n - 1]
        BY <1>1, <3>4, <4>1
      <4> QED
        BY <4>1, <4>2
    <3> QED
      BY <1>1, <3>1, <3>2, <3>3, <3>4
  <2>2. w = [d \in Dims(c) |-> w[d]]
    OBVIOUS
  <2> HIDE DEF w
  <2> QED
    BY <1>1, <2>1, <2>2
<1> HIDE DEF w
<1>4. Strides(c) = [d \in Dims(c) |-> IF d = n THEN 1 ELSE Strides(c)[d + 1] * D[d + 1]]
  <2>1. Solves(CHOOSE g : Solves(g))
    BY <1>3, Zenon
  <2> QED
    BY <1>2, <2>1
<1> PICK S : S = Strides(c)
  OBVIOUS
<1>5. \A d \in 1 .. n : S[d] = IF d = n THEN 1 ELSE S[d + 1] * D[d + 1]
  BY <1>1, <1>4
<1>6. S[n] = 1 /\ \A d \in 1 .. n - 1 : S[d] = S[d + 1] * D[d + 1]
  BY <1>1, <1>5
<1>7. \A d \in 1 .. n : S[d] \in Nat \ {0}
  <2> DEFINE T == {d \in 1 .. n : S[d] \in Nat \ {0}}
  <2>1. n - 1 \in Nat /\ (n - 1) + 1 = n
    BY <1>1
  <2>2. (n - 1) + 1 \in T
    BY <1>1, <1>6
  <2>3. ASSUME NEW d \in 1 .. n - 1, d + 1 \in T PROVE d \in T
    <3>1. S[d + 1] \in Nat \ {0} /\ D[d + 1] \in Nat \ {0} /\ d \in 1 .. n
      BY <1>1, <2>3
    <3>2. S[d + 1] * D[d + 1] \in Nat \ {0}
      BY <3>1
    <3> QED
      BY <1>6, <3>1, <3>2
  <2> HIDE DEF T
  <2>4. \A d \in 1 .. (n - 1) + 1 : d \in T
    BY <2>1, <2>2, <2>3, Backwards
  <2> QED
    BY <2>1, <2>4 DEF T
<1>8. S = [d \in 1 .. n |-> S[d]]
  <2> DEFINE E(d) == IF d = n THEN 1 ELSE Strides(c)[d + 1] * D[d + 1]
  <2>1. S = [d \in 1 .. n |-> E(d)]
    BY <1>1, <1>4
  <2> HIDE DEF E
  <2> QED
    BY <2>1
<1>9. S \in [1 .. n -> Nat \ {0}]
  BY <1>7, <1>8
<1> QED
  BY <1>1, <1>6, <1>9 DEF D, n

-----------------------------------------------------------------------------
(* Places in the array: the offset of a point, given by its indices.       *)

\* What each index adds to the offset.
Along(c, p) == [d \in Dims(c) |-> p[d] * Strides(c)[d]]

\* The offset.
Place(c, p) == SumFrom(Along(c, p), 1)

\* All points of the array.
Points(c) == {p \in [Dims(c) -> Nat] : \A d \in Dims(c) : p[d] < c.dims[d]}

\* The terms of an offset.
LEMMA AlongIs ==
  ASSUME NEW c \in Configs, NEW p \in [Dims(c) -> Nat]
  PROVE  /\ Along(c, p) \in [1 .. Len(c.dims) -> Nat]
         /\ SumFrom(Along(c, p), Len(c.dims) + 1) = 0
         /\ \A d \in Dims(c) :
              SumFrom(Along(c, p), d) = p[d] * Strides(c)[d] + SumFrom(Along(c, p), d + 1)
         /\ \A d \in 1 .. Len(c.dims) + 1 : SumFrom(Along(c, p), d) \in Nat
<1> PICK n : n = Len(c.dims)
  OBVIOUS
<1> PICK S : S = Strides(c)
  OBVIOUS
<1> PICK f : f = Along(c, p)
  OBVIOUS
<1>1. n \in 1 .. 4 /\ n \in 0 .. 4 /\ Dims(c) = 1 .. n /\ S \in [1 .. n -> Nat \ {0}]
  BY DimsAre, StridesAre
<1>2. f = [d \in 1 .. n |-> p[d] * S[d]]
  BY <1>1 DEF Along
<1>3. \A d \in 1 .. n : p[d] * S[d] \in Nat
  BY <1>1
<1>4. f \in [1 .. n -> Nat] /\ f \in [1 .. n -> Int]
  BY <1>2, <1>3
<1>5. SumFrom(f, n + 1) = 0 /\ \A d \in 1 .. n : SumFrom(f, d) = f[d] + SumFrom(f, d + 1)
  BY <1>1, <1>4, SumIs
<1>6. \A d \in 1 .. n + 1 : SumFrom(f, d) \in Nat
  BY <1>1, <1>4, SumNat
<1> QED
  BY <1>1, <1>2, <1>4, <1>5, <1>6

\* What is behind a direction adds less than its stride.
LEMMA RestIs ==
  ASSUME NEW c \in Configs, NEW p \in [Dims(c) -> Nat], NEW i \in Dims(c),
         \A d \in Dims(c) : d > i => p[d] < c.dims[d]
  PROVE  SumFrom(Along(c, p), i + 1) \in 0 .. Strides(c)[i] - 1
<1> PICK n : n = Len(c.dims)
  OBVIOUS
<1> PICK S : S = Strides(c)
  OBVIOUS
<1> DEFINE R(d) == SumFrom(Along(c, p), d)
           T == {d \in 1 .. n + 1 : d > i => R(d) \in 0 .. S[d - 1] - 1}
<1>1. /\ n \in 1 .. 4 /\ n \in Nat /\ Dims(c) = 1 .. n /\ S \in [1 .. n -> Nat \ {0}]
      /\ S[n] = 1 /\ \A d \in 1 .. n - 1 : S[d] = S[d + 1] * c.dims[d + 1]
      /\ \A d \in 1 .. n : c.dims[d] \in Nat \ {0}
  BY DimsAre, StridesAre
<1>2. R(n + 1) = 0 /\ \A d \in 1 .. n : R(d) = p[d] * S[d] + R(d + 1)
  BY <1>1, AlongIs
<1> HIDE DEF R
<1>3. n + 1 \in T
  BY <1>1, <1>2
<1>4. ASSUME NEW d \in 1 .. n, d + 1 \in T PROVE d \in T
  <2>1. d \in 1 .. n + 1 /\ (d + 1) - 1 = d
    BY <1>1
  <2>2. SUFFICES ASSUME d > i PROVE R(d) \in 0 .. S[d - 1] - 1
    BY <2>1
  <2>3. R(d + 1) \in 0 .. S[d] - 1
    BY <1>4, <2>1, <2>2, <1>1
  <2>4. p[d] \in Nat /\ p[d] < c.dims[d] /\ S[d] \in Nat \ {0} /\ c.dims[d] \in Nat \ {0}
    BY <1>1, <2>2
  <2>5. p[d] * S[d] + R(d + 1) \in 0 .. S[d] * c.dims[d] - 1
    BY <2>3, <2>4, Digit
  <2>6. d - 1 \in 1 .. n - 1 /\ (d - 1) + 1 = d
    BY <1>1, <2>2
  <2>7. S[d - 1] = S[d] * c.dims[d]
    BY <1>1, <2>6
  <2> QED
    BY <1>2, <2>5, <2>7
<1> HIDE DEF T
<1>5. \A d \in 1 .. n + 1 : d \in T
  BY <1>1, <1>3, <1>4, Backwards
<1>6. i + 1 \in 1 .. n + 1 /\ i + 1 > i /\ (i + 1) - 1 = i
  BY <1>1
<1>7. R(i + 1) \in 0 .. S[(i + 1) - 1] - 1
  BY <1>5, <1>6 DEF T
<1> QED
  BY <1>6, <1>7 DEF R

\* The number of elements is a number.
LEMMA SizeIs == ASSUME NEW c \in Configs PROVE Size(c) \in Int
<1>1. 1 \in Dims(c) /\ c.dims[1] \in Int /\ Strides(c)[1] \in Int
  <2>1. 1 \in Dims(c)
    BY DimsAre
  <2> QED
    BY <2>1, DimsAre, StridesAre
<1> QED
  BY <1>1 DEF Size

\* A point is in the array, and its indices are the digits of its offset.
LEMMA DigitsAre ==
  ASSUME NEW c \in Configs, NEW p \in Points(c)
  PROVE  /\ Place(c, p) \in 0 .. Size(c) - 1
         /\ \A d \in Dims(c) : (Place(c, p) \div Strides(c)[d]) % c.dims[d] = p[d]
<1> PICK n : n = Len(c.dims)
  OBVIOUS
<1> PICK S : S = Strides(c)
  OBVIOUS
<1> PICK D : D = c.dims
  OBVIOUS
<1> PICK o : o = Place(c, p)
  OBVIOUS
<1> DEFINE R(d) == SumFrom(Along(c, p), d)
<1>1. /\ n \in 1 .. 4 /\ n \in Nat /\ Dims(c) = 1 .. n /\ S \in [1 .. n -> Nat \ {0}]
      /\ S[n] = 1 /\ \A d \in 1 .. n - 1 : S[d] = S[d + 1] * D[d + 1]
      /\ \A d \in 1 .. n : D[d] \in Nat \ {0}
  BY DimsAre, StridesAre
<1>0. n \in 1 .. 4 /\ 1 \in 1 .. n
  <2>1. n \in 1 .. 4
    BY DimsAre
  <2> QED
    BY <2>1
<1>2. p \in [1 .. n -> Nat] /\ \A d \in 1 .. n : p[d] < D[d]
  BY <1>1 DEF Points
<1>3. /\ \A d \in 1 .. n : R(d) = p[d] * S[d] + R(d + 1) /\ R(d + 1) \in 0 .. S[d] - 1
      /\ o = R(1)
  <2>1. p \in [Dims(c) -> Nat]
    BY <1>1, <1>2
  <2> QED
    BY <1>1, <1>2, <2>1, AlongIs, RestIs DEF Place
<1> HIDE DEF R
<1>4. o \in 0 .. S[1] * D[1] - 1
  <2>1. 1 \in 1 .. n
    BY <1>0
  <2>2. /\ p[1] \in Nat /\ p[1] < D[1] /\ S[1] \in Nat \ {0} /\ D[1] \in Nat \ {0}
        /\ R(1 + 1) \in 0 .. S[1] - 1 /\ R(1) = p[1] * S[1] + R(1 + 1)
    BY <1>1, <1>2, <1>3, <2>1
  <2>3. p[1] * S[1] + R(1 + 1) \in 0 .. S[1] * D[1] - 1
    BY <2>2, Digit
  <2> QED
    BY <1>3, <2>2, <2>3
\* Up to a direction, the offset is a multiple of the next stride.
<1> DEFINE T == {d \in 1 .. n : \E h \in Nat : o = h * (S[d] * D[d]) + R(d) /\ (d = 1 => h = 0)}
<1>5. \A d \in 1 .. n : d \in T
  <2>1. 1 \in T
    <3>1. S[1] \in Nat /\ D[1] \in Nat
      BY <1>0, <1>1
    <3>2. S[1] * D[1] \in Nat
      BY <3>1
    <3>3. o \in Int /\ R(1) = o
      BY <1>3, <1>4, <3>2
    <3>4. o = 0 * (S[1] * D[1]) + R(1)
      BY <3>2, <3>3
    <3> QED
      BY <1>0, <3>4
  <2>2. ASSUME NEW d \in 1 .. n - 1, d \in T PROVE d + 1 \in T
    <3>1. PICK h \in Nat : o = h * (S[d] * D[d]) + R(d)
      BY <2>2
    <3>2. d \in 1 .. n /\ d + 1 \in 1 .. n /\ d + 1 # 1
      BY <1>1
    <3>3. R(d) = p[d] * S[d] + R(d + 1) /\ S[d] = S[d + 1] * D[d + 1]
      BY <1>1, <1>3, <3>2
    <3>4. /\ S[d] \in Nat \ {0} /\ D[d] \in Nat \ {0}
          /\ p[d] \in 0 .. D[d] - 1 /\ R(d + 1) \in 0 .. S[d] - 1
      BY <1>1, <1>2, <1>3, <3>2
    <3>5. HasDigit(o, h, p[d], D[d], S[d], R(d + 1))
      BY <3>1, <3>3, <3>4 DEF HasDigit
    <3>6. h * D[d] + p[d] \in Nat /\ o = (h * D[d] + p[d]) * S[d] + R(d + 1)
      BY <3>5, DigitFound
    <3>7. o = (h * D[d] + p[d]) * (S[d + 1] * D[d + 1]) + R(d + 1)
      BY <3>3, <3>6
    <3> QED
      BY <3>2, <3>6, <3>7
  <2> HIDE DEF T
  <2> QED
    BY <1>1, <2>1, <2>2, Forwards
<1>6. ASSUME NEW d \in 1 .. n PROVE (o \div S[d]) % D[d] = p[d]
  <2>1. PICK h \in Nat : o = h * (S[d] * D[d]) + R(d)
    BY <1>5
  <2>2. /\ R(d) = p[d] * S[d] + R(d + 1) /\ R(d + 1) \in 0 .. S[d] - 1
        /\ p[d] \in 0 .. D[d] - 1 /\ S[d] \in Nat \ {0} /\ D[d] \in Nat \ {0}
    BY <1>1, <1>2, <1>3
  <2>3. HasDigit(o, h, p[d], D[d], S[d], R(d + 1))
    BY <2>1, <2>2 DEF HasDigit
  <2> QED
    BY <2>3, DigitFound
<1> QED
  <2>1. Size(c) = D[1] * S[1] /\ D[1] * S[1] = S[1] * D[1]
    BY <1>1 DEF Size
  <2> QED
    BY <1>1, <1>4, <1>6, <2>1

\* Different points are in different places.
LEMMA PlaceInjective ==
  ASSUME NEW c \in Configs, NEW p \in Points(c), NEW q \in Points(c), Place(c, p) = Place(c, q)
  PROVE  p = q
<1>1. \A d \in Dims(c) : p[d] = q[d]
  BY DigitsAre
<1> QED
  BY <1>1 DEF Points

\* The last digits of a number.
LEMMA LastDigits ==
  ASSUME NEW o \in Nat, NEW s \in Nat \ {0}, NEW m \in Nat \ {0}
  PROVE  /\ (o \div s) % m \in 0 .. m - 1
         /\ o % (s * m) = ((o \div s) % m) * s + (o % s)
<1> PICK q : q = o \div s
  OBVIOUS
<1> PICK r : r = o % s
  OBVIOUS
<1> PICK h : h = q \div m
  OBVIOUS
<1> PICK a : a = q % m
  OBVIOUS
<1>1. q \in Nat /\ r \in 0 .. s - 1 /\ r = o - s * q
  BY QuotientOf, RemainderOf
<1>2. h \in Nat /\ a \in 0 .. m - 1 /\ a = q - m * h
  BY <1>1, QuotientOf, RemainderOf
<1>3. o = q * s + r
  <2>1. s * q = q * s /\ q * s \in Nat
    BY <1>1
  <2> QED
    BY <1>1, <2>1
<1>4. q = h * m + a
  <2>1. m * h = h * m /\ h * m \in Nat
    BY <1>2
  <2> QED
    BY <1>1, <1>2, <2>1
<1>5. a \in Nat /\ r \in Nat
  BY <1>1, <1>2
<1>6. h * (s * m) + (a * s + r) = (h * m + a) * s + r
  BY <1>2, <1>5, NextDigit
<1>7. o = h * (s * m) + (a * s + r)
  BY <1>3, <1>4, <1>6
<1>8. a * s + r \in 0 .. s * m - 1
  BY <1>1, <1>2, Digit
<1>9. s * m \in Nat \ {0}
  OBVIOUS
<1> PICK z \in Nat \ {0} : z = s * m
  BY <1>9
<1> PICK x \in 0 .. z - 1 : x = a * s + r
  BY <1>8
<1>10. (h * z + x) % z = x
  BY <1>2, QuotientFound
<1>11. o % z = x
  BY <1>7, <1>10
<1> QED
  BY <1>2, <1>11

\* The point an offset is the place of.
PointAt(c, o) == [d \in Dims(c) |-> (o \div Strides(c)[d]) % c.dims[d]]

\* Every offset in the array is the place of a point.
LEMMA PlaceOnto ==
  ASSUME NEW c \in Configs, NEW o \in 0 .. Size(c) - 1
  PROVE  PointAt(c, o) \in Points(c) /\ Place(c, PointAt(c, o)) = o
<1> PICK n : n = Len(c.dims)
  OBVIOUS
<1> PICK S : S = Strides(c)
  OBVIOUS
<1> PICK D : D = c.dims
  OBVIOUS
<1> PICK p : p = PointAt(c, o)
  OBVIOUS
<1> DEFINE R(d) == SumFrom(Along(c, p), d)
           M(d) == IF d = n + 1 THEN 1 ELSE S[d] * D[d]
           T == {d \in 1 .. n + 1 : o % M(d) = R(d)}
<1>0. n \in 1 .. 4 /\ n \in Nat /\ 1 \in 1 .. n
  <2>1. n \in 1 .. 4
    BY DimsAre
  <2> QED
    BY <2>1
<1>1. /\ Dims(c) = 1 .. n /\ S \in [1 .. n -> Nat \ {0}]
      /\ S[n] = 1 /\ \A d \in 1 .. n - 1 : S[d] = S[d + 1] * D[d + 1]
      /\ \A d \in 1 .. n : D[d] \in Nat \ {0}
  BY DimsAre, StridesAre
<1>2. o \in Nat /\ Size(c) = D[1] * S[1] /\ D[1] * S[1] = S[1] * D[1] /\ S[1] * D[1] \in Nat
  <2>1. D[1] \in Nat /\ S[1] \in Nat
    BY <1>0, <1>1
  <2>2. D[1] * S[1] = S[1] * D[1] /\ S[1] * D[1] \in Nat
    BY <2>1
  <2>3. Size(c) = D[1] * S[1]
    BY DEF Size
  <2> QED
    BY <2>2, <2>3
<1>3. p \in [1 .. n -> Nat] /\ \A d \in 1 .. n : p[d] = (o \div S[d]) % D[d] /\ p[d] \in 0 .. D[d] - 1
  <2>1. \A d \in 1 .. n : (o \div S[d]) % D[d] \in 0 .. D[d] - 1
    BY <1>1, <1>2, LastDigits
  <2>2. p = [d \in 1 .. n |-> (o \div S[d]) % D[d]]
    BY <1>1 DEF PointAt
  <2>3. \A d \in 1 .. n : p[d] = (o \div S[d]) % D[d]
    BY <2>2
  <2>4. \A d \in 1 .. n : p[d] \in 0 .. D[d] - 1
    BY <2>1, <2>3
  <2>5. \A d \in 1 .. n : p[d] \in Nat
    BY <1>1, <2>4
  <2>6. p = [d \in 1 .. n |-> p[d]]
    BY <2>2
  <2>7. p \in [1 .. n -> Nat]
    BY <2>5, <2>6
  <2> QED
    BY <2>3, <2>4, <2>7
<1>4. p \in Points(c)
  <2>1. \A d \in 1 .. n : p[d] < D[d]
    BY <1>1, <1>3
  <2> QED
    BY <1>1, <1>3, <2>1 DEF Points
<1>5. R(n + 1) = 0 /\ \A d \in 1 .. n : R(d) = p[d] * S[d] + R(d + 1)
  <2>1. p \in [Dims(c) -> Nat]
    BY <1>1, <1>3
  <2> QED
    BY <1>1, <2>1, AlongIs
<1>6. M(n + 1) = 1 /\ \A d \in 1 .. n : M(d) = S[d] * D[d] /\ M(d + 1) = S[d]
  <2>1. ASSUME NEW d \in 1 .. n PROVE M(d) = S[d] * D[d] /\ M(d + 1) = S[d]
    <3>1. d # n + 1
      BY <1>0
    <3>2. CASE d = n
      BY <1>1, <3>1, <3>2
    <3>3. CASE d # n
      <4>1. d \in 1 .. n - 1 /\ d + 1 # n + 1
        BY <1>0, <3>3
      <4> QED
        BY <1>1, <3>1, <4>1
    <3> QED
      BY <3>2, <3>3
  <2> QED
    BY <2>1
<1> HIDE DEF R, M
<1>7. n + 1 \in T
  <2>1. o % 1 = 0
    BY <1>2
  <2> QED
    BY <1>0, <1>5, <1>6, <2>1
<1>8. ASSUME NEW d \in 1 .. n, d + 1 \in T PROVE d \in T
  <2>1. o % S[d] = R(d + 1)
    BY <1>6, <1>8
  <2>2. S[d] \in Nat \ {0} /\ D[d] \in Nat \ {0}
    BY <1>1
  <2>3. o % (S[d] * D[d]) = ((o \div S[d]) % D[d]) * S[d] + (o % S[d])
    BY <1>2, <2>2, LastDigits
  <2>4. o % M(d) = R(d)
    BY <1>3, <1>5, <1>6, <2>1, <2>3
  <2>5. d \in 1 .. n + 1
    BY <1>0
  <2> QED
    BY <2>4, <2>5
<1>9. 1 \in 1 .. n + 1 /\ 1 \in T
  <2> HIDE DEF T
  <2>1. \A d \in 1 .. n + 1 : d \in T
    BY <1>0, <1>7, <1>8, Backwards
  <2> QED
    BY <1>0, <2>1
<1>10. o % M(1) = R(1)
  BY <1>9
<1>11. M(1) = S[1] * D[1] /\ o \in 0 .. S[1] * D[1] - 1
  BY <1>0, <1>2, <1>6
<1>12. o % (S[1] * D[1]) = o
  BY <1>2, <1>11
<1>13. Place(c, p) = o
  BY <1>10, <1>11, <1>12 DEF Place, R
<1> QED
  BY <1>4, <1>13

-----------------------------------------------------------------------------
(* The order of indices.                                                   *)

\* a comes before b: the first direction they differ in decides.
Before(a, b, n) == \E d \in 1 .. n : a[d] < b[d] /\ \A e \in 1 .. d - 1 : a[e] = b[e]

\* Nothing comes before itself.
LEMMA NotBefore ==
  ASSUME NEW n \in Nat, NEW a \in [1 .. n -> Nat]
  PROVE  ~Before(a, a, n)
BY DEF Before

\* What is nowhere more comes before, if it is not the same.
LEMMA LessIsBefore ==
  ASSUME NEW n \in Nat, NEW a \in [1 .. n -> Nat], NEW b \in [1 .. n -> Nat],
         \A d \in 1 .. n : a[d] <= b[d], a # b
  PROVE  Before(a, b, n)
<1> DEFINE U == {d \in 1 .. n : a[d] # b[d]}
<1>1. U # {} /\ U \in SUBSET Nat
  OBVIOUS
<1>2. PICK d \in U : \A e \in U : d <= e
  BY <1>1, Least
<1>3. d \in 1 .. n /\ a[d] < b[d]
  BY <1>2
<1>4. ASSUME NEW e \in 1 .. d - 1 PROVE a[e] = b[e]
  <2>1. e \in 1 .. n /\ ~(d <= e)
    BY <1>3
  <2>2. e \notin U
    BY <1>2, <2>1
  <2> QED
    BY <2>1, <2>2
<1> QED
  BY <1>3, <1>4 DEF Before

\* The indices in a box.
Box(B, n) == {a \in [1 .. n -> Nat] : \A d \in 1 .. n : a[d] < B[d]}

\* Those an iterator has when it is at the end.
Beyond(B, n) == [d \in 1 .. n |-> IF d = 1 THEN B[1] ELSE 0]

\* All indices of the box come before the end.
LEMMA AllBefore ==
  ASSUME NEW n \in Nat \ {0}, NEW B, NEW a \in Box(B, n)
  PROVE  Before(a, Beyond(B, n), n)
<1>1. 1 \in 1 .. n /\ a[1] < Beyond(B, n)[1] /\ \A e \in 1 .. 1 - 1 : a[e] = Beyond(B, n)[e]
  BY DEF Box, Beyond
<1> QED
  BY <1>1 DEF Before

\* And none before the start.
LEMMA NoneBefore ==
  ASSUME NEW n \in Nat, NEW a \in [1 .. n -> Nat]
  PROVE  ~Before(a, [d \in 1 .. n |-> 0], n)
<1>1. ASSUME NEW d \in 1 .. n, a[d] < [e \in 1 .. n |-> 0][d] PROVE FALSE
  <2>1. [e \in 1 .. n |-> 0][d] = 0 /\ a[d] \in Nat
    OBVIOUS
  <2> QED
    BY <1>1, <2>1
<1> QED
  BY <1>1 DEF Before

\* b is a with the last direction that has room one further and those behind it at 0.
IsNext(a, b, last, B, n) ==
  /\ last \in 1 .. n
  /\ last = 1 \/ a[last] + 1 < B[last]
  /\ \A d \in 1 .. n : d > last => a[d] = B[d] - 1
  /\ b = [d \in 1 .. n |-> IF d < last THEN a[d] ELSE IF d = last THEN a[d] + 1 ELSE 0]

\* That is in the box, or the end of it.
LEMMA NextInBox ==
  ASSUME NEW n \in Nat \ {0}, NEW B \in [1 .. n -> Nat \ {0}], NEW a \in Box(B, n),
         NEW b, NEW last, IsNext(a, b, last, B, n)
  PROVE  /\ b \in [1 .. n -> Nat]
         /\ b \in Box(B, n) \/ b = Beyond(B, n)
<1>1. a \in [1 .. n -> Nat] /\ \A d \in 1 .. n : a[d] < B[d] /\ B[d] \in Nat \ {0}
  BY DEF Box
<1>2. /\ last \in 1 .. n
      /\ b = [d \in 1 .. n |-> IF d < last THEN a[d] ELSE IF d = last THEN a[d] + 1 ELSE 0]
  BY DEF IsNext
<1>3. b \in [1 .. n -> Nat]
  <2>1. \A d \in 1 .. n : (IF d < last THEN a[d] ELSE IF d = last THEN a[d] + 1 ELSE 0) \in Nat
    BY <1>1
  <2> QED
    BY <1>2, <2>1
<1>4. CASE a[last] + 1 < B[last]
  <2>1. \A d \in 1 .. n : b[d] < B[d]
    BY <1>1, <1>2, <1>4
  <2> QED
    BY <1>3, <2>1 DEF Box
<1>5. CASE ~(a[last] + 1 < B[last])
  <2>1. last = 1
    BY <1>5 DEF IsNext
  <2>2. a[1] + 1 = B[1]
    BY <1>1, <1>2, <1>5, <2>1
  <2>3. b = Beyond(B, n)
    <3>1. \A d \in 1 .. n : b[d] = Beyond(B, n)[d]
      BY <1>2, <2>1, <2>2 DEF Beyond
    <3>2. b = [d \in 1 .. n |-> b[d]] /\ Beyond(B, n) = [d \in 1 .. n |-> Beyond(B, n)[d]]
      BY <1>2 DEF Beyond
    <3> QED
      BY <3>1, <3>2
  <2> QED
    BY <1>3, <2>3
<1> QED
  BY <1>4, <1>5

\* Nothing is between the two.
LEMMA NextIsNext ==
  ASSUME NEW n \in Nat \ {0}, NEW B \in [1 .. n -> Nat \ {0}], NEW a \in Box(B, n),
         NEW b, NEW last, IsNext(a, b, last, B, n), NEW q \in Box(B, n)
  PROVE  Before(q, b, n) <=> Before(q, a, n) \/ q = a
<1>1. /\ a \in [1 .. n -> Nat] /\ q \in [1 .. n -> Nat]
      /\ \A d \in 1 .. n : q[d] \in Nat /\ a[d] \in Nat /\ B[d] \in Nat /\ q[d] < B[d]
  BY DEF Box
<1>2. /\ last \in 1 .. n
      /\ \A d \in 1 .. n : d > last => a[d] = B[d] - 1 /\ b[d] = 0
      /\ \A d \in 1 .. n : d < last => b[d] = a[d]
      /\ b[last] = a[last] + 1
  BY DEF IsNext
<1>3. ASSUME Before(q, a, n) \/ q = a PROVE Before(q, b, n)
  <2>1. CASE q = a
    <3>1. q[last] < b[last] /\ \A e \in 1 .. last - 1 : q[e] = b[e]
      BY <1>1, <1>2, <2>1
    <3> QED
      BY <1>2, <3>1 DEF Before
  <2>2. CASE Before(q, a, n)
    <3>1. PICK d \in 1 .. n : q[d] < a[d] /\ \A e \in 1 .. d - 1 : q[e] = a[e]
      BY <2>2 DEF Before
    <3>2. CASE d < last
      <4>1. q[d] < b[d] /\ \A e \in 1 .. d - 1 : q[e] = b[e]
        BY <1>2, <3>1, <3>2
      <4> QED
        BY <4>1 DEF Before
    <3>3. CASE d >= last
      <4>1. q[last] <= a[last]
        BY <1>1, <1>2, <3>1, <3>3
      <4>2. q[last] < b[last]
        BY <1>1, <1>2, <4>1
      <4>3. \A e \in 1 .. last - 1 : q[e] = b[e]
        BY <1>2, <3>1, <3>3
      <4> QED
        BY <1>2, <4>2, <4>3 DEF Before
    <3> QED
      BY <1>2, <3>2, <3>3
  <2> QED
    BY <1>3, <2>1, <2>2
<1>4. ASSUME Before(q, b, n) PROVE Before(q, a, n) \/ q = a
  <2>1. PICK d \in 1 .. n : q[d] < b[d] /\ \A e \in 1 .. d - 1 : q[e] = b[e]
    BY <1>4 DEF Before
  <2>2. d <= last
    BY <1>1, <1>2, <2>1
  <2>3. \A e \in 1 .. d - 1 : q[e] = a[e]
    BY <1>2, <2>1, <2>2
  <2>4. CASE q[d] < a[d]
    BY <2>3, <2>4 DEF Before
  <2>5. CASE ~(q[d] < a[d])
    <3>1. d = last
      BY <1>1, <1>2, <2>1, <2>2, <2>5
    <3>2. q[d] = a[d]
      BY <1>1, <1>2, <2>1, <2>5, <3>1
    <3>3. \A e \in 1 .. n : q[e] <= a[e]
      <4> SUFFICES ASSUME NEW e \in 1 .. n PROVE q[e] <= a[e]
        OBVIOUS
      <4>1. CASE e < d
        BY <1>1, <2>3, <4>1
      <4>2. CASE e = d
        BY <1>1, <3>2, <4>2
      <4>3. CASE e > d
        BY <1>1, <1>2, <3>1, <4>3
      <4> QED
        BY <4>1, <4>2, <4>3
    <3> QED
      BY <1>1, <3>3, LessIsBefore
  <2> QED
    BY <2>4, <2>5
<1> QED
  BY <1>3, <1>4

\* The terms f and g are the same before a direction, apart by x in it, and 0 and those of
\* row behind it.
Moved(f, g, row, x, last, n) ==
  /\ last \in 1 .. n
  /\ f \in [1 .. n -> Int] /\ g \in [1 .. n -> Int] /\ row \in [1 .. n -> Int]
  /\ \A d \in 1 .. n : /\ d > last => f[d] = 0 /\ g[d] = row[d]
                       /\ d < last => f[d] = g[d]
                       /\ d = last => f[d] = g[d] + x

\* Their sums then differ by x and the terms behind.
LEMMA SumMoves ==
  ASSUME NEW n \in 1 .. 4, NEW last, NEW x \in Int, NEW f, NEW g, NEW row,
         Moved(f, g, row, x, last, n)
  PROVE  SumFrom(f, 1) = SumFrom(g, 1) + x - SumFrom(row, last + 1)
<1>7. /\ last \in 1 .. n
      /\ f \in [1 .. n -> Int] /\ g \in [1 .. n -> Int] /\ row \in [1 .. n -> Int]
      /\ \A d \in 1 .. n : /\ d > last => f[d] = 0 /\ g[d] = row[d]
                           /\ d < last => f[d] = g[d]
                           /\ d = last => f[d] = g[d] + x
  BY DEF Moved
<1>0. /\ n \in Nat /\ n \in 0 .. 4 /\ n + 1 \in 1 .. n + 1 /\ 1 \in 1 .. n + 1
      /\ last + 1 \in 1 .. n + 1
  BY <1>7
<1>1. /\ SumFrom(f, n + 1) = 0 /\ SumFrom(g, n + 1) = 0 /\ SumFrom(row, n + 1) = 0
      /\ \A d \in 1 .. n : /\ SumFrom(f, d) = f[d] + SumFrom(f, d + 1)
                           /\ SumFrom(g, d) = g[d] + SumFrom(g, d + 1)
                           /\ SumFrom(row, d) = row[d] + SumFrom(row, d + 1)
      /\ \A d \in 1 .. n + 1 : /\ SumFrom(f, d) \in Int /\ SumFrom(g, d) \in Int
                               /\ SumFrom(row, d) \in Int
  BY <1>0, <1>7, SumIs
<1>6. SumFrom(row, last + 1) \in Int
  BY <1>0, <1>1
<1> PICK y \in Int : y = x - SumFrom(row, last + 1)
  BY <1>6
<1> DEFINE T == {d \in 1 .. n + 1 : SumFrom(f, d) = SumFrom(g, d) +
                    IF d > last THEN -SumFrom(row, d) ELSE y}
<1>2. n + 1 \in T
  <2>1. n + 1 > last /\ 0 = 0 + -0
    BY <1>0, <1>7
  <2> QED
    BY <1>0, <1>1, <2>1
<1>3. ASSUME NEW d \in 1 .. n, d + 1 \in T PROVE d \in T
  <2>1. d \in 1 .. n + 1 /\ d + 1 \in 1 .. n + 1
    BY <1>0
  <2>2. /\ SumFrom(f, d) = f[d] + SumFrom(f, d + 1) /\ SumFrom(g, d) = g[d] + SumFrom(g, d + 1)
        /\ SumFrom(row, d) = row[d] + SumFrom(row, d + 1)
    BY <1>1
  <2>3. /\ SumFrom(f, d + 1) \in Int /\ SumFrom(g, d + 1) \in Int /\ SumFrom(row, d + 1) \in Int
        /\ f[d] \in Int /\ g[d] \in Int /\ row[d] \in Int
    BY <1>1, <1>7, <2>1
  <2>4. SumFrom(f, d + 1) = SumFrom(g, d + 1) + IF d + 1 > last THEN -SumFrom(row, d + 1) ELSE y
    BY <1>3
  <2>5. CASE d > last
    <3>1. f[d] = 0 /\ g[d] = row[d] /\ d + 1 > last
      BY <1>7, <2>5
    <3>2. SumFrom(f, d) = SumFrom(g, d) + -SumFrom(row, d)
      BY <2>2, <2>3, <2>4, <3>1
    <3> QED
      BY <2>1, <2>5, <3>2
  <2>6. CASE d = last
    <3>1. f[d] = g[d] + x /\ d + 1 > last /\ ~(d > last)
      BY <1>7, <2>6
    <3>2. SumFrom(f, d) = SumFrom(g, d) + y
      BY <2>2, <2>3, <2>4, <2>6, <3>1
    <3> QED
      BY <2>1, <3>1, <3>2
  <2>7. CASE d < last
    <3>1. f[d] = g[d] /\ ~(d + 1 > last) /\ ~(d > last)
      BY <1>7, <2>7
    <3>2. SumFrom(f, d) = SumFrom(g, d) + y
      BY <2>2, <2>3, <2>4, <3>1
    <3> QED
      BY <2>1, <3>1, <3>2
  <2> QED
    BY <1>7, <2>5, <2>6, <2>7
<1> HIDE DEF T
<1>4. 1 \in T
  <2>1. \A d \in 1 .. n + 1 : d \in T
    BY <1>0, <1>2, <1>3, Backwards
  <2> QED
    BY <1>0, <2>1
<1>5. SumFrom(f, 1) = SumFrom(g, 1) + y
  <2>1. ~(1 > last)
    BY <1>7
  <2> QED
    BY <1>4, <2>1 DEF T
<1> QED
  BY <1>0, <1>1, <1>5, <1>6

-----------------------------------------------------------------------------
(* The iterators.                                                          *)

\* A range of n directions.
IsRange(range, n) ==
  /\ n \in 1 .. 4
  /\ range.dims \in [1 .. n -> Nat \ {0}]
  /\ range.strides \in [1 .. n -> Int]
  /\ range.start \in Int
  /\ range.end = range.start + range.dims[1] * range.strides[1]

\* What indices add to the offset.
Steps(range, a, n) == [d \in 1 .. n |-> a[d] * range.strides[d]]

\* What a whole row along each direction adds, less one step.
Rows(range, n) == [d \in 1 .. n |-> range.dims[d] * range.strides[d] - range.strides[d]]

\* next has the next indices, with last the direction that had room, and their offset.
Moves(range, it, next, last, n) ==
  /\ IsNext(it.local, next.local, last, range.dims, n)
  /\ next.offset = it.offset + range.strides[last] - SumFrom(Rows(range, n), last + 1)

\* An iterator is in its range or at the end of it, and its offset is that of its indices.
Aligned(range, it, n) ==
  /\ it.local \in [1 .. n -> Nat]
  /\ it.local \in Box(range.dims, n) \/ it.local = Beyond(range.dims, n)
  /\ it.offset = range.start + SumFrom(Steps(range, it.local, n), 1)

\* Steps are numbers.
LEMMA StepsAre ==
  ASSUME NEW range, NEW n, IsRange(range, n), NEW a \in [1 .. n -> Nat]
  PROVE  /\ Steps(range, a, n) \in [1 .. n -> Int]
         /\ SumFrom(Steps(range, a, n), 1) \in Int
         /\ SumFrom(Steps(range, a, n), 1) = a[1] * range.strides[1] + SumFrom(Steps(range, a, n), 2)
<1>1. n \in 1 .. 4 /\ range.strides \in [1 .. n -> Int]
  BY DEF IsRange
<1>2. \A d \in 1 .. n : a[d] * range.strides[d] \in Int
  <2> SUFFICES ASSUME NEW d \in 1 .. n PROVE a[d] * range.strides[d] \in Int
    OBVIOUS
  <2>1. a[d] \in Nat /\ range.strides[d] \in Int
    BY <1>1
  <2> QED
    BY <2>1, Products
<1>3. Steps(range, a, n) \in [1 .. n -> Int]
  BY <1>2, Zenon DEF Steps
<1> PICK f \in [1 .. n -> Int] : f = Steps(range, a, n)
  BY <1>3, Zenon
<1>4. n \in 0 .. 4 /\ 1 \in 1 .. n /\ 1 \in 1 .. n + 1 /\ 1 + 1 = 2
  BY <1>1
<1>5. SumFrom(f, 1) \in Int /\ SumFrom(f, 1) = f[1] + SumFrom(f, 2)
  BY <1>4, SumIs
<1>6. f[1] = a[1] * range.strides[1]
  BY <1>4, Zenon DEF Steps
<1> QED
  BY <1>3, <1>5, <1>6

\* Where nothing is behind a direction, nothing is added.
LEMMA SumZero ==
  ASSUME NEW n \in 1 .. 4, NEW f \in [1 .. n -> Int], NEW i \in 1 .. n + 1,
         \A d \in 1 .. n : d >= i => f[d] = 0
  PROVE  SumFrom(f, i) = 0
<1> DEFINE T == {d \in 1 .. n + 1 : d >= i => SumFrom(f, d) = 0}
<1>0. n \in 0 .. 4 /\ n \in Nat /\ n + 1 \in 1 .. n + 1
  OBVIOUS
<1>1. SumFrom(f, n + 1) = 0 /\ \A d \in 1 .. n : SumFrom(f, d) = f[d] + SumFrom(f, d + 1)
  BY <1>0, SumIs
<1>2. n + 1 \in T
  BY <1>0, <1>1
<1>3. ASSUME NEW d \in 1 .. n, d + 1 \in T PROVE d \in T
  <2>1. d \in 1 .. n + 1
    BY <1>0
  <2>2. SUFFICES ASSUME d >= i PROVE SumFrom(f, d) = 0
    BY <2>1
  <2>3. SumFrom(f, d + 1) = 0 /\ f[d] = 0
    BY <1>3, <2>2
  <2> QED
    BY <1>1, <2>3
<1> HIDE DEF T
<1>4. \A d \in 1 .. n + 1 : d \in T
  BY <1>0, <1>2, <1>3, Backwards
<1> QED
  BY <1>4 DEF T

\* An iterator starts at the start of its range.
LEMMA BeginAligned ==
  ASSUME NEW range, NEW n, IsRange(range, n)
  PROVE  /\ Begin(range).local = [d \in 1 .. n |-> 0]
         /\ Begin(range).local \in Box(range.dims, n)
         /\ Aligned(range, Begin(range), n)
<1>1. n \in 1 .. 4 /\ range.dims \in [1 .. n -> Nat \ {0}] /\ range.start \in Int
  BY DEF IsRange
<1>2. Begin(range).local = [d \in 1 .. n |-> 0] /\ Begin(range).offset = range.start
  BY <1>1 DEF Begin
<1> PICK a : a = Begin(range).local
  OBVIOUS
<1>3. a \in [1 .. n -> Nat] /\ \A d \in 1 .. n : a[d] = 0
  BY <1>2
<1>4. a \in Box(range.dims, n)
  BY <1>1, <1>3 DEF Box
<1>5. SumFrom(Steps(range, a, n), 1) = 0
  <2>1. Steps(range, a, n) \in [1 .. n -> Int]
    BY <1>3, StepsAre
  <2>2. \A d \in 1 .. n : Steps(range, a, n)[d] = 0
    <3> SUFFICES ASSUME NEW d \in 1 .. n PROVE Steps(range, a, n)[d] = 0
      OBVIOUS
    <3>1. range.strides[d] \in Int /\ a[d] = 0
      BY <1>3 DEF IsRange
    <3>2. Steps(range, a, n)[d] = a[d] * range.strides[d]
      BY Zenon DEF Steps
    <3>3. 0 * range.strides[d] = 0
      BY <3>1, Products
    <3> QED
      BY <3>1, <3>2, <3>3, Zenon
  <2>3. 1 \in 1 .. n + 1
    BY <1>1
  <2> QED
    BY <1>1, <2>1, <2>2, <2>3, SumZero
<1> QED
  BY <1>1, <1>2, <1>3, <1>4, <1>5 DEF Aligned

\* operator++ goes to the next indices, with their offset.
LEMMA IncrementIs ==
  ASSUME NEW range, NEW n, IsRange(range, n), NEW it, Aligned(range, it, n),
         it.local \in Box(range.dims, n)
  PROVE  \E last : Moves(range, it, Increment(range, it), last, n)
<1> DEFINE R == {1} \cup {d \in DOMAIN range.dims : it.local[d] + 1 < range.dims[d]}
<1> PICK last : last = Max(R)
  OBVIOUS
<1>1. n \in 1 .. 4 /\ range.dims \in [1 .. n -> Nat \ {0}] /\ DOMAIN range.dims = 1 .. n
  BY DEF IsRange
<1>2. \A d \in 1 .. n : it.local[d] \in Nat /\ it.local[d] < range.dims[d]
  BY DEF Box
<1>3. last \in R /\ \A d \in R : d <= last
  <2>1. R \in SUBSET (0 .. n) /\ R # {} /\ n \in Nat /\ R \in SUBSET Int
    BY <1>1
  <2>2. PICK m \in R : \A d \in R : d <= m
    BY <2>1, Largest
  <2>3. Max(R) = m
    BY <2>1, <2>2, MaxIs
  <2> QED
    BY <2>2, <2>3
<1>4. last \in 1 .. n
  BY <1>1, <1>3
<1>5. last = 1 \/ it.local[last] + 1 < range.dims[last]
  BY <1>3
<1>6. ASSUME NEW d \in 1 .. n, d > last PROVE it.local[d] = range.dims[d] - 1
  <2>1. d \notin R
    BY <1>3, <1>4, <1>6
  <2>2. ~(it.local[d] + 1 < range.dims[d])
    BY <1>1, <2>1
  <2> QED
    BY <1>1, <1>2, <2>2
<1> HIDE DEF R
<1>7. Increment(range, it) =
        [local  |-> [d \in 1 .. n |-> IF d < last THEN it.local[d]
                                      ELSE IF d = last THEN it.local[d] + 1 ELSE 0],
         offset |-> it.offset + range.strides[last] - SumFrom(Rows(range, n), last + 1)]
  BY <1>1, Zenon DEF Increment, R, Rows
<1>8. IsNext(it.local, Increment(range, it).local, last, range.dims, n)
  BY <1>4, <1>5, <1>6, <1>7 DEF IsNext
<1>9. Moves(range, it, Increment(range, it), last, n)
  BY <1>7, <1>8 DEF Moves
<1> QED
  BY <1>9

\* The steps to the next indices add up to what the offset moves by: the stride of the last
\* direction that has room, less what those behind it had.
LEMMA StepsMove ==
  ASSUME NEW range, NEW n, IsRange(range, n), NEW a \in Box(range.dims, n), NEW b, NEW last,
         IsNext(a, b, last, range.dims, n)
  PROVE  /\ SumFrom(Steps(range, b, n), 1)
              = SumFrom(Steps(range, a, n), 1) + range.strides[last] - SumFrom(Rows(range, n), last + 1)
         /\ range.strides[last] \in Int /\ SumFrom(Rows(range, n), last + 1) \in Int
<1> PICK B : B = range.dims
  OBVIOUS
<1> PICK t : t = range.strides
  OBVIOUS
<1> DEFINE f   == Steps(range, b, n)
           g   == Steps(range, a, n)
           row == Rows(range, n)
<1>0. /\ n \in Nat \ {0} /\ n \in 1 .. 4 /\ B \in [1 .. n -> Nat \ {0}] /\ t \in [1 .. n -> Int]
      /\ a \in Box(B, n) /\ IsNext(a, b, last, B, n)
  BY DEF IsRange
<1>1. a \in [1 .. n -> Nat] /\ b \in [1 .. n -> Nat]
  <2>1. a \in [1 .. n -> Nat]
    BY <1>0 DEF Box
  <2> QED
    BY <1>0, <2>1, NextInBox
<1>2. /\ last \in 1 .. n
      /\ \A d \in 1 .. n : d > last => a[d] = B[d] - 1 /\ b[d] = 0
      /\ \A d \in 1 .. n : d < last => b[d] = a[d]
      /\ b[last] = a[last] + 1
  BY <1>0 DEF IsNext
<1>3. ASSUME NEW d \in 1 .. n
      PROVE  /\ b[d] * t[d] \in Int /\ a[d] * t[d] \in Int /\ B[d] * t[d] - t[d] \in Int
             /\ d > last => b[d] * t[d] = 0 /\ a[d] * t[d] = B[d] * t[d] - t[d]
             /\ d < last => b[d] * t[d] = a[d] * t[d]
             /\ d = last => b[d] * t[d] = a[d] * t[d] + t[d]
  <2>1. a[d] \in Nat /\ b[d] \in Nat /\ B[d] \in Nat /\ t[d] \in Int
    BY <1>0, <1>1
  <2>2. a[d] * t[d] \in Int /\ b[d] * t[d] \in Int /\ B[d] * t[d] - t[d] \in Int
    BY <2>1, Products
  <2>3. 0 * t[d] = 0 /\ (B[d] - 1) * t[d] = B[d] * t[d] - t[d]
    BY <2>1, Products
  <2>4. (a[d] + 1) * t[d] = a[d] * t[d] + t[d]
    BY <2>1, Products
  <2>5. d > last => a[d] = B[d] - 1 /\ b[d] = 0
    BY <1>2
  <2>6. (d < last => b[d] = a[d]) /\ (d = last => b[d] = a[d] + 1)
    BY <1>2
  <2> QED
    BY <2>2, <2>3, <2>4, <2>5, <2>6, Zenon
<1>4. f \in [1 .. n -> Int] /\ g \in [1 .. n -> Int] /\ row \in [1 .. n -> Int]
  <2>1. \A d \in 1 .. n : b[d] * t[d] \in Int /\ a[d] * t[d] \in Int /\ B[d] * t[d] - t[d] \in Int
    BY <1>3
  <2> QED
    BY <2>1, Zenon DEF Steps, Rows
<1>5. \A d \in 1 .. n : f[d] = b[d] * t[d] /\ g[d] = a[d] * t[d] /\ row[d] = B[d] * t[d] - t[d]
  BY Zenon DEF Steps, Rows
<1> HIDE DEF f, g, row
<1>6. \A d \in 1 .. n : /\ d > last => f[d] = 0 /\ g[d] = row[d]
                        /\ d < last => f[d] = g[d]
                        /\ d = last => f[d] = g[d] + t[last]
  BY <1>3, <1>5, Zenon
<1> PICK u \in [1 .. n -> Int] : u = f
  BY <1>4, Zenon
<1> PICK v \in [1 .. n -> Int] : v = g
  BY <1>4, Zenon
<1> PICK w \in [1 .. n -> Int] : w = row
  BY <1>4, Zenon
<1> PICK x \in Int : x = t[last]
  BY <1>0, <1>2
<1>7. \A d \in 1 .. n : /\ d > last => u[d] = 0 /\ v[d] = w[d]
                        /\ d < last => u[d] = v[d]
                        /\ d = last => u[d] = v[d] + x
  BY <1>6, Zenon
<1>8. SumFrom(u, 1) = SumFrom(v, 1) + x - SumFrom(w, last + 1)
  <2>1. Moved(u, v, w, x, last, n)
    BY <1>2, <1>7 DEF Moved
  <2> QED
    BY <1>0, <2>1, SumMoves
<1>9. SumFrom(w, last + 1) \in Int
  <2>1. last + 1 \in 1 .. n + 1 /\ n \in 0 .. 4
    BY <1>0, <1>2
  <2> QED
    BY <2>1, SumIs
<1> QED
  BY <1>8, <1>9, Zenon DEF f, g, row

\* So it stays aligned, and comes to the indices one by one.
LEMMA IncrementAligned ==
  ASSUME NEW range, NEW n, IsRange(range, n), NEW it, Aligned(range, it, n),
         it.local \in Box(range.dims, n)
  PROVE  /\ Aligned(range, Increment(range, it), n)
         /\ \A q \in Box(range.dims, n) :
              Before(q, Increment(range, it).local, n) <=> Before(q, it.local, n) \/ q = it.local
<1> PICK next : next = Increment(range, it)
  OBVIOUS
<1>1. /\ n \in Nat \ {0} /\ range.dims \in [1 .. n -> Nat \ {0}] /\ range.start \in Int
      /\ it.local \in [1 .. n -> Nat]
  BY DEF IsRange, Aligned
<1>2. PICK last : Moves(range, it, next, last, n)
  BY IncrementIs
<1>3. /\ IsNext(it.local, next.local, last, range.dims, n)
      /\ next.offset = it.offset + range.strides[last] - SumFrom(Rows(range, n), last + 1)
  BY <1>2 DEF Moves
<1>4. /\ next.local \in [1 .. n -> Nat]
      /\ next.local \in Box(range.dims, n) \/ next.local = Beyond(range.dims, n)
  BY <1>1, <1>3, NextInBox
<1>5. /\ SumFrom(Steps(range, next.local, n), 1)
           = SumFrom(Steps(range, it.local, n), 1) + range.strides[last] - SumFrom(Rows(range, n), last + 1)
      /\ range.strides[last] \in Int /\ SumFrom(Rows(range, n), last + 1) \in Int
  BY <1>3, StepsMove
<1>6. it.offset = range.start + SumFrom(Steps(range, it.local, n), 1)
  BY DEF Aligned
<1>7. SumFrom(Steps(range, it.local, n), 1) \in Int
  BY <1>1, StepsAre
<1>8. next.offset = range.start + SumFrom(Steps(range, next.local, n), 1)
  BY <1>1, <1>3, <1>5, <1>6, <1>7
<1>9. Aligned(range, next, n)
  BY <1>4, <1>8 DEF Aligned
<1>10. ASSUME NEW q \in Box(range.dims, n)
       PROVE  Before(q, next.local, n) <=> Before(q, it.local, n) \/ q = it.local
  BY <1>1, <1>3, NextIsNext
<1> QED
  BY <1>9, <1>10

-----------------------------------------------------------------------------
(* The cut of the array into blocks.                                       *)

\* How many blocks there are along each direction.
Blocks(c) == [d \in Dims(c) |-> (c.dims[d] - 1) \div c.block_size + 1]

\* How long a block is along each.
Extent(c, b) == [d \in Dims(c) |-> Left(c.dims[d], c.block_size, b[d])]

\* The block a point is in, its place there, and the point at a place of a block.
BlockOf(c, p)    == [d \in Dims(c) |-> p[d] \div c.block_size]
LocalOf(c, p)    == [d \in Dims(c) |-> p[d] % c.block_size]
PointOf(c, b, l) == [d \in Dims(c) |-> b[d] * c.block_size + l[d]]

\* The blocks and the places in one.
BlockBox(c)    == Box(Blocks(c), Len(c.dims))
LocalBox(c, b) == Box(Extent(c, b), Len(c.dims))

\* What a block and a place in it are, direction by direction.
LEMMA BoxesAre ==
  ASSUME NEW c \in Configs
  PROVE  /\ \A b : b \in BlockBox(c) <=>
              b \in [Dims(c) -> Nat] /\ \A d \in Dims(c) : b[d] <= (c.dims[d] - 1) \div c.block_size
         /\ \A b, l : l \in LocalBox(c, b) <=>
              l \in [Dims(c) -> Nat] /\ \A d \in Dims(c) : l[d] < Left(c.dims[d], c.block_size, b[d])
<1> PICK n : n = Len(c.dims)
  OBVIOUS
<1>1. n \in 1 .. 4 /\ Dims(c) = 1 .. n
  BY DimsAre
<1>2. \A d \in 1 .. n : (c.dims[d] - 1) \div c.block_size \in Nat
  <2> SUFFICES ASSUME NEW d \in 1 .. n PROVE (c.dims[d] - 1) \div c.block_size \in Nat
    OBVIOUS
  <2>1. c.dims[d] - 1 \in Nat /\ c.block_size \in Nat \ {0}
    BY <1>1, DimsAre
  <2> QED
    BY <2>1, QuotientOf
<1>3. ASSUME NEW b \in [1 .. n -> Nat], NEW d \in 1 .. n
      PROVE  b[d] < Blocks(c)[d] <=> b[d] <= (c.dims[d] - 1) \div c.block_size
  <2>1. Blocks(c)[d] = (c.dims[d] - 1) \div c.block_size + 1
    BY <1>1 DEF Blocks
  <2>2. (c.dims[d] - 1) \div c.block_size \in Nat /\ b[d] \in Nat
    BY <1>2
  <2> QED
    BY <2>1, <2>2
<1>4. ASSUME NEW b
      PROVE  b \in BlockBox(c) <=>
              b \in [1 .. n -> Nat] /\ \A d \in 1 .. n : b[d] <= (c.dims[d] - 1) \div c.block_size
  BY <1>3, Zenon DEF BlockBox, Box
<1>5. ASSUME NEW b, NEW l
      PROVE  l \in LocalBox(c, b) <=>
              l \in [1 .. n -> Nat] /\ \A d \in 1 .. n : l[d] < Left(c.dims[d], c.block_size, b[d])
  BY <1>1, Zenon DEF LocalBox, Box, Extent
<1> QED
  BY <1>1, <1>4, <1>5, Zenon

\* Points and places in blocks are the same thing.
LEMMA CutPoint ==
  ASSUME NEW c \in Configs, NEW p \in Points(c)
  PROVE  /\ BlockOf(c, p) \in BlockBox(c)
         /\ LocalOf(c, p) \in LocalBox(c, BlockOf(c, p))
         /\ PointOf(c, BlockOf(c, p), LocalOf(c, p)) = p
<1>1. \A d \in Dims(c) : c.dims[d] \in Nat \ {0}
  BY DimsAre
<1>2. p \in [Dims(c) -> Nat] /\ c.block_size \in Nat \ {0}
  BY DimsAre DEF Points
<1>3. ASSUME NEW d \in Dims(c)
      PROVE  /\ p[d] \div c.block_size \in Nat
             /\ p[d] \div c.block_size <= (c.dims[d] - 1) \div c.block_size
             /\ p[d] % c.block_size \in Nat
             /\ p[d] % c.block_size < Left(c.dims[d], c.block_size, p[d] \div c.block_size)
             /\ p[d] = (p[d] \div c.block_size) * c.block_size + (p[d] % c.block_size)
  <2>1. p[d] \in Nat /\ p[d] < c.dims[d]
    BY DEF Points
  <2> QED
    BY <1>1, <1>2, <2>1, CutIndex
<1>4. /\ BlockOf(c, p) \in [Dims(c) -> Nat] /\ LocalOf(c, p) \in [Dims(c) -> Nat]
      /\ \A d \in Dims(c) : BlockOf(c, p)[d] = p[d] \div c.block_size
      /\ \A d \in Dims(c) : LocalOf(c, p)[d] = p[d] % c.block_size
  BY <1>3, Zenon DEF BlockOf, LocalOf
<1>5. \A d \in Dims(c) : BlockOf(c, p)[d] * c.block_size + LocalOf(c, p)[d] = p[d]
  BY <1>3, <1>4, Zenon
<1>6. PointOf(c, BlockOf(c, p), LocalOf(c, p)) = [d \in Dims(c) |-> p[d]]
  BY <1>5, Zenon DEF PointOf
<1>7. p = [d \in Dims(c) |-> p[d]]
  BY <1>2
<1>8. BlockOf(c, p) \in BlockBox(c) /\ LocalOf(c, p) \in LocalBox(c, BlockOf(c, p))
  BY <1>3, <1>4, BoxesAre, Zenon
<1> QED
  BY <1>6, <1>7, <1>8

\* The same the other way round.
LEMMA JoinPoint ==
  ASSUME NEW c \in Configs, NEW b \in BlockBox(c), NEW l \in LocalBox(c, b)
  PROVE  /\ PointOf(c, b, l) \in Points(c)
         /\ BlockOf(c, PointOf(c, b, l)) = b
         /\ LocalOf(c, PointOf(c, b, l)) = l
<1>1. b \in [Dims(c) -> Nat] /\ l \in [Dims(c) -> Nat]
  BY BoxesAre, Zenon
<1>2. ASSUME NEW d \in Dims(c)
      PROVE  /\ b[d] * c.block_size + l[d] \in Nat /\ b[d] * c.block_size + l[d] < c.dims[d]
             /\ (b[d] * c.block_size + l[d]) \div c.block_size = b[d]
             /\ (b[d] * c.block_size + l[d]) % c.block_size = l[d]
  <2>1. b[d] <= (c.dims[d] - 1) \div c.block_size /\ l[d] < Left(c.dims[d], c.block_size, b[d])
    BY BoxesAre, Zenon
  <2>2. c.dims[d] \in Nat \ {0} /\ c.block_size \in Nat \ {0} /\ b[d] \in Nat /\ l[d] \in Nat
    BY <1>1, DimsAre
  <2>3. InBlock(c.dims[d], c.block_size, b[d], l[d])
    BY <2>1, <2>2 DEF InBlock
  <2> QED
    BY <2>3, JoinIndex
<1> PICK p : p = PointOf(c, b, l)
  OBVIOUS
<1>3. p \in [Dims(c) -> Nat] /\ \A d \in Dims(c) : p[d] = b[d] * c.block_size + l[d]
  BY <1>2, Zenon DEF PointOf
<1>4. p \in Points(c)
  BY <1>2, <1>3, Zenon DEF Points
<1>5. BlockOf(c, p) = [d \in Dims(c) |-> b[d]] /\ LocalOf(c, p) = [d \in Dims(c) |-> l[d]]
  BY <1>2, <1>3, Zenon DEF BlockOf, LocalOf
<1>6. b = [d \in Dims(c) |-> b[d]] /\ l = [d \in Dims(c) |-> l[d]]
  BY <1>1
<1> QED
  BY <1>4, <1>5, <1>6

-----------------------------------------------------------------------------
(* The two iterators of compress.                                          *)

\* The range of blocks.
LEMMA BlockRangeIs ==
  ASSUME NEW c \in Configs
  PROVE  /\ IsRange(BlockRange(c), Len(c.dims))
         /\ BlockRange(c).dims = Blocks(c)
         /\ BlockRange(c).start = 0
         /\ \A d \in Dims(c) : BlockRange(c).strides[d] = Strides(c)[d] * c.block_size
<1> PICK n : n = Len(c.dims)
  OBVIOUS
<1>1. n \in 1 .. 4 /\ Dims(c) = 1 .. n /\ Strides(c) \in [1 .. n -> Nat \ {0}]
  BY DimsAre, StridesAre
<1>2. /\ BlockRange(c).dims = Blocks(c)
      /\ BlockRange(c).strides = [d \in Dims(c) |-> Strides(c)[d] * c.block_size]
      /\ BlockRange(c).start = 0
      /\ BlockRange(c).end = BlockRange(c).dims[1] * BlockRange(c).strides[1]
  BY DEF BlockRange, Blocks
<1>3. ASSUME NEW d \in 1 .. n
      PROVE  /\ (c.dims[d] - 1) \div c.block_size + 1 \in Nat \ {0}
             /\ Strides(c)[d] * c.block_size \in Int
  <2>1. c.dims[d] - 1 \in Nat /\ c.block_size \in Nat \ {0} /\ Strides(c)[d] \in Nat
    BY <1>1, DimsAre
  <2>2. (c.dims[d] - 1) \div c.block_size \in Nat
    BY <2>1, QuotientOf
  <2>3. c.block_size * Strides(c)[d] \in Int
    BY <2>1
  <2> QED
    BY <2>1, <2>2, <2>3
<1>4. Blocks(c) \in [1 .. n -> Nat \ {0}] /\ BlockRange(c).strides \in [1 .. n -> Int]
  <2>1. Blocks(c) = [d \in 1 .. n |-> (c.dims[d] - 1) \div c.block_size + 1]
    BY <1>1, Zenon DEF Blocks
  <2>2. BlockRange(c).strides = [d \in 1 .. n |-> Strides(c)[d] * c.block_size]
    BY <1>1, <1>2, Zenon
  <2>3. Blocks(c) \in [1 .. n -> Nat \ {0}]
    BY <1>3, <2>1, Zenon
  <2>4. BlockRange(c).strides \in [1 .. n -> Int]
    BY <1>3, <2>2, Zenon
  <2> QED
    BY <2>3, <2>4
<1>5. Blocks(c)[1] \in Int /\ BlockRange(c).strides[1] \in Int
  BY <1>1, <1>4
<1>6. Blocks(c)[1] * BlockRange(c).strides[1] \in Int
  BY <1>5
<1>7. BlockRange(c).end = BlockRange(c).start + BlockRange(c).dims[1] * BlockRange(c).strides[1]
  BY <1>2, <1>6
<1>8. IsRange(BlockRange(c), n)
  BY <1>1, <1>2, <1>4, <1>7 DEF IsRange
<1>9. \A d \in Dims(c) : BlockRange(c).strides[d] = Strides(c)[d] * c.block_size
  BY <1>2
<1> QED
  BY <1>2, <1>8, <1>9

\* The range of the elements of a block.
LEMMA ElementRangeIs ==
  ASSUME NEW c \in Configs, NEW b, b.local \in BlockBox(c), b.offset \in Int
  PROVE  /\ IsRange(ElementRange(c, b), Len(c.dims))
         /\ ElementRange(c, b).dims = Extent(c, b.local)
         /\ ElementRange(c, b).strides = Strides(c)
         /\ ElementRange(c, b).start = b.offset
         /\ ElementRange(c, b).end = b.offset + Extent(c, b.local)[1] * Strides(c)[1]
<1> PICK n : n = Len(c.dims)
  OBVIOUS
<1>1. n \in 1 .. 4 /\ Dims(c) = 1 .. n /\ Strides(c) \in [1 .. n -> Nat \ {0}]
  BY DimsAre, StridesAre
<1>2. ASSUME NEW d \in 1 .. n
      PROVE  /\ (IF b.local[d] = BlockRange(c).dims[d] - 1
                 THEN c.dims[d] - b.local[d] * c.block_size
                 ELSE c.block_size) = Left(c.dims[d], c.block_size, b.local[d])
             /\ Left(c.dims[d], c.block_size, b.local[d]) \in Nat \ {0}
  <2>1. BlockRange(c).dims[d] = (c.dims[d] - 1) \div c.block_size + 1
    BY <1>1, BlockRangeIs DEF Blocks
  <2>2. c.dims[d] \in Nat \ {0} /\ c.block_size \in Nat \ {0}
    BY <1>1, DimsAre
  <2>3. b.local[d] \in Nat /\ b.local[d] <= (c.dims[d] - 1) \div c.block_size
    BY <1>1, BoxesAre
  <2> PICK x \in Nat : x = b.local[d]
    BY <2>3
  <2>4. (c.dims[d] - 1) \div c.block_size \in Nat
    BY <2>2, QuotientOf
  <2>5. BlockRange(c).dims[d] - 1 = (c.dims[d] - 1) \div c.block_size
    BY <2>1, <2>4
  <2>6. Left(c.dims[d], c.block_size, x) \in 1 .. c.block_size
    BY <2>2, <2>3, LeftIs
  <2> QED
    BY <2>2, <2>5, <2>6 DEF Left
<1>3. [d \in Dims(c) |-> IF b.local[d] = BlockRange(c).dims[d] - 1
                         THEN c.dims[d] - b.local[d] * c.block_size
                         ELSE c.block_size] = Extent(c, b.local)
  BY <1>1, <1>2, Zenon DEF Extent
<1>4. /\ ElementRange(c, b).dims = Extent(c, b.local)
      /\ ElementRange(c, b).strides = Strides(c)
      /\ ElementRange(c, b).start = b.offset
      /\ ElementRange(c, b).end = b.offset + Extent(c, b.local)[1] * Strides(c)[1]
  BY <1>3, Zenon DEF ElementRange
<1>5. Extent(c, b.local) \in [1 .. n -> Nat \ {0}]
  BY <1>1, <1>2, Zenon DEF Extent
<1>6. Strides(c) \in [1 .. n -> Int]
  BY <1>1
<1>7. IsRange(ElementRange(c, b), n)
  BY <1>1, <1>4, <1>5, <1>6 DEF IsRange
<1> QED
  BY <1>4, <1>7

\* At the end of its indices, an iterator is at the end.
LEMMA BeyondIsEnd ==
  ASSUME NEW range, NEW n, IsRange(range, n), NEW it, Aligned(range, it, n),
         it.local = Beyond(range.dims, n)
  PROVE  AtEnd(range, it)
<1> PICK a : a = it.local
  OBVIOUS
<1> PICK f : f = Steps(range, a, n)
  OBVIOUS
<1>1. /\ n \in 1 .. 4 /\ range.dims \in [1 .. n -> Nat \ {0}] /\ range.strides \in [1 .. n -> Int]
      /\ range.end = range.start + range.dims[1] * range.strides[1]
  BY DEF IsRange
<1>2. a \in [1 .. n -> Nat] /\ it.offset = range.start + SumFrom(f, 1)
  BY DEF Aligned
<1>3. /\ f \in [1 .. n -> Int]
      /\ SumFrom(f, 1) = a[1] * range.strides[1] + SumFrom(f, 2)
  BY <1>2, StepsAre
<1>4. a[1] = range.dims[1] /\ \A d \in 1 .. n : d >= 2 => a[d] = 0
  BY <1>1 DEF Beyond
<1>5. \A d \in 1 .. n : d >= 2 => f[d] = 0
  <2> SUFFICES ASSUME NEW d \in 1 .. n, d >= 2 PROVE f[d] = 0
    OBVIOUS
  <2>1. range.strides[d] \in Int /\ a[d] = 0
    BY <1>1, <1>4
  <2>2. f[d] = a[d] * range.strides[d]
    BY Zenon DEF Steps
  <2>3. 0 * range.strides[d] = 0
    BY <2>1, Products
  <2> QED
    BY <2>1, <2>2, <2>3, Zenon
<1>6. SumFrom(f, 2) = 0
  <2>1. 2 \in 1 .. n + 1
    BY <1>1
  <2> QED
    BY <1>1, <1>3, <1>5, <2>1, SumZero
<1>7. a[1] * range.strides[1] \in Int
  <2>1. a[1] \in Int /\ range.strides[1] \in Int
    BY <1>1, <1>2
  <2> QED
    BY <2>1
<1>8. SumFrom(f, 1) = range.dims[1] * range.strides[1]
  BY <1>3, <1>4, <1>6, <1>7
<1> QED
  BY <1>1, <1>2, <1>8, Zenon DEF AtEnd

\* A step from a block, less its start, is one along the array; so the offset is that of
\* the point in the array.
LEMMA OffsetIs ==
  ASSUME NEW c \in Configs, NEW b \in [Dims(c) -> Nat], NEW l \in [Dims(c) -> Nat], NEW range,
         range.strides = Strides(c)
  PROVE  /\ PointOf(c, b, l) \in [Dims(c) -> Nat]
         /\ Place(c, PointOf(c, b, l)) = SumFrom(Steps(BlockRange(c), b, Len(c.dims)), 1)
                                           + SumFrom(Steps(range, l, Len(c.dims)), 1)
<1> PICK n : n = Len(c.dims)
  OBVIOUS
<1> PICK size : size = c.block_size
  OBVIOUS
<1> PICK S : S = Strides(c)
  OBVIOUS
<1> DEFINE p == PointOf(c, b, l)
           f == Steps(BlockRange(c), b, n)
           g == Steps(range, l, n)
           h == Along(c, p)
<1>1. n \in 1 .. 4 /\ n \in 0 .. 4 /\ Dims(c) = 1 .. n /\ S \in [1 .. n -> Nat \ {0}] /\ size \in Nat
  BY DimsAre, StridesAre
<1>2. ASSUME NEW d \in 1 .. n
      PROVE  /\ b[d] * size + l[d] \in Nat
             /\ b[d] * (S[d] * size) \in Int /\ l[d] * S[d] \in Int
             /\ (b[d] * size + l[d]) * S[d] \in Int
             /\ (b[d] * size + l[d]) * S[d] = b[d] * (S[d] * size) + l[d] * S[d]
  <2> PICK x \in Nat, y \in Nat, t \in Nat : x = b[d] /\ y = l[d] /\ t = S[d]
    BY <1>1
  <2>1. x * size + y \in Nat
    BY <1>1
  <2>2. (x * size + y) * t = x * (t * size) + y * t
    BY <1>1
  <2>3. x * (t * size) \in Int /\ y * t \in Int
    BY <1>1
  <2> QED
    BY <2>1, <2>2, <2>3
<1>3. p \in [Dims(c) -> Nat] /\ \A d \in 1 .. n : p[d] = b[d] * size + l[d]
  BY <1>1, <1>2, Zenon DEF PointOf
<1>4. \A d \in 1 .. n : BlockRange(c).strides[d] = S[d] * size
  BY <1>1, BlockRangeIs
<1>5. /\ f \in [1 .. n -> Int] /\ g \in [1 .. n -> Int] /\ h \in [1 .. n -> Int]
      /\ \A d \in 1 .. n : f[d] = b[d] * (S[d] * size) /\ g[d] = l[d] * S[d]
                           /\ h[d] = (b[d] * size + l[d]) * S[d]
  BY <1>1, <1>2, <1>3, <1>4, Zenon DEF Steps, Along
<1>6. \A d \in 1 .. n : h[d] = f[d] + g[d]
  BY <1>2, <1>5, Zenon
<1> HIDE DEF f, g, h, p
<1>7. 1 \in 1 .. n + 1
  BY <1>1
<1>8. SumFrom(h, 1) = SumFrom(f, 1) + SumFrom(g, 1)
  <2> PICK u \in [1 .. n -> Int] : u = f
    BY <1>5, Zenon
  <2> PICK v \in [1 .. n -> Int] : v = g
    BY <1>5, Zenon
  <2> PICK w \in [1 .. n -> Int] : w = h
    BY <1>5, Zenon
  <2>1. \A d \in 1 .. n : w[d] = u[d] + v[d]
    BY <1>6, Zenon
  <2>2. Adds(u, v, w, n)
    BY <1>1, <2>1 DEF Adds
  <2>3. SumFrom(w, 1) = SumFrom(u, 1) + SumFrom(v, 1)
    BY <1>7, <2>2, SumPlus
  <2> QED
    BY <2>3, Zenon
<1> QED
  BY <1>3, <1>8 DEF Place, p, f, g, h

\* The element an iterator over the elements of a block points to.
LEMMA ElementPlace ==
  ASSUME NEW c \in Configs, NEW b, Aligned(BlockRange(c), b, Len(c.dims)), b.local \in BlockBox(c),
         NEW it, Aligned(ElementRange(c, b), it, Len(c.dims)), it.local \in LocalBox(c, b.local)
  PROVE  /\ PointOf(c, b.local, it.local) \in Points(c)
         /\ it.offset = Place(c, PointOf(c, b.local, it.local))
<1> PICK n : n = Len(c.dims)
  OBVIOUS
<1>1. Dims(c) = 1 .. n /\ b.local \in [Dims(c) -> Nat] /\ it.local \in [Dims(c) -> Nat]
  BY DimsAre DEF Aligned
<1> PICK x : x = SumFrom(Steps(BlockRange(c), b.local, n), 1)
  OBVIOUS
<1> PICK y : y = SumFrom(Steps(ElementRange(c, b), it.local, n), 1)
  OBVIOUS
<1>2. b.offset = 0 + x /\ x \in Int
  <2>1. b.offset = 0 + x
    BY BlockRangeIs DEF Aligned
  <2>2. x \in Int
    BY <1>1, BlockRangeIs, StepsAre
  <2> QED
    BY <2>1, <2>2
<1>3. b.offset \in Int /\ b.offset = x
  BY <1>2
<1>4. ElementRange(c, b).strides = Strides(c) /\ ElementRange(c, b).start = b.offset
  BY <1>3, ElementRangeIs
<1>5. it.offset = x + y
  BY <1>3, <1>4 DEF Aligned
<1>6. Place(c, PointOf(c, b.local, it.local)) = x + y
  BY <1>1, <1>4, OffsetIs
<1>7. PointOf(c, b.local, it.local) \in Points(c)
  BY JoinPoint
<1> QED
  BY <1>5, <1>6, <1>7

\* The end of the blocks is behind the last element.
LEMMA EndBehind ==
  ASSUME NEW c \in Configs
  PROVE  BlockRange(c).end \in Int /\ Size(c) <= BlockRange(c).end
<1> PICK len : len = c.dims[1]
  OBVIOUS
<1> PICK size : size = c.block_size
  OBVIOUS
<1> PICK s : s = Strides(c)[1]
  OBVIOUS
<1> PICK k : k = (len - 1) \div size
  OBVIOUS
<1>1. 1 \in Dims(c)
  BY DimsAre
<1>2. len \in Nat \ {0} /\ size \in Nat \ {0} /\ s \in Nat \ {0}
  BY <1>1, DimsAre, StridesAre
<1>3. k \in Nat /\ len <= (k + 1) * size
  <2>1. len - 1 \in Nat
    BY <1>2
  <2>2. k \in Nat
    BY <1>2, <2>1, QuotientOf
  <2>3. 0 \in Nat /\ 0 <= k
    BY <2>2
  <2> QED
    BY <1>2, <2>2, <2>3, LeftIs
<1>4. len * s <= ((k + 1) * size) * s
  <2> PICK z \in Nat : z = (k + 1) * size
    BY <1>2, <1>3
  <2>1. CASE len = z
    BY <1>2, <2>1
  <2>2. CASE len < z
    <3>1. len * s + s <= z * s
      BY <1>2, <2>2, OneStride
    <3>2. len * s \in Nat /\ z * s \in Nat
      BY <1>2
    <3> QED
      BY <1>2, <3>1, <3>2
  <2> QED
    BY <1>2, <1>3, <2>1, <2>2
<1>5. ((k + 1) * size) * s = (k + 1) * (s * size) /\ (k + 1) * (s * size) \in Int
  BY <1>2, <1>3
<1>6. BlockRange(c).end = (k + 1) * (s * size)
  <2>1. BlockRange(c).dims[1] = k + 1
    BY <1>1, BlockRangeIs DEF Blocks
  <2>2. BlockRange(c).strides[1] = s * size
    BY <1>1, BlockRangeIs
  <2>3. BlockRange(c).end = BlockRange(c).dims[1] * BlockRange(c).strides[1]
    BY DEF BlockRange
  <2> QED
    BY <2>1, <2>2, <2>3
<1> QED
  BY <1>4, <1>5, <1>6 DEF Size

\* An iterator that is not in its range has gone beyond it.
LEMMA BeyondIsOut ==
  ASSUME NEW n \in 1 .. 4, NEW B
  PROVE  Beyond(B, n) \notin Box(B, n)
<1>1. 1 \in 1 .. n
  OBVIOUS
<1>2. Beyond(B, n)[1] = B[1]
  BY <1>1 DEF Beyond
<1> SUFFICES ASSUME Beyond(B, n) \in Box(B, n) PROVE FALSE
  OBVIOUS
<1>3. Beyond(B, n)[1] \in Nat /\ Beyond(B, n)[1] < B[1]
  BY <1>1 DEF Box
<1> QED
  BY <1>2, <1>3

\* The iterator over blocks is at the end when it has left the last one: the start of no
\* block has the offset of the end.
LEMMA BlockEnds ==
  ASSUME NEW c \in Configs, NEW b, Aligned(BlockRange(c), b, Len(c.dims))
  PROVE  /\ b.offset \in Int
         /\ AtEnd(BlockRange(c), b) <=> b.local \notin BlockBox(c)
         /\ b.local \notin BlockBox(c) => b.local = Beyond(Blocks(c), Len(c.dims))
<1> PICK n : n = Len(c.dims)
  OBVIOUS
<1>1. n \in 1 .. 4 /\ Dims(c) = 1 .. n
  BY DimsAre
<1>2. /\ IsRange(BlockRange(c), n) /\ BlockRange(c).dims = Blocks(c) /\ BlockRange(c).start = 0
      /\ b.local \in [1 .. n -> Nat]
      /\ b.local \in BlockBox(c) \/ b.local = Beyond(Blocks(c), n)
      /\ b.offset = 0 + SumFrom(Steps(BlockRange(c), b.local, n), 1)
  BY BlockRangeIs DEF Aligned, BlockBox
<1>3. b.offset \in Int
  <2>1. SumFrom(Steps(BlockRange(c), b.local, n), 1) \in Int
    BY <1>2, StepsAre
  <2> QED
    BY <1>2, <2>1
<1>4. ASSUME b.local \notin BlockBox(c) PROVE AtEnd(BlockRange(c), b)
  BY <1>2, <1>4, BeyondIsEnd
<1>5. ASSUME b.local \in BlockBox(c) PROVE ~AtEnd(BlockRange(c), b)
  <2> PICK it : it = Begin(ElementRange(c, b))
    OBVIOUS
  <2>1. IsRange(ElementRange(c, b), n) /\ ElementRange(c, b).dims = Extent(c, b.local)
    BY <1>3, <1>5, ElementRangeIs
  <2>2. /\ it.local \in LocalBox(c, b.local) /\ Aligned(ElementRange(c, b), it, n)
    BY <2>1, BeginAligned DEF LocalBox
  <2>3. it.offset = b.offset
    BY <1>3, <1>5, ElementRangeIs DEF Begin
  <2>4. it.offset \in 0 .. Size(c) - 1
    BY <1>5, <2>2, ElementPlace, DigitsAre
  <2>5. Size(c) \in Int
    BY SizeIs
  <2>6. b.offset < BlockRange(c).end
    BY <1>3, <2>3, <2>4, <2>5, EndBehind
  <2> QED
    BY <1>3, <2>6, EndBehind DEF AtEnd
<1> QED
  BY <1>2, <1>3, <1>4, <1>5

\* So is the one over the elements of a block.
LEMMA ElementEnds ==
  ASSUME NEW c \in Configs, NEW b, b.local \in BlockBox(c), b.offset \in Int,
         NEW it, Aligned(ElementRange(c, b), it, Len(c.dims))
  PROVE  /\ AtEnd(ElementRange(c, b), it) <=> it.local \notin LocalBox(c, b.local)
         /\ it.local \notin LocalBox(c, b.local) => it.local = Beyond(Extent(c, b.local), Len(c.dims))
<1> PICK n : n = Len(c.dims)
  OBVIOUS
<1> PICK E : E = Extent(c, b.local)
  OBVIOUS
<1> PICK S : S = Strides(c)
  OBVIOUS
<1> PICK l : l = it.local
  OBVIOUS
<1>1. n \in 1 .. 4 /\ Dims(c) = 1 .. n /\ 1 \in Dims(c) /\ S \in [1 .. n -> Nat \ {0}]
  BY DimsAre, StridesAre
<1>2. /\ IsRange(ElementRange(c, b), n) /\ ElementRange(c, b).dims = E
      /\ ElementRange(c, b).start = b.offset /\ ElementRange(c, b).strides = S
      /\ ElementRange(c, b).end = b.offset + E[1] * S[1]
  BY ElementRangeIs
<1>3. /\ l \in [1 .. n -> Nat]
      /\ l \in LocalBox(c, b.local) \/ l = Beyond(E, n)
      /\ it.offset = b.offset + SumFrom(Steps(ElementRange(c, b), l, n), 1)
  BY <1>2 DEF Aligned, LocalBox
<1>4. ASSUME l \notin LocalBox(c, b.local) PROVE AtEnd(ElementRange(c, b), it)
  BY <1>2, <1>3, <1>4, BeyondIsEnd
<1>5. ASSUME l \in LocalBox(c, b.local) PROVE ~AtEnd(ElementRange(c, b), it)
  <2>1. Steps(ElementRange(c, b), l, n) = Along(c, l)
    BY <1>1, <1>2, Zenon DEF Steps, Along
  <2> PICK r : r = SumFrom(Along(c, l), 2)
    OBVIOUS
  <2>2. SumFrom(Along(c, l), 1) = l[1] * S[1] + r
    <3>1. SumFrom(Along(c, l), 1) = l[1] * Strides(c)[1] + SumFrom(Along(c, l), 1 + 1)
      BY <1>1, <1>3, AlongIs
    <3> QED
      BY <3>1
  <2>3. \A d \in Dims(c) : l[d] < E[d] /\ E[d] \in Nat \ {0} /\ l[d] < c.dims[d]
    <3> SUFFICES ASSUME NEW d \in Dims(c)
                 PROVE  l[d] < E[d] /\ E[d] \in Nat \ {0} /\ l[d] < c.dims[d]
      OBVIOUS
    <3>1. E \in [1 .. n -> Nat \ {0}]
      BY <1>2 DEF IsRange
    <3>2. l[d] < E[d]
      BY <1>1, <1>5 DEF LocalBox, Box
    <3>3. PointOf(c, b.local, l) \in Points(c)
      BY <1>5, JoinPoint
    <3>4. b.local[d] * c.block_size + l[d] < c.dims[d]
      BY <3>3 DEF Points, PointOf
    <3>5. b.local[d] \in Nat /\ c.block_size \in Nat /\ l[d] \in Nat /\ c.dims[d] \in Nat
      BY <1>1, <1>3, DimsAre, BoxesAre
    <3>6. b.local[d] * c.block_size \in Nat
      BY <3>5
    <3>7. l[d] < c.dims[d]
      BY <3>4, <3>5, <3>6
    <3> QED
      BY <1>1, <3>1, <3>2, <3>7
  <2>4. r \in 0 .. S[1] - 1
    <3>1. SumFrom(Along(c, l), 1 + 1) \in 0 .. Strides(c)[1] - 1
      BY <1>1, <1>3, <2>3, RestIs
    <3> QED
      BY <3>1
  <2>5. l[1] * S[1] + r \in 0 .. S[1] * E[1] - 1
    <3>1. l[1] \in Nat /\ E[1] \in Nat \ {0} /\ S[1] \in Nat \ {0} /\ l[1] < E[1]
      BY <1>1, <1>3, <2>3
    <3> QED
      BY <2>4, <3>1, Digit
  <2>6. S[1] * E[1] = E[1] * S[1] /\ E[1] * S[1] \in Int
    <3>1. E[1] \in Int /\ S[1] \in Int
      BY <1>1, <2>3
    <3> QED
      BY <3>1
  <2>7. it.offset = b.offset + (l[1] * S[1] + r)
    BY <1>3, <2>1, <2>2
  <2>8. it.offset < ElementRange(c, b).end
    BY <1>2, <2>5, <2>6, <2>7
  <2>9. it.offset \in Int /\ ElementRange(c, b).end \in Int
    BY <1>2, <2>5, <2>6, <2>7
  <2> QED
    BY <2>8, <2>9 DEF AtEnd
<1> QED
  BY <1>3, <1>4, <1>5

-----------------------------------------------------------------------------
(* What is coded when the iterators are somewhere.                         *)

\* The points of the blocks before b.
CodedBefore(c, b) == {p \in Points(c) : Before(BlockOf(c, p), b, Len(c.dims))}

\* And those of b at places before l.
CodedIn(c, b, l) ==
  {p \in Points(c) :
     \/ Before(BlockOf(c, p), b, Len(c.dims))
     \/ BlockOf(c, p) = b /\ Before(LocalOf(c, p), l, Len(c.dims))}

\* Nothing at the start.
LEMMA NoneCoded ==
  ASSUME NEW c \in Configs, NEW b, b = [d \in 1 .. Len(c.dims) |-> 0]
  PROVE  CodedBefore(c, b) = {}
<1> SUFFICES ASSUME NEW p \in Points(c), Before(BlockOf(c, p), b, Len(c.dims)) PROVE FALSE
  BY DEF CodedBefore
<1>1. Len(c.dims) \in Nat /\ BlockOf(c, p) \in [1 .. Len(c.dims) -> Nat]
  BY CutPoint, DimsAre DEF BlockBox, Box
<1> QED
  BY <1>1, NoneBefore

\* Starting a block codes nothing.
LEMMA StartCodesNothing ==
  ASSUME NEW c \in Configs, NEW b, NEW l, l = [d \in 1 .. Len(c.dims) |-> 0]
  PROVE  CodedIn(c, b, l) = CodedBefore(c, b)
<1> SUFFICES ASSUME NEW p \in Points(c) PROVE ~Before(LocalOf(c, p), l, Len(c.dims))
  BY DEF CodedBefore, CodedIn
<1>1. Len(c.dims) \in Nat /\ LocalOf(c, p) \in [1 .. Len(c.dims) -> Nat]
  BY CutPoint, DimsAre DEF LocalBox, Box
<1> QED
  BY <1>1, NoneBefore

\* An element more is a point more.
LEMMA NextPlaceCoded ==
  ASSUME NEW c \in Configs, NEW b \in BlockBox(c), NEW l \in LocalBox(c, b), NEW next,
         \A q \in LocalBox(c, b) :
           Before(q, next, Len(c.dims)) <=> Before(q, l, Len(c.dims)) \/ q = l
  PROVE  CodedIn(c, b, next) = CodedIn(c, b, l) \cup {PointOf(c, b, l)}
<1>1. PointOf(c, b, l) \in Points(c)
  BY JoinPoint
<1>2. ASSUME NEW p \in Points(c)
      PROVE  p \in CodedIn(c, b, next) <=> p \in CodedIn(c, b, l) \/ p = PointOf(c, b, l)
  <2>1. CASE BlockOf(c, p) = b
    <3>1. LocalOf(c, p) \in LocalBox(c, b)
      BY <2>1, CutPoint
    <3>2. LocalOf(c, p) = l <=> p = PointOf(c, b, l)
      BY <2>1, CutPoint, JoinPoint
    <3> QED
      BY <2>1, <3>1, <3>2 DEF CodedIn
  <2>2. CASE BlockOf(c, p) # b
    <3>1. p # PointOf(c, b, l)
      BY <2>2, JoinPoint
    <3> QED
      BY <2>2, <3>1 DEF CodedIn
  <2> QED
    BY <2>1, <2>2
<1>3. CodedIn(c, b, next) \subseteq Points(c) /\ CodedIn(c, b, l) \subseteq Points(c)
  BY DEF CodedIn
<1> QED
  BY <1>1, <1>2, <1>3

\* When the last element of a block is coded, all points up to the next block are.
LEMMA NextBlockCoded ==
  ASSUME NEW c \in Configs, NEW b \in BlockBox(c), NEW next,
         \A q \in BlockBox(c) :
           Before(q, next, Len(c.dims)) <=> Before(q, b, Len(c.dims)) \/ q = b
  PROVE  CodedBefore(c, next) = CodedIn(c, b, Beyond(Extent(c, b), Len(c.dims)))
<1> PICK n : n = Len(c.dims)
  OBVIOUS
<1>1. n \in Nat \ {0}
  BY DimsAre
<1>2. ASSUME NEW p \in Points(c)
      PROVE  p \in CodedBefore(c, next) <=> p \in CodedIn(c, b, Beyond(Extent(c, b), n))
  <2>1. BlockOf(c, p) \in BlockBox(c) /\ LocalOf(c, p) \in LocalBox(c, BlockOf(c, p))
    BY CutPoint
  <2>2. BlockOf(c, p) = b => Before(LocalOf(c, p), Beyond(Extent(c, b), n), n)
    BY <1>1, <2>1, AllBefore DEF LocalBox
  <2> QED
    BY <2>1, <2>2 DEF CodedBefore, CodedIn
<1>3. /\ CodedBefore(c, next) \subseteq Points(c)
      /\ CodedIn(c, b, Beyond(Extent(c, b), n)) \subseteq Points(c)
  BY DEF CodedBefore, CodedIn
<1> QED
  BY <1>2, <1>3

\* At the end of the blocks, everything is coded.
LEMMA EverythingCoded ==
  ASSUME NEW c \in Configs
  PROVE  CodedBefore(c, Beyond(Blocks(c), Len(c.dims))) = Points(c)
<1> SUFFICES ASSUME NEW p \in Points(c)
             PROVE  Before(BlockOf(c, p), Beyond(Blocks(c), Len(c.dims)), Len(c.dims))
  BY DEF CodedBefore
<1>1. Len(c.dims) \in Nat \ {0}
  BY DimsAre
<1>2. BlockOf(c, p) \in Box(Blocks(c), Len(c.dims))
  BY CutPoint DEF BlockBox
<1> QED
  BY <1>1, <1>2, AllBefore

\* The element about to be coded is not.
LEMMA NotYetCoded ==
  ASSUME NEW c \in Configs, NEW b \in BlockBox(c), NEW l \in LocalBox(c, b)
  PROVE  PointOf(c, b, l) \notin CodedIn(c, b, l)
<1> PICK n : n = Len(c.dims)
  OBVIOUS
<1>1. n \in Nat /\ b \in [1 .. n -> Nat] /\ l \in [1 .. n -> Nat]
  BY DimsAre DEF BlockBox, LocalBox, Box
<1>2. ~Before(b, b, n) /\ ~Before(l, l, n)
  BY <1>1, NotBefore
<1> QED
  BY <1>2, JoinPoint DEF CodedIn

\* The offsets of points.
Places(c, P) == {Place(c, p) : p \in P}

\* Those of all points are all offsets.
LEMMA AllPlaces ==
  ASSUME NEW c \in Configs
  PROVE  Places(c, Points(c)) = 0 .. Size(c) - 1
<1>1. ASSUME NEW o \in Places(c, Points(c)) PROVE o \in 0 .. Size(c) - 1
  <2>1. PICK p \in Points(c) : o = Place(c, p)
    BY DEF Places
  <2> QED
    BY <2>1, DigitsAre
<1>2. ASSUME NEW o \in 0 .. Size(c) - 1 PROVE o \in Places(c, Points(c))
  <2>1. PointAt(c, o) \in Points(c) /\ Place(c, PointAt(c, o)) = o
    BY PlaceOnto
  <2> QED
    BY <2>1 DEF Places
<1> QED
  BY <1>1, <1>2

\* What a batch of one element adds to what is known.
LEMMA KnownIs ==
  ASSUME NEW l, IsSeq(l), NEW e
  PROVE  /\ Order!Known(<<>>) = {}
         /\ Order!Known(Append(l, {e})) = Order!Known(l) \cup {e.at}
<1>1. \A log2 : Order!Known(log2) = Happened(log2)
  BY DEF Order!Known, Order!Coded, Happened
<1> QED
  BY <1>1, HappenedIs, Zenon

-----------------------------------------------------------------------------
(* compress is where the iterators say.                                    *)

\* The points that are coded.
CodedPoints ==
  IF pc = "element" THEN CodedIn(cfg, block.local, elem.local)
                    ELSE CodedBefore(cfg, block.local)

\* The offsets of the iterators are those of their indices, and what is in the log are the
\* elements they have passed.
Placed ==
  /\ Aligned(BlockRange(cfg), block, Len(cfg.dims))
  /\ pc = "element" => /\ block.local \in BlockBox(cfg)
                       /\ Aligned(ElementRange(cfg, block), elem, Len(cfg.dims))
  /\ pc \notin Encoding => AtEnd(BlockRange(cfg), block)
  /\ Order!Known(log) = Places(cfg, CodedPoints)

\* compress sets out with nothing coded.
LEMMA PlacedInit == Init => Placed
<1> SUFFICES ASSUME Init PROVE Placed
  OBVIOUS
<1>1. /\ cfg \in Configs /\ pc = "block" /\ block = Begin(BlockRange(cfg)) /\ log = <<>>
  BY DEF Init
<1> PICK n : n = Len(cfg.dims)
  OBVIOUS
<1>2. /\ Aligned(BlockRange(cfg), block, n)
      /\ block.local = [d \in 1 .. n |-> 0]
  BY <1>1, BlockRangeIs, BeginAligned
<1>3. CodedPoints = {}
  BY <1>1, <1>2, NoneCoded DEF CodedPoints
<1>4. IsSeq(log)
  BY <1>1 DEF IsSeq
<1>5. Order!Known(log) = {} /\ Places(cfg, CodedPoints) = {}
  BY <1>1, <1>3, <1>4, KnownIs DEF Places
<1> QED
  BY <1>1, <1>2, <1>5 DEF Placed, Encoding

\* It enters a block at its first element.
LEMMA EnterPlaces ==
  ASSUME Typed, Placed, pc = "block", ~AtEnd(BlockRange(cfg), block),
         elem' = Begin(ElementRange(cfg, block)), pc' = "element", UNCHANGED <<cfg, block, log>>
  PROVE  Placed'
<1> PICK n : n = Len(cfg.dims)
  OBVIOUS
<1> PICK c \in Configs : c = cfg
  BY DEF Typed
<1> PICK b : b = block
  OBVIOUS
<1>1. cfg' = c /\ block' = b /\ log' = log
  OBVIOUS
<1>2. /\ Aligned(BlockRange(c), b, n)
      /\ Order!Known(log) = Places(c, CodedBefore(c, b.local))
  BY DEF Placed, CodedPoints
<1>3. b.local \in BlockBox(c) /\ b.offset \in Int
  BY <1>2, BlockEnds
<1>4. IsRange(ElementRange(c, b), n)
  BY <1>3, ElementRangeIs
<1>5. /\ Aligned(ElementRange(c, b), elem', n)
      /\ elem'.local = [d \in 1 .. n |-> 0]
  BY <1>4, BeginAligned
<1>6. CodedIn(c, b.local, elem'.local) = CodedBefore(c, b.local)
  BY <1>5, StartCodesNothing
<1>7. Order!Known(log') = Places(c, CodedIn(c, b.local, elem'.local))
  BY <1>1, <1>2, <1>6
<1>8. CodedPoints' = CodedIn(c, b.local, elem'.local)
  BY <1>1 DEF CodedPoints
<1> QED
  BY <1>1, <1>2, <1>3, <1>5, <1>7, <1>8 DEF Placed, Encoding

\* An element is coded, at the point the two iterators point to.
LEMMA CodePlaces ==
  ASSUME Typed, Placed, CodeElement
  PROVE  Placed'
<1> PICK n : n = Len(cfg.dims)
  OBVIOUS
<1> PICK c \in Configs : c = cfg
  BY DEF Typed
<1> PICK b : b = block
  OBVIOUS
<1> PICK l : l = elem.local
  OBVIOUS
<1>1. /\ pc = "element" /\ pc' = "element" /\ cfg' = c /\ block' = b
      /\ ~AtEnd(ElementRange(c, b), elem)
      /\ log' = Append(log, {Event(c, ElementRange(c, b), elem, used[Len(used)].by)})
      /\ elem' = Increment(ElementRange(c, b), elem)
  BY DEF CodeElement
<1>2. /\ Aligned(BlockRange(c), b, n) /\ b.local \in BlockBox(c)
      /\ Aligned(ElementRange(c, b), elem, n)
      /\ Order!Known(log) = Places(c, CodedIn(c, b.local, l))
  BY <1>1 DEF Placed, CodedPoints
<1>3. b.offset \in Int
  BY <1>2, BlockEnds
<1>4. l \in LocalBox(c, b.local)
  BY <1>1, <1>2, <1>3, ElementEnds
<1>5. /\ IsRange(ElementRange(c, b), n)
      /\ LocalBox(c, b.local) = Box(ElementRange(c, b).dims, n)
  BY <1>2, <1>3, ElementRangeIs DEF LocalBox
<1>6. /\ Aligned(ElementRange(c, b), elem', n)
      /\ \A q \in LocalBox(c, b.local) : Before(q, elem'.local, n) <=> Before(q, l, n) \/ q = l
  BY <1>1, <1>2, <1>4, <1>5, IncrementAligned
<1>7. CodedIn(c, b.local, elem'.local)
        = CodedIn(c, b.local, l) \cup {PointOf(c, b.local, l)}
  BY <1>2, <1>4, <1>6, NextPlaceCoded
<1>8. elem.offset = Place(c, PointOf(c, b.local, l))
  BY <1>2, <1>4, ElementPlace
<1>9. Order!Known(log') = Order!Known(log) \cup {elem.offset}
  <2>1. IsSeq(log)
    BY DEF Typed
  <2>2. Event(c, ElementRange(c, b), elem, used[Len(used)].by).at = elem.offset
    BY DEF Event
  <2> QED
    BY <1>1, <2>1, <2>2, KnownIs
<1>10. Order!Known(log') = Places(c, CodedIn(c, b.local, elem'.local))
  BY <1>2, <1>7, <1>8, <1>9 DEF Places
<1>11. CodedPoints' = CodedIn(c, b.local, elem'.local)
  BY <1>1 DEF CodedPoints
<1> QED
  BY <1>1, <1>2, <1>6, <1>10, <1>11 DEF Placed, Encoding

\* It goes on to the next block.
LEMMA NextPlaces ==
  ASSUME Typed, Placed, NextBlock
  PROVE  Placed'
<1> PICK n : n = Len(cfg.dims)
  OBVIOUS
<1> PICK c \in Configs : c = cfg
  BY DEF Typed
<1> PICK b : b = block
  OBVIOUS
<1>1. /\ pc = "element" /\ pc' = "block" /\ cfg' = c /\ log' = log
      /\ AtEnd(ElementRange(c, b), elem)
      /\ block' = Increment(BlockRange(c), b)
  BY DEF NextBlock
<1>2. /\ Aligned(BlockRange(c), b, n) /\ b.local \in BlockBox(c)
      /\ Aligned(ElementRange(c, b), elem, n)
      /\ Order!Known(log) = Places(c, CodedIn(c, b.local, elem.local))
  BY <1>1 DEF Placed, CodedPoints
<1>3. b.offset \in Int
  BY <1>2, BlockEnds
<1>4. elem.local = Beyond(Extent(c, b.local), n)
  BY <1>1, <1>2, <1>3, ElementEnds
<1>5. IsRange(BlockRange(c), n) /\ BlockBox(c) = Box(BlockRange(c).dims, n)
  BY BlockRangeIs DEF BlockBox
<1>6. /\ Aligned(BlockRange(c), block', n)
      /\ \A q \in BlockBox(c) : Before(q, block'.local, n) <=> Before(q, b.local, n) \/ q = b.local
  BY <1>1, <1>2, <1>5, IncrementAligned
<1>7. CodedBefore(c, block'.local) = CodedIn(c, b.local, elem.local)
  BY <1>2, <1>4, <1>6, NextBlockCoded
<1>8. Order!Known(log') = Places(c, CodedBefore(c, block'.local))
  BY <1>1, <1>2, <1>7
<1>9. CodedPoints' = CodedBefore(c, block'.local)
  BY <1>1 DEF CodedPoints
<1> QED
  BY <1>1, <1>6, <1>8, <1>9 DEF Placed, Encoding

\* Nothing else codes elements.
LEMMA PlacesWait ==
  ASSUME Placed, UNCHANGED <<cfg, block, elem, log>>,
         pc' = pc \/ (pc # "element" /\ pc' \notin Encoding /\ AtEnd(BlockRange(cfg), block))
  PROVE  Placed'
<1>1. CodedPoints' = CodedPoints
  BY DEF CodedPoints, Encoding
<1>2. Order!Known(log') = Order!Known(log)
  OBVIOUS
<1> QED
  BY <1>1, <1>2 DEF Placed, Encoding

\* Every step of compress and decompress leaves it so.
LEMMA PlacedNext == Typed /\ Placed /\ [Next]_vars => Placed'
<1> SUFFICES ASSUME Typed, Placed, [Next]_vars PROVE Placed'
  OBVIOUS
<1>0. pc \notin Encoding => AtEnd(BlockRange(cfg), block)
  BY DEF Placed
<1>1. CASE StartBlock
  BY <1>1, EnterPlaces DEF StartBlock
<1>2. CASE StartFallback
  BY <1>2, EnterPlaces DEF StartFallback
<1>3. CASE CodeElement
  BY <1>3, CodePlaces
<1>4. CASE NextBlock
  BY <1>4, NextPlaces
<1>5. CASE SaveExits
  BY <1>5, PlacesWait DEF SaveExits, encVars, Encoding
<1>6. CASE Save
  BY <1>6, PlacesWait DEF Save, encVars, Encoding
<1>7. CASE DecodeRunsOff
  BY <1>0, <1>7, PlacesWait DEF DecodeRunsOff, encVars, Encoding
<1>8. CASE DecodeStartBlock
  BY <1>0, <1>8, PlacesWait DEF DecodeStartBlock, encVars, Encoding
<1>9. CASE DecodeElement
  BY <1>9, PlacesWait DEF DecodeElement, encVars
<1>10. CASE DecodeNextBlock
  BY <1>0, <1>10, PlacesWait DEF DecodeNextBlock, encVars, Encoding
<1>11. CASE Return
  BY <1>0, <1>11, PlacesWait DEF Return, encVars, Encoding
<1>12. CASE Done \/ UNCHANGED vars
  BY <1>12, PlacesWait DEF Done, vars, encVars
<1> QED
  BY <1>1, <1>2, <1>3, <1>4, <1>5, <1>6, <1>7, <1>8, <1>9, <1>10, <1>11, <1>12 DEF Next

\* The iterators of compress and what they have passed, in every reachable state.
THEOREM InductivePlaces == Spec => [](Typed /\ Placed)
<1>1. Init => Typed /\ Placed
  BY TypedInit, PlacedInit
<1>2. Typed /\ Placed /\ [Next]_vars => (Typed /\ Placed)'
  BY TypedNext, PlacedNext
<1> QED
  BY <1>1, <1>2, PTL DEF Spec

\* compress codes every element of the array, whatever its shape and the block size.
THEOREM AlwaysAllCoded == Spec => []AllCoded
<1>1. Typed /\ Placed => AllCoded
  <2> SUFFICES ASSUME Typed, Placed, pc \notin {"block", "element"}
               PROVE  Order!Known(log) = 0 .. (Size(cfg) - 1)
    BY DEF AllCoded
  <2>1. cfg \in Configs /\ Aligned(BlockRange(cfg), block, Len(cfg.dims)) /\ AtEnd(BlockRange(cfg), block)
    BY DEF Typed, Placed, Encoding
  <2>2. block.local = Beyond(Blocks(cfg), Len(cfg.dims))
    BY <2>1, BlockEnds
  <2>3. CodedPoints = Points(cfg)
    BY <2>1, <2>2, EverythingCoded DEF CodedPoints
  <2> QED
    BY <2>1, <2>3, AllPlaces DEF Placed
<1> QED
  BY <1>1, InductivePlaces, PTL

-----------------------------------------------------------------------------
(* What Lorenzo prediction reads.                                          *)

\* No predictor has more layers than a block has elements across.
LayersFit(c) == \A k \in 1 .. Len(c.methods) : Layers(c, c.methods[k]) <= c.block_size

\* pos is that of a term of a predictor whose layers fit.
IsTerm(c, pos) ==
  /\ pos \in [Dims(c) -> Nat]
  /\ \A d \in Dims(c) : pos[d] <= c.block_size
  /\ \E d \in Dims(c) : pos[d] # 0

\* The terms of a predictor are such.
LEMMA TermsAre ==
  ASSUME NEW c \in Configs, NEW layers \in Nat, layers <= c.block_size,
         NEW pos \in Terms(Len(c.dims), layers)
  PROVE  IsTerm(c, pos)
<1> PICK n : n = Len(c.dims)
  OBVIOUS
<1>1. n \in 1 .. 4 /\ Dims(c) = 1 .. n /\ c.block_size \in Nat
  BY DimsAre
<1>2. pos \in [1 .. n -> 0 .. layers] /\ pos # [d \in 1 .. n |-> 0]
  BY DEF Terms
<1>3. pos \in [1 .. n -> Nat] /\ \A d \in 1 .. n : pos[d] <= c.block_size
  BY <1>1, <1>2
<1>4. \E d \in 1 .. n : pos[d] # 0
  <2> SUFFICES ASSUME \A d \in 1 .. n : pos[d] = 0 PROVE FALSE
    OBVIOUS
  <2>1. pos = [d \in 1 .. n |-> pos[d]]
    BY <1>3
  <2>2. pos = [d \in 1 .. n |-> 0]
    BY <2>1
  <2> QED
    BY <1>2, <2>2
<1> QED
  BY <1>1, <1>3, <1>4 DEF IsTerm

\* The element that many places before along each direction.
Back(c, p, pos) == [d \in Dims(c) |-> p[d] - pos[d]]

\* prev has somewhere to go.
HasBack(c, p, pos) == \A d \in Dims(c) : pos[d] <= p[d]

\* z goes back by no more than a block.
IsReach(x, y, z, size) == x \in Nat /\ y \in Nat /\ z \in Nat /\ size \in Nat /\ z <= size

\* What is not in the first block has a whole block in front of it.
LEMMA Reach ==
  ASSUME NEW x, NEW y, NEW z, NEW size, IsReach(x, y, z, size)
  PROVE  /\ x # 0 => z <= x * size + y
         /\ x = 0 => x * size + y = y
<1>0. x \in Nat /\ y \in Nat /\ z \in Nat /\ size \in Nat /\ z <= size
  BY DEF IsReach
<1>1. ASSUME x # 0 PROVE z <= x * size + y
  <2>1. PICK w \in Nat : x = w + 1
    <3>1. x - 1 \in Nat /\ x = (x - 1) + 1
      BY <1>0, <1>1
    <3> QED
      BY <3>1
  <2>2. (w + 1) * size = w * size + size /\ w * size \in Nat
    BY <1>0
  <2> QED
    BY <1>0, <2>1, <2>2
<1> QED
  BY <1>0, <1>1

\* Sums of multiples.
LEMMA Multiples ==
  ASSUME NEW x \in Nat, NEW y \in Nat, NEW s \in Nat
  PROVE  (x + y) * s = x * s + y * s
OBVIOUS

\* Going back from a point of the array stays in it, and the offset goes back by what pos
\* adds along the directions.
LEMMA BackIs ==
  ASSUME NEW c \in Configs, NEW p \in Points(c), NEW pos, IsTerm(c, pos), HasBack(c, p, pos)
  PROVE  /\ Back(c, p, pos) \in Points(c)
         /\ Place(c, p) = Place(c, Back(c, p, pos)) + Place(c, pos)
         /\ Place(c, pos) \in Nat /\ Place(c, Back(c, p, pos)) \in Nat
<1> PICK n : n = Len(c.dims)
  OBVIOUS
<1> PICK S : S = Strides(c)
  OBVIOUS
<1> PICK q : q = Back(c, p, pos)
  OBVIOUS
<1>1. /\ n \in 1 .. 4 /\ n \in 0 .. 4 /\ 1 \in 1 .. n + 1 /\ Dims(c) = 1 .. n
      /\ S \in [1 .. n -> Nat \ {0}]
  BY DimsAre, StridesAre
<1>2. /\ p \in [1 .. n -> Nat] /\ pos \in [1 .. n -> Nat]
      /\ \A d \in 1 .. n : pos[d] <= p[d] /\ p[d] < c.dims[d] /\ c.dims[d] \in Nat
  BY <1>1, DimsAre DEF Points, IsTerm, HasBack
<1>3. q \in [1 .. n -> Nat] /\ \A d \in 1 .. n : q[d] = p[d] - pos[d] /\ q[d] < c.dims[d]
  <2>1. q = [d \in 1 .. n |-> p[d] - pos[d]]
    BY <1>1 DEF Back
  <2>2. \A d \in 1 .. n : p[d] - pos[d] \in Nat /\ p[d] - pos[d] < c.dims[d]
    BY <1>2
  <2> QED
    BY <2>1, <2>2
<1>4. q \in Points(c)
  BY <1>1, <1>3 DEF Points
<1>5. ASSUME NEW d \in 1 .. n PROVE p[d] * S[d] = q[d] * S[d] + pos[d] * S[d]
  <2>1. p[d] \in Nat /\ pos[d] \in Nat /\ q[d] \in Nat /\ S[d] \in Nat /\ q[d] = p[d] - pos[d]
    BY <1>1, <1>2, <1>3
  <2>2. p[d] = q[d] + pos[d]
    BY <2>1
  <2>3. (q[d] + pos[d]) * S[d] = q[d] * S[d] + pos[d] * S[d]
    BY <2>1, Multiples
  <2> QED
    BY <2>2, <2>3, Zenon
<1> PICK f : f = Along(c, q)
  OBVIOUS
<1> PICK g : g = Along(c, pos)
  OBVIOUS
<1> PICK h : h = Along(c, p)
  OBVIOUS
<1>6. /\ f \in [1 .. n -> Nat] /\ g \in [1 .. n -> Nat] /\ h \in [1 .. n -> Nat]
  BY <1>1, <1>2, <1>3, AlongIs
<1>7. /\ f \in [1 .. n -> Int] /\ g \in [1 .. n -> Int] /\ h \in [1 .. n -> Int]
  BY <1>6
<1>8. \A d \in 1 .. n : h[d] = f[d] + g[d]
  BY <1>1, <1>5 DEF Along
<1>9. Adds(f, g, h, n)
  BY <1>1, <1>7, <1>8 DEF Adds
<1>10. SumFrom(h, 1) = SumFrom(f, 1) + SumFrom(g, 1)
  BY <1>1, <1>9, SumPlus
<1>11. SumFrom(f, 1) \in Nat /\ SumFrom(g, 1) \in Nat
  BY <1>1, <1>6, SumNat
<1> QED
  BY <1>4, <1>10, <1>11 DEF Place

\* prev reads that element; it is 0 where there is none: a block that is not the first
\* along a direction has at least block_size elements in front of it.
LEMMA PrevIs ==
  ASSUME NEW c \in Configs, NEW b, Aligned(BlockRange(c), b, Len(c.dims)), b.local \in BlockBox(c),
         NEW it, Aligned(ElementRange(c, b), it, Len(c.dims)), it.local \in LocalBox(c, b.local),
         NEW pos, IsTerm(c, pos), NEW p, p = PointOf(c, b.local, it.local)
  PROVE  Prev(ElementRange(c, b), it, pos)
           = IF HasBack(c, p, pos) THEN {Place(c, Back(c, p, pos))} ELSE {}
<1> PICK l : l = it.local
  OBVIOUS
<1> PICK k : k = b.local
  OBVIOUS
<1> PICK range : range = ElementRange(c, b)
  OBVIOUS
<1>1. /\ p \in Points(c) /\ it.offset = Place(c, p)
      /\ k \in [Dims(c) -> Nat] /\ l \in [Dims(c) -> Nat]
  BY ElementPlace, BoxesAre
<1>2. /\ \A d \in Dims(c) : range.left_boundary[d] <=> k[d] = 0
      /\ range.strides = Strides(c)
  <2>1. \A d \in Dims(c) : range.left_boundary[d] = (k[d] = 0)
    BY DEF ElementRange
  <2>2. range.strides = Strides(c)
    BY DEF ElementRange
  <2> QED
    BY <2>1, <2>2
<1>3. pos \in [Dims(c) -> Nat] /\ DOMAIN pos = Dims(c) /\ \A d \in Dims(c) : pos[d] <= c.block_size
  BY DEF IsTerm
<1>4. ASSUME NEW d \in Dims(c)
      PROVE  l[d] < pos[d] /\ range.left_boundary[d] <=> ~(pos[d] <= p[d])
  <2>1. /\ k[d] \in Nat /\ l[d] \in Nat /\ pos[d] \in Nat /\ c.block_size \in Nat
        /\ pos[d] <= c.block_size
    BY <1>1, <1>3, DimsAre
  <2>2. p[d] = k[d] * c.block_size + l[d]
    BY DEF PointOf
  <2>3. /\ k[d] # 0 => pos[d] <= k[d] * c.block_size + l[d]
        /\ k[d] = 0 => k[d] * c.block_size + l[d] = l[d]
    <3>1. IsReach(k[d], l[d], pos[d], c.block_size)
      BY <2>1 DEF IsReach
    <3> QED
      BY <3>1, Reach
  <2>4. (k[d] # 0 => pos[d] <= p[d]) /\ (k[d] = 0 => p[d] = l[d])
    BY <2>2, <2>3, Zenon
  <2>5. range.left_boundary[d] <=> k[d] = 0
    BY <1>2
  <2>6. l[d] < pos[d] <=> ~(pos[d] <= l[d])
    BY <2>1
  <2> QED
    BY <2>4, <2>5, <2>6, Zenon
<1>5. (\E d \in DOMAIN pos : it.local[d] < pos[d] /\ range.left_boundary[d]) <=> ~HasBack(c, p, pos)
  BY <1>3, <1>4, Zenon DEF HasBack
<1>6. [d \in DOMAIN pos |-> pos[d] * range.strides[d]] = Along(c, pos)
  BY <1>2, <1>3, Zenon DEF Along
<1>7. CASE ~HasBack(c, p, pos)
  BY <1>5, <1>7, Zenon DEF Prev
<1>8. CASE HasBack(c, p, pos)
  <2>1. Prev(range, it, pos) = {it.offset - Place(c, pos)}
    BY <1>5, <1>6, <1>8, Zenon DEF Prev, Place
  <2>2. it.offset - Place(c, pos) = Place(c, Back(c, p, pos))
    BY <1>1, <1>8, BackIs
  <2> QED
    BY <1>8, <2>1, <2>2
<1> QED
  BY <1>7, <1>8

\* Quotients are in order.
LEMMA QuotientUp ==
  ASSUME NEW x \in Nat, NEW y \in Nat, x <= y, NEW s \in Nat \ {0}
  PROVE  x \div s <= y \div s
<1> PICK a : a = x \div s
  OBVIOUS
<1> PICK b : b = y \div s
  OBVIOUS
<1>1. a \in Nat /\ s * a <= x /\ b \in Nat /\ y < s * b + s
  BY QuotientOf
<1>2. a * s = s * a /\ b * s = s * b /\ a * s \in Nat /\ b * s \in Nat
  BY <1>1
<1>3. CASE b < a
  <2>1. b * s + s <= a * s
    BY <1>1, <1>3, OneStride
  <2> QED
    BY <1>1, <1>2, <2>1
<1> QED
  BY <1>1, <1>3

\* What is read comes from a block before or from a place before in the same block.
LEMMA BackCoded ==
  ASSUME NEW c \in Configs, NEW b \in BlockBox(c), NEW l \in LocalBox(c, b),
         NEW p, p = PointOf(c, b, l), NEW pos, IsTerm(c, pos), HasBack(c, p, pos)
  PROVE  Back(c, p, pos) \in CodedIn(c, b, l)
<1> PICK n : n = Len(c.dims)
  OBVIOUS
<1> PICK q : q = Back(c, p, pos)
  OBVIOUS
<1> PICK size : size = c.block_size
  OBVIOUS
<1>1. /\ n \in Nat /\ Dims(c) = 1 .. n /\ size \in Nat \ {0}
      /\ b \in [1 .. n -> Nat] /\ l \in [1 .. n -> Nat]
  BY DimsAre, BoxesAre
<1>2. /\ p \in Points(c) /\ q \in Points(c) /\ BlockOf(c, p) = b
  BY BackIs, JoinPoint
<1>3. /\ pos \in [1 .. n -> Nat] /\ \E d \in 1 .. n : pos[d] # 0
      /\ \A d \in 1 .. n : q[d] = p[d] - pos[d] /\ pos[d] <= p[d] /\ p[d] \in Nat /\ q[d] \in Nat
      /\ \A d \in 1 .. n : q[d] <= p[d]
  <2>1. pos \in [1 .. n -> Nat] /\ \E d \in 1 .. n : pos[d] # 0
    BY <1>1 DEF IsTerm
  <2>2. p \in [1 .. n -> Nat] /\ q \in [1 .. n -> Nat]
    BY <1>1, <1>2 DEF Points
  <2>3. \A d \in 1 .. n : q[d] = p[d] - pos[d] /\ pos[d] <= p[d]
    BY <1>1 DEF Back, HasBack
  <2>4. \A d \in 1 .. n : p[d] \in Nat /\ q[d] \in Nat /\ pos[d] \in Nat
    BY <2>1, <2>2
  <2>5. \A d \in 1 .. n : q[d] <= p[d]
    <3> SUFFICES ASSUME NEW d \in 1 .. n PROVE q[d] <= p[d]
      OBVIOUS
    <3>1. q[d] = p[d] - pos[d] /\ p[d] \in Nat /\ pos[d] \in Nat
      BY <2>3, <2>4
    <3> QED
      BY <3>1
  <2> QED
    BY <2>1, <2>3, <2>4, <2>5, Zenon
<1>4. BlockOf(c, q) \in [1 .. n -> Nat] /\ LocalOf(c, q) \in [1 .. n -> Nat]
  BY <1>1, <1>2, CutPoint, BoxesAre
<1>5. \A d \in 1 .. n : BlockOf(c, q)[d] <= b[d]
  <2> SUFFICES ASSUME NEW d \in 1 .. n PROVE BlockOf(c, q)[d] <= b[d]
    OBVIOUS
  <2>1. BlockOf(c, q)[d] = q[d] \div size /\ b[d] = p[d] \div size
    BY <1>1, <1>2 DEF BlockOf
  <2>2. q[d] \div size <= p[d] \div size
    BY <1>1, <1>3, QuotientUp
  <2> QED
    BY <2>1, <2>2
<1>6. CASE BlockOf(c, q) # b
  <2>1. Before(BlockOf(c, q), b, n)
    BY <1>1, <1>4, <1>5, <1>6, LessIsBefore
  <2> QED
    BY <1>2, <2>1 DEF CodedIn
<1>7. CASE BlockOf(c, q) = b
  <2>1. \A d \in 1 .. n : LocalOf(c, q)[d] = l[d] - pos[d]
    <3> SUFFICES ASSUME NEW d \in 1 .. n PROVE LocalOf(c, q)[d] = l[d] - pos[d]
      OBVIOUS
    <3>1. q = PointOf(c, b, LocalOf(c, q))
      BY <1>2, <1>7, CutPoint
    <3>2. q[d] = b[d] * size + LocalOf(c, q)[d] /\ p[d] = b[d] * size + l[d]
      BY <1>1, <3>1 DEF PointOf
    <3>3. b[d] * size \in Nat
      <4>1. b[d] \in Nat
        BY <1>1
      <4> QED
        BY <1>1, <4>1
    <3>4. /\ LocalOf(c, q)[d] \in Nat /\ l[d] \in Nat /\ pos[d] \in Nat /\ q[d] = p[d] - pos[d]
      BY <1>1, <1>3, <1>4
    <3> QED
      BY <3>2, <3>3, <3>4
  <2>2. \A d \in 1 .. n : LocalOf(c, q)[d] <= l[d]
    BY <1>1, <1>3, <2>1
  <2>3. LocalOf(c, q) # l
    <3>1. PICK d \in 1 .. n : pos[d] # 0
      BY <1>3
    <3>2. LocalOf(c, q)[d] # l[d]
      BY <1>1, <1>3, <2>1, <3>1
    <3> QED
      BY <3>2
  <2>4. Before(LocalOf(c, q), l, n)
    BY <1>1, <1>4, <2>2, <2>3, LessIsBefore
  <2> QED
    BY <1>2, <1>7, <2>4 DEF CodedIn
<1> QED
  BY <1>6, <1>7

\* The offsets whose digits are those of the element that many places before.
Neighbour(c, p, pos) ==
  {o \in 0 .. Place(c, p) :
     \A d \in Dims(c) : /\ p[d] >= pos[d]
                        /\ (o \div Strides(c)[d]) % c.dims[d] = p[d] - pos[d]}

\* There is one, or none.
LEMMA NeighbourIs ==
  ASSUME NEW c \in Configs, NEW p \in Points(c), NEW pos, IsTerm(c, pos)
  PROVE  Neighbour(c, p, pos) = IF HasBack(c, p, pos) THEN {Place(c, Back(c, p, pos))} ELSE {}
<1> PICK q : q = Back(c, p, pos)
  OBVIOUS
<1>1. p \in [Dims(c) -> Nat] /\ pos \in [Dims(c) -> Nat] /\ 1 \in Dims(c)
  BY DimsAre DEF Points, IsTerm
<1>2. HasBack(c, p, pos) <=> \A d \in Dims(c) : p[d] >= pos[d]
  BY <1>1 DEF HasBack
<1>3. CASE ~HasBack(c, p, pos)
  BY <1>2, <1>3 DEF Neighbour
<1>4. CASE HasBack(c, p, pos)
  <2>1. /\ q \in Points(c) /\ Place(c, p) = Place(c, q) + Place(c, pos)
        /\ Place(c, pos) \in Nat /\ Place(c, q) \in Nat
    BY <1>4, BackIs
  <2>2. q = [d \in Dims(c) |-> p[d] - pos[d]]
    BY DEF Back
  <2>3. \A d \in Dims(c) : (Place(c, q) \div Strides(c)[d]) % c.dims[d] = p[d] - pos[d]
    <3> SUFFICES ASSUME NEW d \in Dims(c)
                 PROVE  (Place(c, q) \div Strides(c)[d]) % c.dims[d] = p[d] - pos[d]
      OBVIOUS
    <3>1. (Place(c, q) \div Strides(c)[d]) % c.dims[d] = q[d]
      BY <2>1, DigitsAre
    <3>2. q[d] = p[d] - pos[d]
      BY <2>2
    <3> QED
      BY <3>1, <3>2
  <2>4. Place(c, q) \in 0 .. Place(c, p)
    BY <2>1
  <2>5. Place(c, q) \in Neighbour(c, p, pos)
    BY <1>2, <1>4, <2>3, <2>4, Zenon DEF Neighbour
  <2>6. ASSUME NEW o \in Neighbour(c, p, pos) PROVE o = Place(c, q)
    <3>1. o \in 0 .. Place(c, p)
      BY DEF Neighbour
    <3>2. Place(c, p) \in 0 .. Size(c) - 1 /\ Size(c) \in Int
      BY DigitsAre, SizeIs
    <3>3. o \in 0 .. Size(c) - 1
      BY <3>1, <3>2
    <3>4. Place(c, PointAt(c, o)) = o
      BY <3>3, PlaceOnto
    <3>5. PointAt(c, o) = [d \in Dims(c) |-> p[d] - pos[d]]
      <4>1. \A d \in Dims(c) : (o \div Strides(c)[d]) % c.dims[d] = p[d] - pos[d]
        BY Zenon DEF Neighbour
      <4> QED
        BY <4>1, Zenon DEF PointAt
    <3> QED
      BY <2>2, <3>4, <3>5
  <2> QED
    BY <1>4, <2>5, <2>6
<1> QED
  BY <1>3, <1>4

-----------------------------------------------------------------------------
(* Prediction has its neighbours.                                          *)

\* Layers are a number.
LEMMA LayersAre == ASSUME NEW c, NEW by PROVE Layers(c, by) \in Nat /\ Layers(c, "fallback") = 1
BY Zenon DEF Layers, Regressions

\* The predictor of a block has no more layers than a block has elements across.
Shallow == pc = "element" => Layers(cfg, used[Len(used)].by) <= cfg.block_size

\* It is a method that is enabled, or the fallback predictor.
LEMMA ShallowNext ==
  ASSUME Typed, LayersFit(cfg), Shallow, [Next]_vars
  PROVE  Shallow'
<1>1. cfg \in Configs /\ IsSeq(used) /\ cfg' = cfg /\ cfg.block_size \in Nat \ {0}
  <2>1. cfg \in Configs /\ IsSeq(used)
    BY DEF Typed
  <2>2. cfg' = cfg
    BY DEF Next, StartBlock, StartFallback, CodeElement, NextBlock, SaveExits, Save, DecodeRunsOff,
           DecodeStartBlock, DecodeElement, DecodeNextBlock, Return, Done, vars
  <2> QED
    BY <2>1, <2>2, DimsAre
<1>2. CASE StartBlock
  <2>1. PICK sid \in Picks(cfg, ElementRange(cfg, block)), x \in {0, Len(used) + 1} :
          used' = Append(used, [by |-> cfg.methods[sid], coeffs |-> x])
    BY <1>2 DEF StartBlock
  <2>2. sid \in 1 .. Len(cfg.methods)
    BY <1>1, PicksIs
  <2>3. used'[Len(used')].by = cfg.methods[sid]
    <3>1. Len(used') = Len(used) + 1 /\ used'[Len(used) + 1] = [by |-> cfg.methods[sid], coeffs |-> x]
      BY <1>1, <2>1, AppendIs
    <3> QED
      BY <3>1
  <2>4. Layers(cfg, cfg.methods[sid]) <= cfg.block_size
    BY <2>2 DEF LayersFit
  <2> QED
    BY <1>1, <2>3, <2>4 DEF Shallow
<1>3. CASE StartFallback
  <2>1. used'[Len(used')].by = "fallback"
    <3>1. used' = Append(used, [by |-> "fallback", coeffs |-> 0])
      BY <1>3 DEF StartFallback
    <3>2. Len(used') = Len(used) + 1 /\ used'[Len(used) + 1] = [by |-> "fallback", coeffs |-> 0]
      BY <1>1, <3>1, AppendIs
    <3> QED
      BY <3>2
  <2>2. Layers(cfg, "fallback") <= cfg.block_size
    BY <1>1, LayersAre
  <2> QED
    BY <1>1, <2>1, <2>2 DEF Shallow
<1>4. CASE CodeElement \/ DecodeElement \/ Done \/ UNCHANGED vars
  <2>1. pc' = pc /\ used' = used
    BY <1>4 DEF CodeElement, DecodeElement, Done, vars, encVars
  <2> QED
    BY <1>1, <2>1 DEF Shallow
<1>5. CASE \/ NextBlock \/ SaveExits \/ Save \/ DecodeRunsOff \/ DecodeStartBlock
           \/ DecodeNextBlock \/ Return
  <2>1. pc' # "element"
    BY <1>5 DEF NextBlock, SaveExits, Save, DecodeRunsOff, DecodeStartBlock, DecodeNextBlock, Return
  <2> QED
    BY <2>1 DEF Shallow
<1> QED
  BY <1>2, <1>3, <1>4, <1>5 DEF Next

\* Where an element is about to be coded.
LEMMA ElementHere ==
  ASSUME Typed, Placed, pc = "element", ~AtEnd(ElementRange(cfg, block), elem)
  PROVE  /\ cfg \in Configs
         /\ Aligned(BlockRange(cfg), block, Len(cfg.dims)) /\ block.local \in BlockBox(cfg)
         /\ Aligned(ElementRange(cfg, block), elem, Len(cfg.dims))
         /\ elem.local \in LocalBox(cfg, block.local)
         /\ Order!Known(log) = Places(cfg, CodedIn(cfg, block.local, elem.local))
<1>1. /\ cfg \in Configs
      /\ Aligned(BlockRange(cfg), block, Len(cfg.dims)) /\ block.local \in BlockBox(cfg)
      /\ Aligned(ElementRange(cfg, block), elem, Len(cfg.dims))
      /\ Order!Known(log) = Places(cfg, CodedPoints)
  BY DEF Typed, Placed
<1>2. block.offset \in Int
  BY <1>1, BlockEnds
<1>3. elem.local \in LocalBox(cfg, block.local)
  BY <1>1, <1>2, ElementEnds
<1> QED
  BY <1>1, <1>3 DEF CodedPoints

\* prev reads the element that many places before along each direction, and is 0 exactly
\* when there is none, in every block of every shape, if no predictor has more layers than
\* block_size.  With a block_size of 1 a second layer goes back by two blocks, of which
\* left_boundary knows nothing.
THEOREM AlwaysPrevIsNeighbour == (\A c \in Configs : LayersFit(c)) => (Spec => []PrevIsNeighbour)
<1> SUFFICES ASSUME \A c \in Configs : LayersFit(c) PROVE Spec => []PrevIsNeighbour
  OBVIOUS
<1>1. Init => Shallow
  BY DEF Init, Shallow
<1>2. Typed /\ Shallow /\ [Next]_vars => Shallow'
  <2> SUFFICES ASSUME Typed, Shallow, [Next]_vars PROVE Shallow'
    OBVIOUS
  <2>1. LayersFit(cfg)
    BY DEF Typed
  <2> QED
    BY <2>1, ShallowNext
<1>3. Typed /\ Placed /\ Shallow => PrevIsNeighbour
  <2> DEFINE range     == ElementRange(cfg, block)
             at        == [d \in Dims(cfg) |-> (elem.offset \div Strides(cfg)[d]) % cfg.dims[d]]
             before(t) == {o \in 0 .. elem.offset : \A d \in Dims(cfg) :
                             /\ at[d] >= t[d]
                             /\ (o \div Strides(cfg)[d]) % cfg.dims[d] = at[d] - t[d]}
  <2>1. SUFFICES ASSUME Typed, Placed, Shallow, pc = "element", ~AtEnd(range, elem),
                        NEW pos \in Terms(Len(cfg.dims), Layers(cfg, used[Len(used)].by))
                 PROVE  Prev(range, elem, pos) = before(pos)
    BY Zenon DEF PrevIsNeighbour
  <2> PICK p : p = PointOf(cfg, block.local, elem.local)
    OBVIOUS
  <2>2. /\ cfg \in Configs
        /\ Aligned(BlockRange(cfg), block, Len(cfg.dims)) /\ block.local \in BlockBox(cfg)
        /\ Aligned(range, elem, Len(cfg.dims))
        /\ elem.local \in LocalBox(cfg, block.local)
    BY <2>1, ElementHere
  <2>3. p \in Points(cfg) /\ elem.offset = Place(cfg, p)
    BY <2>2, ElementPlace
  <2>4. before(pos) = Neighbour(cfg, p, pos)
    <3>1. \A d \in Dims(cfg) : at[d] = p[d]
      BY <2>2, <2>3, DigitsAre
    <3> HIDE DEF at
    <3> QED
      BY <2>3, <3>1, Zenon DEF Neighbour
  <2>5. IsTerm(cfg, pos)
    BY <2>1, <2>2, LayersAre, TermsAre DEF Shallow
  <2>6. Prev(range, elem, pos)
          = IF HasBack(cfg, p, pos) THEN {Place(cfg, Back(cfg, p, pos))} ELSE {}
    BY <2>2, <2>5, PrevIs
  <2> QED
    BY <2>2, <2>3, <2>4, <2>5, <2>6, NeighbourIs
<1> QED
  BY <1>1, <1>2, <1>3, InductivePlaces, PTL DEF Spec

\* The element coded is new, and what its prediction reads is not.
LEMMA EventIs ==
  ASSUME Typed, Placed, Shallow, pc = "element", ~AtEnd(ElementRange(cfg, block), elem),
         NEW e, e = Event(cfg, ElementRange(cfg, block), elem, used[Len(used)].by)
  PROVE  e \in [at : (0 .. Size(cfg) - 1) \ Order!Known(log), reads : SUBSET Order!Known(log)]
<1> PICK p : p = PointOf(cfg, block.local, elem.local)
  OBVIOUS
<1> PICK C : C = CodedIn(cfg, block.local, elem.local)
  OBVIOUS
<1>1. /\ cfg \in Configs
      /\ Aligned(BlockRange(cfg), block, Len(cfg.dims)) /\ block.local \in BlockBox(cfg)
      /\ Aligned(ElementRange(cfg, block), elem, Len(cfg.dims))
      /\ elem.local \in LocalBox(cfg, block.local)
      /\ Order!Known(log) = Places(cfg, C)
  BY ElementHere
<1>2. p \in Points(cfg) /\ elem.offset = Place(cfg, p)
  BY <1>1, ElementPlace
<1>3. elem.offset \in 0 .. Size(cfg) - 1
  BY <1>1, <1>2, DigitsAre
<1>4. elem.offset \notin Places(cfg, C)
  <2> SUFFICES ASSUME NEW q \in C, Place(cfg, p) = Place(cfg, q) PROVE FALSE
    BY <1>2 DEF Places
  <2>1. q \in Points(cfg)
    BY DEF CodedIn
  <2>2. p = q
    BY <1>1, <1>2, <2>1, PlaceInjective
  <2> QED
    BY <1>1, <2>2, NotYetCoded
<1> DEFINE terms   == Terms(Len(cfg.dims), Layers(cfg, used[Len(used)].by))
           Read(t) == Prev(ElementRange(cfg, block), elem, t)
<1>5. ASSUME NEW t \in terms PROVE Read(t) \subseteq Places(cfg, C)
  <2>1. IsTerm(cfg, t)
    BY <1>1, LayersAre, TermsAre DEF Shallow
  <2>2. Read(t) = IF HasBack(cfg, p, t) THEN {Place(cfg, Back(cfg, p, t))} ELSE {}
    BY <1>1, <2>1, PrevIs
  <2>3. HasBack(cfg, p, t) => Back(cfg, p, t) \in C
    BY <1>1, <2>1, BackCoded
  <2> QED
    BY <2>2, <2>3 DEF Places
<1>6. e = [at |-> elem.offset, reads |-> UNION {Read(t) : t \in terms}]
  BY DEF Event
<1> HIDE DEF terms, Read
<1>7. UNION {Read(t) : t \in terms} \subseteq Places(cfg, C)
  BY <1>5
<1> QED
  BY <1>1, <1>3, <1>4, <1>6, <1>7

\* A batch of it is a good one.
LEMMA EncodesOrder ==
  ASSUME Typed, Placed, Shallow, CodeElement
  PROVE  Order!Encode
<1> PICK e : e = Event(cfg, ElementRange(cfg, block), elem, used[Len(used)].by)
  OBVIOUS
<1>1. /\ pc = "element" /\ ~AtEnd(ElementRange(cfg, block), elem)
      /\ log' = Append(log, {e}) /\ cfg' = cfg /\ dlog' = dlog
  BY DEF CodeElement, decVars
<1>2. e \in [at : (0 .. Size(cfg) - 1) \ Order!Known(log), reads : SUBSET Order!Known(log)]
  BY <1>1, EventIs
<1>3. Order!GoodBatch({e}, Order!Known(log))
  BY <1>2 DEF Order!GoodBatch
<1>4. Len(log') = Len(log) + 1 /\ log'[Len(log) + 1] = {e}
  BY <1>1, AppendIs DEF Typed
<1>5. UNCHANGED <<0 .. (Size(cfg) - 1), IF NeverRefuses(cfg) THEN dlog ELSE <<>>>>
  BY <1>1
<1> QED
  BY <1>1, <1>3, <1>4, <1>5 DEF Order!Encode

\* The decoder repeats the batch that is next.
LEMMA DecodesOrder ==
  ASSUME ReplayInv, ReplayInv', DecodeElement
  PROVE  Order!Decode \/ UNCHANGED Order!poVars
<1>1. /\ log' = log /\ cfg' = cfg
      /\ \E e : dlog' = Append(dlog, e)
  BY DEF DecodeElement, encVars
<1>2. CASE ~NeverRefuses(cfg)
  BY <1>1, <1>2 DEF Order!poVars
<1>3. CASE NeverRefuses(cfg)
  <2>1. IsSeq(dlog) /\ Begins(dlog', log)
    BY <1>1, <1>3 DEF ReplayInv, Typed, Replayed
  <2>2. PICK e : dlog' = Append(dlog, e)
    BY <1>1
  <2>3. Len(dlog) \in Nat /\ Len(dlog') = Len(dlog) + 1 /\ dlog'[Len(dlog) + 1] = e
    BY <2>1, <2>2, AppendIs
  <2>4. Len(log) \in Nat
    BY LengthIs DEF ReplayInv, Typed
  <2>5. Len(dlog) < Len(log) /\ e = log[Len(dlog) + 1]
    BY <2>1, <2>3, <2>4 DEF Begins
  <2> QED
    BY <1>1, <1>3, <2>2, <2>5 DEF Order!Decode
<1> QED
  BY <1>2, <1>3

\* compress and decompress implement PointOrder, for every shape, block size and set of
\* predictors with layers that fit: no element is coded twice, over all blocks and borders;
\* Lorenzo prediction reads what is coded; and the decoder, where no predictor refuses,
\* repeats the order and the reads.
THEOREM RefinesOrder == (\A c \in Configs : LayersFit(c)) => (Spec => FollowsOrder)
<1> SUFFICES ASSUME \A c \in Configs : LayersFit(c) PROVE Spec => FollowsOrder
  OBVIOUS
<1>1. Init => Shallow /\ Order!Init
  BY DEF Init, Shallow, Order!Init
<1>2. Typed /\ Shallow /\ [Next]_vars => Shallow'
  <2> SUFFICES ASSUME Typed, Shallow, [Next]_vars PROVE Shallow'
    OBVIOUS
  <2>1. LayersFit(cfg)
    BY DEF Typed
  <2> QED
    BY <2>1, ShallowNext
<1>3. Typed /\ Placed /\ Shallow /\ ReplayInv /\ ReplayInv' /\ [Next]_vars => [Order!Next]_Order!poVars
  <2> SUFFICES ASSUME Typed, Placed, Shallow, ReplayInv, ReplayInv', [Next]_vars
               PROVE  Order!Next \/ UNCHANGED Order!poVars
    OBVIOUS
  <2>1. CASE CodeElement
    BY <2>1, EncodesOrder DEF Order!Next
  <2>2. CASE DecodeElement
    BY <2>2, DecodesOrder DEF Order!Next
  <2>3. CASE ~CodeElement /\ ~DecodeElement
    <3>1. cfg' = cfg /\ log' = log /\ dlog' = dlog
      BY <2>3 DEF Next, StartBlock, StartFallback, NextBlock, SaveExits, Save, DecodeRunsOff,
           DecodeStartBlock, DecodeNextBlock, Return, Done, vars, encVars, decVars
    <3> QED
      BY <3>1 DEF Order!poVars
  <2> QED
    BY <2>1, <2>2, <2>3
<1> QED
  BY <1>1, <1>2, <1>3, InductivePlaces, InductiveReplay, PTL DEF Spec, FollowsOrder, Order!Spec

===============================================================================
