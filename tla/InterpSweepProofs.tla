--------------------------- MODULE InterpSweepProofs ---------------------------
(***************************************************************************)
(* Theorems about InterpSweep, for every set of configurations that fit,   *)
(* and what follows from PointOrder!Spec for every grid.                   *)
(***************************************************************************)
EXTENDS InterpSweep, NumberLemmas

-----------------------------------------------------------------------------
(* Orders.                                                                 *)

\* The abstract order, of any grid; Order!Spec is the one of Points(cfg).
VARIABLE grid
PO == INSTANCE PointOrder

\* The inductive invariant: the three facts about the encoder's log, and that the
\* decoder's log is a prefix of it.
OrderInv ==
  /\ PO!Typed
  /\ PO!CodedOnce
  /\ PO!ReadsCoded
  /\ Len(dlog) <= Len(log)
  /\ \A k \in 1 .. Len(dlog) : dlog[k] = log[k]

\* An appended log keeps its batches and what they have coded.
LEMMA AppendKeeps ==
  ASSUME NEW S, NEW l \in Seq(S), NEW b \in S
  PROVE  /\ Append(l, b) \in Seq(S)
         /\ Len(Append(l, b)) = Len(l) + 1
         /\ Append(l, b)[Len(l) + 1] = b
         /\ \A k \in 1 .. Len(l) : Append(l, b)[k] = l[k]
         /\ \A k \in 0 .. Len(l) : PO!Coded(Append(l, b), k) = PO!Coded(l, k)
<1>1. /\ Append(l, b) \in Seq(S)
      /\ Len(Append(l, b)) = Len(l) + 1
      /\ Append(l, b)[Len(l) + 1] = b
      /\ \A k \in 1 .. Len(l) : Append(l, b)[k] = l[k]
  OBVIOUS
<1>2. ASSUME NEW k \in 0 .. Len(l)
      PROVE  PO!Coded(Append(l, b), k) = PO!Coded(l, k)
  <2>1. \A i \in 1 .. k : Append(l, b)[i] = l[i] BY <1>1
  <2>2. QED BY <2>1 DEF PO!Coded
<1>3. QED BY <1>1, <1>2

\* What is known is in the grid.
LEMMA KnownInGrid ==
  ASSUME PO!Typed
  PROVE  PO!Known(log) \subseteq grid
<1>1. \A k \in 1 .. Len(log) : log[k] \subseteq PO!Event BY DEF PO!Typed
<1>2. QED BY <1>1 DEF PO!Known, PO!Coded, PO!Event

\* The encoder's step appends a good batch.
LEMMA EncodeStep ==
  ASSUME OrderInv, PO!Encode
  PROVE  OrderInv'
<1> DEFINE b == log'[Len(log) + 1]
<1>1. /\ log \in Seq(SUBSET PO!Event)
      /\ log' = Append(log, b)
      /\ PO!GoodBatch(b, PO!Known(log))
      /\ grid' = grid /\ dlog' = dlog
  BY DEF OrderInv, PO!Typed, PO!Encode
<1>2. b \in SUBSET PO!Event
  BY <1>1, KnownInGrid DEF OrderInv, PO!GoodBatch, PO!Event
<1>3. PO!Event' = PO!Event BY <1>1 DEF PO!Event
<1> HIDE DEF b
<1>4. /\ log' \in Seq(SUBSET PO!Event)
      /\ Len(log') = Len(log) + 1
      /\ log'[Len(log) + 1] = b
      /\ \A k \in 1 .. Len(log) : log'[k] = log[k]
      /\ \A k \in 0 .. Len(log) : PO!Coded(log', k) = PO!Coded(log, k)
  BY <1>1, <1>2, AppendKeeps
<1>5. Len(log) \in Nat BY <1>1
<1>6. PO!Typed' BY <1>1, <1>3, <1>4 DEF OrderInv, PO!Typed
<1>7. PO!CodedOnce'
  <2> SUFFICES ASSUME NEW j \in 1 .. Len(log'), NEW k \in 1 .. Len(log'),
                      NEW e \in log'[j], NEW f \in log'[k], e.at = f.at
               PROVE  j = k /\ e = f
    BY DEF PO!CodedOnce
  <2>1. \A i \in 1 .. Len(log) : \A g \in log[i] : g.at \in PO!Known(log)
    BY DEF PO!Known, PO!Coded
  <2>2. \A g \in b : g.at \notin PO!Known(log) BY <1>1 DEF PO!GoodBatch
  <2>3. CASE j \in 1 .. Len(log) /\ k \in 1 .. Len(log)
    BY <2>3, <1>4 DEF OrderInv, PO!CodedOnce
  <2>4. CASE j = Len(log) + 1 /\ k = Len(log) + 1
    BY <2>4, <1>1, <1>4 DEF PO!GoodBatch
  <2>5. CASE j = Len(log) + 1 /\ k \in 1 .. Len(log) BY <2>5, <2>1, <2>2, <1>4
  <2>6. CASE j \in 1 .. Len(log) /\ k = Len(log) + 1 BY <2>6, <2>1, <2>2, <1>4
  <2>7. QED BY <2>3, <2>4, <2>5, <2>6, <1>4, <1>5
<1>8. PO!ReadsCoded'
  <2> SUFFICES ASSUME NEW k \in 1 .. Len(log'), NEW e \in log'[k]
               PROVE  e.reads \subseteq PO!Coded(log', k - 1)
    BY DEF PO!ReadsCoded
  <2>1. CASE k \in 1 .. Len(log)
    <3>1. e.reads \subseteq PO!Coded(log, k - 1)
      BY <2>1, <1>4 DEF OrderInv, PO!ReadsCoded
    <3>2. k - 1 \in 0 .. Len(log) BY <2>1, <1>5
    <3>3. QED BY <3>1, <3>2, <1>4
  <2>2. CASE k = Len(log) + 1
    <3>1. e.reads \subseteq PO!Known(log) BY <2>2, <1>1, <1>4 DEF PO!GoodBatch
    <3>2. PO!Coded(log', k - 1) = PO!Known(log) BY <2>2, <1>4, <1>5 DEF PO!Known
    <3>3. QED BY <3>1, <3>2
  <2>3. QED BY <2>1, <2>2, <1>4, <1>5
<1>9. Len(dlog') <= Len(log') /\ \A k \in 1 .. Len(dlog') : dlog'[k] = log'[k]
  <2>1. Len(dlog) \in Nat BY DEF OrderInv, PO!Typed
  <2>2. QED BY <2>1, <1>1, <1>4, <1>5 DEF OrderInv
<1>10. QED BY <1>6, <1>7, <1>8, <1>9 DEF OrderInv

\* The decoder's step repeats the next batch.
LEMMA DecodeStep ==
  ASSUME OrderInv, PO!Decode
  PROVE  OrderInv'
<1> DEFINE b == log[Len(dlog) + 1]
<1>1. /\ log \in Seq(SUBSET PO!Event) /\ dlog \in Seq(SUBSET PO!Event)
      /\ Len(dlog) < Len(log)
      /\ dlog' = Append(dlog, b)
      /\ grid' = grid /\ log' = log
  BY DEF OrderInv, PO!Typed, PO!Decode
<1>2. b \in SUBSET PO!Event BY <1>1
<1>3. PO!Event' = PO!Event BY <1>1 DEF PO!Event
<1>4. /\ dlog' \in Seq(SUBSET PO!Event)
      /\ Len(dlog') = Len(dlog) + 1
      /\ dlog'[Len(dlog) + 1] = b
      /\ \A k \in 1 .. Len(dlog) : dlog'[k] = dlog[k]
  BY <1>1, <1>2
<1>5. PO!Typed' BY <1>1, <1>3, <1>4 DEF PO!Typed
<1>6. PO!CodedOnce' /\ PO!ReadsCoded'
  BY <1>1 DEF OrderInv, PO!CodedOnce, PO!ReadsCoded, PO!Coded
<1>7. Len(dlog') <= Len(log') /\ \A k \in 1 .. Len(dlog') : dlog'[k] = log'[k]
  <2>1. Len(dlog) \in Nat /\ Len(log) \in Nat BY <1>1
  <2>2. QED BY <2>1, <1>1, <1>4 DEF OrderInv
<1>8. QED BY <1>5, <1>6, <1>7 DEF OrderInv

\* The invariant of the order: it holds in every state of every behaviour.
THEOREM OrderInvariance == PO!Spec => []OrderInv
<1>1. PO!Init => OrderInv
  <2> SUFFICES ASSUME PO!Init PROVE OrderInv
    OBVIOUS
  <2>1. Len(log) = 0 /\ Len(dlog) = 0 BY DEF PO!Init
  <2>2. PO!Typed BY DEF PO!Init, PO!Typed
  <2>3. QED BY <2>1, <2>2 DEF OrderInv, PO!CodedOnce, PO!ReadsCoded
<1>2. OrderInv /\ [PO!Next]_(PO!poVars) => OrderInv'
  <2> SUFFICES ASSUME OrderInv, [PO!Next]_(PO!poVars) PROVE OrderInv'
    OBVIOUS
  <2>1. CASE PO!Encode BY <2>1, EncodeStep
  <2>2. CASE PO!Decode BY <2>2, DecodeStep
  <2>3. CASE UNCHANGED PO!poVars
    <3>1. grid' = grid /\ log' = log /\ dlog' = dlog BY <2>3 DEF PO!poVars
    <3>2. PO!Typed' /\ PO!CodedOnce'
      BY <3>1 DEF OrderInv, PO!Typed, PO!Event, PO!CodedOnce
    <3>3. PO!ReadsCoded' BY <3>1 DEF OrderInv, PO!ReadsCoded, PO!Coded
    <3>4. QED BY <3>1, <3>2, <3>3 DEF OrderInv
  <2>4. QED BY <2>1, <2>2, <2>3 DEF PO!Next
<1>3. QED BY <1>1, <1>2, PTL DEF PO!Spec

\* No point is coded twice: the array has one bin for every coded point, and no
\* reconstructed value is overwritten.
THEOREM OnceOnly == PO!Spec => []PO!CodedOnce
<1>1. OrderInv => PO!CodedOnce BY DEF OrderInv
<1>2. QED BY <1>1, OrderInvariance, PTL

\* Whenever decompress predicts a point, it has decoded every point the
\* prediction reads, as compress had coded it at the same place of the order.
THEOREM DecoderIsReady == PO!Spec => []PO!DecoderReady
<1>1. OrderInv => PO!DecoderReady
  <2> SUFFICES ASSUME OrderInv,
                      NEW k \in 1 .. Len(dlog), NEW e \in dlog[k]
               PROVE  e.reads \subseteq PO!Coded(dlog, k - 1)
    BY DEF OrderInv, PO!DecoderReady
  <2>1. Len(dlog) \in Nat /\ Len(log) \in Nat /\ Len(dlog) <= Len(log)
    BY DEF OrderInv, PO!Typed
  <2>2. e.reads \subseteq PO!Coded(log, k - 1)
    <3>1. k \in 1 .. Len(log) /\ e \in log[k] BY <2>1 DEF OrderInv
    <3>2. QED BY <3>1 DEF OrderInv, PO!ReadsCoded
  <2>3. \A i \in 1 .. (k - 1) : dlog[i] = log[i] BY <2>1 DEF OrderInv
  <2>4. PO!Coded(dlog, k - 1) = PO!Coded(log, k - 1) BY <2>3 DEF PO!Coded
  <2>5. QED BY <2>2, <2>4
<1>2. QED BY <1>1, OrderInvariance, PTL

-----------------------------------------------------------------------------
(* Sequences.                                                              *)

\* A member under a condition is a sequence.
LEMMA OptIs ==
  ASSUME NEW x, NEW condition
  PROVE  IsSeq(Opt(x, condition))
<1>1. Opt(x, condition) = <<x>> \/ Opt(x, condition) = <<>> BY DEF Opt
<1> QED BY <1>1, ListsAre

\* The phases of a line are sequences: within a block,
LEMMA PlainLineSeq ==
  ASSUME NEW n, NEW meta
  PROVE  IsSeq(PlainLine(n, meta))
<1>1. IsSeq(PlainLinear(n)) /\ IsSeq(PlainCubic(n))
  BY ListsAre DEF PlainLinear, PlainCubic
<1>2. IsSeq(PlainCubicAdj(n)) BY ListsAre, Zenon DEF PlainCubicAdj
<1> QED BY <1>1, <1>2, ListsAre DEF PlainLine

\* the borders of a line that may read across the border of its block,
LEMMA BoundarySeq ==
  ASSUME NEW L
  PROVE  IsSeq(boundary(L)) /\ IsSeq(boundary_adj(L))
<1>1. IsSeq(boundary(L))
  <2> DEFINE one == Opt(1, IStart(L, 3) = 3 \/ L.n <= 4)
             two == Opt(L.n - 2, L.n > 3)
             three == Opt(L.n - 3, L.n > 4)
             four == Opt(L.n - 1, L.n > 2)
  <2>1. IsSeq(one) /\ IsSeq(two) /\ IsSeq(three) /\ IsSeq(four) BY OptIs
  <2>2. boundary(L) = one \o IF L.n % 2 = 1 THEN two ELSE three \o four
    BY Zenon DEF boundary
  <2> HIDE DEF one, two, three, four
  <2>3. IsSeq(three \o four) BY <2>1, JoinIs
  <2>4. IsSeq(one \o two) /\ IsSeq(one \o (three \o four)) BY <2>1, <2>3, JoinIs
  <2> QED BY <2>2, <2>4
<1>2. IsSeq(boundary_adj(L))
  <2> DEFINE temp == IF L.n % 4 = 0 THEN 4 ELSE L.n % 4
             one == Opt(1, IStart(L, 5) = 5)
             two == Opt(L.n + 1 - temp, temp # 1)
  <2>1. IsSeq(one) /\ IsSeq(two) BY OptIs
  <2>2. boundary_adj(L) = IF L.n <= 4 THEN <<1>> ELSE one \o two
    BY Zenon DEF boundary_adj
  <2> HIDE DEF one, two
  <2>3. IsSeq(one \o two) BY <2>1, JoinIs
  <2> QED BY <2>2, <2>3, ListsAre
<1> QED BY <1>1, <1>2

\* and the phases of such a line.
LEMMA CrossLineSeq ==
  ASSUME NEW L, NEW meta
  PROVE  IsSeq(CrossLine(L, meta))
<1>1. IsSeq(CrossLinear(L)) BY ListsAre DEF CrossLinear
<1>2. IsSeq(CrossCubic(L))
  <2> DEFINE b == boundary(L)
             borders == [k \in 1 .. Len(b) |-> {<<b[k], Border(L, b[k], 3)>>}]
             first == << {<<i, interp_cubic>> : i \in Loop(IStart(L, 3), 3, 2, L.n)} >>
  <2>1. IsSeq(first) BY ListsAre
  <2>2. IsSeq(borders)
    <3>1. Len(b) \in Nat BY BoundarySeq, LengthIs
    <3> HIDE DEF b
    <3> QED BY <3>1, ListIs
  <2>3. CrossCubic(L) = first \o borders BY Zenon DEF CrossCubic
  <2> HIDE DEF first, borders
  <2> QED BY <2>1, <2>2, <2>3, JoinIs
<1>3. IsSeq(CrossCubicAdj(L))
  <2> DEFINE b == boundary_adj(L)
             borders == [k \in 1 .. Len(b) |-> {<<b[k], Border(L, b[k], 4)>>}]
             first == << {<<i, interp_cubic>> : i \in Loop(IStart(L, 5), 3, 4, L.n)} >>
             temp == L.n % 4
             last == L.n - 1 - temp
             end == << {<<i, interp_cubic_adj>> : i \in Loop(3, 3, 4, L.n)},
                       IF temp # 3 /\ L.n > temp + 1 THEN {<<last, BorderAdj(L, last)>>} ELSE {} >>
  <2>1. IsSeq(first) /\ IsSeq(end) BY ListsAre
  <2>2. IsSeq(borders)
    <3>1. Len(b) \in Nat BY BoundarySeq, LengthIs
    <3> HIDE DEF b
    <3> QED BY <3>1, ListIs
  <2>3. CrossCubicAdj(L) = first \o borders \o end BY Zenon DEF CrossCubicAdj
  <2> HIDE DEF first, borders, end
  <2>4. IsSeq(first \o borders) BY <2>1, <2>2, JoinIs
  <2> QED BY <2>1, <2>3, <2>4, JoinIs
<1> QED BY <1>1, <1>2, <1>3, ListsAre DEF CrossLine

\* The loops of a pass along lines are a sequence,
LEMMA LinePassSeq ==
  ASSUME NEW c, NEW meta, NEW lo, NEW end, NEW dir, NEW steps, NEW s
  PROVE  IsSeq(LinePass(c, meta, lo, end, dir, steps, s))
<1> DEFINE n == ((end[dir] - lo[dir]) \div s) + 1
           line(f)  == [n |-> n, begin |-> lo[dir], end |-> end[dir], stride |-> s,
                        dim |-> c.dims[dir], back |-> c.cross, front |-> f]
           phases(f) == IF (Len(c.dims) = 1 /\ ~c.cross) \/ Len(c.dims) = 4
                        THEN PlainLine(n, meta) ELSE CrossLine(line(f), meta)
           byFront   == [f \in BOOLEAN |-> phases(f)]
<1>1. IsSeq(phases(FALSE)) BY PlainLineSeq, CrossLineSeq, Zenon
<1>2. byFront[FALSE] = phases(FALSE) OBVIOUS
<1>3. Len(byFront[FALSE]) \in Nat BY <1>1, <1>2, LengthIs
<1> HIDE DEF phases
<1>4. \/ LinePass(c, meta, lo, end, dir, steps, s) = <<>>
      \/ \E e : LinePass(c, meta, lo, end, dir, steps, s) = [k \in 1 .. Len(byFront[FALSE]) |-> e[k]]
  <2> DEFINE others == Dims(c) \ {dir}
             bases  == {p \in Points(c) :
                   /\ p[dir] = lo[dir]
                   /\ \A d \in others : /\ p[d] \in lo[d] .. end[d]
                                        /\ (p[d] - lo[d]) % steps[d] = 0}
             front(p) == c.cross /\ \A d \in others : p[d] % (2 * s) = 0
             point(p, i)    == [p EXCEPT ![dir] = @ + i * s]
             event(p, i, offs) == [at |-> point(p, i), reads |-> {point(p, i + o) : o \in offs}]
             batch(k) == UNION {{event(p, x[1], x[2]) : x \in byFront[front(p)][k]} : p \in bases}
             e == [k \in 1 .. Len(byFront[FALSE]) |-> batch(k)]
  <2>1. LinePass(c, meta, lo, end, dir, steps, s)
          = IF \E d \in Dims(c) : end[d] < lo[d] THEN <<>> ELSE e
    BY Zenon DEF LinePass, phases
  <2>2. e = [k \in 1 .. Len(byFront[FALSE]) |-> e[k]] OBVIOUS
  <2> HIDE DEF e
  <2> QED BY <2>1, <2>2
<1> HIDE DEF byFront
<1>5. CASE LinePass(c, meta, lo, end, dir, steps, s) = <<>> BY <1>5, ListsAre
<1>6. ASSUME NEW e, LinePass(c, meta, lo, end, dir, steps, s) = [k \in 1 .. Len(byFront[FALSE]) |-> e[k]]
      PROVE  IsSeq(LinePass(c, meta, lo, end, dir, steps, s))
  BY <1>3, <1>6, ListIs
<1> QED BY <1>4, <1>5, <1>6

\* so are those of a pass around the center,
LEMMA CenterPassSeq ==
  ASSUME NEW c, NEW meta, NEW lo, NEW end, NEW dirs, NEW steps, NEW s
  PROVE  IsSeq(CenterPass(c, meta, lo, end, dirs, steps, s))
<1> DEFINE n(d)    == ((end[d] - lo[d]) \div s) + 1
           real(d) == IF c.cross THEN (end[d] \div s) + 1 ELSE n(d)
           long    == IF meta.algo = "linear" \/ \A d \in dirs : real(d) < 5 THEN dirs
                      ELSE {d \in dirs : real(d) >= 5}
           from    == [d \in Dims(c) |-> IF d \in dirs \ long THEN lo[d] + s ELSE lo[d]]
           by      == [d \in Dims(c) |-> IF d \in dirs \ long THEN 2 * s ELSE steps[d]]
           bases   == {p \in Points(c) :
                         \A d \in Dims(c) : IF d \in long THEN p[d] = from[d]
                                           ELSE p[d] \in from[d] .. end[d] /\ (p[d] - from[d]) % by[d] = 0}
           box     == [len   |-> [d \in long |-> n(d)],
                       start |-> [d \in long |-> IF c.cross /\ lo[d] >= 2 * s THEN 1 ELSE 3]]
           move(p, x) == [d \in Dims(c) |-> IF d \in long THEN p[d] + s * x[d] ELSE p[d]]
           stencils == IF meta.algo = "linear" \/ \A d \in dirs : real(d) < 5 THEN CenterLinear(box)
                       ELSE IF meta.adj THEN CenterCubicAdj(box) ELSE CenterCubic(box)
           event(p, x) == [at |-> move(p, x[1]), reads |-> {move(move(p, x[1]), o) : o \in x[2]}]
           batch(k) == {event(p, x) : p \in bases, x \in stencils[k]}
           list  == [k \in 1 .. Len(stencils) |-> batch(k)]
           lines == LinePass(c, meta, from, end, CHOOSE d \in long : TRUE, by, s)
<1>1. CenterPass(c, meta, lo, end, dirs, steps, s)
        = IF (\E d \in Dims(c) : end[d] < lo[d]) \/ (\E d \in dirs : n(d) <= 1) THEN <<>>
          ELSE IF Cardinality(long) = 1 THEN lines ELSE list
  BY SMT DEF CenterPass
<1>2. IsSeq(lines) BY LinePassSeq, Zenon
<1>3. IsSeq(list)
  <2> HIDE DEF box
  <2>1. IsSeq(CenterLinear(box)) /\ IsSeq(CenterCubic(box)) /\ IsSeq(CenterCubicAdj(box))
    BY ListsAre, Zenon DEF CenterLinear, CenterCubic, CenterCubicAdj
  <2>2. IsSeq(stencils) BY <2>1, Zenon
  <2>3. Len(stencils) \in Nat BY <2>2, LengthIs
  <2> HIDE DEF stencils, batch
  <2> QED BY <2>3, ListIs
<1> HIDE DEF list, lines
<1> QED BY <1>1, <1>2, <1>3, ListsAre

\* of all passes along one direction after the other,
LEMMA AlongDimsSeq ==
  ASSUME NEW c, Len(c.dims) \in Nat, NEW meta, NEW start, NEW end, NEW s
  PROVE  IsSeq(AlongDims(c, meta, start, end, s))
<1> DEFINE fallback_2d == Len(c.dims) = 3 /\ meta.direction >= 6
           dims  == dimension_sequences(Len(c.dims), meta.direction - IF fallback_2d THEN 6 ELSE 0)
           step(d, k) == IF fallback_2d /\ d = dims[1] THEN 1
                         ELSE IF \E j \in 1 .. (k - 1) : dims[j] = d THEN s ELSE 2 * s
           pass(k) ==
             LinePass(c, meta,
                      [d \in Dims(c) |-> IF d = dims[k] THEN start[d] ELSE After(start[d], step(d, k))],
                      end, dims[k], [d \in Dims(c) |-> step(d, k)], s)
           list == [k \in Dims(c) |-> IF fallback_2d /\ k = 1 THEN <<>> ELSE pass(k)]
<1>1. AlongDims(c, meta, start, end, s) = FlattenSeq(list)
  BY Zenon DEF AlongDims
<1>2. \A k : IsSeq(pass(k)) BY LinePassSeq, Zenon
<1> HIDE DEF pass
<1>3. IsSeq(list) /\ Len(list) = Len(c.dims) BY ListIs DEF Dims
<1>4. \A k \in 1 .. Len(list) : IsSeq(list[k]) BY <1>2, <1>3, ListsAre DEF Dims
<1> HIDE DEF list
<1> QED BY <1>1, <1>3, <1>4, FlattenSeqIs

\* of all passes from lines to planes to the cube,
LEMMA AroundCenterSeq ==
  ASSUME NEW c, Len(c.dims) \in Nat, NEW meta, NEW start, NEW end, NEW s
  PROVE  IsSeq(AroundCenter(c, meta, start, end, s))
<1> DEFINE fallback_2d == Len(c.dims) = 3 /\ meta.direction >= 6
           dims  == dimension_sequences(Len(c.dims), IF fallback_2d THEN meta.direction - 6 ELSE 0)
           step(d) == IF fallback_2d /\ d = dims[1] THEN 1 ELSE 2 * s
           steps == [d \in Dims(c) |-> step(d)]
           lo(dirs) == [d \in Dims(c) |-> IF d \in dirs THEN start[d] ELSE After(start[d], step(d))]
           pass(dirs) == IF Cardinality(dirs) = 1
                         THEN LinePass(c, meta, lo(dirs), end, CHOOSE d \in dirs : TRUE, steps, s)
                         ELSE CenterPass(c, meta, lo(dirs), end, dirs, steps, s)
           combinations == Combinations(IF fallback_2d THEN Tail(dims) ELSE dims)
           list == [k \in DOMAIN combinations |-> pass(combinations[k])]
<1>1. AroundCenter(c, meta, start, end, s) = FlattenSeq(list)
  BY Zenon DEF AroundCenter
<1>2. \A k : IsSeq(pass(k)) BY LinePassSeq, CenterPassSeq, Zenon
<1>3. DOMAIN combinations = 1 .. 3 \/ DOMAIN combinations = 1 .. 7
  BY DEF Combinations
<1> HIDE DEF pass, combinations
<1>4. \E n \in Nat : DOMAIN combinations = 1 .. n BY <1>3
<1>5. IsSeq(list) /\ DOMAIN combinations = 1 .. Len(list) BY <1>4, ListIs
<1>6. \A k \in 1 .. Len(list) : IsSeq(list[k]) BY <1>2, <1>5
<1> HIDE DEF list
<1> QED BY <1>1, <1>5, <1>6, FlattenSeqIs

\* The passes of a block are a sequence of batches.
LEMMA BlockPassesSeq ==
  ASSUME NEW c, Len(c.dims) \in Nat, NEW meta, NEW start, NEW end, NEW s
  PROVE  IsSeq(BlockPasses(c, meta, start, end, s))
BY AlongDimsSeq, AroundCenterSeq, Zenon DEF BlockPasses

\* Powers of two.
LEMMA Pow2Is ==
  /\ Pow2[0] = 1
  /\ \A k \in Nat : Pow2[k] \in Nat \ {0} /\ Pow2[k + 1] = 2 * Pow2[k]
  /\ \A k \in Nat : k < Pow2[k]
<1> DEFINE step == [n \in Nat |-> [x \in Nat |-> 2 * x]]
<1>1. step \in [Nat -> [Nat -> Nat]] /\ 1 \in Nat OBVIOUS
<1>2. \A n \in Nat, x \in Nat : step[n][x] = 2 * x OBVIOUS
<1> HIDE DEF step
<1>3. PICK f \in [Nat -> Nat] : \A n \in Nat : f[n] = IF n = 0 THEN 1 ELSE step[n][f[n - 1]]
  BY <1>1, Recursion, Zenon
<1>4. f = [n \in Nat |-> IF n = 0 THEN 1 ELSE 2 * f[n - 1]]
  <2>1. \A n \in Nat : f[n] = IF n = 0 THEN 1 ELSE 2 * f[n - 1]
    <3> SUFFICES ASSUME NEW n \in Nat PROVE f[n] = IF n = 0 THEN 1 ELSE 2 * f[n - 1]
      OBVIOUS
    <3>1. n # 0 => n - 1 \in Nat /\ f[n - 1] \in Nat BY <1>3
    <3> QED BY <1>2, <1>3, <3>1
  <2> QED BY <1>3, <2>1
<1>5. Pow2 = [n \in Nat |-> IF n = 0 THEN 1 ELSE 2 * Pow2[n - 1]]
  BY <1>4 DEF Pow2
<1>6. Pow2[0] = 1 /\ \A n \in Nat : Pow2[n + 1] = 2 * Pow2[n]
  <2>1. ASSUME NEW n \in Nat PROVE Pow2[n + 1] = 2 * Pow2[n]
    <3>1. n + 1 \in Nat /\ n + 1 # 0 /\ n + 1 - 1 = n OBVIOUS
    <3> QED BY <1>5, <3>1
  <2> QED BY <1>5, <2>1
<1>7. \A n \in Nat : Pow2[n] \in Nat \ {0} /\ n < Pow2[n]
  <2> DEFINE T == {n \in Nat : ~(Pow2[n] \in Nat \ {0} /\ n < Pow2[n])}
  <2> SUFFICES ASSUME T # {} PROVE FALSE
    OBVIOUS
  <2>1. PICK n \in T : \A y \in T : n <= y
    <3>1. T \in SUBSET Nat OBVIOUS
    <3> QED BY <3>1, Least
  <2>2. n # 0 BY <1>6
  <2>3. n - 1 \in Nat /\ n - 1 \notin T /\ n \in Nat /\ (n - 1) + 1 = n
    BY <2>1, <2>2
  <2>4. Pow2[n] = 2 * Pow2[n - 1] BY <1>6, <2>3
  <2>5. Pow2[n - 1] \in Nat \ {0} /\ n - 1 < Pow2[n - 1] BY <2>3
  <2> QED BY <2>1, <2>3, <2>4, <2>5
<1> QED BY <1>6, <1>7

\* A larger power of two is a multiple of a smaller one.
LEMMA Pow2Grows ==
  ASSUME NEW i \in Nat, NEW j \in Nat, i <= j
  PROVE  /\ Pow2[i] <= Pow2[j]
         /\ \E m \in Nat \ {0} : Pow2[j] = m * Pow2[i]
<1> DEFINE T == {k \in Nat : ~\E m \in Nat \ {0} : Pow2[i + k] = m * Pow2[i]}
<1>1. T = {}
  <2> SUFFICES ASSUME T # {} PROVE FALSE
    OBVIOUS
  <2>1. PICK k \in T : \A y \in T : k <= y
    <3>1. T \in SUBSET Nat OBVIOUS
    <3> QED BY <3>1, Least
  <2>2. k # 0
    <3>1. Pow2[i + 0] = 1 * Pow2[i] BY Pow2Is
    <3> QED BY <2>1, <3>1
  <2>3. k - 1 \in Nat /\ k - 1 \notin T /\ k \in Nat BY <2>1, <2>2
  <2>4. PICK m \in Nat \ {0} : Pow2[i + (k - 1)] = m * Pow2[i]
    BY <2>3
  <2>5. Pow2[i + k] = 2 * Pow2[i + (k - 1)]
    <3>1. i + (k - 1) \in Nat /\ i + (k - 1) + 1 = i + k BY <2>3
    <3> QED BY <3>1, Pow2Is
  <2>6. PICK p \in Nat : p = Pow2[i]
    BY Pow2Is
  <2>7. 2 * (m * p) = (2 * m) * p /\ 2 * m \in Nat \ {0} OBVIOUS
  <2>8. Pow2[i + k] = (2 * m) * Pow2[i] BY <2>4, <2>5, <2>6, <2>7
  <2> QED BY <2>1, <2>7, <2>8
<1>2. j - i \in Nat /\ i + (j - i) = j OBVIOUS
<1>3. PICK m \in Nat \ {0} : Pow2[j] = m * Pow2[i]
  BY <1>1, <1>2
<1>4. PICK p \in Nat : p = Pow2[i]
  BY Pow2Is
<1>5. p <= m * p
  <2>1. PICK k \in Nat : m = k + 1
    <3>1. m - 1 \in Nat /\ m = (m - 1) + 1 OBVIOUS
    <3> QED BY <3>1
  <2>2. m * p = k * p + p /\ k * p \in Nat BY <2>1, Products
  <2> QED BY <2>2
<1> QED BY <1>3, <1>4, <1>5

\* The exponents of powers of two are in their order.
LEMMA Pow2Below ==
  ASSUME NEW i \in Nat, NEW j \in Nat, Pow2[i] < Pow2[j]
  PROVE  i < j
<1> SUFFICES ASSUME j <= i PROVE FALSE
  OBVIOUS
<1>1. Pow2[j] <= Pow2[i] BY Pow2Grows
<1> QED BY <1>1, Pow2Is

\* CeilLog2 is a number, and its power of two not smaller.
LEMMA CeilLog2Is ==
  ASSUME NEW x \in Nat \ {0}
  PROVE  CeilLog2(x) \in Nat /\ x <= Pow2[CeilLog2(x)]
<1> DEFINE P(k) == Pow2[k] >= x /\ (k = 0 \/ Pow2[k - 1] < x)
           T == {k \in 0 .. x : Pow2[k] >= x}
<1>1. x \in T BY Pow2Is
<1>2. PICK k \in T : \A y \in T : k <= y
  <2>1. T \in SUBSET Nat OBVIOUS
  <2> QED BY <1>1, <2>1, Least
<1>3. k \in 0 .. x /\ P(k)
  <2>1. CASE k = 0 BY <1>2, <2>1
  <2>2. CASE k # 0
    <3>1. k - 1 \in 0 .. x /\ k - 1 \notin T BY <1>2, <2>2
    <3>2. Pow2[k - 1] \in Nat BY <3>1, Pow2Is
    <3> QED BY <1>2, <3>1, <3>2
  <2> QED BY <2>1, <2>2
<1>4. CeilLog2(x) = CHOOSE i \in 0 .. x : P(i) BY DEF CeilLog2
<1> HIDE DEF P
<1>5. CeilLog2(x) \in 0 .. x /\ P(CeilLog2(x)) BY <1>3, <1>4, Zenon
<1> QED BY <1>5 DEF P

\* FloorLog2 of a power of two.
LEMMA FloorLog2Is ==
  ASSUME NEW k \in Nat
  PROVE  FloorLog2(Pow2[k]) = k
<1> DEFINE x == Pow2[k]
           P(i) == Pow2[i] <= x /\ x < Pow2[i + 1]
<1>1. x \in Nat /\ k \in 0 .. x /\ P(k) BY Pow2Is
<1>2. FloorLog2(x) = CHOOSE i \in 0 .. x : P(i) BY DEF FloorLog2
<1>3. ASSUME NEW i \in 0 .. x, P(i) PROVE i = k
  <2>1. i \in Nat /\ i + 1 \in Nat /\ k + 1 \in Nat OBVIOUS
  <2>2. Pow2[k] < Pow2[i + 1] /\ Pow2[i] <= Pow2[k] BY <1>3
  <2>3. k < i + 1 BY <2>1, <2>2, Pow2Below
  <2>4. Pow2[i] < Pow2[k + 1] BY <2>1, <2>2, Pow2Is
  <2>5. i < k + 1 BY <2>1, <2>4, Pow2Below
  <2> QED BY <2>1, <2>3, <2>5
<1> HIDE DEF P, x
<1>4. FloorLog2(x) \in 0 .. x /\ P(FloorLog2(x)) BY <1>1, <1>2, Zenon
<1> QED BY <1>3, <1>4 DEF x

\* The compressor starts at the level of the anchors, or at one whose stride is past
\* the end of every dimension.
LEMMA StartLevelIs ==
  ASSUME NEW c, IsConfig(c), Fits(c)
  PROVE  /\ StartLevel(c) \in Nat
         /\ IF c.maxStep = 0 THEN \A d \in Dims(c) : c.dims[d] <= Pow2[StartLevel(c)]
            ELSE c.maxStep = Pow2[StartLevel(c)]
<1> DEFINE S == {CeilLog2(c.dims[d]) : d \in Dims(c)}
           full == Max(S)
<1>1. /\ Len(c.dims) \in 1 .. 4 /\ Dims(c) = 1 .. Len(c.dims)
      /\ \A d \in Dims(c) : c.dims[d] \in Nat \ {0}
  BY DEF IsConfig, Dims
<1>2. \A d \in Dims(c) : CeilLog2(c.dims[d]) \in Nat /\ c.dims[d] <= Pow2[CeilLog2(c.dims[d])]
  BY <1>1, CeilLog2Is
<1>3. full \in Nat /\ \A d \in Dims(c) : CeilLog2(c.dims[d]) <= full
  <2> PICK f : f = [d \in Dims(c) |-> CeilLog2(c.dims[d])]
    OBVIOUS
  <2>1. \A d \in Dims(c) : f[d] = CeilLog2(c.dims[d]) /\ f[d] \in Int BY <1>2
  <2>2. \A d \in 1 .. Len(c.dims) : f[d] \in Int BY <1>1, <2>1
  <2>3. 1 \in Int /\ Len(c.dims) \in Int /\ 1 <= Len(c.dims) BY <1>1
  <2>4. PICK m \in 1 .. Len(c.dims) : \A i \in 1 .. Len(c.dims) : f[i] <= f[m]
    BY <2>2, <2>3, Greatest
  <2>5. S \in SUBSET Int /\ f[m] \in S /\ \A x \in S : x <= f[m]
    BY <1>1, <1>2, <2>1, <2>4
  <2>6. full = f[m] BY <2>5, MaxIs
  <2> QED BY <1>1, <1>2, <2>1, <2>4, <2>6
<1> HIDE DEF full
<1>4. StartLevel(c) = IF c.maxStep = 0 THEN full ELSE Min({full, FloorLog2(c.maxStep) + 1}) - 1
  BY DEF StartLevel, full
<1>5. ASSUME NEW d \in Dims(c) PROVE c.dims[d] <= Pow2[full]
  <2>1. Pow2[CeilLog2(c.dims[d])] <= Pow2[full] BY <1>2, <1>3, Pow2Grows
  <2>2. /\ c.dims[d] \in Nat /\ Pow2[CeilLog2(c.dims[d])] \in Nat /\ Pow2[full] \in Nat
        /\ c.dims[d] <= Pow2[CeilLog2(c.dims[d])]
    BY <1>1, <1>2, <1>3, Pow2Is
  <2> QED BY <2>1, <2>2
<1>6. CASE c.maxStep = 0 BY <1>3, <1>4, <1>5, <1>6
<1>7. CASE c.maxStep # 0
  <2>1. /\ \E k \in 0 .. c.maxStep : c.maxStep = Pow2[k]
        /\ \E d \in Dims(c) : c.maxStep < c.dims[d]
    BY <1>7 DEF Fits
  <2>2. PICK k \in 0 .. c.maxStep : c.maxStep = Pow2[k]
    BY <2>1
  <2>3. c.maxStep \in Nat /\ k \in Nat BY DEF IsConfig
  <2>4. PICK d \in Dims(c) : c.maxStep < c.dims[d]
    BY <2>1
  <2>5. Pow2[k] < Pow2[full]
    <3>1. c.dims[d] <= Pow2[full] BY <1>5
    <3>2. Pow2[full] \in Nat /\ c.dims[d] \in Nat BY <1>1, <1>3, Pow2Is
    <3> QED BY <2>2, <2>3, <2>4, <3>1, <3>2
  <2>6. k < full BY <1>3, <2>3, <2>5, Pow2Below
  <2>7. FloorLog2(c.maxStep) = k BY <2>2, <2>3, FloorLog2Is
  <2>8. Min({full, k + 1}) = k + 1 BY <1>3, <2>3, <2>6, MinOfTwo
  <2>9. StartLevel(c) = k BY <1>4, <1>7, <2>3, <2>7, <2>8
  <2> QED BY <1>7, <2>2, <2>3, <2>9
<1> QED BY <1>6, <1>7

-----------------------------------------------------------------------------
(* The walk over the blocks.                                               *)

\* Blocks are not empty, and the next one is further in row order.
LEMMA CursorIs ==
  ASSUME NEW c, IsConfig(c), NEW l \in Nat \ {0}, NEW b \in [Dims(c) -> Nat]
  PROVE  /\ Stride(l) \in Nat \ {0} /\ CurBlocksize(c, l) \in Nat \ {0}
         /\ Origin(c) \in [Dims(c) -> Nat]
         /\ Advance(c, l, b) \subseteq Dims(c)
         /\ Advance(c, l, b) # {} =>
              LET last == Max(Advance(c, l, b))
                  next == NextStart(c, l, b)
              IN  /\ last \in Advance(c, l, b) /\ \A d \in Advance(c, l, b) : d <= last
                  /\ next \in [Dims(c) -> Nat]
                  /\ next[last] = b[last] + CurBlocksize(c, l)
                  /\ \A d \in Dims(c) : d < last => next[d] = b[d]
                  /\ \A d \in Dims(c) : d > last => next[d] = 0
<1>1. l - 1 \in Nat /\ Stride(l) \in Nat \ {0} BY Pow2Is DEF Stride
<1>2. /\ c.blocksize \in Nat \ {0} /\ c.fixBlockSize \in Nat /\ Len(c.dims) \in Nat
      /\ Dims(c) = 1 .. Len(c.dims)
  BY DEF IsConfig, Dims
<1>3. CurBlocksize(c, l) \in Nat \ {0}
  <2>1. c.blocksize * Stride(l) \in Nat \ {0} BY <1>1, <1>2, Positive
  <2> QED BY <1>2, <2>1 DEF CurBlocksize
<1>4. Origin(c) \in [Dims(c) -> Nat] BY DEF Origin
<1>5. Advance(c, l, b) \subseteq Dims(c) BY DEF Advance
<1>6. ASSUME Advance(c, l, b) # {}
      PROVE  LET last == Max(Advance(c, l, b))
                 next == NextStart(c, l, b)
             IN  /\ last \in Advance(c, l, b) /\ \A d \in Advance(c, l, b) : d <= last
                 /\ next \in [Dims(c) -> Nat]
                 /\ next[last] = b[last] + CurBlocksize(c, l)
                 /\ \A d \in Dims(c) : d < last => next[d] = b[d]
                 /\ \A d \in Dims(c) : d > last => next[d] = 0
  <2> DEFINE last == Max(Advance(c, l, b))
             next == NextStart(c, l, b)
  <2>1. last \in Advance(c, l, b) /\ \A d \in Advance(c, l, b) : d <= last
    BY <1>2, <1>5, <1>6, MaxDim
  <2>2. last \in Dims(c) /\ last \in Nat BY <1>2, <1>5, <2>1
  <2>3. next = [d \in Dims(c) |-> IF d < last THEN b[d]
                                  ELSE IF d = last THEN b[d] + CurBlocksize(c, l) ELSE 0]
    BY DEF NextStart
  <2> HIDE DEF last, next
  <2>4. next \in [Dims(c) -> Nat] BY <1>3, <2>3
  <2>5. next[last] = b[last] + CurBlocksize(c, l) BY <2>2, <2>3
  <2>6. \A d \in Dims(c) : (d < last => next[d] = b[d]) /\ (d > last => next[d] = 0)
    BY <1>2, <2>2, <2>3
  <2> QED BY <2>1, <2>4, <2>5, <2>6 DEF last, next
<1> QED BY <1>1, <1>3, <1>4, <1>5, <1>6

\* A block at its start: the level, its first point, and the log so far.  Its meta, its
\* passes, and the next block at its start.
UsedMeta(c, metas, l, i) == IF Tuned(c) THEN metas[i] ELSE LevelMeta(c.meta, c.list, l)

PassesOf(c, st, meta) ==
  BlockPasses(c, meta, st.block, BlockEnd(c, st.level, st.block), Stride(st.level))

Following(c, st, meta) ==
  LET advance == Advance(c, st.level, st.block)
  IN  [level |-> IF advance = {} THEN st.level - 1 ELSE st.level,
       block |-> IF advance = {} THEN Origin(c) ELSE NextStart(c, st.level, st.block),
       log   |-> st.log \o PassesOf(c, st, meta)]

IsStop(c, st) ==
  /\ st = [level |-> st.level, block |-> st.block, log |-> st.log]
  /\ st.level \in Nat /\ st.block \in [Dims(c) -> Nat] /\ IsSeq(st.log)

\* The blocks from the start on, each with its meta.
IsWalk(c, metas, w) ==
  /\ IsSeq(w) /\ Len(w) > 0
  /\ w[1] = [level |-> StartLevel(c), block |-> Origin(c), log |-> <<FirstBatch(c)>>]
  /\ \A i \in 1 .. Len(w) : IsStop(c, w[i]) /\ Begins(w[i].log, w[Len(w)].log)
  /\ \A i \in 1 .. Len(w) - 1 :
       w[i].level # 0 /\ w[i + 1] = Following(c, w[i], UsedMeta(c, metas, w[i].level, i))

\* The stop after the next one.
LEMMA FollowingIs ==
  ASSUME NEW c, IsConfig(c), NEW st, IsStop(c, st), st.level # 0, NEW meta
  PROVE  /\ IsStop(c, Following(c, st, meta))
         /\ IsSeq(PassesOf(c, st, meta))
         /\ Begins(st.log, Following(c, st, meta).log)
<1>1. IsSeq(PassesOf(c, st, meta))
  <2>1. Len(c.dims) \in Nat BY DEF IsConfig
  <2> QED BY <2>1, BlockPassesSeq DEF PassesOf
<1> DEFINE long == st.log \o PassesOf(c, st, meta)
<1>2. IsSeq(long) /\ Begins(st.log, long)
  <2>1. /\ IsSeq(long)
        /\ Len(long) = Len(st.log) + Len(PassesOf(c, st, meta))
        /\ \A k \in 1 .. Len(st.log) : long[k] = st.log[k]
    BY <1>1, JoinIs DEF IsStop
  <2>2. Len(st.log) \in Nat /\ Len(PassesOf(c, st, meta)) \in Nat
    BY <1>1, LengthIs DEF IsStop
  <2> HIDE DEF long
  <2> QED BY <2>1, <2>2 DEF Begins
<1> HIDE DEF long
<1>3. st.level \in Nat \ {0} /\ st.block \in [Dims(c) -> Nat] BY DEF IsStop
<1>4. /\ Origin(c) \in [Dims(c) -> Nat]
      /\ Advance(c, st.level, st.block) # {} => NextStart(c, st.level, st.block) \in [Dims(c) -> Nat]
  BY <1>3, CursorIs
<1>5. Following(c, st, meta).log = long BY DEF Following, long
<1>6. Following(c, st, meta).level \in Nat /\ Following(c, st, meta).block \in [Dims(c) -> Nat]
  BY <1>3, <1>4 DEF Following
<1>7. Following(c, st, meta) = [level |-> Following(c, st, meta).level,
                                block |-> Following(c, st, meta).block,
                                log   |-> Following(c, st, meta).log]
  BY DEF Following
<1> QED BY <1>1, <1>2, <1>5, <1>6, <1>7 DEF IsStop

\* A walk goes on with the next block.
LEMMA WalkGoesOn ==
  ASSUME NEW c, IsConfig(c), NEW metas, NEW w, IsWalk(c, metas, w), w[Len(w)].level # 0,
         NEW st, st = Following(c, w[Len(w)], UsedMeta(c, metas, w[Len(w)].level, Len(w)))
  PROVE  /\ IsWalk(c, metas, Append(w, st))
         /\ Len(Append(w, st)) = Len(w) + 1 /\ Append(w, st)[Len(w) + 1] = st
         /\ Len(w) \in Nat /\ IsSeq(PassesOf(c, w[Len(w)], UsedMeta(c, metas, w[Len(w)].level, Len(w))))
<1> DEFINE n == Len(w)
           v == Append(w, st)
<1>1. IsSeq(w) /\ n \in Nat /\ n > 0 BY LengthIs DEF IsWalk
<1>2. /\ IsSeq(v) /\ Len(v) = n + 1 /\ v[n + 1] = st
      /\ \A k \in 1 .. n : v[k] = w[k]
  BY <1>1, AppendIs
<1>3. \A i \in 1 .. n : IsStop(c, w[i]) /\ Begins(w[i].log, w[n].log)
  BY DEF IsWalk
<1>4. /\ IsStop(c, st) /\ Begins(w[n].log, st.log)
      /\ IsSeq(PassesOf(c, w[n], UsedMeta(c, metas, w[n].level, n)))
  <2>1. n \in 1 .. n BY <1>1
  <2> QED BY <1>3, <2>1, FollowingIs
<1>5. \A i \in 1 .. n : Begins(w[i].log, st.log)
  <2> SUFFICES ASSUME NEW i \in 1 .. n PROVE Begins(w[i].log, st.log)
    OBVIOUS
  <2>1. n \in 1 .. n BY <1>1
  <2>2. IsSeq(w[i].log) /\ IsSeq(w[n].log) /\ IsSeq(st.log)
    BY <1>3, <1>4, <2>1 DEF IsStop
  <2> QED BY <1>3, <1>4, <2>2, BeginsTransitive
<1>6. Begins(st.log, st.log) BY <1>4, BeginsIs DEF IsStop
<1> HIDE DEF v
<1>7. \A i \in 1 .. Len(v) : IsStop(c, v[i]) /\ Begins(v[i].log, v[Len(v)].log)
  <2> SUFFICES ASSUME NEW i \in 1 .. Len(v)
               PROVE  IsStop(c, v[i]) /\ Begins(v[i].log, v[Len(v)].log)
    OBVIOUS
  <2>1. v[Len(v)] = st BY <1>2
  <2>2. i \in 1 .. n \/ i = n + 1 BY <1>1, <1>2
  <2> QED BY <1>2, <1>3, <1>4, <1>5, <1>6, <2>1, <2>2
<1>8. \A i \in 1 .. Len(v) - 1 :
        v[i].level # 0 /\ v[i + 1] = Following(c, v[i], UsedMeta(c, metas, v[i].level, i))
  <2> SUFFICES ASSUME NEW i \in 1 .. n
               PROVE  /\ v[i].level # 0
                      /\ v[i + 1] = Following(c, v[i], UsedMeta(c, metas, v[i].level, i))
    BY <1>1, <1>2
  <2>1. CASE i = n BY <1>1, <1>2, <2>1
  <2>2. CASE i \in 1 .. n - 1
    <3>1. i + 1 \in 1 .. n BY <1>1, <2>2
    <3> QED BY <1>2, <2>2, <3>1 DEF IsWalk
  <2> QED BY <1>1, <2>1, <2>2
<1>9. v[1] = [level |-> StartLevel(c), block |-> Origin(c), log |-> <<FirstBatch(c)>>]
  <2>1. 1 \in 1 .. n BY <1>1
  <2> QED BY <1>2, <2>1 DEF IsWalk
<1>10. IsWalk(c, metas, v) BY <1>1, <1>2, <1>7, <1>8, <1>9 DEF IsWalk
<1> QED BY <1>1, <1>2, <1>4, <1>10 DEF v

\* It is a walk whatever metas follow.
LEMMA WalkKept ==
  ASSUME NEW c, NEW metas, NEW w, IsWalk(c, metas, w),
         IsSeq(metas), Tuned(c) => Len(metas) >= Len(w) - 1, NEW m
  PROVE  IsWalk(c, Append(metas, m), w)
<1>1. Len(w) \in Nat /\ Len(metas) \in Nat BY LengthIs DEF IsWalk
<1>2. \A k \in 1 .. Len(metas) : Append(metas, m)[k] = metas[k] BY AppendIs
<1>3. ASSUME NEW i \in 1 .. Len(w) - 1
      PROVE  UsedMeta(c, Append(metas, m), w[i].level, i) = UsedMeta(c, metas, w[i].level, i)
  BY <1>1, <1>2 DEF UsedMeta
<1> QED BY <1>3 DEF IsWalk

AllFit == \A c \in Configs : Fits(c)

\* What compress has walked, up to the block it is at.
Encoded(w) ==
  LET n    == Len(w)
      meta == UsedMeta(cfg, interp_metas, w[n].level, n)
  IN  /\ IsWalk(cfg, interp_metas, w)
      /\ Len(interp_metas) = IF ~Tuned(cfg) THEN 0 ELSE IF pc = "code" THEN n ELSE n - 1
      /\ IF pc = "code"
         THEN /\ level = w[n].level /\ level # 0 /\ block = w[n].block
              /\ Begins(w[n].log, log) /\ log \o todo = w[n].log \o PassesOf(cfg, w[n], meta)
         ELSE /\ log = w[n].log
              /\ IF pc = "block" THEN level = w[n].level /\ level # 0 /\ block = w[n].block
                 ELSE w[n].level = 0

Header == [meta |-> cfg.meta, blockwise |-> cfg.blockwise,
           list |-> IF cfg.blockwise THEN interp_metas ELSE cfg.list]

\* The blocks whose meta is used before the j-th one.
Used(j) == IF cfg.blockwise THEN j - 1 ELSE 0

\* decompress is at a block that compress was at, or has come to the same end.
Decoding(w) ==
  /\ pc \in {"dblock", "done"} =>
       \E j \in 1 .. Len(w) :
         /\ dlog = w[j].log /\ meta_index = Used(j)
         /\ IF pc = "done" THEN w[j].level = 0
            ELSE dlevel = w[j].level /\ dlevel # 0 /\ dblock = w[j].block
  /\ pc = "dcode" =>
       \E j \in 1 .. Len(w) - 1 :
         /\ dlevel = w[j].level /\ dblock = w[j].block /\ meta_index = Used(j + 1)
         /\ dlog \o dtodo = w[j + 1].log

Encoding == {"first", "block", "code", "save"}

WalkInv ==
  /\ cfg \in Configs
  /\ pc \in Encoding \cup {"dfirst", "dblock", "dcode", "done"}
  /\ IsSeq(log) /\ IsSeq(todo) /\ IsSeq(dlog) /\ IsSeq(dtodo) /\ IsSeq(interp_metas)
  /\ pc = "first" => log = <<>> /\ interp_metas = <<>>
  /\ pc \in Encoding \cup {"dfirst"} => dlog = <<>> /\ meta_index = 0
  /\ pc \notin Encoding => hdr = Header
  /\ pc # "first" => \E w : Encoded(w) /\ Decoding(w)

\* The invariant of the walk holds at the start, and each step keeps it:
LEMMA InitWalk == Init => WalkInv
BY ListsAre DEF Init, WalkInv, Encoding

\* the first batch,
LEMMA EncodeFirstWalk ==
  ASSUME AllFit, WalkInv, EncodeFirst
  PROVE  WalkInv'
<1>1. /\ cfg \in Configs /\ cfg' = cfg /\ pc = "first" /\ pc' \in {"save", "block"}
      /\ log' = <<FirstBatch(cfg)>> /\ todo' = todo /\ interp_metas' = interp_metas
      /\ interp_metas = <<>>
      /\ level' = StartLevel(cfg) /\ block' = Origin(cfg)
      /\ (level' = 0 => pc' = "save") /\ (level' # 0 => pc' = "block")
      /\ dlog' = dlog /\ dtodo' = dtodo /\ meta_index' = meta_index
      /\ dlog = <<>> /\ meta_index = 0
  BY DEF WalkInv, EncodeFirst, decVars, Encoding
<1>2. IsConfig(cfg) /\ Fits(cfg) BY <1>1, SweepAssumption DEF AllFit
<1> PICK st : st = [level |-> StartLevel(cfg), block |-> Origin(cfg), log |-> <<FirstBatch(cfg)>>]
  OBVIOUS
<1> PICK w : w = <<st>>
  OBVIOUS
<1>3. IsSeq(log') /\ IsSeq(interp_metas') /\ Len(interp_metas') = 0
  BY <1>1, ListsAre
<1>4. IsStop(cfg, st)
  <2>1. StartLevel(cfg) \in Nat BY <1>2, StartLevelIs
  <2>2. Origin(cfg) \in [Dims(cfg) -> Nat] BY DEF Origin
  <2>3. IsSeq(<<FirstBatch(cfg)>>) BY ListsAre
  <2> QED BY <2>1, <2>2, <2>3 DEF IsStop
<1>5. IsSeq(w) /\ Len(w) = 1 /\ w[1] = st BY ListsAre
<1>6. Begins(st.log, st.log) BY <1>4, BeginsIs DEF IsStop
<1>7. IsWalk(cfg, interp_metas', w) BY <1>4, <1>5, <1>6 DEF IsWalk
<1>8. Encoded(w)'
  <2>1. IsWalk(cfg', interp_metas', w) BY <1>1, <1>7
  <2>2. st.level = level' /\ st.block = block' /\ st.log = log' BY <1>1
  <2>3. Len(w) - 1 = 0 /\ w[Len(w)] = st BY <1>5
  <2>4. pc' # "code" /\ (pc' # "block" => level' = 0) /\ (pc' = "block" => level' # 0)
    BY <1>1
  <2> QED BY <1>3, <2>1, <2>2, <2>3, <2>4 DEF Encoded
<1>9. Decoding(w)' BY <1>1 DEF Decoding
<1> QED BY <1>1, <1>3, <1>8, <1>9 DEF WalkInv, Encoding

\* The block the encoder is at.
LEMMA AtBlock ==
  ASSUME AllFit, WalkInv, pc = "block", NEW w, Encoded(w)
  PROVE  LET n  == Len(w)
             st == w[n]
         IN  /\ n \in Nat \ {0} /\ n \in 1 .. n /\ IsStop(cfg, st) /\ IsConfig(cfg) /\ Fits(cfg)
             /\ level = st.level /\ level # 0 /\ block = st.block /\ log = st.log
             /\ \A meta : /\ IsSeq(PassesOf(cfg, st, meta))
                          /\ PassesOf(cfg, st, meta)
                               = BlockPasses(cfg, meta, block, BlockEnd(cfg, level, block), Stride(level))
<1> DEFINE n  == Len(w)
           st == w[n]
<1>1. IsConfig(cfg) /\ Fits(cfg) BY SweepAssumption DEF AllFit, WalkInv
<1>2. IsWalk(cfg, interp_metas, w) BY DEF Encoded
<1>3. n \in Nat \ {0} /\ n \in 1 .. n BY <1>2, LengthIs DEF IsWalk
<1>4. IsStop(cfg, st) BY <1>2, <1>3 DEF IsWalk
<1>5. level = st.level /\ level # 0 /\ block = st.block /\ log = st.log
  BY DEF Encoded
<1>6. \A meta : IsSeq(PassesOf(cfg, st, meta)) BY <1>1, <1>4, <1>5, FollowingIs
<1>7. \A meta : PassesOf(cfg, st, meta)
                  = BlockPasses(cfg, meta, block, BlockEnd(cfg, level, block), Stride(level))
  BY <1>5 DEF PassesOf
<1> QED BY <1>1, <1>3, <1>4, <1>5, <1>6, <1>7, Zenon

\* the start of a block,
LEMMA EncodeBlockWalk ==
  ASSUME AllFit, WalkInv, EncodeBlock
  PROVE  WalkInv'
<1>1. /\ cfg \in Configs /\ cfg' = cfg /\ pc = "block" /\ pc' = "code" /\ ~Tuned(cfg)
      /\ todo' = BlockPasses(cfg, LevelMeta(cfg.meta, cfg.list, level), block,
                             BlockEnd(cfg, level, block), Stride(level))
      /\ log' = log /\ interp_metas' = interp_metas /\ level' = level /\ block' = block
      /\ dlog' = dlog /\ dtodo' = dtodo /\ meta_index' = meta_index
      /\ dlog = <<>> /\ meta_index = 0
  BY DEF WalkInv, EncodeBlock, StartPasses, decVars, Encoding
<1>2. PICK w : Encoded(w) /\ Decoding(w)
  BY <1>1 DEF WalkInv
<1> DEFINE n  == Len(w)
           st == w[n]
           meta == LevelMeta(cfg.meta, cfg.list, level)
<1>3. /\ n \in Nat \ {0} /\ n \in 1 .. n /\ IsStop(cfg, st)
      /\ level = st.level /\ level # 0 /\ block = st.block /\ log = st.log
      /\ IsSeq(PassesOf(cfg, st, meta)) /\ todo' = PassesOf(cfg, st, meta)
  BY <1>1, <1>2, AtBlock
<1>4. UsedMeta(cfg, interp_metas, st.level, n) = meta BY <1>1, <1>3 DEF UsedMeta
<1>5. Begins(log, log) BY <1>3, BeginsIs DEF IsStop
<1>6. IsWalk(cfg', interp_metas', w) /\ Len(interp_metas') = 0 /\ ~Tuned(cfg')
  BY <1>1, <1>2 DEF Encoded
<1>7. log' \o todo' = st.log \o PassesOf(cfg', st, UsedMeta(cfg', interp_metas', st.level, n))
  BY <1>1, <1>3, <1>4, Zenon
<1>8. Encoded(w)' BY <1>1, <1>3, <1>5, <1>6, <1>7 DEF Encoded
<1>9. Decoding(w)' BY <1>1 DEF Decoding
<1>10. IsSeq(log') /\ IsSeq(todo') /\ IsSeq(interp_metas') /\ IsSeq(dlog') /\ IsSeq(dtodo')
  BY <1>1, <1>3 DEF WalkInv
<1> QED BY <1>1, <1>8, <1>9, <1>10 DEF WalkInv, Encoding

\* the start of a block that is tuned,
LEMMA TuneBlockWalk ==
  ASSUME AllFit, WalkInv, TuneBlock
  PROVE  WalkInv'
<1> PICK best :
      /\ interp_metas' = Append(interp_metas, best)
      /\ todo' = BlockPasses(cfg, best, block, BlockEnd(cfg, level, block), Stride(level))
  BY DEF TuneBlock, StartPasses
<1>1. /\ cfg \in Configs /\ cfg' = cfg /\ pc = "block" /\ pc' = "code" /\ Tuned(cfg)
      /\ log' = log /\ level' = level /\ block' = block
      /\ dlog' = dlog /\ dtodo' = dtodo /\ meta_index' = meta_index
      /\ dlog = <<>> /\ meta_index = 0 /\ IsSeq(interp_metas)
  BY DEF WalkInv, TuneBlock, decVars, Encoding
<1>2. PICK w : Encoded(w) /\ Decoding(w)
  BY <1>1 DEF WalkInv
<1> DEFINE n  == Len(w)
           st == w[n]
<1>3. /\ n \in Nat \ {0} /\ n \in 1 .. n /\ IsStop(cfg, st)
      /\ level = st.level /\ level # 0 /\ block = st.block /\ log = st.log
      /\ IsSeq(PassesOf(cfg, st, best)) /\ todo' = PassesOf(cfg, st, best)
  BY <1>1, <1>2, AtBlock
<1>4. IsWalk(cfg, interp_metas, w) /\ Len(interp_metas) = n - 1
  BY <1>1, <1>2 DEF Encoded
<1>5. /\ IsSeq(interp_metas') /\ Len(interp_metas') = n /\ interp_metas'[n] = best
  <2>1. /\ IsSeq(interp_metas') /\ Len(interp_metas') = (n - 1) + 1
        /\ interp_metas'[(n - 1) + 1] = best
    BY <1>1, <1>4, AppendIs
  <2>2. (n - 1) + 1 = n BY <1>3
  <2> QED BY <2>1, <2>2
<1>6. IsWalk(cfg', interp_metas', w)
  <2>1. Len(interp_metas) >= n - 1 BY <1>3, <1>4
  <2> QED BY <1>1, <1>4, <2>1, WalkKept
<1>7. UsedMeta(cfg', interp_metas', st.level, n) = best
  BY <1>1, <1>5 DEF UsedMeta
<1>8. Begins(log, log) BY <1>3, BeginsIs DEF IsStop
<1>9. log' \o todo' = st.log \o PassesOf(cfg', st, UsedMeta(cfg', interp_metas', st.level, n))
  BY <1>1, <1>3, <1>7, Zenon
<1>10. Encoded(w)' BY <1>1, <1>3, <1>5, <1>6, <1>8, <1>9 DEF Encoded
<1>11. Decoding(w)' BY <1>1 DEF Decoding
<1>12. IsSeq(log') /\ IsSeq(todo') /\ IsSeq(dlog') /\ IsSeq(dtodo')
  BY <1>1, <1>3 DEF WalkInv
<1> QED BY <1>1, <1>5, <1>10, <1>11, <1>12 DEF WalkInv, Encoding

\* one loop of a block,
LEMMA EncodePassWalk ==
  ASSUME WalkInv, EncodePass
  PROVE  WalkInv'
<1>1. /\ pc' = pc /\ cfg' = cfg /\ hdr' = hdr /\ level' = level /\ block' = block
      /\ interp_metas' = interp_metas /\ pc = "code" /\ todo # <<>>
      /\ log' = Append(log, Head(todo)) /\ todo' = Tail(todo)
      /\ dlog' = dlog /\ dtodo' = dtodo /\ meta_index' = meta_index
      /\ IsSeq(log) /\ IsSeq(todo)
  BY DEF EncodePass, WalkInv, decVars
<1>2. /\ IsSeq(log') /\ IsSeq(todo') /\ log' \o todo' = log \o todo
  BY <1>1, TakeOver
<1>3. PICK w : Encoded(w) /\ Decoding(w)
  BY <1>1 DEF WalkInv
<1> DEFINE st == w[Len(w)]
<1>4. IsSeq(st.log) /\ Begins(st.log, log) /\ Begins(log, log')
  <2>1. IsWalk(cfg, interp_metas, w) /\ Begins(st.log, log)
    BY <1>1, <1>3 DEF Encoded
  <2>2. Len(w) \in 1 .. Len(w) BY <2>1, LengthIs DEF IsWalk
  <2>3. IsSeq(st.log) BY <2>1, <2>2 DEF IsWalk, IsStop
  <2>4. Begins(log, log') BY <1>1, BeginsIs
  <2> QED BY <2>1, <2>3, <2>4
<1>5. Begins(st.log, log') BY <1>1, <1>2, <1>4, BeginsTransitive
<1>6. IsWalk(cfg', interp_metas', w) BY <1>1, <1>3 DEF Encoded
<1>7. Encoded(w)' BY <1>1, <1>2, <1>3, <1>5, <1>6 DEF Encoded
<1>8. Decoding(w)' BY <1>1 DEF Decoding
<1>9. IsSeq(interp_metas') /\ IsSeq(dlog') /\ IsSeq(dtodo') BY <1>1 DEF WalkInv
<1> QED BY <1>1, <1>2, <1>7, <1>8, <1>9 DEF WalkInv, Encoding

\* The block the encoder is in.
LEMMA InBlockOf ==
  ASSUME AllFit, WalkInv, pc = "code", NEW w, Encoded(w),
         NEW meta, meta = UsedMeta(cfg, interp_metas, w[Len(w)].level, Len(w))
  PROVE  LET n  == Len(w)
             st == w[n]
         IN  /\ n \in Nat \ {0} /\ n \in 1 .. n /\ IsStop(cfg, st) /\ IsConfig(cfg) /\ Fits(cfg)
             /\ IsWalk(cfg, interp_metas, w)
             /\ level = st.level /\ level # 0 /\ block = st.block
             /\ IsSeq(PassesOf(cfg, st, meta))
             /\ PassesOf(cfg, st, meta)
                  = BlockPasses(cfg, meta, block, BlockEnd(cfg, level, block), Stride(level))
             /\ log \o todo = st.log \o PassesOf(cfg, st, meta)
<1> DEFINE n  == Len(w)
           st == w[n]
<1>1. IsConfig(cfg) /\ Fits(cfg) BY SweepAssumption DEF AllFit, WalkInv
<1>2. IsWalk(cfg, interp_metas, w) BY DEF Encoded
<1>3. n \in Nat \ {0} /\ n \in 1 .. n BY <1>2, LengthIs DEF IsWalk
<1>4. IsStop(cfg, st) BY <1>2, <1>3 DEF IsWalk
<1>5. /\ level = st.level /\ level # 0 /\ block = st.block
      /\ log \o todo = st.log \o PassesOf(cfg, st, meta)
  BY DEF Encoded
<1>6. IsSeq(PassesOf(cfg, st, meta)) BY <1>1, <1>4, <1>5, FollowingIs
<1>7. PassesOf(cfg, st, meta)
        = BlockPasses(cfg, meta, block, BlockEnd(cfg, level, block), Stride(level))
  BY <1>5 DEF PassesOf
<1> QED BY <1>1, <1>2, <1>3, <1>4, <1>5, <1>6, <1>7, Zenon

\* At the end of a block the walk goes on.
LEMMA BlockDone ==
  ASSUME AllFit, WalkInv, pc = "code", todo = <<>>, NEW w, Encoded(w),
         NEW meta, meta = UsedMeta(cfg, interp_metas, w[Len(w)].level, Len(w)),
         NEW v, v = Append(w, Following(cfg, w[Len(w)], meta))
  PROVE  /\ IsWalk(cfg, interp_metas, v) /\ Len(v) - 1 = Len(w)
         /\ v[Len(v)].log = log
         /\ v[Len(v)].level = IF Advance(cfg, level, block) = {} THEN level - 1 ELSE level
         /\ v[Len(v)].block = IF Advance(cfg, level, block) = {} THEN Origin(cfg)
                              ELSE NextStart(cfg, level, block)
<1> DEFINE n  == Len(w)
           st == w[n]
<1>1. /\ n \in Nat \ {0} /\ n \in 1 .. n /\ IsStop(cfg, st) /\ IsConfig(cfg) /\ Fits(cfg)
      /\ IsWalk(cfg, interp_metas, w)
      /\ level = st.level /\ level # 0 /\ block = st.block
      /\ log \o todo = st.log \o PassesOf(cfg, st, meta)
  BY InBlockOf
<1>2. log = st.log \o PassesOf(cfg, st, meta)
  <2>1. log \o todo = log BY JoinNothing DEF WalkInv
  <2> QED BY <1>1, <2>1
<1>3. IsWalk(cfg, interp_metas, v) /\ Len(v) = n + 1 /\ v[n + 1] = Following(cfg, st, meta)
  BY <1>1, WalkGoesOn
<1>4. /\ Following(cfg, st, meta).log = log
      /\ Following(cfg, st, meta).level
           = IF Advance(cfg, level, block) = {} THEN level - 1 ELSE level
      /\ Following(cfg, st, meta).block
           = IF Advance(cfg, level, block) = {} THEN Origin(cfg) ELSE NextStart(cfg, level, block)
  BY <1>1, <1>2 DEF Following
<1> QED BY <1>1, <1>3, <1>4

\* the next block,
LEMMA EncodeNextBlockWalk ==
  ASSUME AllFit, WalkInv, EncodeNextBlock
  PROVE  WalkInv'
<1>1. /\ pc' = "block" /\ cfg' = cfg /\ hdr' = hdr /\ level' = level /\ log' = log
      /\ interp_metas' = interp_metas /\ pc = "code" /\ todo = <<>> /\ todo' = todo
      /\ Advance(cfg, level, block) # {} /\ block' = NextStart(cfg, level, block)
      /\ dlog' = dlog /\ dtodo' = dtodo /\ meta_index' = meta_index
  BY DEF EncodeNextBlock, decVars
<1>3. PICK w : Encoded(w) /\ Decoding(w)
  BY <1>1 DEF WalkInv
<1> PICK meta : meta = UsedMeta(cfg, interp_metas, w[Len(w)].level, Len(w))
  OBVIOUS
<1> PICK v : v = Append(w, Following(cfg, w[Len(w)], meta))
  OBVIOUS
<1>4. /\ IsWalk(cfg, interp_metas, v) /\ Len(v) - 1 = Len(w) /\ v[Len(v)].log = log
      /\ v[Len(v)].level = level /\ v[Len(v)].block = block'
  <2>1. /\ IsWalk(cfg, interp_metas, v) /\ Len(v) - 1 = Len(w) /\ v[Len(v)].log = log
        /\ v[Len(v)].level = IF Advance(cfg, level, block) = {} THEN level - 1 ELSE level
        /\ v[Len(v)].block = IF Advance(cfg, level, block) = {} THEN Origin(cfg)
                             ELSE NextStart(cfg, level, block)
    BY <1>1, <1>3, BlockDone
  <2> QED BY <1>1, <2>1
<1>5. level # 0 /\ Len(interp_metas) = IF ~Tuned(cfg) THEN 0 ELSE Len(w)
  BY <1>1, <1>3 DEF Encoded
<1>6. IsWalk(cfg', interp_metas', v) BY <1>1, <1>4
<1>7. Encoded(v)' BY <1>1, <1>4, <1>5, <1>6 DEF Encoded
<1>8. Decoding(v)' BY <1>1 DEF Decoding
<1>9. IsSeq(interp_metas') /\ IsSeq(dlog') /\ IsSeq(dtodo') /\ IsSeq(log') /\ IsSeq(todo')
  BY <1>1 DEF WalkInv
<1> QED BY <1>1, <1>7, <1>8, <1>9 DEF WalkInv, Encoding

\* the next level,
LEMMA EncodeNextLevelWalk ==
  ASSUME AllFit, WalkInv, EncodeNextLevel
  PROVE  WalkInv'
<1>1. /\ cfg' = cfg /\ hdr' = hdr /\ log' = log
      /\ interp_metas' = interp_metas /\ pc = "code" /\ todo = <<>> /\ todo' = todo
      /\ Advance(cfg, level, block) = {} /\ block' = Origin(cfg) /\ level' = level - 1
      /\ pc' \in {"save", "block"} /\ (level' = 0 => pc' = "save") /\ (level' # 0 => pc' = "block")
      /\ dlog' = dlog /\ dtodo' = dtodo /\ meta_index' = meta_index
  BY DEF EncodeNextLevel, decVars
<1>3. PICK w : Encoded(w) /\ Decoding(w)
  BY <1>1 DEF WalkInv
<1> PICK meta : meta = UsedMeta(cfg, interp_metas, w[Len(w)].level, Len(w))
  OBVIOUS
<1> PICK v : v = Append(w, Following(cfg, w[Len(w)], meta))
  OBVIOUS
<1>4. /\ IsWalk(cfg, interp_metas, v) /\ Len(v) - 1 = Len(w) /\ v[Len(v)].log = log
      /\ v[Len(v)].level = level' /\ v[Len(v)].block = block'
  BY <1>1, <1>3, BlockDone
<1>5. Len(interp_metas) = IF ~Tuned(cfg) THEN 0 ELSE Len(w)
  BY <1>1, <1>3 DEF Encoded
<1>6. IsWalk(cfg', interp_metas', v) BY <1>1, <1>4
<1>7. Encoded(v)' BY <1>1, <1>4, <1>5, <1>6 DEF Encoded
<1>8. Decoding(v)' BY <1>1 DEF Decoding
<1>9. IsSeq(interp_metas') /\ IsSeq(dlog') /\ IsSeq(dtodo') /\ IsSeq(log') /\ IsSeq(todo')
  BY <1>1 DEF WalkInv
<1> QED BY <1>1, <1>7, <1>8, <1>9 DEF WalkInv, Encoding

\* Steps of decompress leave compress at its end.
LEMMA StaysEncoded ==
  ASSUME WalkInv, pc \notin {"first", "block", "code"}, pc' \notin {"block", "code"},
         cfg' = cfg, interp_metas' = interp_metas, log' = log, NEW w, Encoded(w)
  PROVE  Encoded(w)'
<1>1. IsWalk(cfg, interp_metas, w) BY DEF Encoded
<1>2. IsWalk(cfg', interp_metas', w) BY <1>1
<1> QED BY <1>2 DEF Encoded

\* the header,
LEMMA WriteHeaderWalk ==
  ASSUME WalkInv, WriteHeader
  PROVE  WalkInv'
<1>1. /\ cfg' = cfg /\ log' = log /\ interp_metas' = interp_metas /\ pc = "save" /\ pc' = "dfirst"
      /\ todo' = todo /\ hdr' = Header
      /\ dlog' = dlog /\ dtodo' = dtodo /\ meta_index' = meta_index
  BY DEF WriteHeader, encVars, decVars, Header
<1>2. PICK w : Encoded(w) /\ Decoding(w)
  BY <1>1 DEF WalkInv
<1>3. Encoded(w)' BY <1>1, <1>2, StaysEncoded
<1>4. Decoding(w)' BY <1>1 DEF Decoding
<1>5. Header' = Header BY <1>1 DEF Header
<1>6. IsSeq(interp_metas') /\ IsSeq(dlog') /\ IsSeq(dtodo') /\ IsSeq(log') /\ IsSeq(todo')
  BY <1>1 DEF WalkInv
<1> QED BY <1>1, <1>3, <1>4, <1>5, <1>6 DEF WalkInv, Encoding

\* The walk that compress has ended.
LEMMA WalkEnded ==
  ASSUME AllFit, WalkInv, pc \in {"dfirst", "dblock", "dcode", "done"}, NEW w, Encoded(w)
  PROVE  /\ Len(w) \in Nat \ {0} /\ IsWalk(cfg, interp_metas, w) /\ IsConfig(cfg) /\ Fits(cfg)
         /\ hdr = Header /\ log = w[Len(w)].log /\ w[Len(w)].level = 0
         /\ \A j \in 1 .. Len(w) : IsStop(cfg, w[j]) /\ (w[j].level = 0 => j = Len(w))
         /\ Tuned(cfg) = cfg.blockwise
         /\ Len(interp_metas) = IF cfg.blockwise THEN Len(w) - 1 ELSE 0
<1>1. IsConfig(cfg) /\ Fits(cfg) BY SweepAssumption DEF AllFit, WalkInv
<1>2. IsWalk(cfg, interp_metas, w) /\ log = w[Len(w)].log /\ w[Len(w)].level = 0
  BY DEF Encoded
<1>3. Len(w) \in Nat \ {0} BY <1>2, LengthIs DEF IsWalk
<1>4. ASSUME NEW j \in 1 .. Len(w)
      PROVE  IsStop(cfg, w[j]) /\ (w[j].level = 0 => j = Len(w))
  <2>1. IsStop(cfg, w[j]) BY <1>2 DEF IsWalk
  <2>2. j \in 1 .. Len(w) - 1 => w[j].level # 0 BY <1>2 DEF IsWalk
  <2> QED BY <1>3, <2>1, <2>2
<1>5. Tuned(cfg) = cfg.blockwise BY <1>1 DEF Tuned, Fits, IsConfig
<1>6. Len(interp_metas) = IF cfg.blockwise THEN Len(w) - 1 ELSE 0
  BY <1>5 DEF Encoded
<1>7. hdr = Header BY DEF WalkInv, Encoding
<1> QED BY <1>1, <1>2, <1>3, <1>4, <1>5, <1>6, <1>7

\* the first batch of decompress,
LEMMA DecodeFirstWalk ==
  ASSUME AllFit, WalkInv, DecodeFirst
  PROVE  WalkInv'
<1>1. /\ pc = "dfirst" /\ dlog' = <<FirstBatch(cfg)>> /\ dlevel' = StartLevel(cfg)
      /\ dblock' = Origin(cfg) /\ pc' \in {"done", "dblock"}
      /\ (dlevel' = 0 => pc' = "done") /\ (dlevel' # 0 => pc' = "dblock")
      /\ cfg' = cfg /\ hdr' = hdr /\ dtodo' = dtodo /\ meta_index' = meta_index
      /\ log' = log /\ todo' = todo /\ interp_metas' = interp_metas
      /\ dlog = <<>> /\ meta_index = 0
  BY DEF DecodeFirst, WalkInv, encVars, Encoding
<1>2. PICK w : Encoded(w) /\ Decoding(w)
  BY <1>1 DEF WalkInv
<1>3. /\ Len(w) \in Nat \ {0} /\ IsWalk(cfg, interp_metas, w) /\ hdr = Header
  BY <1>1, <1>2, WalkEnded
<1>4. Encoded(w)' BY <1>1, <1>2, StaysEncoded
<1>5. 1 \in 1 .. Len(w) /\ w[1].log = dlog' /\ w[1].level = dlevel' /\ w[1].block = dblock'
  BY <1>1, <1>3 DEF IsWalk
<1>6. meta_index' = Used(1)' BY <1>1 DEF Used
<1>7. Decoding(w)' BY <1>1, <1>5, <1>6 DEF Decoding
<1>8. Header' = Header BY <1>1 DEF Header
<1>9. IsSeq(interp_metas') /\ IsSeq(dlog') /\ IsSeq(dtodo') /\ IsSeq(log') /\ IsSeq(todo')
  BY <1>1, ListsAre DEF WalkInv
<1> QED BY <1>1, <1>3, <1>4, <1>7, <1>8, <1>9 DEF WalkInv, Encoding

\* Both sides code a block with the same meta.
LEMMA SameMeta ==
  ASSUME AllFit, WalkInv, pc = "dblock", NEW w, Encoded(w), NEW j \in 1 .. Len(w),
         w[j].level = dlevel, dlevel # 0, meta_index = Used(j),
         NEW meta, meta = IF hdr.blockwise THEN hdr.list[meta_index + 1]
                          ELSE LevelMeta(hdr.meta, hdr.list, dlevel)
  PROVE  /\ j \in 1 .. Len(w) - 1
         /\ meta = UsedMeta(cfg, interp_metas, w[j].level, j)
         /\ meta_index + (IF hdr.blockwise THEN 1 ELSE 0) = Used(j + 1)
<1>1. /\ Len(w) \in Nat \ {0} /\ w[Len(w)].level = 0 /\ hdr = Header
      /\ Tuned(cfg) = cfg.blockwise
  BY WalkEnded
<1>2. j \in 1 .. Len(w) - 1 BY <1>1
<1>3. hdr.blockwise = cfg.blockwise /\ hdr.meta = cfg.meta
      /\ hdr.list = IF cfg.blockwise THEN interp_metas ELSE cfg.list
  BY <1>1 DEF Header
<1>4. CASE cfg.blockwise
  <2>1. meta_index = j - 1 /\ Used(j + 1) = (j + 1) - 1 BY <1>4 DEF Used
  <2>2. meta_index + 1 = j /\ (j + 1) - 1 = j BY <1>2, <2>1
  <2>3. meta = interp_metas[j] BY <1>3, <1>4, <2>2
  <2>4. UsedMeta(cfg, interp_metas, w[j].level, j) = interp_metas[j]
    BY <1>1, <1>4 DEF UsedMeta
  <2> QED BY <1>2, <1>3, <1>4, <2>1, <2>2, <2>3, <2>4
<1>5. CASE ~cfg.blockwise BY <1>1, <1>2, <1>3, <1>5 DEF UsedMeta, Used
<1> QED BY <1>4, <1>5

\* the start of a block of decompress,
LEMMA DecodeBlockWalk ==
  ASSUME AllFit, WalkInv, DecodeBlock
  PROVE  WalkInv'
<1> PICK meta : meta = IF hdr.blockwise THEN hdr.list[meta_index + 1]
                       ELSE LevelMeta(hdr.meta, hdr.list, dlevel)
  OBVIOUS
<1>1. /\ pc = "dblock" /\ pc' = "dcode" /\ cfg' = cfg /\ hdr' = hdr
      /\ dtodo' = BlockPasses(cfg, meta, dblock, BlockEnd(cfg, dlevel, dblock), Stride(dlevel))
      /\ meta_index' = meta_index + IF hdr.blockwise THEN 1 ELSE 0
      /\ dlog' = dlog /\ dlevel' = dlevel /\ dblock' = dblock
      /\ log' = log /\ todo' = todo /\ interp_metas' = interp_metas
  BY DEF DecodeBlock, encVars
<1>2. PICK w : Encoded(w) /\ Decoding(w)
  BY <1>1 DEF WalkInv
<1>3. PICK j \in 1 .. Len(w) : /\ dlog = w[j].log /\ meta_index = Used(j)
                               /\ dlevel = w[j].level /\ dlevel # 0 /\ dblock = w[j].block
  BY <1>1, <1>2 DEF Decoding
<1>4. /\ Len(w) \in Nat \ {0} /\ IsWalk(cfg, interp_metas, w) /\ IsConfig(cfg)
      /\ hdr = Header /\ IsStop(cfg, w[j])
  BY <1>1, <1>2, WalkEnded
<1>5. /\ j \in 1 .. Len(w) - 1 /\ meta = UsedMeta(cfg, interp_metas, w[j].level, j)
      /\ meta_index' = Used(j + 1)
  BY <1>1, <1>2, <1>3, SameMeta
<1>6. dtodo' = PassesOf(cfg, w[j], meta) BY <1>1, <1>3 DEF PassesOf
<1>7. IsSeq(dtodo') BY <1>3, <1>4, <1>6, FollowingIs
<1>8. dlog' \o dtodo' = w[j + 1].log
  <2>1. w[j + 1] = Following(cfg, w[j], meta) BY <1>4, <1>5 DEF IsWalk
  <2>2. w[j + 1].log = w[j].log \o PassesOf(cfg, w[j], meta)
    <3>1. Following(cfg, w[j], meta).log = w[j].log \o PassesOf(cfg, w[j], meta)
      BY DEF Following
    <3> QED BY <2>1, <3>1
  <2> QED BY <1>1, <1>3, <1>6, <2>2
<1>9. Used(j + 1)' = Used(j + 1) BY <1>1 DEF Used
<1>10. Decoding(w)' BY <1>1, <1>3, <1>5, <1>8, <1>9 DEF Decoding
<1>11. Encoded(w)' BY <1>1, <1>2, StaysEncoded
<1>12. Header' = Header BY <1>1 DEF Header
<1>13. IsSeq(interp_metas') /\ IsSeq(dlog') /\ IsSeq(log') /\ IsSeq(todo')
  BY <1>1, ListsAre DEF WalkInv
<1> QED BY <1>1, <1>4, <1>7, <1>10, <1>11, <1>12, <1>13 DEF WalkInv, Encoding

\* one loop of decompress,
LEMMA DecodePassWalk ==
  ASSUME AllFit, WalkInv, DecodePass
  PROVE  WalkInv'
<1>1. /\ pc = "dcode" /\ pc' = pc /\ cfg' = cfg /\ hdr' = hdr /\ dtodo # <<>>
      /\ dlog' = Append(dlog, Head(dtodo)) /\ dtodo' = Tail(dtodo)
      /\ dlevel' = dlevel /\ dblock' = dblock /\ meta_index' = meta_index
      /\ log' = log /\ todo' = todo /\ interp_metas' = interp_metas
      /\ IsSeq(dlog) /\ IsSeq(dtodo)
  BY DEF DecodePass, encVars, WalkInv
<1>2. PICK w : Encoded(w) /\ Decoding(w)
  BY <1>1 DEF WalkInv
<1>3. IsSeq(dlog') /\ IsSeq(dtodo') /\ dlog' \o dtodo' = dlog \o dtodo
  BY <1>1, TakeOver
<1>4. PICK j \in 1 .. Len(w) - 1 :
         /\ dlevel = w[j].level /\ dblock = w[j].block /\ meta_index = Used(j + 1)
         /\ dlog \o dtodo = w[j + 1].log
  BY <1>1, <1>2 DEF Decoding
<1>5. Used(j + 1)' = Used(j + 1) BY <1>1 DEF Used
<1>6. Decoding(w)' BY <1>1, <1>3, <1>4, <1>5 DEF Decoding
<1>7. Encoded(w)' BY <1>1, <1>2, StaysEncoded
<1>8. hdr' = Header' /\ cfg' \in Configs BY <1>1 DEF Header, WalkInv, Encoding
<1>9. IsSeq(interp_metas') /\ IsSeq(log') /\ IsSeq(todo') BY <1>1 DEF WalkInv
<1> QED BY <1>1, <1>3, <1>6, <1>7, <1>8, <1>9 DEF WalkInv, Encoding

\* The next block of decompress is the next one of the walk.
LEMMA NextDecoded ==
  ASSUME AllFit, WalkInv, pc = "dcode", dtodo = <<>>, NEW w, Encoded(w), NEW j \in 1 .. Len(w) - 1,
         dlevel = w[j].level, dblock = w[j].block, dlog \o dtodo = w[j + 1].log
  PROVE  /\ j + 1 \in 1 .. Len(w) /\ dlog = w[j + 1].log /\ dlevel # 0 /\ IsStop(cfg, w[j])
         /\ w[j + 1].level = IF Advance(cfg, dlevel, dblock) = {} THEN dlevel - 1 ELSE dlevel
         /\ w[j + 1].block = IF Advance(cfg, dlevel, dblock) = {} THEN Origin(cfg)
                             ELSE NextStart(cfg, dlevel, dblock)
<1>1. Len(w) \in Nat \ {0} /\ IsWalk(cfg, interp_metas, w) BY WalkEnded
<1>2. j \in 1 .. Len(w) /\ j + 1 \in 1 .. Len(w) BY <1>1
<1>3. /\ w[j].level # 0 /\ IsStop(cfg, w[j])
      /\ w[j + 1] = Following(cfg, w[j], UsedMeta(cfg, interp_metas, w[j].level, j))
  BY <1>1, <1>2 DEF IsWalk
<1>4. dlog \o dtodo = dlog BY JoinNothing DEF WalkInv
<1>5. /\ w[j + 1].level = IF Advance(cfg, dlevel, dblock) = {} THEN dlevel - 1 ELSE dlevel
      /\ w[j + 1].block = IF Advance(cfg, dlevel, dblock) = {} THEN Origin(cfg)
                          ELSE NextStart(cfg, dlevel, dblock)
  BY <1>3 DEF Following
<1> QED BY <1>2, <1>3, <1>4, <1>5

\* the next block or level of decompress,
LEMMA DecodeNextWalk ==
  ASSUME AllFit, WalkInv, DecodeNextBlock \/ DecodeNextLevel
  PROVE  WalkInv'
<1>1. /\ pc = "dcode" /\ pc' \in {"dblock", "done"} /\ cfg' = cfg /\ hdr' = hdr /\ dtodo = <<>>
      /\ dlevel' = (IF Advance(cfg, dlevel, dblock) = {} THEN dlevel - 1 ELSE dlevel)
      /\ dblock' = (IF Advance(cfg, dlevel, dblock) = {} THEN Origin(cfg)
                    ELSE NextStart(cfg, dlevel, dblock))
      /\ dlog' = dlog /\ dtodo' = dtodo /\ meta_index' = meta_index
      /\ log' = log /\ todo' = todo /\ interp_metas' = interp_metas
  BY DEF DecodeNextBlock, DecodeNextLevel, encVars
<1>2. PICK w : Encoded(w) /\ Decoding(w)
  BY <1>1 DEF WalkInv
<1>3. PICK j \in 1 .. Len(w) - 1 :
         /\ dlevel = w[j].level /\ dblock = w[j].block /\ meta_index = Used(j + 1)
         /\ dlog \o dtodo = w[j + 1].log
  BY <1>1, <1>2 DEF Decoding
<1>4. /\ j + 1 \in 1 .. Len(w) /\ dlog = w[j + 1].log /\ dlevel # 0
      /\ w[j + 1].level = IF Advance(cfg, dlevel, dblock) = {} THEN dlevel - 1 ELSE dlevel
      /\ w[j + 1].block = IF Advance(cfg, dlevel, dblock) = {} THEN Origin(cfg)
                          ELSE NextStart(cfg, dlevel, dblock)
  BY <1>1, <1>2, <1>3, NextDecoded
<1>5. (pc' = "done" => dlevel' = 0) /\ (pc' = "dblock" => dlevel' # 0)
  BY <1>1, <1>4 DEF DecodeNextBlock, DecodeNextLevel
<1>6. Used(j + 1)' = Used(j + 1) BY <1>1 DEF Used
<1>7. /\ dlog' = w[j + 1].log /\ meta_index' = Used(j + 1)' /\ dlevel' = w[j + 1].level
      /\ dblock' = w[j + 1].block
  BY <1>1, <1>3, <1>4, <1>6, Zenon
<1>8. Decoding(w)' BY <1>1, <1>4, <1>5, <1>7 DEF Decoding
<1>9. Encoded(w)' BY <1>1, <1>2, StaysEncoded
<1>10. hdr' = Header' /\ cfg' \in Configs BY <1>1 DEF Header, WalkInv, Encoding
<1>11. IsSeq(interp_metas') /\ IsSeq(log') /\ IsSeq(todo') /\ IsSeq(dlog') /\ IsSeq(dtodo')
  BY <1>1 DEF WalkInv
<1> QED BY <1>1, <1>8, <1>9, <1>10, <1>11 DEF WalkInv, Encoding

\* and a step that changes nothing.
LEMMA StutterWalk ==
  ASSUME WalkInv, UNCHANGED vars
  PROVE  WalkInv'
<1>1. /\ pc' = pc /\ cfg' = cfg /\ hdr' = hdr /\ level' = level /\ block' = block
      /\ todo' = todo /\ log' = log /\ interp_metas' = interp_metas
      /\ dlevel' = dlevel /\ dblock' = dblock /\ dtodo' = dtodo /\ dlog' = dlog
      /\ meta_index' = meta_index
  BY DEF vars, encVars, decVars
<1>2. ASSUME NEW w, Encoded(w), Decoding(w) PROVE Encoded(w)' /\ Decoding(w)'
  <2>1. IsWalk(cfg', interp_metas', w) BY <1>1, <1>2 DEF Encoded
  <2>2. Encoded(w)' BY <1>1, <1>2, <2>1 DEF Encoded
  <2>3. \A j : Used(j)' = Used(j) BY <1>1 DEF Used
  <2>4. Decoding(w)' BY <1>1, <1>2, <2>3 DEF Decoding
  <2> QED BY <2>2, <2>4
<1>3. Header' = Header BY <1>1 DEF Header
<1> QED BY <1>1, <1>2, <1>3 DEF WalkInv, Encoding

\* The invariant of the walk.
LEMMA WalkInvariance ==
  ASSUME AllFit
  PROVE  Spec => []WalkInv
<1>1. WalkInv /\ [Next]_vars => WalkInv'
  <2> SUFFICES ASSUME WalkInv, [Next]_vars PROVE WalkInv'
    OBVIOUS
  <2> QED
    BY EncodeFirstWalk, EncodeBlockWalk, TuneBlockWalk, EncodePassWalk, EncodeNextBlockWalk,
       EncodeNextLevelWalk, WriteHeaderWalk, DecodeFirstWalk, DecodeBlockWalk, DecodePassWalk,
       DecodeNextWalk, StutterWalk
    DEF Next, Step, Done
<1> QED BY <1>1, InitWalk, PTL DEF Spec

\* decompress ends with every batch decoded, in the order of compress, and with the meta
\* of every block used: its cursor, which it has from the header only, is compress's.
THEOREM AlwaysAllDecoded ==
  ASSUME \A c \in Configs : Fits(c)
  PROVE  Spec => []AllDecoded
<1>1. WalkInv => AllDecoded
  <2> SUFFICES ASSUME WalkInv, pc = "done"
               PROVE  dlog = log /\ (hdr.blockwise => meta_index = Len(hdr.list))
    BY DEF AllDecoded
  <2>1. PICK w : Encoded(w) /\ Decoding(w)
    BY DEF WalkInv
  <2>2. PICK j \in 1 .. Len(w) : dlog = w[j].log /\ meta_index = Used(j) /\ w[j].level = 0
    BY <2>1 DEF Decoding
  <2>3. /\ hdr = Header /\ log = w[Len(w)].log /\ (w[j].level = 0 => j = Len(w))
        /\ Len(interp_metas) = IF cfg.blockwise THEN Len(w) - 1 ELSE 0
    BY <2>1, WalkEnded DEF AllFit
  <2> QED BY <2>2, <2>3 DEF Header, Used
<1>2. Spec => []WalkInv BY WalkInvariance DEF AllFit
<1> QED BY <1>1, <1>2, PTL

\* The next block is further in row order.
LEMMA NextFurther ==
  ASSUME NEW c, IsConfig(c), NEW l \in Nat \ {0}, NEW b \in [Dims(c) -> Nat],
         Advance(c, l, b) # {}, NEW next, next = NextStart(c, l, b)
  PROVE  \E d \in Dims(c) : next[d] > b[d] /\ \A k \in 1 .. (d - 1) : next[k] = b[k]
<1>0. Dims(c) = 1 .. Len(c.dims) /\ Len(c.dims) \in Nat BY DEF Dims, IsConfig
<1> PICK last : last = Max(Advance(c, l, b))
  OBVIOUS
<1>1. /\ CurBlocksize(c, l) \in Nat \ {0} /\ Advance(c, l, b) \subseteq Dims(c)
      /\ last \in Advance(c, l, b)
      /\ next[last] = b[last] + CurBlocksize(c, l)
      /\ \A d \in Dims(c) : d < last => next[d] = b[d]
  BY CursorIs
<1>2. last \in Dims(c) /\ last \in Nat /\ b[last] \in Nat BY <1>0, <1>1
<1>3. next[last] > b[last] BY <1>1, <1>2
<1>4. \A k \in 1 .. (last - 1) : next[k] = b[k] BY <1>0, <1>1, <1>2
<1> QED BY <1>2, <1>3, <1>4

\* Every step of compress and of decompress brings it nearer to its end.
THEOREM AlwaysMovesOn ==
  ASSUME \A c \in Configs : Fits(c)
  PROVE  Spec => MovesOn
<1> DEFINE phase == [first |-> 0, block |-> 1, code |-> 1, save |-> 2, dfirst |-> 3,
                     dblock |-> 4, dcode |-> 4, done |-> 5]
           Moves ==
             \/ phase[pc'] > phase[pc]
             \/ <<pc, pc'>> \in {<<"block", "code">>, <<"dblock", "dcode">>}
             \/ pc = "code" /\ Further(level, block, level', block')
             \/ pc = "dcode" /\ Further(dlevel, dblock, dlevel', dblock')
             \/ /\ pc' = pc
                /\ Len(todo') + Len(dtodo') < Len(todo) + Len(dtodo)
<1>1. WalkInv /\ [Next]_vars => [Moves]_vars
  <2> SUFFICES ASSUME WalkInv, Next PROVE Moves \/ UNCHANGED vars
    BY DEF vars
  <2>0. AllFit BY DEF AllFit
  <2>1. CASE EncodeFirst BY <2>1 DEF EncodeFirst
  <2>2. CASE EncodeBlock \/ TuneBlock BY <2>2 DEF EncodeBlock, TuneBlock
  <2>3. CASE EncodePass \/ DecodePass
    <3>1. IsSeq(todo) /\ IsSeq(dtodo) BY DEF WalkInv
    <3>2. \A l : IsSeq(l) /\ l # <<>> => Len(Tail(l)) = Len(l) - 1 /\ Len(l) \in Nat
      BY TakeOver
    <3>3. Len(todo) \in Nat /\ Len(dtodo) \in Nat BY <3>1, LengthIs
    <3>4. pc' = pc BY <2>3 DEF EncodePass, DecodePass
    <3>5. Len(todo') + Len(dtodo') < Len(todo) + Len(dtodo)
      <4>1. CASE EncodePass
        <5>1. todo # <<>> /\ todo' = Tail(todo) /\ dtodo' = dtodo
          BY <4>1 DEF EncodePass, decVars
        <5>2. Len(todo') = Len(todo) - 1 /\ dtodo' = dtodo BY <3>1, <3>2, <5>1
        <5> QED BY <3>3, <5>2
      <4>2. CASE DecodePass
        <5>1. dtodo # <<>> /\ dtodo' = Tail(dtodo) /\ todo' = todo
          BY <4>2 DEF DecodePass, encVars
        <5>2. Len(dtodo') = Len(dtodo) - 1 /\ todo' = todo BY <3>1, <3>2, <5>1
        <5> QED BY <3>3, <5>2
      <4> QED BY <2>3, <4>1, <4>2
    <3> QED BY <3>4, <3>5
  <2>4. CASE EncodeNextBlock \/ EncodeNextLevel
    <3>1. pc = "code" BY <2>4 DEF EncodeNextBlock, EncodeNextLevel
    <3>2. PICK w : Encoded(w)
      BY <3>1 DEF WalkInv
    <3>3. IsConfig(cfg) /\ level \in Nat \ {0} /\ block \in [Dims(cfg) -> Nat]
      BY <2>0, <3>1, <3>2, InBlockOf DEF IsStop
    <3>4. Further(level, block, level', block')
      <4>1. CASE EncodeNextBlock
        <5>1. level' = level /\ Advance(cfg, level, block) # {} /\ block' = NextStart(cfg, level, block)
          BY <4>1 DEF EncodeNextBlock
        <5>2. \E d \in Dims(cfg) : block'[d] > block[d] /\ \A k \in 1 .. (d - 1) : block'[k] = block[k]
          BY <3>3, <5>1, NextFurther
        <5> QED BY <5>1, <5>2 DEF Further
      <4>2. CASE EncodeNextLevel
        <5>1. level' = level - 1 BY <4>2 DEF EncodeNextLevel
        <5>2. level' < level BY <3>3, <5>1
        <5> QED BY <5>2 DEF Further
      <4> QED BY <2>4, <4>1, <4>2
    <3> QED BY <3>1, <3>4
  <2>5. CASE WriteHeader \/ DecodeFirst BY <2>5 DEF WriteHeader, DecodeFirst
  <2>6. CASE DecodeBlock BY <2>6 DEF DecodeBlock
  <2>7. CASE DecodeNextBlock \/ DecodeNextLevel
    <3>1. pc = "dcode" /\ dtodo = <<>>
      BY <2>7 DEF DecodeNextBlock, DecodeNextLevel
    <3>2. PICK w : Encoded(w) /\ Decoding(w)
      BY <3>1 DEF WalkInv
    <3>3. PICK j \in 1 .. Len(w) - 1 :
            dlevel = w[j].level /\ dblock = w[j].block /\ dlog \o dtodo = w[j + 1].log
      BY <3>1, <3>2 DEF Decoding
    <3>4. dlevel # 0 /\ IsStop(cfg, w[j]) /\ IsConfig(cfg)
      BY <2>0, <3>1, <3>2, <3>3, NextDecoded, WalkEnded
    <3>5. dlevel \in Nat \ {0} /\ dblock \in [Dims(cfg) -> Nat]
      BY <3>3, <3>4 DEF IsStop
    <3>6. Further(dlevel, dblock, dlevel', dblock')
      <4>1. CASE DecodeNextBlock
        <5>1. /\ dlevel' = dlevel /\ Advance(cfg, dlevel, dblock) # {}
              /\ dblock' = NextStart(cfg, dlevel, dblock)
          BY <4>1 DEF DecodeNextBlock
        <5>2. \E d \in Dims(cfg) : dblock'[d] > dblock[d] /\ \A k \in 1 .. (d - 1) : dblock'[k] = dblock[k]
          BY <3>4, <3>5, <5>1, NextFurther
        <5> QED BY <5>1, <5>2 DEF Further
      <4>2. CASE DecodeNextLevel
        <5>1. dlevel' = dlevel - 1 BY <4>2 DEF DecodeNextLevel
        <5>2. dlevel' < dlevel BY <3>5, <5>1
        <5> QED BY <5>2 DEF Further
      <4> QED BY <2>7, <4>1, <4>2
    <3> QED BY <3>1, <3>6
  <2>8. CASE Done BY <2>8 DEF Done
  <2> QED BY <2>1, <2>2, <2>3, <2>4, <2>5, <2>6, <2>7, <2>8 DEF Next, Step
<1>2. Spec => []WalkInv BY WalkInvariance DEF AllFit
<1> QED BY <1>1, <1>2, PTL DEF Spec, MovesOn

-----------------------------------------------------------------------------
(* Lines.                                                                  *)

\* A line of n points, the first m strides from the border of the array.
IsLine(L) ==
  /\ L.n \in Nat /\ L.n >= 2
  /\ L.stride \in Nat \ {0} /\ L.begin \in Nat /\ L.begin % L.stride = 0
  /\ L.end \in Nat /\ L.begin + (L.n - 1) * L.stride <= L.end
  /\ L.dim \in Nat

\* The block behind may be read, and the point q of the block in front.
Behind(L)    == L.back /\ L.begin >= 2 * L.stride

Beyond(L, q) == L.front /\ Cur(L, q) < L.dim

\* The even points that may be read: of the line itself, the second one behind it, and
\* those in front of it.
Readable(L, q) ==
  \/ q \in 0 .. L.n - 1
  \/ q = -2 /\ Behind(L)
  \/ q \in Nat /\ q >= L.n /\ Beyond(L, q)

\* The phases of a line code its odd points, each once; they read even points, and odd
\* ones of earlier phases.
GoodLine(ph, L) ==
  /\ IsSeq(ph)
  /\ \A k \in 1 .. Len(ph) : \A x \in ph[k] :
       x = <<x[1], x[2]>> /\ x[1] \in OddsOf(L.n) /\ x[2] \subseteq Int
  /\ \A i \in OddsOf(L.n) : \E k \in 1 .. Len(ph) : \E x \in ph[k] : x[1] = i
  /\ \A j, k \in 1 .. Len(ph) : \A x \in ph[j], y \in ph[k] : x[1] = y[1] => j = k /\ x = y
  /\ \A k \in 1 .. Len(ph) : \A x \in ph[k] : \A o \in x[2] :
       IF (x[1] + o) % 2 = 0 THEN Readable(L, x[1] + o)
       ELSE \E j \in 1 .. k - 1 : \E y \in ph[j] : y[1] = x[1] + o

\* The phase that codes the points of I with the offsets offs.
IsPhase(phase, I, offs) == phase = {<<i, offs>> : i \in I}

\* What has to be shown of the points and offsets of the phases of a line.
GoodParts(N, I, offs, L) ==
  /\ \A k \in 1 .. N : I[k] \subseteq OddsOf(L.n) /\ offs[k] \subseteq Int
  /\ \A i \in OddsOf(L.n) : \E k \in 1 .. N : i \in I[k]
  /\ \A j, k \in 1 .. N : \A i \in I[j] : i \in I[k] => j = k
  /\ \A k \in 1 .. N : \A i \in I[k] : \A o \in offs[k] :
       IF (i + o) % 2 = 0 THEN Readable(L, i + o) ELSE \E j \in 1 .. k - 1 : i + o \in I[j]

\* The point and the offsets of a stencil.
LEMMA StencilIs ==
  ASSUME NEW phase, NEW I, NEW offs, IsPhase(phase, I, offs)
  PROVE  /\ \A x \in phase : x[1] \in I /\ x = <<x[1], x[2]>> /\ x[2] = offs
         /\ \A i \in I : \E x \in phase : x[1] = i
<1>1. ASSUME NEW x \in phase
      PROVE  x[1] \in I /\ x = <<x[1], x[2]>> /\ x[2] = offs
  <2>1. PICK i \in I : x = <<i, offs>>
    BY Zenon DEF IsPhase
  <2>2. x[1] = i /\ x[2] = offs BY <2>1
  <2> QED BY <2>1, <2>2
<1>2. ASSUME NEW i \in I PROVE \E x \in phase : x[1] = i
  <2>1. <<i, offs>> \in phase BY Zenon DEF IsPhase
  <2>2. <<i, offs>>[1] = i OBVIOUS
  <2> QED BY <2>1, <2>2, Zenon
<1> QED BY <1>1, <1>2, Zenon

\* So a line is good if its parts are.
LEMMA PartsMakeLine ==
  ASSUME NEW L, NEW ph, NEW I, NEW offs, IsSeq(ph), GoodParts(Len(ph), I, offs, L),
         \A k \in 1 .. Len(ph) : IsPhase(ph[k], I[k], offs[k])
  PROVE  GoodLine(ph, L)
<1>1. \A k \in 1 .. Len(ph) :
        /\ \A x \in ph[k] : x[1] \in I[k] /\ x = <<x[1], x[2]>> /\ x[2] = offs[k]
        /\ \A i \in I[k] : \E x \in ph[k] : x[1] = i
  <2> SUFFICES ASSUME NEW k \in 1 .. Len(ph)
               PROVE  /\ \A x \in ph[k] : x[1] \in I[k] /\ x = <<x[1], x[2]>> /\ x[2] = offs[k]
                      /\ \A i \in I[k] : \E x \in ph[k] : x[1] = i
    BY Zenon
  <2>1. IsPhase(ph[k], I[k], offs[k]) OBVIOUS
  <2> QED BY <2>1, StencilIs
<1>2. ASSUME NEW k \in 1 .. Len(ph), NEW x \in ph[k]
      PROVE  x = <<x[1], x[2]>> /\ x[1] \in OddsOf(L.n) /\ x[2] \subseteq Int
  <2>1. x[1] \in I[k] /\ x = <<x[1], x[2]>> /\ x[2] = offs[k] BY <1>1, Zenon
  <2>2. I[k] \subseteq OddsOf(L.n) /\ offs[k] \subseteq Int
    BY <2>1, Zenon DEF GoodParts
  <2>3. x[1] \in OddsOf(L.n) BY <2>1, <2>2, Zenon
  <2> QED BY <2>1, <2>2, <2>3, Zenon
<1>3. ASSUME NEW i \in OddsOf(L.n)
      PROVE  \E k \in 1 .. Len(ph) : \E x \in ph[k] : x[1] = i
  <2>1. PICK k \in 1 .. Len(ph) : i \in I[k]
    BY Zenon DEF GoodParts
  <2> QED BY <1>1, <2>1, Zenon
<1>4. ASSUME NEW j \in 1 .. Len(ph), NEW k \in 1 .. Len(ph),
             NEW x \in ph[j], NEW y \in ph[k], x[1] = y[1]
      PROVE  j = k /\ x = y
  <2>1. x[1] \in I[j] /\ x = <<x[1], x[2]>> /\ x[2] = offs[j] BY <1>1, Zenon
  <2>2. y[1] \in I[k] /\ y = <<y[1], y[2]>> /\ y[2] = offs[k] BY <1>1, Zenon
  <2>3. j = k BY <1>4, <2>1, <2>2, Zenon DEF GoodParts
  <2>4. x = y BY <1>4, <2>1, <2>2, <2>3, Zenon
  <2> QED BY <2>3, <2>4
<1>5. ASSUME NEW k \in 1 .. Len(ph), NEW x \in ph[k], NEW o \in x[2]
      PROVE  IF (x[1] + o) % 2 = 0 THEN Readable(L, x[1] + o)
             ELSE \E j \in 1 .. k - 1 : \E y \in ph[j] : y[1] = x[1] + o
  <2>1. x[1] \in I[k] /\ x[2] = offs[k] BY <1>1, Zenon
  <2>2. IF (x[1] + o) % 2 = 0 THEN Readable(L, x[1] + o)
        ELSE \E j \in 1 .. k - 1 : x[1] + o \in I[j]
    BY <1>5, <2>1, Zenon DEF GoodParts
  <2>3. CASE (x[1] + o) % 2 = 0 BY <2>2, <2>3, Zenon
  <2>4. CASE (x[1] + o) % 2 # 0
    <3>1. PICK j \in 1 .. k - 1 : x[1] + o \in I[j]
      BY <2>2, <2>4, Zenon
    <3>2. j \in 1 .. Len(ph) BY LengthIs
    <3>3. \E y \in ph[j] : y[1] = x[1] + o BY <1>1, <3>1, <3>2, Zenon
    <3> QED BY <2>4, <3>1, <3>3, Zenon
  <2> QED BY <2>3, <2>4, Zenon
<1> QED BY <1>2, <1>3, <1>4, <1>5, Zenon DEF GoodLine

\* Where a loop ends.
LEMMA LoopExitIs ==
  ASSUME NEW from \in Nat, NEW margin \in Nat, NEW n \in Nat, NEW step \in {2, 4}
  PROVE  LET e == LoopExit(from, margin, step, n)
         IN  /\ e \in Nat /\ e >= from /\ (e - from) % step = 0
             /\ e + margin >= n
             /\ e = from \/ e - step + margin < n
<1> DEFINE P(i) == /\ (i - from) % step = 0
                   /\ i + margin >= n
                   /\ i = from \/ i - step + margin < n
<1>1. \E i \in from .. (from + n + step) : P(i)
  <2>1. CASE from + margin >= n
    <3>1. from \in from .. (from + n + step) /\ (from - from) % step = 0 OBVIOUS
    <3> QED BY <2>1, <3>1
  <2>2. CASE from + margin < n
    <3> DEFINE r == n - margin - from
               q == IF step = 2 THEN (r + 1) \div 2 ELSE (r + 3) \div 4
               i == from + step * q
    <3>1. r \in Nat /\ r > 0 /\ r <= n BY <2>2
    <3>2. q \in Nat /\ step * q >= r /\ step * q - step < r
      <4>1. CASE step = 2 BY <3>1, <4>1
      <4>2. CASE step = 4 BY <3>1, <4>2
      <4> QED BY <4>1, <4>2
    <3>3. step * q \in Nat /\ (step * q) % step = 0
      <4>1. CASE step = 2 BY <3>2, <4>1
      <4>2. CASE step = 4 BY <3>2, <4>2
      <4> QED BY <4>1, <4>2
    <3> HIDE DEF q
    <3>4. i \in from .. (from + n + step) /\ (i - from) % step = 0
      BY <3>1, <3>2, <3>3
    <3>5. i + margin >= n /\ i - step + margin < n BY <3>1, <3>2, <3>3
    <3> QED BY <3>4, <3>5
  <2> QED BY <2>1, <2>2
<1> HIDE DEF P
<1>2. LoopExit(from, margin, step, n) = CHOOSE i \in from .. (from + n + step) : P(i)
  BY DEF LoopExit, P
<1>3. LoopExit(from, margin, step, n) \in from .. (from + n + step) /\ P(LoopExit(from, margin, step, n))
  BY <1>1, <1>2, Zenon
<1> QED BY <1>3 DEF P

\* The points of a loop.
LEMMA LoopIs ==
  ASSUME NEW from \in Nat, NEW margin \in Nat, NEW n \in Nat, NEW step \in {2, 4}
  PROVE  \A i : i \in Loop(from, margin, step, n)
                  <=> i \in Nat /\ i >= from /\ i + margin < n /\ (i - from) % step = 0
BY DEF Loop

\* The point of a statement under a condition.
If(i, condition) == IF condition THEN {i} ELSE {}

\* A statement for one point as a phase.
LEMMA OnlyPhase ==
  ASSUME NEW i, NEW o, NEW condition \in BOOLEAN
  PROVE  /\ IsPhase(Only(<<i, o>>, condition), If(i, condition), o)
         /\ IsPhase({<<i, o>>}, {i}, o)
BY DEF IsPhase, Only, If

\* A line of two phases: what has to be shown of their points and offsets.
TwoParts(L, i1, o1, i2, o2) ==
  /\ i1 \subseteq OddsOf(L.n) /\ i2 \subseteq OddsOf(L.n) /\ o1 \subseteq Int /\ o2 \subseteq Int
  /\ \A i \in OddsOf(L.n) : i \in i1 \/ i \in i2
  /\ \A i \in i1 : i \notin i2
  /\ \A i \in i1 : \A o \in o1 : (i + o) % 2 = 0 /\ Readable(L, i + o)
  /\ \A i \in i2 : \A o \in o2 : IF (i + o) % 2 = 0 THEN Readable(L, i + o) ELSE i + o \in i1

\* Such a line is good.
LEMMA TwoPhases ==
  ASSUME NEW L, NEW ph, IsSeq(ph), Len(ph) = 2,
         NEW i1, NEW o1, NEW i2, NEW o2, IsPhase(ph[1], i1, o1), IsPhase(ph[2], i2, o2),
         TwoParts(L, i1, o1, i2, o2)
  PROVE  GoodLine(ph, L)
<1> PICK I : I = <<i1, i2>>
  OBVIOUS
<1> PICK offs : offs = <<o1, o2>>
  OBVIOUS
<1>1. I[1] = i1 /\ I[2] = i2 /\ offs[1] = o1 /\ offs[2] = o2 OBVIOUS
<1>2. \A k : k \in 1 .. 2 <=> k = 1 \/ k = 2 OBVIOUS
<1>3. \A k \in 1 .. 2 : IsPhase(ph[k], I[k], offs[k]) BY <1>1, <1>2, Zenon
<1>4. 1 \in 1 .. 2 - 1 OBVIOUS
<1>5. GoodParts(2, I, offs, L)
  <2>1. \A k \in 1 .. 2 : I[k] \subseteq OddsOf(L.n) /\ offs[k] \subseteq Int
    BY <1>1, <1>2 DEF TwoParts
  <2>2. \A i \in OddsOf(L.n) : \E k \in 1 .. 2 : i \in I[k]
    BY <1>1, <1>2 DEF TwoParts
  <2>3. \A j, k \in 1 .. 2 : \A i \in I[j] : i \in I[k] => j = k
    <3> SUFFICES ASSUME NEW j \in 1 .. 2, NEW k \in 1 .. 2, NEW i \in I[j], i \in I[k]
                 PROVE  j = k
      BY Zenon
    <3>1. j = 1 \/ j = 2 BY <1>2
    <3>2. k = 1 \/ k = 2 BY <1>2
    <3> QED BY <1>1, <3>1, <3>2 DEF TwoParts
  <2>4. \A k \in 1 .. 2 : \A i \in I[k] : \A o \in offs[k] :
          IF (i + o) % 2 = 0 THEN Readable(L, i + o) ELSE \E j \in 1 .. k - 1 : i + o \in I[j]
    BY <1>1, <1>2, <1>4, Zenon DEF TwoParts
  <2> QED BY <2>1, <2>2, <2>3, <2>4, Zenon DEF GoodParts
<1> QED BY <1>3, <1>5, PartsMakeLine

\* The passes of block_interpolation_1d: linear,
LEMMA PlainLinearGood ==
  ASSUME NEW L, IsLine(L)
  PROVE  GoodLine(PlainLinear(L.n), L)
<1> PICK n \in Nat : n = L.n /\ n >= 2
  BY DEF IsLine
<1> DEFINE i1 == Loop(1, 1, 2, n)
           i2 == If(n - 1, n % 2 = 0)
           last == IF n < 3 THEN previous ELSE lorenzo_1d
           ph == PlainLinear(n)
<1>1. IsSeq(ph) /\ Len(ph) = 2 /\ ph[1] = {<<i, interp_linear>> : i \in i1}
      /\ ph[2] = Only(<<n - 1, last>>, n % 2 = 0)
  BY DEF PlainLinear, IsSeq
<1>2. IsPhase(ph[1], i1, interp_linear) /\ IsPhase(ph[2], i2, last)
  <2>1. IsPhase(ph[1], i1, interp_linear) BY <1>1 DEF IsPhase
  <2>2. (n % 2 = 0) \in BOOLEAN OBVIOUS
  <2> HIDE DEF ph, last
  <2>3. IsPhase(Only(<<n - 1, last>>, n % 2 = 0), If(n - 1, n % 2 = 0), last)
    BY <2>2, OnlyPhase
  <2>4. IsPhase(ph[2], i2, last) BY <1>1, <2>3, Zenon
  <2> QED BY <2>1, <2>4
<1>4. \A i : i \in i1 <=> i \in Nat /\ i >= 1 /\ i + 1 < n /\ (i - 1) % 2 = 0
  BY LoopIs
<1>5. \A i : i \in i2 <=> n % 2 = 0 /\ i = n - 1 BY DEF If
<1> HIDE DEF i1, i2, ph
<1>6. i1 \subseteq OddsOf(n) /\ i2 \subseteq OddsOf(n) BY <1>4, <1>5 DEF OddsOf
<1>7. \A i \in OddsOf(n) : i \in i1 \/ i \in i2 BY <1>4, <1>5 DEF OddsOf
<1>8. \A i \in i1 : i \notin i2 BY <1>4, <1>5
<1>9. \A i \in i1 : \A o \in interp_linear : (i + o) % 2 = 0 /\ i + o \in 0 .. n - 1
  BY <1>4 DEF interp_linear
<1>10. \A i \in i2 : \A o \in last :
         IF (i + o) % 2 = 0 THEN i + o \in 0 .. n - 1 ELSE i + o \in i1
  BY <1>4, <1>5 DEF previous, lorenzo_1d
<1>11. interp_linear \subseteq Int /\ last \subseteq Int
  BY DEF interp_linear, previous, lorenzo_1d
<1> HIDE DEF last
<1>12. \A q \in 0 .. n - 1 : Readable(L, q) BY DEF Readable
<1>13. \A i \in i1 : \A o \in interp_linear : (i + o) % 2 = 0 /\ Readable(L, i + o)
  BY <1>9, <1>12, Zenon
<1>14. \A i \in i2 : \A o \in last :
         IF (i + o) % 2 = 0 THEN Readable(L, i + o) ELSE i + o \in i1
  BY <1>10, <1>12, Zenon
<1>15. GoodLine(ph, L)
  <2>1. TwoParts(L, i1, interp_linear, i2, last)
    BY <1>6, <1>7, <1>8, <1>11, <1>13, <1>14, Zenon DEF TwoParts
  <2> QED BY <1>1, <1>2, <2>1, TwoPhases
<1> QED BY <1>15 DEF ph

\* Where the three loops of the cubic passes stop.
LEMMA LoopExits ==
  ASSUME NEW n \in Nat
  PROVE  /\ \E e \in Nat : /\ e = LoopExit(3, 3, 2, n) /\ e >= 3 /\ (e - 3) % 2 = 0
                            /\ e + 3 >= n /\ (e = 3 \/ e - 2 + 3 < n)
         /\ \E e \in Nat : /\ e = LoopExit(5, 3, 4, n) /\ e >= 5 /\ (e - 5) % 4 = 0
                            /\ e + 3 >= n /\ (e = 5 \/ e - 4 + 3 < n)
         /\ \E e \in Nat : /\ e = LoopExit(3, 3, 4, n) /\ e >= 3 /\ (e - 3) % 4 = 0
                            /\ e + 3 >= n /\ (e = 3 \/ e - 4 + 3 < n)
<1>1. 3 \in Nat /\ 5 \in Nat /\ 2 \in {2, 4} /\ 4 \in {2, 4} OBVIOUS
<1>2. /\ LoopExit(3, 3, 2, n) \in Nat /\ LoopExit(3, 3, 2, n) >= 3 /\ (LoopExit(3, 3, 2, n) - 3) % 2 = 0
      /\ LoopExit(3, 3, 2, n) + 3 >= n
      /\ LoopExit(3, 3, 2, n) = 3 \/ LoopExit(3, 3, 2, n) - 2 + 3 < n
  BY <1>1, LoopExitIs, Zenon
<1>3. /\ LoopExit(5, 3, 4, n) \in Nat /\ LoopExit(5, 3, 4, n) >= 5 /\ (LoopExit(5, 3, 4, n) - 5) % 4 = 0
      /\ LoopExit(5, 3, 4, n) + 3 >= n
      /\ LoopExit(5, 3, 4, n) = 5 \/ LoopExit(5, 3, 4, n) - 4 + 3 < n
  BY <1>1, LoopExitIs, Zenon
<1>4. /\ LoopExit(3, 3, 4, n) \in Nat /\ LoopExit(3, 3, 4, n) >= 3 /\ (LoopExit(3, 3, 4, n) - 3) % 4 = 0
      /\ LoopExit(3, 3, 4, n) + 3 >= n
      /\ LoopExit(3, 3, 4, n) = 3 \/ LoopExit(3, 3, 4, n) - 4 + 3 < n
  BY <1>1, LoopExitIs, Zenon
<1> QED BY <1>2, <1>3, <1>4, Zenon

\* cubic,
LEMMA PlainCubicGood ==
  ASSUME NEW L, IsLine(L), L.n >= 5
  PROVE  GoodLine(PlainCubic(L.n), L)
<1> PICK n \in Nat : n = L.n /\ n >= 5
  BY DEF IsLine
<1>7. PICK e \in Nat : /\ e = LoopExit(3, 3, 2, n) /\ e >= 3 /\ (e - 3) % 2 = 0
                       /\ e + 3 >= n /\ (e = 3 \/ e - 2 + 3 < n)
  BY LoopExits, Zenon
<1> DEFINE i1 == Loop(3, 3, 2, n)
           i4 == If(n - 1, n % 2 = 0)
           ph == PlainCubic(n)
<1>1. /\ IsSeq(ph) /\ Len(ph) = 4
      /\ ph[1] = {<<i, interp_cubic>> : i \in i1} /\ ph[2] = {<<1, interp_quad_1>>}
      /\ ph[3] = {<<e, interp_quad_2>>} /\ ph[4] = Only(<<n - 1, interp_quad_3>>, n % 2 = 0)
  BY <1>7 DEF PlainCubic, IsSeq
<1> PICK I : I = <<i1, {1}, {e}, i4>>
  OBVIOUS
<1> PICK offs : offs = <<interp_cubic, interp_quad_1, interp_quad_2, interp_quad_3>>
  OBVIOUS
<1>2. /\ I[1] = i1 /\ I[2] = {1} /\ I[3] = {e} /\ I[4] = i4
      /\ offs[1] = interp_cubic /\ offs[2] = interp_quad_1
      /\ offs[3] = interp_quad_2 /\ offs[4] = interp_quad_3
  OBVIOUS
<1>3. \A k : k \in 1 .. 4 <=> k = 1 \/ k = 2 \/ k = 3 \/ k = 4 OBVIOUS
<1>4. \A k \in 1 .. 4 : IsPhase(ph[k], I[k], offs[k])
  <2>1. IsPhase(ph[1], i1, interp_cubic) BY <1>1 DEF IsPhase
  <2>2. IsPhase(ph[2], {1}, interp_quad_1) /\ IsPhase(ph[3], {e}, interp_quad_2)
    BY <1>1 DEF IsPhase
  <2>3. (n % 2 = 0) \in BOOLEAN OBVIOUS
  <2>4. IsPhase(Only(<<n - 1, interp_quad_3>>, n % 2 = 0), If(n - 1, n % 2 = 0), interp_quad_3)
    BY <2>3, OnlyPhase
  <2>5. IsPhase(ph[1], I[1], offs[1]) /\ IsPhase(ph[2], I[2], offs[2])
    BY <1>2, <2>1, <2>2, Zenon
  <2>6. IsPhase(ph[3], I[3], offs[3]) /\ IsPhase(ph[4], I[4], offs[4])
    BY <1>1, <1>2, <2>2, <2>4, Zenon
  <2> HIDE DEF i1, i4, ph
  <2> QED BY <1>3, <2>5, <2>6, Zenon
<1>5. \A i : i \in i1 <=> i \in Nat /\ i >= 3 /\ i + 3 < n /\ (i - 3) % 2 = 0
  BY LoopIs
<1>6. \A i : i \in i4 <=> n % 2 = 0 /\ i = n - 1 BY DEF If
<1> HIDE DEF i1, i4, ph
<1>8. \A k \in 1 .. 4 : \A i : i \in I[k] <=>
        \/ k = 1 /\ i \in Nat /\ i >= 3 /\ i + 3 < n /\ (i - 3) % 2 = 0
        \/ k = 2 /\ i = 1
        \/ k = 3 /\ i = e
        \/ k = 4 /\ n % 2 = 0 /\ i = n - 1
  BY <1>2, <1>3, <1>5, <1>6
<1>9. \A k \in 1 .. 4 : I[k] \subseteq OddsOf(n) /\ offs[k] \subseteq Int
  <2>1. \A k \in 1 .. 4 : I[k] \subseteq OddsOf(n) BY <1>7, <1>8 DEF OddsOf
  <2>2. \A k \in 1 .. 4 : offs[k] \subseteq Int
    BY <1>2, <1>3 DEF interp_cubic, interp_quad_1, interp_quad_2, interp_quad_3
  <2> QED BY <2>1, <2>2
<1>10. \A i \in OddsOf(n) : \E k \in 1 .. 4 : i \in I[k]
  <2> SUFFICES ASSUME NEW i \in OddsOf(n) PROVE \E k \in 1 .. 4 : i \in I[k]
    OBVIOUS
  <2>1. i \in I[1] \/ i \in I[2] \/ i \in I[3] \/ i \in I[4]
    BY <1>7, <1>8 DEF OddsOf
  <2> QED BY <1>3, <2>1
<1>11. \A j, k \in 1 .. 4 : \A i \in I[j] : i \in I[k] => j = k BY <1>7, <1>8
<1>12. ASSUME NEW k \in 1 .. 4, NEW i \in I[k], NEW o \in offs[k]
       PROVE  (i + o) % 2 = 0 /\ Readable(L, i + o)
  <2> SUFFICES (i + o) % 2 = 0 /\ i + o \in 0 .. n - 1
    BY DEF Readable
  <2>1. CASE k = 1 BY <1>2, <1>8, <2>1 DEF interp_cubic
  <2>2. CASE k = 2 BY <1>2, <1>8, <2>2 DEF interp_quad_1
  <2>3. CASE k = 3 BY <1>2, <1>7, <1>8, <2>3 DEF interp_quad_2
  <2>4. CASE k = 4 BY <1>2, <1>8, <2>4 DEF interp_quad_3
  <2> QED BY <1>3, <2>1, <2>2, <2>3, <2>4
<1>13. GoodParts(4, I, offs, L)
  <2>1. \A k \in 1 .. 4 : \A i \in I[k] : \A o \in offs[k] :
          IF (i + o) % 2 = 0 THEN Readable(L, i + o) ELSE \E j \in 1 .. k - 1 : i + o \in I[j]
    BY <1>12, Zenon
  <2>2. OddsOf(n) = OddsOf(L.n) OBVIOUS
  <2> QED BY <1>9, <1>10, <1>11, <2>1, <2>2, Zenon DEF GoodParts
<1>14. GoodLine(ph, L) BY <1>1, <1>4, <1>13, PartsMakeLine
<1> QED BY <1>14 DEF ph

\* and cubic with the neighbours of the same pass.
LEMMA PlainCubicAdjGood ==
  ASSUME NEW L, IsLine(L), L.n >= 5
  PROVE  GoodLine(PlainCubicAdj(L.n), L)
<1> PICK n \in Nat : n = L.n /\ n >= 5
  BY DEF IsLine
<1>a. PICK e5 \in Nat : /\ e5 = LoopExit(5, 3, 4, n) /\ e5 >= 5 /\ (e5 - 5) % 4 = 0
                        /\ e5 + 3 >= n /\ (e5 = 5 \/ e5 - 4 + 3 < n)
  BY LoopExits, Zenon
<1>b. PICK e3 \in Nat : /\ e3 = LoopExit(3, 3, 4, n) /\ e3 >= 3 /\ (e3 - 3) % 4 = 0
                        /\ e3 + 3 >= n /\ (e3 = 3 \/ e3 - 4 + 3 < n)
  BY LoopExits, Zenon
<1>0. /\ e5 \in Nat /\ e5 >= 5 /\ (e5 - 5) % 4 = 0 /\ e5 + 3 >= n /\ (e5 = 5 \/ e5 - 4 + 3 < n)
      /\ e3 \in Nat /\ e3 >= 3 /\ (e3 - 3) % 4 = 0 /\ e3 + 3 >= n /\ (e3 = 3 \/ e3 - 4 + 3 < n)
  BY <1>a, <1>b, Zenon
<1> DEFINE i2 == Loop(5, 3, 4, n)
           i3 == If(e5, e5 < n - 1)
           i4 == If(n - 1, e5 = n - 1)
           i5 == Loop(3, 3, 4, n)
           i6 == If(e3, e3 < n - 1)
           i7 == If(n - 1, e3 = n - 1)
           ph == PlainCubicAdj(n)
<1>1. /\ IsSeq(ph) /\ Len(ph) = 7
      /\ ph[1] = {<<1, interp_quad_1>>}
      /\ ph[2] = {<<i, interp_cubic>> : i \in i2}
      /\ ph[3] = Only(<<e5, interp_quad_2>>, e5 < n - 1)
      /\ ph[4] = Only(<<n - 1, previous>>, e5 = n - 1)
      /\ ph[5] = {<<i, interp_cubic_adj>> : i \in i5}
      /\ ph[6] = Only(<<e3, interp_quad_2_adj>>, e3 < n - 1)
      /\ ph[7] = Only(<<n - 1, lorenzo_1d>>, e3 = n - 1)
  <2>1. ph = << {<<1, interp_quad_1>>}, {<<i, interp_cubic>> : i \in i2},
                Only(<<e5, interp_quad_2>>, e5 < n - 1), Only(<<n - 1, previous>>, e5 = n - 1),
                {<<i, interp_cubic_adj>> : i \in i5},
                Only(<<e3, interp_quad_2_adj>>, e3 < n - 1), Only(<<n - 1, lorenzo_1d>>, e3 = n - 1) >>
    BY <1>a, <1>b, Zenon DEF PlainCubicAdj
  <2> HIDE DEF i2, i3, i4, i5, i6, i7, ph
  <2> PICK a : a = {<<1, interp_quad_1>>}
    OBVIOUS
  <2> PICK b : b = {<<i, interp_cubic>> : i \in i2}
    OBVIOUS
  <2> PICK c : c = Only(<<e5, interp_quad_2>>, e5 < n - 1)
    OBVIOUS
  <2> PICK d : d = Only(<<n - 1, previous>>, e5 = n - 1)
    OBVIOUS
  <2> PICK e : e = {<<i, interp_cubic_adj>> : i \in i5}
    OBVIOUS
  <2> PICK f : f = Only(<<e3, interp_quad_2_adj>>, e3 < n - 1)
    OBVIOUS
  <2> PICK g : g = Only(<<n - 1, lorenzo_1d>>, e3 = n - 1)
    OBVIOUS
  <2>2. ph = <<a, b, c, d, e, f, g>> BY <2>1, Zenon
  <2>3. /\ Len(ph) = 7
        /\ ph[1] = a /\ ph[2] = b /\ ph[3] = c /\ ph[4] = d /\ ph[5] = e /\ ph[6] = f /\ ph[7] = g
    BY <2>2
  <2>4. IsSeq(ph)
    <3> PICK S : S = {ph[k] : k \in 1 .. Len(ph)}
      OBVIOUS
    <3>1. 1 \in 1 .. 7 /\ 2 \in 1 .. 7 /\ 3 \in 1 .. 7 /\ 4 \in 1 .. 7 /\ 5 \in 1 .. 7 /\ 6 \in 1 .. 7 /\ 7 \in 1 .. 7
      OBVIOUS
    <3>2. \A k \in 1 .. 7 : ph[k] \in S BY <2>3, Zenon
    <3>3. a \in S /\ b \in S /\ c \in S /\ d \in S /\ e \in S /\ f \in S /\ g \in S
      BY <2>3, <3>1, <3>2, Zenon
    <3>4. ph \in Seq(S)
      <4>1. \A T : a \in T /\ b \in T /\ c \in T /\ d \in T /\ e \in T /\ f \in T /\ g \in T
                    => <<a, b, c, d, e, f, g>> \in Seq(T)
        OBVIOUS
      <4> QED BY <2>2, <3>3, <4>1, Zenon
    <3> QED BY <3>4, Zenon DEF IsSeq
  <2> QED BY <2>3, <2>4, Zenon
<1> PICK I : I = <<{1}, i2, i3, i4, i5, i6, i7>>
  OBVIOUS
<1> PICK offs : offs = <<interp_quad_1, interp_cubic, interp_quad_2, previous, interp_cubic_adj,
                         interp_quad_2_adj, lorenzo_1d>>
  OBVIOUS
<1>2. /\ I[1] = {1} /\ I[2] = i2 /\ I[3] = i3 /\ I[4] = i4 /\ I[5] = i5 /\ I[6] = i6 /\ I[7] = i7
      /\ offs[1] = interp_quad_1 /\ offs[2] = interp_cubic
      /\ offs[3] = interp_quad_2 /\ offs[4] = previous /\ offs[5] = interp_cubic_adj
      /\ offs[6] = interp_quad_2_adj /\ offs[7] = lorenzo_1d
  OBVIOUS
<1>3. \A k : k \in 1 .. 7 <=> k = 1 \/ k = 2 \/ k = 3 \/ k = 4 \/ k = 5 \/ k = 6 \/ k = 7
  OBVIOUS
<1>4. \A k \in 1 .. 7 : IsPhase(ph[k], I[k], offs[k])
  <2>1. /\ IsPhase(ph[1], {1}, interp_quad_1)
        /\ IsPhase(ph[2], i2, interp_cubic) /\ IsPhase(ph[5], i5, interp_cubic_adj)
    BY <1>1 DEF IsPhase
  <2>2. (e5 < n - 1) \in BOOLEAN /\ (e5 = n - 1) \in BOOLEAN
        /\ (e3 < n - 1) \in BOOLEAN /\ (e3 = n - 1) \in BOOLEAN
    OBVIOUS
  <2>3. IsPhase(Only(<<e5, interp_quad_2>>, e5 < n - 1), If(e5, e5 < n - 1), interp_quad_2)
    BY <2>2, OnlyPhase
  <2>4. IsPhase(Only(<<n - 1, previous>>, e5 = n - 1), If(n - 1, e5 = n - 1), previous)
    BY <2>2, OnlyPhase
  <2>5. IsPhase(Only(<<e3, interp_quad_2_adj>>, e3 < n - 1), If(e3, e3 < n - 1), interp_quad_2_adj)
    BY <2>2, OnlyPhase
  <2>6. IsPhase(Only(<<n - 1, lorenzo_1d>>, e3 = n - 1), If(n - 1, e3 = n - 1), lorenzo_1d)
    BY <2>2, OnlyPhase
  <2>7. IsPhase(ph[1], I[1], offs[1]) /\ IsPhase(ph[2], I[2], offs[2]) /\ IsPhase(ph[5], I[5], offs[5])
    BY <1>2, <2>1, Zenon
  <2>8. IsPhase(ph[3], I[3], offs[3]) /\ IsPhase(ph[4], I[4], offs[4])
    BY <1>1, <1>2, <2>3, <2>4, Zenon
  <2>9. IsPhase(ph[6], I[6], offs[6]) /\ IsPhase(ph[7], I[7], offs[7])
    BY <1>1, <1>2, <2>5, <2>6, Zenon
  <2> HIDE DEF i2, i3, i4, i5, i6, i7, ph
  <2> QED BY <1>3, <2>7, <2>8, <2>9, Zenon
<1>5. /\ \A i : i \in i2 <=> i \in Nat /\ i >= 5 /\ i + 3 < n /\ (i - 5) % 4 = 0
      /\ \A i : i \in i5 <=> i \in Nat /\ i >= 3 /\ i + 3 < n /\ (i - 3) % 4 = 0
  BY LoopIs
<1>6. /\ \A i : i \in i3 <=> e5 < n - 1 /\ i = e5
      /\ \A i : i \in i4 <=> e5 = n - 1 /\ i = n - 1
      /\ \A i : i \in i6 <=> e3 < n - 1 /\ i = e3
      /\ \A i : i \in i7 <=> e3 = n - 1 /\ i = n - 1
  BY DEF If
<1> HIDE DEF i2, i3, i4, i5, i6, i7, ph
<1>8. \A k \in 1 .. 7 : \A i : i \in I[k] <=>
        \/ k = 1 /\ i = 1
        \/ k = 2 /\ i \in Nat /\ i >= 5 /\ i + 3 < n /\ (i - 5) % 4 = 0
        \/ k = 3 /\ e5 < n - 1 /\ i = e5
        \/ k = 4 /\ e5 = n - 1 /\ i = n - 1
        \/ k = 5 /\ i \in Nat /\ i >= 3 /\ i + 3 < n /\ (i - 3) % 4 = 0
        \/ k = 6 /\ e3 < n - 1 /\ i = e3
        \/ k = 7 /\ e3 = n - 1 /\ i = n - 1
  BY <1>2, <1>3, <1>5, <1>6
<1>9. \A k \in 1 .. 7 : I[k] \subseteq OddsOf(n) /\ offs[k] \subseteq Int
  <2>1. \A k \in 1 .. 7 : I[k] \subseteq OddsOf(n)
    <3> SUFFICES ASSUME NEW k \in 1 .. 7, NEW i \in I[k] PROVE i \in OddsOf(n)
      BY Zenon
    <3> DEFINE Second == i \in Nat /\ i >= 5 /\ i + 3 < n /\ (i - 5) % 4 = 0
               Fifth  == i \in Nat /\ i >= 3 /\ i + 3 < n /\ (i - 3) % 4 = 0
    <3>1. \/ i = 1
          \/ Second
          \/ e5 < n - 1 /\ i = e5
          \/ e5 = n - 1 /\ i = n - 1
          \/ Fifth
          \/ e3 < n - 1 /\ i = e3
          \/ e3 = n - 1 /\ i = n - 1
      <4>1. \/ k = 1 /\ i = 1
            \/ k = 2 /\ Second
            \/ k = 3 /\ e5 < n - 1 /\ i = e5
            \/ k = 4 /\ e5 = n - 1 /\ i = n - 1
            \/ k = 5 /\ Fifth
            \/ k = 6 /\ e3 < n - 1 /\ i = e3
            \/ k = 7 /\ e3 = n - 1 /\ i = n - 1
        BY <1>8, Zenon
      <4> HIDE DEF Second, Fifth
      <4> QED BY <4>1, Zenon
    <3>2. e5 % 2 = 1 /\ e3 % 2 = 1 BY <1>0
    <3>3. CASE i = 1 BY <3>3 DEF OddsOf
    <3>4. CASE (e5 < n - 1 /\ i = e5) \/ (e5 = n - 1 /\ i = n - 1)
      BY <1>0, <3>2, <3>4 DEF OddsOf
    <3>5. CASE (e3 < n - 1 /\ i = e3) \/ (e3 = n - 1 /\ i = n - 1)
      BY <1>0, <3>2, <3>5 DEF OddsOf
    <3>6. CASE Second BY <3>6 DEF OddsOf
    <3>7. CASE Fifth BY <3>7 DEF OddsOf
    <3> HIDE DEF Second, Fifth
    <3> QED BY <3>1, <3>3, <3>4, <3>5, <3>6, <3>7, Zenon
  <2>2. \A k \in 1 .. 7 : offs[k] \subseteq Int
    BY <1>2, <1>3 DEF interp_cubic, interp_quad_1, interp_quad_2, interp_cubic_adj,
                      interp_quad_2_adj, lorenzo_1d, previous
  <2> QED BY <2>1, <2>2
\* One half of the odd points comes before the other.
<1>10. \A i \in OddsOf(n) : i % 4 = 1 => \E k \in 1 .. 4 : i \in I[k]
  <2> SUFFICES ASSUME NEW i \in OddsOf(n), i % 4 = 1 PROVE \E k \in 1 .. 4 : i \in I[k]
    OBVIOUS
  <2>1. i \in I[1] \/ i \in I[2] \/ i \in I[3] \/ i \in I[4]
    BY <1>0, <1>8 DEF OddsOf
  <2> QED BY <1>3, <2>1
<1>11. \A i \in OddsOf(n) : \E k \in 1 .. 7 : i \in I[k]
  <2> SUFFICES ASSUME NEW i \in OddsOf(n) PROVE \E k \in 1 .. 7 : i \in I[k]
    OBVIOUS
  <2>1. CASE i % 4 = 1 BY <1>10, <2>1
  <2>2. CASE i % 4 # 1
    <3>1. i \in Nat /\ i % 4 = 3 /\ i >= 3 /\ i <= n - 1 BY <2>2 DEF OddsOf
    <3>2. i \in I[5] \/ i \in I[6] \/ i \in I[7]
      <4>1. /\ i + 3 < n => i \in I[5]
            /\ e3 < n - 1 /\ i = e3 => i \in I[6]
            /\ e3 = n - 1 /\ i = n - 1 => i \in I[7]
        <5>1. 5 \in 1 .. 7 /\ 6 \in 1 .. 7 /\ 7 \in 1 .. 7 /\ (i - 3) % 4 = 0
          BY <3>1
        <5> QED BY <1>8, <3>1, <5>1, Zenon
      <4>2. i + 3 < n \/ (e3 < n - 1 /\ i = e3) \/ (e3 = n - 1 /\ i = n - 1)
        BY <1>0, <3>1
      <4> QED BY <4>1, <4>2, Zenon
    <3> QED BY <1>3, <3>2
  <2> QED BY <2>1, <2>2
<1>12. \A j, k \in 1 .. 7 : \A i \in I[j] : i \in I[k] => j = k
  <2> SUFFICES ASSUME NEW j \in 1 .. 7, NEW k \in 1 .. 7, NEW i \in I[j], i \in I[k] PROVE j = k
    BY Zenon
  <2>1. \A l \in 1 .. 7 : i \in I[l] => i \in Nat /\ (i % 4 = 1 <=> l <= 4)
    BY <1>0, <1>8
  <2> QED BY <1>0, <1>3, <1>8, <2>1
<1>13. \A k \in 1 .. 7 : \A i \in I[k] : \A o \in offs[k] :
         IF (i + o) % 2 = 0 THEN Readable(L, i + o) ELSE \E j \in 1 .. k - 1 : i + o \in I[j]
  <2> SUFFICES ASSUME NEW k \in 1 .. 7, NEW i \in I[k], NEW o \in offs[k]
               PROVE  IF (i + o) % 2 = 0 THEN Readable(L, i + o)
                      ELSE \E j \in 1 .. k - 1 : i + o \in I[j]
    BY Zenon
  <2>0. IF (i + o) % 2 = 0 THEN i + o \in 0 .. n - 1
        ELSE k >= 5 /\ i + o \in OddsOf(n) /\ (i + o) % 4 = 1
    <3>1. CASE k = 1 BY <1>2, <1>8, <3>1 DEF interp_quad_1
    <3>2. CASE k = 2 BY <1>2, <1>8, <3>2 DEF interp_cubic
    <3>3. CASE k = 3 BY <1>0, <1>2, <1>8, <3>3 DEF interp_quad_2
    <3>4. CASE k = 4 BY <1>0, <1>2, <1>8, <3>4 DEF previous
    <3>5. CASE k = 5 BY <1>2, <1>8, <3>5 DEF interp_cubic_adj, OddsOf
    <3>6. CASE k = 6 BY <1>0, <1>2, <1>8, <3>6 DEF interp_quad_2_adj, OddsOf
    <3>7. CASE k = 7 BY <1>0, <1>2, <1>8, <3>7 DEF lorenzo_1d, OddsOf
    <3> QED BY <1>3, <3>1, <3>2, <3>3, <3>4, <3>5, <3>6, <3>7
  <2>1. CASE (i + o) % 2 = 0 BY <2>0, <2>1 DEF Readable
  <2>2. CASE (i + o) % 2 # 0
    <3>1. k >= 5 /\ \E j \in 1 .. 4 : i + o \in I[j] BY <1>10, <2>0, <2>2
    <3>2. \A j \in 1 .. 4 : j \in 1 .. k - 1 BY <3>1
    <3> QED BY <2>2, <3>1, <3>2
  <2> QED BY <2>1, <2>2
<1>14. GoodParts(7, I, offs, L)
  <2>1. OddsOf(n) = OddsOf(L.n) OBVIOUS
  <2> QED BY <1>9, <1>11, <1>12, <1>13, <2>1, Zenon DEF GoodParts
<1>15. GoodLine(ph, L) BY <1>1, <1>4, <1>14, PartsMakeLine
<1> QED BY <1>15 DEF ph

\* A member under a condition lists its point,
LEMMA ListsOpt ==
  ASSUME NEW x, NEW condition
  PROVE  ListsOnce(Opt(x, condition), If(x, condition))
<1>1. CASE condition
  <2> DEFINE b == <<x>>
  <2>1. IsSeq(b) /\ Len(b) = 1 /\ b[1] = x BY ListsAre
  <2>2. \A k : k \in 1 .. 1 <=> k = 1 OBVIOUS
  <2> HIDE DEF b
  <2>3. ListsOnce(b, {x}) BY <2>1, <2>2 DEF ListsOnce
  <2> QED BY <1>1, <2>3 DEF Opt, If, b
<1>2. CASE ~condition
  <2>1. IsSeq(<<>>) /\ Len(<<>>) = 0 BY ListsAre
  <2>2. ListsOnce(<<>>, {}) BY <2>1 DEF ListsOnce
  <2> QED BY <1>2, <2>2 DEF Opt, If
<1> QED BY <1>1, <1>2

\* The list of boundary points,
IsBorder(L, i) ==
  \/ i = 1 /\ (IStart(L, 3) = 3 \/ L.n <= 4)
  \/ L.n % 2 = 1 /\ L.n > 3 /\ i = L.n - 2
  \/ L.n % 2 = 0 /\ L.n > 4 /\ i = L.n - 3
  \/ L.n % 2 = 0 /\ L.n > 2 /\ i = L.n - 1

\* boundary lists each of these points once;
LEMMA BoundaryIs ==
  ASSUME NEW L, IsLine(L)
  PROVE  \E S : ListsOnce(boundary(L), S) /\ \A i : i \in S <=> IsBorder(L, i)
<1> PICK n \in Nat : n = L.n /\ n >= 2
  BY DEF IsLine
<1> DEFINE one == IStart(L, 3) = 3 \/ n <= 4
           S1 == If(1, one)
           S2 == If(n - 2, n > 3)
           S3 == If(n - 3, n > 4)
           S4 == If(n - 1, n > 2)
<1>1. /\ \A i : i \in S1 <=> i = 1 /\ one
      /\ \A i : i \in S2 <=> i = n - 2 /\ n > 3
      /\ \A i : i \in S3 <=> i = n - 3 /\ n > 4
      /\ \A i : i \in S4 <=> i = n - 1 /\ n > 2
  BY DEF If
<1>2. /\ ListsOnce(Opt(1, one), S1) /\ ListsOnce(Opt(n - 2, n > 3), S2)
      /\ ListsOnce(Opt(n - 3, n > 4), S3) /\ ListsOnce(Opt(n - 1, n > 2), S4)
  BY ListsOpt
<1> HIDE DEF S1, S2, S3, S4, one
<1>3. CASE n % 2 = 1
  <2>1. \A i \in S1 : i \notin S2 BY <1>1
  <2>2. ListsOnce(Opt(1, one) \o Opt(n - 2, n > 3), S1 \cup S2)
    BY <1>2, <2>1, ListsJoin
  <2>3. boundary(L) = Opt(1, one) \o Opt(n - 2, n > 3) BY <1>3 DEF boundary, one
  <2>4. \A i : i \in S1 \cup S2 <=> IsBorder(L, i)
    BY <1>1, <1>3 DEF IsBorder, one
  <2> QED BY <2>2, <2>3, <2>4
<1>4. CASE n % 2 = 0
  <2>1. (\A i \in S3 : i \notin S4) /\ (\A i \in S1 : i \notin S3 \cup S4)
    BY <1>1, <1>4
  <2>2. ListsOnce(Opt(n - 3, n > 4) \o Opt(n - 1, n > 2), S3 \cup S4)
    BY <1>2, <2>1, ListsJoin
  <2>3. ListsOnce(Opt(1, one) \o (Opt(n - 3, n > 4) \o Opt(n - 1, n > 2)), S1 \cup (S3 \cup S4))
    BY <1>2, <2>1, <2>2, ListsJoin
  <2>4. boundary(L) = Opt(1, one) \o (Opt(n - 3, n > 4) \o Opt(n - 1, n > 2))
    <3>1. ~(L.n % 2 = 1) /\ L.n = n BY <1>4
    <3> QED BY <3>1, Zenon DEF boundary, one
  <2>5. \A i : i \in S1 \cup (S3 \cup S4) <=> IsBorder(L, i)
    BY <1>1, <1>4 DEF IsBorder, one
  <2> QED BY <2>3, <2>4, <2>5
<1> QED BY <1>3, <1>4

\* and that of the adjacent passes.
IsBorderAdj(L, i) ==
  IF L.n <= 4 THEN i = 1
  ELSE \/ i = 1 /\ IStart(L, 5) = 5
       \/ i = L.n + 1 - (IF L.n % 4 = 0 THEN 4 ELSE L.n % 4) /\ L.n % 4 # 1

\* and boundary_adj each of the points of the first half near the border.
LEMMA BoundaryAdjIs ==
  ASSUME NEW L, IsLine(L)
  PROVE  \E S : ListsOnce(boundary_adj(L), S) /\ \A i : i \in S <=> IsBorderAdj(L, i)
<1> PICK n \in Nat : n = L.n /\ n >= 2
  BY DEF IsLine
<1>1. CASE n <= 4
  <2>1. boundary_adj(L) = Opt(1, TRUE) BY <1>1 DEF boundary_adj, Opt
  <2>2. \A i : i \in If(1, TRUE) <=> i = 1 BY DEF If
  <2>3. ListsOnce(boundary_adj(L), If(1, TRUE)) BY <2>1, ListsOpt, Zenon
  <2>4. \A i : i \in If(1, TRUE) <=> IsBorderAdj(L, i)
    BY <1>1, <2>2 DEF IsBorderAdj
  <2> QED BY <2>3, <2>4, Zenon
<1>2. CASE n > 4
  <2> DEFINE temp == IF n % 4 = 0 THEN 4 ELSE n % 4
             one == IStart(L, 5) = 5
             S1 == If(1, one)
             S2 == If(n + 1 - temp, temp # 1)
  <2>1. /\ \A i : i \in S1 <=> i = 1 /\ one
        /\ \A i : i \in S2 <=> i = n + 1 - temp /\ temp # 1
    BY DEF If
  <2>2. temp \in 1 .. 4 /\ (temp = 1 <=> n % 4 = 1) OBVIOUS
  <2>3. ListsOnce(Opt(1, one), S1) /\ ListsOnce(Opt(n + 1 - temp, temp # 1), S2)
    BY ListsOpt
  <2>4. \A i \in S1 : i \notin S2 BY <1>2, <2>1, <2>2
  <2>5. boundary_adj(L) = Opt(1, one) \o Opt(n + 1 - temp, temp # 1)
    BY <1>2 DEF boundary_adj
  <2>6. \A i : i \in S1 \cup S2 <=> IsBorderAdj(L, i)
    BY <1>2, <2>1, <2>2 DEF IsBorderAdj
  <2> HIDE DEF S1, S2, one, temp
  <2>7. ListsOnce(boundary_adj(L), S1 \cup S2)
    <3>1. ListsOnce(Opt(1, one) \o Opt(n + 1 - temp, temp # 1), S1 \cup S2)
      BY <2>3, <2>4, ListsJoin
    <3> QED BY <2>5, <3>1
  <2> QED BY <2>6, <2>7, Zenon
<1> QED BY <1>1, <1>2

\* What the conditions of the kernels near a border say of the points they read.
LEMMA BorderReads ==
  ASSUME NEW L, IsLine(L), NEW i \in OddsOf(L.n), NEW first \in {3, 4}
  PROVE  /\ HasBack(L, i, first) => i >= 3 \/ Behind(L)
         /\ \A k \in Ahead(L, i) : k \in {1, 3} /\ (i + k < L.n \/ Beyond(L, i + k))
<1> PICK n \in Nat : n = L.n /\ n >= 2
  BY DEF IsLine
<1> PICK s \in Nat \ {0} : s = L.stride
  BY DEF IsLine
<1> PICK b \in Nat : b = L.begin
  BY DEF IsLine
<1>1. i \in Nat /\ i >= 1 /\ i <= n - 1 /\ i % 2 = 1 BY DEF OddsOf
<1>2. Cur(L, i) = b + i * s /\ \A q : Cur(L, q) = b + q * s BY DEF Cur
<1>3. /\ i * s \in Int
      /\ (i + 1) * s = i * s + s /\ (i + 3) * s = i * s + 3 * s
  <2>1. (i + 1) * s = i * s + s /\ i * s \in Int BY <1>1, Products
  <2>2. (i + 2) * s = (i + 1) * s + s
    <3>1. i + 1 \in Nat /\ (i + 1) + 1 = i + 2 BY <1>1
    <3>2. ((i + 1) + 1) * s = (i + 1) * s + s BY <3>1, Products
    <3> QED BY <3>1, <3>2
  <2>3. (i + 3) * s = (i + 2) * s + s
    <3>1. i + 2 \in Nat /\ (i + 2) + 1 = i + 3 BY <1>1
    <3>2. ((i + 2) + 1) * s = (i + 2) * s + s BY <3>1, Products
    <3> QED BY <3>1, <3>2
  <2> QED BY <2>1, <2>2, <2>3
<1>4. HasBack(L, i, first) => i >= 3 \/ Behind(L)
  <2> SUFFICES ASSUME HasBack(L, i, first), i < 3
               PROVE  Behind(L)
    BY <1>1
  <2>1. i = 1 BY <1>1
  <2>2. L.back /\ b + 1 * s >= 3 * s BY <1>2, <2>1 DEF HasBack
  <2>3. b >= 2 * s BY <2>2
  <2> QED BY <2>2, <2>3 DEF Behind
<1>5. ASSUME NEW k \in Ahead(L, i)
      PROVE  k \in {1, 3} /\ (i + k < L.n \/ Beyond(L, i + k))
  <2>1. k \in {1, 3} /\ (i + k < L.n \/ (L.front /\ Cur(L, i) + k * s < L.dim))
    BY DEF Ahead
  <2>2. CASE k = 1
    <3>1. Cur(L, i) + k * s = Cur(L, i + 1) BY <1>2, <1>3, <2>2
    <3> QED BY <2>1, <2>2, <3>1 DEF Beyond
  <2>3. CASE k = 3
    <3>1. Cur(L, i) + k * s = Cur(L, i + 3) BY <1>2, <1>3, <2>3
    <3> QED BY <2>1, <2>3, <3>1 DEF Beyond
  <2> QED BY <2>1, <2>2, <2>3
<1> QED BY <1>4, <1>5

\* A point near the border reads even points.
LEMMA BorderGood ==
  ASSUME NEW L, IsLine(L), NEW i \in OddsOf(L.n), NEW first \in {3, 4}
  PROVE  /\ Border(L, i, first) \subseteq Int
         /\ \A o \in Border(L, i, first) : (i + o) % 2 = 0 /\ Readable(L, i + o)
<1> PICK n \in Nat : n = L.n /\ n >= 2
  BY DEF IsLine
<1>1. i \in Nat /\ i >= 1 /\ i <= n - 1 /\ i % 2 = 1 BY DEF OddsOf
<1>2. /\ HasBack(L, i, first) => i >= 3 \/ Behind(L)
      /\ \A k \in Ahead(L, i) : k \in {1, 3} /\ (i + k < n \/ Beyond(L, i + k))
  BY BorderReads
<1>3. \A o \in Border(L, i, first) :
        \/ o = -1
        \/ o = -3 /\ (i >= 3 \/ Behind(L))
        \/ o \in {1, 3} /\ (i + o < n \/ Beyond(L, i + o))
  BY <1>2 DEF Border
<1>4. ASSUME NEW o \in Border(L, i, first)
      PROVE  o \in Int /\ (i + o) % 2 = 0 /\ Readable(L, i + o)
  <2>1. CASE o = -1 BY <1>1, <2>1 DEF Readable
  <2>2. CASE o = -3 /\ (i >= 3 \/ Behind(L)) BY <1>1, <2>2 DEF Readable
  <2>3. CASE o \in {1, 3} /\ (i + o < n \/ Beyond(L, i + o))
    BY <1>1, <2>3 DEF Readable
  <2> QED BY <1>3, <2>1, <2>2, <2>3
<1> QED BY <1>4

\* block_interpolation_1d_crossblock: linear,
LEMMA CrossLinearGood ==
  ASSUME NEW L, IsLine(L)
  PROVE  GoodLine(CrossLinear(L), L)
<1> PICK n \in Nat : n = L.n /\ n >= 2
  BY DEF IsLine
<1> DEFINE i1 == Loop(1, 1, 2, n)
           i2 == If(n - 1, n % 2 = 0)
           last == IF L.front /\ L.end + L.stride < L.dim THEN interp_linear
                   ELSE IF n < 3 THEN previous ELSE lorenzo_1d
           ph == CrossLinear(L)
<1>1. IsSeq(ph) /\ Len(ph) = 2 /\ ph[1] = {<<i, interp_linear>> : i \in i1}
      /\ ph[2] = Only(<<n - 1, last>>, n % 2 = 0)
  BY DEF CrossLinear, IsSeq
<1>2. IsPhase(ph[1], i1, interp_linear) /\ IsPhase(ph[2], i2, last)
  <2>1. IsPhase(ph[1], i1, interp_linear) BY <1>1 DEF IsPhase
  <2>2. (n % 2 = 0) \in BOOLEAN OBVIOUS
  <2> HIDE DEF ph, last
  <2>3. IsPhase(Only(<<n - 1, last>>, n % 2 = 0), If(n - 1, n % 2 = 0), last)
    BY <2>2, OnlyPhase
  <2>4. IsPhase(ph[2], i2, last) BY <1>1, <2>3, Zenon
  <2> QED BY <2>1, <2>4
<1>4. \A i : i \in i1 <=> i \in Nat /\ i >= 1 /\ i + 1 < n /\ (i - 1) % 2 = 0
  BY LoopIs
<1>5. \A i : i \in i2 <=> n % 2 = 0 /\ i = n - 1 BY DEF If
<1> HIDE DEF i1, i2, ph
<1>6. i1 \subseteq OddsOf(n) /\ i2 \subseteq OddsOf(n) BY <1>4, <1>5 DEF OddsOf
<1>7. \A i \in OddsOf(n) : i \in i1 \/ i \in i2 BY <1>4, <1>5 DEF OddsOf
<1>8. \A i \in i1 : i \notin i2 BY <1>4, <1>5
<1>9. \A i \in i1 : \A o \in interp_linear : (i + o) % 2 = 0 /\ i + o \in 0 .. n - 1
  BY <1>4 DEF interp_linear
<1>10. \A i \in i2 : \A o \in last :
         IF (i + o) % 2 = 0 THEN i + o \in 0 .. n - 1 \/ (i + o = n /\ Beyond(L, n)) ELSE i + o \in i1
  <2>1. CASE L.front /\ L.end + L.stride < L.dim
    <3>1. Cur(L, n) < L.dim
      <4>1. n - 1 \in Nat /\ (n - 1) + 1 = n OBVIOUS
      <4>2. n * L.stride = (n - 1) * L.stride + L.stride /\ (n - 1) * L.stride \in Int
        BY <4>1, Products DEF IsLine
      <4>3. L.begin + (n - 1) * L.stride <= L.end BY DEF IsLine
      <4> QED BY <2>1, <4>2, <4>3 DEF Cur, IsLine
    <3>2. Beyond(L, n) BY <2>1, <3>1 DEF Beyond
    <3>3. \A o \in last : o = -1 \/ o = 1 BY <2>1 DEF interp_linear
    <3> QED BY <1>5, <3>2, <3>3
  <2>2. CASE ~(L.front /\ L.end + L.stride < L.dim)
    <3>1. \A o \in last : o = -1 \/ (o = -2 /\ n >= 3)
      BY <2>2 DEF previous, lorenzo_1d
    <3> QED BY <1>4, <1>5, <3>1
  <2> QED BY <2>1, <2>2
<1>11. interp_linear \subseteq Int /\ last \subseteq Int
  BY DEF interp_linear, previous, lorenzo_1d
<1> HIDE DEF last
<1>12. (\A q \in 0 .. n - 1 : Readable(L, q)) /\ (Beyond(L, n) => Readable(L, n))
  BY DEF Readable
<1>13. \A i \in i1 : \A o \in interp_linear : (i + o) % 2 = 0 /\ Readable(L, i + o)
  BY <1>9, <1>12, Zenon
<1>14. \A i \in i2 : \A o \in last :
         IF (i + o) % 2 = 0 THEN Readable(L, i + o) ELSE i + o \in i1
  BY <1>10, <1>12
<1>15. GoodLine(ph, L)
  <2>1. TwoParts(L, i1, interp_linear, i2, last)
    BY <1>6, <1>7, <1>8, <1>11, <1>13, <1>14, Zenon DEF TwoParts
  <2> QED BY <1>1, <1>2, <2>1, TwoPhases
<1> QED BY <1>15 DEF ph

\* IStart is where the block behind may be read.
LEMMA IStartIs ==
  ASSUME NEW L, NEW otherwise
  PROVE  IStart(L, otherwise) = IF Behind(L) THEN 1 ELSE otherwise
BY DEF IStart, Behind

\* cubic,
LEMMA CrossCubicGood ==
  ASSUME NEW L, IsLine(L)
  PROVE  GoodLine(CrossCubic(L), L)
<1> PICK n \in Nat : n = L.n /\ n >= 2
  BY DEF IsLine
<1> PICK st : st = IStart(L, 3)
  OBVIOUS
<1> PICK b : b = boundary(L)
  OBVIOUS
<1> PICK S : ListsOnce(b, S) /\ \A i : i \in S <=> IsBorder(L, i)
  BY BoundaryIs
<1>1. IsSeq(b) /\ Len(b) \in Nat BY LengthIs DEF ListsOnce
<1> PICK m \in Nat : m = Len(b)
  BY <1>1
<1>2. st \in {1, 3} /\ (st = 1 => Behind(L)) /\ (st # 1 => st = 3 /\ ~Behind(L))
  BY IStartIs
<1> DEFINE i1 == Loop(st, 3, 2, n)
           bord == [k \in 1 .. m |-> {<<b[k], Border(L, b[k], 3)>>}]
           first == <<{<<i, interp_cubic>> : i \in i1}>>
           ph == CrossCubic(L)
<1>3. ph = first \o bord BY DEF CrossCubic
<1>4. IsSeq(first) /\ Len(first) = 1 /\ first[1] = {<<i, interp_cubic>> : i \in i1}
  BY ListsAre
<1>5. IsSeq(bord) /\ Len(bord) = m /\ \A k \in 1 .. m : bord[k] = {<<b[k], Border(L, b[k], 3)>>}
  BY ListIs
<1>6. \A i : i \in i1 <=> i \in Nat /\ i >= st /\ i + 3 < n /\ i % 2 = 1
  <2>1. \A i : i \in i1 <=> i \in Nat /\ i >= st /\ i + 3 < n /\ (i - st) % 2 = 0
    BY <1>2, LoopIs
  <2> HIDE DEF i1
  <2>2. \A i \in Nat : (i - st) % 2 = 0 <=> i % 2 = 1
    <3>1. CASE st = 1 BY <3>1
    <3>2. CASE st = 3 BY <3>2
    <3> QED BY <1>2, <3>1, <3>2
  <2> QED BY <2>1, <2>2
<1> HIDE DEF i1, bord, first, ph
<1>7. /\ IsSeq(ph) /\ Len(ph) = 1 + m
      /\ ph[1] = {<<i, interp_cubic>> : i \in i1}
      /\ \A k \in 1 .. m : ph[1 + k] = {<<b[k], Border(L, b[k], 3)>>}
  <2>1. /\ IsSeq(ph) /\ Len(ph) = 1 + m /\ ph[1] = first[1]
        /\ \A k \in 1 .. m : ph[1 + k] = bord[k]
    <3>1. /\ IsSeq(first \o bord) /\ Len(first \o bord) = Len(first) + Len(bord)
          /\ \A k \in 1 .. Len(first) : (first \o bord)[k] = first[k]
          /\ \A k \in 1 .. Len(bord) : (first \o bord)[Len(first) + k] = bord[k]
      <4>1. IsSeq(first) /\ IsSeq(bord) BY <1>4, <1>5
      <4> QED BY <4>1, JoinIs
    <3>2. 1 \in 1 .. 1 OBVIOUS
    <3> QED BY <1>3, <1>4, <1>5, <3>1, <3>2
  <2> QED BY <1>4, <1>5, <2>1
<1> DEFINE I == [k \in 1 .. 1 + m |-> IF k = 1 THEN i1 ELSE {b[k - 1]}]
           offs == [k \in 1 .. 1 + m |-> IF k = 1 THEN interp_cubic ELSE Border(L, b[k - 1], 3)]
<1>8. /\ I[1] = i1 /\ offs[1] = interp_cubic
      /\ \A k \in 1 .. m : I[1 + k] = {b[k]} /\ offs[1 + k] = Border(L, b[k], 3)
  OBVIOUS
<1>9. ASSUME NEW k \in 1 .. 1 + m PROVE k = 1 \/ \E j \in 1 .. m : k = 1 + j
  <2>1. k # 1 => k - 1 \in 1 .. m /\ k = 1 + (k - 1) OBVIOUS
  <2> QED BY <2>1
<1> HIDE DEF I, offs
<1>10. ASSUME NEW k \in 1 .. 1 + m PROVE IsPhase(ph[k], I[k], offs[k])
  <2>1. IsPhase(ph[1], I[1], offs[1])
    <3>1. IsPhase({<<i, interp_cubic>> : i \in i1}, i1, interp_cubic)
      BY DEF IsPhase
    <3> QED BY <1>7, <1>8, <3>1
  <2>2. ASSUME NEW j \in 1 .. m PROVE IsPhase(ph[1 + j], I[1 + j], offs[1 + j])
    BY <1>7, <1>8 DEF IsPhase
  <2> QED BY <1>9, <2>1, <2>2
<1>11. i1 \subseteq OddsOf(n) BY <1>2, <1>6 DEF OddsOf
<1>12. \A k \in 1 .. m : IsBorder(L, b[k]) /\ b[k] \in OddsOf(n)
  <2>1. \A k \in 1 .. m : IsBorder(L, b[k]) BY DEF ListsOnce
  <2>2. \A i : IsBorder(L, i) => i \in OddsOf(n) BY DEF IsBorder, OddsOf
  <2> QED BY <2>1, <2>2
<1>13. ASSUME NEW i \in i1, NEW o \in interp_cubic
       PROVE  (i + o) % 2 = 0 /\ Readable(L, i + o)
  <2>1. i \in Nat /\ i >= 1 /\ i + 3 < n /\ i % 2 = 1 /\ (i >= 3 \/ Behind(L))
    BY <1>2, <1>6
  <2>2. o \in {-3, -1, 1, 3} BY DEF interp_cubic
  <2> QED BY <2>1, <2>2 DEF Readable
<1>14. ASSUME NEW i \in OddsOf(n), i \notin i1
       PROVE  IsBorder(L, i)
  BY <1>2, <1>6, <1>14 DEF IsBorder, OddsOf
<1>15. \A i \in i1 : ~IsBorder(L, i) BY <1>2, <1>6 DEF IsBorder
<1>16. ASSUME NEW k \in 1 .. 1 + m
       PROVE  I[k] \subseteq OddsOf(n) /\ offs[k] \subseteq Int
  <2>1. CASE k = 1 BY <1>8, <1>11, <2>1 DEF interp_cubic
  <2>2. ASSUME NEW j \in 1 .. m, k = 1 + j PROVE I[k] \subseteq OddsOf(n) /\ offs[k] \subseteq Int
    <3>1. Border(L, b[j], 3) \subseteq Int BY <1>12, BorderGood
    <3> QED BY <1>8, <1>12, <2>2, <3>1
  <2> QED BY <1>9, <2>1, <2>2
<1>17. ASSUME NEW i \in OddsOf(n) PROVE \E k \in 1 .. 1 + m : i \in I[k]
  <2>1. CASE i \in i1 BY <1>8, <2>1
  <2>2. CASE i \notin i1
    <3>1. i \in S BY <1>14, <2>2
    <3>2. PICK j \in 1 .. m : b[j] = i
      BY <3>1 DEF ListsOnce
    <3>3. 1 + j \in 1 .. 1 + m /\ i \in I[1 + j] BY <1>8, <3>2
    <3> QED BY <3>3
  <2> QED BY <2>1, <2>2
<1>18. ASSUME NEW j \in 1 .. 1 + m, NEW k \in 1 .. 1 + m, NEW i \in I[j], i \in I[k]
       PROVE  j = k
  <2>1. ASSUME NEW x \in 1 .. m PROVE I[1 + x] = {b[x]} /\ ~(b[x] \in i1)
    BY <1>8, <1>12, <1>15
  <2>2. ASSUME NEW x \in 1 .. m, NEW y \in 1 .. m, b[x] = b[y] PROVE x = y
    BY <2>2 DEF ListsOnce
  <2>3. CASE j = 1 BY <1>8, <1>9, <1>18, <2>1, <2>3
  <2>4. CASE k = 1 BY <1>8, <1>9, <1>18, <2>1, <2>4
  <2>5. ASSUME NEW x \in 1 .. m, NEW y \in 1 .. m, j = 1 + x, k = 1 + y PROVE j = k
    <3>1. i = b[x] /\ i = b[y] BY <1>18, <2>1, <2>5
    <3> QED BY <2>2, <2>5, <3>1
  <2> QED BY <1>9, <2>3, <2>4, <2>5
<1>19. ASSUME NEW k \in 1 .. 1 + m, NEW i \in I[k], NEW o \in offs[k]
       PROVE  (i + o) % 2 = 0 /\ Readable(L, i + o)
  <2>1. CASE k = 1 BY <1>8, <1>13, <2>1
  <2>2. ASSUME NEW j \in 1 .. m, k = 1 + j PROVE (i + o) % 2 = 0 /\ Readable(L, i + o)
    <3>1. i = b[j] /\ i \in OddsOf(n) /\ o \in Border(L, i, 3)
      BY <1>8, <1>12, <2>2
    <3> QED BY <3>1, BorderGood
  <2> QED BY <1>9, <2>1, <2>2
<1>20. GoodParts(1 + m, I, offs, L)
  <2>1. \A k \in 1 .. 1 + m : \A i \in I[k] : \A o \in offs[k] :
          IF (i + o) % 2 = 0 THEN Readable(L, i + o) ELSE \E j \in 1 .. k - 1 : i + o \in I[j]
    BY <1>19, Zenon
  <2>2. \A j, k \in 1 .. 1 + m : \A i \in I[j] : i \in I[k] => j = k
    BY <1>18, Zenon
  <2> QED BY <1>16, <1>17, <2>1, <2>2, Zenon DEF GoodParts
<1>21. GoodLine(ph, L) BY <1>7, <1>10, <1>20, PartsMakeLine
<1> QED BY <1>21 DEF ph

\* The points of the second half near the border.
LEMMA BorderAdjGood ==
  ASSUME NEW L, IsLine(L), NEW i \in OddsOf(L.n), i >= 3
  PROVE  /\ BorderAdj(L, i) \subseteq Int
         /\ \A o \in BorderAdj(L, i) :
              \/ (i + o) % 2 = 0 /\ Readable(L, i + o)
              \/ o = -2
<1> PICK n \in Nat : n = L.n /\ n >= 2
  BY DEF IsLine
<1>1. i \in Nat /\ i >= 3 /\ i <= n - 1 /\ i % 2 = 1 BY DEF OddsOf
<1>2. \A k \in Ahead(L, i) : k \in {1, 3} /\ (i + k < n \/ Beyond(L, i + k))
  BY BorderReads
<1>3. \A o \in BorderAdj(L, i) :
        \/ o \in {-1, -2, -3}
        \/ o \in {1, 3} /\ (i + o < n \/ Beyond(L, i + o))
  BY <1>2 DEF BorderAdj
<1>4. ASSUME NEW o \in BorderAdj(L, i)
      PROVE  o \in Int /\ (((i + o) % 2 = 0 /\ Readable(L, i + o)) \/ o = -2)
  <2>1. CASE o \in {-1, -2, -3} BY <1>1, <2>1 DEF Readable
  <2>2. CASE o \in {1, 3} /\ (i + o < n \/ Beyond(L, i + o))
    BY <1>1, <2>2 DEF Readable
  <2> QED BY <1>3, <2>1, <2>2
<1> QED BY <1>4

\* and adjacent cubic.
LEMMA CrossCubicAdjGood ==
  ASSUME NEW L, IsLine(L)
  PROVE  GoodLine(CrossCubicAdj(L), L)
<1> PICK n \in Nat : n = L.n /\ n >= 2
  BY DEF IsLine
<1> PICK st : st = IStart(L, 5)
  OBVIOUS
<1> PICK b : b = boundary_adj(L)
  OBVIOUS
<1> PICK S : ListsOnce(b, S) /\ \A i : i \in S <=> IsBorderAdj(L, i)
  BY BoundaryAdjIs
<1>1. IsSeq(b) /\ Len(b) \in Nat BY LengthIs DEF ListsOnce
<1> PICK m \in Nat : m = Len(b)
  BY <1>1
<1>2. st \in {1, 5} /\ (st = 1 => Behind(L)) /\ (st # 1 => st = 5 /\ ~Behind(L))
  BY IStartIs
<1> PICK last : last = LastAdj(n)
  OBVIOUS
<1> DEFINE i1 == Loop(st, 3, 4, n)
           i3 == Loop(3, 3, 4, n)
           i4 == {i \in {last} : n % 4 # 3 /\ n > (n % 4) + 1}
           bord == [k \in 1 .. m |-> {<<b[k], Border(L, b[k], 4)>>}]
           first == <<{<<i, interp_cubic>> : i \in i1}>>
           final == << {<<i, interp_cubic_adj>> : i \in i3},
                       IF n % 4 # 3 /\ n > (n % 4) + 1 THEN {<<last, BorderAdj(L, last)>>} ELSE {} >>
           ph == CrossCubicAdj(L)
<1>3. ph = (first \o bord) \o final BY DEF CrossCubicAdj, LastAdj
<1>4. /\ IsSeq(first) /\ Len(first) = 1 /\ first[1] = {<<i, interp_cubic>> : i \in i1}
      /\ IsSeq(final) /\ Len(final) = 2
      /\ IsPhase(final[1], i3, interp_cubic_adj)
      /\ IsPhase(final[2], i4, BorderAdj(L, last))
  <2>1. IsSeq(first) /\ Len(first) = 1 /\ IsSeq(final) /\ Len(final) = 2
    BY ListsAre
  <2>2. IsPhase(final[1], i3, interp_cubic_adj) BY DEF IsPhase
  <2>3. IsPhase(final[2], i4, BorderAdj(L, last))
    <3>1. final[2] = IF n % 4 # 3 /\ n > (n % 4) + 1 THEN {<<last, BorderAdj(L, last)>>} ELSE {}
      OBVIOUS
    <3>2. i4 = IF n % 4 # 3 /\ n > (n % 4) + 1 THEN {last} ELSE {} OBVIOUS
    <3> HIDE DEF i4, final
    <3>3. CASE n % 4 # 3 /\ n > (n % 4) + 1
      <4>1. final[2] = {<<last, BorderAdj(L, last)>>} /\ i4 = {last}
        BY <3>1, <3>2, <3>3, Zenon
      <4> QED BY <4>1 DEF IsPhase
    <3>4. CASE ~(n % 4 # 3 /\ n > (n % 4) + 1)
      <4>1. final[2] = {} /\ i4 = {} BY <3>1, <3>2, <3>4, Zenon
      <4> QED BY <4>1 DEF IsPhase
    <3> QED BY <3>3, <3>4
  <2> QED BY <2>1, <2>2, <2>3
<1>5. IsSeq(bord) /\ Len(bord) = m /\ \A k \in 1 .. m : bord[k] = {<<b[k], Border(L, b[k], 4)>>}
  BY ListIs
<1>6. /\ \A i : i \in i1 <=> i \in Nat /\ i >= st /\ i + 3 < n /\ i % 4 = 1
      /\ \A i : i \in i3 <=> i \in Nat /\ i >= 3 /\ i + 3 < n /\ i % 4 = 3
  <2>1. /\ \A i : i \in i1 <=> i \in Nat /\ i >= st /\ i + 3 < n /\ (i - st) % 4 = 0
        /\ \A i : i \in i3 <=> i \in Nat /\ i >= 3 /\ i + 3 < n /\ (i - 3) % 4 = 0
    BY <1>2, LoopIs
  <2> HIDE DEF i1, i3
  <2>2. ASSUME NEW i \in Nat PROVE (i - st) % 4 = 0 <=> i % 4 = 1
    <3>1. (i - 1) % 4 = 0 <=> i % 4 = 1 BY Mod4
    <3>2. (i - 5) % 4 = 0 <=> i % 4 = 1 BY Mod4
    <3> QED BY <1>2, <3>1, <3>2, Zenon
  <2>3. \A i \in Nat : (i - 3) % 4 = 0 <=> i % 4 = 3 BY Mod4
  <2> QED BY <2>1, <2>2, <2>3
<1>7. \A i : i \in i4 <=> i = last /\ n % 4 # 3 /\ n > (n % 4) + 1 OBVIOUS
<1> HIDE DEF i1, i3, i4, bord, first, final, ph
<1>8. /\ IsSeq(ph) /\ Len(ph) = m + 3
      /\ ph[1] = {<<i, interp_cubic>> : i \in i1}
      /\ \A k \in 1 .. m : ph[1 + k] = {<<b[k], Border(L, b[k], 4)>>}
      /\ IsPhase(ph[m + 2], i3, interp_cubic_adj)
      /\ IsPhase(ph[m + 3], i4, BorderAdj(L, last))
  <2> PICK fb : fb = first \o bord
    OBVIOUS
  <2>1. IsSeq(first) /\ IsSeq(bord) /\ IsSeq(final) BY <1>4, <1>5
  <2>2. /\ IsSeq(fb) /\ Len(fb) = Len(first) + Len(bord)
        /\ \A k \in 1 .. Len(first) : fb[k] = first[k]
        /\ \A k \in 1 .. Len(bord) : fb[Len(first) + k] = bord[k]
    BY <2>1, JoinIs
  <2>3. /\ IsSeq(fb) /\ Len(fb) = 1 + m /\ fb[1] = first[1]
        /\ \A k \in 1 .. m : fb[1 + k] = bord[k]
    <3>1. 1 \in 1 .. 1 OBVIOUS
    <3> QED BY <1>4, <1>5, <2>2, <3>1
  <2>4. ph = fb \o final BY <1>3
  <2>5. /\ IsSeq(ph) /\ Len(ph) = Len(fb) + Len(final)
        /\ \A k \in 1 .. Len(fb) : ph[k] = fb[k]
        /\ \A k \in 1 .. Len(final) : ph[Len(fb) + k] = final[k]
    <3>1. IsSeq(fb) BY <2>3
    <3> QED BY <2>1, <2>4, <3>1, JoinIs
  <2>6. /\ IsSeq(ph) /\ Len(ph) = m + 3 /\ ph[1] = first[1]
        /\ \A k \in 1 .. m : ph[1 + k] = bord[k]
        /\ ph[m + 2] = final[1] /\ ph[m + 3] = final[2]
    <3>1. Len(fb) = 1 + m /\ Len(final) = 2 /\ (1 + m) + 1 = m + 2 /\ (1 + m) + 2 = m + 3
      BY <1>4, <2>3
    <3>2. 1 \in 1 .. 2 /\ 2 \in 1 .. 2 /\ 1 \in 1 .. 1 + m /\ \A k \in 1 .. m : 1 + k \in 1 .. 1 + m
      OBVIOUS
    <3>3. ph[m + 2] = final[1] /\ ph[m + 3] = final[2] BY <2>5, <3>1, <3>2
    <3>4. \A k \in 1 .. 1 + m : ph[k] = fb[k] BY <2>5, <3>1
    <3> QED BY <2>3, <2>5, <3>1, <3>2, <3>3, <3>4
  <2> QED BY <1>4, <1>5, <2>6
<1> DEFINE I == [k \in 1 .. m + 3 |-> IF k = 1 THEN i1 ELSE IF k = m + 2 THEN i3
                                      ELSE IF k = m + 3 THEN i4 ELSE {b[k - 1]}]
           offs == [k \in 1 .. m + 3 |-> IF k = 1 THEN interp_cubic ELSE IF k = m + 2 THEN interp_cubic_adj
                                         ELSE IF k = m + 3 THEN BorderAdj(L, last) ELSE Border(L, b[k - 1], 4)]
<1>9. /\ I[1] = i1 /\ offs[1] = interp_cubic
      /\ \A k \in 1 .. m : I[1 + k] = {b[k]} /\ offs[1 + k] = Border(L, b[k], 4)
      /\ I[m + 2] = i3 /\ offs[m + 2] = interp_cubic_adj
      /\ I[m + 3] = i4 /\ offs[m + 3] = BorderAdj(L, last)
  OBVIOUS
<1>10. ASSUME NEW k \in 1 .. m + 3
       PROVE  k = 1 \/ (\E j \in 1 .. m : k = 1 + j) \/ k = m + 2 \/ k = m + 3
  <2>1. k # 1 /\ k # m + 2 /\ k # m + 3 => k - 1 \in 1 .. m /\ k = 1 + (k - 1)
    OBVIOUS
  <2> QED BY <2>1
<1> HIDE DEF I, offs
<1>11. ASSUME NEW k \in 1 .. m + 3 PROVE IsPhase(ph[k], I[k], offs[k])
  <2>1. IsPhase(ph[1], I[1], offs[1])
    <3>1. IsPhase({<<i, interp_cubic>> : i \in i1}, i1, interp_cubic)
      BY DEF IsPhase
    <3> QED BY <1>8, <1>9, <3>1
  <2>2. ASSUME NEW j \in 1 .. m PROVE IsPhase(ph[1 + j], I[1 + j], offs[1 + j])
    BY <1>8, <1>9 DEF IsPhase
  <2>3. IsPhase(ph[m + 2], I[m + 2], offs[m + 2]) /\ IsPhase(ph[m + 3], I[m + 3], offs[m + 3])
    BY <1>8, <1>9, Zenon
  <2> QED BY <1>10, <2>1, <2>2, <2>3
<1>12. /\ \A i \in i1 : i \in OddsOf(n) /\ i % 4 = 1
       /\ \A i \in i3 : i \in OddsOf(n) /\ i % 4 = 3
       /\ \A i \in i4 : i \in OddsOf(n) /\ i % 4 = 3 /\ i + 3 >= n
  <2>1. \A i \in i1 : i \in OddsOf(n) /\ i % 4 = 1
    BY <1>2, <1>6, Mod4 DEF OddsOf
  <2>2. \A i \in i3 : i \in OddsOf(n) /\ i % 4 = 3 BY <1>6, Mod4 DEF OddsOf
  <2>3. \A i \in i4 : i \in OddsOf(n) /\ i % 4 = 3 /\ i + 3 >= n
    <3>1. n % 4 # 3 /\ n > (n % 4) + 1 => last \in 1 .. n - 1 /\ last % 4 = 3 /\ last + 3 >= n
      BY LastAdjIs
    <3> QED
      <4>1. ASSUME NEW i \in i4 PROVE i \in 1 .. n - 1 /\ i % 4 = 3 /\ i + 3 >= n
        BY <1>7, <3>1
      <4>2. ASSUME NEW i \in i4 PROVE i % 2 = 1 BY <4>1, Mod4
      <4> QED BY <4>1, <4>2 DEF OddsOf
  <2> QED BY <2>1, <2>2, <2>3
<1>13. \A k \in 1 .. m : IsBorderAdj(L, b[k]) /\ b[k] \in OddsOf(n) /\ b[k] % 4 = 1
  <2>1. \A k \in 1 .. m : IsBorderAdj(L, b[k]) BY DEF ListsOnce
  <2>2. ASSUME NEW i, IsBorderAdj(L, i) PROVE i \in OddsOf(n) /\ i % 4 = 1
    <3>1. CASE i = 1 BY <3>1 DEF OddsOf
    <3>2. CASE i # 1
      <4>1. n > 4 /\ i = n + 1 - (IF n % 4 = 0 THEN 4 ELSE n % 4) /\ n % 4 # 1
        BY <2>2, <3>2 DEF IsBorderAdj
      <4>2. i \in 1 .. n - 1 /\ i % 4 = 1 BY <4>1, LastAdjIs
      <4> QED BY <4>2, Mod4 DEF OddsOf
    <3> QED BY <3>1, <3>2
  <2> QED BY <2>1, <2>2
<1>14. ASSUME NEW i \in i1, NEW o \in interp_cubic
       PROVE  (i + o) % 2 = 0 /\ Readable(L, i + o)
  <2>1. i \in Nat /\ i >= 1 /\ i + 3 < n /\ i % 4 = 1 /\ (i >= 3 \/ Behind(L))
    BY <1>2, <1>6
  <2>2. o \in {-3, -1, 1, 3} BY DEF interp_cubic
  <2>3. i % 2 = 1 BY <2>1, Mod4
  <2>4. i + 1 < n /\ i + 3 < n /\ i - 1 >= 0 /\ (i >= 3 \/ (i - 3 = -2 /\ Behind(L)))
    BY <2>1
  <2>5. (i + 1) % 2 = 0 /\ (i + 3) % 2 = 0 /\ (i + (-1)) % 2 = 0 /\ (i + (-3)) % 2 = 0
    BY <2>1, <2>3
  <2>6. i + o \in 0 .. n - 1 \/ (i + o = -2 /\ Behind(L)) BY <2>1, <2>2, <2>4
  <2>7. Readable(L, i + o) BY <2>6 DEF Readable
  <2> QED BY <2>2, <2>5, <2>7
<1>15. ASSUME NEW i \in OddsOf(n), i % 4 = 1, i \notin i1
       PROVE  IsBorderAdj(L, i)
  <2>1. i \in Nat /\ i >= 1 /\ i <= n - 1 /\ (i < st \/ i + 3 >= n)
    <3>1. i \in Nat /\ i >= 1 /\ i <= n - 1 BY DEF OddsOf
    <3>2. ~(i \in Nat /\ i >= st /\ i + 3 < n /\ i % 4 = 1)
      BY <1>6, <1>15, Zenon
    <3> QED BY <1>2, <1>15, <3>1, <3>2
  <2>2. CASE i = 1
    <3>1. st = 5 \/ n <= 4 BY <1>2, <2>1, <2>2
    <3> QED BY <2>2, <3>1 DEF IsBorderAdj
  <2>3. CASE i # 1
    <3>1. i >= 5 BY <1>15, <2>1, <2>3
    <3>2. i + 3 >= n /\ n > 4 BY <1>2, <2>1, <3>1
    <3>3. i = n + 1 - (IF n % 4 = 0 THEN 4 ELSE n % 4) /\ n % 4 # 1
      <4>1. i \in 1 .. n - 1 /\ i % 4 = 1 /\ i + 3 >= n /\ n > 4
        BY <1>15, <2>1, <3>2
      <4> QED BY <4>1, LastAdjIs, Zenon
    <3> QED BY <3>2, <3>3 DEF IsBorderAdj
  <2> QED BY <2>2, <2>3
<1>16. \A i \in i1 : ~IsBorderAdj(L, i) BY <1>2, <1>6 DEF IsBorderAdj
<1>17. ASSUME NEW i \in OddsOf(n), i % 4 = 1 PROVE \E k \in 1 .. 1 + m : i \in I[k]
  <2>1. CASE i \in i1 BY <1>9, <2>1
  <2>2. CASE i \notin i1
    <3>1. i \in S BY <1>15, <1>17, <2>2
    <3>2. PICK j \in 1 .. m : b[j] = i
      BY <3>1 DEF ListsOnce
    <3>3. I[1 + j] = {b[j]} BY <1>9
    <3>4. 1 + j \in 1 .. 1 + m /\ i \in I[1 + j] BY <3>2, <3>3
    <3> QED BY <3>4
  <2> QED BY <2>1, <2>2
<1>18. ASSUME NEW i \in OddsOf(n), i % 4 # 1 PROVE i \in i3 \/ i \in i4
  <2>1. i \in Nat /\ i >= 1 /\ i <= n - 1 /\ i % 4 = 3 BY <1>18, Mod4 DEF OddsOf
  <2>2. CASE i + 3 < n BY <1>6, <2>1, <2>2
  <2>3. CASE ~(i + 3 < n)
    <3>1. i = last /\ n % 4 # 3 /\ n > (n % 4) + 1
      <4>1. i \in 1 .. n - 1 /\ i + 3 >= n BY <2>1, <2>3
      <4> QED BY <2>1, <4>1, LastAdjIs
    <3> QED BY <1>7, <3>1
  <2> QED BY <2>2, <2>3
<1>19. ASSUME NEW i \in OddsOf(n) PROVE \E k \in 1 .. m + 3 : i \in I[k]
  <2>1. CASE i % 4 = 1 BY <1>17, <2>1
  <2>2. CASE i % 4 # 1 BY <1>9, <1>18, <2>2
  <2> QED BY <2>1, <2>2
<1>20. ASSUME NEW k \in 1 .. m + 3
       PROVE  I[k] \subseteq OddsOf(n) /\ offs[k] \subseteq Int
  <2>1. CASE k = 1 BY <1>9, <1>12, <2>1 DEF interp_cubic
  <2>2. ASSUME NEW j \in 1 .. m, k = 1 + j PROVE I[k] \subseteq OddsOf(n) /\ offs[k] \subseteq Int
    <3>1. Border(L, b[j], 4) \subseteq Int BY <1>13, BorderGood
    <3> QED BY <1>9, <1>13, <2>2, <3>1
  <2>3. CASE k = m + 2
    <3>1. I[k] = i3 /\ offs[k] = interp_cubic_adj BY <1>9, <2>3
    <3>2. interp_cubic_adj \subseteq Int BY DEF interp_cubic_adj
    <3> QED BY <1>12, <3>1, <3>2
  <2>4. CASE k = m + 3
    <3>1. Ahead(L, last) \subseteq Int BY DEF Ahead
    <3>2. BorderAdj(L, last) \subseteq Int BY <3>1 DEF BorderAdj
    <3> QED BY <1>9, <1>12, <2>4, <3>2
  <2> QED BY <1>10, <2>1, <2>2, <2>3, <2>4
<1>21. ASSUME NEW j \in 1 .. m + 3, NEW k \in 1 .. m + 3, NEW i \in I[j], i \in I[k]
       PROVE  j = k
  <2>1. ASSUME NEW x \in 1 .. m PROVE I[1 + x] = {b[x]} /\ ~(b[x] \in i1) /\ b[x] % 4 = 1
    BY <1>9, <1>13, <1>16
  <2>2. ASSUME NEW x \in 1 .. m, NEW y \in 1 .. m, b[x] = b[y] PROVE x = y
    BY <2>2 DEF ListsOnce
  <2>3. \A x \in i3 : ~(x \in i4) BY <1>6, <1>12
  <2>4. \A x \in 1 .. m + 3 :
          \/ x = 1 /\ I[x] = i1
          \/ \E y \in 1 .. m : x = 1 + y /\ I[x] = {b[y]}
          \/ x = m + 2 /\ I[x] = i3
          \/ x = m + 3 /\ I[x] = i4
    <3> SUFFICES ASSUME NEW x \in 1 .. m + 3
                 PROVE  \/ x = 1 /\ I[x] = i1
                        \/ \E y \in 1 .. m : x = 1 + y /\ I[x] = {b[y]}
                        \/ x = m + 2 /\ I[x] = i3
                        \/ x = m + 3 /\ I[x] = i4
      BY Zenon
    <3>1. x = 1 \/ (\E y \in 1 .. m : x = 1 + y) \/ x = m + 2 \/ x = m + 3
      BY <1>10, Zenon
    <3>2. (x = 1 => I[x] = i1) /\ (x = m + 2 => I[x] = i3) /\ (x = m + 3 => I[x] = i4)
      BY <1>9, Zenon
    <3>3. \A y \in 1 .. m : x = 1 + y => I[x] = {b[y]} BY <1>9, Zenon
    <3> QED BY <3>1, <3>2, <3>3, Zenon
  <2>5. CASE i % 4 = 1
    <3>1. i \notin i3 /\ i \notin i4 BY <1>12, <2>5
    <3>2. CASE i \in i1
      <4>1. \A x \in 1 .. m : i # b[x] BY <2>1, <3>2
      <4>2. \A x \in 1 .. m + 3 : i \in I[x] => x = 1 BY <2>4, <3>1, <4>1
      <4> QED BY <1>21, <4>2
    <3>3. CASE i \notin i1
      <4>1. \A x \in 1 .. m + 3 : i \in I[x] => \E y \in 1 .. m : x = 1 + y /\ b[y] = i
        BY <2>4, <3>1, <3>3
      <4>2. PICK y \in 1 .. m : j = 1 + y /\ b[y] = i
        BY <4>1
      <4>3. PICK z \in 1 .. m : k = 1 + z /\ b[z] = i
        BY <1>21, <4>1
      <4> QED BY <2>2, <4>2, <4>3
    <3> QED BY <3>2, <3>3
  <2>6. CASE i % 4 # 1
    <3>1. i \notin i1 /\ \A x \in 1 .. m : i \notin {b[x]} BY <1>12, <2>1, <2>6
    <3>2. \A x \in 1 .. m + 3 : i \in I[x] => (x = m + 2 /\ i \in i3) \/ (x = m + 3 /\ i \in i4)
      BY <2>4, <3>1
    <3>3. ((j = m + 2 /\ i \in i3) \/ (j = m + 3 /\ i \in i4)) /\ ((k = m + 2 /\ i \in i3) \/ (k = m + 3 /\ i \in i4))
      BY <1>21, <3>2, Zenon
    <3> QED
      <4>1. i \in i3 => j = m + 2 /\ k = m + 2 BY <2>3, <3>3, Zenon
      <4>2. i \in i4 => j = m + 3 /\ k = m + 3 BY <2>3, <3>3, Zenon
      <4>3. i \in i3 \/ i \in i4 BY <3>3, Zenon
      <4>4. (i \in i3 => j = k) /\ (i \in i4 => j = k) BY <4>1, <4>2
      <4> QED BY <4>3, <4>4, Zenon
  <2> QED BY <2>5, <2>6
<1>22. ASSUME NEW k \in 1 .. m + 3, NEW i \in I[k], NEW o \in offs[k]
       PROVE  IF (i + o) % 2 = 0 THEN Readable(L, i + o) ELSE \E j \in 1 .. k - 1 : i + o \in I[j]
  <2>1. CASE k = 1 BY <1>9, <1>14, <2>1
  <2>2. ASSUME NEW j \in 1 .. m, k = 1 + j PROVE (i + o) % 2 = 0 /\ Readable(L, i + o)
    <3>1. i = b[j] /\ i \in OddsOf(n) /\ o \in Border(L, i, 4)
      BY <1>9, <1>13, <2>2
    <3> QED BY <3>1, BorderGood
  <2>3. ASSUME k >= m + 2, i \in OddsOf(n), i % 4 = 3, o = -2 \/ (o = 2 /\ i + 2 < n)
        PROVE  (i + o) % 2 = 1 /\ \E j \in 1 .. k - 1 : i + o \in I[j]
    <3>1. i + o \in OddsOf(n) /\ (i + o) % 4 = 1 /\ (i + o) % 2 = 1
      <4>1. i \in Nat /\ i >= 1 /\ i <= n - 1 /\ i % 4 = 3 BY <2>3 DEF OddsOf
      <4>2. i + o \in Int /\ i + o >= 1 /\ i + o <= n - 1 /\ (i + o) % 4 = 1
        <5>1. CASE o = -2
          <6>1. i - 2 \in Int /\ i - 2 >= 1 /\ i - 2 <= n - 1 BY <4>1
          <6>2. (i - 2) % 4 = 1 /\ i + o = i - 2 BY <4>1, <5>1, Mod4
          <6> QED BY <6>1, <6>2
        <5>2. CASE o = 2 /\ i + 2 < n
          <6>1. i + 2 \in Int /\ i + 2 >= 1 /\ i + 2 <= n - 1 BY <4>1, <5>2
          <6>2. (i + 2) % 4 = 1 /\ i + o = i + 2 BY <4>1, <5>2, Mod4
          <6> QED BY <6>1, <6>2
        <5> QED BY <2>3, <5>1, <5>2
      <4>3. (i + o) % 2 = 1 BY <4>2, Mod4
      <4> QED BY <4>2, <4>3 DEF OddsOf
    <3>2. PICK j \in 1 .. 1 + m : i + o \in I[j]
      BY <1>17, <3>1
    <3>3. j \in 1 .. k - 1 BY <2>3
    <3> QED BY <3>1, <3>2, <3>3
  <2>4. CASE k = m + 2
    <3>1. i \in i3 /\ o \in interp_cubic_adj BY <1>9, <2>4
    <3>2. i \in Nat /\ i >= 3 /\ i + 3 < n /\ i % 4 = 3 BY <1>6, <3>1
    <3>3. CASE o \in {-3, -1, 1, 3}
      <4>1. i + o \in 0 .. n - 1 /\ (i + o) % 2 = 0 BY <3>2, <3>3
      <4> QED BY <4>1 DEF Readable
    <3>4. CASE o \in {-2, 2}
      <4>1. (i + o) % 2 = 1 /\ \E j \in 1 .. k - 1 : i + o \in I[j]
        BY <1>12, <2>3, <2>4, <3>1, <3>2, <3>4
      <4> QED BY <4>1
    <3> QED BY <3>1, <3>3, <3>4 DEF interp_cubic_adj
  <2>5. CASE k = m + 3
    <3>1. i = last /\ o \in BorderAdj(L, last) /\ i \in OddsOf(n) /\ i % 4 = 3
      BY <1>7, <1>9, <1>12, <2>5
    <3>2. i >= 3
      <4>1. i \in Nat /\ i >= 1 BY <3>1 DEF OddsOf
      <4> QED BY <3>1, <4>1
    <3>3. (((i + o) % 2 = 0 /\ Readable(L, i + o)) \/ o = -2)
      BY <3>1, <3>2, BorderAdjGood
    <3>4. CASE o = -2
      <4>1. (i + o) % 2 = 1 /\ \E j \in 1 .. k - 1 : i + o \in I[j]
        BY <2>3, <2>5, <3>1, <3>4
      <4> QED BY <4>1
    <3> QED BY <3>3, <3>4
  <2> QED BY <1>10, <2>1, <2>2, <2>4, <2>5
<1>23. GoodParts(m + 3, I, offs, L)
  <2>1. \A k \in 1 .. m + 3 : \A i \in I[k] : \A o \in offs[k] :
          IF (i + o) % 2 = 0 THEN Readable(L, i + o) ELSE \E j \in 1 .. k - 1 : i + o \in I[j]
    BY <1>22, Zenon
  <2>2. \A j, k \in 1 .. m + 3 : \A i \in I[j] : i \in I[k] => j = k
    BY <1>21, Zenon
  <2> QED BY <1>19, <1>20, <2>1, <2>2, Zenon DEF GoodParts
<1>24. GoodLine(ph, L) BY <1>8, <1>11, <1>23, PartsMakeLine
<1> QED BY <1>24 DEF ph

\* The lines of a pass, of points in front of which there is the coarser grid or not.
LineOf(c, n, begin, end, s, dim, f) ==
  [n |-> n, begin |-> begin, end |-> end, stride |-> s, dim |-> dim, back |-> c.cross, front |-> f]

PhasesOf(c, meta, L) ==
  IF (Len(c.dims) = 1 /\ ~c.cross) \/ Len(c.dims) = 4 THEN PlainLine(L.n, meta) ELSE CrossLine(L, meta)

\* The lines of a pass are good,
LEMMA LinesGood ==
  ASSUME NEW c, NEW meta, NEW L, IsLine(L)
  PROVE  GoodLine(PhasesOf(c, meta, L), L)
<1>1. L.n \in Nat /\ L.n >= 2 BY DEF IsLine
<1>2. GoodLine(PlainLine(L.n, meta), L)
  <2>1. CASE meta.algo = "linear" \/ L.n < 5
    <3>1. PlainLine(L.n, meta) = PlainLinear(L.n) BY <1>1, <2>1 DEF PlainLine
    <3> QED BY <3>1, PlainLinearGood
  <2>2. CASE ~(meta.algo = "linear" \/ L.n < 5)
    <3>1. PlainLine(L.n, meta) = IF meta.adj THEN PlainCubicAdj(L.n) ELSE PlainCubic(L.n)
      BY <1>1, <2>2 DEF PlainLine
    <3>2. L.n >= 5 BY <1>1, <2>2
    <3> QED BY <3>1, <3>2, PlainCubicGood, PlainCubicAdjGood
  <2> QED BY <2>1, <2>2
<1>3. GoodLine(CrossLine(L, meta), L)
  <2>1. CrossLine(L, meta) = IF meta.algo = "linear" THEN CrossLinear(L)
                             ELSE IF meta.adj THEN CrossCubicAdj(L) ELSE CrossCubic(L)
    BY <1>1 DEF CrossLine
  <2> QED BY <2>1, CrossLinearGood, CrossCubicGood, CrossCubicAdjGood
<1> QED BY <1>2, <1>3 DEF PhasesOf

\* and those of a pass have equally many phases.
LEMMA SamePhases ==
  ASSUME NEW c, NEW meta, NEW n, NEW begin, NEW end, NEW s, NEW dim
  PROVE  Len(PhasesOf(c, meta, LineOf(c, n, begin, end, s, dim, FALSE)))
           = Len(PhasesOf(c, meta, LineOf(c, n, begin, end, s, dim, TRUE)))
<1> PICK L : L = LineOf(c, n, begin, end, s, dim, FALSE)
  OBVIOUS
<1> PICK M : M = LineOf(c, n, begin, end, s, dim, TRUE)
  OBVIOUS
<1>1. /\ L.n = M.n /\ L.begin = M.begin /\ L.end = M.end /\ L.stride = M.stride
      /\ L.dim = M.dim /\ L.back = M.back
  BY DEF LineOf
<1>2. \A x : IStart(L, x) = IStart(M, x) BY <1>1 DEF IStart
<1>3. boundary(L) = boundary(M) /\ boundary_adj(L) = boundary_adj(M)
  BY <1>1, <1>2 DEF boundary, boundary_adj
<1>4. IsSeq(boundary(L)) /\ IsSeq(boundary_adj(L)) BY BoundarySeq
<1> PICK b : b = boundary(L)
  OBVIOUS
<1> PICK a : a = boundary_adj(L)
  OBVIOUS
<1>5. Len(b) \in Nat /\ Len(a) \in Nat BY <1>4, LengthIs
<1>6. Len(CrossLinear(L)) = 2 /\ Len(CrossLinear(M)) = 2 BY DEF CrossLinear
<1>7. ASSUME NEW x, NEW f
      PROVE  Len(<<x>> \o [k \in 1 .. Len(b) |-> f[k]]) = 1 + Len(b)
  <2> DEFINE l == [k \in 1 .. Len(b) |-> f[k]]
  <2>1. IsSeq(l) /\ Len(l) = Len(b) BY <1>5, ListIs
  <2>2. IsSeq(<<x>>) /\ Len(<<x>>) = 1 BY ListsAre
  <2> HIDE DEF l
  <2>3. Len(<<x>> \o l) = Len(<<x>>) + Len(l) BY <2>1, <2>2, JoinIs
  <2> QED BY <2>1, <2>2, <2>3 DEF l
<1>8. ASSUME NEW x, NEW f, NEW y, NEW z
      PROVE  Len((<<x>> \o [k \in 1 .. Len(a) |-> f[k]]) \o <<y, z>>) = (1 + Len(a)) + 2
  <2> DEFINE l == [k \in 1 .. Len(a) |-> f[k]]
  <2>1. IsSeq(l) /\ Len(l) = Len(a) BY <1>5, ListIs
  <2>2. IsSeq(<<x>>) /\ Len(<<x>>) = 1 /\ IsSeq(<<y, z>>) /\ Len(<<y, z>>) = 2
    BY ListsAre
  <2> HIDE DEF l
  <2>3. IsSeq(<<x>> \o l) /\ Len(<<x>> \o l) = Len(<<x>>) + Len(l)
    BY <2>1, <2>2, JoinIs
  <2>4. Len((<<x>> \o l) \o <<y, z>>) = Len(<<x>> \o l) + Len(<<y, z>>)
    BY <2>2, <2>3, JoinIs
  <2>5. Len((<<x>> \o l) \o <<y, z>>) = (1 + Len(a)) + 2
    BY <2>1, <2>2, <2>3, <2>4
  <2> QED BY <2>5 DEF l
<1>9. ASSUME NEW N, N \in {L, M}
      PROVE  Len(CrossCubic(N)) = 1 + Len(b) /\ Len(CrossCubicAdj(N)) = (1 + Len(a)) + 2
  <2>1. boundary(N) = b /\ boundary_adj(N) = a BY <1>3, <1>9
  <2>2. Len(CrossCubic(N)) = 1 + Len(b)
    <3> DEFINE x == {<<i, interp_cubic>> : i \in Loop(IStart(N, 3), 3, 2, N.n)}
               f == [k \in 1 .. Len(b) |-> {<<b[k], Border(N, b[k], 3)>>}]
    <3>1. CrossCubic(N) = <<x>> \o [k \in 1 .. Len(b) |-> f[k]]
      BY <2>1 DEF CrossCubic
    <3> HIDE DEF x, f
    <3> QED BY <1>7, <3>1
  <2>3. Len(CrossCubicAdj(N)) = (1 + Len(a)) + 2
    <3> DEFINE x == {<<i, interp_cubic>> : i \in Loop(IStart(N, 5), 3, 4, N.n)}
               f == [k \in 1 .. Len(a) |-> {<<a[k], Border(N, a[k], 4)>>}]
               temp == N.n % 4
               last == N.n - 1 - temp
               y == {<<i, interp_cubic_adj>> : i \in Loop(3, 3, 4, N.n)}
               z == IF temp # 3 /\ N.n > temp + 1 THEN {<<last, BorderAdj(N, last)>>} ELSE {}
    <3>1. CrossCubicAdj(N) = (<<x>> \o [k \in 1 .. Len(a) |-> f[k]]) \o <<y, z>>
      BY <2>1 DEF CrossCubicAdj
    <3> HIDE DEF x, f, y, z
    <3> QED BY <1>8, <3>1
  <2> QED BY <2>2, <2>3
<1>10. Len(CrossLine(L, meta)) = Len(CrossLine(M, meta))
  BY <1>1, <1>6, <1>9 DEF CrossLine
<1>11. Len(PhasesOf(c, meta, L)) = Len(PhasesOf(c, meta, M))
  BY <1>1, <1>10 DEF PhasesOf
<1> QED BY <1>11

-----------------------------------------------------------------------------
(* Passes.                                                                 *)

\* A point has a coordinate below the size of the array in every dimension.
LEMMA PointIs ==
  ASSUME NEW c, IsConfig(c)
  PROVE  /\ Dims(c) = 1 .. Len(c.dims) /\ Len(c.dims) \in 1 .. 4
         /\ \A d \in Dims(c) : c.dims[d] \in Nat \ {0}
         /\ \A p \in Points(c) : p \in [Dims(c) -> Nat] /\ \A d \in Dims(c) : p[d] < c.dims[d]
         /\ \A p \in [Dims(c) -> Nat] : (\A d \in Dims(c) : p[d] < c.dims[d]) => p \in Points(c)
<1>1. /\ Dims(c) = 1 .. Len(c.dims) /\ Len(c.dims) \in 1 .. 4
      /\ \A d \in Dims(c) : c.dims[d] \in Nat \ {0}
  BY DEF IsConfig, Dims
<1> DEFINE S == {c.dims[d] : d \in Dims(c)}
<1>2. PICK m \in Dims(c) : \A d \in Dims(c) : c.dims[d] <= c.dims[m]
  <2> PICK f : f = c.dims
    OBVIOUS
  <2> PICK b \in Int : b = Len(c.dims)
    BY <1>1
  <2>1. 1 \in Int /\ 1 <= b /\ \A i \in 1 .. b : f[i] \in Int
    <3>1. Dims(c) = 1 .. b /\ 1 <= b BY <1>1
    <3>2. \A i \in Dims(c) : f[i] \in Nat BY <1>1
    <3> QED BY <3>1, <3>2
  <2>2. \E i \in 1 .. b : \A j \in 1 .. b : f[j] <= f[i] BY <2>1, Greatest
  <2> QED BY <1>1, <2>2
<1>3. Max(S) = c.dims[m]
  <2>1. S \in SUBSET Int /\ c.dims[m] \in S /\ \A x \in S : x <= c.dims[m]
    BY <1>1, <1>2
  <2> HIDE DEF S
  <2> QED BY <2>1, MaxIs
<1> HIDE DEF S
<1>4. Points(c) = {p \in [Dims(c) -> 0 .. c.dims[m]] : \A d \in Dims(c) : p[d] < c.dims[d]}
  BY <1>3 DEF Points, S
<1>5. c.dims[m] \in Nat BY <1>1
<1>6. ASSUME NEW p \in [Dims(c) -> Nat], \A d \in Dims(c) : p[d] < c.dims[d]
      PROVE  p \in [Dims(c) -> 0 .. c.dims[m]]
  <2>1. \A d \in Dims(c) : p[d] \in 0 .. c.dims[m] BY <1>1, <1>2, <1>6
  <2> QED BY <2>1
<1>7. [Dims(c) -> 0 .. c.dims[m]] \subseteq [Dims(c) -> Nat] BY <1>5
<1> QED BY <1>1, <1>4, <1>6, <1>7

\* The pass along dir: where the lines lie, the points they code, and what they may read.
OnLines(c, lo, end, dir, steps, q) ==
  \A d \in Dims(c) \ {dir} : q[d] \in lo[d] .. end[d] /\ (q[d] - lo[d]) % steps[d] = 0

LineTarget(c, lo, end, dir, steps, s) ==
  {q \in Points(c) : /\ OnLines(c, lo, end, dir, steps, q)
                     /\ q[dir] \in lo[dir] .. end[dir] /\ q[dir] % (2 * s) = s}

LineReads(c, lo, end, dir, steps, s, q) ==
  /\ OnLines(c, lo, end, dir, steps, q)
  /\ q[dir] % (2 * s) = 0
  /\ q[dir] <= end[dir] \/ \A d \in Dims(c) \ {dir} : q[d] % (2 * s) = 0

IsBox(c, lo, end) ==
  /\ IsConfig(c)
  /\ lo \in [Dims(c) -> Nat] /\ end \in [Dims(c) -> Nat]
  /\ \A d \in Dims(c) : end[d] < c.dims[d]

\* A line of at least two points.
LEMMA LineOfIs ==
  ASSUME NEW c, NEW lo, NEW end, IsBox(c, lo, end), NEW dir \in Dims(c),
         NEW s \in Nat \ {0}, lo[dir] % (2 * s) = 0, lo[dir] <= end[dir],
         NEW n, n = ((end[dir] - lo[dir]) \div s) + 1, NEW f
  PROVE  /\ n \in Nat
         /\ n >= 2 => IsLine(LineOf(c, n, lo[dir], end[dir], s, c.dims[dir], f))
         /\ n * s > end[dir] - lo[dir]
         /\ \A i \in 0 .. n - 1 : i * s \in Nat /\ lo[dir] + i * s <= end[dir]
<1> PICK a \in Nat : a = lo[dir]
  BY DEF IsBox
<1> PICK e \in Nat : e = end[dir]
  BY DEF IsBox
<1> PICK x \in Nat : x = e - a
  OBVIOUS
<1> PICK m \in Nat : m = x \div s
  BY QuotientOf
<1>1. m * s <= x /\ x < m * s + s /\ m * s \in Nat
  <2>1. s * (x \div s) <= x /\ x < s * (x \div s) + s BY QuotientOf
  <2>2. s * m = m * s /\ m * s \in Nat OBVIOUS
  <2> QED BY <2>1, <2>2
<1>2. n = m + 1 OBVIOUS
<1>3. n * s > x
  <2>1. (m + 1) * s = m * s + s BY Products
  <2> QED BY <1>1, <1>2, <2>1
<1>4. ASSUME NEW i \in 0 .. n - 1 PROVE i * s \in Nat /\ a + i * s <= e
  <2>1. i \in Nat /\ i * s \in Nat /\ i <= m BY <1>2
  <2>2. i * s <= m * s
    <3>1. CASE i = m BY <3>1, <1>1
    <3>2. CASE i < m
      <4>1. i * s + s <= m * s BY <2>1, <3>2, OneStride
      <4> QED BY <1>1, <2>1, <4>1
    <3> QED BY <2>1, <3>1, <3>2
  <2> QED BY <1>1, <2>1, <2>2
<1>5. n >= 2 => IsLine(LineOf(c, n, lo[dir], end[dir], s, c.dims[dir], f))
  <2> SUFFICES ASSUME n >= 2 PROVE IsLine(LineOf(c, n, lo[dir], end[dir], s, c.dims[dir], f))
    OBVIOUS
  <2>1. a % s = 0 BY OddSteps, Zenon
  <2>2. c.dims[dir] \in Nat BY PointIs DEF IsBox
  <2>3. n - 1 \in 0 .. n - 1 /\ n \in Nat BY <1>2
  <2>4. a + (n - 1) * s <= e BY <1>4, <2>3
  <2> QED BY <2>1, <2>2, <2>3, <2>4 DEF IsLine, LineOf
<1>6. \A i \in 0 .. n - 1 : i * s \in Nat /\ lo[dir] + i * s <= end[dir] BY <1>4
<1>7. n \in Nat /\ n * s > end[dir] - lo[dir] BY <1>2, <1>3
<1> QED BY <1>5, <1>6, <1>7

\* A line read across the borders of its block.
LEMMA LineReadable ==
  ASSUME NEW c, NEW lo, NEW end, IsBox(c, lo, end), NEW dir \in Dims(c),
         NEW s \in Nat \ {0}, lo[dir] % (2 * s) = 0, lo[dir] <= end[dir],
         NEW n, n = ((end[dir] - lo[dir]) \div s) + 1, n >= 2, NEW f \in BOOLEAN,
         NEW q \in Int, q % 2 = 0, Readable(LineOf(c, n, lo[dir], end[dir], s, c.dims[dir], f), q)
  PROVE  /\ lo[dir] + q * s \in Nat /\ lo[dir] + q * s < c.dims[dir]
         /\ (lo[dir] + q * s) % (2 * s) = 0
         /\ lo[dir] + q * s <= end[dir] \/ f
<1> PICK L : L = LineOf(c, n, lo[dir], end[dir], s, c.dims[dir], f)
  OBVIOUS
<1>0. L.n = n /\ L.begin = lo[dir] /\ L.stride = s /\ L.dim = c.dims[dir] /\ L.front = f
  BY DEF LineOf
<1>1. n \in Nat /\ \A i \in 0 .. n - 1 : i * s \in Nat /\ lo[dir] + i * s <= end[dir]
  BY LineOfIs
<1>2. lo[dir] \in Nat /\ end[dir] \in Nat /\ end[dir] < c.dims[dir] /\ c.dims[dir] \in Nat
  BY PointIs DEF IsBox
<1>3. /\ lo[dir] + q * s \in Nat /\ lo[dir] + q * s < c.dims[dir]
      /\ lo[dir] + q * s <= end[dir] \/ f
  <2>1. CASE q \in 0 .. n - 1 BY <1>1, <1>2, <2>1
  <2>2. CASE q = -2 /\ Behind(L)
    <3>1. lo[dir] >= 2 * s BY <1>0, <2>2 DEF Behind
    <3>2. (-2) * s = -(2 * s) OBVIOUS
    <3> QED BY <1>2, <2>2, <3>1, <3>2
  <2>3. CASE q \in Nat /\ q >= L.n /\ Beyond(L, q)
    <3>1. f /\ lo[dir] + q * s < c.dims[dir] BY <1>0, <2>3 DEF Beyond, Cur
    <3>2. q * s \in Nat BY <2>3
    <3> QED BY <1>2, <3>1, <3>2
  <2> QED BY <1>0, <2>1, <2>2, <2>3 DEF Readable
<1>4. (lo[dir] + q * s) % (2 * s) = 0 BY <1>2, <1>3, OddSteps
<1> QED BY <1>3, <1>4

\* The lines of the pass, a point and a prediction on one.
LineBases(c, lo, end, dir, steps) ==
  {p \in Points(c) : p[dir] = lo[dir] /\ OnLines(c, lo, end, dir, steps, p)}

LineFront(c, dir, s, p) == c.cross /\ \A d \in Dims(c) \ {dir} : p[d] % (2 * s) = 0

LinePoint(dir, s, p, i) == [p EXCEPT ![dir] = @ + i * s]

LineEvent(dir, s, p, x) ==
  [at |-> LinePoint(dir, s, p, x[1]), reads |-> {LinePoint(dir, s, p, x[1] + o) : o \in x[2]}]

PassPhases(c, meta, lo, end, dir, s, f) ==
  PhasesOf(c, meta, LineOf(c, ((end[dir] - lo[dir]) \div s) + 1, lo[dir], end[dir], s, c.dims[dir], f))

LineBatch(c, meta, lo, end, dir, steps, s, k) ==
  UNION {{LineEvent(dir, s, p, x) : x \in PassPhases(c, meta, lo, end, dir, s, LineFront(c, dir, s, p))[k]} :
           p \in LineBases(c, lo, end, dir, steps)}

\* The batches of a pass.
LEMMA LinePassIs ==
  ASSUME NEW c, NEW meta, NEW lo, NEW end, NEW dir, NEW steps, NEW s
  PROVE  LinePass(c, meta, lo, end, dir, steps, s) =
           IF \E d \in Dims(c) : end[d] < lo[d] THEN <<>>
           ELSE [k \in 1 .. Len(PassPhases(c, meta, lo, end, dir, s, FALSE)) |->
                   LineBatch(c, meta, lo, end, dir, steps, s, k)]
<1> DEFINE others == Dims(c) \ {dir}
           n      == ((end[dir] - lo[dir]) \div s) + 1
           bases  == {p \in Points(c) :
                        /\ p[dir] = lo[dir]
                        /\ \A d \in others : /\ p[d] \in lo[d] .. end[d]
                                             /\ (p[d] - lo[d]) % steps[d] = 0}
           front(p) == c.cross /\ \A d \in others : p[d] % (2 * s) = 0
           line(f)  == [n |-> n, begin |-> lo[dir], end |-> end[dir], stride |-> s,
                        dim |-> c.dims[dir], back |-> c.cross, front |-> f]
           phases(f) == IF (Len(c.dims) = 1 /\ ~c.cross) \/ Len(c.dims) = 4
                        THEN PlainLine(n, meta) ELSE CrossLine(line(f), meta)
           byFront   == [f \in BOOLEAN |-> phases(f)]
           point(p, i)    == [p EXCEPT ![dir] = @ + i * s]
           event(p, i, offs) == [at |-> point(p, i), reads |-> {point(p, i + o) : o \in offs}]
           set(k) == {{event(p, x[1], x[2]) : x \in byFront[front(p)][k]} : p \in bases}
           B == [k \in 1 .. Len(byFront[FALSE]) |-> UNION set(k)]
<1>1. LinePass(c, meta, lo, end, dir, steps, s) = IF \E d \in Dims(c) : end[d] < lo[d] THEN <<>> ELSE B
  BY Zenon DEF LinePass
<1>2. bases = LineBases(c, lo, end, dir, steps) BY DEF LineBases, OnLines
<1>3. \A p : front(p) = LineFront(c, dir, s, p) /\ front(p) \in BOOLEAN
  BY DEF LineFront
<1>4. \A f : phases(f) = PassPhases(c, meta, lo, end, dir, s, f)
  <2>1. \A f : LineOf(c, n, lo[dir], end[dir], s, c.dims[dir], f) = line(f) /\ line(f).n = n
    BY DEF LineOf
  <2> HIDE DEF line
  <2>2. \A f : PhasesOf(c, meta, line(f)) = phases(f)
    BY <2>1, Zenon DEF PhasesOf
  <2> HIDE DEF phases
  <2> QED BY <2>1, <2>2, Zenon DEF PassPhases
<1>5. \A f \in BOOLEAN : byFront[f] = PassPhases(c, meta, lo, end, dir, s, f)
  <2> HIDE DEF phases
  <2> QED BY <1>4
<1>6. \A p, x : event(p, x[1], x[2]) = LineEvent(dir, s, p, x)
  BY Zenon DEF LineEvent, LinePoint
<1>7. ASSUME NEW k, NEW p
      PROVE  {event(p, x[1], x[2]) : x \in byFront[front(p)][k]} =
             {LineEvent(dir, s, p, x) : x \in PassPhases(c, meta, lo, end, dir, s, LineFront(c, dir, s, p))[k]}
  <2>1. byFront[front(p)] = PassPhases(c, meta, lo, end, dir, s, LineFront(c, dir, s, p))
    <3> HIDE DEF front, byFront
    <3>1. front(p) = LineFront(c, dir, s, p) /\ front(p) \in BOOLEAN
      BY <1>3, Zenon
    <3> QED BY <1>5, <3>1
  <2> HIDE DEF front, byFront, event
  <2>2. {event(p, x[1], x[2]) : x \in byFront[front(p)][k]} = {LineEvent(dir, s, p, x) : x \in byFront[front(p)][k]}
    BY <1>6, Zenon
  <2> QED BY <2>1, <2>2
<1>8. ASSUME NEW k
      PROVE  set(k) = {{LineEvent(dir, s, p, x) : x \in PassPhases(c, meta, lo, end, dir, s, LineFront(c, dir, s, p))[k]} :
                          p \in LineBases(c, lo, end, dir, steps)}
  <2> DEFINE Y(p) == {event(p, x[1], x[2]) : x \in byFront[front(p)][k]}
             Z(p) == {LineEvent(dir, s, p, x) : x \in PassPhases(c, meta, lo, end, dir, s, LineFront(c, dir, s, p))[k]}
  <2>1. \A p : Y(p) = Z(p) BY <1>7, Zenon
  <2> HIDE DEF Y, Z
  <2>2. {Y(p) : p \in bases} = {Z(p) : p \in LineBases(c, lo, end, dir, steps)}
    <3> HIDE DEF bases
    <3> QED BY <1>2, <2>1
  <2> QED BY <2>2, Zenon DEF Y, Z
<1>9. \A k : UNION set(k) = LineBatch(c, meta, lo, end, dir, steps, s, k)
  <2> HIDE DEF set
  <2> QED BY <1>8, Zenon DEF LineBatch
<1>10. Len(byFront[FALSE]) = Len(PassPhases(c, meta, lo, end, dir, s, FALSE))
  <2> HIDE DEF byFront
  <2> QED BY <1>5
<1>11. B = [k \in 1 .. Len(PassPhases(c, meta, lo, end, dir, s, FALSE)) |->
                   LineBatch(c, meta, lo, end, dir, steps, s, k)]
  <2> HIDE DEF set, byFront
  <2> QED BY <1>9, <1>10, Zenon
<1> HIDE DEF B
<1> QED BY <1>1, <1>11, Zenon

\* The events of a batch.
LEMMA LineBatchIs ==
  ASSUME NEW c, NEW meta, NEW lo, NEW end, NEW dir, NEW steps, NEW s, NEW k, NEW e
  PROVE  e \in LineBatch(c, meta, lo, end, dir, steps, s, k)
           <=> \E p \in LineBases(c, lo, end, dir, steps) :
                 \E x \in PassPhases(c, meta, lo, end, dir, s, LineFront(c, dir, s, p))[k] :
                   e = LineEvent(dir, s, p, x)
<1> DEFINE G(p) == PassPhases(c, meta, lo, end, dir, s, LineFront(c, dir, s, p))[k]
           X(p) == {LineEvent(dir, s, p, x) : x \in G(p)}
           bases == LineBases(c, lo, end, dir, steps)
<1>1. LineBatch(c, meta, lo, end, dir, steps, s, k) = UNION {X(p) : p \in bases}
  BY Zenon DEF LineBatch
<1>2. \A p : e \in X(p) <=> \E x \in G(p) : e = LineEvent(dir, s, p, x)
  <2> HIDE DEF G
  <2> QED BY Zenon
<1> HIDE DEF G, X, bases
<1>3. e \in UNION {X(p) : p \in bases} <=> \E p \in bases : e \in X(p) BY Zenon
<1>4. e \in LineBatch(c, meta, lo, end, dir, steps, s, k)
        <=> \E p \in bases : \E x \in G(p) : e = LineEvent(dir, s, p, x)
  BY <1>1, <1>2, <1>3, Zenon
<1> QED BY <1>4, Zenon DEF G, bases

OnPass(c, lo, end, dir, s) ==
  IsBox(c, lo, end) /\ dir \in Dims(c) /\ s \in Nat \ {0} /\ lo[dir] % (2 * s) = 0

LineLength(lo, end, dir, s) == ((end[dir] - lo[dir]) \div s) + 1

\* The points of a line,
LEMMA LinePointIs ==
  ASSUME NEW c, NEW lo, NEW end, NEW dir, NEW steps, NEW s, OnPass(c, lo, end, dir, s),
         NEW p \in LineBases(c, lo, end, dir, steps), NEW i,
         NEW v \in Nat, v = lo[dir] + i * s, v < c.dims[dir],
         NEW q, q = LinePoint(dir, s, p, i)
  PROVE  /\ q \in Points(c) /\ q[dir] = v
         /\ \A d \in Dims(c) \ {dir} : q[d] = p[d]
         /\ OnLines(c, lo, end, dir, steps, q)
<1>1. IsConfig(c) /\ dir \in Dims(c) BY DEF OnPass, IsBox
<1>2. p \in Points(c) /\ p[dir] = lo[dir] /\ OnLines(c, lo, end, dir, steps, p)
  BY DEF LineBases
<1>3. p \in [Dims(c) -> Nat] /\ \A d \in Dims(c) : p[d] < c.dims[d]
  BY <1>1, <1>2, PointIs
<1>4. q = [p EXCEPT ![dir] = v]
  <2> PICK u : u = i * s
    OBVIOUS
  <2>1. q = [p EXCEPT ![dir] = @ + u] BY Zenon DEF LinePoint
  <2>2. p[dir] + u = v BY <1>2
  <2> QED BY <2>1, <2>2
<1>5. q \in [Dims(c) -> Nat] /\ q[dir] = v /\ \A d \in Dims(c) \ {dir} : q[d] = p[d]
  BY <1>1, <1>3, <1>4
<1>6. \A d \in Dims(c) : q[d] < c.dims[d] BY <1>3, <1>5
<1>7. q \in Points(c) BY <1>1, <1>5, <1>6, PointIs
<1>8. OnLines(c, lo, end, dir, steps, q) BY <1>2, <1>5 DEF OnLines
<1> QED BY <1>5, <1>7, <1>8

\* those that are coded,
LEMMA LinePointCoded ==
  ASSUME NEW c, NEW lo, NEW end, NEW dir, NEW steps, NEW s, OnPass(c, lo, end, dir, s),
         lo[dir] <= end[dir],
         NEW p \in LineBases(c, lo, end, dir, steps), NEW i \in OddsOf(LineLength(lo, end, dir, s))
  PROVE  /\ lo[dir] + i * s \in Nat /\ lo[dir] + i * s < c.dims[dir]
         /\ LinePoint(dir, s, p, i) \in LineTarget(c, lo, end, dir, steps, s)
<1> PICK n : n = LineLength(lo, end, dir, s)
  OBVIOUS
<1>1. IsBox(c, lo, end) /\ dir \in Dims(c) /\ s \in Nat \ {0} /\ lo[dir] % (2 * s) = 0
  BY DEF OnPass
<1>2. lo[dir] \in Nat /\ end[dir] \in Nat /\ end[dir] < c.dims[dir] /\ c.dims[dir] \in Nat
  BY <1>1, PointIs DEF IsBox
<1>3. n \in Nat /\ \A h \in 0 .. n - 1 : h * s \in Nat /\ lo[dir] + h * s <= end[dir]
  <2>1. n = ((end[dir] - lo[dir]) \div s) + 1 BY DEF LineLength
  <2> QED BY <1>1, <2>1, LineOfIs
<1>4. i \in 0 .. n - 1 /\ i \in Int /\ ~(i % 2 = 0) BY <1>3 DEF OddsOf
<1> PICK v \in Nat : v = lo[dir] + i * s
  BY <1>2, <1>3, <1>4
<1>5. v >= lo[dir] /\ v <= end[dir] /\ v < c.dims[dir]
  <2>1. i * s \in Nat /\ lo[dir] + i * s <= end[dir] BY <1>3, <1>4
  <2> QED BY <1>2, <2>1
<1>6. v % (2 * s) = s BY <1>1, <1>2, <1>4, OddSteps
<1> PICK q : q = LinePoint(dir, s, p, i)
  OBVIOUS
<1>7. q \in Points(c) /\ q[dir] = v /\ OnLines(c, lo, end, dir, steps, q)
  BY <1>5, LinePointIs
<1>8. q[dir] \in lo[dir] .. end[dir] /\ q[dir] % (2 * s) = s
  <2>1. v \in lo[dir] .. end[dir] BY <1>2, <1>5
  <2> QED BY <1>6, <1>7, <2>1
<1>9. q \in LineTarget(c, lo, end, dir, steps, s) BY <1>7, <1>8 DEF LineTarget
<1> QED BY <1>5, <1>9

\* those that are read,
LEMMA LinePointRead ==
  ASSUME NEW c, NEW lo, NEW end, NEW dir, NEW steps, NEW s, OnPass(c, lo, end, dir, s),
         lo[dir] <= end[dir],
         NEW p \in LineBases(c, lo, end, dir, steps),
         NEW n, n = LineLength(lo, end, dir, s), n >= 2,
         NEW q \in Int, q % 2 = 0,
         Readable(LineOf(c, n, lo[dir], end[dir], s, c.dims[dir], LineFront(c, dir, s, p)), q)
  PROVE  /\ LinePoint(dir, s, p, q) \in Points(c)
         /\ LineReads(c, lo, end, dir, steps, s, LinePoint(dir, s, p, q))
<1>1. IsBox(c, lo, end) /\ dir \in Dims(c) /\ s \in Nat \ {0} /\ lo[dir] % (2 * s) = 0
  BY DEF OnPass
<1> PICK f \in BOOLEAN : f = LineFront(c, dir, s, p)
  <2>1. c.cross \in BOOLEAN BY <1>1 DEF IsBox, IsConfig
  <2> QED BY <2>1 DEF LineFront
<1>2. n = ((end[dir] - lo[dir]) \div s) + 1 BY DEF LineLength
<1>3. /\ lo[dir] + q * s \in Nat /\ lo[dir] + q * s < c.dims[dir]
      /\ (lo[dir] + q * s) % (2 * s) = 0
      /\ lo[dir] + q * s <= end[dir] \/ f
  BY <1>1, <1>2, LineReadable
<1> PICK v \in Nat : v = lo[dir] + q * s
  BY <1>3
<1> PICK r : r = LinePoint(dir, s, p, q)
  OBVIOUS
<1>4. /\ r \in Points(c) /\ r[dir] = v /\ OnLines(c, lo, end, dir, steps, r)
      /\ \A d \in Dims(c) \ {dir} : r[d] = p[d]
  <2>1. v < c.dims[dir] BY <1>3
  <2> QED BY <2>1, LinePointIs
<1>5. f => \A d \in Dims(c) \ {dir} : r[d] % (2 * s) = 0
  <2> SUFFICES ASSUME f, NEW d \in Dims(c) \ {dir} PROVE r[d] % (2 * s) = 0
    OBVIOUS
  <2>1. p[d] % (2 * s) = 0 BY Zenon DEF LineFront
  <2> QED BY <1>4, <2>1
<1>6. r[dir] % (2 * s) = 0 /\ (r[dir] <= end[dir] \/ f) BY <1>3, <1>4
<1>7. LineReads(c, lo, end, dir, steps, s, r)
  BY <1>4, <1>5, <1>6, Zenon DEF LineReads
<1> QED BY <1>4, <1>7

\* and each only once.
LEMMA LinePointSame ==
  ASSUME NEW c, NEW lo, NEW end, NEW dir, NEW steps, NEW s, OnPass(c, lo, end, dir, s),
         lo[dir] <= end[dir],
         NEW p \in LineBases(c, lo, end, dir, steps), NEW r \in LineBases(c, lo, end, dir, steps),
         NEW i \in OddsOf(LineLength(lo, end, dir, s)), NEW h \in OddsOf(LineLength(lo, end, dir, s)),
         LinePoint(dir, s, p, i) = LinePoint(dir, s, r, h)
  PROVE  p = r /\ i = h
<1>1. IsBox(c, lo, end) /\ dir \in Dims(c) /\ s \in Nat \ {0} /\ lo[dir] \in Nat
  BY DEF OnPass, IsBox
<1>2. /\ lo[dir] + i * s \in Nat /\ lo[dir] + i * s < c.dims[dir]
      /\ lo[dir] + h * s \in Nat /\ lo[dir] + h * s < c.dims[dir]
  BY LinePointCoded
<1> PICK u \in Nat : u = lo[dir] + i * s
  BY <1>2
<1> PICK v \in Nat : v = lo[dir] + h * s
  BY <1>2
<1> PICK x : x = LinePoint(dir, s, p, i)
  OBVIOUS
<1>3. x[dir] = u /\ \A d \in Dims(c) \ {dir} : x[d] = p[d] BY <1>2, LinePointIs
<1>4. x[dir] = v /\ \A d \in Dims(c) \ {dir} : x[d] = r[d] BY <1>2, LinePointIs
<1>5. p = r
  <2>1. p \in Points(c) /\ p[dir] = lo[dir] /\ r \in Points(c) /\ r[dir] = lo[dir]
    BY DEF LineBases
  <2>2. p \in [Dims(c) -> Nat] /\ r \in [Dims(c) -> Nat]
    BY <1>1, <2>1, PointIs DEF IsBox
  <2>3. \A d \in Dims(c) : p[d] = r[d] BY <1>3, <1>4, <2>1
  <2> QED BY <2>2, <2>3
<1>6. i = h
  <2> PICK a \in Nat : a = i
    BY DEF OddsOf
  <2> PICK b \in Nat : b = h
    BY DEF OddsOf
  <2>1. a * s = b * s /\ a * s \in Nat /\ b * s \in Nat
    <3>1. a * s \in Nat /\ b * s \in Nat BY <1>1
    <3>2. lo[dir] + a * s = lo[dir] + b * s BY <1>3, <1>4
    <3> QED BY <1>1, <3>1, <3>2
  <2>2. ~(a < b) /\ ~(b < a)
    <3>1. a < b => a * s + s <= b * s BY <1>1, OneStride
    <3>2. b < a => b * s + s <= a * s BY <1>1, OneStride
    <3> QED BY <1>1, <2>1, <3>1, <3>2
  <2> QED BY <2>2
<1> QED BY <1>5, <1>6

\* Every point between the coarser ones lies on a line of the pass.
LEMMA LinePointFound ==
  ASSUME NEW c, NEW lo, NEW end, NEW dir, NEW steps, NEW s, OnPass(c, lo, end, dir, s),
         NEW q \in LineTarget(c, lo, end, dir, steps, s)
  PROVE  /\ \A d \in Dims(c) : lo[d] <= end[d]
         /\ LineLength(lo, end, dir, s) \in Nat /\ LineLength(lo, end, dir, s) >= 2
         /\ \E p \in LineBases(c, lo, end, dir, steps), i \in OddsOf(LineLength(lo, end, dir, s)) :
              LinePoint(dir, s, p, i) = q
<1> PICK n : n = LineLength(lo, end, dir, s)
  OBVIOUS
<1>1. IsBox(c, lo, end) /\ dir \in Dims(c) /\ s \in Nat \ {0} /\ lo[dir] % (2 * s) = 0 /\ IsConfig(c)
  BY DEF OnPass, IsBox
<1>2. lo[dir] \in Nat /\ end[dir] \in Nat /\ end[dir] < c.dims[dir] /\ c.dims[dir] \in Nat
      /\ \A d \in Dims(c) : lo[d] \in Nat /\ end[d] \in Nat
  BY <1>1, PointIs DEF IsBox
<1>3. /\ q \in Points(c) /\ OnLines(c, lo, end, dir, steps, q)
      /\ q[dir] \in lo[dir] .. end[dir] /\ q[dir] % (2 * s) = s
  BY DEF LineTarget
<1>4. q \in [Dims(c) -> Nat] /\ \A d \in Dims(c) : q[d] < c.dims[d]
  BY <1>1, <1>3, PointIs
<1>5. \A d \in Dims(c) : lo[d] <= end[d]
  <2>1. \A d \in Dims(c) : q[d] \in lo[d] .. end[d] BY <1>3 DEF OnLines
  <2> QED BY <1>2, <1>4, <2>1
<1>6. n \in Nat /\ n * s > end[dir] - lo[dir]
  <2>1. n = ((end[dir] - lo[dir]) \div s) + 1 BY DEF LineLength
  <2> QED BY <1>1, <1>5, <2>1, LineOfIs
<1> PICK x \in Nat : x = q[dir]
  BY <1>4, <1>1
<1>7. x >= lo[dir] /\ x <= end[dir] BY <1>2, <1>3
<1>8. PICK i \in Nat : x = lo[dir] + i * s /\ i % 2 = 1
  <2>1. x >= lo[dir] /\ x % (2 * s) = s BY <1>3, <1>7
  <2>2. \A y \in Nat : y >= lo[dir] /\ y % (2 * s) = s => \E i \in Nat : y = lo[dir] + i * s /\ i % 2 = 1
    BY <1>1, <1>2, OddSteps, Zenon
  <2> QED BY <2>1, <2>2, Zenon
<1>9. i < n
  <2> SUFFICES ASSUME n <= i PROVE FALSE
    BY <1>6
  <2>1. n * s <= i * s /\ n * s \in Nat /\ i * s \in Nat
    <3>1. n * s \in Nat /\ i * s \in Nat BY <1>1, <1>6
    <3>2. CASE i = n BY <3>1, <3>2
    <3>3. CASE n < i
      <4>1. n * s + s <= i * s BY <1>1, <1>6, <3>3, OneStride
      <4> QED BY <1>1, <3>1, <4>1
    <3> QED BY <1>6, <3>2, <3>3
  <2> QED BY <1>2, <1>6, <1>7, <1>8, <2>1
<1>10. i >= 1 BY <1>8
<1>11. i \in OddsOf(n) /\ n >= 2 BY <1>6, <1>8, <1>9, <1>10 DEF OddsOf
<1> PICK p : p = [q EXCEPT ![dir] = lo[dir]]
  OBVIOUS
<1>12. p \in [Dims(c) -> Nat] /\ p[dir] = lo[dir] /\ \A d \in Dims(c) \ {dir} : p[d] = q[d]
  BY <1>1, <1>2, <1>4
<1>13. p \in LineBases(c, lo, end, dir, steps)
  <2>1. \A d \in Dims(c) : p[d] < c.dims[d]
    <3>1. lo[dir] < c.dims[dir] BY <1>2, <1>5, <1>1
    <3> QED BY <1>4, <1>12, <3>1
  <2>2. p \in Points(c) BY <1>1, <1>12, <2>1, PointIs
  <2>3. OnLines(c, lo, end, dir, steps, p) BY <1>3, <1>12 DEF OnLines
  <2> QED BY <1>12, <2>2, <2>3 DEF LineBases
<1>14. LinePoint(dir, s, p, i) = q
  <2> PICK u \in Nat : u = i * s
    BY <1>1
  <2>1. LinePoint(dir, s, p, i) = [p EXCEPT ![dir] = p[dir] + u]
    BY DEF LinePoint
  <2>2. p[dir] + u = q[dir] BY <1>8, <1>12
  <2>3. [p EXCEPT ![dir] = q[dir]] = q BY <1>1, <1>4
  <2> QED BY <2>1, <2>2, <2>3
<1> QED BY <1>5, <1>6, <1>11, <1>13, <1>14

\* A line of fewer than two points has no phases.
LEMMA ShortLine ==
  ASSUME NEW c, NEW meta, NEW L, NEW n \in Nat, n = L.n, n < 2
  PROVE  Len(PhasesOf(c, meta, L)) = 0
<1>1. L.n <= 1 OBVIOUS
<1>2. PhasesOf(c, meta, L) = <<>>
  BY <1>1, Zenon DEF PhasesOf, PlainLine, CrossLine
<1>3. Len(<<>>) = 0 BY ListsAre
<1> QED BY <1>2, <1>3, Zenon

\* The lines of a pass have equally many phases, and are good.
LEMMA PassPhasesGood ==
  ASSUME NEW c, NEW meta, NEW lo, NEW end, NEW dir, NEW s, OnPass(c, lo, end, dir, s),
         lo[dir] <= end[dir], NEW n, n = LineLength(lo, end, dir, s)
  PROVE  /\ n \in Nat
         /\ n < 2 => Len(PassPhases(c, meta, lo, end, dir, s, FALSE)) = 0
         /\ n >= 2 =>
              \E N \in Nat : \A f \in BOOLEAN :
                /\ GoodLine(PassPhases(c, meta, lo, end, dir, s, f), LineOf(c, n, lo[dir], end[dir], s, c.dims[dir], f))
                /\ Len(PassPhases(c, meta, lo, end, dir, s, f)) = N
<1>1. IsBox(c, lo, end) /\ dir \in Dims(c) /\ s \in Nat \ {0} /\ lo[dir] % (2 * s) = 0
  BY DEF OnPass
<1>2. n = ((end[dir] - lo[dir]) \div s) + 1 BY DEF LineLength
<1> DEFINE L(f) == LineOf(c, n, lo[dir], end[dir], s, c.dims[dir], f)
           ph(f) == PassPhases(c, meta, lo, end, dir, s, f)
<1>3. n \in Nat /\ (n >= 2 => \A f : IsLine(L(f))) BY <1>1, <1>2, LineOfIs
<1>4. \A f : ph(f) = PhasesOf(c, meta, L(f)) /\ L(f).n = n
  BY <1>2, Zenon DEF PassPhases, LineOf
<1>5. n < 2 => Len(ph(FALSE)) = 0
  <2>1. n = L(FALSE).n BY <1>4, Zenon
  <2> HIDE DEF L, ph
  <2>2. n < 2 => Len(PhasesOf(c, meta, L(FALSE))) = 0 BY <1>3, <2>1, ShortLine
  <2> QED BY <1>4, <2>2, Zenon
<1>6. n >= 2 => \E N \in Nat : \A f \in BOOLEAN : GoodLine(ph(f), L(f)) /\ Len(ph(f)) = N
  <2> SUFFICES ASSUME n >= 2
               PROVE  \E N \in Nat : \A f \in BOOLEAN : GoodLine(ph(f), L(f)) /\ Len(ph(f)) = N
    OBVIOUS
  <2>1. Len(PhasesOf(c, meta, L(FALSE))) = Len(PhasesOf(c, meta, L(TRUE)))
    BY SamePhases, Zenon
  <2> HIDE DEF L, ph
  <2>2. \A f : GoodLine(ph(f), L(f)) BY <1>3, <1>4, LinesGood
  <2>3. IsSeq(ph(FALSE)) BY <2>2 DEF GoodLine
  <2> PICK N \in Nat : N = Len(ph(FALSE))
    BY <2>3, LengthIs
  <2>4. Len(ph(TRUE)) = N BY <1>4, <2>1
  <2>5. \A f \in BOOLEAN : Len(ph(f)) = N BY <2>4
  <2> QED BY <2>2, <2>5
<1> QED BY <1>3, <1>5, <1>6, Zenon

\* The pass codes its points, each once, and reads even points of its lines and odd ones
\* that are coded already.
LEMMA LinePassFills ==
  ASSUME NEW c, NEW meta, NEW lo, NEW end, NEW dir, NEW steps, NEW s, OnPass(c, lo, end, dir, s),
         NEW K, \A q \in Points(c) : LineReads(c, lo, end, dir, steps, s, q) => q \in K
  PROVE  Fills(LinePass(c, meta, lo, end, dir, steps, s), K, LineTarget(c, lo, end, dir, steps, s))
<1> PICK T : T = LineTarget(c, lo, end, dir, steps, s)
  OBVIOUS
<1> PICK n : n = LineLength(lo, end, dir, s)
  OBVIOUS
<1> PICK B : B = LinePass(c, meta, lo, end, dir, steps, s)
  OBVIOUS
<1> DEFINE ph(f) == PassPhases(c, meta, lo, end, dir, s, f)
<1>1. /\ \A d \in Dims(c) : lo[d] \in Nat /\ end[d] \in Nat
      /\ dir \in Dims(c)
  BY DEF OnPass, IsBox
<1>2. B = IF \E d \in Dims(c) : end[d] < lo[d] THEN <<>>
          ELSE [k \in 1 .. Len(ph(FALSE)) |-> LineBatch(c, meta, lo, end, dir, steps, s, k)]
  BY LinePassIs
<1> HIDE DEF ph
<1>3. CASE \E d \in Dims(c) : end[d] < lo[d]
  <2>1. T = {}
    <3> SUFFICES ASSUME NEW q \in T PROVE FALSE
      OBVIOUS
    <3>1. \A d \in Dims(c) : lo[d] <= end[d] BY LinePointFound
    <3> QED BY <1>1, <1>3, <3>1
  <2>2. B = <<>> BY <1>2, <1>3
  <2> QED BY <2>1, <2>2, FillsNothing
<1>4. CASE (~\E d \in Dims(c) : end[d] < lo[d]) /\ ~(n >= 2)
  <2>1. lo[dir] <= end[dir] BY <1>1, <1>4
  <2> PICK z : z = ph(FALSE)
    OBVIOUS
  <2>2. n \in Nat /\ (n < 2 => Len(z) = 0) BY <2>1, PassPhasesGood DEF ph
  <2>3. Len(z) = 0
    <3>1. n < 2
      <4> PICK i \in Nat : i = n
        BY <2>2
      <4>1. ~(i >= 2) BY <1>4
      <4> QED BY <4>1
    <3> QED BY <2>2, <3>1
  <2>4. B = <<>>
    <3>1. B = [k \in 1 .. Len(z) |-> LineBatch(c, meta, lo, end, dir, steps, s, k)]
      BY <1>2, <1>4
    <3> QED BY <2>3, <3>1
  <2>5. T = {}
    <3> SUFFICES ASSUME NEW q \in T PROVE FALSE
      OBVIOUS
    <3>1. n >= 2 BY LinePointFound
    <3> QED BY <1>4, <3>1
  <2> QED BY <2>4, <2>5, FillsNothing
<1>5. CASE (~\E d \in Dims(c) : end[d] < lo[d]) /\ n >= 2
  <2> DEFINE L(f) == LineOf(c, n, lo[dir], end[dir], s, c.dims[dir], f)
             bases == LineBases(c, lo, end, dir, steps)
             front(p) == LineFront(c, dir, s, p)
             event(p, x) == LineEvent(dir, s, p, x)
             point(p, i) == LinePoint(dir, s, p, i)
  <2>1. lo[dir] <= end[dir] BY <1>1, <1>5
  <2>2. PICK N \in Nat : \A f \in BOOLEAN : GoodLine(ph(f), L(f)) /\ Len(ph(f)) = N
    <3>1. \E N \in Nat : \A f \in BOOLEAN :
            /\ GoodLine(PassPhases(c, meta, lo, end, dir, s, f), LineOf(c, n, lo[dir], end[dir], s, c.dims[dir], f))
            /\ Len(PassPhases(c, meta, lo, end, dir, s, f)) = N
      <4>1. OnPass(c, lo, end, dir, s) /\ n = LineLength(lo, end, dir, s)
        OBVIOUS
      <4> HIDE DEF L, bases, front, event, point
      <4> QED BY <1>5, <2>1, <4>1, PassPhasesGood
    <3> QED BY <3>1, Zenon DEF ph
  <2>3. \A p : front(p) \in BOOLEAN
    <3>1. c.cross \in BOOLEAN BY DEF OnPass, IsBox, IsConfig
    <3> QED BY <3>1 DEF LineFront
  <2>4. \A f : L(f).n = n BY DEF LineOf
  <2> HIDE DEF L, front
  <2>5. IsSeq(B) /\ Len(B) = N /\ \A k \in 1 .. N : B[k] = LineBatch(c, meta, lo, end, dir, steps, s, k)
    <3>1. B = [k \in 1 .. N |-> LineBatch(c, meta, lo, end, dir, steps, s, k)]
      BY <1>2, <1>5, <2>2
    <3>2. B = [k \in 1 .. N |-> B[k]] /\ \A k \in 1 .. N : B[k] = LineBatch(c, meta, lo, end, dir, steps, s, k)
      BY <3>1
    <3> QED BY <3>2, ListIs
  <2>6. ASSUME NEW k \in 1 .. N, NEW e
        PROVE  e \in B[k] <=> \E p \in bases : \E x \in ph(front(p))[k] : e = event(p, x)
    BY <2>5, LineBatchIs DEF ph, front
  <2>7. \A p, x : event(p, x).at = point(p, x[1]) /\ event(p, x).reads = {point(p, x[1] + o) : o \in x[2]}
                  /\ event(p, x) = [at |-> event(p, x).at, reads |-> event(p, x).reads]
    BY DEF LineEvent
  <2>8. ASSUME NEW p \in bases, NEW i \in OddsOf(n) PROVE point(p, i) \in T
    BY <2>1, LinePointCoded
  <2>9. ASSUME NEW p \in bases, NEW q \in Int, q % 2 = 0, Readable(L(front(p)), q) PROVE point(p, q) \in K
    <3>1. point(p, q) \in Points(c) /\ LineReads(c, lo, end, dir, steps, s, point(p, q))
      BY <1>5, <2>1, <2>9, LinePointRead DEF L, front
    <3> QED BY <3>1
  <2>10. ASSUME NEW p \in bases, NEW r \in bases, NEW i \in OddsOf(n), NEW h \in OddsOf(n), point(p, i) = point(r, h)
         PROVE  p = r /\ i = h
    BY <2>1, <2>10, LinePointSame
  <2>11. ASSUME NEW q \in T PROVE \E p \in bases, i \in OddsOf(n) : point(p, i) = q
    BY LinePointFound
  <2>12. ASSUME NEW p PROVE GoodLine(ph(front(p)), L(front(p))) /\ Len(ph(front(p))) = N /\ L(front(p)).n = n
    BY <2>2, <2>3, <2>4
  <2> HIDE DEF bases, event, point
  <2>13. ASSUME NEW k \in 1 .. N, NEW e \in B[k]
         PROVE  /\ e = [at |-> e.at, reads |-> e.reads] /\ e.at \in T
                /\ \A r \in e.reads : r \in K \/ \E j \in 1 .. k - 1 : CodedAt(B, j, r)
    <3>1. PICK p \in bases : \E x \in ph(front(p))[k] : e = event(p, x)
      BY <2>6, <2>13
    <3>2. PICK x \in ph(front(p))[k] : e = event(p, x)
      BY <3>1
    <3>3. x[1] \in OddsOf(n) /\ x[2] \subseteq Int BY <2>12, Zenon DEF GoodLine
    <3>4. /\ e.at = point(p, x[1]) /\ e.reads = {point(p, x[1] + o) : o \in x[2]}
          /\ e = [at |-> e.at, reads |-> e.reads]
      BY <2>7, <3>2
    <3>5. e.at \in T BY <2>8, <3>3, <3>4
    <3>6. ASSUME NEW r \in e.reads PROVE r \in K \/ \E j \in 1 .. k - 1 : CodedAt(B, j, r)
      <4>1. PICK o \in x[2] : r = point(p, x[1] + o)
        BY <3>4
      <4>2. x[1] + o \in Int BY <3>3 DEF OddsOf
      <4>3. IF (x[1] + o) % 2 = 0 THEN Readable(L(front(p)), x[1] + o)
            ELSE \E j \in 1 .. k - 1 : \E y \in ph(front(p))[j] : y[1] = x[1] + o
        <5>1. GoodLine(ph(front(p)), L(front(p))) /\ Len(ph(front(p))) = N
          BY <2>12
        <5>2. \A h \in 1 .. Len(ph(front(p))) : \A y \in ph(front(p))[h] : \A b \in y[2] :
                IF (y[1] + b) % 2 = 0 THEN Readable(L(front(p)), y[1] + b)
                ELSE \E j \in 1 .. h - 1 : \E z \in ph(front(p))[j] : z[1] = y[1] + b
          BY <5>1, Zenon DEF GoodLine
        <5>3. \A h \in 1 .. N : \A y \in ph(front(p))[h] : \A b \in y[2] :
                IF (y[1] + b) % 2 = 0 THEN Readable(L(front(p)), y[1] + b)
                ELSE \E j \in 1 .. h - 1 : \E z \in ph(front(p))[j] : z[1] = y[1] + b
          BY <5>1, <5>2, Zenon
        <5> QED BY <5>3, Zenon
      <4>4. CASE (x[1] + o) % 2 = 0 BY <2>9, <4>1, <4>2, <4>3, <4>4
      <4>5. CASE ~((x[1] + o) % 2 = 0)
        <5>1. PICK j \in 1 .. k - 1 : \E y \in ph(front(p))[j] : y[1] = x[1] + o
          BY <4>3, <4>5
        <5>2. PICK y \in ph(front(p))[j] : y[1] = x[1] + o
          BY <5>1
        <5>3. j \in 1 .. N
          <6>1. k \in 1 .. N /\ j \in 1 .. k - 1 /\ N \in Nat OBVIOUS
          <6> HIDE <4>3, <4>5
          <6> QED BY <6>1
        <5>4. event(p, y) \in B[j] BY <2>6, <5>2, <5>3
        <5>5. event(p, y).at = r BY <2>7, <4>1, <5>2
        <5>6. CodedAt(B, j, r) BY <5>4, <5>5 DEF CodedAt
        <5> QED BY <5>6
      <4> QED BY <4>4, <4>5
    <3> QED BY <3>4, <3>5, <3>6
  <2>14. ASSUME NEW q \in T PROVE \E k \in 1 .. N : CodedAt(B, k, q)
    <3>1. PICK p \in bases : \E i \in OddsOf(n) : point(p, i) = q
      BY <2>11
    <3>2. PICK i \in OddsOf(n) : point(p, i) = q
      BY <3>1
    <3>3. PICK k \in 1 .. N : \E x \in ph(front(p))[k] : x[1] = i
      BY <2>12, Zenon DEF GoodLine
    <3>4. PICK x \in ph(front(p))[k] : x[1] = i
      BY <3>3
    <3>5. event(p, x) \in B[k] BY <2>6, <3>4
    <3>6. event(p, x).at = q BY <2>7, <3>2, <3>4
    <3> QED BY <3>5, <3>6 DEF CodedAt
  <2>15. ASSUME NEW j \in 1 .. N, NEW k \in 1 .. N, NEW e \in B[j], NEW g \in B[k], e.at = g.at
         PROVE  j = k /\ e = g
    <3>1. PICK p \in bases : \E x \in ph(front(p))[j] : e = event(p, x)
      BY <2>6
    <3>2. PICK x \in ph(front(p))[j] : e = event(p, x)
      BY <3>1
    <3>3. PICK r \in bases : \E y \in ph(front(r))[k] : g = event(r, y)
      BY <2>6
    <3>4. PICK y \in ph(front(r))[k] : g = event(r, y)
      BY <3>3
    <3>5. x[1] \in OddsOf(n) /\ y[1] \in OddsOf(n) BY <2>12, Zenon DEF GoodLine
    <3>6. point(p, x[1]) = point(r, y[1]) BY <2>7, <2>15, <3>2, <3>4
    <3>7. p = r /\ x[1] = y[1] BY <2>10, <3>5, <3>6
    <3>8. j = k /\ x = y
      <4>1. y \in ph(front(p))[k] BY <3>7
      <4>2. Len(ph(front(p))) = N /\ GoodLine(ph(front(p)), L(front(p)))
        BY <2>12
      <4>3. \A a, b \in 1 .. N : \A u \in ph(front(p))[a], v \in ph(front(p))[b] : u[1] = v[1] => a = b /\ u = v
        BY <4>2, Zenon DEF GoodLine
      <4> QED BY <3>7, <4>1, <4>3
    <3> QED BY <3>2, <3>4, <3>7, <3>8
  <2>16. Fills(B, K, T) BY <2>5, <2>13, <2>14, <2>15, Zenon DEF Fills
  <2> QED BY <2>16
<1> QED BY <1>3, <1>4, <1>5

-----------------------------------------------------------------------------
(* Passes between several directions.                                      *)

\* The classes of one direction are of the indices D, and what the kernels of all but the
\* last read from there lies on the line, or in the block behind if it may be read.
WellClassed(cl, kernels, D, len, start) ==
  /\ \A i : i \in All(cl) <=> i \in D
  /\ \A k \in {"interior", "first", "near"} : \A i \in cl[k] : \A o \in kernels[k] :
       /\ o \in Int /\ -3 <= o /\ o <= 3 /\ o # 0
       /\ i + o < len /\ (i + o >= 0 \/ (start = 1 /\ i + o >= -2))

\* Kernels that read even points only.
IsOdd(kernels) == \A k \in {"interior", "first", "near"} : \A o \in kernels[k] : o % 2 = 1

\* The classes of a direction by their names.
LEMMA ClassesAre ==
  ASSUME NEW a, NEW b, NEW e, NEW l, NEW cl,
         cl = [interior |-> a, first |-> b, near |-> e, last |-> l]
  PROVE  /\ cl["interior"] = a /\ cl["first"] = b /\ cl["near"] = e /\ cl["last"] = l
         /\ \A i : i \in All(cl) <=> i \in a \/ i \in b \/ i \in e \/ i \in l
<1>1. cl["interior"] = a /\ cl["first"] = b /\ cl["near"] = e /\ cl["last"] = l
  OBVIOUS
<1>2. ASSUME NEW i
      PROVE  i \in All(cl) <=> \E k \in Classes : i \in cl[k]
  BY Zenon DEF All
<1>3. \A k : k \in Classes <=> k = "interior" \/ k = "first" \/ k = "near" \/ k = "last"
  BY DEF Classes
<1> QED BY <1>1, <1>2, <1>3

\* The offsets of the kernels, class by class.
LEMMA KernelsAre ==
  /\ linearKernels["interior"] = {-1, 1} /\ linearKernels["first"] = {} /\ linearKernels["near"] = {}
  /\ cubicKernels["interior"] = {-3, -1, 1, 3} /\ cubicKernels["first"] = {-1, 1, 3}
  /\ cubicKernels["near"] = {-3, -1, 1}
  /\ adjKernels["interior"] = {-3, -2, -1, 1, 2, 3} /\ adjKernels["first"] = {-1, 1, 2}
  /\ adjKernels["near"] = {-2, -1, 1}
  /\ IsOdd(linearKernels) /\ IsOdd(cubicKernels)
<1>1. /\ linearKernels["interior"] = {-1, 1} /\ linearKernels["first"] = {} /\ linearKernels["near"] = {}
  BY DEF linearKernels, interp_linear
<1>2. /\ cubicKernels["interior"] = {-3, -1, 1, 3} /\ cubicKernels["first"] = {-1, 1, 3}
      /\ cubicKernels["near"] = {-3, -1, 1}
  BY DEF cubicKernels, interp_cubic, interp_quad_1, interp_quad_2
<1>3. /\ adjKernels["interior"] = {-3, -2, -1, 1, 2, 3} /\ adjKernels["first"] = {-1, 1, 2}
      /\ adjKernels["near"] = {-2, -1, 1}
  BY DEF adjKernels, interp_cubic_adj, interp_quad_1_adj, interp_quad_2_adj
<1>4. \A o \in {-3, -1, 1, 3} : o % 2 = 1 OBVIOUS
<1>5. IsOdd(linearKernels) /\ IsOdd(cubicKernels) BY <1>1, <1>2, <1>4 DEF IsOdd
<1> QED BY <1>1, <1>2, <1>3, <1>5

\* A class well described, by its kernel.
Within(cl, kernels, k, len, start) ==
  \A i \in cl[k] : \A o \in kernels[k] :
    /\ o \in Int /\ -3 <= o /\ o <= 3 /\ o # 0
    /\ i + o < len /\ (i + o >= 0 \/ (start = 1 /\ i + o >= -2))

\* The classes of the linear kernel are those of the odd points,
LEMMA EveryIs ==
  ASSUME NEW len \in Nat, len >= 2, NEW start
  PROVE  WellClassed(Every(len), linearKernels, OddsOf(len), len, start)
<1> PICK a : a = Loop(1, 1, 2, len)
  OBVIOUS
<1> PICK l : l = Only(len - 1, len % 2 = 0)
  OBVIOUS
<1> PICK cl : cl = [interior |-> a, first |-> {}, near |-> {}, last |-> l]
  OBVIOUS
<1>1. cl = Every(len) BY DEF Every
<1>2. /\ cl["interior"] = a /\ cl["first"] = {} /\ cl["near"] = {}
      /\ \A i : i \in All(cl) <=> i \in a \/ i \in l
  BY ClassesAre
<1>3. \A i : i \in a <=> i \in Nat /\ i >= 1 /\ i + 1 < len /\ (i - 1) % 2 = 0
  BY LoopIs
<1>4. \A i : i \in l <=> i = len - 1 /\ len % 2 = 0 BY DEF Only
<1>5. \A i : i \in All(cl) <=> i \in OddsOf(len)
  <2>1. \A i : i \in OddsOf(len) <=> i \in Nat /\ i >= 1 /\ i < len /\ i % 2 = 1
    BY DEF OddsOf
  <2>2. \A i \in Nat : (i - 1) % 2 = 0 <=> i % 2 = 1 OBVIOUS
  <2>3. \A i \in Nat : i % 2 = 1 /\ i < len /\ ~(i + 1 < len) => i = len - 1 /\ len % 2 = 0
    OBVIOUS
  <2>4. len % 2 = 0 => (len - 1) % 2 = 1 /\ len - 1 \in Nat /\ len - 1 >= 1
    OBVIOUS
  <2> SUFFICES ASSUME NEW i PROVE i \in All(cl) <=> i \in OddsOf(len)
    OBVIOUS
  <2>5. i \in All(cl) <=> i \in a \/ i \in l BY <1>2
  <2> HIDE <1>1
  <2>6. ASSUME i \in All(cl) PROVE i \in OddsOf(len)
    <3>1. CASE i \in a
      <4>1. i \in Nat /\ i >= 1 /\ i + 1 < len /\ i % 2 = 1 BY <1>3, <2>2, <3>1
      <4>2. i < len BY <4>1
      <4> QED BY <2>1, <4>1, <4>2
    <3>2. CASE i \in l
      <4>1. i = len - 1 /\ len % 2 = 0 BY <1>4, <3>2
      <4>2. i \in Nat /\ i >= 1 /\ i % 2 = 1 /\ i < len BY <2>4, <4>1
      <4> QED BY <2>1, <4>2
    <3> QED BY <2>5, <2>6, <3>1, <3>2
  <2>7. ASSUME i \in OddsOf(len) PROVE i \in All(cl)
    <3>1. i \in Nat /\ i >= 1 /\ i < len /\ i % 2 = 1 BY <2>1, <2>7
    <3>2. CASE i + 1 < len BY <1>3, <2>2, <2>5, <3>1, <3>2
    <3>3. CASE ~(i + 1 < len) BY <1>4, <2>3, <2>5, <3>1, <3>3
    <3> QED BY <3>2, <3>3
  <2> QED BY <2>6, <2>7
<1>6. \A i \in a : \A o \in {-1, 1} :
        /\ o \in Int /\ -3 <= o /\ o <= 3 /\ o # 0
        /\ i + o < len /\ (i + o >= 0 \/ (start = 1 /\ i + o >= -2))
  BY <1>3
<1> HIDE <1>1
<1>7. WellClassed(cl, linearKernels, OddsOf(len), len, start)
  BY <1>2, <1>5, <1>6, KernelsAre DEF WellClassed
<1> QED BY <1>1, <1>7

\* The kernels of the cubic passes by class.
LEMMA ReadWithin ==
  ASSUME NEW ker \in {cubicKernels, adjKernels}, NEW i \in Nat, NEW len \in Nat, NEW start \in {1, 3}
  PROVE  /\ i >= start /\ i + 3 < len => \A o \in ker["interior"] :
              /\ o \in Int /\ -3 <= o /\ o <= 3 /\ o # 0
              /\ i + o < len /\ (i + o >= 0 \/ (start = 1 /\ i + o >= -2))
         /\ i = 1 /\ len > 4 => \A o \in ker["first"] :
              /\ o \in Int /\ -3 <= o /\ o <= 3 /\ o # 0
              /\ i + o < len /\ (i + o >= 0 \/ (start = 1 /\ i + o >= -2))
         /\ i >= start /\ i + 1 < len => \A o \in ker["near"] :
              /\ o \in Int /\ -3 <= o /\ o <= 3 /\ o # 0
              /\ i + o < len /\ (i + o >= 0 \/ (start = 1 /\ i + o >= -2))
<1>1. /\ \A o \in ker["interior"] : o \in {-3, -2, -1, 1, 2, 3}
      /\ \A o \in ker["first"] : o \in {-1, 1, 2, 3}
      /\ \A o \in ker["near"] : o \in {-3, -2, -1, 1}
  BY KernelsAre
<1>2. /\ \A o \in {-3, -2, -1, 1, 2, 3} : o \in Int /\ -3 <= o /\ o <= 3 /\ o # 0
      /\ i >= start /\ i + 3 < len => \A o \in {-3, -2, -1, 1, 2, 3} :
           i + o < len /\ (i + o >= 0 \/ (start = 1 /\ i + o >= -2))
      /\ i = 1 /\ len > 4 => \A o \in {-1, 1, 2, 3} : i + o < len /\ i + o >= 0
      /\ i >= start /\ i + 1 < len => \A o \in {-3, -2, -1, 1} :
           i + o < len /\ (i + o >= 0 \/ (start = 1 /\ i + o >= -2))
  OBVIOUS
<1> QED BY <1>1, <1>2

\* so are those of the cubic kernels,
LEMMA EverySecondIs ==
  ASSUME NEW len \in Nat, len >= 2, NEW start \in {1, 3}, start = 3 => len >= 5,
         NEW ker \in {cubicKernels, adjKernels}
  PROVE  WellClassed(EverySecond(start, len), ker, OddsOf(len), len, start)
<1> PICK e : e = LoopExit(start, 3, 2, len)
  OBVIOUS
<1>0. e \in Nat /\ e >= start /\ (e - start) % 2 = 0 /\ e + 3 >= len /\ (e = start \/ e - 2 + 3 < len)
  <2>1. start \in Nat /\ 3 \in Nat /\ 2 \in {2, 4} OBVIOUS
  <2> QED BY <2>1, LoopExitIs
<1> PICK a : a = Loop(start, 3, 2, len)
  OBVIOUS
<1> PICK b : b = Only(1, start = 3 /\ len > 4)
  OBVIOUS
<1> PICK x : x = Only(e, e < len - 1)
  OBVIOUS
<1> PICK l : l = Only(len - 1, len % 2 = 0)
  OBVIOUS
<1> PICK cl : cl = [interior |-> a, first |-> b, near |-> x, last |-> l]
  OBVIOUS
<1>1. cl = EverySecond(start, len) BY DEF EverySecond
<1>2. /\ cl["interior"] = a /\ cl["first"] = b /\ cl["near"] = x
      /\ \A i : i \in All(cl) <=> i \in a \/ i \in b \/ i \in x \/ i \in l
  BY ClassesAre
<1>3. \A i : i \in a <=> i \in Nat /\ i >= start /\ i + 3 < len /\ (i - start) % 2 = 0
  BY LoopIs
<1>4. /\ \A i : i \in b <=> i = 1 /\ start = 3 /\ len > 4
      /\ \A i : i \in x <=> i = e /\ e < len - 1
      /\ \A i : i \in l <=> i = len - 1 /\ len % 2 = 0
  BY DEF Only
<1>5. \A i : i \in All(cl) <=> i \in OddsOf(len)
  <2>1. CASE start = 1 BY <1>0, <1>2, <1>3, <1>4, <2>1 DEF OddsOf
  <2>2. CASE start = 3 BY <1>0, <1>2, <1>3, <1>4, <2>2 DEF OddsOf
  <2> QED BY <2>1, <2>2
<1>6. /\ \A i \in a : i \in Nat /\ i >= start /\ i + 3 < len
      /\ \A i \in b : i \in Nat /\ i = 1 /\ len > 4
      /\ \A i \in x : i \in Nat /\ i >= start /\ i + 1 < len
  BY <1>0, <1>3, <1>4
<1>7. /\ Within(cl, ker, "interior", len, start)
      /\ Within(cl, ker, "first", len, start)
      /\ Within(cl, ker, "near", len, start)
  <2> HIDE <1>0
  <2> QED BY <1>2, <1>6, ReadWithin DEF Within
<1> HIDE <1>1
<1>8. WellClassed(cl, ker, OddsOf(len), len, start)
  BY <1>5, <1>7 DEF WellClassed, Within
<1> QED BY <1>1, <1>8

\* The two halves of the last direction.
Fourth(len, m) == {i \in OddsOf(len) : i % 4 = m}

\* and those of the halves of the last direction.
LEMMA EveryFourthIs ==
  ASSUME NEW len \in Nat, len >= 2, NEW start \in {1, 3}, start = 3 => len >= 5,
         NEW ker \in {cubicKernels, adjKernels}, NEW from \in {1, 3, 5},
         from \in {IF start = 1 THEN 1 ELSE 5, 3}
  PROVE  WellClassed(EveryFourth(from, len), ker, Fourth(len, IF from = 3 THEN 3 ELSE 1), len, start)
<1> PICK e : e = LoopExit(from, 3, 4, len)
  OBVIOUS
<1>0. e \in Nat /\ e >= from /\ (e - from) % 4 = 0 /\ e + 3 >= len /\ (e = from \/ e - 4 + 3 < len)
  <2>1. from \in Nat /\ 3 \in Nat /\ 4 \in {2, 4} OBVIOUS
  <2> QED BY <2>1, LoopExitIs
<1> PICK a : a = Loop(from, 3, 4, len)
  OBVIOUS
<1> PICK b : b = Only(1, from = 5 /\ len > 4)
  OBVIOUS
<1> PICK x : x = Only(e, e < len - 1)
  OBVIOUS
<1> PICK l : l = Only(e, e = len - 1)
  OBVIOUS
<1> PICK cl : cl = [interior |-> a, first |-> b, near |-> x, last |-> l]
  OBVIOUS
<1>1. cl = EveryFourth(from, len) BY DEF EveryFourth
<1>2. /\ cl["interior"] = a /\ cl["first"] = b /\ cl["near"] = x
      /\ \A i : i \in All(cl) <=> i \in a \/ i \in b \/ i \in x \/ i \in l
  BY ClassesAre
<1>3. \A i : i \in a <=> i \in Nat /\ i >= from /\ i + 3 < len /\ (i - from) % 4 = 0
  BY LoopIs
<1>4. /\ \A i : i \in b <=> i = 1 /\ from = 5 /\ len > 4
      /\ \A i : i \in x <=> i = e /\ e < len - 1
      /\ \A i : i \in l <=> i = e /\ e = len - 1
  BY DEF Only
<1>5. \A i : i \in All(cl) <=> i \in Fourth(len, IF from = 3 THEN 3 ELSE 1)
  <2>1. CASE from = 1 BY <1>0, <1>2, <1>3, <1>4, <2>1 DEF OddsOf, Fourth
  <2>2. CASE from = 3 BY <1>0, <1>2, <1>3, <1>4, <2>2 DEF OddsOf, Fourth
  <2>3. CASE from = 5
    <3>1. len >= 5 BY <2>3
    <3> QED BY <1>0, <1>2, <1>3, <1>4, <2>3, <3>1 DEF OddsOf, Fourth
  <2> QED BY <2>1, <2>2, <2>3
<1>6. /\ \A i \in a : i \in Nat /\ i >= start /\ i + 3 < len
      /\ \A i \in b : i \in Nat /\ i = 1 /\ len > 4
      /\ \A i \in x : i \in Nat /\ i >= start /\ i + 1 < len
  <2>1. from >= start OBVIOUS
  <2> QED BY <1>0, <1>3, <1>4, <2>1
<1>7. /\ Within(cl, ker, "interior", len, start)
      /\ Within(cl, ker, "first", len, start)
      /\ Within(cl, ker, "near", len, start)
  <2> HIDE <1>0
  <2> QED BY <1>2, <1>6, ReadWithin DEF Within
<1> HIDE <1>1
<1>8. WellClassed(cl, ker, Fourth(len, IF from = 3 THEN 3 ELSE 1), len, start)
  BY <1>5, <1>7 DEF WellClassed, Within
<1> QED BY <1>1, <1>8

\* A block of a pass between two or three directions, and the points it codes.
IsCenter(B) ==
  /\ \/ \E a, b \in Nat : a < b /\ DOMAIN B.len = {a, b}
     \/ \E a, b, e \in Nat : a < b /\ b < e /\ DOMAIN B.len = {a, b, e}
  /\ \A d \in DOMAIN B.len : B.len[d] \in Nat /\ B.len[d] >= 2 /\ B.start[d] \in {1, 3}

Corners(B) == {x \in [DOMAIN B.len -> Nat] : \A d \in DOMAIN B.len : x[d] \in OddsOf(B.len[d])}

\* What a prediction of x may read.
CenterRead(B, x, o) ==
  /\ o \in [DOMAIN B.len -> Int]
  /\ \A d \in DOMAIN B.len :
       x[d] + o[d] < B.len[d] /\ (x[d] + o[d] >= 0 \/ (B.start[d] = 1 /\ x[d] + o[d] >= -2))

EvenRead(B, x, o) == \E d \in DOMAIN B.len : (x[d] + o[d]) % 2 = 0

NextRead(B, x, o) ==
  \E d \in DOMAIN B.len : \E v \in {-2, 2} : o = [e \in DOMAIN B.len |-> IF e = d THEN v ELSE 0]

\* The phases code the corners, each once; they read points that are even somewhere, or
\* of the block behind, or of an earlier phase.
GoodCenter(ph, B) ==
  /\ IsSeq(ph)
  /\ \A k \in 1 .. Len(ph) : \A x \in ph[k] : x = <<x[1], x[2]>> /\ x[1] \in Corners(B)
  /\ \A y \in Corners(B) : \E k \in 1 .. Len(ph) : \E x \in ph[k] : x[1] = y
  /\ \A j, k \in 1 .. Len(ph) : \A x \in ph[j], y \in ph[k] : x[1] = y[1] => j = k /\ x = y
  /\ \A k \in 1 .. Len(ph) : \A x \in ph[k] : \A o \in x[2] :
       /\ CenterRead(B, x[1], o)
       /\ \/ EvenRead(B, x[1], o)
          \/ \E d \in DOMAIN B.len : x[1][d] + o[d] < 0
          \/ \E j \in 1 .. k - 1 : \E y \in ph[j] : \A d \in DOMAIN B.len : y[1][d] = x[1][d] + o[d]

\* The kernel of a point: the Lorenzo predictor, or along one direction.
LEMMA KernelIs ==
  ASSUME NEW dirs, NEW class, class \in [dirs -> Classes], NEW kernels, NEW o \in Kernel(class, kernels)
  PROVE  \/ o \in [dirs -> {-1, 0}] /\ \E d \in dirs : o[d] = -1
         \/ \E d \in dirs : class[d] \in {"interior", "first", "near"}
              /\ \E v \in kernels[class[d]] : o = [e \in dirs |-> IF e = d THEN v ELSE 0]
<1> DEFINE best == {d \in dirs : \A e \in dirs : Rank[class[d]] >= Rank[class[e]]}
           Z(d) == Along(dirs, d, kernels[class[d]])
<1>0. DOMAIN class = dirs OBVIOUS
<1>1. Kernel(class, kernels) = IF \A d \in dirs : class[d] = "last" THEN lorenzo_nd(dirs)
                               ELSE UNION {Z(d) : d \in best}
  BY <1>0, Zenon DEF Kernel
<1>2. CASE \A d \in dirs : class[d] = "last"
  <2>1. o \in [dirs -> {-1, 0}] \ {[d \in dirs |-> 0]}
    BY <1>1, <1>2 DEF lorenzo_nd
  <2>2. \E d \in dirs : o[d] # 0
    <3> SUFFICES ASSUME \A d \in dirs : o[d] = 0 PROVE FALSE
      OBVIOUS
    <3>1. o = [d \in dirs |-> o[d]] BY <2>1
    <3>2. o = [d \in dirs |-> 0] BY <3>1
    <3> QED BY <2>1, <3>2
  <2>3. \E d \in dirs : o[d] = -1 BY <2>1, <2>2
  <2> QED BY <2>1, <2>3
<1>3. CASE ~\A d \in dirs : class[d] = "last"
  <2> HIDE DEF Z, best
  <2>1. PICK d \in best : o \in Z(d)
    BY <1>1, <1>3
  <2>2. PICK e \in dirs : class[e] # "last"
    BY <1>3
  <2>3. d \in dirs /\ Rank[class[d]] >= Rank[class[e]] BY <2>1, <2>2 DEF best
  <2>4. /\ Rank["interior"] = 2 /\ Rank["first"] = 1 /\ Rank["near"] = 1 /\ Rank["last"] = 0
    BY DEF Rank
  <2>5. class[d] \in Classes /\ class[e] \in Classes BY <2>2, <2>3
  <2>6. Rank[class[e]] >= 1 BY <2>2, <2>4, <2>5 DEF Classes
  <2>7. class[d] # "last"
    <3> SUFFICES ASSUME class[d] = "last" PROVE FALSE
      OBVIOUS
    <3>1. Rank[class[d]] = 0 BY <2>4
    <3>2. Rank[class[e]] \in Int BY <2>4, <2>5 DEF Classes
    <3> QED BY <2>3, <2>6, <3>1, <3>2
  <2>8. class[d] \in {"interior", "first", "near"} BY <2>5, <2>7 DEF Classes
  <2>9. \E v \in kernels[class[d]] : o = [e1 \in dirs |-> IF e1 = d THEN v ELSE 0]
    BY <2>1, Zenon DEF Z, Along
  <2> QED BY <2>3, <2>8, <2>9
<1> QED BY <1>2, <1>3

\* The kernel of a corner for its classes.
ClassOf(x, cl) == CHOOSE k \in Classes : x \in cl[k]

\* What a corner reads by the kernel of its class lies in the box, on even points or on points of the same pass.
LEMMA StencilReads ==
  ASSUME NEW B, IsCenter(B), NEW x \in Corners(B), NEW cl, NEW kernels, NEW D,
         \A d \in DOMAIN B.len : x[d] \in D[d] /\ WellClassed(cl[d], kernels, D[d], B.len[d], B.start[d]),
         NEW o \in Kernel([d \in DOMAIN B.len |-> ClassOf(x[d], cl[d])], kernels)
  PROVE  /\ CenterRead(B, x, o)
         /\ EvenRead(B, x, o) \/ (~IsOdd(kernels) /\ NextRead(B, x, o))
<1> PICK dirs : dirs = DOMAIN B.len
  OBVIOUS
<1> DEFINE class == [d \in dirs |-> ClassOf(x[d], cl[d])]
<1>1. \A d \in dirs : class[d] \in Classes /\ x[d] \in cl[d][class[d]]
  <2> SUFFICES ASSUME NEW d \in dirs PROVE ClassOf(x[d], cl[d]) \in Classes /\ x[d] \in cl[d][ClassOf(x[d], cl[d])]
    OBVIOUS
  <2>1. x[d] \in All(cl[d]) BY DEF WellClassed
  <2>2. \E k \in Classes : x[d] \in cl[d][k] BY <2>1, Zenon DEF All
  <2> QED BY <2>2, Zenon DEF ClassOf
<1>2. class \in [dirs -> Classes]
  <2> HIDE DEF class
  <2>1. class = [d \in dirs |-> class[d]] BY DEF class
  <2> QED BY <1>1, <2>1
<1>3. o \in Kernel(class, kernels) OBVIOUS
<1> HIDE DEF class
<1>4. \A d \in dirs : B.len[d] \in Nat /\ B.len[d] >= 2 /\ B.start[d] \in {1, 3}
  BY DEF IsCenter
<1>5. \A d \in dirs : x[d] \in Nat /\ x[d] >= 1 /\ x[d] <= B.len[d] - 1 /\ x[d] % 2 = 1
  BY <1>4 DEF Corners, OddsOf
<1>6. CASE o \in [dirs -> {-1, 0}] /\ \E d \in dirs : o[d] = -1
  <2>1. PICK d \in dirs : o[d] = -1
    BY <1>6
  <2>2. (x[d] + o[d]) % 2 = 0
    <3>1. \A i \in Nat : i % 2 = 1 => (i + (-1)) % 2 = 0 OBVIOUS
    <3> QED BY <1>5, <2>1, <3>1
  <2>3. CenterRead(B, x, o)
    <3>1. o \in [dirs -> Int] BY <1>6
    <3>2. ASSUME NEW e \in dirs PROVE x[e] + o[e] < B.len[e] /\ x[e] + o[e] >= 0
      <4>1. o[e] = -1 \/ o[e] = 0 BY <1>6
      <4> QED BY <1>4, <1>5, <4>1
    <3> QED BY <3>1, <3>2 DEF CenterRead
  <2> QED BY <2>2, <2>3 DEF EvenRead
<1>7. CASE \E d \in dirs : class[d] \in {"interior", "first", "near"}
              /\ \E v \in kernels[class[d]] : o = [e \in dirs |-> IF e = d THEN v ELSE 0]
  <2>1. PICK d \in dirs : class[d] \in {"interior", "first", "near"}
              /\ \E v \in kernels[class[d]] : o = [e \in dirs |-> IF e = d THEN v ELSE 0]
    BY <1>7
  <2>2. PICK v \in kernels[class[d]] : o = [e \in dirs |-> IF e = d THEN v ELSE 0]
    BY <2>1
  <2>3. /\ v \in Int /\ -3 <= v /\ v <= 3 /\ v # 0
        /\ x[d] + v < B.len[d] /\ (x[d] + v >= 0 \/ (B.start[d] = 1 /\ x[d] + v >= -2))
    <3>1. WellClassed(cl[d], kernels, D[d], B.len[d], B.start[d]) /\ x[d] \in cl[d][class[d]]
      BY <1>1
    <3> QED BY <2>1, <2>2, <3>1 DEF WellClassed
  <2>4. o[d] = v /\ \A e \in dirs : e # d => o[e] = 0 BY <2>2
  <2>5. CenterRead(B, x, o)
    <3>1. o \in [dirs -> Int] BY <2>2, <2>3
    <3>2. ASSUME NEW e \in dirs
          PROVE x[e] + o[e] < B.len[e] /\ (x[e] + o[e] >= 0 \/ (B.start[e] = 1 /\ x[e] + o[e] >= -2))
      <4>1. CASE e = d BY <2>3, <2>4, <4>1
      <4>2. CASE e # d
        <5>1. x[e] + o[e] = x[e] BY <1>5, <2>4, <4>2
        <5> QED BY <1>4, <1>5, <5>1
      <4> QED BY <4>1, <4>2
    <3> QED BY <3>1, <3>2 DEF CenterRead
  <2>6. CASE v % 2 = 1
    <3>1. \A i \in Nat, j \in Int : i % 2 = 1 /\ j % 2 = 1 => (i + j) % 2 = 0
      OBVIOUS
    <3>2. (x[d] + o[d]) % 2 = 0 BY <1>5, <2>3, <2>4, <2>6, <3>1
    <3> QED BY <2>5, <3>2 DEF EvenRead
  <2>7. CASE v % 2 # 1
    <3>1. v \in {-2, 2} BY <2>3, <2>7
    <3>2. ~IsOdd(kernels) BY <2>1, <2>2, <2>7 DEF IsOdd
    <3> QED BY <2>2, <2>5, <3>1, <3>2 DEF NextRead
  <2> QED BY <2>6, <2>7
<1> QED BY <1>2, <1>3, <1>6, <1>7, KernelIs

\* The indices that Pass looks at.
OddTuples(dirs, len) == [dirs -> {i \in 1 .. Max({len[d] : d \in dirs}) : i % 2 = 1}]

CenterStencil(x, dirs, cl, kernels) == <<x, Kernel([d \in dirs |-> ClassOf(x[d], cl[d])], kernels)>>

\* A set of stencils for the corners S.
GoodPass(P, B, S, kernels) ==
  /\ \A z \in P : /\ z = <<z[1], z[2]>> /\ z[1] \in S
                  /\ \A o \in z[2] : /\ CenterRead(B, z[1], o)
                                     /\ EvenRead(B, z[1], o) \/ (~IsOdd(kernels) /\ NextRead(B, z[1], o))
  /\ \A y \in S : \E z \in P : z[1] = y
  /\ \A z, w \in P : z[1] = w[1] => z = w

\* The corners are tuples of odd points.
LEMMA CornersOdd ==
  ASSUME NEW B, IsCenter(B)
  PROVE  Corners(B) \subseteq OddTuples(DOMAIN B.len, B.len)
<1> PICK dirs : dirs = DOMAIN B.len
  OBVIOUS
<1>1. \A d \in dirs : B.len[d] \in Nat BY DEF IsCenter
<1> DEFINE S == {B.len[d] : d \in dirs}
<1>2. S \subseteq Int BY <1>1
<1>3. \E m \in S : \A y \in S : y <= m
  <2>1. CASE \E a, b \in Nat : a < b /\ dirs = {a, b}
    <3>1. PICK a, b : dirs = {a, b}
      BY <2>1
    <3>2. B.len[a] \in Nat /\ B.len[b] \in Nat BY <1>1, <3>1
    <3>3. S = {B.len[a], B.len[b]} BY <3>1
    <3> HIDE DEF S
    <3>4. B.len[a] <= B.len[b] \/ B.len[b] <= B.len[a] BY <3>2
    <3> QED BY <3>2, <3>3, <3>4
  <2>2. CASE \E a, b, e \in Nat : a < b /\ b < e /\ dirs = {a, b, e}
    <3>1. PICK a, b, e : dirs = {a, b, e}
      BY <2>2
    <3>2. B.len[a] \in Nat /\ B.len[b] \in Nat /\ B.len[e] \in Nat BY <1>1, <3>1
    <3>3. S = {B.len[a], B.len[b], B.len[e]} BY <3>1
    <3> HIDE DEF S
    <3>4. PICK x \in Nat : x = B.len[a]
      BY <3>2
    <3>5. PICK y \in Nat : y = B.len[b]
      BY <3>2
    <3>6. PICK z \in Nat : z = B.len[e]
      BY <3>2
    <3>7. S = {x, y, z} BY <3>3, <3>4, <3>5, <3>6
    <3>8. \/ x >= y /\ x >= z
          \/ y >= x /\ y >= z
          \/ z >= x /\ z >= y
      OBVIOUS
    <3> QED BY <3>7, <3>8
  <2> QED BY <2>1, <2>2 DEF IsCenter
<1>4. PICK m \in S : \A y \in S : y <= m
  BY <1>3
<1>5. Max(S) = m
  <2> HIDE DEF S
  <2> QED BY <1>2, <1>4, MaxIs
<1>6. \A d \in dirs : B.len[d] <= m BY <1>4
<1>7. m \in Int BY <1>2
<1> SUFFICES ASSUME NEW x \in Corners(B) PROVE x \in OddTuples(dirs, B.len)
  OBVIOUS
<1>8. x \in [dirs -> Nat] /\ \A d \in dirs : x[d] \in OddsOf(B.len[d])
  BY DEF Corners
<1> DEFINE V == {i \in 1 .. Max(S) : i % 2 = 1}
<1>9. \A d \in dirs : x[d] \in V
  <2> SUFFICES ASSUME NEW d \in dirs PROVE x[d] \in V
    OBVIOUS
  <2>1. x[d] \in 1 .. B.len[d] - 1 /\ x[d] % 2 = 1 BY <1>8 DEF OddsOf
  <2> HIDE DEF S
  <2>2. x[d] \in 1 .. Max(S) BY <1>1, <1>5, <1>6, <1>7, <2>1
  <2> QED BY <2>1, <2>2
<1>10. x \in [dirs -> V]
  <2> HIDE DEF V
  <2> QED BY <1>8, <1>9
<1> QED BY <1>10, Zenon DEF OddTuples

\* One pass from the tables of its classes.
LEMMA PassGood ==
  ASSUME NEW B, IsCenter(B), NEW kernels, NEW P, NEW cl, NEW D, NEW S,
         NEW odd, odd = OddTuples(DOMAIN B.len, B.len),
         \A z : z \in P <=> \E x \in odd : /\ \A d \in DOMAIN B.len : x[d] \in All(cl[x][d])
                                          /\ z = CenterStencil(x, DOMAIN B.len, cl[x], kernels),
         \A x \in odd : \A d \in DOMAIN B.len :
           WellClassed(cl[x][d], kernels, D[x][d], B.len[d], B.start[d]) /\ D[x][d] \subseteq OddsOf(B.len[d]),
         \A x : x \in S <=> x \in odd /\ \A d \in DOMAIN B.len : x[d] \in D[x][d]
  PROVE  GoodPass(P, B, S, kernels)
<1> PICK dirs : dirs = DOMAIN B.len
  OBVIOUS
<1>1. \A x \in odd : \A d \in dirs : x[d] \in All(cl[x][d]) <=> x[d] \in D[x][d]
  BY DEF WellClassed
<1>2. \A z : z \in P <=> \E x \in S : z = CenterStencil(x, dirs, cl[x], kernels)
  BY <1>1
<1>3. \A x : CenterStencil(x, dirs, cl[x], kernels)[1] = x
             /\ CenterStencil(x, dirs, cl[x], kernels)[2] = Kernel([d \in dirs |-> ClassOf(x[d], cl[x][d])], kernels)
             /\ CenterStencil(x, dirs, cl[x], kernels)
                  = <<CenterStencil(x, dirs, cl[x], kernels)[1], CenterStencil(x, dirs, cl[x], kernels)[2]>>
  BY DEF CenterStencil
<1>4. S \subseteq Corners(B)
  <2> SUFFICES ASSUME NEW x \in S PROVE x \in Corners(B)
    OBVIOUS
  <2>1. x \in odd /\ \A d \in dirs : x[d] \in OddsOf(B.len[d]) OBVIOUS
  <2>2. \A d \in dirs : x[d] \in Nat BY <2>1 DEF OddsOf
  <2>3. \E V : x \in [dirs -> V] BY <2>1, Zenon DEF OddTuples
  <2>4. x \in [dirs -> Nat] BY <2>2, <2>3
  <2> QED BY <2>1, <2>4 DEF Corners
<1>5. ASSUME NEW z \in P
      PROVE  /\ z = <<z[1], z[2]>> /\ z[1] \in S
             /\ \A o \in z[2] : /\ CenterRead(B, z[1], o)
                                /\ EvenRead(B, z[1], o) \/ (~IsOdd(kernels) /\ NextRead(B, z[1], o))
  <2>1. PICK x \in S : z = CenterStencil(x, dirs, cl[x], kernels)
    BY <1>2
  <2>2. z = <<z[1], z[2]>> /\ z[1] = x /\ z[2] = Kernel([d \in dirs |-> ClassOf(x[d], cl[x][d])], kernels)
    BY <1>3, <2>1
  <2>3. ASSUME NEW o \in z[2]
        PROVE  CenterRead(B, x, o) /\ (EvenRead(B, x, o) \/ (~IsOdd(kernels) /\ NextRead(B, x, o)))
    <3> PICK t : t = cl[x]
      OBVIOUS
    <3> PICK E : E = D[x]
      OBVIOUS
    <3>1. \A d \in DOMAIN B.len : x[d] \in E[d] /\ WellClassed(t[d], kernels, E[d], B.len[d], B.start[d])
      OBVIOUS
    <3>2. o \in Kernel([d \in DOMAIN B.len |-> ClassOf(x[d], t[d])], kernels)
      BY <2>2
    <3>3. x \in Corners(B) BY <1>4
    <3> QED BY <3>1, <3>2, <3>3, StencilReads
  <2> QED BY <2>2, <2>3
<1>6. ASSUME NEW y \in S PROVE \E z \in P : z[1] = y BY <1>2, <1>3
<1>7. ASSUME NEW z \in P, NEW w \in P, z[1] = w[1] PROVE z = w
  <2>1. PICK x \in S : z = CenterStencil(x, dirs, cl[x], kernels)
    BY <1>2
  <2>2. PICK y \in S : w = CenterStencil(y, dirs, cl[y], kernels)
    BY <1>2
  <2>3. x = y BY <1>3, <1>7, <2>1, <2>2
  <2> QED BY <2>1, <2>2, <2>3
<1> QED BY <1>5, <1>6, <1>7, Zenon DEF GoodPass

\* A single pass of kernels that read even points.
LEMMA OnePassGood ==
  ASSUME NEW B, NEW P, NEW kernels, IsOdd(kernels), GoodPass(P, B, Corners(B), kernels), NEW ph, ph = <<P>>
  PROVE  GoodCenter(ph, B)
<1>1. IsSeq(ph) /\ Len(ph) = 1 /\ ph[1] = P BY ListsAre
<1>2. \A k : k \in 1 .. 1 <=> k = 1 OBVIOUS
<1>3. /\ \A z \in P : /\ z = <<z[1], z[2]>> /\ z[1] \in Corners(B)
                      /\ \A o \in z[2] : CenterRead(B, z[1], o) /\ EvenRead(B, z[1], o)
      /\ \A y \in Corners(B) : \E z \in P : z[1] = y
      /\ \A z, w \in P : z[1] = w[1] => z = w
  BY Zenon DEF GoodPass
<1>4. \A k \in 1 .. Len(ph) : ph[k] = P /\ k = 1 BY <1>1, <1>2
<1>5. \A k \in 1 .. Len(ph) : \A x \in ph[k] : x = <<x[1], x[2]>> /\ x[1] \in Corners(B)
  BY <1>3, <1>4, Zenon
<1>6. \A y \in Corners(B) : \E k \in 1 .. Len(ph) : \E x \in ph[k] : x[1] = y
  <2>1. 1 \in 1 .. Len(ph) BY <1>1
  <2> QED BY <1>1, <1>3, <2>1, Zenon
<1>7. \A j, k \in 1 .. Len(ph) : \A x \in ph[j], y \in ph[k] : x[1] = y[1] => j = k /\ x = y
  BY <1>3, <1>4
<1>8. \A k \in 1 .. Len(ph) : \A x \in ph[k] : \A o \in x[2] : CenterRead(B, x[1], o) /\ EvenRead(B, x[1], o)
  BY <1>3, <1>4, Zenon
<1> QED BY <1>1, <1>5, <1>6, <1>7, <1>8, Zenon DEF GoodCenter

\* The linear pass around the center is good,
LEMMA CenterLinearGood ==
  ASSUME NEW B, IsCenter(B)
  PROVE  GoodCenter(CenterLinear(B), B)
<1> DEFINE dirs == DOMAIN B.len
           odd == OddTuples(dirs, B.len)
           ever == [d \in dirs |-> Every(B.len[d])]
           P == {CenterStencil(x, dirs, ever, linearKernels) : x \in {y \in odd : \A d \in dirs : y[d] \in All(ever[d])}}
           cl == [x \in odd |-> ever]
           D == [x \in odd |-> [d \in dirs |-> OddsOf(B.len[d])]]
<1>1. CenterLinear(B) = <<P>>
  BY Zenon DEF CenterLinear, Pass, CenterStencil, OddTuples, ClassOf
<1>2. \A d \in dirs : ever[d] = Every(B.len[d]) /\ B.len[d] \in Nat /\ B.len[d] >= 2 /\ B.start[d] \in {1, 3}
  BY DEF IsCenter
<1>3. \A x \in odd : cl[x] = ever /\ \A d \in dirs : D[x][d] = OddsOf(B.len[d])
  <2> HIDE DEF ever, odd
  <2> QED OBVIOUS
<1> HIDE DEF ever, odd, cl, D
<1>4. \A z : z \in P <=> \E x \in odd : /\ \A d \in dirs : x[d] \in All(cl[x][d])
                                        /\ z = CenterStencil(x, dirs, cl[x], linearKernels)
  BY <1>3
<1>5. \A x \in odd : \A d \in dirs :
        WellClassed(cl[x][d], linearKernels, D[x][d], B.len[d], B.start[d]) /\ D[x][d] \subseteq OddsOf(B.len[d])
  BY <1>2, <1>3, EveryIs
<1>6. \A x : x \in Corners(B) <=> x \in odd /\ \A d \in dirs : x[d] \in D[x][d]
  <2>1. Corners(B) \subseteq odd BY CornersOdd DEF odd
  <2>2. ASSUME NEW x \in odd, \A d \in dirs : x[d] \in OddsOf(B.len[d]) PROVE x \in Corners(B)
    <3>1. \E V : x \in [dirs -> V] BY <2>2, Zenon DEF odd, OddTuples
    <3>2. \A d \in dirs : x[d] \in Nat BY <2>2 DEF OddsOf
    <3>3. x \in [dirs -> Nat] BY <3>1, <3>2
    <3> QED BY <2>2, <3>3 DEF Corners
  <2> QED BY <1>3, <2>1, <2>2 DEF Corners
<1> HIDE DEF P
<1>7. GoodPass(P, B, Corners(B), linearKernels)
  <2>1. odd = OddTuples(DOMAIN B.len, B.len) BY DEF odd
  <2> QED BY <1>4, <1>5, <1>6, <2>1, PassGood
<1>8. IsOdd(linearKernels) BY KernelsAre
<1> QED BY <1>1, <1>7, <1>8, OnePassGood

\* What the code guarantees of a block for the cubic kernels.
IsLong(B) == IsCenter(B) /\ \A d \in DOMAIN B.len : B.start[d] = 3 => B.len[d] >= 5

\* so is the cubic one.
LEMMA CenterCubicGood ==
  ASSUME NEW B, IsLong(B)
  PROVE  GoodCenter(CenterCubic(B), B)
<1> DEFINE dirs == DOMAIN B.len
           odd == OddTuples(dirs, B.len)
           ever == [d \in dirs |-> EverySecond(B.start[d], B.len[d])]
           P == {CenterStencil(x, dirs, ever, cubicKernels) : x \in {y \in odd : \A d \in dirs : y[d] \in All(ever[d])}}
           cl == [x \in odd |-> ever]
           D == [x \in odd |-> [d \in dirs |-> OddsOf(B.len[d])]]
<1>0. IsCenter(B) BY DEF IsLong
<1>1. CenterCubic(B) = <<P>>
  BY Zenon DEF CenterCubic, Pass, CenterStencil, OddTuples, ClassOf
<1>2. \A d \in dirs : /\ ever[d] = EverySecond(B.start[d], B.len[d]) /\ B.len[d] \in Nat /\ B.len[d] >= 2
                      /\ B.start[d] \in {1, 3} /\ (B.start[d] = 3 => B.len[d] >= 5)
  BY DEF IsCenter, IsLong
<1>3. \A x \in odd : cl[x] = ever /\ \A d \in dirs : D[x][d] = OddsOf(B.len[d])
  <2> HIDE DEF ever, odd
  <2> QED OBVIOUS
<1> HIDE DEF ever, odd, cl, D
<1>4. \A z : z \in P <=> \E x \in odd : /\ \A d \in dirs : x[d] \in All(cl[x][d])
                                        /\ z = CenterStencil(x, dirs, cl[x], cubicKernels)
  BY <1>3
<1>5. \A x \in odd : \A d \in dirs :
        WellClassed(cl[x][d], cubicKernels, D[x][d], B.len[d], B.start[d]) /\ D[x][d] \subseteq OddsOf(B.len[d])
  BY <1>2, <1>3, EverySecondIs
<1>6. \A x : x \in Corners(B) <=> x \in odd /\ \A d \in dirs : x[d] \in D[x][d]
  <2>1. Corners(B) \subseteq odd BY <1>0, CornersOdd DEF odd
  <2>2. ASSUME NEW x \in odd, \A d \in dirs : x[d] \in OddsOf(B.len[d]) PROVE x \in Corners(B)
    <3>1. \E V : x \in [dirs -> V] BY <2>2, Zenon DEF odd, OddTuples
    <3>2. \A d \in dirs : x[d] \in Nat BY <2>2 DEF OddsOf
    <3>3. x \in [dirs -> Nat] BY <3>1, <3>2
    <3> QED BY <2>2, <3>3 DEF Corners
  <2> QED BY <1>3, <2>1, <2>2 DEF Corners
<1> HIDE DEF P
<1>7. GoodPass(P, B, Corners(B), cubicKernels)
  <2>1. odd = OddTuples(DOMAIN B.len, B.len) BY DEF odd
  <2> QED BY <1>0, <1>4, <1>5, <1>6, <2>1, PassGood
<1>8. IsOdd(cubicKernels) BY KernelsAre
<1> QED BY <1>1, <1>7, <1>8, OnePassGood

\* The last direction, and the sum of the indices in the others.
Inner(B) == Max(DOMAIN B.len)

Outer(B, x) == SumOver(x, DOMAIN B.len \ {Inner(B)})

\* y is x but for v more in direction e.
Shifted(B, x, y, e, v) ==
  /\ e \in DOMAIN B.len /\ v \in Int
  /\ \A d \in DOMAIN B.len : x[d] \in Int /\ y[d] = x[d] + (IF d = e THEN v ELSE 0)

\* The last direction, and the parity of the sum of the others.
LEMMA OuterIs ==
  ASSUME NEW B, IsCenter(B)
  PROVE  /\ Inner(B) \in DOMAIN B.len
         /\ Cardinality(DOMAIN B.len) \in {2, 3}
         /\ \A x : (\A d \in DOMAIN B.len : x[d] \in Int /\ x[d] % 2 = 1) =>
              Outer(B, x) \in Int /\ Outer(B, x) % 2 = (Cardinality(DOMAIN B.len) - 1) % 2
         /\ \A x, y, e, v : Shifted(B, x, y, e, v) =>
              Outer(B, y) + y[Inner(B)] = Outer(B, x) + x[Inner(B)] + v
<1> PICK dirs : dirs = DOMAIN B.len
  OBVIOUS
<1>1. CASE \E a, b \in Nat : a < b /\ dirs = {a, b}
  <2>1. PICK a \in Nat, b \in Nat : a < b /\ dirs = {a, b}
    BY <1>1
  <2>2. Max(dirs) = b
    <3>1. dirs \subseteq Int /\ b \in dirs /\ \A y \in dirs : y <= b BY <2>1
    <3> QED BY <3>1, MaxIs
  <2>3. dirs \ {b} = {a} BY <2>1
  <2>4. Cardinality(dirs) = 2
    <3>1. a # b BY <2>1
    <3>2. Cardinality({a} \cup {b}) = Cardinality({a}) + 1 /\ Cardinality({a}) = 1 /\ IsFiniteSet({a})
      BY <3>1, FS_Singleton, FS_AddElement
    <3>3. {a} \cup {b} = {a, b} OBVIOUS
    <3> QED BY <2>1, <3>2, <3>3
  <2>5. Inner(B) = b /\ \A x : Outer(B, x) = SumOver(x, {a})
    BY <2>2, <2>3 DEF Inner, Outer
  <2>6. ASSUME NEW x, \A d \in dirs : x[d] \in Int /\ x[d] % 2 = 1
        PROVE  Outer(B, x) \in Int /\ Outer(B, x) % 2 = 1
    <3>1. x[a] \in Int /\ x[a] % 2 = 1 BY <2>1, <2>6
    <3>2. SumOver(x, {a}) = x[a] BY <3>1, SumOne
    <3> QED BY <2>5, <3>1, <3>2
  <2>7. ASSUME NEW x, NEW y, NEW e \in dirs, NEW v \in Int,
               \A d \in dirs : x[d] \in Int /\ y[d] = x[d] + (IF d = e THEN v ELSE 0)
        PROVE  Outer(B, y) + y[b] = Outer(B, x) + x[b] + v
    <3>1. x[a] \in Int /\ x[b] \in Int /\ y[a] = x[a] + (IF a = e THEN v ELSE 0) /\ y[b] = x[b] + (IF b = e THEN v ELSE 0)
      BY <2>1, <2>7
    <3>2. y[a] \in Int /\ y[b] \in Int BY <3>1
    <3>3. Outer(B, x) = x[a] /\ Outer(B, y) = y[a] BY <2>5, <3>1, <3>2, SumOne
    <3>4. CASE e = a BY <2>1, <3>1, <3>3, <3>4
    <3>5. CASE e = b BY <2>1, <3>1, <3>3, <3>5
    <3> QED BY <2>1, <3>4, <3>5
  <2>8. (2 - 1) % 2 = 1 OBVIOUS
  <2>9. Inner(B) \in dirs /\ Cardinality(dirs) \in {2, 3} BY <2>1, <2>4, <2>5
  <2>10. \A x : (\A d \in dirs : x[d] \in Int /\ x[d] % 2 = 1) =>
                Outer(B, x) \in Int /\ Outer(B, x) % 2 = (Cardinality(dirs) - 1) % 2
    BY <2>4, <2>6, <2>8
  <2>11. \A x, y, e, v : Shifted(B, x, y, e, v) =>
              Outer(B, y) + y[Inner(B)] = Outer(B, x) + x[Inner(B)] + v
    <3> SUFFICES ASSUME NEW x, NEW y, NEW e, NEW v, Shifted(B, x, y, e, v)
                 PROVE  Outer(B, y) + y[Inner(B)] = Outer(B, x) + x[Inner(B)] + v
      OBVIOUS
    <3>1. /\ e \in dirs /\ v \in Int
          /\ \A d \in dirs : x[d] \in Int /\ y[d] = x[d] + (IF d = e THEN v ELSE 0)
      BY DEF Shifted
    <3> QED BY <2>5, <2>7, <3>1
  <2> QED BY <2>9, <2>10, <2>11
<1>2. CASE \E a, b, g \in Nat : a < b /\ b < g /\ dirs = {a, b, g}
  <2>1. PICK a \in Nat, b \in Nat, g \in Nat : a < b /\ b < g /\ dirs = {a, b, g}
    BY <1>2
  <2>2. Max(dirs) = g
    <3>1. dirs \subseteq Int /\ g \in dirs /\ \A y \in dirs : y <= g BY <2>1
    <3> QED BY <3>1, MaxIs
  <2>3. dirs \ {g} = {a, b} /\ a # b BY <2>1
  <2>4. Cardinality(dirs) = 3
    <3>1. a # b /\ g \notin {a, b} BY <2>1
    <3>2. Cardinality({a} \cup {b}) = Cardinality({a}) + 1 /\ Cardinality({a}) = 1 /\ IsFiniteSet({a})
          /\ IsFiniteSet({a} \cup {b})
      BY <3>1, FS_Singleton, FS_AddElement
    <3>3. {a} \cup {b} = {a, b} OBVIOUS
    <3>4. IsFiniteSet({a, b}) /\ Cardinality({a, b}) = 2 BY <3>2, <3>3
    <3>5. Cardinality({a, b} \cup {g}) = Cardinality({a, b}) + 1
      BY <3>1, <3>4, FS_AddElement
    <3>6. {a, b} \cup {g} = dirs BY <2>1
    <3> QED BY <3>4, <3>5, <3>6
  <2>5. Inner(B) = g /\ \A x : Outer(B, x) = SumOver(x, {a, b})
    BY <2>2, <2>3 DEF Inner, Outer
  <2>6. ASSUME NEW x, \A d \in dirs : x[d] \in Int /\ x[d] % 2 = 1
        PROVE  Outer(B, x) \in Int /\ Outer(B, x) % 2 = 0
    <3>1. x[a] \in Int /\ x[a] % 2 = 1 /\ x[b] \in Int /\ x[b] % 2 = 1
      BY <2>1, <2>6
    <3>2. Outer(B, x) = x[a] + x[b] BY <2>3, <2>5, <3>1, SumTwo
    <3>3. \A i, j \in Int : i % 2 = 1 /\ j % 2 = 1 => (i + j) % 2 = 0 /\ i + j \in Int
      OBVIOUS
    <3> QED BY <3>1, <3>2, <3>3
  <2>7. ASSUME NEW x, NEW y, NEW e \in dirs, NEW v \in Int,
               \A d \in dirs : x[d] \in Int /\ y[d] = x[d] + (IF d = e THEN v ELSE 0)
        PROVE  Outer(B, y) + y[g] = Outer(B, x) + x[g] + v
    <3>1. /\ x[a] \in Int /\ x[b] \in Int /\ x[g] \in Int
          /\ y[a] = x[a] + (IF a = e THEN v ELSE 0) /\ y[b] = x[b] + (IF b = e THEN v ELSE 0)
          /\ y[g] = x[g] + (IF g = e THEN v ELSE 0)
      BY <2>1, <2>7
    <3>2. y[a] \in Int /\ y[b] \in Int /\ y[g] \in Int BY <3>1
    <3>3. Outer(B, x) = x[a] + x[b] /\ Outer(B, y) = y[a] + y[b]
      <4>1. SumOver(x, {a, b}) = x[a] + x[b] BY <2>3, <3>1, SumTwo
      <4>2. SumOver(y, {a, b}) = y[a] + y[b] BY <2>3, <3>2, SumTwo
      <4> QED BY <2>5, <4>1, <4>2
    <3>4. CASE e = a BY <2>1, <3>1, <3>3, <3>4
    <3>5. CASE e = b BY <2>1, <3>1, <3>3, <3>5
    <3>6. CASE e = g BY <2>1, <3>1, <3>3, <3>6
    <3> QED BY <2>1, <3>4, <3>5, <3>6
  <2>8. (3 - 1) % 2 = 0 OBVIOUS
  <2>9. Inner(B) \in dirs /\ Cardinality(dirs) \in {2, 3} BY <2>1, <2>4, <2>5
  <2>10. \A x : (\A d \in dirs : x[d] \in Int /\ x[d] % 2 = 1) =>
                Outer(B, x) \in Int /\ Outer(B, x) % 2 = (Cardinality(dirs) - 1) % 2
    BY <2>4, <2>6, <2>8
  <2>11. \A x, y, e, v : Shifted(B, x, y, e, v) =>
              Outer(B, y) + y[Inner(B)] = Outer(B, x) + x[Inner(B)] + v
    <3> SUFFICES ASSUME NEW x, NEW y, NEW e, NEW v, Shifted(B, x, y, e, v)
                 PROVE  Outer(B, y) + y[Inner(B)] = Outer(B, x) + x[Inner(B)] + v
      OBVIOUS
    <3>1. /\ e \in dirs /\ v \in Int
          /\ \A d \in dirs : x[d] \in Int /\ y[d] = x[d] + (IF d = e THEN v ELSE 0)
      BY DEF Shifted
    <3> QED BY <2>5, <2>7, <3>1
  <2> QED BY <2>9, <2>10, <2>11
<1> QED BY <1>1, <1>2 DEF IsCenter

HalfOf(B, m) == {x \in Corners(B) : (Outer(B, x) + x[Inner(B)]) % 4 = m}

\* Each half of the cubic pass is good,
LEMMA HalfGood ==
  ASSUME NEW B, IsLong(B), NEW r \in {0, 1, 2, 3}, r % 2 = (Cardinality(DOMAIN B.len) - 1) % 2,
         NEW ker \in {cubicKernels, adjKernels}
  PROVE  GoodPass(Half(B, r, ker), B, HalfOf(B, (r + 1) % 4), ker)
<1> DEFINE dirs == DOMAIN B.len
           inner == Inner(B)
           odd == OddTuples(dirs, B.len)
           ever == [d \in dirs |-> EverySecond(B.start[d], B.len[d])]
           from1 == EveryFourth(IF B.start[inner] = 1 THEN 1 ELSE 5, B.len[inner])
           from3 == EveryFourth(3, B.len[inner])
           tab(x) == [d \in dirs |-> IF d # inner THEN ever[d]
                                     ELSE IF Outer(B, x) % 4 = r THEN from1 ELSE from3]
           P == {CenterStencil(x, dirs, tab(x), ker) :
                   x \in {y \in odd : \A d \in dirs :
                             y[d] \in All(IF d # inner THEN ever[d]
                                          ELSE IF Outer(B, y) % 4 = r THEN from1 ELSE from3)}}
           cl == [x \in odd |-> tab(x)]
           D == [x \in odd |-> [d \in dirs |->
                   IF d # inner THEN OddsOf(B.len[d])
                   ELSE Fourth(B.len[d], IF Outer(B, x) % 4 = r THEN 1 ELSE 3)]]
<1>0. IsCenter(B) /\ inner \in dirs BY OuterIs DEF IsLong
<1>1. Half(B, r, ker) = P
  <2> DEFINE ClassAt(x, d) == IF d # inner THEN ever[d]
                              ELSE IF Outer(B, x) % 4 = r THEN from1 ELSE from3
             Q == {<<x, Kernel([d \in dirs |-> CHOOSE k \in Classes : x[d] \in ClassAt(x, d)[k]], ker)>> :
                     x \in {y \in odd : \A d \in dirs : y[d] \in All(ClassAt(y, d))}}
  <2>1. Half(B, r, ker) = Q
    BY Zenon DEF Half, Pass, OddTuples, Inner, Outer, SumOver
  <2>2. \A x : CenterStencil(x, dirs, tab(x), ker)
               = <<x, Kernel([d \in dirs |-> CHOOSE k \in Classes : x[d] \in ClassAt(x, d)[k]], ker)>>
    <3> SUFFICES ASSUME NEW x
                 PROVE CenterStencil(x, dirs, tab(x), ker)
               = <<x, Kernel([d \in dirs |-> CHOOSE k \in Classes : x[d] \in ClassAt(x, d)[k]], ker)>>
      OBVIOUS
    <3> HIDE DEF ClassAt
    <3>1. tab(x) = [d \in dirs |-> ClassAt(x, d)] BY DEF ClassAt
    <3> HIDE DEF tab
    <3>2. [d \in dirs |-> ClassOf(x[d], tab(x)[d])] = [d \in dirs |-> ClassOf(x[d], ClassAt(x, d))]
      BY <3>1
    <3>3. CenterStencil(x, dirs, tab(x), ker) = <<x, Kernel([d \in dirs |-> ClassOf(x[d], ClassAt(x, d))], ker)>>
      BY <3>2, Zenon DEF CenterStencil
    <3> QED BY <3>3, Zenon DEF ClassOf
  <2> DEFINE Y(x) == CenterStencil(x, dirs, tab(x), ker)
             Z(x) == <<x, Kernel([d \in dirs |-> CHOOSE k \in Classes : x[d] \in ClassAt(x, d)[k]], ker)>>
             X == {y \in odd : \A d \in dirs : y[d] \in All(ClassAt(y, d))}
  <2>3. \A x : Y(x) = Z(x) BY <2>2, Zenon
  <2> HIDE DEF Y, Z, X
  <2>4. {Y(x) : x \in X} = {Z(x) : x \in X} BY <2>3
  <2>5. Q = {Z(x) : x \in X} /\ P = {Y(x) : x \in X} BY Zenon DEF Y, Z, X
  <2> QED BY <2>1, <2>4, <2>5, Zenon
<1>2. \A d \in dirs : /\ ever[d] = EverySecond(B.start[d], B.len[d]) /\ B.len[d] \in Nat /\ B.len[d] >= 2
                      /\ B.start[d] \in {1, 3} /\ (B.start[d] = 3 => B.len[d] >= 5)
  BY DEF IsCenter, IsLong
<1>3. ASSUME NEW x \in odd, NEW d \in dirs
      PROVE  /\ cl[x] = tab(x)
             /\ cl[x][d] = IF d # inner THEN ever[d] ELSE IF Outer(B, x) % 4 = r THEN from1 ELSE from3
             /\ D[x][d] = IF d # inner THEN OddsOf(B.len[d])
                          ELSE Fourth(B.len[d], IF Outer(B, x) % 4 = r THEN 1 ELSE 3)
  <2> HIDE DEF ever, odd, from1, from3, inner
  <2> QED OBVIOUS
<1>4. \A z : z \in P <=> \E x \in odd : /\ \A d \in dirs : x[d] \in All(cl[x][d])
                                        /\ z = CenterStencil(x, dirs, cl[x], ker)
  <2> DEFINE X == {y \in odd : \A d \in dirs :
                             y[d] \in All(IF d # inner THEN ever[d]
                                          ELSE IF Outer(B, y) % 4 = r THEN from1 ELSE from3)}
  <2>1. \A x \in odd : cl[x] = tab(x)
    <3> HIDE DEF tab, odd
    <3> QED OBVIOUS
  <2>2. \A x : x \in X <=> x \in odd /\ \A d \in dirs : x[d] \in All(cl[x][d])
    <3> HIDE DEF ever, odd, from1, from3, inner, cl, tab, D
    <3> QED BY <1>3, Zenon
  <2>3. \A z : z \in P <=> \E x \in X : z = CenterStencil(x, dirs, tab(x), ker)
    <3> HIDE DEF X, tab
    <3> QED BY Zenon DEF X
  <2> HIDE DEF X, tab, P, cl, odd, D, ever, from1, from3, inner
  <2>4. \A x \in X : CenterStencil(x, dirs, tab(x), ker) = CenterStencil(x, dirs, cl[x], ker)
    BY <2>1, <2>2
  <2>5. ASSUME NEW z \in P
        PROVE  \E x \in odd : (\A d \in dirs : x[d] \in All(cl[x][d])) /\ z = CenterStencil(x, dirs, cl[x], ker)
    <3>1. PICK x \in X : z = CenterStencil(x, dirs, tab(x), ker)
      BY <2>3
    <3>2. x \in odd /\ \A d \in dirs : x[d] \in All(cl[x][d]) BY <2>2
    <3>3. z = CenterStencil(x, dirs, cl[x], ker) BY <2>4, <3>1
    <3> QED BY <3>2, <3>3
  <2>6. ASSUME NEW x \in odd, \A d \in dirs : x[d] \in All(cl[x][d])
        PROVE  CenterStencil(x, dirs, cl[x], ker) \in P
    <3>1. x \in X BY <2>2, <2>6
    <3> QED BY <2>3, <2>4, <3>1
  <2> QED BY <2>5, <2>6, Zenon
<1> HIDE DEF ever, odd, cl, D, P, tab
<1>5. ASSUME NEW x \in odd, NEW d \in dirs
      PROVE  WellClassed(cl[x][d], ker, D[x][d], B.len[d], B.start[d]) /\ D[x][d] \subseteq OddsOf(B.len[d])
  <2>1. CASE d # inner BY <1>2, <1>3, <2>1, EverySecondIs
  <2>2. CASE d = inner /\ Outer(B, x) % 4 = r
    <3> PICK f : f = IF B.start[inner] = 1 THEN 1 ELSE 5
      OBVIOUS
    <3>1. f \in {1, 3, 5} /\ f \in {IF B.start[d] = 1 THEN 1 ELSE 5, 3} /\ f # 3
      BY <2>2
    <3>2. cl[x][d] = EveryFourth(f, B.len[d]) /\ D[x][d] = Fourth(B.len[d], 1)
      BY <1>3, <2>2 DEF from1
    <3>3. WellClassed(EveryFourth(f, B.len[d]), ker, Fourth(B.len[d], IF f = 3 THEN 3 ELSE 1), B.len[d], B.start[d])
      BY <1>2, <3>1, EveryFourthIs
    <3>4. (IF f = 3 THEN 3 ELSE 1) = 1 BY <3>1
    <3>5. Fourth(B.len[d], 1) \subseteq OddsOf(B.len[d]) BY DEF Fourth
    <3> QED BY <3>2, <3>3, <3>4, <3>5
  <2>3. CASE d = inner /\ Outer(B, x) % 4 # r
    <3> PICK f : f = 3
      OBVIOUS
    <3>1. f \in {1, 3, 5} /\ f \in {IF B.start[d] = 1 THEN 1 ELSE 5, 3} OBVIOUS
    <3>2. cl[x][d] = EveryFourth(f, B.len[d]) /\ D[x][d] = Fourth(B.len[d], 3)
      BY <1>3, <2>3 DEF from3
    <3>3. WellClassed(EveryFourth(f, B.len[d]), ker, Fourth(B.len[d], IF f = 3 THEN 3 ELSE 1), B.len[d], B.start[d])
      BY <1>2, <3>1, EveryFourthIs
    <3>4. (IF f = 3 THEN 3 ELSE 1) = 3 OBVIOUS
    <3>5. Fourth(B.len[d], 3) \subseteq OddsOf(B.len[d]) BY DEF Fourth
    <3> QED BY <3>2, <3>3, <3>4, <3>5
  <2> QED BY <2>1, <2>2, <2>3
<1> PICK m : m = (r + 1) % 4
  OBVIOUS
<1>6. ASSUME NEW x PROVE x \in HalfOf(B, m) <=> x \in odd /\ \A d \in dirs : x[d] \in D[x][d]
  <2>1. Corners(B) \subseteq odd BY <1>0, CornersOdd DEF odd
  <2>2. ASSUME x \in odd, \A d \in dirs : x[d] \in OddsOf(B.len[d]) PROVE x \in Corners(B)
    <3>1. \E V : x \in [dirs -> V] BY <2>2, Zenon DEF odd, OddTuples
    <3>2. \A d \in dirs : x[d] \in Nat BY <2>2 DEF OddsOf
    <3>3. x \in [dirs -> Nat] BY <3>1, <3>2
    <3> QED BY <2>2, <3>3 DEF Corners
  <2>3. ASSUME x \in odd, \A d \in dirs : x[d] \in OddsOf(B.len[d])
        PROVE  (Outer(B, x) + x[inner]) % 4 = m <=> x[inner] % 4 = IF Outer(B, x) % 4 = r THEN 1 ELSE 3
    <3>1. \A d \in dirs : x[d] \in Int /\ x[d] % 2 = 1 BY <2>3 DEF OddsOf
    <3>2. Outer(B, x) \in Int /\ Outer(B, x) % 2 = r % 2 BY <1>0, <3>1, OuterIs
    <3>3. r \in {1, 2, 3, 0} OBVIOUS
    <3> HIDE DEF inner
    <3> QED BY <1>0, <3>1, <3>2, <3>3, HalfArith
  <2>4. ASSUME x \in HalfOf(B, m) PROVE x \in odd /\ \A d \in dirs : x[d] \in D[x][d]
    <3>1. x \in Corners(B) /\ (Outer(B, x) + x[inner]) % 4 = m
      BY <2>4 DEF HalfOf
    <3>2. x \in odd /\ \A d \in dirs : x[d] \in OddsOf(B.len[d])
      BY <2>1, <3>1 DEF Corners
    <3>3. x[inner] % 4 = IF Outer(B, x) % 4 = r THEN 1 ELSE 3
      BY <2>3, <3>1, <3>2
    <3>4. x[inner] \in Fourth(B.len[inner], IF Outer(B, x) % 4 = r THEN 1 ELSE 3)
      BY <1>0, <3>2, <3>3 DEF Fourth
    <3> QED BY <1>3, <3>2, <3>4
  <2>5. ASSUME x \in odd, \A d \in dirs : x[d] \in D[x][d] PROVE x \in HalfOf(B, m)
    <3>1. \A d \in dirs : x[d] \in OddsOf(B.len[d]) BY <1>5, <2>5
    <3>2. x[inner] \in Fourth(B.len[inner], IF Outer(B, x) % 4 = r THEN 1 ELSE 3)
      BY <1>0, <1>3, <2>5
    <3>3. x[inner] % 4 = IF Outer(B, x) % 4 = r THEN 1 ELSE 3 BY <3>2 DEF Fourth
    <3> QED BY <2>2, <2>3, <2>5, <3>1, <3>3 DEF HalfOf
  <2> QED BY <2>4, <2>5
<1>7. GoodPass(P, B, HalfOf(B, m), ker)
  <2>1. odd = OddTuples(DOMAIN B.len, B.len) BY DEF odd
  <2> QED BY <1>0, <1>4, <1>5, <1>6, <2>1, PassGood
<1> QED BY <1>1, <1>7

\* and the pass in two halves with the neighbours of the first in the second.
LEMMA CenterCubicAdjGood ==
  ASSUME NEW B, IsLong(B)
  PROVE  GoodCenter(CenterCubicAdj(B), B)
<1> PICK dirs : dirs = DOMAIN B.len
  OBVIOUS
<1> PICK inner : inner = Inner(B)
  OBVIOUS
<1> PICK r : r = Cardinality(DOMAIN B.len) - 1
  OBVIOUS
<1>0. IsCenter(B) BY DEF IsLong
<1>1. r \in {1, 2} /\ inner \in dirs BY <1>0, OuterIs
<1> PICK q, m, h : HalvesOf(r, q, m, h)
  BY <1>1, HalvesArith
<1> PICK F : F = Half(B, r, cubicKernels)
  OBVIOUS
<1> PICK G : G = Half(B, q, adjKernels)
  OBVIOUS
<1> PICK ph : ph = CenterCubicAdj(B)
  OBVIOUS
<1>3. ph = <<F, G>>
  <2>1. CenterCubicAdj(B) = << Half(B, Cardinality(DOMAIN B.len) - 1, cubicKernels),
                               Half(B, ((Cardinality(DOMAIN B.len) - 1) + 2) % 4, adjKernels) >>
    BY Zenon DEF CenterCubicAdj
  <2>2. q = (r + 2) % 4 BY DEF HalvesOf
  <2> QED BY <2>1, <2>2
<1>4. GoodPass(F, B, HalfOf(B, m), cubicKernels)
  <2>1. r \in {0, 1, 2, 3} /\ cubicKernels \in {cubicKernels, adjKernels}
    BY <1>1
  <2>2. m = (r + 1) % 4 /\ r % 2 = (Cardinality(DOMAIN B.len) - 1) % 2
    BY DEF HalvesOf
  <2>3. GoodPass(Half(B, r, cubicKernels), B, HalfOf(B, (r + 1) % 4), cubicKernels)
    BY <2>1, <2>2, HalfGood
  <2> QED BY <2>2, <2>3, Zenon
<1>5. GoodPass(G, B, HalfOf(B, h), adjKernels)
  <2>1. adjKernels \in {cubicKernels, adjKernels} OBVIOUS
  <2>2. h = (q + 1) % 4 /\ q % 2 = (Cardinality(DOMAIN B.len) - 1) % 2 /\ q \in {0, 1, 2, 3}
    BY DEF HalvesOf
  <2>3. GoodPass(Half(B, q, adjKernels), B, HalfOf(B, (q + 1) % 4), adjKernels)
    BY <2>1, <2>2, HalfGood
  <2> QED BY <2>2, <2>3, Zenon
<1>6. IsSeq(ph) /\ Len(ph) = 2 /\ ph[1] = F /\ ph[2] = G BY <1>3, ListsAre
<1>7. \A k : k \in 1 .. 2 <=> k = 1 \/ k = 2 OBVIOUS
<1>8. /\ \A z \in F : z = <<z[1], z[2]>> /\ z[1] \in HalfOf(B, m)
                      /\ \A o \in z[2] : CenterRead(B, z[1], o) /\ EvenRead(B, z[1], o)
      /\ \A y \in HalfOf(B, m) : \E z \in F : z[1] = y
      /\ \A z, w \in F : z[1] = w[1] => z = w
  <2>1. IsOdd(cubicKernels) BY KernelsAre
  <2> QED BY <1>4, <2>1, Zenon DEF GoodPass
<1>9. /\ \A z \in G : z = <<z[1], z[2]>> /\ z[1] \in HalfOf(B, h)
                      /\ \A o \in z[2] : CenterRead(B, z[1], o) /\ (EvenRead(B, z[1], o) \/ NextRead(B, z[1], o))
      /\ \A y \in HalfOf(B, h) : \E z \in G : z[1] = y
      /\ \A z, w \in G : z[1] = w[1] => z = w
  BY <1>5, Zenon DEF GoodPass
<1>10. \A x : x \in HalfOf(B, m) \/ x \in HalfOf(B, h) <=> x \in Corners(B)
  <2> SUFFICES ASSUME NEW x \in Corners(B) PROVE x \in HalfOf(B, m) \/ x \in HalfOf(B, h)
    BY DEF HalfOf
  <2>1. \A d \in dirs : x[d] \in Int /\ x[d] % 2 = 1 BY DEF Corners, OddsOf
  <2>2. Outer(B, x) \in Int /\ Outer(B, x) % 2 = r % 2 BY <1>0, <2>1, OuterIs
  <2>3. x[inner] \in Int /\ x[inner] % 2 = 1 BY <1>1, <2>1
  <2> PICK w \in Int : w = Outer(B, x)
    BY <2>2
  <2> PICK i \in Int : i = x[inner]
    BY <2>3
  <2>4. (w + i) % 4 = m \/ (w + i) % 4 = h BY <2>2, <2>3 DEF HalvesOf
  <2> QED BY <2>4 DEF HalfOf
<1>11. \A x \in HalfOf(B, m) : x \notin HalfOf(B, h) BY DEF HalfOf, HalvesOf
\* What the second half reads of the first.
<1>12. ASSUME NEW x \in HalfOf(B, h), NEW o, CenterRead(B, x, o), NextRead(B, x, o),
              ~\E d \in dirs : x[d] + o[d] < 0
       PROVE  \E y \in F : \A d \in dirs : y[1][d] = x[d] + o[d]
  <2>1. PICK e \in dirs : \E v \in {-2, 2} : o = [d \in dirs |-> IF d = e THEN v ELSE 0]
    BY <1>12 DEF NextRead
  <2>2. PICK v \in {-2, 2} : o = [d \in dirs |-> IF d = e THEN v ELSE 0]
    BY <2>1
  <2>3. \A d \in dirs : o[d] = IF d = e THEN v ELSE 0 BY <2>2
  <2>4. x \in Corners(B) /\ (Outer(B, x) + x[inner]) % 4 = h BY DEF HalfOf
  <2>5. \A d \in dirs : x[d] \in Nat /\ x[d] >= 1 /\ x[d] % 2 = 1 /\ B.len[d] \in Nat
    BY <1>0, <2>4 DEF Corners, OddsOf, IsCenter
  <2> PICK y : y = [d \in dirs |-> x[d] + o[d]]
    OBVIOUS
  <2>6. \A d \in dirs : y[d] = x[d] + (IF d = e THEN v ELSE 0) /\ y[d] = x[d] + o[d]
    BY <2>3
  <2>7. \A d \in dirs : y[d] \in Nat /\ y[d] < B.len[d] /\ y[d] % 2 = 1
    <3> SUFFICES ASSUME NEW d \in dirs PROVE y[d] \in Nat /\ y[d] < B.len[d] /\ y[d] % 2 = 1
      OBVIOUS
    <3>1. y[d] < B.len[d] /\ ~(y[d] < 0) BY <1>12, <2>6 DEF CenterRead
    <3>2. y[d] = x[d] \/ y[d] = x[d] + 2 \/ y[d] = x[d] + (-2)
      <4>1. CASE d = e BY <2>6, <4>1
      <4>2. CASE d # e
        <5>1. y[d] = x[d] + 0 BY <2>6, <4>2
        <5> QED BY <2>5, <5>1
      <4> QED BY <4>1, <4>2
    <3>3. \A i \in Nat : i % 2 = 1 => i \in Int /\ (i + 2) % 2 = 1 /\ i + 2 \in Int /\ (i + (-2)) % 2 = 1 /\ i + (-2) \in Int
      OBVIOUS
    <3>4. y[d] \in Int /\ y[d] % 2 = 1 BY <2>5, <3>2, <3>3
    <3> QED BY <3>1, <3>4
  <2>8. y \in Corners(B)
    <3>1. \A d \in dirs : y[d] \in OddsOf(B.len[d])
      <4> SUFFICES ASSUME NEW d \in dirs PROVE y[d] \in OddsOf(B.len[d])
        OBVIOUS
      <4>1. y[d] \in 1 .. B.len[d] - 1
        <5> PICK i \in Nat : i = y[d]
          BY <2>7
        <5>1. i % 2 = 1 /\ i < B.len[d] /\ B.len[d] \in Nat BY <2>5, <2>7
        <5>2. i # 0 BY <5>1
        <5> QED BY <5>1, <5>2
      <4> QED BY <2>7, <4>1 DEF OddsOf
    <3>2. y \in [dirs -> Nat] BY <2>7
    <3> QED BY <3>1, <3>2 DEF Corners
  <2>9. Outer(B, y) + y[inner] = Outer(B, x) + x[inner] + v
    <3>1. v \in Int /\ e \in DOMAIN B.len OBVIOUS
    <3>2. \A d \in DOMAIN B.len : x[d] \in Int /\ y[d] = x[d] + (IF d = e THEN v ELSE 0)
      BY <2>5, <2>6
    <3>3. Outer(B, y) + y[Inner(B)] = Outer(B, x) + x[Inner(B)] + v
      <4>1. Shifted(B, x, y, e, v) BY <3>1, <3>2 DEF Shifted
      <4>2. \A a, b, g, i : Shifted(B, a, b, g, i) => Outer(B, b) + b[Inner(B)] = Outer(B, a) + a[Inner(B)] + i
        BY <1>0, OuterIs
      <4> QED BY <4>1, <4>2
    <3> QED BY <3>3
  <2>10. (Outer(B, y) + y[inner]) % 4 = m
    <3>0. \A d \in DOMAIN B.len : x[d] \in Int /\ x[d] % 2 = 1 BY <2>5
    <3>1. Outer(B, x) \in Int BY <1>0, <3>0, OuterIs
    <3> PICK t \in Int : t = Outer(B, x) + x[inner]
      BY <1>1, <2>5, <3>1
    <3>2. Outer(B, y) + y[inner] = t + v /\ t % 4 = h BY <2>4, <2>9
    <3>3. v = 2 \/ v = -2 OBVIOUS
    <3>4. (t + v) % 4 = m BY <3>2, <3>3 DEF HalvesOf
    <3> QED BY <3>2, <3>4
  <2>11. y \in HalfOf(B, m) BY <2>8, <2>10 DEF HalfOf
  <2>12. PICK z \in F : z[1] = y
    BY <1>8, <2>11
  <2> QED BY <2>6, <2>12
<1>13. ASSUME NEW k \in 1 .. 2, NEW x \in ph[k] PROVE x = <<x[1], x[2]>> /\ x[1] \in Corners(B)
  BY <1>6, <1>7, <1>8, <1>9, <1>10
<1>14. ASSUME NEW y \in Corners(B) PROVE \E k \in 1 .. 2 : \E x \in ph[k] : x[1] = y
  <2>1. 1 \in 1 .. 2 /\ 2 \in 1 .. 2 OBVIOUS
  <2>2. (\E x \in F : x[1] = y) \/ (\E x \in G : x[1] = y) BY <1>8, <1>9, <1>10
  <2> QED BY <1>6, <2>1, <2>2
<1>15. ASSUME NEW j \in 1 .. 2, NEW k \in 1 .. 2, NEW x \in ph[j], NEW y \in ph[k], x[1] = y[1] PROVE j = k /\ x = y
  <2>1. CASE j = 1 /\ k = 1 BY <1>6, <1>8, <1>15, <2>1
  <2>2. CASE j = 2 /\ k = 2 BY <1>6, <1>9, <1>15, <2>2
  <2>3. CASE j = 1 /\ k = 2 BY <1>6, <1>8, <1>9, <1>11, <1>15, <2>3
  <2>4. CASE j = 2 /\ k = 1 BY <1>6, <1>8, <1>9, <1>11, <1>15, <2>4
  <2> QED BY <1>7, <2>1, <2>2, <2>3, <2>4
<1>16. ASSUME NEW k \in 1 .. 2, NEW x \in ph[k], NEW o \in x[2]
       PROVE  /\ CenterRead(B, x[1], o)
              /\ \/ EvenRead(B, x[1], o)
                 \/ \E d \in dirs : x[1][d] + o[d] < 0
                 \/ \E j \in 1 .. k - 1 : \E y \in ph[j] : \A d \in dirs : y[1][d] = x[1][d] + o[d]
  <2>1. CASE k = 1 BY <1>6, <1>8, <2>1
  <2>2. CASE k = 2
    <3>1. x[1] \in HalfOf(B, h) /\ CenterRead(B, x[1], o) /\ (EvenRead(B, x[1], o) \/ NextRead(B, x[1], o))
      BY <1>6, <1>9, <2>2
    <3>2. ASSUME NextRead(B, x[1], o), ~\E d \in dirs : x[1][d] + o[d] < 0
          PROVE  \E j \in 1 .. k - 1 : \E y \in ph[j] : \A d \in dirs : y[1][d] = x[1][d] + o[d]
      <4>1. \E y \in F : \A d \in dirs : y[1][d] = x[1][d] + o[d]
        BY <1>12, <3>1, <3>2
      <4>2. 1 \in 1 .. k - 1 BY <2>2
      <4> QED BY <1>6, <4>1, <4>2
    <3> QED BY <3>1, <3>2
  <2> QED BY <1>7, <2>1, <2>2
<1>17. GoodCenter(ph, B)
  <2>1. /\ \A k \in 1 .. Len(ph) : \A x \in ph[k] : x = <<x[1], x[2]>> /\ x[1] \in Corners(B)
        /\ \A y \in Corners(B) : \E k \in 1 .. Len(ph) : \E x \in ph[k] : x[1] = y
        /\ \A j, k \in 1 .. Len(ph) : \A x \in ph[j], y \in ph[k] : x[1] = y[1] => j = k /\ x = y
    BY <1>6, <1>13, <1>14, <1>15, Zenon
  <2>2. \A k \in 1 .. Len(ph) : \A x \in ph[k] : \A o \in x[2] :
           /\ CenterRead(B, x[1], o)
           /\ \/ EvenRead(B, x[1], o)
              \/ \E d \in DOMAIN B.len : x[1][d] + o[d] < 0
              \/ \E j \in 1 .. k - 1 : \E y \in ph[j] : \A d \in DOMAIN B.len : y[1][d] = x[1][d] + o[d]
    BY <1>6, <1>16
  <2> QED BY <1>6, <2>1, <2>2, Zenon DEF GoodCenter
<1> QED BY <1>17

\* The passes between several directions: which directions are taken by the stencils, which
\* one by one, and where the points lie.
RealLength(c, lo, end, s, d) == IF c.cross THEN (end[d] \div s) + 1 ELSE LineLength(lo, end, d, s)

ShortOf(c, meta, lo, end, dirs, s) == meta.algo = "linear" \/ \A d \in dirs : RealLength(c, lo, end, s, d) < 5

LongOf(c, meta, lo, end, dirs, s) ==
  IF ShortOf(c, meta, lo, end, dirs, s) THEN dirs ELSE {d \in dirs : RealLength(c, lo, end, s, d) >= 5}

FromOf(c, lo, dirs, long, s) == [d \in Dims(c) |-> IF d \in dirs \ long THEN lo[d] + s ELSE lo[d]]

ByOf(c, dirs, long, steps, s) == [d \in Dims(c) |-> IF d \in dirs \ long THEN 2 * s ELSE steps[d]]

CenterBases(c, from, end, long, by) ==
  {p \in Points(c) : \A d \in Dims(c) : IF d \in long THEN p[d] = from[d]
                                       ELSE p[d] \in from[d] .. end[d] /\ (p[d] - from[d]) % by[d] = 0}

CenterBox(c, lo, end, long, s) ==
  [len   |-> [d \in long |-> LineLength(lo, end, d, s)],
   start |-> [d \in long |-> IF c.cross /\ lo[d] >= 2 * s THEN 1 ELSE 3]]

CenterMove(c, long, s, p, x) == [d \in Dims(c) |-> IF d \in long THEN p[d] + s * x[d] ELSE p[d]]

CenterPhases(meta, short, box) ==
  IF short THEN CenterLinear(box) ELSE IF meta.adj THEN CenterCubicAdj(box) ELSE CenterCubic(box)

CenterEvent(c, long, s, p, x) ==
  [at |-> CenterMove(c, long, s, p, x[1]),
   reads |-> {CenterMove(c, long, s, CenterMove(c, long, s, p, x[1]), o) : o \in x[2]}]

CenterBatch(c, bases, long, s, stencils) == {CenterEvent(c, long, s, p, x) : p \in bases, x \in stencils}

CenterParts(c, meta, lo, end, dirs, steps, s, short, long, from, by, bases, ph, dir) ==
  /\ short = ShortOf(c, meta, lo, end, dirs, s)
  /\ long = LongOf(c, meta, lo, end, dirs, s)
  /\ from = FromOf(c, lo, dirs, long, s) /\ by = ByOf(c, dirs, long, steps, s)
  /\ bases = CenterBases(c, from, end, long, by)
  /\ ph = CenterPhases(meta, short, CenterBox(c, lo, end, long, s))
  /\ dir = CHOOSE d \in long : TRUE

\* CenterPass in these terms.
LEMMA CenterPassIs ==
  ASSUME NEW c, NEW meta, NEW lo, NEW end, NEW dirs, NEW steps, NEW s,
         NEW short, NEW long, NEW from, NEW by, NEW bases, NEW ph, NEW dir,
         CenterParts(c, meta, lo, end, dirs, steps, s, short, long, from, by, bases, ph, dir)
  PROVE  CenterPass(c, meta, lo, end, dirs, steps, s) =
           IF (\E d \in Dims(c) : end[d] < lo[d]) \/ (\E d \in dirs : LineLength(lo, end, d, s) <= 1) THEN <<>>
           ELSE IF Cardinality(long) = 1
                THEN LinePass(c, meta, from, end, dir, by, s)
                ELSE [k \in 1 .. Len(ph) |-> CenterBatch(c, bases, long, s, ph[k])]
<1> USE DEF CenterParts
<1> DEFINE n(d)    == ((end[d] - lo[d]) \div s) + 1
           real(d) == IF c.cross THEN (end[d] \div s) + 1 ELSE n(d)
           long1   == IF meta.algo = "linear" \/ \A d \in dirs : real(d) < 5 THEN dirs
                      ELSE {d \in dirs : real(d) >= 5}
           from1   == [d \in Dims(c) |-> IF d \in dirs \ long1 THEN lo[d] + s ELSE lo[d]]
           by1     == [d \in Dims(c) |-> IF d \in dirs \ long1 THEN 2 * s ELSE steps[d]]
           bases1  == {p \in Points(c) :
                         \A d \in Dims(c) : IF d \in long1 THEN p[d] = from1[d]
                                           ELSE p[d] \in from1[d] .. end[d] /\ (p[d] - from1[d]) % by1[d] = 0}
           box1    == [len   |-> [d \in long1 |-> n(d)],
                       start |-> [d \in long1 |-> IF c.cross /\ lo[d] >= 2 * s THEN 1 ELSE 3]]
           move(p, x) == [d \in Dims(c) |-> IF d \in long1 THEN p[d] + s * x[d] ELSE p[d]]
           stencils == IF meta.algo = "linear" \/ \A d \in dirs : real(d) < 5 THEN CenterLinear(box1)
                       ELSE IF meta.adj THEN CenterCubicAdj(box1) ELSE CenterCubic(box1)
           event(p, x) == [at |-> move(p, x[1]), reads |-> {move(move(p, x[1]), o) : o \in x[2]}]
           batch(k) == {event(p, x) : p \in bases1, x \in stencils[k]}
           list  == [k \in 1 .. Len(stencils) |-> batch(k)]
           lines == LinePass(c, meta, from1, end, CHOOSE d \in long1 : TRUE, by1, s)
           empty == (\E d \in Dims(c) : end[d] < lo[d]) \/ (\E d \in dirs : n(d) <= 1)
<1>1. CenterPass(c, meta, lo, end, dirs, steps, s)
        = IF empty THEN <<>> ELSE IF Cardinality(long1) = 1 THEN lines ELSE list
  BY SMT DEF CenterPass
<1>2. \A d : n(d) = LineLength(lo, end, d, s) /\ real(d) = RealLength(c, lo, end, s, d)
  BY Zenon DEF LineLength, RealLength
<1> HIDE DEF n, real
<1>3. (meta.algo = "linear" \/ \A d \in dirs : real(d) < 5) = short
  BY <1>2, Zenon DEF ShortOf
<1>4. long1 = long BY <1>2, <1>3 DEF LongOf
<1>5. empty = ((\E d \in Dims(c) : end[d] < lo[d]) \/ (\E d \in dirs : LineLength(lo, end, d, s) <= 1))
  BY <1>2, Zenon
<1> HIDE DEF long1, empty
<1>6. from1 = from /\ by1 = by BY <1>4 DEF FromOf, ByOf
<1> HIDE DEF from1, by1
<1>7. bases1 = bases BY <1>4, <1>6 DEF CenterBases
<1>8. box1 = CenterBox(c, lo, end, long, s) BY <1>2, <1>4 DEF CenterBox
<1>9. \A p, x : move(p, x) = CenterMove(c, long, s, p, x) BY <1>4 DEF CenterMove
<1> HIDE DEF bases1, box1, move
<1>10. stencils = ph BY <1>3, <1>8, Zenon DEF CenterPhases
<1>11. ASSUME NEW p, NEW x PROVE event(p, x) = CenterEvent(c, long, s, p, x)
  <2>1. {move(move(p, x[1]), o) : o \in x[2]} = {CenterMove(c, long, s, CenterMove(c, long, s, p, x[1]), o) : o \in x[2]}
    BY <1>9
  <2> QED BY <1>9, <2>1, Zenon DEF CenterEvent
<1> HIDE DEF stencils, event
<1>12. ASSUME NEW k PROVE batch(k) = CenterBatch(c, bases, long, s, ph[k])
  <2>1. \A e : e \in batch(k) <=> \E p \in bases : \E x \in ph[k] : e = event(p, x)
    BY <1>7, <1>10
  <2>2. \A e : e \in CenterBatch(c, bases, long, s, ph[k])
                 <=> \E p \in bases : \E x \in ph[k] : e = CenterEvent(c, long, s, p, x)
    BY DEF CenterBatch
  <2> HIDE DEF batch
  <2>3. \A e : e \in batch(k) <=> e \in CenterBatch(c, bases, long, s, ph[k])
    BY <1>11, <2>1, <2>2
  <2> QED BY <2>3
<1> HIDE DEF batch
<1>13. list = [k \in 1 .. Len(ph) |-> CenterBatch(c, bases, long, s, ph[k])]
  BY <1>10, <1>12
<1>14. lines = LinePass(c, meta, from, end, dir, by, s) BY <1>4, <1>6, Zenon
<1> HIDE DEF list, lines
<1> QED BY <1>1, <1>4, <1>5, <1>13, <1>14, Zenon

\* The pass between the directions dirs: the points it codes, and what it may read.
OnCenter(c, lo, end, dirs, s) ==
  /\ IsBox(c, lo, end) /\ s \in Nat \ {0}
  /\ dirs \subseteq Dims(c) /\ \A d \in dirs : OnEven(lo[d], s)
  /\ \/ \E a, b \in Nat : a < b /\ dirs = {a, b}
     \/ \E a, b, e \in Nat : a < b /\ b < e /\ dirs = {a, b, e}

OnPlanes(c, lo, end, dirs, steps, q) ==
  \A d \in Dims(c) \ dirs : q[d] \in lo[d] .. end[d] /\ OnStep(q[d], lo[d], steps[d])

CenterTarget(c, lo, end, dirs, steps, s) ==
  {q \in Points(c) : /\ OnPlanes(c, lo, end, dirs, steps, q)
                     /\ \A d \in dirs : q[d] \in lo[d] .. end[d] /\ OnOdd(q[d], s)}

CenterReads(c, lo, end, dirs, steps, s, q) ==
  /\ OnPlanes(c, lo, end, dirs, steps, q)
  /\ \A d \in dirs : q[d] <= end[d] /\ OnGrid(q[d], s)
  /\ \E d \in dirs : OnEven(q[d], s) \/ q[d] < lo[d]

\* The directions taken by the stencils.
LEMMA LongIs ==
  ASSUME NEW c, NEW meta, NEW lo, NEW end, NEW dirs, NEW s, OnCenter(c, lo, end, dirs, s),
         \A d \in Dims(c) : lo[d] <= end[d], \A d \in dirs : LineLength(lo, end, d, s) >= 2,
         NEW short, short = ShortOf(c, meta, lo, end, dirs, s),
         NEW long, long = LongOf(c, meta, lo, end, dirs, s)
  PROVE  /\ long \subseteq dirs
         /\ \A d \in dirs : Stretch(lo[d], end[d], s, LineLength(lo, end, d, s))
         /\ \/ \E d \in dirs : long = {d} /\ Cardinality(long) = 1
            \/ /\ Cardinality(long) # 1 /\ IsCenter(CenterBox(c, lo, end, long, s))
               /\ short \/ IsLong(CenterBox(c, lo, end, long, s))
<1> PICK box : box = CenterBox(c, lo, end, long, s)
  OBVIOUS
<1>0. /\ IsBox(c, lo, end) /\ s \in Nat \ {0} /\ c.cross \in BOOLEAN
      /\ dirs \subseteq Dims(c) /\ \A d \in dirs : OnEven(lo[d], s)
      /\ \A d \in dirs : lo[d] \in Nat /\ end[d] \in Nat
  BY DEF OnCenter, IsBox, IsConfig
<1>1. ASSUME NEW d \in dirs PROVE Stretch(lo[d], end[d], s, LineLength(lo, end, d, s))
  <2>1. /\ lo[d] \in Nat /\ end[d] \in Nat /\ lo[d] <= end[d]
        /\ lo[d] % (2 * s) = 0
    BY <1>0 DEF OnEven
  <2>2. LineLength(lo, end, d, s) = ((end[d] - lo[d]) \div s) + 1
    BY DEF LineLength
  <2> QED BY <1>0, <2>1, <2>2, StretchIs
<1>2. ASSUME NEW d \in dirs
      PROVE  LineLength(lo, end, d, s) \in Nat /\ (lo[d] = 0 => LineLength(lo, end, d, s) = (end[d] \div s) + 1)
  BY <1>1 DEF Stretch
<1>3. long \subseteq dirs /\ (short => long = dirs) BY DEF LongOf
<1>4. ~short => long = {d \in dirs : RealLength(c, lo, end, s, d) >= 5}
  BY DEF LongOf
<1>5. ASSUME NEW d \in dirs
      PROVE  RealLength(c, lo, end, s, d) \in Nat
  <2>1. end[d] \div s \in Nat BY <1>0, QuotientOf
  <2> QED BY <1>2, <2>1 DEF RealLength
<1>6. dirs # {} /\ long # {}
  <2>1. dirs # {} BY DEF OnCenter
  <2>2. CASE short BY <1>3, <2>1, <2>2
  <2>3. CASE ~short
    <3>1. PICK d \in dirs : ~(RealLength(c, lo, end, s, d) < 5)
      BY <2>3, Zenon DEF ShortOf
    <3>2. RealLength(c, lo, end, s, d) >= 5 BY <1>5, <3>1
    <3> QED BY <1>4, <2>3, <3>2
  <2> QED BY <2>1, <2>2, <2>3
<1>7. \/ \E d \in dirs : long = {d}
      \/ \E a, b \in Nat : a < b /\ long = {a, b}
      \/ \E a, b, e \in Nat : a < b /\ b < e /\ long = {a, b, e}
  <2>1. CASE \E a, b \in Nat : a < b /\ dirs = {a, b}
    <3>1. PICK a \in Nat, b \in Nat : a < b /\ dirs = {a, b}
      BY <2>1
    <3>2. long = {a} \/ long = {b} \/ long = {a, b} BY <1>3, <1>6, <3>1
    <3> QED BY <3>1, <3>2
  <2>2. CASE \E a, b, e \in Nat : a < b /\ b < e /\ dirs = {a, b, e}
    <3>1. PICK a \in Nat, b \in Nat, e \in Nat : a < b /\ b < e /\ dirs = {a, b, e}
      BY <2>2
    <3>2. \/ long = {a} \/ long = {b} \/ long = {e}
          \/ long = {a, b} \/ long = {a, e} \/ long = {b, e}
          \/ long = {a, b, e}
      BY <1>3, <1>6, <3>1
    <3>3. a < e BY <3>1
    <3> QED BY <3>1, <3>2, <3>3
  <2> QED BY <2>1, <2>2 DEF OnCenter
<1>8. ASSUME NEW d \in dirs, long = {d} PROVE Cardinality(long) = 1
  BY <1>8, FS_Singleton
<1>9. ASSUME \/ \E a, b \in Nat : a < b /\ long = {a, b}
             \/ \E a, b, e \in Nat : a < b /\ b < e /\ long = {a, b, e}
      PROVE  /\ Cardinality(long) # 1 /\ IsCenter(box)
             /\ short \/ IsLong(box)
  <2>1. \A d : long # {d}
    <3> SUFFICES ASSUME NEW d, long = {d} PROVE FALSE
      OBVIOUS
    <3>1. PICK a \in Nat, b \in Nat : a < b /\ a \in long /\ b \in long
      BY <1>9
    <3> QED BY <3>1
  <2>2. Cardinality(long) # 1
    <3>1. IsFiniteSet(long)
      <4>1. \A a, b, e : IsFiniteSet({a, b, e})
        <5> TAKE a, b, e
        <5>1. IsFiniteSet({a}) BY FS_Singleton
        <5>2. IsFiniteSet({a} \cup {b}) BY <5>1, FS_AddElement
        <5>3. IsFiniteSet(({a} \cup {b}) \cup {e}) BY <5>2, FS_AddElement
        <5>4. ({a} \cup {b}) \cup {e} = {a, b, e} OBVIOUS
        <5> QED BY <5>3, <5>4
      <4>2. CASE \E a, b \in Nat : a < b /\ long = {a, b}
        <5>1. PICK a \in Nat, b \in Nat : long = {a, b}
          BY <4>2
        <5>2. IsFiniteSet({a, b, b}) BY <4>1
        <5>3. {a, b, b} = long BY <5>1
        <5> QED BY <5>2, <5>3, Zenon
      <4>3. CASE \E a, b, e \in Nat : a < b /\ b < e /\ long = {a, b, e}
        <5>1. PICK a \in Nat, b \in Nat, e \in Nat : long = {a, b, e}
          BY <4>3
        <5>2. IsFiniteSet({a, b, e}) BY <4>1
        <5> QED BY <5>1, <5>2, Zenon
      <4> QED BY <1>9, <4>2, <4>3
    <3> QED BY <2>1, <3>1, FS_Singleton
  <2>3. /\ DOMAIN box.len = long
        /\ \A d \in long : /\ box.len[d] = LineLength(lo, end, d, s)
                           /\ box.start[d] = IF c.cross /\ lo[d] >= 2 * s THEN 1 ELSE 3
    BY DEF CenterBox
  <2>4. IsCenter(box)
    <3>1. \A d \in long : box.len[d] \in Nat /\ box.len[d] >= 2 /\ box.start[d] \in {1, 3}
      BY <1>2, <1>3, <2>3
    <3>2. \/ \E a, b \in Nat : a < b /\ DOMAIN box.len = {a, b}
          \/ \E a, b, e \in Nat : a < b /\ b < e /\ DOMAIN box.len = {a, b, e}
      BY <1>9, <2>3
    <3> QED BY <2>3, <3>1, <3>2, Zenon DEF IsCenter
  <2>5. ~short => IsLong(box)
    <3> SUFFICES ASSUME ~short, NEW d \in long, box.start[d] = 3 PROVE box.len[d] >= 5
      BY <2>3, <2>4 DEF IsLong
    <3>1. RealLength(c, lo, end, s, d) >= 5 /\ d \in dirs BY <1>4
    <3>2. ~(c.cross /\ lo[d] >= 2 * s) BY <2>3
    <3>3. RealLength(c, lo, end, s, d) = LineLength(lo, end, d, s)
      <4>1. CASE ~c.cross BY <4>1 DEF RealLength
      <4>2. CASE c.cross
        <5>1. lo[d] \in Nat /\ lo[d] < 2 * s /\ lo[d] % (2 * s) = 0
          BY <1>0, <3>1, <3>2, <4>2 DEF OnEven
        <5>2. lo[d] = 0
          <6> PICK x \in Nat : x = lo[d]
            BY <5>1
          <6> PICK t \in Nat \ {0} : t = 2 * s
            BY <1>0
          <6>1. x < t /\ x % t = 0 BY <5>1
          <6>2. x % t = x BY <6>1
          <6> QED BY <6>1, <6>2
        <5> QED BY <1>2, <3>1, <4>2, <5>2 DEF RealLength
      <4> QED BY <1>0, <4>1, <4>2
    <3> QED BY <2>3, <3>1, <3>3
  <2> QED BY <2>2, <2>4, <2>5
<1> QED BY <1>1, <1>3, <1>7, <1>8, <1>9

\* The directions of a pass that its stencils take, on stretches of points.
OnStretches(c, lo, end, dirs, long, s) ==
  /\ OnCenter(c, lo, end, dirs, s) /\ long \subseteq dirs
  /\ \A d \in dirs : Stretch(lo[d], end[d], s, LineLength(lo, end, d, s))

BasesOf(c, lo, end, dirs, long, steps, s) ==
  CenterBases(c, FromOf(c, lo, dirs, long, s), end, long, ByOf(c, dirs, long, steps, s))

OnBase(c, lo, end, dirs, long, steps, s, p) ==
  /\ p \in Points(c) /\ OnPlanes(c, lo, end, dirs, steps, p)
  /\ \A d \in long : p[d] = lo[d]
  /\ \A d \in dirs \ long : p[d] \in lo[d] .. end[d] /\ OnOdd(p[d], s)

\* The points the loops outside of the pass begin at.
LEMMA CenterBaseIs ==
  ASSUME NEW c, NEW lo, NEW end, NEW dirs, NEW long, NEW steps, NEW s, OnCenter(c, lo, end, dirs, s),
         long \subseteq dirs, NEW p
  PROVE  p \in BasesOf(c, lo, end, dirs, long, steps, s) <=> OnBase(c, lo, end, dirs, long, steps, s, p)
<1> PICK from : from = FromOf(c, lo, dirs, long, s)
  OBVIOUS
<1> PICK by : by = ByOf(c, dirs, long, steps, s)
  OBVIOUS
<1>0. /\ IsConfig(c) /\ s \in Nat \ {0} /\ dirs \subseteq Dims(c) /\ \A d \in dirs : OnEven(lo[d], s)
      /\ \A d \in Dims(c) : lo[d] \in Nat /\ end[d] \in Nat
  BY DEF OnCenter, IsBox
<1>1. \A d \in Dims(c) : /\ from[d] = IF d \in dirs \ long THEN lo[d] + s ELSE lo[d]
                         /\ by[d] = IF d \in dirs \ long THEN 2 * s ELSE steps[d]
  BY DEF FromOf, ByOf
<1>2. p \in Points(c) => p \in [Dims(c) -> Nat] BY <1>0, PointIs
<1>3. p \in BasesOf(c, lo, end, dirs, long, steps, s)
        <=> p \in Points(c) /\ \A d \in Dims(c) : IF d \in long THEN p[d] = from[d]
                                                  ELSE p[d] \in from[d] .. end[d] /\ OnStep(p[d], from[d], by[d])
  <2>1. p \in CenterBases(c, from, end, long, by)
          <=> p \in Points(c) /\ \A d \in Dims(c) : IF d \in long THEN p[d] = from[d]
                                                    ELSE p[d] \in from[d] .. end[d] /\ OnStep(p[d], from[d], by[d])
    BY Zenon DEF CenterBases, OnStep
  <2> QED BY <2>1 DEF BasesOf
<1>4. ASSUME NEW d \in dirs \ long, p \in Points(c)
      PROVE  p[d] \in lo[d] + s .. end[d] /\ OnStep(p[d], lo[d] + s, 2 * s)
               <=> p[d] \in lo[d] .. end[d] /\ OnOdd(p[d], s)
  <2>1. p[d] \in Nat /\ lo[d] \in Nat /\ end[d] \in Nat /\ OnEven(lo[d], s)
    BY <1>0, <1>2, <1>4
  <2> QED BY <1>0, <2>1, OddSide
<1>5. ASSUME p \in Points(c), NEW d \in Dims(c)
      PROVE  (IF d \in long THEN p[d] = from[d]
              ELSE p[d] \in from[d] .. end[d] /\ OnStep(p[d], from[d], by[d]))
        <=> IF d \in long THEN p[d] = lo[d]
            ELSE IF d \in dirs THEN p[d] \in lo[d] .. end[d] /\ OnOdd(p[d], s)
            ELSE p[d] \in lo[d] .. end[d] /\ OnStep(p[d], lo[d], steps[d])
  <2>1. CASE d \in long BY <1>1, <2>1
  <2>2. CASE d \in dirs \ long
    <3>1. from[d] = lo[d] + s /\ by[d] = 2 * s BY <1>1, <2>2
    <3>2. p[d] \in lo[d] + s .. end[d] /\ OnStep(p[d], lo[d] + s, 2 * s)
               <=> p[d] \in lo[d] .. end[d] /\ OnOdd(p[d], s)
      BY <1>4, <1>5, <2>2
    <3> QED BY <2>2, <3>1, <3>2
  <2>3. CASE d \notin dirs BY <1>1, <2>3
  <2> QED BY <2>1, <2>2, <2>3
<1>6. p \in Points(c) =>
        ((\A d \in Dims(c) : IF d \in long THEN p[d] = from[d]
                            ELSE p[d] \in from[d] .. end[d] /\ OnStep(p[d], from[d], by[d]))
         <=> \A d \in Dims(c) : IF d \in long THEN p[d] = lo[d]
                               ELSE IF d \in dirs THEN p[d] \in lo[d] .. end[d] /\ OnOdd(p[d], s)
                               ELSE p[d] \in lo[d] .. end[d] /\ OnStep(p[d], lo[d], steps[d]))
  BY <1>5
<1>7. (\A d \in Dims(c) : IF d \in long THEN p[d] = lo[d]
                          ELSE IF d \in dirs THEN p[d] \in lo[d] .. end[d] /\ OnOdd(p[d], s)
                          ELSE p[d] \in lo[d] .. end[d] /\ OnStep(p[d], lo[d], steps[d]))
        <=> /\ OnPlanes(c, lo, end, dirs, steps, p)
            /\ \A d \in long : p[d] = lo[d]
            /\ \A d \in dirs \ long : p[d] \in lo[d] .. end[d] /\ OnOdd(p[d], s)
  BY <1>0 DEF OnPlanes
<1> QED BY <1>3, <1>6, <1>7, Zenon DEF OnBase

\* A point some steps away.
Moves(c, lo, end, dirs, long, steps, s, p, y, q) ==
  /\ OnStretches(c, lo, end, dirs, long, s) /\ OnBase(c, lo, end, dirs, long, steps, s, p)
  /\ \A d \in long : y[d] \in Int /\ Position(lo[d], s, y[d]) >= 0 /\ Position(lo[d], s, y[d]) <= end[d]
  /\ q = CenterMove(c, long, s, p, y)

\* A point that is moved from there lies in the planes of the pass.
LEMMA CenterMoved ==
  ASSUME NEW c, NEW lo, NEW end, NEW dirs, NEW long, NEW steps, NEW s, NEW p, NEW y, NEW q,
         Moves(c, lo, end, dirs, long, steps, s, p, y, q)
  PROVE  /\ q \in Points(c) /\ OnPlanes(c, lo, end, dirs, steps, q)
         /\ \A d \in long : q[d] = Position(lo[d], s, y[d])
         /\ \A d \in Dims(c) \ long : q[d] = p[d]
<1>a. /\ OnStretches(c, lo, end, dirs, long, s) /\ OnBase(c, lo, end, dirs, long, steps, s, p)
      /\ \A d \in long : y[d] \in Int /\ Position(lo[d], s, y[d]) >= 0 /\ Position(lo[d], s, y[d]) <= end[d]
      /\ q = CenterMove(c, long, s, p, y)
  BY DEF Moves
<1>0. /\ IsConfig(c) /\ s \in Nat \ {0} /\ long \subseteq dirs /\ dirs \subseteq Dims(c)
      /\ \A d \in Dims(c) : lo[d] \in Nat /\ end[d] \in Nat /\ end[d] < c.dims[d]
  BY <1>a DEF OnStretches, OnCenter, IsBox
<1>1. p \in Points(c) /\ OnPlanes(c, lo, end, dirs, steps, p) /\ \A d \in long : p[d] = lo[d]
  BY <1>a DEF OnBase
<1>2. /\ p \in [Dims(c) -> Nat] /\ \A d \in Dims(c) : p[d] < c.dims[d]
      /\ \A d \in Dims(c) : c.dims[d] \in Nat
  BY <1>0, <1>1, PointIs
<1>3. q = [d \in Dims(c) |-> IF d \in long THEN Position(lo[d], s, y[d]) ELSE p[d]]
  <2>1. \A d \in Dims(c) : (IF d \in long THEN p[d] + s * y[d] ELSE p[d])
                             = IF d \in long THEN Position(lo[d], s, y[d]) ELSE p[d]
    BY <1>1, Zenon DEF Position
  <2> QED BY <1>a, <2>1, Zenon DEF CenterMove
<1>4. \A d \in long : Position(lo[d], s, y[d]) \in Int
  BY <1>a DEF OnStretches, Stretch
<1>5. /\ \A d \in long : q[d] = Position(lo[d], s, y[d])
      /\ \A d \in Dims(c) \ long : q[d] = p[d]
  BY <1>0, <1>3
<1>6. \A d \in Dims(c) : q[d] \in Nat /\ q[d] < c.dims[d]
  <2>1. ASSUME NEW d \in long PROVE q[d] \in Nat /\ q[d] < c.dims[d]
    <3> PICK x \in Int : x = Position(lo[d], s, y[d])
      BY <1>4
    <3>1. x >= 0 /\ x <= end[d] /\ q[d] = x BY <1>a, <1>5
    <3> QED BY <1>0, <1>2, <3>1
  <2> QED BY <1>2, <1>5, <2>1
<1>7. q \in [Dims(c) -> Nat] BY <1>3, <1>6
<1>8. q \in Points(c) BY <1>0, <1>6, <1>7, PointIs
<1>9. OnPlanes(c, lo, end, dirs, steps, q) BY <1>0, <1>1, <1>5 DEF OnPlanes
<1> QED BY <1>5, <1>8, <1>9

\* The corners are coded,
OnCorner(c, lo, end, dirs, long, steps, s, p, x) ==
  /\ OnStretches(c, lo, end, dirs, long, s) /\ OnBase(c, lo, end, dirs, long, steps, s, p)
  /\ x \in Corners(CenterBox(c, lo, end, long, s))

\* A corner is moved to a point the pass codes,
LEMMA CenterPointCoded ==
  ASSUME NEW c, NEW lo, NEW end, NEW dirs, NEW long, NEW steps, NEW s, NEW p, NEW x,
         OnCorner(c, lo, end, dirs, long, steps, s, p, x)
  PROVE  /\ CenterMove(c, long, s, p, x) \in CenterTarget(c, lo, end, dirs, steps, s)
         /\ \A d \in long : /\ x[d] \in Int /\ Position(lo[d], s, x[d]) >= 0 /\ Position(lo[d], s, x[d]) <= end[d]
                            /\ CenterMove(c, long, s, p, x)[d] = Position(lo[d], s, x[d])
         /\ \A d \in Dims(c) \ long : CenterMove(c, long, s, p, x)[d] = p[d]
<1> PICK q : q = CenterMove(c, long, s, p, x)
  OBVIOUS
<1>a. /\ OnStretches(c, lo, end, dirs, long, s) /\ OnBase(c, lo, end, dirs, long, steps, s, p)
      /\ x \in Corners(CenterBox(c, lo, end, long, s))
  BY DEF OnCorner
<1>0. /\ IsConfig(c) /\ s \in Nat \ {0} /\ long \subseteq dirs /\ dirs \subseteq Dims(c)
      /\ \A d \in Dims(c) : lo[d] \in Nat /\ end[d] \in Nat
  BY <1>a DEF OnStretches, OnCenter, IsBox
<1>1. x \in [long -> Nat] /\ \A d \in long : x[d] \in OddsOf(LineLength(lo, end, d, s))
  <2> PICK B : B = CenterBox(c, lo, end, long, s)
    OBVIOUS
  <2>1. DOMAIN B.len = long /\ \A d \in long : B.len[d] = LineLength(lo, end, d, s)
    BY DEF CenterBox
  <2>2. x \in [DOMAIN B.len -> Nat] /\ \A d \in DOMAIN B.len : x[d] \in OddsOf(B.len[d])
    BY <1>a DEF Corners
  <2> QED BY <2>1, <2>2
<1>2. ASSUME NEW d \in long
      PROVE  /\ x[d] \in Int /\ Position(lo[d], s, x[d]) \in lo[d] .. end[d]
             /\ OnOdd(Position(lo[d], s, x[d]), s)
  <2>1. Stretch(lo[d], end[d], s, LineLength(lo, end, d, s))
    BY <1>a, <1>0 DEF OnStretches
  <2>2. x[d] \in Int /\ x[d] >= 0 /\ x[d] < LineLength(lo, end, d, s) /\ ~(x[d] % 2 = 0)
    <3> PICK n \in Nat : n = LineLength(lo, end, d, s)
      BY <2>1 DEF Stretch
    <3>1. x[d] \in OddsOf(n) BY <1>1
    <3>2. x[d] \in 1 .. n - 1 /\ x[d] % 2 = 1 BY <3>1 DEF OddsOf
    <3> QED BY <3>2
  <2>3. /\ Position(lo[d], s, x[d]) \in Int /\ Position(lo[d], s, x[d]) <= end[d]
        /\ Position(lo[d], s, x[d]) >= lo[d]
    BY <2>1, <2>2 DEF Stretch
  <2>4. Position(lo[d], s, x[d]) \in lo[d] .. end[d] /\ Position(lo[d], s, x[d]) >= 0
    <3>1. lo[d] \in Nat /\ end[d] \in Nat BY <1>0
    <3> QED BY <2>3, <3>1
  <2>5. OnOdd(Position(lo[d], s, x[d]), s)
    <3>1. \A i \in Int : Position(lo[d], s, i) >= 0 =>
            IF i % 2 = 0 THEN OnEven(Position(lo[d], s, i), s) ELSE OnOdd(Position(lo[d], s, i), s)
      BY <2>1, Zenon DEF Stretch
    <3> QED BY <2>2, <2>4, <3>1, Zenon
  <2> QED BY <2>2, <2>4, <2>5
<1>3. \A d \in long : x[d] \in Int /\ Position(lo[d], s, x[d]) >= 0 /\ Position(lo[d], s, x[d]) <= end[d]
  BY <1>0, <1>2
<1>4. /\ q \in Points(c) /\ OnPlanes(c, lo, end, dirs, steps, q)
      /\ \A d \in long : q[d] = Position(lo[d], s, x[d])
      /\ \A d \in Dims(c) \ long : q[d] = p[d]
  <2>1. Moves(c, lo, end, dirs, long, steps, s, p, x, q) BY <1>a, <1>3 DEF Moves
  <2> QED BY <2>1, CenterMoved
<1>5. \A d \in dirs : q[d] \in lo[d] .. end[d] /\ OnOdd(q[d], s)
  BY <1>a, <1>0, <1>2, <1>4 DEF OnBase
<1>6. q \in CenterTarget(c, lo, end, dirs, steps, s)
  BY <1>4, <1>5 DEF CenterTarget
<1> QED BY <1>3, <1>4, <1>6

\* Steps after steps.
LEMMA CenterMovedTwice ==
  ASSUME NEW c, NEW lo, NEW end, NEW dirs, NEW long, NEW steps, NEW s, OnStretches(c, lo, end, dirs, long, s),
         NEW p, OnBase(c, lo, end, dirs, long, steps, s, p),
         NEW x, NEW o, \A d \in long : x[d] \in Int /\ o[d] \in Int,
         NEW y, \A d \in long : y[d] = x[d] + o[d]
  PROVE  CenterMove(c, long, s, CenterMove(c, long, s, p, x), o) = CenterMove(c, long, s, p, y)
<1> PICK q : q = CenterMove(c, long, s, p, x)
  OBVIOUS
<1>0. long \subseteq dirs /\ dirs \subseteq Dims(c) BY DEF OnStretches, OnCenter
<1>1. \A d \in Dims(c) : q[d] = IF d \in long THEN p[d] + s * x[d] ELSE p[d]
  BY DEF CenterMove
<1>2. ASSUME NEW d \in long PROVE q[d] + s * o[d] = p[d] + s * y[d]
  <2>1. p[d] = lo[d] /\ d \in Dims(c) BY <1>0 DEF OnBase
  <2>2. q[d] = Position(lo[d], s, x[d]) BY <1>1, <2>1 DEF Position
  <2>3. Position(lo[d], s, x[d]) + s * o[d] = Position(lo[d], s, x[d] + o[d])
    <3>1. \A i, h \in Int : Position(lo[d], s, i) + s * h = Position(lo[d], s, i + h)
      BY <1>0, Zenon DEF OnStretches, Stretch
    <3> QED BY <3>1, Zenon
  <2>4. p[d] + s * y[d] = Position(lo[d], s, x[d] + o[d])
    BY <2>1, Zenon DEF Position
  <2> QED BY <2>2, <2>3, <2>4, Zenon
<1>3. CenterMove(c, long, s, q, o) = [d \in Dims(c) |-> IF d \in long THEN q[d] + s * o[d] ELSE q[d]]
  BY Zenon DEF CenterMove
<1>4. CenterMove(c, long, s, p, y) = [d \in Dims(c) |-> IF d \in long THEN p[d] + s * y[d] ELSE p[d]]
  BY Zenon DEF CenterMove
<1>5. \A d \in Dims(c) : (IF d \in long THEN q[d] + s * o[d] ELSE q[d]) = IF d \in long THEN p[d] + s * y[d] ELSE p[d]
  BY <1>1, <1>2, Zenon
<1> QED BY <1>3, <1>4, <1>5, Zenon

\* and read,
Reading(c, lo, end, dirs, long, steps, s, p, B, x, o, r) ==
  /\ OnStretches(c, lo, end, dirs, long, s) /\ OnBase(c, lo, end, dirs, long, steps, s, p)
  /\ B = CenterBox(c, lo, end, long, s) /\ x \in Corners(B) /\ CenterRead(B, x, o)
  /\ r = CenterMove(c, long, s, CenterMove(c, long, s, p, x), o)

\* and what its kernel reads to a point coded before the pass or in it.
LEMMA CenterPointRead ==
  ASSUME NEW c, NEW lo, NEW end, NEW dirs, NEW long, NEW steps, NEW s, NEW p, NEW B, NEW x, NEW o, NEW r,
         Reading(c, lo, end, dirs, long, steps, s, p, B, x, o, r)
  PROVE  /\ \A y : (\A d \in long : y[d] = x[d] + o[d]) => CenterMove(c, long, s, p, y) = r
         /\ EvenRead(B, x, o) \/ (\E d \in DOMAIN B.len : x[d] + o[d] < 0)
              => r \in Points(c) /\ CenterReads(c, lo, end, dirs, steps, s, r)
<1> USE DEF Reading
<1>0. /\ IsConfig(c) /\ s \in Nat \ {0} /\ long \subseteq dirs /\ dirs \subseteq Dims(c)
      /\ \A d \in Dims(c) : lo[d] \in Nat /\ end[d] \in Nat
  BY DEF OnStretches, OnCenter, IsBox
<1>1. /\ DOMAIN B.len = long
      /\ \A d \in long : B.len[d] = LineLength(lo, end, d, s)
      /\ \A d \in long : B.start[d] = IF c.cross /\ lo[d] >= 2 * s THEN 1 ELSE 3
  BY DEF CenterBox
<1>2. \A d \in long : x[d] \in Int /\ o[d] \in Int
  <2>1. x \in [long -> Nat] /\ o \in [long -> Int]
    BY <1>1 DEF Corners, CenterRead
  <2> QED BY <2>1
<1>3. ASSUME NEW y, \A d \in long : y[d] = x[d] + o[d] PROVE CenterMove(c, long, s, p, y) = r
  BY <1>2, <1>3, CenterMovedTwice
<1> PICK z : z = [d \in long |-> x[d] + o[d]]
  OBVIOUS
<1>4. \A d \in long : z[d] = x[d] + o[d] /\ z[d] \in Int BY <1>2
<1>5. r = CenterMove(c, long, s, p, z) BY <1>3, <1>4
<1>6. ASSUME NEW d \in long
      PROVE  /\ Position(lo[d], s, z[d]) \in Nat /\ Position(lo[d], s, z[d]) <= end[d]
             /\ z[d] < 0 => Position(lo[d], s, z[d]) < lo[d]
             /\ IF z[d] % 2 = 0 THEN OnEven(Position(lo[d], s, z[d]), s) ELSE OnOdd(Position(lo[d], s, z[d]), s)
  <2>1. Stretch(lo[d], end[d], s, LineLength(lo, end, d, s))
    BY <1>0 DEF OnStretches
  <2>2. z[d] < LineLength(lo, end, d, s) /\ (z[d] >= 0 \/ (B.start[d] = 1 /\ z[d] >= -2))
    BY <1>1, <1>4 DEF CenterRead
  <2>3. /\ Position(lo[d], s, z[d]) \in Int /\ Position(lo[d], s, z[d]) <= end[d]
        /\ z[d] < 0 => Position(lo[d], s, z[d]) < lo[d]
        /\ z[d] >= 0 => Position(lo[d], s, z[d]) >= lo[d]
        /\ z[d] >= -2 => Position(lo[d], s, z[d]) >= lo[d] - 2 * s
    BY <1>4, <2>1, <2>2 DEF Stretch
  <2>4. Position(lo[d], s, z[d]) >= 0
    <3>1. lo[d] \in Nat BY <1>0
    <3>2. CASE z[d] >= 0 BY <2>3, <3>1, <3>2
    <3>3. CASE ~(z[d] >= 0)
      <4>1. z[d] >= -2 /\ lo[d] >= 2 * s BY <1>1, <2>2, <3>3
      <4> QED BY <1>0, <2>3, <3>1, <4>1
    <3> QED BY <3>2, <3>3
  <2>5. IF z[d] % 2 = 0 THEN OnEven(Position(lo[d], s, z[d]), s) ELSE OnOdd(Position(lo[d], s, z[d]), s)
    <3>1. \A i \in Int : Position(lo[d], s, i) >= 0 =>
            IF i % 2 = 0 THEN OnEven(Position(lo[d], s, i), s) ELSE OnOdd(Position(lo[d], s, i), s)
      BY <2>1, Zenon DEF Stretch
    <3> QED BY <1>4, <2>4, <3>1, Zenon
  <2>6. Position(lo[d], s, z[d]) \in Nat BY <2>3, <2>4
  <2> QED BY <2>3, <2>5, <2>6
<1>7. /\ r \in Points(c) /\ OnPlanes(c, lo, end, dirs, steps, r)
      /\ \A d \in long : r[d] = Position(lo[d], s, z[d])
      /\ \A d \in Dims(c) \ long : r[d] = p[d]
  <2>1. Moves(c, lo, end, dirs, long, steps, s, p, z, r)
    <3>1. \A d \in long : z[d] \in Int /\ Position(lo[d], s, z[d]) >= 0 /\ Position(lo[d], s, z[d]) <= end[d]
      BY <1>4, <1>6
    <3> QED BY <1>5, <3>1 DEF Moves
  <2> QED BY <2>1, CenterMoved
<1>8. ASSUME NEW d \in dirs PROVE r[d] <= end[d] /\ OnGrid(r[d], s)
  <2>1. CASE d \in long
    <3>1. r[d] \in Nat /\ r[d] <= end[d] /\ (OnEven(r[d], s) \/ OnOdd(r[d], s))
      BY <1>6, <1>7, <2>1, Zenon
    <3> QED BY <1>0, <3>1, GridPoints
  <2>2. CASE d \notin long
    <3>1. p[d] \in lo[d] .. end[d] /\ OnOdd(p[d], s) /\ r[d] = p[d]
      BY <1>0, <1>7, <2>2 DEF OnBase
    <3>2. r[d] \in Nat /\ r[d] <= end[d] /\ OnOdd(r[d], s) BY <1>0, <3>1
    <3> QED BY <1>0, <3>2, GridPoints
  <2> QED BY <2>1, <2>2
<1>9. ASSUME EvenRead(B, x, o) \/ (\E d \in DOMAIN B.len : x[d] + o[d] < 0)
      PROVE  r \in Points(c) /\ CenterReads(c, lo, end, dirs, steps, s, r)
  <2>1. PICK d \in long : z[d] % 2 = 0 \/ z[d] < 0
    BY <1>1, <1>4, <1>9 DEF EvenRead
  <2>2. OnEven(r[d], s) \/ r[d] < lo[d] BY <1>6, <1>7, <2>1, Zenon
  <2> QED BY <1>0, <1>7, <1>8, <2>2 DEF CenterReads
<1> QED BY <1>3, <1>9, Zenon

\* each once,
LEMMA CenterPointSame ==
  ASSUME NEW c, NEW lo, NEW end, NEW dirs, NEW long, NEW steps, NEW s, OnStretches(c, lo, end, dirs, long, s),
         NEW p, OnBase(c, lo, end, dirs, long, steps, s, p),
         NEW r, OnBase(c, lo, end, dirs, long, steps, s, r),
         NEW x, x \in Corners(CenterBox(c, lo, end, long, s)),
         NEW y, y \in Corners(CenterBox(c, lo, end, long, s)),
         CenterMove(c, long, s, p, x) = CenterMove(c, long, s, r, y)
  PROVE  p = r /\ x = y
<1> PICK q : q = CenterMove(c, long, s, p, x)
  OBVIOUS
<1>0. long \subseteq dirs /\ dirs \subseteq Dims(c) /\ IsConfig(c)
  BY DEF OnStretches, OnCenter, IsBox
<1>1. /\ \A d \in long : x[d] \in Int /\ q[d] = Position(lo[d], s, x[d])
      /\ \A d \in Dims(c) \ long : q[d] = p[d]
  <2>1. OnCorner(c, lo, end, dirs, long, steps, s, p, x) BY DEF OnCorner
  <2> QED BY <2>1, CenterPointCoded
<1>2. /\ \A d \in long : y[d] \in Int /\ q[d] = Position(lo[d], s, y[d])
      /\ \A d \in Dims(c) \ long : q[d] = r[d]
  <2>1. OnCorner(c, lo, end, dirs, long, steps, s, r, y) BY DEF OnCorner
  <2> QED BY <2>1, CenterPointCoded
<1>3. p = r
  <2>1. p \in Points(c) /\ r \in Points(c) /\ \A d \in long : p[d] = r[d]
    BY DEF OnBase
  <2>2. p \in [Dims(c) -> Nat] /\ r \in [Dims(c) -> Nat] BY <1>0, <2>1, PointIs
  <2>3. \A d \in Dims(c) : p[d] = r[d] BY <1>1, <1>2, <2>1
  <2> QED BY <2>2, <2>3
<1>4. x = y
  <2>1. x \in [long -> Nat] /\ y \in [long -> Nat]
    <3>1. DOMAIN CenterBox(c, lo, end, long, s).len = long BY DEF CenterBox
    <3> QED BY <3>1 DEF Corners
  <2>2. ASSUME NEW d \in long PROVE x[d] = y[d]
    <3>1. \A i, h \in Int : Position(lo[d], s, i) = Position(lo[d], s, h) => i = h
      BY <1>0, Zenon DEF OnStretches, Stretch
    <3>2. Position(lo[d], s, x[d]) = Position(lo[d], s, y[d]) BY <1>1, <1>2
    <3> QED BY <1>1, <1>2, <3>1, <3>2, Zenon
  <2> QED BY <2>1, <2>2
<1> QED BY <1>3, <1>4

\* and all of them.
LEMMA CenterPointFound ==
  ASSUME NEW c, NEW lo, NEW end, NEW dirs, NEW long, NEW steps, NEW s, OnStretches(c, lo, end, dirs, long, s),
         NEW q \in CenterTarget(c, lo, end, dirs, steps, s)
  PROVE  \E p, x : /\ OnBase(c, lo, end, dirs, long, steps, s, p)
                   /\ x \in Corners(CenterBox(c, lo, end, long, s))
                   /\ CenterMove(c, long, s, p, x) = q
<1>0. /\ IsConfig(c) /\ long \subseteq dirs /\ dirs \subseteq Dims(c)
      /\ \A d \in Dims(c) : lo[d] \in Nat /\ end[d] \in Nat /\ end[d] < c.dims[d]
  BY DEF OnStretches, OnCenter, IsBox
<1>1. /\ q \in Points(c) /\ OnPlanes(c, lo, end, dirs, steps, q)
      /\ \A d \in dirs : q[d] \in lo[d] .. end[d] /\ OnOdd(q[d], s)
  BY DEF CenterTarget
<1>2. q \in [Dims(c) -> Nat] /\ \A d \in Dims(c) : q[d] < c.dims[d] /\ c.dims[d] \in Nat
  BY <1>0, <1>1, PointIs
<1>3. ASSUME NEW d \in long PROVE \E i \in OddsOf(LineLength(lo, end, d, s)) : q[d] = Position(lo[d], s, i)
  <2>1. \A v \in Nat : v >= lo[d] /\ v <= end[d] /\ OnOdd(v, s) =>
          \E i \in OddsOf(LineLength(lo, end, d, s)) : v = Position(lo[d], s, i)
    BY <1>0, Zenon DEF OnStretches, Stretch
  <2>2. q[d] \in Nat /\ q[d] >= lo[d] /\ q[d] <= end[d] /\ OnOdd(q[d], s)
    BY <1>0, <1>1, <1>2
  <2> QED BY <2>1, <2>2
<1> PICK x : x = [d \in long |-> CHOOSE i \in OddsOf(LineLength(lo, end, d, s)) : q[d] = Position(lo[d], s, i)]
  OBVIOUS
<1>4. \A d \in long : x[d] \in OddsOf(LineLength(lo, end, d, s)) /\ q[d] = Position(lo[d], s, x[d])
  <2> SUFFICES ASSUME NEW d \in long
               PROVE  x[d] \in OddsOf(LineLength(lo, end, d, s)) /\ q[d] = Position(lo[d], s, x[d])
    OBVIOUS
  <2>1. x[d] = CHOOSE i \in OddsOf(LineLength(lo, end, d, s)) : q[d] = Position(lo[d], s, i)
    OBVIOUS
  <2> QED BY <1>3, <2>1, Zenon
<1>5. x \in Corners(CenterBox(c, lo, end, long, s))
  <2> PICK B : B = CenterBox(c, lo, end, long, s)
    OBVIOUS
  <2>1. DOMAIN B.len = long /\ \A d \in long : B.len[d] = LineLength(lo, end, d, s)
    BY DEF CenterBox
  <2>2. \A d \in long : x[d] \in Nat BY <1>4 DEF OddsOf
  <2>3. x \in [long -> Nat] BY <2>2
  <2>4. x \in Corners(B) BY <1>4, <2>1, <2>3 DEF Corners
  <2> QED BY <2>4
<1> PICK p : p = [d \in Dims(c) |-> IF d \in long THEN lo[d] ELSE q[d]]
  OBVIOUS
<1>6. \A d \in Dims(c) : p[d] = IF d \in long THEN lo[d] ELSE q[d] OBVIOUS
<1>7. OnBase(c, lo, end, dirs, long, steps, s, p)
  <2>1. \A d \in Dims(c) : p[d] \in Nat /\ p[d] < c.dims[d]
    <3>1. ASSUME NEW d \in long PROVE lo[d] \in Nat /\ lo[d] < c.dims[d]
      <4>1. lo[d] \in Nat /\ end[d] \in Nat /\ end[d] < c.dims[d] /\ q[d] \in lo[d] .. end[d] /\ c.dims[d] \in Nat
        BY <1>0, <1>1, <1>2
      <4> QED BY <4>1
    <3> QED BY <1>2, <1>6, <3>1
  <2>2. p \in [Dims(c) -> Nat] BY <2>1
  <2>3. p \in Points(c) BY <1>0, <2>1, <2>2, PointIs
  <2>4. OnPlanes(c, lo, end, dirs, steps, p) BY <1>0, <1>1, <1>6 DEF OnPlanes
  <2>5. \A d \in dirs \ long : p[d] \in lo[d] .. end[d] /\ OnOdd(p[d], s)
    BY <1>0, <1>1, <1>6
  <2> QED BY <1>0, <1>6, <2>3, <2>4, <2>5 DEF OnBase
<1>8. CenterMove(c, long, s, p, x) = q
  <2>1. CenterMove(c, long, s, p, x) = [d \in Dims(c) |-> IF d \in long THEN p[d] + s * x[d] ELSE p[d]]
    BY Zenon DEF CenterMove
  <2>2. ASSUME NEW d \in Dims(c) PROVE (IF d \in long THEN p[d] + s * x[d] ELSE p[d]) = q[d]
    <3>1. CASE d \in long
      <4>1. p[d] = lo[d] /\ q[d] = Position(lo[d], s, x[d]) BY <1>4, <1>6, <3>1
      <4> QED BY <3>1, <4>1, Zenon DEF Position
    <3>2. CASE d \notin long BY <1>6, <3>2, Zenon
    <3> QED BY <3>1, <3>2
  <2>3. q = [d \in Dims(c) |-> q[d]] BY <1>2
  <2>4. [d \in Dims(c) |-> IF d \in long THEN p[d] + s * x[d] ELSE p[d]] = [d \in Dims(c) |-> q[d]]
    BY <2>2, Zenon
  <2> QED BY <2>1, <2>3, <2>4, Zenon
<1> QED BY <1>5, <1>7, <1>8

\* The stencils' pass over the long directions.
LEMMA StencilPassFills ==
  ASSUME NEW c, NEW lo, NEW end, NEW dirs, NEW long, NEW steps, NEW s, OnStretches(c, lo, end, dirs, long, s),
         NEW L, L = CenterBox(c, lo, end, long, s), NEW ph, GoodCenter(ph, L),
         NEW bases, bases = BasesOf(c, lo, end, dirs, long, steps, s),
         NEW K, \A q \in Points(c) : CenterReads(c, lo, end, dirs, steps, s, q) => q \in K,
         NEW B, B = [k \in 1 .. Len(ph) |-> CenterBatch(c, bases, long, s, ph[k])]
  PROVE  Fills(B, K, CenterTarget(c, lo, end, dirs, steps, s))
<1> PICK T : T = CenterTarget(c, lo, end, dirs, steps, s)
  OBVIOUS
<1> DEFINE point(p, x) == CenterMove(c, long, s, p, x)
           event(p, x) == CenterEvent(c, long, s, p, x)
<1>0. OnCenter(c, lo, end, dirs, s) /\ long \subseteq dirs BY DEF OnStretches
<1>1. IsSeq(ph) /\ DOMAIN L.len = long BY DEF GoodCenter, CenterBox
<1> PICK N \in Nat : N = Len(ph)
  BY <1>1, LengthIs
<1>2. IsSeq(B) /\ Len(B) = N /\ \A k \in 1 .. N : B[k] = CenterBatch(c, bases, long, s, ph[k])
  <2>1. B = [k \in 1 .. N |-> B[k]] /\ \A k \in 1 .. N : B[k] = CenterBatch(c, bases, long, s, ph[k])
    OBVIOUS
  <2> QED BY <2>1, ListIs
<1>3. ASSUME NEW k \in 1 .. N, NEW e
      PROVE  e \in B[k] <=> \E p \in bases : \E x \in ph[k] : e = event(p, x)
  BY <1>2 DEF CenterBatch
<1>4. \A p, x : /\ event(p, x).at = point(p, x[1])
                /\ event(p, x).reads = {CenterMove(c, long, s, point(p, x[1]), o) : o \in x[2]}
                /\ event(p, x) = [at |-> event(p, x).at, reads |-> event(p, x).reads]
  BY DEF CenterEvent
<1>5. \A p \in bases : OnBase(c, lo, end, dirs, long, steps, s, p)
  BY <1>0, CenterBaseIs
<1>6. ASSUME NEW p \in bases, NEW x \in Corners(L) PROVE point(p, x) \in T
  <2>1. OnCorner(c, lo, end, dirs, long, steps, s, p, x) BY <1>5 DEF OnCorner
  <2> QED BY <2>1, CenterPointCoded
<1>7. ASSUME NEW p \in bases, NEW x \in Corners(L), NEW o, CenterRead(L, x, o),
             NEW r, r = CenterMove(c, long, s, point(p, x), o)
      PROVE  /\ \A y : (\A d \in long : y[d] = x[d] + o[d]) => point(p, y) = r
             /\ EvenRead(L, x, o) \/ (\E d \in long : x[d] + o[d] < 0) => r \in K
  <2>1. Reading(c, lo, end, dirs, long, steps, s, p, L, x, o, r)
    BY <1>5, <1>7 DEF Reading
  <2>2. /\ \A y : (\A d \in long : y[d] = x[d] + o[d]) => CenterMove(c, long, s, p, y) = r
        /\ EvenRead(L, x, o) \/ (\E d \in DOMAIN L.len : x[d] + o[d] < 0)
              => r \in Points(c) /\ CenterReads(c, lo, end, dirs, steps, s, r)
    BY <2>1, CenterPointRead
  <2> QED BY <1>1, <2>2
<1>8. ASSUME NEW p \in bases, NEW r \in bases, NEW x \in Corners(L), NEW y \in Corners(L), point(p, x) = point(r, y)
      PROVE  p = r /\ x = y
  BY <1>5, <1>8, CenterPointSame
<1>9. ASSUME NEW q \in T PROVE \E p \in bases : \E x \in Corners(L) : point(p, x) = q
  <2>1. PICK p, x : /\ OnBase(c, lo, end, dirs, long, steps, s, p)
                    /\ x \in Corners(L) /\ CenterMove(c, long, s, p, x) = q
    BY CenterPointFound
  <2>2. p \in bases BY <1>0, <2>1, CenterBaseIs
  <2> QED BY <2>1, <2>2
<1>10. /\ \A k \in 1 .. N : \A x \in ph[k] : x = <<x[1], x[2]>> /\ x[1] \in Corners(L)
       /\ \A y \in Corners(L) : \E k \in 1 .. N : \E x \in ph[k] : x[1] = y
       /\ \A j, k \in 1 .. N : \A x \in ph[j], y \in ph[k] : x[1] = y[1] => j = k /\ x = y
  BY Zenon DEF GoodCenter
<1>15. \A k \in 1 .. N : \A x \in ph[k] : \A o \in x[2] :
         /\ CenterRead(L, x[1], o)
         /\ \/ EvenRead(L, x[1], o)
            \/ \E d \in long : x[1][d] + o[d] < 0
            \/ \E j \in 1 .. k - 1 : \E y \in ph[j] : \A d \in long : y[1][d] = x[1][d] + o[d]
  <2>1. \A k \in 1 .. N : \A x \in ph[k] : \A o \in x[2] :
          /\ CenterRead(L, x[1], o)
          /\ \/ EvenRead(L, x[1], o)
             \/ \E d \in DOMAIN L.len : x[1][d] + o[d] < 0
             \/ \E j \in 1 .. k - 1 : \E y \in ph[j] : \A d \in DOMAIN L.len : y[1][d] = x[1][d] + o[d]
    BY Zenon DEF GoodCenter
  <2> QED BY <1>1, <2>1
<1> HIDE DEF event, point
<1>11. ASSUME NEW k \in 1 .. N, NEW e \in B[k]
       PROVE  /\ e = [at |-> e.at, reads |-> e.reads] /\ e.at \in T
              /\ \A r \in e.reads : r \in K \/ \E j \in 1 .. k - 1 : CodedAt(B, j, r)
  <2>1. PICK p \in bases : \E x \in ph[k] : e = event(p, x)
    BY <1>3
  <2>2. PICK x \in ph[k] : e = event(p, x)
    BY <2>1
  <2>3. /\ e.at = point(p, x[1]) /\ e.reads = {CenterMove(c, long, s, point(p, x[1]), o) : o \in x[2]}
        /\ e = [at |-> e.at, reads |-> e.reads]
    BY <1>4, <2>2
  <2>4. x[1] \in Corners(L) BY <1>10
  <2>5. e.at \in T BY <1>6, <2>3, <2>4
  <2>6. ASSUME NEW r \in e.reads PROVE r \in K \/ \E j \in 1 .. k - 1 : CodedAt(B, j, r)
    <3>1. PICK o \in x[2] : r = CenterMove(c, long, s, point(p, x[1]), o)
      BY <2>3
    <3>2. /\ CenterRead(L, x[1], o)
          /\ \/ EvenRead(L, x[1], o)
             \/ \E d \in long : x[1][d] + o[d] < 0
             \/ \E j \in 1 .. k - 1 : \E y \in ph[j] : \A d \in long : y[1][d] = x[1][d] + o[d]
      BY <1>15
    <3>3. /\ \A y : (\A d \in long : y[d] = x[1][d] + o[d]) => point(p, y) = r
          /\ EvenRead(L, x[1], o) \/ (\E d \in long : x[1][d] + o[d] < 0) => r \in K
      BY <1>7, <2>4, <3>1, <3>2
    <3>4. CASE \E j \in 1 .. k - 1 : \E y \in ph[j] : \A d \in long : y[1][d] = x[1][d] + o[d]
      <4>1. PICK j \in 1 .. k - 1 : \E y \in ph[j] : \A d \in long : y[1][d] = x[1][d] + o[d]
        BY <3>4
      <4>2. PICK y \in ph[j] : \A d \in long : y[1][d] = x[1][d] + o[d]
        BY <4>1
      <4>3. point(p, y[1]) = r BY <3>3, <4>2
      <4>4. j \in 1 .. N OBVIOUS
      <4>5. event(p, y) \in B[j] /\ event(p, y).at = r
        BY <1>3, <1>4, <4>2, <4>3, <4>4
      <4> QED BY <4>5 DEF CodedAt
    <3> QED BY <3>2, <3>3, <3>4
  <2> QED BY <2>3, <2>5, <2>6
<1>12. ASSUME NEW q \in T PROVE \E k \in 1 .. N : CodedAt(B, k, q)
  <2>1. PICK p \in bases : \E x \in Corners(L) : point(p, x) = q
    BY <1>9
  <2>2. PICK y \in Corners(L) : point(p, y) = q
    BY <2>1
  <2>3. PICK k \in 1 .. N : \E x \in ph[k] : x[1] = y
    BY <1>10
  <2>4. PICK x \in ph[k] : x[1] = y
    BY <2>3
  <2>5. event(p, x) \in B[k] /\ event(p, x).at = q BY <1>3, <1>4, <2>2, <2>4
  <2> QED BY <2>5 DEF CodedAt
<1>13. ASSUME NEW j \in 1 .. N, NEW k \in 1 .. N, NEW e \in B[j], NEW g \in B[k], e.at = g.at
       PROVE  j = k /\ e = g
  <2>1. PICK p \in bases : \E x \in ph[j] : e = event(p, x)
    BY <1>3
  <2>2. PICK x \in ph[j] : e = event(p, x)
    BY <2>1
  <2>3. PICK r \in bases : \E y \in ph[k] : g = event(r, y)
    BY <1>3
  <2>4. PICK y \in ph[k] : g = event(r, y)
    BY <2>3
  <2>5. x[1] \in Corners(L) /\ y[1] \in Corners(L) BY <1>10
  <2>6. point(p, x[1]) = point(r, y[1]) BY <1>4, <1>13, <2>2, <2>4
  <2>7. p = r /\ x[1] = y[1] BY <1>8, <2>5, <2>6
  <2>8. j = k /\ x = y BY <1>10, <2>7
  <2> QED BY <2>2, <2>4, <2>7, <2>8
<1>14. Fills(B, K, T)
  <2>1. \A k \in 1 .. N : \A e \in B[k] :
          /\ e = [at |-> e.at, reads |-> e.reads] /\ e.at \in T
          /\ \A r \in e.reads : r \in K \/ \E j \in 1 .. k - 1 : CodedAt(B, j, r)
    BY <1>11
  <2>2. \A q \in T : \E k \in 1 .. N : CodedAt(B, k, q) BY <1>12
  <2>3. \A j, k \in 1 .. N : \A e \in B[j], f \in B[k] : e.at = f.at => j = k /\ e = f
    BY <1>13
  <2> QED BY <1>2, <2>1, <2>2, <2>3, FillsIs
<1> QED BY <1>14

\* The stencils of the code are good ones.
LEMMA CenterPhasesGood ==
  ASSUME NEW meta, NEW short \in BOOLEAN, NEW L, IsCenter(L), short \/ IsLong(L)
  PROVE  GoodCenter(CenterPhases(meta, short, L), L)
<1>1. CASE short BY <1>1, CenterLinearGood DEF CenterPhases
<1>2. CASE ~short
  <2>1. IsLong(L) BY <1>2
  <2> QED BY <1>2, <2>1, CenterCubicGood, CenterCubicAdjGood DEF CenterPhases
<1> QED BY <1>1, <1>2

\* With one long direction the pass is one along it.
LEMMA CenterLineFills ==
  ASSUME NEW c, NEW meta, NEW lo, NEW end, NEW dirs, NEW steps, NEW s, OnCenter(c, lo, end, dirs, s),
         NEW dir \in dirs, NEW long, long = {dir},
         NEW from, from = FromOf(c, lo, dirs, long, s), NEW by, by = ByOf(c, dirs, long, steps, s),
         NEW K, \A q \in Points(c) : CenterReads(c, lo, end, dirs, steps, s, q) => q \in K
  PROVE  Fills(LinePass(c, meta, from, end, dir, by, s), K, CenterTarget(c, lo, end, dirs, steps, s))
<1>0. /\ IsBox(c, lo, end) /\ IsConfig(c) /\ s \in Nat \ {0} /\ dirs \subseteq Dims(c) /\ \A d \in dirs : OnEven(lo[d], s)
      /\ lo \in [Dims(c) -> Nat] /\ end \in [Dims(c) -> Nat]
      /\ \A d \in Dims(c) : lo[d] \in Nat /\ end[d] \in Nat /\ end[d] < c.dims[d]
  BY DEF OnCenter, IsBox
<1>1. \A d \in Dims(c) : /\ from[d] = IF d \in dirs \ {dir} THEN lo[d] + s ELSE lo[d]
                         /\ by[d] = IF d \in dirs \ {dir} THEN 2 * s ELSE steps[d]
  BY DEF FromOf, ByOf
<1>2. PICK b \in dirs : b # dir
  <2>1. CASE \E a, b \in Nat : a < b /\ dirs = {a, b}
    <3>1. PICK a \in Nat, b \in Nat : a < b /\ dirs = {a, b}
      BY <2>1
    <3> QED BY <3>1
  <2>2. CASE \E a, b, e \in Nat : a < b /\ b < e /\ dirs = {a, b, e}
    <3>1. PICK a \in Nat, b \in Nat, e \in Nat : a < b /\ b < e /\ dirs = {a, b, e}
      BY <2>2
    <3> QED BY <3>1
  <2> QED BY <2>1, <2>2 DEF OnCenter
<1>3. OnPass(c, from, end, dir, s)
  <2>1. \A d \in Dims(c) : from[d] \in Nat
    <3> SUFFICES ASSUME NEW d \in Dims(c) PROVE from[d] \in Nat
      OBVIOUS
    <3>1. lo[d] \in Nat /\ lo[d] + s \in Nat BY <1>0
    <3> QED BY <1>1, <3>1
  <2>2. from \in [Dims(c) -> Nat] BY <2>1 DEF FromOf
  <2>3. IsBox(c, from, end) BY <1>0, <2>2 DEF IsBox
  <2>4. from[dir] = lo[dir] /\ dir \in Dims(c) BY <1>0, <1>1
  <2>5. from[dir] % (2 * s) = 0 BY <1>0, <2>4 DEF OnEven
  <2> QED BY <1>0, <2>3, <2>4, <2>5 DEF OnPass
<1>4. \A q \in Points(c) : q \in [Dims(c) -> Nat] BY <1>0, PointIs
<1>5. ASSUME NEW q \in Points(c)
      PROVE  OnLines(c, from, end, dir, by, q)
               <=> /\ OnPlanes(c, lo, end, dirs, steps, q)
                   /\ \A d \in dirs \ {dir} : q[d] \in lo[d] .. end[d] /\ OnOdd(q[d], s)
  <2>1. OnLines(c, from, end, dir, by, q)
          <=> \A d \in Dims(c) \ {dir} : q[d] \in from[d] .. end[d] /\ OnStep(q[d], from[d], by[d])
    BY Zenon DEF OnLines, OnStep
  <2>2. ASSUME NEW d \in Dims(c) \ {dir}
        PROVE  q[d] \in from[d] .. end[d] /\ OnStep(q[d], from[d], by[d])
                 <=> IF d \in dirs THEN q[d] \in lo[d] .. end[d] /\ OnOdd(q[d], s)
                     ELSE q[d] \in lo[d] .. end[d] /\ OnStep(q[d], lo[d], steps[d])
    <3>1. CASE d \in dirs
      <4>1. q[d] \in Nat /\ lo[d] \in Nat /\ end[d] \in Nat /\ OnEven(lo[d], s)
        BY <1>0, <1>4, <3>1
      <4>2. q[d] \in lo[d] + s .. end[d] /\ OnStep(q[d], lo[d] + s, 2 * s)
              <=> q[d] \in lo[d] .. end[d] /\ OnOdd(q[d], s)
        BY <1>0, <4>1, OddSide
      <4>3. from[d] = lo[d] + s /\ by[d] = 2 * s BY <1>1, <3>1
      <4> QED BY <3>1, <4>2, <4>3
    <3>2. CASE d \notin dirs BY <1>1, <3>2
    <3> QED BY <3>1, <3>2
  <2>3. OnLines(c, from, end, dir, by, q)
          <=> \A d \in Dims(c) \ {dir} : IF d \in dirs THEN q[d] \in lo[d] .. end[d] /\ OnOdd(q[d], s)
                                        ELSE q[d] \in lo[d] .. end[d] /\ OnStep(q[d], lo[d], steps[d])
    BY <2>1, <2>2, Zenon
  <2> QED BY <1>0, <2>3 DEF OnPlanes
<1>6. from[dir] = lo[dir] /\ dir \in Dims(c) BY <1>0, <1>1
<1>7. LineTarget(c, from, end, dir, by, s) = CenterTarget(c, lo, end, dirs, steps, s)
  <2>1. ASSUME NEW q PROVE q \in LineTarget(c, from, end, dir, by, s) <=> q \in CenterTarget(c, lo, end, dirs, steps, s)
    <3>1. q \in LineTarget(c, from, end, dir, by, s)
            <=> /\ q \in Points(c) /\ OnLines(c, from, end, dir, by, q)
                /\ q[dir] \in lo[dir] .. end[dir] /\ OnOdd(q[dir], s)
      BY <1>6, Zenon DEF LineTarget, OnOdd
    <3>2. q \in CenterTarget(c, lo, end, dirs, steps, s)
            <=> /\ q \in Points(c) /\ OnPlanes(c, lo, end, dirs, steps, q)
                /\ \A d \in dirs : q[d] \in lo[d] .. end[d] /\ OnOdd(q[d], s)
      BY Zenon DEF CenterTarget
    <3> QED BY <1>5, <3>1, <3>2
  <2> QED BY <2>1
<1>8. ASSUME NEW q \in Points(c), LineReads(c, from, end, dir, by, s, q) PROVE q \in K
  <2>1. /\ OnLines(c, from, end, dir, by, q) /\ OnEven(q[dir], s)
        /\ q[dir] <= end[dir] \/ \A d \in Dims(c) \ {dir} : OnEven(q[d], s)
    BY <1>8, Zenon DEF LineReads, OnEven
  <2>2. /\ OnPlanes(c, lo, end, dirs, steps, q)
        /\ \A d \in dirs \ {dir} : q[d] \in lo[d] .. end[d] /\ OnOdd(q[d], s)
    BY <1>5, <2>1
  <2>3. q[dir] <= end[dir]
    <3>1. q[b] \in Nat /\ OnOdd(q[b], s) /\ b \in Dims(c) \ {dir}
      BY <1>0, <1>2, <1>4, <2>2
    <3>2. ~OnEven(q[b], s) BY <1>0, <3>1, GridPoints
    <3> QED BY <2>1, <3>1, <3>2
  <2>4. \A d \in dirs : q[d] <= end[d] /\ OnGrid(q[d], s)
    <3>1. ASSUME NEW d \in dirs PROVE q[d] <= end[d] /\ OnGrid(q[d], s)
      <4>1. q[d] \in Nat /\ (OnEven(q[d], s) \/ OnOdd(q[d], s))
        BY <1>0, <1>4, <2>1, <2>2
      <4>2. OnGrid(q[d], s) BY <1>0, <4>1, GridPoints
      <4>3. q[d] <= end[d] BY <1>0, <2>2, <2>3, <4>1
      <4> QED BY <4>2, <4>3
    <3> QED BY <3>1
  <2>5. CenterReads(c, lo, end, dirs, steps, s, q)
    BY <2>1, <2>2, <2>4 DEF CenterReads
  <2> QED BY <2>5
<1>9. Fills(LinePass(c, meta, from, end, dir, by, s), K, LineTarget(c, from, end, dir, by, s))
  BY <1>3, <1>8, LinePassFills
<1> QED BY <1>7, <1>9

\* A pass around the center fills the points between the coarser ones in its directions.
LEMMA CenterPassFills ==
  ASSUME NEW c, NEW meta, NEW lo, NEW end, NEW dirs, NEW steps, NEW s, OnCenter(c, lo, end, dirs, s),
         NEW K, \A q \in Points(c) : CenterReads(c, lo, end, dirs, steps, s, q) => q \in K
  PROVE  Fills(CenterPass(c, meta, lo, end, dirs, steps, s), K, CenterTarget(c, lo, end, dirs, steps, s))
<1> PICK T : T = CenterTarget(c, lo, end, dirs, steps, s)
  OBVIOUS
<1> PICK B : B = CenterPass(c, meta, lo, end, dirs, steps, s)
  OBVIOUS
<1> PICK short \in BOOLEAN : short = ShortOf(c, meta, lo, end, dirs, s)
  BY DEF ShortOf
<1> PICK long : long = LongOf(c, meta, lo, end, dirs, s)
  OBVIOUS
<1> PICK from : from = FromOf(c, lo, dirs, long, s)
  OBVIOUS
<1> PICK by : by = ByOf(c, dirs, long, steps, s)
  OBVIOUS
<1> PICK bases : bases = CenterBases(c, from, end, long, by)
  OBVIOUS
<1> PICK L : L = CenterBox(c, lo, end, long, s)
  OBVIOUS
<1> PICK ph : ph = CenterPhases(meta, short, L)
  OBVIOUS
<1> PICK dir : dir = CHOOSE d \in long : TRUE
  OBVIOUS
<1>0. /\ IsConfig(c) /\ s \in Nat \ {0} /\ dirs \subseteq Dims(c) /\ \A d \in dirs : OnEven(lo[d], s)
      /\ \A d \in Dims(c) : lo[d] \in Nat /\ end[d] \in Nat
  BY DEF OnCenter, IsBox
<1>1. B = IF (\E d \in Dims(c) : end[d] < lo[d]) \/ (\E d \in dirs : LineLength(lo, end, d, s) <= 1) THEN <<>>
          ELSE IF Cardinality(long) = 1
               THEN LinePass(c, meta, from, end, dir, by, s)
               ELSE [k \in 1 .. Len(ph) |-> CenterBatch(c, bases, long, s, ph[k])]
  <2>1. CenterParts(c, meta, lo, end, dirs, steps, s, short, long, from, by, bases, ph, dir)
    BY DEF CenterParts
  <2> QED BY <2>1, CenterPassIs
<1>2. \A q \in T : \A d \in Dims(c) : q[d] \in lo[d] .. end[d]
  BY <1>0 DEF CenterTarget, OnPlanes
<1>3. CASE \E d \in Dims(c) : end[d] < lo[d]
  <2>1. T = {}
    <3> SUFFICES ASSUME NEW q \in T PROVE FALSE
      OBVIOUS
    <3>1. PICK d \in Dims(c) : end[d] < lo[d]
      BY <1>3
    <3>2. q[d] \in lo[d] .. end[d] BY <1>2
    <3> QED BY <1>0, <3>1, <3>2
  <2>2. B = <<>> BY <1>1, <1>3
  <2> QED BY <2>1, <2>2, FillsNothing
<1>4. CASE ~(\E d \in Dims(c) : end[d] < lo[d])
  <2>1. \A d \in Dims(c) : lo[d] <= end[d] BY <1>0, <1>4
  <2>2. ASSUME NEW d \in dirs PROVE Stretch(lo[d], end[d], s, LineLength(lo, end, d, s))
    <3>1. /\ lo[d] \in Nat /\ end[d] \in Nat /\ lo[d] <= end[d]
          /\ lo[d] % (2 * s) = 0
      BY <1>0, <2>1 DEF OnEven
    <3>2. LineLength(lo, end, d, s) = ((end[d] - lo[d]) \div s) + 1
      BY DEF LineLength
    <3> QED BY <1>0, <3>1, <3>2, StretchIs
  <2>3. \A d \in dirs : LineLength(lo, end, d, s) \in Nat BY <2>2 DEF Stretch
  <2>4. CASE \E d \in dirs : LineLength(lo, end, d, s) <= 1
    <3>1. PICK d \in dirs : LineLength(lo, end, d, s) <= 1
      BY <2>4
    <3>2. T = {}
      <4> SUFFICES ASSUME NEW q \in T PROVE FALSE
        OBVIOUS
      <4>1. q \in Points(c) /\ q[d] \in lo[d] .. end[d] /\ OnOdd(q[d], s)
        BY DEF CenterTarget
      <4>2. q[d] \in Nat /\ q[d] >= lo[d] /\ q[d] <= end[d]
        BY <1>0, <4>1, PointIs
      <4>3. \A v \in Nat : v >= lo[d] /\ v <= end[d] /\ OnOdd(v, s) =>
              \E i \in OddsOf(LineLength(lo, end, d, s)) : v = Position(lo[d], s, i)
        BY <2>2, Zenon DEF Stretch
      <4>4. PICK i : i \in OddsOf(LineLength(lo, end, d, s))
        BY <4>1, <4>2, <4>3
      <4>5. i \in 1 .. LineLength(lo, end, d, s) - 1 BY <4>4 DEF OddsOf
      <4> QED BY <2>3, <3>1, <4>5
    <3>3. B = <<>> BY <1>1, <2>4
    <3> QED BY <3>2, <3>3, FillsNothing
  <2>5. CASE ~(\E d \in dirs : LineLength(lo, end, d, s) <= 1)
    <3>1. \A d \in dirs : LineLength(lo, end, d, s) >= 2
      <4> SUFFICES ASSUME NEW d \in dirs PROVE LineLength(lo, end, d, s) >= 2
        OBVIOUS
      <4> PICK n \in Nat : n = LineLength(lo, end, d, s)
        BY <2>3
      <4>1. ~(n <= 1) BY <2>5
      <4> QED BY <4>1
    <3>2. /\ long \subseteq dirs
          /\ \/ \E d \in dirs : long = {d} /\ Cardinality(long) = 1
             \/ Cardinality(long) # 1 /\ IsCenter(L) /\ (short \/ IsLong(L))
      BY <2>1, <3>1, LongIs
    <3>3. B = IF Cardinality(long) = 1 THEN LinePass(c, meta, from, end, dir, by, s)
              ELSE [k \in 1 .. Len(ph) |-> CenterBatch(c, bases, long, s, ph[k])]
      BY <1>1, <1>4, <2>5, Zenon
    <3>4. CASE \E d \in dirs : long = {d} /\ Cardinality(long) = 1
      <4>1. dir \in dirs /\ long = {dir} /\ Cardinality(long) = 1
        <5>1. PICK d \in dirs : long = {d} /\ Cardinality(long) = 1
          BY <3>4
        <5>2. dir = d BY <5>1
        <5> QED BY <5>1, <5>2
      <4>3. B = LinePass(c, meta, from, end, dir, by, s) BY <3>3, <4>1
      <4>4. Fills(LinePass(c, meta, from, end, dir, by, s), K, T)
        BY <4>1, CenterLineFills
      <4> QED BY <4>3, <4>4
    <3>5. CASE Cardinality(long) # 1 /\ IsCenter(L) /\ (short \/ IsLong(L))
      <4>1. GoodCenter(ph, L) BY <3>5, CenterPhasesGood
      <4>2. OnStretches(c, lo, end, dirs, long, s) BY <2>2, <3>2 DEF OnStretches
      <4>3. bases = BasesOf(c, lo, end, dirs, long, steps, s)
        BY Zenon DEF BasesOf
      <4>4. B = [k \in 1 .. Len(ph) |-> CenterBatch(c, bases, long, s, ph[k])]
        BY <3>3, <3>5, Zenon
      <4>5. Fills(B, K, T) BY <4>1, <4>2, <4>3, <4>4, StencilPassFills
      <4> QED BY <4>5
    <3> QED BY <3>2, <3>4, <3>5
  <2> QED BY <2>4, <2>5
<1> QED BY <1>3, <1>4

-----------------------------------------------------------------------------
(* Blocks.                                                                 *)

Free(c) == Dims(c) \ {c.frozen}

OnBlock(c, start, end, s) ==
  IsBox(c, start, end) /\ s \in Nat \ {0} /\ \A d \in Dims(c) : OnEven(start[d], s)

\* The block has the points behind its first ones, which the blocks before it have.
OwnAt(start, end, q, d) == q[d] \in start[d] .. end[d] /\ (q[d] = start[d] => start[d] = 0)

Own(c, start, end, q) == \A d \in Dims(c) : OwnAt(start, end, q, d)

IsFine(c, s, q) == \A d \in Free(c) : OnGrid(q[d], s)

OddAt(c, s, q) == {d \in Free(c) : OnOdd(q[d], s)}

BlockTarget(c, start, end, s) ==
  {q \in Points(c) : Own(c, start, end, q) /\ IsFine(c, s, q) /\ OddAt(c, s, q) # {}}

\* What is coded before a block: the coarser grid, and the blocks before it.
Ready(c, start, end, s, R) ==
  /\ \A q \in Points(c) : IsFine(c, s, q) /\ OddAt(c, s, q) = {} => q \in R
  /\ \A q \in Points(c) :
       IsFine(c, s, q) /\ (\A d \in Dims(c) : q[d] <= end[d]) /\ ~Own(c, start, end, q) => q \in R

\* and After begins with the first of them that is not coded yet.
LEMMA AfterIs ==
  ASSUME NEW start \in Nat, NEW end \in Nat, NEW step \in Nat \ {0}, OnSteps(start, step), NEW v \in Nat
  PROVE  v \in After(start, step) .. end /\ OnStep(v, After(start, step), step)
           <=> v \in start .. end /\ (v = start => start = 0) /\ OnSteps(v, step)
<1>1. CASE start = 0
  <2>1. After(start, step) = 0 BY <1>1 DEF After
  <2>2. OnStep(v, 0, step) <=> OnSteps(v, step)
    <3>1. v - 0 = v OBVIOUS
    <3> QED BY <3>1 DEF OnStep, OnSteps
  <2> QED BY <1>1, <2>1, <2>2
<1>2. CASE start # 0
  <2> PICK u \in Nat : u = start + step
    OBVIOUS
  <2>1. After(start, step) = u BY <1>2 DEF After
  <2>2. OnSteps(u, step)
    <3> PICK a \in Nat : start = a * step
      BY MultipleIs
    <3>1. u = (a + 1) * step /\ a + 1 \in Nat
      <4>1. (a + 1) * step = a * step + step OBVIOUS
      <4> QED BY <4>1
    <3> QED BY <3>1, MultipleIs
  <2>3. v >= u => (OnStep(v, u, step) <=> OnSteps(v, step))
    <3> SUFFICES ASSUME v >= u PROVE OnStep(v, u, step) <=> OnSteps(v, step)
      OBVIOUS
    <3>1. OnSteps(v, step) <=> OnSteps(v - u, step) BY <2>2, MultiplesDiffer
    <3>2. OnStep(v, u, step) <=> OnSteps(v - u, step) BY DEF OnStep, OnSteps
    <3> QED BY <3>1, <3>2
  <2>4. OnSteps(v, step) /\ v >= start /\ v # start => v >= u BY MultiplesDiffer
  <2>5. ASSUME v \in u .. end, OnStep(v, u, step)
        PROVE  v \in start .. end /\ (v = start => start = 0) /\ OnSteps(v, step)
    BY <2>3, <2>5
  <2>6. ASSUME v \in start .. end, v = start => start = 0, OnSteps(v, step)
        PROVE  v \in u .. end /\ OnStep(v, u, step)
    BY <1>2, <2>3, <2>4, <2>6
  <2> QED BY <2>1, <2>5, <2>6
<1> QED BY <1>1, <1>2

\* The permutations are finitely many,
LEMMA OrdersFinite ==
  ASSUME NEW n \in Nat
  PROVE  IsFiniteSet(Orders(n))
<1> DEFINE graph == [p \in Orders(n) |-> {<<i, p[i]>> : i \in 1 .. n}]
           S == SUBSET ((1 .. n) \X (1 .. n))
<1>1. IsFiniteSet(S)
  <2>1. IsFiniteSet(1 .. n) BY FS_Interval
  <2> QED BY <2>1, FS_Product, FS_SUBSET
<1>2. \A p \in Orders(n) : p \in [1 .. n -> 1 .. n] BY DEF Orders
<1>3. \A p \in Orders(n) : graph[p] \in S
  <2> SUFFICES ASSUME NEW p \in Orders(n) PROVE {<<i, p[i]>> : i \in 1 .. n} \in S
    OBVIOUS
  <2>1. \A i \in 1 .. n : p[i] \in 1 .. n BY <1>2
  <2> QED BY <2>1
<1>4. \A p, q \in Orders(n) : graph[p] = graph[q] => p = q
  <2> SUFFICES ASSUME NEW p \in Orders(n), NEW q \in Orders(n), graph[p] = graph[q] PROVE p = q
    OBVIOUS
  <2>1. {<<i, p[i]>> : i \in 1 .. n} = {<<i, q[i]>> : i \in 1 .. n} OBVIOUS
  <2>2. ASSUME NEW i \in 1 .. n PROVE p[i] = q[i]
    <3>1. <<i, p[i]>> \in {<<h, q[h]>> : h \in 1 .. n} BY <2>1
    <3>2. PICK h \in 1 .. n : <<i, p[i]>> = <<h, q[h]>>
      BY <3>1
    <3> QED BY <3>2
  <2>3. p \in [1 .. n -> 1 .. n] /\ q \in [1 .. n -> 1 .. n] BY <1>2
  <2> QED BY <2>2, <2>3
<1>5. graph \in [Orders(n) -> S] BY <1>3
<1> HIDE DEF graph, S
<1>6. graph \in Injection(Orders(n), S) BY <1>4, <1>5 DEF Injection, IsInjective
<1> QED BY <1>1, <1>6, FS_Injection

\* and lexicographically ordered.
LEMMA LesserIs ==
  ASSUME NEW n \in Nat, NEW p \in Orders(n), NEW q \in Orders(n)
  PROVE  /\ ~Lesser(n, p, p)
         /\ p # q => Lesser(n, p, q) \/ Lesser(n, q, p)
         /\ \A r \in Orders(n) : Lesser(n, p, q) /\ Lesser(n, q, r) => Lesser(n, p, r)
<1>0. \A r \in Orders(n) : r \in [1 .. n -> 1 .. n] /\ \A i \in 1 .. n : r[i] \in Int
  <2> SUFFICES ASSUME NEW r \in Orders(n)
               PROVE  r \in [1 .. n -> 1 .. n] /\ \A i \in 1 .. n : r[i] \in Int
    OBVIOUS
  <2>1. r \in [1 .. n -> 1 .. n] BY DEF Orders
  <2>2. \A i \in 1 .. n : r[i] \in 1 .. n BY <2>1
  <2> QED BY <2>1, <2>2
<1>1. ~Lesser(n, p, p) BY <1>0 DEF Lesser
<1>2. ASSUME p # q PROVE Lesser(n, p, q) \/ Lesser(n, q, p)
  <2> DEFINE D == {i \in 1 .. n : p[i] # q[i]}
  <2>1. D # {}
    <3> SUFFICES ASSUME \A i \in 1 .. n : p[i] = q[i] PROVE FALSE
      OBVIOUS
    <3>1. p = q BY <1>0
    <3> QED BY <1>2, <3>1
  <2>2. PICK i \in D : \A h \in D : i <= h
    <3>1. D \in SUBSET Nat OBVIOUS
    <3> HIDE DEF D
    <3> QED BY <2>1, <3>1, Least
  <2>3. i \in 1 .. n /\ p[i] # q[i] /\ \A j \in 1 .. (i - 1) : p[j] = q[j]
    <3>1. i \in 1 .. n /\ p[i] # q[i] OBVIOUS
    <3>2. ASSUME NEW j \in 1 .. (i - 1) PROVE p[j] = q[j]
      <4>1. j \in 1 .. n /\ ~(i <= j) BY <3>1
      <4>2. j \notin D BY <2>2, <4>1
      <4> QED BY <4>1, <4>2
    <3> QED BY <3>1, <3>2
  <2>4. p[i] < q[i] \/ q[i] < p[i] BY <1>0, <2>3
  <2>5. \A j \in 1 .. (i - 1) : q[j] = p[j] BY <2>3
  <2> QED BY <2>3, <2>4, <2>5, Zenon DEF Lesser
<1>3. ASSUME NEW r \in Orders(n), Lesser(n, p, q), Lesser(n, q, r) PROVE Lesser(n, p, r)
  <2>1. PICK i \in 1 .. n : p[i] < q[i] /\ \A j \in 1 .. (i - 1) : p[j] = q[j]
    BY <1>3, Zenon DEF Lesser
  <2>2. PICK h \in 1 .. n : q[h] < r[h] /\ \A j \in 1 .. (h - 1) : q[j] = r[j]
    BY <1>3, Zenon DEF Lesser
  <2>3. PICK m \in {i, h} : m <= i /\ m <= h
    <3>1. i <= h \/ h <= i OBVIOUS
    <3>2. i <= i /\ h <= h OBVIOUS
    <3> QED BY <3>1, <3>2
  <2>4. \A j \in 1 .. (m - 1) : p[j] = r[j]
    <3> SUFFICES ASSUME NEW j \in 1 .. (m - 1) PROVE p[j] = r[j]
      OBVIOUS
    <3>1. j \in 1 .. (i - 1) /\ j \in 1 .. (h - 1) BY <2>3
    <3> QED BY <2>1, <2>2, <3>1
  <2>5. m \in 1 .. n BY <2>3
  <2>6. p[m] < r[m]
    <3>1. p[m] \in Int /\ q[m] \in Int /\ r[m] \in Int BY <1>0, <2>5
    <3>2. p[m] < q[m] \/ p[m] = q[m]
      <4>1. m = i \/ m \in 1 .. (i - 1) BY <2>3
      <4> QED BY <2>1, <4>1
    <3>3. q[m] < r[m] \/ q[m] = r[m]
      <4>1. m = h \/ m \in 1 .. (h - 1) BY <2>3
      <4> QED BY <2>2, <4>1
    <3>4. p[m] < q[m] \/ q[m] < r[m] BY <2>1, <2>2, <2>3
    <3> QED BY <3>1, <3>2, <3>3, <3>4
  <2> QED BY <2>4, <2>5, <2>6, Zenon DEF Lesser
<1> QED BY <1>1, <1>2, <1>3

\* So there is one for every number.
Below(n, p) == {q \in Orders(n) : Lesser(n, q, p)}

\* dimension_sequences chooses such an order.
LEMMA RanksFound ==
  ASSUME NEW n \in Nat, NEW k \in Nat, k < Cardinality(Orders(n)), NEW dims, dims = dimension_sequences(n, k)
  PROVE  dims \in Orders(n) /\ Cardinality(Below(n, dims)) = k
<1>0. IsFiniteSet(Orders(n)) BY OrdersFinite
<1> PICK N \in Nat : N = Cardinality(Orders(n))
  BY <1>0, FS_CardinalityType
<1>1. ASSUME NEW p \in Orders(n)
      PROVE  IsFiniteSet(Below(n, p)) /\ Cardinality(Below(n, p)) \in 0 .. N - 1
  <2>1. Below(n, p) \in SUBSET Orders(n) /\ p \notin Below(n, p)
    BY LesserIs DEF Below
  <2>2. IsFiniteSet(Below(n, p)) /\ Cardinality(Below(n, p)) <= N /\ Cardinality(Below(n, p)) # N
    BY <1>0, <2>1, FS_Subset
  <2>3. Cardinality(Below(n, p)) \in Nat BY <2>2, FS_CardinalityType
  <2> QED BY <2>2, <2>3
<1>2. ASSUME NEW p \in Orders(n), NEW q \in Orders(n), Lesser(n, p, q)
      PROVE  Cardinality(Below(n, p)) # Cardinality(Below(n, q))
  <2>1. Below(n, p) \in SUBSET Below(n, q)
    <3> SUFFICES ASSUME NEW r \in Below(n, p) PROVE r \in Below(n, q)
      OBVIOUS
    <3>1. r \in Orders(n) /\ Lesser(n, r, p) BY DEF Below
    <3>2. Lesser(n, r, q) BY <1>2, <3>1, LesserIs
    <3> QED BY <3>1, <3>2 DEF Below
  <2>2. p \in Below(n, q) /\ p \notin Below(n, p) BY <1>2, LesserIs DEF Below
  <2>3. IsFiniteSet(Below(n, q)) BY <1>1
  <2> QED BY <2>1, <2>2, <2>3, FS_Subset
<1> DEFINE rank == [p \in Orders(n) |-> Cardinality(Below(n, p))]
<1>3. rank \in [Orders(n) -> 0 .. N - 1] BY <1>1
<1>4. \A p, q \in Orders(n) : rank[p] = rank[q] => p = q
  <2> SUFFICES ASSUME NEW p \in Orders(n), NEW q \in Orders(n), rank[p] = rank[q], p # q PROVE FALSE
    OBVIOUS
  <2>1. Lesser(n, p, q) \/ Lesser(n, q, p) BY LesserIs
  <2> QED BY <1>2, <2>1
<1>5. \A p \in Orders(n) : rank[p] = Cardinality(Below(n, p)) OBVIOUS
<1> HIDE DEF rank
<1>6. rank \in Injection(Orders(n), 0 .. N - 1)
  BY <1>3, <1>4 DEF Injection, IsInjective
<1>7. IsFiniteSet(0 .. N - 1) /\ Cardinality(0 .. N - 1) = N
  <2>1. 0 \in Int /\ N - 1 \in Int OBVIOUS
  <2>2. IsFiniteSet(0 .. N - 1) /\ Cardinality(0 .. N - 1) = IF 0 > N - 1 THEN 0 ELSE (N - 1) - 0 + 1
    BY <2>1, FS_Interval
  <2> QED BY <2>2
<1>8. rank \in Surjection(Orders(n), 0 .. N - 1) BY <1>6, <1>7, FS_Injection
<1>9. k \in 0 .. N - 1 OBVIOUS
<1>10. PICK p \in Orders(n) : rank[p] = k
  BY <1>8, <1>9 DEF Surjection
<1>11. \E q \in Orders(n) : Cardinality({r \in Orders(n) : Lesser(n, r, q)}) = k
  BY <1>5, <1>10, Zenon DEF Below
<1>12. dims \in Orders(n) /\ Cardinality({r \in Orders(n) : Lesser(n, r, dims)}) = k
  BY <1>11, Zenon DEF dimension_sequences
<1> QED BY <1>12, Zenon DEF Below

\* The six permutations of three dimensions, in their order.
Entry(i, d) ==
  CASE d = 1 -> IF i <= 2 THEN 1 ELSE IF i <= 4 THEN 2 ELSE 3
    [] d = 2 -> IF i \in {3, 5} THEN 1 ELSE IF i \in {1, 6} THEN 2 ELSE 3
    [] d = 3 -> IF i \in {4, 6} THEN 1 ELSE IF i \in {2, 5} THEN 2 ELSE 3

ThreeOf(i) == [d \in 1 .. 3 |-> Entry(i, d)]

\* These are all orders of three directions, in ascending order.
LEMMA OrdersOfThree ==
  /\ \A i \in 1 .. 6 : ThreeOf(i) \in Orders(3)
  /\ \A p \in Orders(3) : \E i \in 1 .. 6 : p = ThreeOf(i)
  /\ \A i, j \in 1 .. 6 : Lesser(3, ThreeOf(i), ThreeOf(j)) <=> i < j
<1>1. \A i \in 1 .. 6 : /\ Entry(i, 1) = (IF i <= 2 THEN 1 ELSE IF i <= 4 THEN 2 ELSE 3)
                        /\ Entry(i, 2) = (IF i \in {3, 5} THEN 1 ELSE IF i \in {1, 6} THEN 2 ELSE 3)
                        /\ Entry(i, 3) = (IF i \in {4, 6} THEN 1 ELSE IF i \in {2, 5} THEN 2 ELSE 3)
  BY DEF Entry
<1>2. \A i : /\ ThreeOf(i)[1] = Entry(i, 1) /\ ThreeOf(i)[2] = Entry(i, 2) /\ ThreeOf(i)[3] = Entry(i, 3)
             /\ ThreeOf(i) = [d \in 1 .. 3 |-> ThreeOf(i)[d]]
  BY DEF ThreeOf
<1>3. ASSUME NEW i \in 1 .. 6 PROVE ThreeOf(i) \in Orders(3)
  <2>1. \A d \in 1 .. 3 : d = 1 \/ d = 2 \/ d = 3 OBVIOUS
  <2>2. ThreeOf(i)[1] \in 1 .. 3 /\ ThreeOf(i)[2] \in 1 .. 3 /\ ThreeOf(i)[3] \in 1 .. 3
    BY <1>1, <1>2
  <2>3. \A d \in 1 .. 3 : ThreeOf(i)[d] \in 1 .. 3 BY <2>1, <2>2
  <2>4. ThreeOf(i) \in [1 .. 3 -> 1 .. 3] BY <1>2, <2>3
  <2>5. ThreeOf(i)[1] # ThreeOf(i)[2] /\ ThreeOf(i)[2] # ThreeOf(i)[3] /\ ThreeOf(i)[1] # ThreeOf(i)[3]
    BY <1>1, <1>2
  <2>6. \A d, e \in 1 .. 3 : ThreeOf(i)[d] = ThreeOf(i)[e] => d = e
    BY <2>1, <2>5
  <2> QED BY <2>4, <2>6 DEF Orders
<1>4. ASSUME NEW p \in Orders(3) PROVE \E i \in 1 .. 6 : p = ThreeOf(i)
  <2>1. p \in [1 .. 3 -> 1 .. 3] /\ \A d, e \in 1 .. 3 : p[d] = p[e] => d = e
    BY DEF Orders
  <2>2. p[1] \in 1 .. 3 /\ p[2] \in 1 .. 3 /\ p[3] \in 1 .. 3 /\ p[1] # p[2] /\ p[2] # p[3] /\ p[1] # p[3]
    BY <2>1
  <2>3. \E i \in 1 .. 6 : p[1] = Entry(i, 1) /\ p[2] = Entry(i, 2) /\ p[3] = Entry(i, 3)
    <3>1. Entry(1, 1) = 1 /\ Entry(1, 2) = 2 /\ Entry(1, 3) = 3 BY <1>1
    <3>2. Entry(2, 1) = 1 /\ Entry(2, 2) = 3 /\ Entry(2, 3) = 2 BY <1>1
    <3>3. Entry(3, 1) = 2 /\ Entry(3, 2) = 1 /\ Entry(3, 3) = 3 BY <1>1
    <3>4. Entry(4, 1) = 2 /\ Entry(4, 2) = 3 /\ Entry(4, 3) = 1 BY <1>1
    <3>5. Entry(5, 1) = 3 /\ Entry(5, 2) = 1 /\ Entry(5, 3) = 2 BY <1>1
    <3>6. Entry(6, 1) = 3 /\ Entry(6, 2) = 2 /\ Entry(6, 3) = 1 BY <1>1
    <3>7. 1 \in 1 .. 6 /\ 2 \in 1 .. 6 /\ 3 \in 1 .. 6 /\ 4 \in 1 .. 6 /\ 5 \in 1 .. 6 /\ 6 \in 1 .. 6
      OBVIOUS
    <3>8. \/ p[1] = 1 /\ p[2] = 2 /\ p[3] = 3
          \/ p[1] = 1 /\ p[2] = 3 /\ p[3] = 2
          \/ p[1] = 2 /\ p[2] = 1 /\ p[3] = 3
          \/ p[1] = 2 /\ p[2] = 3 /\ p[3] = 1
          \/ p[1] = 3 /\ p[2] = 1 /\ p[3] = 2
          \/ p[1] = 3 /\ p[2] = 2 /\ p[3] = 1
      BY <2>2
    <3> QED BY <3>1, <3>2, <3>3, <3>4, <3>5, <3>6, <3>7, <3>8
  <2>4. PICK i \in 1 .. 6 : p[1] = Entry(i, 1) /\ p[2] = Entry(i, 2) /\ p[3] = Entry(i, 3)
    BY <2>3
  <2>5. \A d \in 1 .. 3 : p[d] = ThreeOf(i)[d]
    <3>1. \A d \in 1 .. 3 : d = 1 \/ d = 2 \/ d = 3 OBVIOUS
    <3> QED BY <1>2, <2>4, <3>1
  <2>6. p = [d \in 1 .. 3 |-> p[d]] BY <2>1
  <2>7. p = ThreeOf(i) BY <1>2, <2>5, <2>6
  <2> QED BY <2>7
<1>5. ASSUME NEW i \in 1 .. 6, NEW j \in 1 .. 6
      PROVE  Lesser(3, ThreeOf(i), ThreeOf(j)) <=> i < j
  <2>1. Lesser(3, ThreeOf(i), ThreeOf(j)) <=>
          \/ ThreeOf(i)[1] < ThreeOf(j)[1]
          \/ ThreeOf(i)[2] < ThreeOf(j)[2] /\ ThreeOf(i)[1] = ThreeOf(j)[1]
          \/ /\ ThreeOf(i)[3] < ThreeOf(j)[3] /\ ThreeOf(i)[1] = ThreeOf(j)[1]
             /\ ThreeOf(i)[2] = ThreeOf(j)[2]
    <3>1. Lesser(3, ThreeOf(i), ThreeOf(j)) <=>
            \E h \in 1 .. 3 : ThreeOf(i)[h] < ThreeOf(j)[h]
                              /\ \A g \in 1 .. (h - 1) : ThreeOf(i)[g] = ThreeOf(j)[g]
      BY Zenon DEF Lesser
    <3>2. \A h \in 1 .. 3 : h = 1 \/ h = 2 \/ h = 3 OBVIOUS
    <3>3. \A g : (g \in 1 .. (1 - 1) <=> FALSE) /\ (g \in 1 .. (2 - 1) <=> g = 1)
                 /\ (g \in 1 .. (3 - 1) <=> g = 1 \/ g = 2)
      OBVIOUS
    <3>4. 1 \in 1 .. 3 /\ 2 \in 1 .. 3 /\ 3 \in 1 .. 3 OBVIOUS
    <3> QED BY <3>1, <3>2, <3>3, <3>4, Zenon
  <2> QED BY <1>1, <1>2, <2>1
<1> QED BY <1>3, <1>4, <1>5

\* dimension_sequences(3, k) is the entry k + 1 of the table.
LEMMA RanksOfThree ==
  /\ Cardinality(Orders(3)) = 6
  /\ \A k \in 0 .. 5 : dimension_sequences(3, k) = ThreeOf(k + 1)
<1> DEFINE f(m) == [i \in 1 .. m |-> ThreeOf(i)]
<1>0. \A i, j \in 1 .. 6 : ThreeOf(i) = ThreeOf(j) => i = j
  <2> SUFFICES ASSUME NEW i \in 1 .. 6, NEW j \in 1 .. 6, ThreeOf(i) = ThreeOf(j) PROVE i = j
    OBVIOUS
  <2>1. ~(i < j) /\ ~(j < i) BY OrdersOfThree
  <2> QED BY <2>1
<1>1. Cardinality(Orders(3)) = 6
  <2> PICK g : g = f(6)
    OBVIOUS
  <2>1. g = [i \in 1 .. 6 |-> g[i]] /\ \A i \in 1 .. 6 : g[i] = ThreeOf(i)
    OBVIOUS
  <2>2. \A i \in 1 .. 6 : g[i] \in Orders(3) BY <2>1, OrdersOfThree
  <2>3. \A p \in Orders(3) : \E i \in 1 .. 6 : p = g[i] BY <2>1, OrdersOfThree
  <2>4. \A i, j \in 1 .. 6 : g[i] = g[j] => i = j BY <1>0, <2>1
  <2>5. 6 \in Nat OBVIOUS
  <2> HIDE DEF f
  <2> QED
    <3>1. Counts(g, 6, Orders(3)) BY <2>1, <2>2, <2>3, <2>4, <2>5 DEF Counts
    <3> QED BY <3>1, CountedBy
<1>2. ASSUME NEW k \in 0 .. 5 PROVE dimension_sequences(3, k) = ThreeOf(k + 1)
  <2> PICK dims : dims = dimension_sequences(3, k)
    OBVIOUS
  <2>1. dims \in Orders(3) /\ Cardinality(Below(3, dims)) = k
    <3>1. 3 \in Nat /\ k \in Nat /\ k < Cardinality(Orders(3)) BY <1>1
    <3> QED BY <3>1, RanksFound
  <2>2. PICK i \in 1 .. 6 : dims = ThreeOf(i)
    BY <2>1, OrdersOfThree
  <2> PICK m \in Nat : m = i - 1
    OBVIOUS
  <2>3. Cardinality(Below(3, dims)) = m
    <3> PICK g : g = f(m)
      OBVIOUS
    <3>1. g = [h \in 1 .. m |-> g[h]] /\ \A h \in 1 .. m : g[h] = ThreeOf(h)
      OBVIOUS
    <3>2. \A h \in 1 .. m : h \in 1 .. 6 /\ h < i OBVIOUS
    <3> HIDE DEF f
    <3>3. \A h \in 1 .. m : g[h] \in Below(3, dims)
      BY <2>2, <3>1, <3>2, OrdersOfThree DEF Below
    <3>4. ASSUME NEW p \in Below(3, dims) PROVE \E h \in 1 .. m : p = g[h]
      <4>1. p \in Orders(3) /\ Lesser(3, p, dims) BY DEF Below
      <4>2. PICK h \in 1 .. 6 : p = ThreeOf(h)
        BY <4>1, OrdersOfThree
      <4>3. h < i BY <2>2, <4>1, <4>2, OrdersOfThree
      <4>4. h \in 1 .. m BY <4>3
      <4> QED BY <3>1, <4>2, <4>4
    <3>5. \A h, j \in 1 .. m : g[h] = g[j] => h = j BY <1>0, <3>1, <3>2
    <3> QED
      <4>1. Counts(g, m, Below(3, dims)) BY <3>1, <3>3, <3>4, <3>5 DEF Counts
      <4> QED BY <4>1, CountedBy
  <2>4. i = k + 1 BY <2>1, <2>3
  <2> QED BY <2>2, <2>4
<1> QED BY <1>1, <1>2

\* There is a permutation at all, and there are two of two dimensions.
LEMMA OrdersFound ==
  /\ \A n \in Nat : Cardinality(Orders(n)) \in Nat \ {0}
  /\ Cardinality(Orders(2)) >= 2
<1>1. ASSUME NEW n \in Nat PROVE Cardinality(Orders(n)) \in Nat \ {0}
  <2>1. [i \in 1 .. n |-> i] \in Orders(n) BY DEF Orders
  <2>2. Orders(n) # {} BY <2>1
  <2>3. IsFiniteSet(Orders(n)) BY OrdersFinite
  <2>4. Cardinality(Orders(n)) \in Nat BY <2>3, FS_CardinalityType
  <2>5. Cardinality(Orders(n)) # 0 BY <2>2, <2>3, FS_EmptySet
  <2> QED BY <2>4, <2>5
<1>2. Cardinality(Orders(2)) >= 2
  <2> PICK a : a = [i \in 1 .. 2 |-> i]
    OBVIOUS
  <2> PICK b : b = [i \in 1 .. 2 |-> 3 - i]
    OBVIOUS
  <2>1. a \in Orders(2) BY DEF Orders
  <2>2. b \in Orders(2) BY DEF Orders
  <2>3. a # b
    <3>1. a[1] = 1 /\ b[1] = 2 OBVIOUS
    <3> QED BY <3>1
  <2> PICK g : g = [i \in 1 .. 2 |-> IF i = 1 THEN a ELSE b]
    OBVIOUS
  <2>4. Cardinality({a, b}) = 2
    <3>1. g = [i \in 1 .. 2 |-> g[i]] /\ g[1] = a /\ g[2] = b OBVIOUS
    <3>2. \A i \in 1 .. 2 : i = 1 \/ i = 2 OBVIOUS
    <3>3. 2 \in Nat /\ 1 \in 1 .. 2 /\ 2 \in 1 .. 2 OBVIOUS
    <3>4. \A i \in 1 .. 2 : g[i] \in {a, b} BY <3>1, <3>2
    <3>5. \A x \in {a, b} : \E i \in 1 .. 2 : x = g[i] BY <3>1, <3>3
    <3>6. \A i, j \in 1 .. 2 : g[i] = g[j] => i = j BY <2>3, <3>1, <3>2
    <3> QED
      <4>1. Counts(g, 2, {a, b}) BY <3>1, <3>3, <3>4, <3>5, <3>6 DEF Counts
      <4> QED BY <4>1, CountedBy
  <2>5. IsFiniteSet(Orders(2)) /\ {a, b} \subseteq Orders(2)
    <3>1. 2 \in Nat OBVIOUS
    <3> QED BY <2>1, <2>2, <3>1, OrdersFinite
  <2>6. Cardinality({a, b}) <= Cardinality(Orders(2)) BY <2>5, FS_Subset
  <2> QED BY <2>4, <2>6
<1> QED BY <1>1, <1>2

\* An order names each direction once.
LEMMA OrderIs ==
  ASSUME NEW n \in Nat, NEW dims \in Orders(n)
  PROVE  /\ dims = [i \in 1 .. n |-> dims[i]]
         /\ \A i \in 1 .. n : dims[i] \in 1 .. n
         /\ \A i, j \in 1 .. n : dims[i] = dims[j] => i = j
         /\ \A d \in 1 .. n : \E i \in 1 .. n : dims[i] = d
<1>1. dims \in [1 .. n -> 1 .. n] /\ \A i, j \in 1 .. n : dims[i] = dims[j] => i = j
  BY DEF Orders
<1>2. dims \in Injection(1 .. n, 1 .. n) BY <1>1 DEF Injection, IsInjective
<1>3. IsFiniteSet(1 .. n) BY FS_Interval
<1>4. dims \in Surjection(1 .. n, 1 .. n) BY <1>2, <1>3, FS_Injection
<1>5. \A d \in 1 .. n : \E i \in 1 .. n : dims[i] = d BY <1>4 DEF Surjection
<1> QED BY <1>1, <1>5

\* A direction names a permutation, which begins with the frozen dimension.
GoodMeta(c, meta) ==
  /\ meta.direction \in Nat
  /\ IF c.frozen = 0 THEN meta.direction < Cardinality(Orders(Len(c.dims)))
     ELSE meta.direction \in {4 + 2 * c.frozen, 5 + 2 * c.frozen}

OfMeta(c, dims) == dims \in Orders(Len(c.dims)) /\ (c.frozen # 0 => dims[1] = c.frozen)

\* The direction of a frozen dimension less 6 is one of the two orders that begin with it.
LEMMA FrozenDirection ==
  ASSUME NEW f \in 1 .. 3, NEW x \in Nat, x = 4 + 2 * f \/ x = 5 + 2 * f
  PROVE  x >= 6 /\ (x - 6 = 2 * f - 2 \/ x - 6 = 2 * f - 1) /\ x - 6 \in 0 .. 5
OBVIOUS

\* A direction a level may use names an order that begins with the frozen dimension, if there is one.
LEMMA DirectionIs ==
  ASSUME NEW c, NEW meta, IsConfig(c), GoodMeta(c, meta),
         NEW fallback, fallback = (Len(c.dims) = 3 /\ meta.direction >= 6)
  PROVE  /\ fallback <=> c.frozen # 0
         /\ OfMeta(c, dimension_sequences(Len(c.dims), meta.direction - IF fallback THEN 6 ELSE 0))
         /\ OfMeta(c, dimension_sequences(Len(c.dims), IF fallback THEN meta.direction - 6 ELSE 0))
<1> PICK n \in Nat : n = Len(c.dims)
  BY DEF IsConfig
<1> PICK x \in Nat : x = meta.direction
  BY DEF GoodMeta
<1>0. fallback <=> n = 3 /\ x >= 6 BY Zenon
<1>1. c.frozen \in 0 .. 3 /\ (c.frozen # 0 => n = 3) BY DEF IsConfig
<1>2. CASE c.frozen = 0
  <2>1. x < Cardinality(Orders(n)) BY <1>2 DEF GoodMeta
  <2>2. ~fallback
    <3>1. n = 3 => Cardinality(Orders(n)) = 6 BY RanksOfThree
    <3>2. n = 3 => x < 6 BY <2>1, <3>1
    <3>3. ~(n = 3 /\ x >= 6) BY <3>2
    <3> QED BY <1>0, <3>3, Zenon
  <2>3. x - (IF fallback THEN 6 ELSE 0) = x /\ (IF fallback THEN x - 6 ELSE 0) = 0
    BY <2>2
  <2>4. 0 < Cardinality(Orders(n)) BY OrdersFound
  <2>5. dimension_sequences(n, x) \in Orders(n) BY <2>1, RanksFound
  <2> PICK z \in Nat : z = 0
    OBVIOUS
  <2>6. dimension_sequences(n, z) \in Orders(n) BY <2>4, RanksFound
  <2> QED BY <1>2, <2>2, <2>3, <2>5, <2>6 DEF OfMeta
<1>3. CASE c.frozen # 0
  <2> PICK f \in 1 .. 3 : f = c.frozen
    BY <1>1, <1>3
  <2>1. n = 3 /\ x \in {4 + 2 * f, 5 + 2 * f} BY <1>1, <1>3 DEF GoodMeta
  <2>2. fallback /\ x - 6 \in {2 * f - 2, 2 * f - 1} /\ x - 6 \in 0 .. 5
    <3>1. x = 4 + 2 * f \/ x = 5 + 2 * f BY <2>1, Zenon
    <3>2. x >= 6 /\ (x - 6 = 2 * f - 2 \/ x - 6 = 2 * f - 1) /\ x - 6 \in 0 .. 5
      BY <3>1, FrozenDirection
    <3> QED BY <1>0, <2>1, <3>2, Zenon
  <2> PICK k \in 0 .. 5 : k = x - 6
    BY <2>2
  <2>3. x - (IF fallback THEN 6 ELSE 0) = k /\ (IF fallback THEN x - 6 ELSE 0) = k
    BY <2>2
  <2>4. dimension_sequences(3, k) = ThreeOf(k + 1) BY RanksOfThree
  <2> PICK i \in 1 .. 6 : i = k + 1
    OBVIOUS
  <2>5. ThreeOf(i) \in Orders(3) BY OrdersOfThree
  <2>6. ThreeOf(i)[1] = Entry(i, 1) /\ Entry(i, 1) = IF i <= 2 THEN 1 ELSE IF i <= 4 THEN 2 ELSE 3
    BY DEF ThreeOf, Entry
  <2>7. i \in {2 * f - 1, 2 * f} BY <2>2
  <2>8. Entry(i, 1) = f
    <3>1. f = 1 \/ f = 2 \/ f = 3 OBVIOUS
    <3> QED BY <2>6, <2>7, <3>1
  <2>9. OfMeta(c, dimension_sequences(n, k))
    BY <2>1, <2>4, <2>5, <2>6, <2>8 DEF OfMeta
  <2> QED BY <1>3, <2>2, <2>3, <2>9
<1> QED BY <1>2, <1>3

\* The passes of a block take all of the block along dirs, and for the other dimensions
\* the steps behind its first point.
OnSweep(c, start, end, s, dirs, steps, lo) ==
  /\ OnBlock(c, start, end, s)
  /\ dirs \subseteq Dims(c)
  /\ \A d \in Dims(c) \ dirs : steps[d] \in {1, s, 2 * s}
  /\ lo = [d \in Dims(c) |-> IF d \in dirs THEN start[d] ELSE After(start[d], steps[d])]

\* The points of such a box in the directions the pass does not move in.
LEMMA SweepIs ==
  ASSUME NEW c, NEW start, NEW end, NEW s, NEW dirs, NEW steps, NEW lo,
         OnSweep(c, start, end, s, dirs, steps, lo)
  PROVE  /\ IsBox(c, lo, end)
         /\ \A d \in dirs : lo[d] = start[d] /\ OnEven(lo[d], s)
         /\ \A q \in Points(c) : \A d \in Dims(c) \ dirs :
              q[d] \in lo[d] .. end[d] /\ OnStep(q[d], lo[d], steps[d])
                <=> OwnAt(start, end, q, d) /\ OnSteps(q[d], steps[d])
<1>0. /\ IsConfig(c) /\ s \in Nat \ {0}
      /\ start \in [Dims(c) -> Nat] /\ end \in [Dims(c) -> Nat]
      /\ \A d \in Dims(c) : end[d] < c.dims[d]
      /\ \A d \in Dims(c) : start[d] \in Nat /\ end[d] \in Nat /\ OnEven(start[d], s)
      /\ dirs \subseteq Dims(c)
  BY DEF OnSweep, OnBlock, IsBox
<1>1. \A d \in Dims(c) : lo[d] = IF d \in dirs THEN start[d] ELSE After(start[d], steps[d])
  BY DEF OnSweep
<1>2. \A d \in Dims(c) \ dirs : steps[d] \in {1, s, 2 * s} BY DEF OnSweep
<1>3. ASSUME NEW d \in Dims(c) \ dirs
      PROVE  steps[d] \in Nat \ {0} /\ OnSteps(start[d], steps[d])
  <2>1. start[d] \in Nat /\ OnEven(start[d], s) BY <1>0
  <2>2. OnGrid(start[d], s) BY <1>0, <2>1, GridPoints
  <2>3. OnSteps(start[d], 1) /\ OnSteps(start[d], s) /\ OnSteps(start[d], 2 * s)
    BY <1>0, <2>1, <2>2, CodeSteps
  <2>4. 1 \in Nat \ {0} /\ s \in Nat \ {0} /\ 2 * s \in Nat \ {0} BY <1>0
  <2>5. steps[d] = 1 \/ steps[d] = s \/ steps[d] = 2 * s BY <1>2
  <2> QED BY <2>3, <2>4, <2>5
<1>4. \A d \in Dims(c) : lo[d] \in Nat
  <2> SUFFICES ASSUME NEW d \in Dims(c) PROVE lo[d] \in Nat
    OBVIOUS
  <2>1. CASE d \in dirs BY <1>0, <1>1, <2>1
  <2>2. CASE d \notin dirs
    <3>1. start[d] \in Nat /\ steps[d] \in Nat BY <1>0, <1>3, <2>2
    <3>2. After(start[d], steps[d]) \in Nat BY <3>1 DEF After
    <3> QED BY <1>1, <2>2, <3>2
  <2> QED BY <2>1, <2>2
<1>5. lo \in [Dims(c) -> Nat]
  <2>1. lo = [d \in Dims(c) |-> lo[d]] BY DEF OnSweep
  <2> QED BY <1>4, <2>1
<1>6. \A d \in dirs : lo[d] = start[d] /\ OnEven(lo[d], s) BY <1>0, <1>1
<1>7. ASSUME NEW q \in Points(c), NEW d \in Dims(c) \ dirs
      PROVE  q[d] \in lo[d] .. end[d] /\ OnStep(q[d], lo[d], steps[d])
               <=> OwnAt(start, end, q, d) /\ OnSteps(q[d], steps[d])
  <2> PICK v \in Nat : v = q[d]
    BY <1>0, PointIs
  <2> PICK a \in Nat : a = start[d]
    BY <1>0
  <2> PICK b \in Nat : b = end[d]
    BY <1>0
  <2> PICK t \in Nat \ {0} : t = steps[d]
    BY <1>3
  <2>1. OnSteps(a, t) BY <1>3
  <2>2. v \in After(a, t) .. b /\ OnStep(v, After(a, t), t)
          <=> v \in a .. b /\ (v = a => a = 0) /\ OnSteps(v, t)
    BY <2>1, AfterIs
  <2>3. lo[d] = After(a, t) BY <1>1
  <2> QED BY <2>2, <2>3 DEF OwnAt
<1> QED BY <1>0, <1>5, <1>6, <1>7 DEF IsBox

-----------------------------------------------------------------------------
(* Paradigm 0.                                                             *)

\* The k-th pass: what it makes finer.
AlongSteps(c, s, dims, k) ==
  [d \in Dims(c) |-> IF d = c.frozen THEN 1
                     ELSE IF \E j \in 1 .. (k - 1) : dims[j] = d THEN s ELSE 2 * s]

AlongLo(c, start, s, dims, k) ==
  [d \in Dims(c) |-> IF d = dims[k] THEN start[d] ELSE After(start[d], AlongSteps(c, s, dims, k)[d])]

AlongTarget(c, start, end, s, dims, k) ==
  {q \in Points(c) : /\ Own(c, start, end, q) /\ IsFine(c, s, q)
                     /\ dims[k] \in OddAt(c, s, q)
                     /\ \A d \in OddAt(c, s, q) : \E j \in 1 .. k : dims[j] = d}

OnAlong(c, start, end, s, dims, k) ==
  /\ OnBlock(c, start, end, s) /\ OfMeta(c, dims)
  /\ k \in Dims(c) /\ (c.frozen = 0 \/ k # 1)

\* A pass along the direction k is made on lines through the grid of the directions before it.
LEMMA AlongIs ==
  ASSUME NEW c, NEW start, NEW end, NEW s, NEW dims, NEW k, OnAlong(c, start, end, s, dims, k),
         NEW lo, lo = AlongLo(c, start, s, dims, k), NEW steps, steps = AlongSteps(c, s, dims, k)
  PROVE  /\ OnPass(c, lo, end, dims[k], s) /\ dims[k] \in Free(c) /\ lo[dims[k]] = start[dims[k]]
         /\ \A q \in Points(c) : OnLines(c, lo, end, dims[k], steps, q) <=>
              \A d \in Dims(c) \ {dims[k]} :
                /\ OwnAt(start, end, q, d)
                /\ d \in Free(c) => OnGrid(q[d], s) /\ (OnOdd(q[d], s) => \E j \in 1 .. (k - 1) : dims[j] = d)
<1> PICK n \in Nat : n = Len(c.dims)
  BY DEF OnAlong, OnBlock, IsBox, IsConfig
<1>0. /\ IsConfig(c) /\ s \in Nat \ {0} /\ Dims(c) = 1 .. n /\ k \in 1 .. n
      /\ OnBlock(c, start, end, s) /\ \A d \in Dims(c) : OnEven(start[d], s)
  BY DEF OnAlong, OnBlock, IsBox, Dims
<1>1. /\ dims = [i \in 1 .. n |-> dims[i]]
      /\ \A i \in 1 .. n : dims[i] \in 1 .. n
      /\ \A i, j \in 1 .. n : dims[i] = dims[j] => i = j
  BY OrderIs DEF OnAlong, OfMeta
<1> PICK dir \in Dims(c) : dir = dims[k]
  BY <1>0, <1>1
<1>2. dir \in Free(c)
  <2> SUFFICES ASSUME dir = c.frozen PROVE FALSE
    BY DEF Free
  <2>1. c.frozen # 0 BY <1>0
  <2>2. dims[1] = dims[k] /\ k # 1 BY <2>1 DEF OnAlong, OfMeta
  <2>3. 1 \in 1 .. n BY <1>0
  <2> QED BY <1>0, <1>1, <2>2, <2>3
<1>3. \A d \in Dims(c) : steps[d] = IF d = c.frozen THEN 1
                                    ELSE IF \E j \in 1 .. (k - 1) : dims[j] = d THEN s ELSE 2 * s
  BY DEF AlongSteps
<1>4. lo = [d \in Dims(c) |-> IF d \in {dir} THEN start[d] ELSE After(start[d], steps[d])]
  BY DEF AlongLo
<1>5. OnSweep(c, start, end, s, {dir}, steps, lo)
  <2>1. \A d \in Dims(c) \ {dir} : steps[d] \in {1, s, 2 * s} BY <1>3
  <2>2. {dir} \subseteq Dims(c) OBVIOUS
  <2> QED BY <1>0, <1>4, <2>1, <2>2 DEF OnSweep
<1>6. IsBox(c, lo, end) /\ lo[dir] = start[dir] /\ OnEven(lo[dir], s)
  <2>1. dir \in {dir} OBVIOUS
  <2> QED BY <1>5, <2>1, SweepIs
<1>7. OnPass(c, lo, end, dir, s) BY <1>0, <1>6 DEF OnPass, OnEven
<1>8. ASSUME NEW q \in Points(c), NEW d \in Dims(c) \ {dir}
      PROVE  q[d] \in lo[d] .. end[d] /\ (q[d] - lo[d]) % steps[d] = 0 <=>
               /\ OwnAt(start, end, q, d)
               /\ d \in Free(c) => OnGrid(q[d], s) /\ (OnOdd(q[d], s) => \E j \in 1 .. (k - 1) : dims[j] = d)
  <2>1. q[d] \in lo[d] .. end[d] /\ OnStep(q[d], lo[d], steps[d])
          <=> OwnAt(start, end, q, d) /\ OnSteps(q[d], steps[d])
    BY <1>5, SweepIs
  <2> PICK v \in Nat : v = q[d]
    BY <1>0, PointIs
  <2>2. OnSteps(v, steps[d]) <=>
          (d \in Free(c) => OnGrid(v, s) /\ (OnOdd(v, s) => \E j \in 1 .. (k - 1) : dims[j] = d))
    <3>1. OnSteps(v, 1) /\ (OnSteps(v, s) <=> OnGrid(v, s)) /\ (OnSteps(v, 2 * s) <=> OnEven(v, s))
      BY <1>0, CodeSteps
    <3>2. (OnEven(v, s) => ~OnOdd(v, s)) /\ (OnEven(v, s) \/ OnOdd(v, s) <=> OnGrid(v, s))
      BY <1>0, GridPoints
    <3>3. d \in Free(c) <=> d # c.frozen BY DEF Free
    <3>4. CASE d = c.frozen BY <1>3, <3>1, <3>3, <3>4, Zenon
    <3>5. CASE d # c.frozen /\ \E j \in 1 .. (k - 1) : dims[j] = d
      BY <1>3, <3>1, <3>3, <3>5, Zenon
    <3>6. CASE d # c.frozen /\ ~ \E j \in 1 .. (k - 1) : dims[j] = d
      <4>1. steps[d] = 2 * s BY <1>3, <3>6, Zenon
      <4> QED BY <3>1, <3>2, <3>3, <3>6, <4>1, Zenon
    <3> QED BY <3>4, <3>5, <3>6
  <2> QED BY <2>1, <2>2, Zenon DEF OnStep
<1> QED BY <1>2, <1>6, <1>7, <1>8, Zenon DEF OnLines

\* The pass is for the points that are odd along it, and even along the later ones.
LEMMA AlongTargetIs ==
  ASSUME NEW c, NEW start, NEW end, NEW s, NEW dims, NEW k, OnAlong(c, start, end, s, dims, k),
         NEW lo, lo = AlongLo(c, start, s, dims, k), NEW steps, steps = AlongSteps(c, s, dims, k)
  PROVE  LineTarget(c, lo, end, dims[k], steps, s) = AlongTarget(c, start, end, s, dims, k)
<1> PICK dir : dir = dims[k]
  OBVIOUS
<1>0. /\ IsConfig(c) /\ s \in Nat \ {0} /\ \A d \in Dims(c) : OnEven(start[d], s)
      /\ k \in Nat \ {0} /\ Free(c) \subseteq Dims(c)
  BY DEF OnAlong, OnBlock, IsBox, IsConfig, Dims, Free
<1>1. /\ dir \in Free(c) /\ lo[dir] = start[dir]
      /\ \A q \in Points(c) : OnLines(c, lo, end, dir, steps, q) <=>
           \A d \in Dims(c) \ {dir} :
             /\ OwnAt(start, end, q, d)
             /\ d \in Free(c) => OnGrid(q[d], s) /\ (OnOdd(q[d], s) => \E j \in 1 .. (k - 1) : dims[j] = d)
  BY AlongIs
<1>2. \A d : (\E j \in 1 .. k : dims[j] = d) <=> d = dir \/ \E j \in 1 .. (k - 1) : dims[j] = d
  <2>1. \A j : j \in 1 .. k <=> j = k \/ j \in 1 .. (k - 1) BY <1>0
  <2> QED BY <2>1, Zenon
<1>3. ASSUME NEW q \in Points(c), OnLines(c, lo, end, dir, steps, q), q[dir] \in lo[dir] .. end[dir],
             OnOdd(q[dir], s)
      PROVE  q \in AlongTarget(c, start, end, s, dims, k)
  <2>1. q[dir] \in Nat BY <1>0, <1>1, PointIs
  <2>2. OnGrid(q[dir], s) /\ ~OnEven(q[dir], s) BY <1>0, <1>3, <2>1, GridPoints
  <2>3. q[dir] # start[dir] BY <1>0, <1>1, <2>2
  <2>4. OwnAt(start, end, q, dir) BY <1>1, <1>3, <2>3 DEF OwnAt
  <2>5. Own(c, start, end, q) BY <1>1, <1>3, <2>4, Zenon DEF Own
  <2>6. IsFine(c, s, q) BY <1>0, <1>1, <1>3, <2>2, Zenon DEF IsFine
  <2>7. dir \in OddAt(c, s, q) BY <1>1, <1>3 DEF OddAt
  <2>8. \A d \in OddAt(c, s, q) : \E j \in 1 .. k : dims[j] = d
    <3> SUFFICES ASSUME NEW d \in OddAt(c, s, q), d # dir PROVE \E j \in 1 .. (k - 1) : dims[j] = d
      BY <1>2
    <3>1. d \in Free(c) /\ d \in Dims(c) /\ OnOdd(q[d], s) BY <1>0 DEF OddAt
    <3> QED BY <1>1, <1>3, <3>1
  <2> QED BY <2>5, <2>6, <2>7, <2>8 DEF AlongTarget
<1>4. ASSUME NEW q \in AlongTarget(c, start, end, s, dims, k)
      PROVE  /\ q \in Points(c) /\ OnLines(c, lo, end, dir, steps, q)
             /\ q[dir] \in lo[dir] .. end[dir] /\ OnOdd(q[dir], s)
  <2>1. /\ q \in Points(c) /\ Own(c, start, end, q) /\ IsFine(c, s, q) /\ dir \in OddAt(c, s, q)
        /\ \A d \in OddAt(c, s, q) : \E j \in 1 .. k : dims[j] = d
    BY DEF AlongTarget
  <2>2. OnOdd(q[dir], s) /\ OwnAt(start, end, q, dir)
    BY <1>0, <1>1, <2>1 DEF OddAt, Own
  <2>3. q[dir] \in lo[dir] .. end[dir] BY <1>1, <2>2 DEF OwnAt
  <2>4. ASSUME NEW d \in Dims(c) \ {dir}
        PROVE  /\ OwnAt(start, end, q, d)
               /\ d \in Free(c) => OnGrid(q[d], s) /\ (OnOdd(q[d], s) => \E j \in 1 .. (k - 1) : dims[j] = d)
    <3>1. OwnAt(start, end, q, d) BY <2>1 DEF Own
    <3>2. ASSUME d \in Free(c) PROVE OnGrid(q[d], s) BY <2>1, <3>2 DEF IsFine
    <3>3. ASSUME d \in Free(c), OnOdd(q[d], s) PROVE \E j \in 1 .. (k - 1) : dims[j] = d
      <4>1. d \in OddAt(c, s, q) BY <3>3 DEF OddAt
      <4> QED BY <1>2, <2>1, <4>1
    <3> QED BY <3>1, <3>2, <3>3
  <2>5. OnLines(c, lo, end, dir, steps, q) BY <1>1, <2>1, <2>4
  <2> QED BY <2>1, <2>2, <2>3, <2>5
<1>5. \A q : q \in LineTarget(c, lo, end, dir, steps, s) <=>
        /\ q \in Points(c) /\ OnLines(c, lo, end, dir, steps, q)
        /\ q[dir] \in lo[dir] .. end[dir] /\ OnOdd(q[dir], s)
  BY DEF LineTarget, OnOdd
<1>6. \A q : q \in LineTarget(c, lo, end, dir, steps, s) <=> q \in AlongTarget(c, start, end, s, dims, k)
  BY <1>3, <1>4, <1>5
<1> QED BY <1>6

\* Of the directions a point is odd along, one comes last.
LEMMA LastTurn ==
  ASSUME NEW n \in Nat, NEW dims \in Orders(n), NEW S \in SUBSET (1 .. n), S # {}
  PROVE  \E k \in 1 .. n : dims[k] \in S /\ \A d \in S : \E j \in 1 .. k : dims[j] = d
<1>1. /\ \A i \in 1 .. n : dims[i] \in 1 .. n
      /\ \A d \in 1 .. n : \E i \in 1 .. n : dims[i] = d
  BY OrderIs
<1> DEFINE T == {i \in 1 .. n : dims[i] \in S}
<1>2. T # {}
  <2> PICK d \in S : TRUE
    OBVIOUS
  <2> PICK i \in 1 .. n : dims[i] = d
    BY <1>1
  <2> QED OBVIOUS
<1>3. T \in SUBSET (0 .. n) OBVIOUS
<1>4. \A i : i \in T <=> i \in 1 .. n /\ dims[i] \in S OBVIOUS
<1> HIDE DEF T
<1>5. PICK k \in T : \A i \in T : i <= k
  BY <1>2, <1>3, Largest
<1>6. k \in 1 .. n /\ dims[k] \in S BY <1>4
<1>7. ASSUME NEW d \in S PROVE \E j \in 1 .. k : dims[j] = d
  <2> PICK i \in 1 .. n : dims[i] = d
    BY <1>1
  <2>1. i \in T BY <1>4
  <2>2. i \in 1 .. k BY <1>5, <1>6, <2>1
  <2> QED BY <2>2
<1> QED BY <1>6, <1>7

\* It reads the coarser grid and what the passes before it coded.
LEMMA AlongReads ==
  ASSUME NEW c, NEW start, NEW end, NEW s, NEW dims, NEW k, OnAlong(c, start, end, s, dims, k),
         NEW lo, lo = AlongLo(c, start, s, dims, k), NEW steps, steps = AlongSteps(c, s, dims, k),
         NEW R, Ready(c, start, end, s, R),
         NEW q \in Points(c), LineReads(c, lo, end, dims[k], steps, s, q)
  PROVE  q \in R \/ \E j \in 1 .. (k - 1) : q \in AlongTarget(c, start, end, s, dims, j)
<1> PICK n \in Nat : n = Len(c.dims)
  <2>1. IsConfig(c) BY DEF OnAlong, OnBlock, IsBox
  <2>2. Len(c.dims) \in 1 .. 4 BY <2>1 DEF IsConfig
  <2>3. Len(c.dims) \in Nat BY <2>2
  <2> QED BY <2>3, Zenon
<1> PICK dir : dir = dims[k]
  OBVIOUS
<1>0. /\ IsConfig(c) /\ s \in Nat \ {0} /\ Dims(c) = 1 .. n /\ k \in 1 .. n
      /\ Free(c) \subseteq Dims(c)
      /\ \A d \in Dims(c) : start[d] \in Nat /\ end[d] \in Nat /\ q[d] \in Nat
  <2>1. IsConfig(c) BY DEF OnAlong, OnBlock, IsBox
  <2>2. q \in [Dims(c) -> Nat] BY <2>1, PointIs
  <2> QED BY <2>1, <2>2 DEF OnAlong, OnBlock, IsBox, Dims, Free
<1>1. /\ dir \in Free(c) /\ lo[dir] = start[dir]
      /\ OnLines(c, lo, end, dir, steps, q) <=>
           \A d \in Dims(c) \ {dir} :
             /\ OwnAt(start, end, q, d)
             /\ d \in Free(c) => OnGrid(q[d], s) /\ (OnOdd(q[d], s) => \E j \in 1 .. (k - 1) : dims[j] = d)
  BY AlongIs
<1>2. /\ OnLines(c, lo, end, dir, steps, q) /\ OnEven(q[dir], s)
      /\ q[dir] <= end[dir] \/ \A d \in Dims(c) \ {dir} : OnEven(q[d], s)
  BY Zenon DEF LineReads, OnEven
<1>3. \A d \in Dims(c) : /\ OnEven(q[d], s) => ~OnOdd(q[d], s)
                         /\ OnEven(q[d], s) \/ OnOdd(q[d], s) <=> OnGrid(q[d], s)
  BY <1>0, GridPoints
<1>4. IsFine(c, s, q) BY <1>0, <1>1, <1>2, <1>3, Zenon DEF IsFine
<1>5. dir \notin OddAt(c, s, q) BY <1>0, <1>1, <1>2, <1>3, Zenon DEF OddAt
<1>6. ASSUME NEW d \in OddAt(c, s, q)
      PROVE  d \in Dims(c) \ {dir} /\ OnOdd(q[d], s) /\ \E j \in 1 .. (k - 1) : dims[j] = d
  <2>1. d \in Free(c) /\ d # dir /\ OnOdd(q[d], s) BY <1>5, Zenon DEF OddAt
  <2>2. d \in Dims(c) \ {dir} BY <1>0, <2>1
  <2> QED BY <1>1, <1>2, <2>1, <2>2
<1>7. CASE OddAt(c, s, q) = {} BY <1>4, <1>7 DEF Ready
<1>8. CASE OddAt(c, s, q) # {}
  <2> PICK a \in OddAt(c, s, q) : TRUE
    BY <1>8
  <2>1. a \in Dims(c) \ {dir} /\ OnOdd(q[a], s) BY <1>6
  <2>2. ~OnEven(q[a], s) BY <1>3, <2>1
  <2>3. q[dir] <= end[dir] BY <1>2, <2>1, <2>2
  <2>4. \A d \in Dims(c) : q[d] <= end[d]
    <3> SUFFICES ASSUME NEW d \in Dims(c), d # dir PROVE q[d] <= end[d]
      BY <2>3
    <3>1. OwnAt(start, end, q, d) BY <1>1, <1>2
    <3> QED BY <1>0, <3>1 DEF OwnAt
  <2>5. CASE ~Own(c, start, end, q) BY <1>4, <2>4, <2>5 DEF Ready
  <2>6. CASE Own(c, start, end, q)
    <3>1. OddAt(c, s, q) \in SUBSET (1 .. n) BY <1>0, <1>6
    <3>2. dims \in Orders(n) BY DEF OnAlong, OfMeta
    <3>3. PICK m \in 1 .. n : dims[m] \in OddAt(c, s, q)
                              /\ \A d \in OddAt(c, s, q) : \E j \in 1 .. m : dims[j] = d
      <4>1. \A S \in SUBSET (1 .. n) : S # {} =>
              \E m \in 1 .. n : dims[m] \in S /\ \A d \in S : \E j \in 1 .. m : dims[j] = d
        BY <3>2, LastTurn
      <4> QED BY <1>8, <3>1, <4>1, Zenon
    <3>4. PICK j \in 1 .. (k - 1) : dims[j] = dims[m]
      BY <1>6, <3>3
    <3>5. j \in 1 .. n BY <1>0
    <3>6. j = m BY <3>2, <3>4, <3>5, OrderIs
    <3>7. q \in AlongTarget(c, start, end, s, dims, m)
      BY <1>4, <2>6, <3>3, Zenon DEF AlongTarget
    <3> QED BY <3>6, <3>7
  <2> QED BY <2>5, <2>6
<1> QED BY <1>7, <1>8

\* AlongDims, pass by pass.
AlongParts(c, meta, fallback, dims) ==
  /\ IsConfig(c)
  /\ fallback = (Len(c.dims) = 3 /\ meta.direction >= 6) /\ (fallback <=> c.frozen # 0)
  /\ dims = dimension_sequences(Len(c.dims), meta.direction - IF fallback THEN 6 ELSE 0)
  /\ OfMeta(c, dims)

AlongPasses(c, meta, start, end, s, dims) ==
  [k \in Dims(c) |->
     IF c.frozen # 0 /\ k = 1 THEN <<>>
     ELSE LinePass(c, meta, AlongLo(c, start, s, dims, k), end, dims[k], AlongSteps(c, s, dims, k), s)]

\* AlongDims joins these passes.
LEMMA AlongDimsIs ==
  ASSUME NEW c, NEW meta, NEW start, NEW end, NEW s, NEW fallback, NEW dims,
         AlongParts(c, meta, fallback, dims)
  PROVE  AlongDims(c, meta, start, end, s) = FlattenSeq(AlongPasses(c, meta, start, end, s, dims))
<1> DEFINE step(d, k) == IF fallback /\ d = dims[1] THEN 1
                         ELSE IF \E j \in 1 .. (k - 1) : dims[j] = d THEN s ELSE 2 * s
           pass(k) ==
             LinePass(c, meta,
                      [d \in Dims(c) |-> IF d = dims[k] THEN start[d] ELSE After(start[d], step(d, k))],
                      end, dims[k], [d \in Dims(c) |-> step(d, k)], s)
<1>0. /\ IsConfig(c)
      /\ fallback = (Len(c.dims) = 3 /\ meta.direction >= 6) /\ (fallback <=> c.frozen # 0)
      /\ dims = dimension_sequences(Len(c.dims), meta.direction - IF fallback THEN 6 ELSE 0)
      /\ OfMeta(c, dims)
  BY DEF AlongParts
<1>1. AlongDims(c, meta, start, end, s) = FlattenSeq([k \in Dims(c) |-> IF fallback /\ k = 1 THEN <<>> ELSE pass(k)])
  BY <1>0, Zenon DEF AlongDims
<1>2. \A d \in Dims(c) : \A k : step(d, k) = AlongSteps(c, s, dims, k)[d]
  <2> SUFFICES ASSUME NEW d \in Dims(c), NEW k PROVE step(d, k) = AlongSteps(c, s, dims, k)[d]
    OBVIOUS
  <2>0. Dims(c) \subseteq Nat \ {0} BY <1>0 DEF Dims, IsConfig
  <2>1. fallback /\ d = dims[1] <=> d = c.frozen
    <3>1. d # 0 BY <2>0
    <3> QED BY <1>0, <3>1 DEF OfMeta
  <2>2. AlongSteps(c, s, dims, k)[d] = IF d = c.frozen THEN 1
                                       ELSE IF \E j \in 1 .. (k - 1) : dims[j] = d THEN s ELSE 2 * s
    BY DEF AlongSteps
  <2> QED BY <2>1, <2>2, Zenon
<1>3. \A k : [d \in Dims(c) |-> step(d, k)] = AlongSteps(c, s, dims, k)
  <2> SUFFICES ASSUME NEW k PROVE [d \in Dims(c) |-> step(d, k)] = AlongSteps(c, s, dims, k)
    OBVIOUS
  <2>1. AlongSteps(c, s, dims, k) = [d \in Dims(c) |-> AlongSteps(c, s, dims, k)[d]]
    BY DEF AlongSteps
  <2> HIDE DEF step
  <2> QED BY <1>2, <2>1
<1>4. \A k : [d \in Dims(c) |-> IF d = dims[k] THEN start[d] ELSE After(start[d], step(d, k))] = AlongLo(c, start, s, dims, k)
  <2> SUFFICES ASSUME NEW k
               PROVE  [d \in Dims(c) |-> IF d = dims[k] THEN start[d] ELSE After(start[d], step(d, k))]
                        = AlongLo(c, start, s, dims, k)
    OBVIOUS
  <2> HIDE DEF step
  <2> QED BY <1>2 DEF AlongLo
<1>5. \A k : pass(k) = LinePass(c, meta, AlongLo(c, start, s, dims, k), end, dims[k], AlongSteps(c, s, dims, k), s)
  BY <1>3, <1>4, Zenon
<1> HIDE DEF pass
<1>6. fallback <=> c.frozen # 0 BY <1>0
<1> QED BY <1>1, <1>5, <1>6 DEF AlongPasses

\* The passes of paradigm 0 code the block's points.
LEMMA AlongFills ==
  ASSUME NEW c, NEW meta, NEW start, NEW end, NEW s, OnBlock(c, start, end, s), GoodMeta(c, meta),
         NEW R, Ready(c, start, end, s, R)
  PROVE  Fills(AlongDims(c, meta, start, end, s), R, BlockTarget(c, start, end, s))
<1> PICK n \in Nat : n = Len(c.dims)
  BY DEF OnBlock, IsBox, IsConfig
<1> PICK fallback : fallback = (Len(c.dims) = 3 /\ meta.direction >= 6)
  OBVIOUS
<1> PICK dims : dims = dimension_sequences(Len(c.dims), meta.direction - IF fallback THEN 6 ELSE 0)
  OBVIOUS
<1>0. IsConfig(c) /\ Dims(c) = 1 .. n BY DEF OnBlock, IsBox, Dims
<1>1. (fallback <=> c.frozen # 0) /\ OfMeta(c, dims) BY <1>0, DirectionIs
<1>2. dims \in Orders(n) BY <1>1 DEF OfMeta
<1>2a. \A x, y \in 1 .. n : dims[x] = dims[y] => x = y BY <1>2, OrderIs
<1> DEFINE seqs == AlongPasses(c, meta, start, end, s, dims)
           T == [k \in Dims(c) |-> AlongTarget(c, start, end, s, dims, k)]
<1>3. AlongDims(c, meta, start, end, s) = FlattenSeq(seqs)
  <2>1. AlongParts(c, meta, fallback, dims) BY <1>0, <1>1 DEF AlongParts
  <2> QED BY <2>1, AlongDimsIs
<1>4. IsSeq(seqs) /\ Len(seqs) = n
  <2>1. seqs = [k \in 1 .. n |-> seqs[k]] BY <1>0 DEF AlongPasses
  <2> HIDE DEF seqs
  <2> QED BY <2>1, ListIs
<1>5. \A k \in 1 .. n : seqs[k] = IF c.frozen # 0 /\ k = 1 THEN <<>>
        ELSE LinePass(c, meta, AlongLo(c, start, s, dims, k), end, dims[k], AlongSteps(c, s, dims, k), s)
  BY <1>0 DEF AlongPasses
<1>6. \A k \in 1 .. n : T[k] = AlongTarget(c, start, end, s, dims, k) BY <1>0
<1>7. \A k \in 1 .. n : \A q : q \in T[k] <=>
        /\ q \in Points(c) /\ Own(c, start, end, q) /\ IsFine(c, s, q)
        /\ dims[k] \in OddAt(c, s, q)
        /\ \A d \in OddAt(c, s, q) : \E j \in 1 .. k : dims[j] = d
  <2> SUFFICES ASSUME NEW k \in 1 .. n
               PROVE  \A q : q \in AlongTarget(c, start, end, s, dims, k) <=>
                        /\ q \in Points(c) /\ Own(c, start, end, q) /\ IsFine(c, s, q)
                        /\ dims[k] \in OddAt(c, s, q)
                        /\ \A d \in OddAt(c, s, q) : \E j \in 1 .. k : dims[j] = d
    BY <1>6
  <2> QED BY DEF AlongTarget
<1> HIDE DEF seqs, T
<1>8. ASSUME NEW k \in 1 .. n PROVE Fills(seqs[k], R \cup UNION {T[j] : j \in 1 .. k - 1}, T[k])
  <2> PICK K : K = R \cup UNION {T[j] : j \in 1 .. k - 1}
    OBVIOUS
  <2>1. CASE c.frozen # 0 /\ k = 1
    <3>1. seqs[k] = <<>> BY <1>5, <2>1
    <3>2. T[k] = {}
      <4>1. dims[k] \notin Free(c) BY <1>1, <2>1 DEF OfMeta, Free
      <4>2. \A q : dims[k] \notin OddAt(c, s, q) BY <4>1 DEF OddAt
      <4> QED BY <1>7, <4>2
    <3> QED BY <3>1, <3>2, FillsNothing
  <2>2. CASE ~(c.frozen # 0 /\ k = 1)
    <3> PICK lo : lo = AlongLo(c, start, s, dims, k)
      OBVIOUS
    <3> PICK steps : steps = AlongSteps(c, s, dims, k)
      OBVIOUS
    <3>1. OnAlong(c, start, end, s, dims, k) BY <1>0, <1>1, <2>2 DEF OnAlong
    <3>2. seqs[k] = LinePass(c, meta, lo, end, dims[k], steps, s) BY <1>5, <2>2
    <3>3. OnPass(c, lo, end, dims[k], s) BY <3>1, AlongIs
    <3>4. LineTarget(c, lo, end, dims[k], steps, s) = T[k]
      BY <1>6, <3>1, AlongTargetIs
    <3>5. ASSUME NEW q \in Points(c), LineReads(c, lo, end, dims[k], steps, s, q) PROVE q \in K
      <4>1. q \in R \/ \E j \in 1 .. (k - 1) : q \in AlongTarget(c, start, end, s, dims, j)
        BY <3>1, <3>5, AlongReads
      <4>2. \A j \in 1 .. (k - 1) : j \in 1 .. n OBVIOUS
      <4> QED BY <1>6, <4>1, <4>2
    <3>6. Fills(LinePass(c, meta, lo, end, dims[k], steps, s), K, LineTarget(c, lo, end, dims[k], steps, s))
      BY <3>3, <3>5, LinePassFills
    <3> QED BY <3>2, <3>4, <3>6
  <2> QED BY <2>1, <2>2
<1>9. ASSUME NEW j \in 1 .. n, NEW k \in 1 .. n, j # k, NEW q \in T[j] PROVE q \notin T[k]
  <2> SUFFICES ASSUME q \in T[k] PROVE FALSE
    OBVIOUS
  <2>1. PICK a \in 1 .. j : dims[a] = dims[k]
    BY <1>7
  <2>2. PICK b \in 1 .. k : dims[b] = dims[j]
    BY <1>7
  <2>4. a = k /\ b = j
    <3>1. a \in 1 .. n /\ b \in 1 .. n OBVIOUS
    <3> QED BY <1>2a, <2>1, <2>2, <3>1
  <2> QED BY <1>9, <2>4
<1>10. UNION {T[k] : k \in 1 .. n} = BlockTarget(c, start, end, s)
  <2>1. ASSUME NEW k \in 1 .. n, NEW q \in T[k] PROVE q \in BlockTarget(c, start, end, s)
    <3>1. /\ q \in Points(c) /\ Own(c, start, end, q) /\ IsFine(c, s, q)
          /\ dims[k] \in OddAt(c, s, q)
      BY <1>7
    <3> QED BY <3>1 DEF BlockTarget
  <2>2. ASSUME NEW q \in BlockTarget(c, start, end, s) PROVE \E k \in 1 .. n : q \in T[k]
    <3>1. q \in Points(c) /\ Own(c, start, end, q) /\ IsFine(c, s, q) /\ OddAt(c, s, q) # {}
      BY DEF BlockTarget
    <3>2. OddAt(c, s, q) \in SUBSET (1 .. n) BY <1>0 DEF OddAt, Free
    <3>3. \A S \in SUBSET (1 .. n) : S # {} =>
            \E m \in 1 .. n : dims[m] \in S /\ \A d \in S : \E j \in 1 .. m : dims[j] = d
      BY <1>2, LastTurn
    <3>4. PICK k \in 1 .. n : dims[k] \in OddAt(c, s, q)
                              /\ \A d \in OddAt(c, s, q) : \E j \in 1 .. k : dims[j] = d
      BY <3>1, <3>2, <3>3, Zenon
    <3> QED BY <1>7, <3>1, <3>4
  <2> QED BY <2>1, <2>2
<1>11. Fills(FlattenSeq(seqs), R, UNION {T[k] : k \in 1 .. n})
  <2>1. \A k \in 1 .. n : Fills(seqs[k], R \cup UNION {T[j] : j \in 1 .. k - 1}, T[k])
    BY <1>8
  <2>2. \A j, k \in 1 .. n : j # k => \A q \in T[j] : q \notin T[k] BY <1>9
  <2>3. FillInTurn(seqs, n, R, T) BY <1>4, <2>1, <2>2, Zenon DEF FillInTurn
  <2> QED BY <2>3, FillsFlatten
<1> QED BY <1>3, <1>10, <1>11

-----------------------------------------------------------------------------
(* Paradigms 1 and up.                                                     *)

AroundSteps(c, s) == [d \in Dims(c) |-> IF d = c.frozen THEN 1 ELSE 2 * s]

AroundLo(c, start, s, dirs) ==
  [d \in Dims(c) |-> IF d \in dirs THEN start[d] ELSE After(start[d], AroundSteps(c, s)[d])]

AroundTarget(c, start, end, s, dirs) ==
  {q \in Points(c) : Own(c, start, end, q) /\ IsFine(c, s, q) /\ OddAt(c, s, q) = dirs}

OnAround(c, start, end, s, dirs) ==
  OnBlock(c, start, end, s) /\ dirs \subseteq Free(c) /\ dirs # {}

\* A pass in the directions dirs is made in planes on the coarser grid.
LEMMA AroundIs ==
  ASSUME NEW c, NEW start, NEW end, NEW s, NEW dirs, OnAround(c, start, end, s, dirs),
         NEW lo, lo = AroundLo(c, start, s, dirs), NEW steps, steps = AroundSteps(c, s)
  PROVE  /\ IsBox(c, lo, end) /\ \A d \in dirs : lo[d] = start[d] /\ OnEven(lo[d], s)
         /\ \A q \in Points(c) : OnPlanes(c, lo, end, dirs, steps, q) <=>
              \A d \in Dims(c) \ dirs : OwnAt(start, end, q, d) /\ (d \in Free(c) => OnEven(q[d], s))
<1>0. /\ IsConfig(c) /\ s \in Nat \ {0} /\ dirs \subseteq Dims(c)
      /\ OnBlock(c, start, end, s)
  BY DEF OnAround, OnBlock, IsBox, Free
<1>1. \A d \in Dims(c) : steps[d] = IF d = c.frozen THEN 1 ELSE 2 * s
  BY DEF AroundSteps
<1>2. OnSweep(c, start, end, s, dirs, steps, lo)
  <2>1. \A d \in Dims(c) \ dirs : steps[d] \in {1, s, 2 * s} BY <1>1
  <2>2. lo = [d \in Dims(c) |-> IF d \in dirs THEN start[d] ELSE After(start[d], steps[d])]
    BY DEF AroundLo
  <2> QED BY <1>0, <2>1, <2>2 DEF OnSweep
<1>3. IsBox(c, lo, end) /\ \A d \in dirs : lo[d] = start[d] /\ OnEven(lo[d], s)
  BY <1>2, SweepIs
<1>4. ASSUME NEW q \in Points(c), NEW d \in Dims(c) \ dirs
      PROVE  q[d] \in lo[d] .. end[d] /\ OnStep(q[d], lo[d], steps[d]) <=>
               OwnAt(start, end, q, d) /\ (d \in Free(c) => OnEven(q[d], s))
  <2>1. q[d] \in lo[d] .. end[d] /\ OnStep(q[d], lo[d], steps[d])
          <=> OwnAt(start, end, q, d) /\ OnSteps(q[d], steps[d])
    BY <1>2, SweepIs
  <2> PICK v \in Nat : v = q[d]
    BY <1>0, PointIs
  <2>2. OnSteps(v, 1) /\ (OnSteps(v, 2 * s) <=> OnEven(v, s)) BY <1>0, CodeSteps
  <2>3. d \in Free(c) <=> d # c.frozen BY DEF Free
  <2>4. OnSteps(v, steps[d]) <=> (d \in Free(c) => OnEven(v, s))
    BY <1>1, <2>2, <2>3, Zenon
  <2> QED BY <2>1, <2>4
<1> QED BY <1>3, <1>4, Zenon DEF OnPlanes

\* The pass is for the points that are odd along dirs, and even along the others.
LEMMA AroundTargetIs ==
  ASSUME NEW c, NEW start, NEW end, NEW s, NEW dirs, OnAround(c, start, end, s, dirs),
         NEW lo, lo = AroundLo(c, start, s, dirs), NEW steps, steps = AroundSteps(c, s)
  PROVE  CenterTarget(c, lo, end, dirs, steps, s) = AroundTarget(c, start, end, s, dirs)
<1>0. /\ IsConfig(c) /\ s \in Nat \ {0} /\ dirs \subseteq Free(c) /\ Free(c) \subseteq Dims(c)
      /\ \A d \in Dims(c) : OnEven(start[d], s)
  BY DEF OnAround, OnBlock, IsBox, Free
<1>1. /\ \A d \in dirs : lo[d] = start[d]
      /\ \A q \in Points(c) : OnPlanes(c, lo, end, dirs, steps, q) <=>
           \A d \in Dims(c) \ dirs : OwnAt(start, end, q, d) /\ (d \in Free(c) => OnEven(q[d], s))
  BY AroundIs
<1>2. ASSUME NEW q \in Points(c)
      PROVE  \A d \in Dims(c) : /\ OnEven(q[d], s) => ~OnOdd(q[d], s)
                                /\ OnEven(q[d], s) \/ OnOdd(q[d], s) <=> OnGrid(q[d], s)
  <2>1. \A d \in Dims(c) : q[d] \in Nat BY <1>0, PointIs
  <2> QED BY <1>0, <2>1, GridPoints
<1>3. ASSUME NEW q \in CenterTarget(c, lo, end, dirs, steps, s)
      PROVE  q \in AroundTarget(c, start, end, s, dirs)
  <2>1. /\ q \in Points(c) /\ OnPlanes(c, lo, end, dirs, steps, q)
        /\ \A d \in dirs : q[d] \in lo[d] .. end[d] /\ OnOdd(q[d], s)
    BY DEF CenterTarget
  <2>2. \A d \in Dims(c) \ dirs : OwnAt(start, end, q, d) /\ (d \in Free(c) => OnEven(q[d], s))
    BY <1>1, <2>1
  <2>3. \A d \in Dims(c) : /\ OnEven(q[d], s) => ~OnOdd(q[d], s)
                           /\ OnEven(q[d], s) \/ OnOdd(q[d], s) <=> OnGrid(q[d], s)
    BY <1>2, <2>1
  <2>4. \A d \in dirs : OwnAt(start, end, q, d)
    <3> SUFFICES ASSUME NEW d \in dirs PROVE OwnAt(start, end, q, d)
      OBVIOUS
    <3>1. OnOdd(q[d], s) /\ d \in Dims(c) BY <1>0, <2>1
    <3>2. ~OnEven(q[d], s) BY <2>3, <3>1
    <3>3. q[d] # start[d] BY <1>0, <3>1, <3>2
    <3>4. q[d] \in start[d] .. end[d] BY <1>1, <2>1
    <3> QED BY <3>3, <3>4 DEF OwnAt
  <2>5. Own(c, start, end, q) BY <2>2, <2>4, Zenon DEF Own
  <2>6. IsFine(c, s, q) BY <1>0, <2>1, <2>2, <2>3, Zenon DEF IsFine
  <2>7. \A d : d \in OddAt(c, s, q) <=> d \in dirs
    <3>1. \A d : d \in OddAt(c, s, q) <=> d \in Free(c) /\ OnOdd(q[d], s)
      BY DEF OddAt
    <3> QED BY <1>0, <2>1, <2>2, <2>3, <3>1
  <2>8. OddAt(c, s, q) = dirs BY <2>7
  <2> QED BY <2>1, <2>5, <2>6, <2>8 DEF AroundTarget
<1>4. ASSUME NEW q \in AroundTarget(c, start, end, s, dirs)
      PROVE  q \in CenterTarget(c, lo, end, dirs, steps, s)
  <2>1. q \in Points(c) /\ Own(c, start, end, q) /\ IsFine(c, s, q) /\ OddAt(c, s, q) = dirs
    BY DEF AroundTarget
  <2>2. \A d \in dirs : OnOdd(q[d], s) BY <2>1 DEF OddAt
  <2>3. \A d \in Dims(c) : OwnAt(start, end, q, d) BY <2>1 DEF Own
  <2>4. \A d \in dirs : q[d] \in lo[d] .. end[d]
    <3> SUFFICES ASSUME NEW d \in dirs PROVE q[d] \in lo[d] .. end[d]
      OBVIOUS
    <3>1. OwnAt(start, end, q, d) BY <1>0, <2>3
    <3> QED BY <1>1, <3>1 DEF OwnAt
  <2>5. ASSUME NEW d \in Free(c), d \notin dirs PROVE OnEven(q[d], s)
    <3>1. OnGrid(q[d], s) BY <2>1 DEF IsFine
    <3>2. ~OnOdd(q[d], s) BY <2>1, <2>5 DEF OddAt
    <3>3. OnEven(q[d], s) \/ OnOdd(q[d], s) <=> OnGrid(q[d], s)
      BY <1>0, <1>2, <2>1
    <3> QED BY <3>1, <3>2, <3>3
  <2>6. OnPlanes(c, lo, end, dirs, steps, q) BY <1>1, <2>1, <2>3, <2>5
  <2> QED BY <2>1, <2>2, <2>4, <2>6 DEF CenterTarget
<1> QED BY <1>3, <1>4

\* It reads what is coded before the block, or by the passes of fewer directions.
LEMMA AroundReads ==
  ASSUME NEW c, NEW start, NEW end, NEW s, NEW dirs, OnAround(c, start, end, s, dirs),
         NEW lo, lo = AroundLo(c, start, s, dirs), NEW steps, steps = AroundSteps(c, s),
         NEW R, Ready(c, start, end, s, R),
         NEW q \in Points(c), OnPlanes(c, lo, end, dirs, steps, q),
         \/ CenterReads(c, lo, end, dirs, steps, s, q)
         \/ \A d \in dirs : OnEven(q[d], s)
  PROVE  \/ q \in R
         \/ \E A \in SUBSET dirs : A # {} /\ A # dirs /\ q \in AroundTarget(c, start, end, s, A)
<1>0. /\ IsConfig(c) /\ s \in Nat \ {0} /\ dirs \subseteq Free(c) /\ Free(c) \subseteq Dims(c)
      /\ \A d \in Dims(c) : start[d] \in Nat /\ end[d] \in Nat
      /\ \A d \in Dims(c) : q[d] \in Nat
  <2>1. IsConfig(c) BY DEF OnAround, OnBlock, IsBox
  <2>2. q \in [Dims(c) -> Nat] BY <2>1, PointIs
  <2> QED BY <2>1, <2>2 DEF OnAround, OnBlock, IsBox, Free
<1>1. /\ \A d \in dirs : lo[d] = start[d]
      /\ \A d \in Dims(c) \ dirs : OwnAt(start, end, q, d) /\ (d \in Free(c) => OnEven(q[d], s))
  BY AroundIs
<1>2. \A d \in Dims(c) : /\ OnEven(q[d], s) => ~OnOdd(q[d], s)
                         /\ OnEven(q[d], s) \/ OnOdd(q[d], s) <=> OnGrid(q[d], s)
  BY <1>0, GridPoints
<1>3. \A d \in dirs : OnGrid(q[d], s) BY <1>0, <1>2 DEF CenterReads
<1>4. IsFine(c, s, q) BY <1>0, <1>1, <1>2, <1>3, Zenon DEF IsFine
<1>5. \A d : d \in OddAt(c, s, q) <=> d \in Free(c) /\ OnOdd(q[d], s)
  BY DEF OddAt
<1>6. OddAt(c, s, q) \in SUBSET dirs BY <1>0, <1>1, <1>2, <1>5
<1>7. CASE OddAt(c, s, q) = {} BY <1>4, <1>7 DEF Ready
<1>8. CASE OddAt(c, s, q) # {}
  <2>1. CenterReads(c, lo, end, dirs, steps, s, q)
    <3> SUFFICES ASSUME \A d \in dirs : OnEven(q[d], s) PROVE FALSE
      OBVIOUS
    <3> QED BY <1>0, <1>2, <1>5, <1>6, <1>8
  <2>2. /\ \A d \in dirs : q[d] <= end[d]
        /\ \E d \in dirs : OnEven(q[d], s) \/ q[d] < lo[d]
    BY <2>1, Zenon DEF CenterReads
  <2>3. \A d \in Dims(c) : q[d] <= end[d]
    <3> SUFFICES ASSUME NEW d \in Dims(c), d \notin dirs PROVE q[d] <= end[d]
      BY <2>2
    <3>1. OwnAt(start, end, q, d) BY <1>1
    <3> QED BY <1>0, <3>1 DEF OwnAt
  <2>4. CASE ~Own(c, start, end, q) BY <1>4, <2>3, <2>4 DEF Ready
  <2>5. CASE Own(c, start, end, q)
    <3>1. PICK d \in dirs : OnEven(q[d], s) \/ q[d] < lo[d]
      BY <2>2
    <3>2. OwnAt(start, end, q, d) /\ d \in Dims(c) BY <1>0, <2>5 DEF Own
    <3>3. ~(q[d] < lo[d]) BY <1>0, <1>1, <3>2 DEF OwnAt
    <3>4. d \notin OddAt(c, s, q) BY <1>2, <1>5, <3>1, <3>2, <3>3
    <3>5. OddAt(c, s, q) # dirs BY <3>4
    <3>6. q \in AroundTarget(c, start, end, s, OddAt(c, s, q))
      BY <1>4, <2>5 DEF AroundTarget
    <3> QED BY <1>6, <1>8, <3>5, <3>6
  <2> QED BY <2>4, <2>5
<1> QED BY <1>7, <1>8

\* The passes' directions are the sets of the dimensions that are not frozen.
LEMMA CombinationsAre ==
  ASSUME NEW c, IsConfig(c), Len(c.dims) \in {2, 3}, NEW dims, OfMeta(c, dims),
         NEW S, S = Combinations(IF c.frozen # 0 THEN Tail(dims) ELSE dims)
  PROVE  \E N \in Nat : Turns(S, N, Free(c))
<1> PICK n \in {2, 3} : n = Len(c.dims)
  OBVIOUS
<1> PICK dd : dd = IF c.frozen # 0 THEN Tail(dims) ELSE dims
  OBVIOUS
<1>0. c.frozen \in 0 .. 3 /\ (c.frozen # 0 => n = 3) /\ Dims(c) = 1 .. n
  BY DEF IsConfig, Dims
<1>1. dims \in Orders(n) /\ (c.frozen # 0 => dims[1] = c.frozen) BY DEF OfMeta
<1>2. n \in Nat OBVIOUS
<1>3. /\ dims = [i \in 1 .. n |-> dims[i]]
      /\ \A i \in 1 .. n : dims[i] \in 1 .. n
      /\ \A i, j \in 1 .. n : dims[i] = dims[j] => i = j
      /\ \A d \in 1 .. n : \E i \in 1 .. n : dims[i] = d
  BY <1>1, <1>2, OrderIs
<1>4. IsSeq(dims) /\ Len(dims) = n BY <1>2, <1>3, ListIs
<1>5. S = Combinations(dd) OBVIOUS
<1>6. CASE c.frozen = 0 /\ n = 2
  <2>1. dd = dims /\ Len(dd) = 2 BY <1>4, <1>6
  <2>2. S = << {dims[1]}, {dims[2]}, {dims[1], dims[2]} >>
    BY <1>5, <2>1 DEF Combinations
  <2>3. 1 \in 1 .. n /\ 2 \in 1 .. n /\ \A i \in 1 .. n : i = 1 \/ i = 2 BY <1>6
  <2>4. dims[1] # dims[2] BY <1>3, <2>3
  <2>5. \A d : d \in Free(c) <=> d \in 1 .. n BY <1>0, <1>6 DEF Free
  <2>6. Free(c) = {dims[1], dims[2]}
    <3>1. \A d : d \in 1 .. n <=> d = dims[1] \/ d = dims[2]
      <4>1. \A d \in 1 .. n : \E i \in 1 .. n : dims[i] = d BY <1>3
      <4>2. dims[1] \in 1 .. n /\ dims[2] \in 1 .. n BY <1>3, <2>3
      <4> QED BY <2>3, <4>1, <4>2, Zenon
    <3> QED BY <2>5, <3>1
  <2>7. Turns(S, 3, Free(c)) BY <2>2, <2>4, <2>6, TwoTurns
  <2> QED BY <2>7
<1>7. CASE c.frozen = 0 /\ n = 3
  <2>1. dd = dims /\ Len(dd) = 3 BY <1>4, <1>7
  <2>2. S = << {dims[1]}, {dims[2]}, {dims[3]}, {dims[1], dims[2]}, {dims[1], dims[3]},
               {dims[2], dims[3]}, {dims[1], dims[2], dims[3]} >>
    <3>1. Len(dd) # 2
      <4>1. 3 # 2 OBVIOUS
      <4> QED BY <2>1, <4>1, Zenon
    <3> QED BY <1>5, <2>1, <3>1, Zenon DEF Combinations
  <2>3. \A d : d \in 1 .. n <=> \E i \in 1 .. 3 : dims[i] = d
    <3>1. \A d \in 1 .. 3 : \E i \in 1 .. 3 : dims[i] = d BY <1>3, <1>7
    <3>2. \A i \in 1 .. 3 : dims[i] \in 1 .. n BY <1>3, <1>7
    <3>3. 1 .. n = 1 .. 3 BY <1>7
    <3> QED BY <3>1, <3>2, <3>3, Zenon
  <2>4. /\ dims[1] # dims[2] /\ dims[2] # dims[3] /\ dims[1] # dims[3]
        /\ \A d : d \in 1 .. n <=> d = dims[1] \/ d = dims[2] \/ d = dims[3]
    <3>1. \A i, j \in 1 .. 3 : dims[i] = dims[j] => i = j BY <1>3, <1>7
    <3> QED BY <2>3, <3>1, AllOfThree
  <2>5. \A d : d \in Free(c) <=> d \in 1 .. n BY <1>0, <1>7 DEF Free
  <2>6. Free(c) = {dims[1], dims[2], dims[3]} BY <2>4, <2>5
  <2>7. Turns(S, 7, Free(c))
    <3> PICK a : a = dims[1]
      OBVIOUS
    <3> PICK b : b = dims[2]
      OBVIOUS
    <3> PICK e : e = dims[3]
      OBVIOUS
    <3>1. Triple(a, b, e, S, Free(c)) BY <2>2, <2>4, <2>6, Zenon DEF Triple
    <3> QED BY <3>1, ThreeTurns
  <2> QED BY <2>7
<1>8. CASE c.frozen # 0
  <2>0. n = 3 /\ dims[1] = c.frozen /\ dd = Tail(dims) BY <1>0, <1>1, <1>8
  <2>1. Len(dd) = 2 /\ dd[1] = dims[2] /\ dd[2] = dims[3]
    <3>1. dims \in Seq(1 .. n) /\ Len(dims) = 3 BY <1>3, <1>4, <2>0
    <3> QED BY <2>0, <3>1, TailOfThree
  <2>2. S = << {dims[2]}, {dims[3]}, {dims[2], dims[3]} >>
    BY <1>5, <2>1 DEF Combinations
  <2>3. \A d : d \in 1 .. n <=> \E i \in 1 .. 3 : dims[i] = d
    <3>1. \A d \in 1 .. 3 : \E i \in 1 .. 3 : dims[i] = d BY <1>3, <2>0
    <3>2. \A i \in 1 .. 3 : dims[i] \in 1 .. n BY <1>3, <2>0
    <3>3. 1 .. n = 1 .. 3 BY <2>0
    <3> QED BY <3>1, <3>2, <3>3, Zenon
  <2>4. /\ dims[1] # dims[2] /\ dims[2] # dims[3] /\ dims[1] # dims[3]
        /\ \A d : d \in 1 .. n <=> d = dims[1] \/ d = dims[2] \/ d = dims[3]
    <3>1. \A i, j \in 1 .. 3 : dims[i] = dims[j] => i = j BY <1>3, <2>0
    <3> QED BY <2>3, <3>1, AllOfThree
  <2>5. \A d : d \in Free(c) <=> d \in 1 .. n /\ d # dims[1]
    BY <1>0, <2>0 DEF Free
  <2>6. Free(c) = {dims[2], dims[3]} BY <2>4, <2>5
  <2>7. Turns(S, 3, Free(c)) BY <2>2, <2>4, <2>6, TwoTurns
  <2> QED BY <2>7
<1> QED BY <1>6, <1>7, <1>8

AroundPass(c, meta, start, end, s, dirs) ==
  IF Cardinality(dirs) = 1
  THEN LinePass(c, meta, AroundLo(c, start, s, dirs), end, CHOOSE d \in dirs : TRUE, AroundSteps(c, s), s)
  ELSE CenterPass(c, meta, AroundLo(c, start, s, dirs), end, dirs, AroundSteps(c, s), s)

AroundPasses(c, meta, start, end, s, S) ==
  [k \in DOMAIN S |-> AroundPass(c, meta, start, end, s, S[k])]

AroundParts(c, meta, fallback, dims, S) ==
  /\ IsConfig(c)
  /\ fallback = (Len(c.dims) = 3 /\ meta.direction >= 6) /\ (fallback <=> c.frozen # 0)
  /\ dims = dimension_sequences(Len(c.dims), IF fallback THEN meta.direction - 6 ELSE 0)
  /\ OfMeta(c, dims)
  /\ S = Combinations(IF c.frozen # 0 THEN Tail(dims) ELSE dims)

\* AroundCenter, pass by pass.
LEMMA AroundCenterIs ==
  ASSUME NEW c, NEW meta, NEW start, NEW end, NEW s, NEW fallback, NEW dims, NEW S,
         AroundParts(c, meta, fallback, dims, S)
  PROVE  AroundCenter(c, meta, start, end, s) = FlattenSeq(AroundPasses(c, meta, start, end, s, S))
<1> DEFINE fallback_2d == Len(c.dims) = 3 /\ meta.direction >= 6
           dims_2d == dimension_sequences(Len(c.dims), IF fallback_2d THEN meta.direction - 6 ELSE 0)
           step(d) == IF fallback_2d /\ d = dims_2d[1] THEN 1 ELSE 2 * s
           steps == [d \in Dims(c) |-> step(d)]
           lo(dirs) == [d \in Dims(c) |-> IF d \in dirs THEN start[d] ELSE After(start[d], step(d))]
           pass(dirs) == IF Cardinality(dirs) = 1
                         THEN LinePass(c, meta, lo(dirs), end, CHOOSE d \in dirs : TRUE, steps, s)
                         ELSE CenterPass(c, meta, lo(dirs), end, dirs, steps, s)
           combinations == Combinations(IF fallback_2d THEN Tail(dims_2d) ELSE dims_2d)
<1>0. /\ IsConfig(c)
      /\ fallback = (Len(c.dims) = 3 /\ meta.direction >= 6) /\ (fallback <=> c.frozen # 0)
      /\ dims = dimension_sequences(Len(c.dims), IF fallback THEN meta.direction - 6 ELSE 0)
      /\ OfMeta(c, dims)
      /\ S = Combinations(IF c.frozen # 0 THEN Tail(dims) ELSE dims)
  BY DEF AroundParts
<1>1. AroundCenter(c, meta, start, end, s) = FlattenSeq([k \in DOMAIN combinations |-> pass(combinations[k])])
  BY Zenon DEF AroundCenter
<1>2a. fallback_2d <=> c.frozen # 0 BY <1>0, Zenon
<1>2b. dims_2d = dims BY <1>0, Zenon
<1> HIDE DEF fallback_2d, dims_2d
<1>2. combinations = S BY <1>0, <1>2a, <1>2b, Zenon
<1>3. \A d \in Dims(c) : step(d) = AroundSteps(c, s)[d]
  <2> SUFFICES ASSUME NEW d \in Dims(c) PROVE step(d) = AroundSteps(c, s)[d]
    OBVIOUS
  <2>0. Dims(c) \subseteq Nat \ {0} BY <1>0 DEF Dims, IsConfig
  <2>1. fallback_2d /\ d = dims_2d[1] <=> d = c.frozen
    <3>1. d # 0 BY <2>0
    <3> QED BY <1>0, <1>2a, <1>2b, <3>1 DEF OfMeta
  <2>2. AroundSteps(c, s)[d] = IF d = c.frozen THEN 1 ELSE 2 * s
    BY DEF AroundSteps
  <2> QED BY <2>1, <2>2, Zenon
<1>4. steps = AroundSteps(c, s)
  <2>1. AroundSteps(c, s) = [d \in Dims(c) |-> AroundSteps(c, s)[d]]
    BY DEF AroundSteps
  <2> HIDE DEF step
  <2> QED BY <1>3, <2>1
<1>5. \A dirs : lo(dirs) = AroundLo(c, start, s, dirs)
  <2> SUFFICES ASSUME NEW dirs PROVE lo(dirs) = AroundLo(c, start, s, dirs)
    OBVIOUS
  <2> HIDE DEF step
  <2> QED BY <1>3 DEF AroundLo
<1>6. \A dirs : pass(dirs) = AroundPass(c, meta, start, end, s, dirs)
  <2> HIDE DEF lo, steps
  <2> SUFFICES ASSUME NEW dirs PROVE pass(dirs) = AroundPass(c, meta, start, end, s, dirs)
    OBVIOUS
  <2>1. lo(dirs) = AroundLo(c, start, s, dirs) BY <1>5
  <2> QED BY <1>4, <2>1 DEF AroundPass
<1> HIDE DEF pass, combinations
<1> QED BY <1>1, <1>2, <1>6 DEF AroundPasses

\* A pass codes its points from the points before the block and the passes of fewer
\* directions.
LEMMA AroundPassFills ==
  ASSUME NEW c, NEW meta, NEW start, NEW end, NEW s, NEW dirs, OnAround(c, start, end, s, dirs),
         Len(c.dims) \in {2, 3},
         NEW R, Ready(c, start, end, s, R),
         NEW K, R \subseteq K,
         \A A \in SUBSET dirs : A # {} /\ A # dirs => AroundTarget(c, start, end, s, A) \subseteq K
  PROVE  Fills(AroundPass(c, meta, start, end, s, dirs), K, AroundTarget(c, start, end, s, dirs))
<1> PICK lo : lo = AroundLo(c, start, s, dirs)
  OBVIOUS
<1> PICK steps : steps = AroundSteps(c, s)
  OBVIOUS
<1> PICK n \in 1 .. 3 : n = Len(c.dims)
  OBVIOUS
<1>0. /\ IsConfig(c) /\ s \in Nat \ {0} /\ Dims(c) = 1 .. n /\ dirs \in SUBSET (1 .. n) /\ dirs # {}
      /\ dirs \subseteq Free(c)
  BY DEF OnAround, OnBlock, IsBox, Free, Dims
<1>1. IsBox(c, lo, end) /\ \A d \in dirs : lo[d] = start[d] /\ OnEven(lo[d], s)
  BY AroundIs
<1>2. CenterTarget(c, lo, end, dirs, steps, s) = AroundTarget(c, start, end, s, dirs)
  BY AroundTargetIs
<1>3. ASSUME NEW q \in Points(c), OnPlanes(c, lo, end, dirs, steps, q),
             CenterReads(c, lo, end, dirs, steps, s, q) \/ \A d \in dirs : OnEven(q[d], s)
      PROVE  q \in K
  <2>1. \/ q \in R
        \/ \E A \in SUBSET dirs : A # {} /\ A # dirs /\ q \in AroundTarget(c, start, end, s, A)
    BY <1>3, AroundReads
  <2> QED BY <2>1
<1>4. CASE \E d : dirs = {d}
  <2>1. PICK dir : dirs = {dir}
    BY <1>4
  <2>2. Cardinality(dirs) = 1 /\ (CHOOSE d \in dirs : TRUE) = dir
    BY <2>1, FS_Singleton
  <2>3. AroundPass(c, meta, start, end, s, dirs) = LinePass(c, meta, lo, end, dir, steps, s)
    BY <2>2 DEF AroundPass
  <2>4. OnPass(c, lo, end, dir, s) BY <1>0, <1>1, <2>1 DEF OnPass, OnEven
  <2>5. \A q : OnLines(c, lo, end, dir, steps, q) <=> OnPlanes(c, lo, end, dirs, steps, q)
    BY <2>1, Zenon DEF OnLines, OnPlanes, OnStep
  <2>6. LineTarget(c, lo, end, dir, steps, s) = CenterTarget(c, lo, end, dirs, steps, s)
    <3>1. \A q : q \in LineTarget(c, lo, end, dir, steps, s) <=>
            /\ q \in Points(c) /\ OnLines(c, lo, end, dir, steps, q)
            /\ q[dir] \in lo[dir] .. end[dir] /\ OnOdd(q[dir], s)
      BY DEF LineTarget, OnOdd
    <3>2. \A q : q \in CenterTarget(c, lo, end, dirs, steps, s) <=>
            /\ q \in Points(c) /\ OnPlanes(c, lo, end, dirs, steps, q)
            /\ \A d \in dirs : q[d] \in lo[d] .. end[d] /\ OnOdd(q[d], s)
      BY DEF CenterTarget
    <3> QED BY <2>1, <2>5, <3>1, <3>2
  <2>7. ASSUME NEW q \in Points(c), LineReads(c, lo, end, dir, steps, s, q) PROVE q \in K
    <3>1. OnLines(c, lo, end, dir, steps, q) /\ OnEven(q[dir], s)
      BY <2>7, Zenon DEF LineReads, OnEven
    <3>2. OnPlanes(c, lo, end, dirs, steps, q) /\ \A d \in dirs : OnEven(q[d], s)
      BY <2>1, <2>5, <3>1
    <3> QED BY <1>3, <3>2
  <2>8. Fills(LinePass(c, meta, lo, end, dir, steps, s), K, LineTarget(c, lo, end, dir, steps, s))
    BY <2>4, <2>7, LinePassFills
  <2> QED BY <1>2, <2>3, <2>6, <2>8
<1>5. CASE \A d : dirs # {d}
  <2>1. Cardinality(dirs) # 1
    <3>1. IsFiniteSet(dirs)
      <4>1. IsFiniteSet(1 .. n) BY FS_Interval
      <4> QED BY <1>0, <4>1, FS_Subset
    <3> QED BY <1>5, <3>1, FS_Singleton
  <2>2. AroundPass(c, meta, start, end, s, dirs) = CenterPass(c, meta, lo, end, dirs, steps, s)
    BY <2>1 DEF AroundPass
  <2>3. \/ \E a, b \in Nat : a < b /\ dirs = {a, b}
        \/ \E a, b, e \in Nat : a < b /\ b < e /\ dirs = {a, b, e}
    <3>1. Several(n, dirs) BY <1>0, <1>5 DEF Several
    <3> QED BY <3>1, Ascending
  <2>4. OnCenter(c, lo, end, dirs, s) BY <1>0, <1>1, <2>3, Zenon DEF OnCenter
  <2>5. ASSUME NEW q \in Points(c), CenterReads(c, lo, end, dirs, steps, s, q) PROVE q \in K
    BY <1>3, <2>5 DEF CenterReads
  <2>6. Fills(CenterPass(c, meta, lo, end, dirs, steps, s), K, CenterTarget(c, lo, end, dirs, steps, s))
    BY <2>4, <2>5, CenterPassFills
  <2> QED BY <1>2, <2>2, <2>6
<1> QED BY <1>4, <1>5

\* The passes of the paradigms from 1 on code the block's points.
LEMMA AroundFills ==
  ASSUME NEW c, NEW meta, NEW start, NEW end, NEW s, OnBlock(c, start, end, s), GoodMeta(c, meta),
         Len(c.dims) \in {2, 3},
         NEW R, Ready(c, start, end, s, R)
  PROVE  Fills(AroundCenter(c, meta, start, end, s), R, BlockTarget(c, start, end, s))
<1> PICK fallback : fallback = (Len(c.dims) = 3 /\ meta.direction >= 6)
  OBVIOUS
<1> PICK dims : dims = dimension_sequences(Len(c.dims), IF fallback THEN meta.direction - 6 ELSE 0)
  OBVIOUS
<1> PICK S : S = Combinations(IF c.frozen # 0 THEN Tail(dims) ELSE dims)
  OBVIOUS
<1>0. IsConfig(c) BY DEF OnBlock, IsBox
<1>1. (fallback <=> c.frozen # 0) /\ OfMeta(c, dims) BY <1>0, DirectionIs
<1>2. AroundParts(c, meta, fallback, dims, S) BY <1>0, <1>1 DEF AroundParts
<1>3. PICK N \in Nat : Turns(S, N, Free(c))
  BY <1>0, <1>1, CombinationsAre
<1>4. /\ IsSeq(S) /\ N = Len(S) /\ DOMAIN S = 1 .. N
      /\ \A k \in 1 .. N : S[k] \subseteq Free(c) /\ S[k] # {}
      /\ \A A \in SUBSET Free(c) : A # {} => \E k \in 1 .. N : S[k] = A
      /\ \A j, k \in 1 .. N : S[j] \subseteq S[k] /\ j # k => j < k
  BY <1>3 DEF Turns
<1> DEFINE seqs == AroundPasses(c, meta, start, end, s, S)
           T == [k \in 1 .. N |-> AroundTarget(c, start, end, s, S[k])]
<1>5. AroundCenter(c, meta, start, end, s) = FlattenSeq(seqs)
  BY <1>2, AroundCenterIs
<1>6. IsSeq(seqs) /\ Len(seqs) = N
  <2>1. seqs = [k \in 1 .. N |-> seqs[k]] BY <1>4 DEF AroundPasses
  <2> HIDE DEF seqs
  <2> QED BY <2>1, ListIs
<1>7. \A k \in 1 .. N : seqs[k] = AroundPass(c, meta, start, end, s, S[k])
  BY <1>4 DEF AroundPasses
<1>8. \A k \in 1 .. N : T[k] = AroundTarget(c, start, end, s, S[k]) OBVIOUS
<1> HIDE DEF seqs, T
<1>9. \A k \in 1 .. N : \A q : q \in T[k] <=>
        q \in Points(c) /\ Own(c, start, end, q) /\ IsFine(c, s, q) /\ OddAt(c, s, q) = S[k]
  <2> SUFFICES ASSUME NEW k \in 1 .. N
               PROVE  \A q : q \in AroundTarget(c, start, end, s, S[k]) <=>
                        q \in Points(c) /\ Own(c, start, end, q) /\ IsFine(c, s, q) /\ OddAt(c, s, q) = S[k]
    BY <1>8
  <2> QED BY DEF AroundTarget
<1>10. ASSUME NEW k \in 1 .. N PROVE Fills(seqs[k], R \cup UNION {T[j] : j \in 1 .. k - 1}, T[k])
  <2> PICK K : K = R \cup UNION {T[j] : j \in 1 .. k - 1}
    OBVIOUS
  <2> PICK dirs : dirs = S[k]
    OBVIOUS
  <2>1. OnAround(c, start, end, s, dirs) BY <1>4 DEF OnAround
  <2>2. ASSUME NEW A \in SUBSET dirs, A # {}, A # dirs PROVE AroundTarget(c, start, end, s, A) \subseteq K
    <3>1. PICK j \in 1 .. N : S[j] = A
      BY <1>4, <2>2
    <3>2. j < k BY <1>4, <2>2, <3>1
    <3>3. j \in 1 .. k - 1 BY <3>2
    <3>4. T[j] = AroundTarget(c, start, end, s, A) BY <1>8, <3>1
    <3> QED BY <3>3, <3>4
  <2>3. R \subseteq K OBVIOUS
  <2>4. Fills(AroundPass(c, meta, start, end, s, dirs), K, AroundTarget(c, start, end, s, dirs))
    BY <2>1, <2>2, <2>3, AroundPassFills
  <2> QED BY <1>7, <1>8, <2>4
<1>11. \A j, k \in 1 .. N : j # k => \A q \in T[j] : q \notin T[k]
  <2> SUFFICES ASSUME NEW j \in 1 .. N, NEW k \in 1 .. N, j # k, NEW q, q \in T[j], q \in T[k] PROVE FALSE
    OBVIOUS
  <2>1. S[j] = S[k] BY <1>9
  <2>2. j < k /\ k < j BY <1>4, <2>1
  <2> QED BY <2>2
<1>12. UNION {T[k] : k \in 1 .. N} = BlockTarget(c, start, end, s)
  <2>1. ASSUME NEW k \in 1 .. N, NEW q \in T[k] PROVE q \in BlockTarget(c, start, end, s)
    <3>1. q \in Points(c) /\ Own(c, start, end, q) /\ IsFine(c, s, q) /\ OddAt(c, s, q) # {}
      BY <1>4, <1>9
    <3> QED BY <3>1 DEF BlockTarget
  <2>2. ASSUME NEW q \in BlockTarget(c, start, end, s) PROVE \E k \in 1 .. N : q \in T[k]
    <3>1. q \in Points(c) /\ Own(c, start, end, q) /\ IsFine(c, s, q) /\ OddAt(c, s, q) # {}
      BY DEF BlockTarget
    <3>2. OddAt(c, s, q) \in SUBSET Free(c) BY DEF OddAt
    <3>3. PICK k \in 1 .. N : S[k] = OddAt(c, s, q)
      BY <1>4, <3>1, <3>2
    <3> QED BY <1>9, <3>1, <3>3
  <2> QED BY <2>1, <2>2
<1>13. Fills(FlattenSeq(seqs), R, UNION {T[k] : k \in 1 .. N})
  <2>1. \A k \in 1 .. N : Fills(seqs[k], R \cup UNION {T[j] : j \in 1 .. k - 1}, T[k])
    BY <1>10
  <2>2. FillInTurn(seqs, N, R, T) BY <1>6, <1>11, <2>1, Zenon DEF FillInTurn
  <2> QED BY <2>2, FillsFlatten
<1> QED BY <1>5, <1>12, <1>13

\* A block codes its own points of the finer grid, each once, from the points of the coarser
\* grid and those of the blocks before it.
LEMMA BlockFills ==
  ASSUME NEW c, NEW meta, NEW start, NEW end, NEW s, OnBlock(c, start, end, s), GoodMeta(c, meta),
         NEW R, Ready(c, start, end, s, R)
  PROVE  Fills(BlockPasses(c, meta, start, end, s), R, BlockTarget(c, start, end, s))
<1>1. CASE meta.paradigm = 0 \/ Len(c.dims) \in {1, 4}
  <2>1. BlockPasses(c, meta, start, end, s) = AlongDims(c, meta, start, end, s)
    BY <1>1, Zenon DEF BlockPasses
  <2> QED BY <2>1, AlongFills
<1>2. CASE ~(meta.paradigm = 0 \/ Len(c.dims) \in {1, 4})
  <2>1. BlockPasses(c, meta, start, end, s) = AroundCenter(c, meta, start, end, s)
    BY <1>2, Zenon DEF BlockPasses
  <2>2. Len(c.dims) \in 1 .. 4 BY DEF OnBlock, IsBox, IsConfig
  <2>3. Len(c.dims) \in {2, 3} BY <1>2, <2>2
  <2> QED BY <2>1, <2>3, AroundFills
<1> QED BY <1>1, <1>2

-----------------------------------------------------------------------------
(* Levels.                                                                 *)

\* The grid of a level, and a block of it.
Grid(c, l) == {p \in Points(c) : \A d \in Free(c) : OnSteps(p[d], Pow2[l])}

AtStart(c, l, b) ==
  /\ l \in Nat \ {0} /\ l <= StartLevel(c)
  /\ OnBlock(c, b, BlockEnd(c, l, b), Stride(l))
  /\ \A d \in Dims(c) : b[d] < c.dims[d]

\* The grids of two levels.
LEMMA StrideIs ==
  ASSUME NEW l \in Nat \ {0}
  PROVE  /\ Stride(l) \in Nat \ {0} /\ Pow2[l] = 2 * Stride(l) /\ Stride(l) = Pow2[l - 1]
         /\ \A v \in Nat : /\ OnSteps(v, Pow2[l]) <=> OnEven(v, Stride(l))
                           /\ OnSteps(v, Pow2[l - 1]) <=> OnGrid(v, Stride(l))
<1> PICK k \in Nat : k = l - 1
  OBVIOUS
<1>1. Stride(l) = Pow2[k] /\ Pow2[k] \in Nat \ {0} /\ Pow2[k + 1] = 2 * Pow2[k]
  BY Pow2Is DEF Stride
<1>2. k + 1 = l OBVIOUS
<1>3. Stride(l) \in Nat \ {0} /\ Pow2[l] = 2 * Stride(l) /\ Stride(l) = Pow2[l - 1]
  BY <1>1, <1>2
<1>4. \A v \in Nat : /\ OnSteps(v, Stride(l)) <=> OnGrid(v, Stride(l))
                     /\ OnSteps(v, 2 * Stride(l)) <=> OnEven(v, Stride(l))
  BY <1>3, CodeSteps
<1> QED BY <1>3, <1>4

\* Blocks are whole cells of the coarser grid.
LEMMA BlocksizeIs ==
  ASSUME NEW c, IsConfig(c), Fits(c), NEW l \in Nat \ {0}, l <= StartLevel(c)
  PROVE  CurBlocksize(c, l) \in Nat \ {0} /\ OnSteps(CurBlocksize(c, l), Pow2[l])
<1> PICK top \in Nat : top = StartLevel(c)
  BY StartLevelIs
<1>0. /\ c.blocksize \in Nat \ {0} /\ c.blocksize % 2 = 0 /\ c.fixBlockSize \in Nat
      /\ c.fixBlockSize % Pow2[top] = 0
  BY DEF IsConfig, Fits
<1>1. Stride(l) \in Nat \ {0} /\ Pow2[l] = 2 * Stride(l) /\ Pow2[l] \in Nat \ {0}
  BY StrideIs, Pow2Is
<1>2. CASE c.fixBlockSize > 0
  <2>1. CurBlocksize(c, l) = c.fixBlockSize BY <1>2 DEF CurBlocksize
  <2>2. Pow2[top] \in Nat \ {0} /\ OnSteps(c.fixBlockSize, Pow2[top])
    BY <1>0, Pow2Is DEF OnSteps
  <2>3. OnSteps(Pow2[top], Pow2[l])
    <3>1. l <= top /\ l \in Nat OBVIOUS
    <3>2. PICK m \in Nat : Pow2[top] = m * Pow2[l]
      BY <3>1, Pow2Grows
    <3> QED BY <1>1, <2>2, <3>2, MultipleIs
  <2> PICK f \in Nat : f = c.fixBlockSize
    BY <1>0
  <2>4. OnSteps(f, Pow2[l]) BY <1>1, <2>2, <2>3, MultipleOf
  <2> QED BY <1>2, <2>1, <2>4
<1>3. CASE ~(c.fixBlockSize > 0)
  <2>1. CurBlocksize(c, l) = c.blocksize * Stride(l) BY <1>3 DEF CurBlocksize
  <2> PICK z \in Nat \ {0} : z = c.blocksize
    BY <1>0
  <2> PICK s \in Nat \ {0} : s = Stride(l)
    BY <1>1
  <2>2. PICK h \in Nat : z = h * 2
    <3>1. OnSteps(z, 2) /\ 2 \in Nat \ {0} BY <1>0 DEF OnSteps
    <3> QED BY <3>1, MultipleIs
  <2>3. z * s \in Nat \ {0} BY Positive
  <2>4. z * s = h * (2 * s) BY <2>2
  <2>5. OnSteps(z * s, 2 * s)
    <3>1. 2 * s \in Nat \ {0} /\ z * s \in Nat BY <2>3
    <3> QED BY <2>4, <3>1, MultipleIs
  <2> QED BY <1>1, <2>1, <2>3, <2>5
<1> QED BY <1>2, <1>3

\* The last points of a block.
LEMMA EndIs ==
  ASSUME NEW c, IsConfig(c), NEW l \in Nat \ {0}, NEW b \in [Dims(c) -> Nat],
         \A d \in Dims(c) : b[d] < c.dims[d]
  PROVE  /\ IsBox(c, b, BlockEnd(c, l, b))
         /\ \A d \in Dims(c) : /\ BlockEnd(c, l, b)[d] \in Nat /\ b[d] <= BlockEnd(c, l, b)[d]
                               /\ BlockEnd(c, l, b)[d] = IF b[d] + CurBlocksize(c, l) < c.dims[d]
                                                         THEN b[d] + CurBlocksize(c, l)
                                                         ELSE c.dims[d] - 1
<1> PICK C \in Nat \ {0} : C = CurBlocksize(c, l)
  BY CursorIs
<1>1. \A d \in Dims(c) : c.dims[d] \in Nat \ {0} BY PointIs
<1>2. ASSUME NEW d \in Dims(c)
      PROVE  BlockEnd(c, l, b)[d] = IF b[d] + C < c.dims[d] THEN b[d] + C ELSE c.dims[d] - 1
  <2> PICK x \in Nat : x = b[d]
    OBVIOUS
  <2> PICK n \in Nat \ {0} : n = c.dims[d]
    BY <1>1
  <2>1. Min({x + C, n - 1}) = IF x + C <= n - 1 THEN x + C ELSE n - 1
    <3>1. x + C \in Int /\ n - 1 \in Int OBVIOUS
    <3> QED BY <3>1, MinOfTwo
  <2>2. BlockEnd(c, l, b)[d] = Min({x + C, n - 1}) BY DEF BlockEnd
  <2> QED BY <2>1, <2>2
<1>3. \A d \in Dims(c) : /\ BlockEnd(c, l, b)[d] \in Nat /\ b[d] <= BlockEnd(c, l, b)[d]
                         /\ BlockEnd(c, l, b)[d] < c.dims[d]
  <2> SUFFICES ASSUME NEW d \in Dims(c)
               PROVE  /\ BlockEnd(c, l, b)[d] \in Nat /\ b[d] <= BlockEnd(c, l, b)[d]
                      /\ BlockEnd(c, l, b)[d] < c.dims[d]
    OBVIOUS
  <2>1. b[d] \in Nat /\ c.dims[d] \in Nat \ {0} /\ b[d] < c.dims[d] BY <1>1
  <2> QED BY <1>2, <2>1
<1>4. BlockEnd(c, l, b) \in [Dims(c) -> Nat]
  <2>1. BlockEnd(c, l, b) = [d \in Dims(c) |-> BlockEnd(c, l, b)[d]]
    BY DEF BlockEnd
  <2> QED BY <1>3, <2>1
<1> QED BY <1>2, <1>3, <1>4 DEF IsBox

\* The point lies in an earlier block of the level.
Before(c, l, b, p) ==
  \E d \in Dims(c) :
    b[d] # 0 /\ p[d] <= b[d] /\ \A k \in Dims(c) : k < d => p[k] <= BlockEnd(c, l, b)[k]

\* What has been coded when compress comes to a block.
Reach(c, l, b) == Grid(c, l) \cup {p \in Grid(c, l - 1) : Before(c, l, b, p)}

\* The points of the two grids.
LEMMA GridIs ==
  ASSUME NEW c, IsConfig(c), NEW l \in Nat \ {0}, NEW p \in Points(c)
  PROVE  /\ p \in Grid(c, l - 1) <=> IsFine(c, Stride(l), p)
         /\ p \in Grid(c, l) <=> IsFine(c, Stride(l), p) /\ OddAt(c, Stride(l), p) = {}
<1> PICK s \in Nat \ {0} : s = Stride(l)
  BY StrideIs
<1>1. \A d \in Free(c) : p[d] \in Nat BY PointIs DEF Free
<1>2. \A v \in Nat : /\ OnSteps(v, Pow2[l]) <=> OnEven(v, s)
                     /\ OnSteps(v, Pow2[l - 1]) <=> OnGrid(v, s)
                     /\ OnEven(v, s) => ~OnOdd(v, s)
                     /\ OnEven(v, s) \/ OnOdd(v, s) <=> OnGrid(v, s)
  BY StrideIs, GridPoints
<1>3. p \in Grid(c, l - 1) <=> IsFine(c, s, p) BY <1>1, <1>2 DEF Grid, IsFine
<1>4. \A d \in Free(c) : OnSteps(p[d], Pow2[l]) <=> OnGrid(p[d], s) /\ ~OnOdd(p[d], s)
  BY <1>1, <1>2
<1>5. OddAt(c, s, p) = {} <=> \A d \in Free(c) : ~OnOdd(p[d], s) BY DEF OddAt
<1>6. p \in Grid(c, l) <=> \A d \in Free(c) : OnSteps(p[d], Pow2[l]) BY DEF Grid
<1>7. p \in Grid(c, l) <=> IsFine(c, s, p) /\ OddAt(c, s, p) = {}
  BY <1>4, <1>5, <1>6 DEF IsFine
<1> QED BY <1>3, <1>7

\* What has been coded is all that a block reads of the blocks before it, and none of its own
\* points.
LEMMA ReachIs ==
  ASSUME NEW c, NEW l, NEW b, AtStart(c, l, b)
  PROVE  /\ Ready(c, b, BlockEnd(c, l, b), Stride(l), Reach(c, l, b))
         /\ \A q \in BlockTarget(c, b, BlockEnd(c, l, b), Stride(l)) : q \notin Reach(c, l, b)
         /\ BlockTarget(c, b, BlockEnd(c, l, b), Stride(l)) \subseteq Points(c)
<1> PICK e : e = BlockEnd(c, l, b)
  OBVIOUS
<1> PICK s : s = Stride(l)
  OBVIOUS
<1>0. /\ IsConfig(c) /\ l \in Nat \ {0} /\ \A d \in Dims(c) : b[d] \in Nat /\ e[d] \in Nat
  BY DEF AtStart, OnBlock, IsBox
<1>1. \A q \in Points(c) : \A d \in Dims(c) : q[d] \in Nat BY <1>0, PointIs
<1>2. \A q \in Points(c) : /\ q \in Grid(c, l - 1) <=> IsFine(c, s, q)
                           /\ q \in Grid(c, l) <=> IsFine(c, s, q) /\ OddAt(c, s, q) = {}
  BY <1>0, GridIs
<1>3. ASSUME NEW q \in Points(c), IsFine(c, s, q), OddAt(c, s, q) = {} PROVE q \in Reach(c, l, b)
  BY <1>2, <1>3 DEF Reach
<1>4. ASSUME NEW q \in Points(c), IsFine(c, s, q), \A d \in Dims(c) : q[d] <= e[d],
             ~Own(c, b, e, q)
      PROVE  q \in Reach(c, l, b)
  <2>1. PICK d \in Dims(c) : ~OwnAt(b, e, q, d)
    BY <1>4 DEF Own
  <2>2. q[d] \in Nat /\ b[d] \in Nat /\ e[d] \in Nat /\ q[d] <= e[d]
    BY <1>0, <1>1, <1>4
  <2>3. b[d] # 0 /\ q[d] <= b[d] BY <2>1, <2>2 DEF OwnAt
  <2>4. Before(c, l, b, q) BY <1>4, <2>3 DEF Before
  <2> QED BY <1>2, <1>4, <2>4 DEF Reach
<1>5. ASSUME NEW q \in BlockTarget(c, b, e, s), q \in Reach(c, l, b) PROVE FALSE
  <2>1. q \in Points(c) /\ Own(c, b, e, q) /\ IsFine(c, s, q) /\ OddAt(c, s, q) # {}
    BY DEF BlockTarget
  <2>2. Before(c, l, b, q) BY <1>2, <1>5, <2>1 DEF Reach
  <2>3. PICK d \in Dims(c) : b[d] # 0 /\ q[d] <= b[d]
    BY <2>2 DEF Before
  <2>4. OwnAt(b, e, q, d) BY <2>1 DEF Own
  <2>5. q[d] \in Nat /\ b[d] \in Nat /\ e[d] \in Nat BY <1>0, <1>1, <2>1
  <2> QED BY <2>3, <2>4, <2>5 DEF OwnAt
<1>6. BlockTarget(c, b, e, s) \subseteq Points(c) BY DEF BlockTarget
<1> QED BY <1>3, <1>4, <1>5, <1>6 DEF Ready

Inside(c, l, b, p) == \A d \in Dims(c) : p[d] <= BlockEnd(c, l, b)[d]

\* A block and those before it.
LEMMA BlockAdds ==
  ASSUME NEW c, NEW l, NEW b, AtStart(c, l, b)
  PROVE  Reach(c, l, b) \cup BlockTarget(c, b, BlockEnd(c, l, b), Stride(l))
           = Grid(c, l) \cup {p \in Grid(c, l - 1) : Before(c, l, b, p) \/ Inside(c, l, b, p)}
<1> PICK e : e = BlockEnd(c, l, b)
  OBVIOUS
<1> PICK s : s = Stride(l)
  OBVIOUS
<1>0. /\ IsConfig(c) /\ l \in Nat \ {0} /\ \A d \in Dims(c) : b[d] \in Nat /\ e[d] \in Nat
  BY DEF AtStart, OnBlock, IsBox
<1>1. \A q \in Points(c) : \A d \in Dims(c) : q[d] \in Nat BY <1>0, PointIs
<1>2. \A q \in Points(c) : /\ q \in Grid(c, l - 1) <=> IsFine(c, s, q)
                           /\ q \in Grid(c, l) <=> IsFine(c, s, q) /\ OddAt(c, s, q) = {}
  BY <1>0, GridIs
<1>3. \A q \in Grid(c, l) \cup Grid(c, l - 1) : q \in Points(c) BY DEF Grid
<1>4. ASSUME NEW q \in BlockTarget(c, b, e, s) PROVE q \in Grid(c, l - 1) /\ Inside(c, l, b, q)
  <2>1. q \in Points(c) /\ Own(c, b, e, q) /\ IsFine(c, s, q) BY DEF BlockTarget
  <2>2. \A d \in Dims(c) : q[d] <= e[d] BY <2>1 DEF Own, OwnAt
  <2> QED BY <1>2, <2>1, <2>2 DEF Inside
<1>5. ASSUME NEW q \in Grid(c, l - 1), Inside(c, l, b, q)
      PROVE  q \in Reach(c, l, b) \cup BlockTarget(c, b, e, s)
  <2>1. q \in Points(c) /\ IsFine(c, s, q) BY <1>2, <1>3
  <2>2. CASE Own(c, b, e, q) /\ OddAt(c, s, q) # {}
    BY <2>1, <2>2 DEF BlockTarget
  <2>3. CASE OddAt(c, s, q) = {} BY <1>2, <2>1, <2>3 DEF Reach
  <2>4. CASE ~Own(c, b, e, q)
    <3>1. Ready(c, b, e, s, Reach(c, l, b)) BY ReachIs
    <3>2. \A d \in Dims(c) : q[d] <= e[d] BY <1>5 DEF Inside
    <3> QED BY <2>1, <2>4, <3>1, <3>2 DEF Ready
  <2> QED BY <2>2, <2>3, <2>4
<1> QED BY <1>4, <1>5 DEF Reach

\* After the last block of a level its grid is complete.
LEMMA LevelEnds ==
  ASSUME NEW c, NEW l, NEW b, AtStart(c, l, b), Advance(c, l, b) = {}
  PROVE  Reach(c, l, b) \cup BlockTarget(c, b, BlockEnd(c, l, b), Stride(l)) = Grid(c, l - 1)
<1>0. /\ IsConfig(c) /\ l \in Nat \ {0} /\ b \in [Dims(c) -> Nat]
      /\ \A d \in Dims(c) : b[d] < c.dims[d]
  BY DEF AtStart, OnBlock, IsBox
<1>1. \A d \in Dims(c) : BlockEnd(c, l, b)[d] = c.dims[d] - 1
  <2>1. \A d \in Dims(c) : ~(b[d] + CurBlocksize(c, l) < c.dims[d])
    BY DEF Advance
  <2> QED BY <1>0, <2>1, EndIs
<1>2. ASSUME NEW q \in Points(c) PROVE Inside(c, l, b, q)
  <2>1. \A d \in Dims(c) : q[d] \in Nat /\ q[d] < c.dims[d] /\ c.dims[d] \in Nat
    BY <1>0, PointIs
  <2> QED BY <1>1, <2>1 DEF Inside
<1>3. \A q \in Grid(c, l) : q \in Grid(c, l - 1) BY <1>0, GridIs DEF Grid
<1>4. Grid(c, l - 1) \subseteq Points(c) BY DEF Grid
<1> QED BY <1>2, <1>3, <1>4, BlockAdds

\* After another block the next one is reached.
LEMMA BlockEnds ==
  ASSUME NEW c, Fits(c), NEW l, NEW b, AtStart(c, l, b), Advance(c, l, b) # {}
  PROVE  /\ AtStart(c, l, NextStart(c, l, b))
         /\ Reach(c, l, b) \cup BlockTarget(c, b, BlockEnd(c, l, b), Stride(l))
              = Reach(c, l, NextStart(c, l, b))
<1> PICK n : n = NextStart(c, l, b)
  OBVIOUS
<1> PICK last : last = Max(Advance(c, l, b))
  OBVIOUS
<1> PICK s : s = Stride(l)
  OBVIOUS
<1> PICK C : C = CurBlocksize(c, l)
  OBVIOUS
<1>0. /\ IsConfig(c) /\ l \in Nat \ {0} /\ l <= StartLevel(c) /\ b \in [Dims(c) -> Nat]
      /\ \A d \in Dims(c) : b[d] < c.dims[d] /\ OnEven(b[d], s)
      /\ s \in Nat \ {0}
  BY DEF AtStart, OnBlock, IsBox
<1>1. Dims(c) = 1 .. Len(c.dims) /\ Len(c.dims) \in Nat /\ \A d \in Dims(c) : c.dims[d] \in Nat \ {0}
  BY <1>0, PointIs
<1>2. /\ C \in Nat \ {0} /\ OnSteps(C, Pow2[l]) BY <1>0, BlocksizeIs
<1>3. /\ last \in Dims(c) /\ b[last] + C < c.dims[last]
      /\ \A d \in Dims(c) : d > last => ~(b[d] + C < c.dims[d])
      /\ n \in [Dims(c) -> Nat] /\ n[last] = b[last] + C
      /\ \A d \in Dims(c) : d < last => n[d] = b[d]
      /\ \A d \in Dims(c) : d > last => n[d] = 0
  <2>1. /\ last \in Advance(c, l, b) /\ \A d \in Advance(c, l, b) : d <= last
        /\ n \in [Dims(c) -> Nat] /\ n[last] = b[last] + C
        /\ \A d \in Dims(c) : d < last => n[d] = b[d]
        /\ \A d \in Dims(c) : d > last => n[d] = 0
    BY <1>0, CursorIs
  <2>2. Advance(c, l, b) = {d \in Dims(c) : b[d] + C < c.dims[d]} BY DEF Advance
  <2>3. last \in Dims(c) /\ b[last] + C < c.dims[last] BY <2>1, <2>2
  <2>4. ASSUME NEW d \in Dims(c), d > last PROVE ~(b[d] + C < c.dims[d])
    <3>1. d \notin Advance(c, l, b) BY <1>1, <2>1, <2>3, <2>4
    <3> QED BY <2>2, <3>1
  <2> QED BY <2>1, <2>3, <2>4
<1>4. \A d \in Dims(c) : d < last \/ d = last \/ d > last BY <1>1, <1>3
<1>5. \A d \in Dims(c) : n[d] < c.dims[d] BY <1>0, <1>1, <1>3, <1>4
<1>6. \A d \in Dims(c) : OnEven(n[d], s)
  <2> SUFFICES ASSUME NEW d \in Dims(c) PROVE OnEven(n[d], s)
    OBVIOUS
  <2> PICK m \in Nat \ {0} : m = Pow2[l]
    BY <1>0, StrideIs
  <2>0. \A v \in Nat : OnSteps(v, m) <=> OnEven(v, s) BY <1>0, StrideIs
  <2>1. OnSteps(0, m)
    <3> PICK z \in Nat : z = 0
      OBVIOUS
    <3>1. z = z * m OBVIOUS
    <3>2. OnSteps(z, m) BY <3>1, MultipleIs
    <3> QED BY <3>2
  <2>2. CASE d < last BY <1>0, <1>3, <2>2
  <2>3. CASE d > last
    <3>1. n[d] \in Nat /\ n[d] = 0 BY <1>3, <2>3
    <3> QED BY <2>0, <2>1, <3>1
  <2>4. CASE d = last
    <3> PICK u \in Nat : u = b[d]
      BY <1>0
    <3> PICK v \in Nat : v = C
      BY <1>2
    <3>1. OnSteps(u, m) /\ OnSteps(v, m) BY <1>0, <1>2, <2>0
    <3>2. OnSteps(u + v, m) BY <3>1, SumOfMultiples
    <3>3. n[d] = u + v /\ u + v \in Nat BY <1>3, <2>4
    <3> QED BY <2>0, <3>2, <3>3
  <2> QED BY <1>4, <2>2, <2>3, <2>4
<1>7. AtStart(c, l, n)
  <2>1. IsBox(c, n, BlockEnd(c, l, n)) BY <1>0, <1>3, <1>5, EndIs
  <2> QED BY <1>0, <1>5, <1>6, <2>1 DEF AtStart, OnBlock
<1> PICK e : e = BlockEnd(c, l, b)
  OBVIOUS
<1> PICK f : f = BlockEnd(c, l, n)
  OBVIOUS
<1>8. /\ \A d \in Dims(c) : e[d] = IF b[d] + C < c.dims[d] THEN b[d] + C ELSE c.dims[d] - 1
      /\ \A d \in Dims(c) : f[d] = IF n[d] + C < c.dims[d] THEN n[d] + C ELSE c.dims[d] - 1
      /\ \A d \in Dims(c) : e[d] \in Nat /\ b[d] <= e[d]
  <2>1. \A d \in Dims(c) : e[d] = IF b[d] + C < c.dims[d] THEN b[d] + C ELSE c.dims[d] - 1
    BY <1>0, EndIs
  <2>2. \A d \in Dims(c) : f[d] = IF n[d] + C < c.dims[d] THEN n[d] + C ELSE c.dims[d] - 1
    BY <1>0, <1>3, <1>5, EndIs
  <2>3. \A d \in Dims(c) : e[d] \in Nat /\ b[d] <= e[d] BY <1>0, EndIs
  <2> QED BY <2>1, <2>2, <2>3
<1>9. /\ \A d \in Dims(c) : d < last => f[d] = e[d]
      /\ e[last] = n[last] /\ n[last] # 0
      /\ \A d \in Dims(c) : d > last => e[d] = c.dims[d] - 1
  <2>1. \A d \in Dims(c) : d < last => f[d] = e[d] BY <1>3, <1>8
  <2>2. e[last] = n[last] BY <1>3, <1>8
  <2>3. n[last] # 0 BY <1>0, <1>2, <1>3
  <2>4. \A d \in Dims(c) : d > last => e[d] = c.dims[d] - 1 BY <1>3, <1>8
  <2> QED BY <2>1, <2>2, <2>3, <2>4
<1>10. ASSUME NEW p \in Points(c)
       PROVE  Before(c, l, n, p) <=> Before(c, l, b, p) \/ Inside(c, l, b, p)
  <2>0. \A d \in Dims(c) : p[d] \in Nat /\ p[d] < c.dims[d] BY <1>0, PointIs
  <2>1. /\ Before(c, l, n, p) <=> \E d \in Dims(c) : n[d] # 0 /\ p[d] <= n[d]
                                    /\ \A k \in Dims(c) : k < d => p[k] <= f[k]
        /\ Before(c, l, b, p) <=> \E d \in Dims(c) : b[d] # 0 /\ p[d] <= b[d]
                                    /\ \A k \in Dims(c) : k < d => p[k] <= e[k]
        /\ Inside(c, l, b, p) <=> \A d \in Dims(c) : p[d] <= e[d]
    BY DEF Before, Inside
  <2>2. ASSUME Before(c, l, n, p) PROVE Before(c, l, b, p) \/ Inside(c, l, b, p)
    <3> PICK d \in Dims(c) : n[d] # 0 /\ p[d] <= n[d] /\ \A k \in Dims(c) : k < d => p[k] <= f[k]
      BY <2>1, <2>2
    <3>1. CASE d < last
      <4>1. b[d] # 0 /\ p[d] <= b[d] BY <1>3, <3>1
      <4>2. ASSUME NEW k \in Dims(c), k < d PROVE p[k] <= e[k]
        <5>1. k < last BY <1>1, <1>3, <3>1, <4>2
        <5> QED BY <1>9, <4>2, <5>1
      <4> QED BY <2>1, <4>1, <4>2
    <3>2. CASE d = last
      <4>1. ASSUME NEW k \in Dims(c) PROVE p[k] <= e[k]
        <5>1. CASE k < last BY <1>9, <3>2, <5>1
        <5>2. CASE k = last BY <1>9, <3>2, <5>2
        <5>3. CASE k > last BY <1>1, <1>9, <2>0, <5>3
        <5> QED BY <1>4, <5>1, <5>2, <5>3
      <4> QED BY <2>1, <4>1
    <3>3. CASE d > last BY <1>3, <3>3
    <3> QED BY <1>4, <3>1, <3>2, <3>3
  <2>3. ASSUME \A k \in Dims(c) : k <= last => p[k] <= e[k] PROVE Before(c, l, n, p)
    <3>1. p[last] <= n[last] /\ n[last] # 0 BY <1>1, <1>3, <1>9, <2>3
    <3>2. ASSUME NEW k \in Dims(c), k < last PROVE p[k] <= f[k]
      BY <1>1, <1>3, <1>9, <2>3, <3>2
    <3> QED BY <1>3, <2>1, <3>1, <3>2
  <2>4. ASSUME Before(c, l, b, p) PROVE Before(c, l, n, p)
    <3> PICK d \in Dims(c) : b[d] # 0 /\ p[d] <= b[d] /\ \A k \in Dims(c) : k < d => p[k] <= e[k]
      BY <2>1, <2>4
    <3>1. CASE d < last
      <4>1. n[d] # 0 /\ p[d] <= n[d] BY <1>3, <3>1
      <4>2. ASSUME NEW k \in Dims(c), k < d PROVE p[k] <= f[k]
        <5>1. k < last BY <1>1, <1>3, <3>1, <4>2
        <5> QED BY <1>9, <4>2, <5>1
      <4> QED BY <2>1, <4>1, <4>2
    <3>2. CASE d >= last
      <4>1. ASSUME NEW k \in Dims(c), k <= last PROVE p[k] <= e[k]
        <5>1. CASE k < d BY <5>1
        <5>2. CASE k = d
          <6>1. p[d] \in Nat /\ b[d] \in Nat /\ e[d] \in Nat /\ b[d] <= e[d]
            BY <1>0, <1>8, <2>0
          <6> QED BY <5>2, <6>1
        <5>3. k < d \/ k = d BY <1>1, <1>3, <3>2, <4>1
        <5> QED BY <5>1, <5>2, <5>3
      <4> QED BY <2>3, <4>1
    <3>3. d < last \/ d >= last BY <1>1, <1>3
    <3> QED BY <3>1, <3>2, <3>3
  <2>5. Inside(c, l, b, p) => Before(c, l, n, p) BY <2>1, <2>3
  <2> QED BY <2>2, <2>4, <2>5
<1>11. Grid(c, l - 1) \subseteq Points(c) BY DEF Grid
<1>12. Reach(c, l, n) = Grid(c, l) \cup {p \in Grid(c, l - 1) : Before(c, l, b, p) \/ Inside(c, l, b, p)}
  BY <1>10, <1>11 DEF Reach
<1> QED BY <1>7, <1>12, BlockAdds

\* A level begins at the first block, with its coarser grid.
LEMMA LevelStarts ==
  ASSUME NEW c, IsConfig(c), Fits(c), NEW l \in Nat \ {0}, l <= StartLevel(c)
  PROVE  AtStart(c, l, Origin(c)) /\ Reach(c, l, Origin(c)) = Grid(c, l)
<1> PICK o : o = Origin(c)
  OBVIOUS
<1>1. o \in [Dims(c) -> Nat] /\ \A d \in Dims(c) : o[d] = 0 BY DEF Origin
<1>2. \A d \in Dims(c) : o[d] < c.dims[d]
  <2>1. \A d \in Dims(c) : c.dims[d] \in Nat \ {0} BY PointIs
  <2> QED BY <1>1, <2>1
<1>3. OnEven(0, Stride(l))
  <2> PICK z \in Nat : z = 0
    OBVIOUS
  <2> PICK m \in Nat \ {0} : m = Pow2[l]
    BY StrideIs
  <2>1. z = z * m OBVIOUS
  <2>2. OnSteps(z, m) BY <2>1, MultipleIs
  <2>3. OnEven(z, Stride(l)) BY <2>2, StrideIs
  <2> QED BY <2>3
<1>4. IsBox(c, o, BlockEnd(c, l, o)) BY <1>1, <1>2, EndIs
<1>5. Stride(l) \in Nat \ {0} BY StrideIs
<1>6. AtStart(c, l, o) BY <1>1, <1>2, <1>3, <1>4, <1>5 DEF AtStart, OnBlock
<1>7. Reach(c, l, o) = Grid(c, l) BY <1>1 DEF Reach, Before
<1> QED BY <1>6, <1>7

\* The finest grid is the array.
LEMMA FinestGrid ==
  ASSUME NEW c, IsConfig(c)
  PROVE  Grid(c, 0) = Points(c)
<1>1. Pow2[0] = 1 BY Pow2Is
<1>2. \A p \in Points(c) : \A d \in Free(c) : OnSteps(p[d], 1)
  <2>1. \A p \in Points(c) : \A d \in Free(c) : p[d] \in Nat BY PointIs DEF Free
  <2>2. \A v \in Nat : OnSteps(v, 1)
    <3> PICK s \in Nat \ {0} : s = 1
      OBVIOUS
    <3> QED BY CodeSteps
  <2> QED BY <2>1, <2>2
<1> QED BY <1>1, <1>2 DEF Grid

\* The first batch is the grid of the anchors, and predicted from nothing.
LEMMA FirstIs ==
  ASSUME NEW c, IsConfig(c), Fits(c)
  PROVE  /\ \A e \in FirstBatch(c) : e = [at |-> e.at, reads |-> {}] /\ e.reads = {}
         /\ \A p : p \in Grid(c, StartLevel(c)) <=> \E e \in FirstBatch(c) : e.at = p
<1> PICK m \in Nat : m = c.maxStep
  BY DEF IsConfig
<1> PICK t \in Nat \ {0} : t = Pow2[StartLevel(c)]
  BY StartLevelIs, Pow2Is
<1> DEFINE stride(d) == IF d = c.frozen THEN 1 ELSE c.maxStep
           points == IF c.maxStep = 0 THEN {Origin(c)}
                     ELSE {p \in Points(c) : \A d \in Dims(c) : p[d] % stride(d) = 0}
<1>1. FirstBatch(c) = {[at |-> p, reads |-> {}] : p \in points}
  BY Zenon DEF FirstBatch
<1>2. Grid(c, StartLevel(c)) = {p \in Points(c) : \A d \in Free(c) : OnSteps(p[d], t)}
  BY DEF Grid
<1>3. points = Grid(c, StartLevel(c))
  <2>1. CASE m = 0
    <3>1. points = {Origin(c)} BY <2>1
    <3>2. Free(c) = Dims(c)
      <4>1. c.frozen = 0 BY <2>1 DEF Fits
      <4>2. 0 \notin Dims(c) BY PointIs
      <4> QED BY <4>1, <4>2 DEF Free
    <3>3. \A d \in Dims(c) : c.dims[d] \in Nat \ {0} /\ c.dims[d] <= t
      BY <2>1, PointIs, StartLevelIs
    <3>4. ASSUME NEW p \in Points(c), \A d \in Dims(c) : OnSteps(p[d], t) PROVE p = Origin(c)
      <4>1. \A d \in Dims(c) : p[d] \in Nat /\ p[d] < c.dims[d] BY PointIs
      <4>2. \A d \in Dims(c) : p[d] = 0
        <5> SUFFICES ASSUME NEW d \in Dims(c) PROVE p[d] = 0
          OBVIOUS
        <5> PICK v \in Nat : v = p[d]
          BY <4>1
        <5>1. v < t BY <3>3, <4>1
        <5>2. v % t = 0 BY <3>4 DEF OnSteps
        <5>3. v = 0
          <6> PICK q \in Nat : v = q * t
            BY <5>2, MultipleIs DEF OnSteps
          <6>1. CASE q = 0 BY <6>1
          <6>2. CASE q # 0
            <7>1. q * t >= t /\ q * t \in Nat BY <6>2, Positive
            <7> QED BY <5>1, <7>1
          <6> QED BY <6>1, <6>2
        <5> QED BY <5>3
      <4>3. p \in [Dims(c) -> Nat] BY PointIs
      <4> QED BY <4>2, <4>3 DEF Origin
    <3>5. Origin(c) \in Points(c) /\ \A d \in Dims(c) : OnSteps(Origin(c)[d], t)
      <4>1. Origin(c) \in [Dims(c) -> Nat] /\ \A d \in Dims(c) : Origin(c)[d] = 0
        BY DEF Origin
      <4>2. Origin(c) \in Points(c) BY <3>3, <4>1, PointIs
      <4> PICK z \in Nat : z = 0
        OBVIOUS
      <4>3. z = z * t OBVIOUS
      <4>4. OnSteps(z, t) BY <4>3, MultipleIs
      <4> QED BY <4>1, <4>2, <4>4
    <3> QED BY <1>2, <3>1, <3>2, <3>4, <3>5
  <2>2. CASE m # 0
    <3>1. points = {p \in Points(c) : \A d \in Dims(c) : p[d] % stride(d) = 0}
      BY <2>2
    <3>2. t = c.maxStep BY <2>2, StartLevelIs
    <3>3. ASSUME NEW p \in Points(c), NEW d \in Dims(c)
          PROVE  p[d] % stride(d) = 0 <=> d = c.frozen \/ OnSteps(p[d], t)
      <4>1. p[d] \in Nat BY PointIs
      <4>2. p[d] % 1 = 0 BY <4>1
      <4> QED BY <3>2, <4>2 DEF OnSteps
    <3>4. \A p \in Points(c) : (\A d \in Dims(c) : p[d] % stride(d) = 0)
                                 <=> \A d \in Free(c) : OnSteps(p[d], t)
      <4> HIDE DEF stride, points
      <4> QED BY <3>3 DEF Free
    <3> QED BY <1>2, <3>1, <3>4
  <2> QED BY <2>1, <2>2
<1> HIDE DEF points
<1>4. ASSUME NEW e \in FirstBatch(c) PROVE e = [at |-> e.at, reads |-> {}] /\ e.reads = {} /\ e.at \in points
  <2> PICK p \in points : e = [at |-> p, reads |-> {}]
    BY <1>1
  <2>1. e.at = p /\ e.reads = {} OBVIOUS
  <2> QED BY <2>1
<1>5. ASSUME NEW p \in points PROVE \E e \in FirstBatch(c) : e.at = p
  <2> PICK e : e = [at |-> p, reads |-> {}]
    OBVIOUS
  <2>1. e \in FirstBatch(c) /\ e.at = p BY <1>1
  <2> QED BY <2>1
<1> QED BY <1>3, <1>4, <1>5

\* What a log has coded.
LEMMA KnownIs ==
  /\ Order!Known(<<>>) = {}
  /\ \A l, b : IsSeq(l) => Order!Known(Append(l, b)) = Order!Known(l) \cup At(b)
<1>1. Order!Known(<<>>) = {}
  <2>1. Len(<<>>) = 0 BY ListsAre
  <2>2. \A k : k \notin 1 .. 0 OBVIOUS
  <2> QED BY <2>1, <2>2 DEF Order!Known, Order!Coded
<1>2. ASSUME NEW l, NEW b, IsSeq(l) PROVE Order!Known(Append(l, b)) = Order!Known(l) \cup At(b)
  <2> PICK m : m = Append(l, b)
    OBVIOUS
  <2> PICK n \in Nat : n = Len(l)
    BY <1>2, LengthIs
  <2>1. Len(m) = n + 1 /\ m[n + 1] = b /\ \A k \in 1 .. n : m[k] = l[k]
    BY <1>2, AppendIs
  <2>2. \A q : q \in Order!Known(l) <=> \E k \in 1 .. n : \E e \in l[k] : e.at = q
    BY DEF Order!Known, Order!Coded
  <2>3. \A q : q \in Order!Known(m) <=> \E k \in 1 .. n + 1 : \E e \in m[k] : e.at = q
    BY <2>1 DEF Order!Known, Order!Coded
  <2>4. \A k : k \in 1 .. n + 1 <=> k \in 1 .. n \/ k = n + 1 OBVIOUS
  <2>5. \A q : q \in At(b) <=> \E e \in b : e.at = q BY DEF At
  <2>6. \A q : q \in Order!Known(m) <=> q \in Order!Known(l) \cup At(b)
    BY <2>1, <2>2, <2>3, <2>4, <2>5
  <2> QED BY <2>6
<1> QED BY <1>1, <1>2

\* A value of a function is in its range.
LEMMA InRange ==
  ASSUME NEW f, NEW x \in DOMAIN f
  PROVE  f[x] \in Range(f)
BY DEF Range

\* The entry of the list a level uses is one of the list.
LEMMA ListMetaIs ==
  ASSUME NEW S, NEW list \in Seq(S), NEW l \in Nat \ {0}, list # <<>>, NEW meta
  PROVE  LevelMeta(meta, list, l) \in S /\ LevelMeta(meta, list, l) \in Range(list)
<1> PICK n \in Nat \ {0} : n = Len(list)
  OBVIOUS
<1>1. Min({l, n}) \in 1 .. n
  <2>1. l \in Int /\ n \in Int OBVIOUS
  <2>2. Min({l, n}) = IF l <= n THEN l ELSE n BY <2>1, MinOfTwo
  <2> QED BY <2>2
<1>2. \A i \in 1 .. n : list[i] \in S /\ i \in DOMAIN list OBVIOUS
<1>3. \A i \in 1 .. n : list[i] \in S /\ list[i] \in Range(list)
  BY <1>2, InRange
<1>4. LevelMeta(meta, list, l) = list[Min({l, n})] BY Zenon DEF LevelMeta
<1> QED BY <1>1, <1>3, <1>4, Zenon

\* The meta of a level is one of the configuration's.
LEMMA LevelMetaIs ==
  ASSUME NEW c, IsConfig(c), NEW l \in Nat \ {0}, NEW meta, meta = LevelMeta(c.meta, c.list, l)
  PROVE  meta \in Metas /\ meta \in {c.meta} \cup Range(c.list)
<1>0. c.meta \in Metas /\ c.list \in Seq(Metas) BY DEF IsConfig
<1>1. CASE c.list = <<>> BY <1>0, <1>1 DEF LevelMeta
<1>2. CASE c.list # <<>> BY <1>0, <1>2, ListMetaIs
<1> QED BY <1>1, <1>2

\* A block that is not tuned is coded with a meta whose direction names a permutation.
LEMMA PlainMeta ==
  ASSUME NEW c, IsConfig(c), Fits(c), ~Tuned(c), NEW l \in Nat \ {0}
  PROVE  GoodMeta(c, LevelMeta(c.meta, c.list, l))
<1> PICK meta : meta = LevelMeta(c.meta, c.list, l)
  OBVIOUS
<1>1. meta \in Metas /\ meta \in {c.meta} \cup Range(c.list) BY LevelMetaIs
<1>2. meta.direction \in Nat BY <1>1 DEF Metas
<1>3. ~c.blockwise BY DEF Fits, Tuned
<1>4. \A m \in {c.meta} \cup Range(c.list) :
        IF c.frozen = 0 THEN m.direction < Cardinality(Orders(Len(c.dims)))
        ELSE m.direction \in {4 + 2 * c.frozen, 5 + 2 * c.frozen}
  BY <1>3 DEF Fits
<1>5. IF c.frozen = 0 THEN meta.direction < Cardinality(Orders(Len(c.dims)))
      ELSE meta.direction \in {4 + 2 * c.frozen, 5 + 2 * c.frozen}
  BY <1>1, <1>4, Zenon
<1> QED BY <1>2, <1>5 DEF GoodMeta

\* So is a block with one of the metas it is tried with.
LEMMA TriedMeta ==
  ASSUME NEW c, IsConfig(c), Len(c.dims) \in {2, 3}, NEW meta \in Metas, NEW m \in Candidates(c, meta)
  PROVE  GoodMeta(c, m)
<1> PICK n \in {2, 3} : n = Len(c.dims)
  OBVIOUS
<1> PICK f \in 0 .. 3 : f = c.frozen
  BY DEF IsConfig
<1> DEFINE direct == IF c.frozen = 0 THEN {0, (IF Len(c.dims) = 2 THEN 2 ELSE 6) - 1}
                     ELSE {4 + 2 * c.frozen, 5 + 2 * c.frozen}
<1> PICK d : d = m.direction
  OBVIOUS
<1>3. m.direction = d /\ d \in direct BY DEF Candidates
<1>4. CASE f = 0
  <2>1. d \in {0, (IF n = 2 THEN 2 ELSE 6) - 1} BY <1>3, <1>4
  <2> PICK k \in Nat : k = Cardinality(Orders(n))
    <3>1. n \in Nat OBVIOUS
    <3> QED BY <3>1, OrdersFound
  <2>2. (n = 2 => k >= 2) /\ (n = 3 => k = 6) BY OrdersFound, RanksOfThree
  <2>3. d \in Nat /\ d < k BY <2>1, <2>2
  <2> QED BY <1>3, <1>4, <2>3 DEF GoodMeta
<1>5. CASE f # 0
  <2>1. d \in {4 + 2 * f, 5 + 2 * f} BY <1>3, <1>5
  <2>2. d \in Nat BY <2>1
  <2> QED BY <1>3, <1>5, <2>1, <2>2 DEF GoodMeta
<1> QED BY <1>4, <1>5

\* The part of a block that a trial runs on is itself a block.
LEMMA SampleIs ==
  ASSUME NEW c, NEW l, NEW b, AtStart(c, l, b), NEW d \in Dims(c)
  PROVE  /\ SampleRange(c, l, b, d)[1] \in Nat /\ OnEven(SampleRange(c, l, b, d)[1], Stride(l))
         /\ SampleRange(c, l, b, d)[2] \in Nat /\ SampleRange(c, l, b, d)[2] < c.dims[d]
<1>0. /\ IsConfig(c) /\ l \in Nat \ {0} /\ b \in [Dims(c) -> Nat]
      /\ \A k \in Dims(c) : b[k] < c.dims[k] /\ OnEven(b[k], Stride(l))
  BY DEF AtStart, OnBlock, IsBox
<1> PICK s \in Nat \ {0} : s = Stride(l)
  BY <1>0, StrideIs
<1> PICK a \in Nat : a = b[d]
  BY <1>0
<1> PICK e \in Nat : e = BlockEnd(c, l, b)[d]
  BY <1>0, EndIs
<1> PICK len \in Nat : len = e - a + 1
  BY <1>0, EndIs
<1> PICK n \in Nat : n = c.dims[d]
  BY <1>0, PointIs
<1>1. e < n BY <1>0, EndIs DEF IsBox
<1> DEFINE rates == {r \in {1, 2, 4} : r <= c.rate /\ (r = 1 \/ len \div (s * r) >= 8)}
<1> PICK rate : rate = IF l >= 3 THEN 1 ELSE Max(rates)
  OBVIOUS
<1> DEFINE down(num) == ((num * len) \div (2 * rate * 2 * s)) * 2 * s + a
<1>2. SampleRange(c, l, b, d) = <<down(rate - 1), Min({down(rate + 1), e})>>
  BY Zenon DEF SampleRange
<1>3. rate \in {1, 2, 4}
  <2>1. 1 \in rates
    <3>1. c.rate \in {1, 2, 4} BY <1>0 DEF IsConfig
    <3> QED BY <3>1
  <2>2. rates \in SUBSET {1, 2, 4} OBVIOUS
  <2> HIDE DEF rates
  <2>3. \E m \in rates : \A x \in rates : x <= m
    <3>1. CASE 4 \in rates BY <2>2, <3>1
    <3>2. CASE 4 \notin rates /\ 2 \in rates BY <2>2, <3>2
    <3>3. CASE 4 \notin rates /\ 2 \notin rates BY <2>1, <2>2, <3>3
    <3> QED BY <3>1, <3>2, <3>3
  <2> PICK m \in rates : \A x \in rates : x <= m
    BY <2>3
  <2>4. Max(rates) = m
    <3>1. rates \in SUBSET Int BY <2>2
    <3> QED BY <3>1, MaxIs
  <2> QED BY <2>2, <2>4
<1> HIDE DEF rates
<1> PICK y \in Nat \ {0} : y = 2 * rate * 2 * s
  <2>1. 2 * rate * 2 \in Nat \ {0} BY <1>3
  <2>2. (2 * rate * 2) * s \in Nat \ {0} BY <2>1, Positive
  <2> QED BY <2>2
<1>4. ASSUME NEW num \in Nat PROVE down(num) \in Nat /\ OnEven(down(num), s)
  <2> PICK x \in Nat : x = num * len
    OBVIOUS
  <2>1. OnEven(a, s) BY <1>0
  <2>2. (x \div y) * 2 * s + a \in Nat /\ OnEven((x \div y) * 2 * s + a, s)
    BY <2>1, StepsBehind
  <2>3. down(num) = (x \div y) * 2 * s + a OBVIOUS
  <2> QED BY <2>2, <2>3, Zenon
<1>5. rate - 1 \in Nat /\ rate + 1 \in Nat BY <1>3
<1>6. down(rate - 1) \in Nat /\ OnEven(down(rate - 1), s) /\ down(rate + 1) \in Nat
  BY <1>4, <1>5
<1> HIDE DEF down
<1>7. Min({down(rate + 1), e}) \in Nat /\ Min({down(rate + 1), e}) <= e
  <2> PICK z \in Nat : z = down(rate + 1)
    BY <1>6
  <2>1. z \in Int /\ e \in Int OBVIOUS
  <2>2. Min({z, e}) = IF z <= e THEN z ELSE e BY <2>1, MinOfTwo
  <2> QED BY <2>2
<1> PICK v \in Nat : v = Min({down(rate + 1), e})
  BY <1>7
<1> PICK u \in Nat : u = down(rate - 1)
  BY <1>6
<1>8. SampleRange(c, l, b, d) = <<u, v>> BY <1>2
<1>9. SampleRange(c, l, b, d)[1] = u /\ SampleRange(c, l, b, d)[2] = v BY <1>8
<1>10. v < n BY <1>1, <1>7
<1> QED BY <1>6, <1>9, <1>10

\* What a trial writes is saved before it.
LEMMA TrialIs ==
  ASSUME NEW c, NEW l, NEW b, AtStart(c, l, b), NEW meta, GoodMeta(c, meta),
         NEW first, first = [d \in Dims(c) |-> SampleRange(c, l, b, d)[1]],
         NEW last, last = [d \in Dims(c) |-> SampleRange(c, l, b, d)[2]],
         NEW B, B = BlockPasses(c, meta, first, last, Stride(l)),
         NEW k \in DOMAIN B, NEW e \in B[k]
  PROVE  e.at \in Saved(c, Stride(l), first, last)
<1>0. IsConfig(c) /\ Stride(l) \in Nat \ {0} /\ l \in Nat \ {0}
  BY StrideIs DEF AtStart, OnBlock, IsBox
<1> PICK s \in Nat \ {0} : s = Stride(l)
  BY <1>0
<1>1. \A d \in Dims(c) : /\ first[d] \in Nat /\ OnEven(first[d], s)
                         /\ last[d] \in Nat /\ last[d] < c.dims[d]
  BY SampleIs
<1>2. OnBlock(c, first, last, s)
  <2>1. first \in [Dims(c) -> Nat] /\ last \in [Dims(c) -> Nat] BY <1>1
  <2> QED BY <1>0, <1>1, <2>1 DEF OnBlock, IsBox
<1> HIDE DEF Saved
<1>3. Ready(c, first, last, s, Points(c)) BY DEF Ready
<1>4. Fills(B, Points(c), BlockTarget(c, first, last, s))
  BY <1>2, <1>3, BlockFills
<1> PICK q : q = e.at
  OBVIOUS
<1>5. q \in BlockTarget(c, first, last, s)
  <2>1. IsSeq(B) BY <1>4 DEF Fills
  <2>2. DOMAIN B = 1 .. Len(B) BY <2>1, LengthIs
  <2>3. k \in 1 .. Len(B) BY <2>2
  <2> QED BY <1>4, <2>3 DEF Fills
<1>6. q \in Points(c) /\ Own(c, first, last, q) /\ IsFine(c, s, q)
  BY <1>5 DEF BlockTarget
<1>7. ASSUME NEW d \in Dims(c)
      PROVE  /\ q[d] \in first[d] .. last[d]
             /\ (q[d] - first[d]) % (IF d = c.frozen THEN 1 ELSE s) = 0
  <2> PICK v \in Nat : v = q[d]
    BY <1>0, <1>6, PointIs
  <2> PICK u \in Nat : u = first[d]
    BY <1>1
  <2>1. v \in u .. last[d] BY <1>6 DEF Own, OwnAt
  <2>2. v >= u /\ v - u \in Nat BY <1>1, <2>1
  <2> PICK x \in Nat : x = v - u
    BY <2>2
  <2>3. CASE d = c.frozen
    <3>1. x % 1 = 0 OBVIOUS
    <3> QED BY <2>1, <2>3, <3>1
  <2>4. CASE d # c.frozen
    <3>1. OnSteps(v, s)
      <4>1. OnGrid(v, s) BY <1>6, <2>4 DEF IsFine, Free
      <4> QED BY <4>1, CodeSteps
    <3>2. OnSteps(u, s)
      <4>1. OnGrid(u, s) BY <1>1, GridPoints
      <4> QED BY <4>1, CodeSteps
    <3>3. OnSteps(x, s) BY <2>2, <3>1, <3>2, MultiplesDiffer
    <3>4. x % s = 0 BY <3>3 DEF OnSteps
    <3> QED BY <2>1, <2>4, <3>4
  <2> QED BY <2>3, <2>4
<1> QED BY <1>6, <1>7 DEF Saved

\* What the passes not yet coded still have to code.
Rest(rest) ==
  /\ Fills(todo, Order!Known(log), rest) /\ rest \subseteq Points(cfg)
  /\ \A q \in rest : q \notin Order!Known(log)
  /\ Order!Known(log) \cup rest
       = Reach(cfg, level, block)
           \cup BlockTarget(cfg, block, BlockEnd(cfg, level, block), Stride(level))

\* What compress has coded: at a block the coarser grid and the blocks before it, in a block
\* all but what its passes have left to do, at the end the array.
SweepInv ==
  /\ dirty = {}
  /\ pc \in {"block", "code"} => AtStart(cfg, level, block)
  /\ pc = "block" => Order!Known(log) = Reach(cfg, level, block)
  /\ pc = "code" => \E rest : Rest(rest)
  /\ pc \notin {"first", "block", "code"} => Order!Known(log) = Points(cfg)

\* The batch is one the abstract order allows next.
Codes(b) ==
  /\ cfg' = cfg /\ dlog' = dlog /\ log' = Append(log, b)
  /\ Order!GoodBatch(b, Order!Known(log))

\* Such a step is one of the abstract encoder.
LEMMA CodesIs ==
  ASSUME WalkInv, NEW b, Codes(b)
  PROVE  Order!Encode
<1>1. IsSeq(log) /\ cfg' = cfg /\ dlog' = dlog /\ log' = Append(log, b)
  BY DEF WalkInv, Codes
<1>2. Len(log') = Len(log) + 1 /\ log'[Len(log) + 1] = b BY <1>1, AppendIs
<1>3. Order!GoodBatch(log'[Len(log) + 1], Order!Known(log)) BY <1>2 DEF Codes
<1>4. log' = Append(log, log'[Len(log) + 1]) BY <1>1, <1>2
<1>5. Points(cfg') = Points(cfg) BY <1>1
<1> QED BY <1>1, <1>2, <1>3, <1>4, <1>5 DEF Order!Encode

\* The invariant of the sweep holds at the start, and each step keeps it:
LEMMA InitSweep == Init => SweepInv
BY DEF Init, SweepInv

\* The next level begins with the grid of the last one.
LEMMA LevelBegins ==
  ASSUME NEW c, IsConfig(c), Fits(c), NEW l \in Nat, l <= StartLevel(c), NEW K, K = Grid(c, l)
  PROVE  /\ l = 0 => K = Points(c)
         /\ l # 0 => AtStart(c, l, Origin(c)) /\ K = Reach(c, l, Origin(c))
<1>1. l = 0 => K = Points(c) BY FinestGrid
<1>2. l # 0 => AtStart(c, l, Origin(c)) /\ K = Reach(c, l, Origin(c))
  BY LevelStarts
<1> QED BY <1>1, <1>2

\* the first batch,
LEMMA EncodeFirstSweep ==
  ASSUME AllFit, WalkInv, SweepInv, EncodeFirst
  PROVE  SweepInv' /\ Codes(FirstBatch(cfg))
<1>1. /\ cfg \in Configs /\ cfg' = cfg /\ pc = "first" /\ log = <<>>
      /\ log' = <<FirstBatch(cfg)>> /\ level' = StartLevel(cfg) /\ block' = Origin(cfg)
      /\ pc' = (IF level' = 0 THEN "save" ELSE "block") /\ dirty' = dirty /\ dlog' = dlog
  BY DEF EncodeFirst, WalkInv, decVars
<1>2. IsConfig(cfg) /\ Fits(cfg) BY <1>1, SweepAssumption DEF AllFit
<1> PICK c : c = cfg
  OBVIOUS
<1> PICK b : b = FirstBatch(c)
  OBVIOUS
<1> PICK top \in Nat : top = StartLevel(c)
  BY <1>2, StartLevelIs
<1>3. log' = Append(log, b) BY <1>1
<1>4. Order!Known(log) = {} /\ Order!Known(log)' = At(b)
  <2>1. IsSeq(log) /\ Order!Known(log) = {} BY <1>1, KnownIs, ListsAre
  <2>2. Order!Known(Append(log, b)) = {} \cup At(b) BY <2>1, KnownIs
  <2>3. Order!Known(log)' = Order!Known(log') BY DEF Order!Known, Order!Coded
  <2> QED BY <1>3, <2>1, <2>2, <2>3
<1>5. /\ \A e \in b : e = [at |-> e.at, reads |-> {}] /\ e.reads = {}
      /\ At(b) = Grid(c, top)
  <2>1. /\ \A e \in b : e = [at |-> e.at, reads |-> {}] /\ e.reads = {}
        /\ \A p : p \in Grid(c, top) <=> \E e \in b : e.at = p
    BY <1>2, FirstIs
  <2> QED BY <2>1 DEF At
<1>6. Order!GoodBatch(b, {})
  <2>1. \A e \in b : e.at \in Points(c) BY <1>5 DEF At, Grid
  <2>2. \A e \in b : e \in [at : Points(c) \ {}, reads : SUBSET {}]
    BY <1>5, <2>1
  <2>3. \A e, f \in b : e.at = f.at => e = f BY <1>5
  <2> QED BY <2>2, <2>3 DEF Order!GoodBatch
<1>7. Codes(b) BY <1>1, <1>3, <1>4, <1>6 DEF Codes
<1>8. /\ top = 0 => Order!Known(log)' = Points(c)
      /\ top # 0 => AtStart(c, top, Origin(c)) /\ Order!Known(log)' = Reach(c, top, Origin(c))
  BY <1>2, <1>4, <1>5, LevelBegins
<1>9. SweepInv' BY <1>1, <1>8 DEF SweepInv
<1> QED BY <1>7, <1>9

\* The passes of a block have all of its points to code.
LEMMA PassesLeft ==
  ASSUME NEW c, NEW l, NEW b, AtStart(c, l, b), NEW meta, GoodMeta(c, meta),
         NEW T, T = BlockTarget(c, b, BlockEnd(c, l, b), Stride(l))
  PROVE  /\ Fills(BlockPasses(c, meta, b, BlockEnd(c, l, b), Stride(l)), Reach(c, l, b), T)
         /\ \A q \in T : q \notin Reach(c, l, b)
         /\ T \subseteq Points(c)
<1>1. OnBlock(c, b, BlockEnd(c, l, b), Stride(l)) BY DEF AtStart
<1>2. Ready(c, b, BlockEnd(c, l, b), Stride(l), Reach(c, l, b)) BY ReachIs
<1>3. Fills(BlockPasses(c, meta, b, BlockEnd(c, l, b), Stride(l)), Reach(c, l, b), T)
  BY <1>1, <1>2, BlockFills
<1>4. (\A q \in T : q \notin Reach(c, l, b)) /\ T \subseteq Points(c) BY ReachIs
<1> QED BY <1>3, <1>4

\* When a block starts, its passes fill the points of the block on the finer grid. So
LEMMA PassesBegin ==
  ASSUME SweepInv, pc = "block", NEW meta, GoodMeta(cfg, meta), StartPasses(meta),
         pc' = "code", UNCHANGED <<cfg, level, block, log>>, dirty' = dirty
  PROVE  SweepInv'
<1> PICK c : c = cfg
  OBVIOUS
<1> PICK l : l = level
  OBVIOUS
<1> PICK b : b = block
  OBVIOUS
<1> PICK T : T = BlockTarget(c, b, BlockEnd(c, l, b), Stride(l))
  OBVIOUS
<1> PICK K : K = Reach(c, l, b)
  OBVIOUS
<1>1. AtStart(c, l, b) /\ Order!Known(log) = K /\ dirty = {} BY DEF SweepInv
<1>2. /\ todo' = BlockPasses(c, meta, b, BlockEnd(c, l, b), Stride(l))
      /\ cfg' = c /\ level' = l /\ block' = b /\ log' = log
  BY DEF StartPasses
<1>3. Fills(todo', K, T) /\ (\A q \in T : q \notin K) /\ T \subseteq Points(c)
  BY <1>1, <1>2, PassesLeft
<1>4. Order!Known(log)' = K
  <2>1. Order!Known(log)' = Order!Known(log') BY DEF Order!Known, Order!Coded
  <2> QED BY <1>1, <1>2, <2>1
<1>5. Rest(T)' BY <1>2, <1>3, <1>4 DEF Rest
<1> QED BY <1>1, <1>2, <1>5 DEF SweepInv

\* the start of a block keeps it,
LEMMA EncodeBlockSweep ==
  ASSUME AllFit, WalkInv, SweepInv, EncodeBlock
  PROVE  SweepInv' /\ cfg' = cfg /\ log' = log /\ dlog' = dlog
<1> PICK meta : meta = LevelMeta(cfg.meta, cfg.list, level)
  OBVIOUS
<1>1. /\ cfg \in Configs /\ pc = "block" /\ ~Tuned(cfg) /\ StartPasses(meta) /\ pc' = "code"
      /\ UNCHANGED <<cfg, level, block, log>> /\ dirty' = dirty /\ dlog' = dlog
  BY DEF EncodeBlock, WalkInv, decVars
<1>2. IsConfig(cfg) /\ Fits(cfg) BY <1>1, SweepAssumption DEF AllFit
<1>3. level \in Nat \ {0} BY <1>1 DEF SweepInv, AtStart
<1>4. GoodMeta(cfg, meta) BY <1>1, <1>2, <1>3, PlainMeta
<1>5. SweepInv' BY <1>1, <1>4, PassesBegin
<1> QED BY <1>1, <1>5

\* the start of a block that is tuned, which leaves the trial's batches out of the log,
LEMMA TuneBlockSweep ==
  ASSUME AllFit, WalkInv, SweepInv, TuneBlock
  PROVE  SweepInv' /\ cfg' = cfg /\ log' = log /\ dlog' = dlog
<1> DEFINE s      == Stride(level)
           sample == [d \in Dims(cfg) |-> SampleRange(cfg, level, block, d)]
           first  == [d \in Dims(cfg) |-> sample[d][1]]
           last   == [d \in Dims(cfg) |-> sample[d][2]]
           metas  == Candidates(cfg, LevelMeta(cfg.meta, cfg.list, level))
           written(meta) == UNION {{e.at : e \in batch} :
                                     batch \in Range(BlockPasses(cfg, meta, first, last, s))}
<1>1. /\ pc = "block" /\ Tuned(cfg) /\ pc' = "code"
      /\ UNCHANGED <<cfg, level, block, log>> /\ dlog' = dlog
      /\ dirty' = dirty \cup ((UNION {written(meta) : meta \in metas}) \ Saved(cfg, s, first, last))
      /\ \E best \in metas : StartPasses(best)
  BY Zenon DEF TuneBlock, decVars
<1>2. IsConfig(cfg) /\ AtStart(cfg, level, block) /\ dirty = {}
  BY <1>1, SweepAssumption DEF WalkInv, SweepInv
<1>3. Len(cfg.dims) \in {2, 3} BY <1>1 DEF Tuned
<1>4. LevelMeta(cfg.meta, cfg.list, level) \in Metas
  <2>1. level \in Nat \ {0} BY <1>2 DEF AtStart
  <2> QED BY <1>2, <2>1, LevelMetaIs
<1>5. \A meta \in metas : GoodMeta(cfg, meta) BY <1>2, <1>3, <1>4, TriedMeta
<1>6. /\ first = [d \in Dims(cfg) |-> SampleRange(cfg, level, block, d)[1]]
      /\ last = [d \in Dims(cfg) |-> SampleRange(cfg, level, block, d)[2]]
  OBVIOUS
<1> HIDE DEF first, last, sample
<1>7. ASSUME NEW meta \in metas PROVE written(meta) \subseteq Saved(cfg, s, first, last)
  <2> PICK B : B = BlockPasses(cfg, meta, first, last, s)
    OBVIOUS
  <2>1. \A k \in DOMAIN B : \A e \in B[k] : e.at \in Saved(cfg, s, first, last)
    BY <1>2, <1>5, <1>6, TrialIs
  <2>2. \A batch \in Range(B) : \A e \in batch : e.at \in Saved(cfg, s, first, last)
    BY <2>1 DEF Range
  <2> QED BY <2>2
<1> HIDE DEF written, metas, s
<1>8. dirty' = dirty BY <1>1, <1>2, <1>7
<1>9. PICK best \in metas : StartPasses(best)
  BY <1>1
<1>10. SweepInv' BY <1>1, <1>5, <1>8, <1>9, PassesBegin
<1> QED BY <1>1, <1>10

\* one loop of a block,
LEMMA EncodePassSweep ==
  ASSUME WalkInv, SweepInv, EncodePass
  PROVE  SweepInv' /\ Codes(Head(todo))
<1> PICK b : b = Head(todo)
  OBVIOUS
<1> PICK K : K = Order!Known(log)
  OBVIOUS
<1>1. /\ pc = "code" /\ pc' = pc /\ cfg' = cfg /\ level' = level /\ block' = block
      /\ todo # <<>> /\ todo' = Tail(todo) /\ log' = Append(log, b) /\ dirty' = dirty /\ dlog' = dlog
  BY DEF EncodePass, decVars
<1>2. PICK rest : Rest(rest)
  BY <1>1 DEF SweepInv
<1> PICK U : U = Reach(cfg, level, block)
                   \cup BlockTarget(cfg, block, BlockEnd(cfg, level, block), Stride(level))
  OBVIOUS
<1>3. /\ Fills(todo, K, rest) /\ rest \subseteq Points(cfg) /\ (\A q \in rest : q \notin K)
      /\ K \cup rest = U
  BY <1>2 DEF Rest
<1>4. /\ \A e \in b : e = [at |-> e.at, reads |-> e.reads] /\ e.at \in rest /\ e.reads \subseteq K
      /\ \A e, f \in b : e.at = f.at => e = f
      /\ At(b) \subseteq rest
      /\ Fills(Tail(todo), K \cup At(b), rest \ At(b))
  <2> PICK B : B = todo
    OBVIOUS
  <2>1. FirstOf(B, K, rest, b) BY <1>1, <1>3 DEF FirstOf
  <2>2. PartOf(B, K, rest, b) BY <2>1, FillsTail
  <2> QED BY <2>2 DEF PartOf
<1>5. Order!GoodBatch(b, K)
  <2>1. \A e \in b : e.at \in Points(cfg) \ K /\ e.reads \in SUBSET K
    BY <1>3, <1>4
  <2>2. \A e \in b : e \in [at : Points(cfg) \ K, reads : SUBSET K]
    BY <1>4, <2>1
  <2> QED BY <1>4, <2>2 DEF Order!GoodBatch
<1>6. Order!Known(log)' = K \cup At(b)
  <2>1. Order!Known(log)' = Order!Known(log') BY DEF Order!Known, Order!Coded
  <2>2. IsSeq(log) BY DEF WalkInv
  <2> QED BY <1>1, <2>1, <2>2, KnownIs
<1> PICK more : more = rest \ At(b)
  OBVIOUS
<1>7. /\ Fills(todo', K \cup At(b), more) /\ more \subseteq Points(cfg)
      /\ (\A q \in more : q \notin K \cup At(b)) /\ (K \cup At(b)) \cup more = U
  <2>1. Fills(todo', K \cup At(b), more) BY <1>1, <1>4
  <2> QED BY <1>3, <1>4, <2>1
<1>8. Rest(more)' BY <1>1, <1>6, <1>7 DEF Rest
<1>9. SweepInv' BY <1>1, <1>8 DEF SweepInv
<1>10. Codes(b) BY <1>1, <1>5 DEF Codes
<1> QED BY <1>9, <1>10

\* and the next block or level.
LEMMA EncodeNextSweep ==
  ASSUME AllFit, WalkInv, SweepInv, EncodeNextBlock \/ EncodeNextLevel
  PROVE  SweepInv' /\ cfg' = cfg /\ log' = log /\ dlog' = dlog
<1>1. /\ pc = "code" /\ cfg \in Configs /\ cfg' = cfg /\ log' = log /\ dlog' = dlog /\ dirty' = dirty
      /\ todo = <<>>
  BY DEF EncodeNextBlock, EncodeNextLevel, WalkInv, decVars
<1> PICK c : c = cfg
  OBVIOUS
<1> PICK l : l = level
  OBVIOUS
<1> PICK b : b = block
  OBVIOUS
<1> PICK K : K = Order!Known(log)
  OBVIOUS
<1>2. IsConfig(c) /\ Fits(c) /\ AtStart(c, l, b) /\ dirty = {}
  BY <1>1, SweepAssumption DEF AllFit, SweepInv
<1>3. PICK rest : Rest(rest)
  BY <1>1 DEF SweepInv
<1>4. K = Reach(c, l, b) \cup BlockTarget(c, b, BlockEnd(c, l, b), Stride(l))
  <2>1. rest = {} BY <1>1, <1>3, NothingFilled DEF Rest
  <2>2. K \cup rest = Reach(c, l, b) \cup BlockTarget(c, b, BlockEnd(c, l, b), Stride(l))
    BY <1>3 DEF Rest
  <2> QED BY <2>1, <2>2
<1>5. Order!Known(log)' = K
  <2>1. Order!Known(log)' = Order!Known(log') BY DEF Order!Known, Order!Coded
  <2> QED BY <1>1, <2>1
<1>6. CASE EncodeNextBlock
  <2>1. Advance(c, l, b) # {} /\ block' = NextStart(c, l, b) /\ pc' = "block" /\ level' = l
    BY <1>6 DEF EncodeNextBlock
  <2>2. AtStart(c, l, NextStart(c, l, b)) /\ K = Reach(c, l, NextStart(c, l, b))
    BY <1>2, <1>4, <2>1, BlockEnds
  <2>3. SweepInv' BY <1>1, <1>2, <1>5, <2>1, <2>2 DEF SweepInv
  <2> QED BY <1>1, <2>3
<1>7. CASE EncodeNextLevel
  <2>1. /\ Advance(c, l, b) = {} /\ block' = Origin(c) /\ level' = l - 1
        /\ pc' = IF level' = 0 THEN "save" ELSE "block"
    BY <1>7 DEF EncodeNextLevel
  <2>2. K = Grid(c, l - 1) BY <1>2, <1>4, <2>1, LevelEnds
  <2>3. l \in Nat \ {0} /\ l <= StartLevel(c) /\ StartLevel(c) \in Nat
    BY <1>2, StartLevelIs DEF AtStart
  <2> PICK m \in Nat : m = l - 1
    BY <2>3
  <2>4. m <= StartLevel(c) BY <2>3
  <2>5. /\ m = 0 => K = Points(c)
        /\ m # 0 => AtStart(c, m, Origin(c)) /\ K = Reach(c, m, Origin(c))
    BY <1>2, <2>2, <2>4, LevelBegins
  <2>6. SweepInv' BY <1>1, <1>2, <1>5, <2>1, <2>5 DEF SweepInv
  <2> QED BY <1>1, <2>6
<1> QED BY <1>6, <1>7

\* The header and decompress leave what compress has coded alone.
LEMMA OtherSweep ==
  ASSUME WalkInv, SweepInv,
         WriteHeader \/ DecodeFirst \/ DecodeBlock \/ DecodePass \/ DecodeNextBlock
           \/ DecodeNextLevel \/ UNCHANGED vars
  PROVE  SweepInv' /\ cfg' = cfg /\ log' = log
<1>1. cfg' = cfg /\ log' = log /\ level' = level /\ block' = block /\ todo' = todo /\ dirty' = dirty
  BY DEF WriteHeader, DecodeFirst, DecodeBlock, DecodePass, DecodeNextBlock, DecodeNextLevel,
         vars, encVars, decVars
<1>2. pc' = pc \/ (pc \notin {"first", "block", "code"} /\ pc' \notin {"first", "block", "code"})
  BY DEF WriteHeader, DecodeFirst, DecodeBlock, DecodePass, DecodeNextBlock, DecodeNextLevel, vars
<1>3. Order!Known(log)' = Order!Known(log) BY <1>1 DEF Order!Known, Order!Coded
<1>4. \A rest : Rest(rest) => Rest(rest)' BY <1>1, <1>3 DEF Rest
<1>5. SweepInv' BY <1>1, <1>2, <1>3, <1>4 DEF SweepInv
<1> QED BY <1>1, <1>5

\* The first batch of decompress is the one the log begins with,
LEMMA DecodeFirstOrder ==
  ASSUME AllFit, WalkInv, DecodeFirst
  PROVE  Order!Decode
<1>1. /\ pc = "dfirst" /\ dlog' = <<FirstBatch(cfg)>> /\ dlog = <<>> /\ cfg' = cfg /\ log' = log
  BY DEF DecodeFirst, WalkInv, encVars, Encoding
<1>2. PICK w : Encoded(w) /\ Decoding(w)
  BY <1>1 DEF WalkInv
<1>3. Len(w) \in Nat \ {0} /\ IsWalk(cfg, interp_metas, w) /\ log = w[Len(w)].log
  BY <1>1, <1>2, WalkEnded
<1> PICK b : b = FirstBatch(cfg)
  OBVIOUS
<1>4. Begins(<<b>>, log)
  <2>1. 1 \in 1 .. Len(w) BY <1>3
  <2>2. Begins(w[1].log, w[Len(w)].log) BY <1>3, <2>1 DEF IsWalk
  <2>3. w[1].log = <<b>> BY <1>3 DEF IsWalk
  <2> QED BY <1>3, <2>2, <2>3
<1>5. Len(dlog) = 0 /\ IsSeq(log) /\ Len(<<b>>) = 1 /\ <<b>>[1] = b
  BY <1>1, ListsAre DEF WalkInv
<1>6. Len(dlog) < Len(log) /\ log[Len(dlog) + 1] = b
  <2>1. Len(log) \in Nat BY <1>5, LengthIs
  <2> QED BY <1>4, <1>5, <2>1 DEF Begins
<1>7. dlog' = Append(dlog, b) BY <1>1
<1> QED BY <1>1, <1>6, <1>7 DEF Order!Decode

\* and so is each of its loops the next of the log.
LEMMA DecodePassOrder ==
  ASSUME AllFit, WalkInv, DecodePass
  PROVE  Order!Decode
<1>1. /\ pc = "dcode" /\ dtodo # <<>> /\ dlog' = Append(dlog, Head(dtodo))
      /\ cfg' = cfg /\ log' = log
  BY DEF DecodePass, encVars
<1>2. PICK w : Encoded(w) /\ Decoding(w)
  BY <1>1 DEF WalkInv
<1>3. Len(w) \in Nat \ {0} /\ IsWalk(cfg, interp_metas, w) /\ log = w[Len(w)].log
  BY <1>1, <1>2, WalkEnded
<1>4. PICK j \in 1 .. Len(w) - 1 : dlog \o dtodo = w[j + 1].log
  BY <1>1, <1>2 DEF Decoding
<1>5. Begins(dlog \o dtodo, log)
  <2>1. j + 1 \in 1 .. Len(w) BY <1>3
  <2>2. Begins(w[j + 1].log, w[Len(w)].log) BY <1>3, <2>1 DEF IsWalk
  <2> QED BY <1>3, <1>4, <2>2
<1>6. IsSeq(log) /\ IsSeq(dlog) /\ IsSeq(dtodo) BY DEF WalkInv
<1>7. Len(dlog) < Len(log) /\ Head(dtodo) = log[Len(dlog) + 1]
  BY <1>1, <1>5, <1>6, DecodesNext
<1> QED BY <1>1, <1>7 DEF Order!Decode

\* Every step keeps the invariant and is one of the abstract order, or none.
LEMMA SweepStep ==
  ASSUME AllFit, WalkInv, SweepInv, [Next]_vars
  PROVE  SweepInv' /\ [Order!Next]_Order!poVars
<1>1. CASE EncodeFirst \/ EncodePass
  BY <1>1, EncodeFirstSweep, EncodePassSweep, CodesIs DEF Order!Next
<1>2. CASE EncodeBlock \/ TuneBlock \/ EncodeNextBlock \/ EncodeNextLevel
  <2>1. SweepInv' /\ cfg' = cfg /\ log' = log /\ dlog' = dlog
    BY <1>2, EncodeBlockSweep, TuneBlockSweep, EncodeNextSweep
  <2> QED BY <2>1 DEF Order!poVars
<1>3. CASE DecodeFirst \/ DecodePass
  BY <1>3, OtherSweep, DecodeFirstOrder, DecodePassOrder DEF Order!Next
<1>4. CASE WriteHeader \/ DecodeBlock \/ DecodeNextBlock \/ DecodeNextLevel \/ UNCHANGED vars
  <2>1. SweepInv' /\ cfg' = cfg /\ log' = log BY <1>4, OtherSweep
  <2>2. dlog' = dlog
    BY <1>4 DEF WriteHeader, DecodeBlock, DecodeNextBlock, DecodeNextLevel, vars, decVars
  <2> QED BY <2>1, <2>2 DEF Order!poVars
<1> QED BY <1>1, <1>2, <1>3, <1>4 DEF Next, Step, Done

\* So it holds always.
LEMMA SweepInvariance ==
  ASSUME AllFit
  PROVE  Spec => []SweepInv
<1>1. WalkInv /\ SweepInv /\ [Next]_vars => SweepInv' BY SweepStep
<1> QED BY <1>1, InitSweep, WalkInvariance, PTL DEF Spec

\* Every value that a trial has overwritten is written back: the part of the block a trial
\* codes lies in the part that is saved, for every rate, level and frozen dimension.
THEOREM AlwaysTrialInvisible ==
  ASSUME \A c \in Configs : Fits(c)
  PROVE  Spec => []TrialInvisible
<1>1. SweepInv => TrialInvisible BY DEF SweepInv, TrialInvisible
<1>2. Spec => []SweepInv BY SweepInvariance DEF AllFit
<1> QED BY <1>1, <1>2, PTL

\* compress ends with a bin for every point: the blocks of a level leave no gap.
THEOREM AlwaysAllCoded ==
  ASSUME \A c \in Configs : Fits(c)
  PROVE  Spec => []AllCoded
<1>1. SweepInv => AllCoded BY DEF SweepInv, AllCoded
<1>2. Spec => []SweepInv BY SweepInvariance DEF AllFit
<1> QED BY <1>1, <1>2, PTL

\* compress and decompress implement PointOrder, for arrays of every shape in 1 to 4
\* dimensions, every block size, anchor distance, frozen dimension and meta: no point is
\* coded twice, over all levels, blocks and passes; what a prediction reads has been coded;
\* and decompress repeats the order from the header.
THEOREM RefinesOrder ==
  ASSUME \A c \in Configs : Fits(c)
  PROVE  Spec => FollowsOrder
<1>1. Init => Order!Init BY DEF Init, Order!Init
<1>2. WalkInv /\ SweepInv /\ [Next]_vars => [Order!Next]_Order!poVars
  BY SweepStep DEF AllFit
<1>3. Spec => []WalkInv BY WalkInvariance DEF AllFit
<1>4. Spec => []SweepInv BY SweepInvariance DEF AllFit
<1> QED BY <1>1, <1>2, <1>3, <1>4, PTL DEF Spec, FollowsOrder, Order!Spec
===============================================================================
