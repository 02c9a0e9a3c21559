----------------------------- MODULE LineStencils -----------------------------
(***************************************************************************)
(* Which points of one grid line an interpolation pass codes, in which     *)
(* order, and which points each prediction reads: the kernels of           *)
(* utils/Interpolators.hpp and the one-dimensional passes                  *)
(* block_interpolation_1d and block_interpolation_1d_crossblock            *)
(* (SZInterpolationCompressor.hpp; the _2d and _3d versions repeat the     *)
(* latter for a bundle of parallel lines).  The weights of the kernels are *)
(* left out, the points they read are kept.                                *)
(*                                                                         *)
(* A line is a record: n points, from begin to at most end, stride apart,  *)
(* in a dimension of dim points; back and front say whether predictions    *)
(* may cross into the block behind and into the block in front.  A stencil *)
(* is <<i, offs>>: point i is predicted from the points at offsets offs,   *)
(* both in units of the stride.  A pass is a sequence of phases, sets of   *)
(* stencils: one loop of the code each.                                    *)
(***************************************************************************)
EXTENDS Integers, SequencesExt

interp_linear     == {-1, 1}
interp_linear1    == {-3, -1}
interp_quad_1     == {-1, 1, 3}
interp_quad_1_adj == {-1, 1, 2}
interp_quad_2     == {-3, -1, 1}
interp_quad_2_adj == {-2, -1, 1}
interp_quad_3     == {-5, -3, -1}
interp_cubic      == {-3, -1, 1, 3}
interp_cubic_adj  == {-3, -2, -1, 1, 2, 3}
lorenzo_1d        == {-2, -1}
previous          == {-1}

\* The loop for (i = from; i + margin < n; i += step), and i behind the loop.
Loop(from, margin, step, n) ==
  {i \in from .. n : i + margin < n /\ (i - from) % step = 0}

LoopExit(from, margin, step, n) ==
  CHOOSE i \in from .. (from + n + step) :
    /\ (i - from) % step = 0
    /\ i + margin >= n
    /\ i = from \/ i - step + margin < n

Only(stencil, condition) == IF condition THEN {stencil} ELSE {}
Opt(x, condition)        == IF condition THEN <<x>> ELSE <<>>

-----------------------------------------------------------------------------
(* block_interpolation_1d: no prediction leaves the block.                 *)

\* Mutant: the last point of an even line is left out.
PlainLinear_NoLast(n) == << {<<i, interp_linear>> : i \in Loop(1, 1, 2, n)} >>

PlainLinear(n) ==
  << {<<i, interp_linear>> : i \in Loop(1, 1, 2, n)},
     Only(<<n - 1, IF n < 3 THEN previous ELSE lorenzo_1d>>, n % 2 = 0) >>

PlainCubic(n) ==
  << {<<i, interp_cubic>> : i \in Loop(3, 3, 2, n)},
     {<<1, interp_quad_1>>},
     {<<LoopExit(3, 3, 2, n), interp_quad_2>>},
     Only(<<n - 1, interp_quad_3>>, n % 2 = 0) >>

PlainCubicAdj(n) ==
  LET i5 == LoopExit(5, 3, 4, n)
      i3 == LoopExit(3, 3, 4, n)
  IN  << {<<1, interp_quad_1>>},
         {<<i, interp_cubic>> : i \in Loop(5, 3, 4, n)},
         Only(<<i5, interp_quad_2>>, i5 < n - 1),
         Only(<<n - 1, previous>>, i5 = n - 1),
         {<<i, interp_cubic_adj>> : i \in Loop(3, 3, 4, n)},
         Only(<<i3, interp_quad_2_adj>>, i3 < n - 1),
         Only(<<n - 1, lorenzo_1d>>, i3 = n - 1) >>

PlainLine(n, meta) ==
  IF n <= 1 THEN <<>>
  ELSE IF meta.algo = "linear" \/ n < 5 THEN PlainLinear(n)
  ELSE IF meta.adj THEN PlainCubicAdj(n) ELSE PlainCubic(n)

-----------------------------------------------------------------------------
(* block_interpolation_1d_crossblock: predictions may read across the      *)
(* block's border, points of the coarser grid and of blocks done before.   *)

Cur(L, i) == L.begin + i * L.stride

HasBack(L, i, first) == i >= first \/ (L.back /\ Cur(L, i) >= 3 * L.stride)
\* Mutant: a prediction may read the point behind the array.
Ahead_Inclusive(L, i) ==
  {k \in {1, 3} : i + k < L.n \/ (L.front /\ Cur(L, i) + k * L.stride <= L.dim)}

Ahead(L, i) == {k \in {1, 3} : i + k < L.n \/ (L.front /\ Cur(L, i) + k * L.stride < L.dim)}

\* Mutant: the last point of an even line is left out.
CrossLinear_NoLast(L) == << {<<i, interp_linear>> : i \in Loop(1, 1, 2, L.n)} >>

CrossLinear(L) ==
  LET last == IF L.front /\ L.end + L.stride < L.dim THEN interp_linear
              ELSE IF L.n < 3 THEN previous ELSE lorenzo_1d
  IN  << {<<i, interp_linear>> : i \in Loop(1, 1, 2, L.n)},
         Only(<<L.n - 1, last>>, L.n % 2 = 0) >>

\* The kernel of a point near the border, by what lies behind and in front:
\* cubic, quad_2, linear1 or quad_1, linear, the previous point.
Border(L, i, first) ==
  (IF HasBack(L, i, first) THEN {-3, -1} ELSE {-1}) \cup Ahead(L, i)

\* The same in the second half of the adjacent passes: cubic_adj2, quad_2_adj,
\* lorenzo_1d or quad_1, linear, the previous point.
BorderAdj(L, i) ==
  (IF ~HasBack(L, i, 4) THEN {-1}
   ELSE IF 3 \in Ahead(L, i) THEN {-3, -2, -1} ELSE {-2, -1}) \cup Ahead(L, i)

\* First index of the main loop: it may start at 1 if the block behind is there.
IStart(L, otherwise) == IF L.back /\ L.begin >= 2 * L.stride THEN 1 ELSE otherwise

boundary(L) ==
  Opt(1, IStart(L, 3) = 3 \/ L.n <= 4)
    \o IF L.n % 2 = 1
       THEN Opt(L.n - 2, L.n > 3)
       ELSE Opt(L.n - 3, L.n > 4) \o Opt(L.n - 1, L.n > 2)

CrossCubic(L) ==
  LET border(i) == {<<i, Border(L, i, 3)>>}
      b == boundary(L)
  IN  << {<<i, interp_cubic>> : i \in Loop(IStart(L, 3), 3, 2, L.n)} >>
        \o [k \in 1 .. Len(b) |-> border(b[k])]

boundary_adj(L) ==
  LET temp == IF L.n % 4 = 0 THEN 4 ELSE L.n % 4
  IN  IF L.n <= 4
      THEN <<1>>
      ELSE Opt(1, IStart(L, 5) = 5) \o Opt(L.n + 1 - temp, temp # 1)

CrossCubicAdj(L) ==
  LET border(i) == {<<i, Border(L, i, 4)>>}
      b    == boundary_adj(L)
      temp == L.n % 4
      last == L.n - 1 - temp
  IN  << {<<i, interp_cubic>> : i \in Loop(IStart(L, 5), 3, 4, L.n)} >>
        \o [k \in 1 .. Len(b) |-> border(b[k])]
        \o << {<<i, interp_cubic_adj>> : i \in Loop(3, 3, 4, L.n)},
              IF temp # 3 /\ L.n > temp + 1 THEN {<<last, BorderAdj(L, last)>>} ELSE {} >>

CrossLine(L, meta) ==
  IF L.n <= 1 THEN <<>>
  ELSE IF meta.algo = "linear" THEN CrossLinear(L)
  ELSE IF meta.adj THEN CrossCubicAdj(L) ELSE CrossCubic(L)
=============================================================================
