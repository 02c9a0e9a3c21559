---------------------------- MODULE CenterStencils ----------------------------
(***************************************************************************)
(* The passes of SZInterpolationCompressor.hpp that code the points odd in *)
(* several directions at once: block_interpolation_2d_crossblock and its   *)
(* _3d version in a plane, block_interpolation_3d_crossblock in a cube.  A *)
(* point is predicted along the directions that offer the best kernel; the *)
(* last corner by a Lorenzo predictor.                                     *)
(*                                                                         *)
(* A stencil is <<x, offs>>: x the indices of the point in the directions  *)
(* of the pass, offs a set of offsets, both tuples in units of the stride. *)
(* A block is a record: len has its number of points in each direction,    *)
(* start is 1 in a direction in which the block behind may be read and 3   *)
(* in one in which it may not.                                             *)
(***************************************************************************)
EXTENDS LineStencils

Along(dirs, d, offs) == {[e \in dirs |-> IF e = d THEN o ELSE 0] : o \in offs}
lorenzo_nd(dirs)     == [dirs -> {-1, 0}] \ {[d \in dirs |-> 0]}

\* The indices 1, 3, 5... in one direction, by the loop or statement that treats
\* them.
Classes == {"interior", "first", "near", "last"}

\* Mutant: the last column of an even block is left out.
Every_NoLast(len) ==
  [interior |-> Loop(1, 1, 2, len), first |-> {}, near |-> {}, last |-> {}]

Every(len) ==
  [interior |-> Loop(1, 1, 2, len), first |-> {}, near |-> {},
   last |-> Only(len - 1, len % 2 = 0)]

EverySecond(start, len) ==
  LET exit == LoopExit(start, 3, 2, len)
  IN  [interior |-> Loop(start, 3, 2, len),
       first    |-> Only(1, start = 3 /\ len > 4),
       near     |-> Only(exit, exit < len - 1),
       last     |-> Only(len - 1, len % 2 = 0)]

\* One half of the last direction in the adjacent passes, 1, 5, 9... or 3, 7,
\* 11...
EveryFourth(start, len) ==
  LET exit == LoopExit(start, 3, 4, len)
  IN  [interior |-> Loop(start, 3, 4, len),
       first    |-> Only(1, start = 5 /\ len > 4),
       near     |-> Only(exit, exit < len - 1),
       last     |-> Only(exit, exit = len - 1)]

linearKernels == [interior |-> interp_linear, first |-> {}, near |-> {}, last |-> {}]
cubicKernels  == [interior |-> interp_cubic, first |-> interp_quad_1,
                  near |-> interp_quad_2, last |-> {}]
adjKernels    == [interior |-> interp_cubic_adj, first |-> interp_quad_1_adj,
                  near |-> interp_quad_2_adj, last |-> {}]

Rank == [interior |-> 2, first |-> 1, near |-> 1, last |-> 0]

\* The directions with the best kernel win; equals are combined.
Kernel(class, kernels) ==
  LET dirs == DOMAIN class
      best == {d \in dirs : \A e \in dirs : Rank[class[d]] >= Rank[class[e]]}
  IN  IF \A d \in dirs : class[d] = "last" THEN lorenzo_nd(dirs)
      ELSE UNION {Along(dirs, d, kernels[class[d]]) : d \in best}

All(classes) == UNION {classes[k] : k \in Classes}

\* The stencils of one pass, all its loops: classes(x, d) are the classes of
\* direction d at a point whose indices before d are those of x.
Pass(dirs, len, classes(_, _), kernels) ==
  LET class(x) == [d \in dirs |-> CHOOSE k \in Classes : x[d] \in classes(x, d)[k]]
      odd      == [dirs -> {i \in 1 .. Max({len[d] : d \in dirs}) : i % 2 = 1}]
  IN  {<<x, Kernel(class(x), kernels)>> :
         x \in {y \in odd : \A d \in dirs : y[d] \in All(classes(y, d))}}

CenterLinear(B) ==
  LET dirs          == DOMAIN B.len
      every         == [d \in dirs |-> Every(B.len[d])]
      classes(x, d) == every[d]
  IN  << Pass(dirs, B.len, classes, linearKernels) >>

CenterCubic(B) ==
  LET dirs          == DOMAIN B.len
      every         == [d \in dirs |-> EverySecond(B.start[d], B.len[d])]
      classes(x, d) == every[d]
  IN  << Pass(dirs, B.len, classes, cubicKernels) >>

\* One half of the points, as on a chessboard: along the last direction from 1
\* on (5 if the first is a border) where the other indices add up to r modulo 4,
\* from 3 on elsewhere.
Half(B, r, kernels) ==
  LET dirs     == DOMAIN B.len
      inner    == Max(dirs)
      every    == [d \in dirs |-> EverySecond(B.start[d], B.len[d])]
      from1    == EveryFourth(IF B.start[inner] = 1 THEN 1 ELSE 5, B.len[inner])
      from3    == EveryFourth(3, B.len[inner])
      outer(x) == FoldFunctionOnSet(LAMBDA i, j : i + j, 0, x, dirs \ {inner})
      classes(x, d) == IF d # inner THEN every[d]
                       ELSE IF outer(x) % 4 = r THEN from1 ELSE from3
  IN  Pass(dirs, B.len, classes, kernels)

\* Mutant: the two halves are coded in the wrong order.
CenterCubicAdj_Swapped(B) ==
  LET r == Cardinality(DOMAIN B.len) - 1
  IN  << Half(B, (r + 2) % 4, adjKernels), Half(B, r, cubicKernels) >>

\* First one half of the points, then the other, which may read the first.
CenterCubicAdj(B) ==
  LET r == Cardinality(DOMAIN B.len) - 1
  IN  << Half(B, r, cubicKernels), Half(B, (r + 2) % 4, adjKernels) >>
=============================================================================
