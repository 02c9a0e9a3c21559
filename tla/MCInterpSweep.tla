---------------------------- MODULE MCInterpSweep ----------------------------
(***************************************************************************)
(* Configurations for checking InterpSweep.  maxStep is 0 or a power of two*)
(* below the largest dimension, and a fixed block spans at least two coarse*)
(* cells of the first level it is used on; ShortGridConfigs drops the first*)
(* of these.                                                               *)
(***************************************************************************)
EXTENDS InterpSweep

Linear    == [algo |-> "linear", adj |-> FALSE, paradigm |-> 0, direction |-> 0]
Cubic     == [Linear EXCEPT !.algo = "cubic"]
CubicAdj  == [Cubic EXCEPT !.adj = TRUE]
Kernels   == {Linear, Cubic, CubicAdj}
Turned(n) == {[m EXCEPT !.direction = d] : m \in Kernels, d \in 0 .. (n - 1)}
Centered  == {[m EXCEPT !.paradigm = 1] : m \in Kernels}

Base(dims, blocksize, fix, maxStep, frozen, cross, meta, list) ==
  [dims |-> dims, blocksize |-> blocksize, fixBlockSize |-> fix, maxStep |-> maxStep,
   frozen |-> frozen, cross |-> cross, meta |-> meta, list |-> list,
   blockwise |-> FALSE, rate |-> 1, multiDim |-> 0]

\* 1 dimension: every length, block size and kernel, levels of their own.
LineConfigs ==
  {c \in {Base(<<n>>, b, f, a, 0, x, m, l) :
            n \in 1 .. 21, b \in {2, 4, 8}, f \in {0, 8}, a \in {0, 2, 4},
            x \in BOOLEAN, m \in Kernels, l \in {<<>>, <<CubicAdj>>, <<Linear, Cubic>>}} :
     /\ c.maxStep = 0 \/ c.maxStep < c.dims[1]
     /\ c.fixBlockSize = 0 \/ (c.blocksize = 2 /\ c.maxStep > 0)}

PlaneDims == {<<n, m>> : n \in {1, 2, 3, 4, 6, 7, 9, 12}, m \in {1, 2, 4, 5, 8, 10, 13}}

\* 2 dimensions: borders of every kind, both directions and the center pass.
PlaneConfigs ==
  {c \in {Base(d, b, 0, a, 0, x, m, <<>>) :
            d \in PlaneDims, b \in {4, 8}, a \in {0, 4}, x \in BOOLEAN,
            m \in Turned(2) \cup Centered} :
     c.maxStep = 0 \/ c.maxStep < Max({c.dims[1], c.dims[2]})}

\* 3 dimensions, none or one of them frozen, and 4.
CubeConfigs ==
  {Base(d, 2, 0, a, 0, x, m, <<>>) :
     d \in {<<3, 5, 4>>, <<5, 2, 3>>}, a \in {0, 2}, x \in BOOLEAN, m \in Turned(6)}
  \cup
  {Base(<<4, 3, 5>>, b, 0, 2, (dir - 4) \div 2, x, [m EXCEPT !.direction = dir], <<>>) :
     b \in {2, 4}, x \in BOOLEAN, m \in Kernels, dir \in 6 .. 11}
  \cup
  {c \in {Base(d, 4, 0, a, f, x, [m EXCEPT !.direction = IF f = 0 THEN 0 ELSE 4 + 2 * f], <<>>) :
            d \in {<<3, 6, 4>>, <<6, 5, 8>>, <<9, 7, 9>>}, a \in {0, 4}, f \in 0 .. 3,
            x \in BOOLEAN, m \in Centered} :
     c.maxStep > 0 \/ c.frozen = 0}
  \cup
  {Base(d, 16, 0, a, 0, x, m, <<>>) :
     d \in {<<9, 11, 10>>, <<4, 12, 13>>}, a \in {0, 4}, x \in BOOLEAN, m \in Centered}
  \cup
  {Base(<<2, 3, 4, 3>>, 2, 0, a, 0, FALSE, [m EXCEPT !.direction = dir], <<>>) :
     a \in {0, 2}, m \in Kernels, dir \in {0, 9, 23}}

\* Tuned blocks: samples of whole blocks and, in long ones, of their middle.
Blockwise(c, rate, multiDim) ==
  [c EXCEPT !.blockwise = TRUE, !.rate = rate, !.multiDim = multiDim]

BlockwiseConfigs ==
  {Blockwise(Base(d, b, 0, 4, 0, x, m, <<>>), 2, 1) :
     d \in {<<5, 6>>, <<9, 4>>}, b \in {4, 8}, x \in BOOLEAN, m \in Kernels}
  \cup
  {Blockwise(Base(<<18, 17>>, 16, 0, 2, 0, x, m, <<>>), 2, 1) : x \in BOOLEAN, m \in Kernels}
  \cup
  {Blockwise(Base(<<3, 5, 4>>, 4, 0, 2, f, FALSE, m, <<>>), 2, 1) : f \in 0 .. 3, m \in Kernels}

SweepConfigs == LineConfigs \cup PlaneConfigs \cup CubeConfigs \cup BlockwiseConfigs

ASSUME \A c \in SweepConfigs : Fits(c)

\* Anchors as far apart as the array is long.
ShortGridConfigs == {Base(<<8, 8>>, 4, 0, 8, 0, FALSE, Cubic, <<>>)}
=============================================================================
