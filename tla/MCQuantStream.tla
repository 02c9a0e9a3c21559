---------------------------- MODULE MCQuantStream ----------------------------
(***************************************************************************)
(* Instances of QuantStream for TLC.                                       *)
(***************************************************************************)
EXTENDS QuantStream, TLC

E(l, k) == [level |-> l, kind |-> k]

\* Two interpolation levels; with and without anchors; a level without points.
MCPlans ==
  { <<E(3, "zero"),   E(2, "copy"),   E(2, "linear"), E(1, "lorenzo")>>,
    <<E(3, "anchor"), E(3, "anchor"), E(2, "linear"), E(1, "linear")>>,
    <<E(3, "anchor"), E(1, "copy"),   E(1, "lorenzo"), E(1, "linear")>> }

\* alpha = 1.5, beta = 2: level 2 uses eb / 1.5, level 1 uses eb.
TunedRatio == <<<<1, 1>>, <<2, 3>>>>

\* x86: the conversion of an out-of-range double gives the smallest int.
IntMin == -IntHalf

\* Around the bounds, and one value so far off that the bin's int overflows.  No
\* two differ by IntHalf bounds: the wrapped bin of such a pair passes the check
\* of the decompressed value and lies outside the alphabet.
MixedValues == {-8, -4, 0, 2, 4, 6, 14, 400}
=============================================================================
