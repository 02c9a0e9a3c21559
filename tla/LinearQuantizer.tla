--------------------------- MODULE LinearQuantizer ---------------------------
(***************************************************************************)
(* The arithmetic of quantizer/IntegerQuantizer.hpp, the linear quantizer  *)
(* every compressor of the repository ends in.  Reals are fixed-point      *)
(* integers: a value of the element type T is a multiple of Grid (T is     *)
(* coarser than the double in which prediction + bin * error bound is      *)
(* computed), and the C++ int that holds a bin has 2 * IntHalf values and  *)
(* wraps.  Truncating a double outside the int range is undefined          *)
(* behaviour; BadInt is what the build produces for it.                    *)
(***************************************************************************)
EXTENDS Integers

CONSTANTS
  IntHalf,     \* an int lies in -IntHalf .. IntHalf - 1 (2^31 in the code)
  BadInt,      \* (int) of a double that is not an int
  Grid,        \* distance between neighbouring values of type T
  RecipScale   \* precision of the stored reciprocal 1.0 / eb

ASSUME QuantizerAssumption ==
  /\ IntHalf \in Nat \ {0}
  /\ BadInt \in {-IntHalf, IntHalf - 1}
  /\ Grid \in Nat \ {0}
  /\ RecipScale \in Nat \ {0}

Abs(x) == IF x < 0 THEN -x ELSE x

Wrap(x) == ((x + IntHalf) % (2 * IntHalf)) - IntHalf

ToInt(x) == IF x < IntHalf THEN x ELSE BadInt

\* Conversion of a double to T: the nearest multiple of Grid.
RoundT(x) == Grid * ((x + (Grid \div 2)) \div Grid)

\* error_bound_reciprocal, with the rounding of the division.
Reciprocal(eb) == IF eb = 0 THEN 0 ELSE (RecipScale + (eb \div 2)) \div eb

\* (int) (fabs(diff) * error_bound_reciprocal) + 1
QuantIndex(diff, recip) == Wrap(ToInt((Abs(diff) * recip) \div RecipScale) + 1)

\* The bin and its signed even multiple of the error bound, before the check.
Shifted(diff, recip, radius) ==
  LET half == QuantIndex(diff, recip) \div 2
  IN  IF diff < 0 THEN Wrap(radius - half) ELSE Wrap(radius + half)

Multiple(diff, recip) ==
  LET twice == Wrap(2 * (QuantIndex(diff, recip) \div 2))
  IN  IF diff < 0 THEN Wrap(-twice) ELSE twice

Decompressed(ori, pred, eb, recip) == RoundT(pred + Multiple(ori - pred, recip) * eb)

\* Mutant: the value the decoder would compute is not looked at.
Predictable_Unchecked(ori, pred, eb, recip, radius) ==
  QuantIndex(ori - pred, recip) < radius * 2

\* The two ways a value is rejected: its index is outside the radius, or the
\* value the decoder would compute is further than the error bound from it.
Predictable(ori, pred, eb, recip, radius) ==
  /\ QuantIndex(ori - pred, recip) < radius * 2
  /\ Abs(Decompressed(ori, pred, eb, recip) - ori) <= eb

\* quantize_and_overwrite: the bin it returns and the value it leaves behind.
\* A rejected value is also pushed on unpred, by the caller of these operators.
Bin(ori, pred, eb, recip, radius) ==
  IF Predictable(ori, pred, eb, recip, radius)
  THEN Shifted(ori - pred, recip, radius)
  ELSE 0

Overwritten(ori, pred, eb, recip, radius) ==
  IF Predictable(ori, pred, eb, recip, radius)
  THEN Decompressed(ori, pred, eb, recip)
  ELSE ori

\* recover_pred
Recovered(pred, bin, eb, radius) ==
  RoundT(pred + Wrap(2 * Wrap(bin - radius)) * eb)
=============================================================================
