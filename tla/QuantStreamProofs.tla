-------------------------- MODULE QuantStreamProofs --------------------------
(***************************************************************************)
(* What the quantizer's arithmetic guarantees for every int width, every   *)
(* grid of T and every precision of the reciprocal; and from it, that the  *)
(* encoder's and the decoder's quantizer stay in step, for every array,    *)
(* every plan and every error-bound schedule.                              *)
(*                                                                         *)
(* DecoderAgrees is not inductive: that the decoder reconstructs an element*)
(* needs what the bin says about the value the encoder left (Coded), where *)
(* its unpredictable value lies in the saved vector (Counted), and that    *)
(* the two sides use the same error bound (EncoderBound, Saved, Loaded).   *)
(***************************************************************************)
EXTENDS QuantStream, SequenceTheorems, TLAPS

-----------------------------------------------------------------------------
(* Wrapping to an int is reduction modulo 2 * IntHalf.                     *)

\* The part of the assumption the modular arithmetic needs.
LEMMA HalfPositive == IntHalf \in Nat \ {0}
BY QuantizerAssumption DEF QuantizerAssumption

\* A wrapped value is an integer.
LEMMA WrapInt ==
  ASSUME NEW x \in Int
  PROVE  Wrap(x) \in Int
BY HalfPositive DEF Wrap

\* Division with remainder by the modulus.
LEMMA Division ==
  ASSUME NEW x \in Int
  PROVE  /\ (x + IntHalf) \div (2 * IntHalf) \in Int
         /\ (x + IntHalf) % (2 * IntHalf) \in 0 .. (2 * IntHalf - 1)
         /\ x + IntHalf = (2 * IntHalf) * ((x + IntHalf) \div (2 * IntHalf))
                            + ((x + IntHalf) % (2 * IntHalf))
<1>1. (x + IntHalf) \div (2 * IntHalf) \in Int
  BY HalfPositive
<1>2. (x + IntHalf) % (2 * IntHalf) \in 0 .. (2 * IntHalf - 1)
  BY HalfPositive
<1>3. x + IntHalf = (2 * IntHalf) * ((x + IntHalf) \div (2 * IntHalf))
                      + ((x + IntHalf) % (2 * IntHalf))
  BY HalfPositive
<1> QED
  BY <1>1, <1>2, <1>3

\* A wrapped value differs from the value by a multiple of the modulus.
LEMMA WrapShift ==
  ASSUME NEW x \in Int
  PROVE  \E k \in Int : Wrap(x) = x + (2 * IntHalf) * k
<1> DEFINE m == 2 * IntHalf
           q == (x + IntHalf) \div m
           r == (x + IntHalf) % m
<1>1. q \in Int /\ r \in Int /\ x + IntHalf = m * q + r
  BY Division
<1>2. Wrap(x) = r - IntHalf
  BY DEF Wrap
<1>3. m \in Int /\ IntHalf \in Int
  BY HalfPositive
<1> HIDE DEF m, q, r
<1>4. m * (-q) = -(m * q) /\ m * q \in Int
  BY <1>1, <1>3
<1>5. Wrap(x) = x + m * (-q)
  BY <1>1, <1>2, <1>3, <1>4
<1> QED
  BY <1>1, <1>5 DEF m

\* Remainders that differ by a multiple of the modulus are equal.
LEMMA RemainderUnique ==
  ASSUME NEW m \in Nat \ {0}, NEW k \in Int,
         NEW r1 \in 0 .. (m - 1), NEW r2 \in 0 .. (m - 1),
         r1 = r2 + m * k
  PROVE  r1 = r2
<1>1. CASE k >= 1
  <2>1. m * k >= m
    BY <1>1
  <2> QED
    BY <2>1
<1>2. CASE k <= -1
  <2>1. m * k <= -m
    BY <1>2
  <2> QED
    BY <2>1
<1>3. CASE k = 0
  BY <1>3
<1> QED
  BY <1>1, <1>2, <1>3

\* Values that differ by a multiple of m have the same remainder.
LEMMA RemainderCongruent ==
  ASSUME NEW m \in Nat \ {0}, NEW x \in Int, NEW y \in Int, NEW k \in Int,
         x = y + m * k
  PROVE  x % m = y % m
<1> DEFINE q1 == x \div m
           q2 == y \div m
           r1 == x % m
           r2 == y % m
<1>1. q1 \in Int /\ r1 \in 0 .. (m - 1) /\ x = m * q1 + r1
  OBVIOUS
<1>2. q2 \in Int /\ r2 \in 0 .. (m - 1) /\ y = m * q2 + r2
  OBVIOUS
<1> HIDE DEF q1, q2, r1, r2
<1>3. /\ m * q1 \in Int /\ m * q2 \in Int /\ m * k \in Int
      /\ m * (q2 + k - q1) = m * q2 + m * k - m * q1
  BY <1>1, <1>2
<1>4. r1 = r2 + m * (q2 + k - q1)
  BY <1>1, <1>2, <1>3
<1>5. r1 = r2
  BY <1>1, <1>2, <1>4, RemainderUnique
<1> QED
  BY <1>5 DEF r1, r2

\* Values that differ by a multiple of the modulus wrap to the same int.
LEMMA WrapCongruent ==
  ASSUME NEW x \in Int, NEW y \in Int, NEW k \in Int,
         x = y + (2 * IntHalf) * k
  PROVE  Wrap(x) = Wrap(y)
<1> DEFINE m == 2 * IntHalf
           u == x + IntHalf
           v == y + IntHalf
<1>1. m \in Nat \ {0} /\ IntHalf \in Int /\ u \in Int /\ v \in Int
  BY HalfPositive
<1>2. m * k \in Int
  BY <1>1
<1>3. u = v + m * k
  BY <1>1, <1>2
<1> HIDE DEF m, u, v
<1>4. u % m = v % m
  BY <1>1, <1>3, RemainderCongruent
<1> QED
  BY <1>4 DEF Wrap, m, u, v

-----------------------------------------------------------------------------
(* The types of the quantizer's operators.                                 *)

\* The reciprocal is a natural number.
LEMMA ReciprocalInt ==
  ASSUME NEW ebound \in Nat
  PROVE  Reciprocal(ebound) \in Nat
BY QuantizerAssumption DEF QuantizerAssumption, Reciprocal

\* A rounded value is an integer.
LEMMA RoundInt ==
  ASSUME NEW x \in Int
  PROVE  RoundT(x) \in Int
<1>1. (x + (Grid \div 2)) \div Grid \in Int
  BY QuantizerAssumption DEF QuantizerAssumption
<1> QED
  BY <1>1, QuantizerAssumption DEF QuantizerAssumption, RoundT

\* A quantization index is an integer.
LEMMA QuantIndexInt ==
  ASSUME NEW d \in Int, NEW recip \in Int
  PROVE  QuantIndex(d, recip) \in Int
<1>1. Abs(d) * recip \in Int
  BY DEF Abs
<1>2. (Abs(d) * recip) \div RecipScale \in Int
  BY <1>1, QuantizerAssumption DEF QuantizerAssumption
<1>3. ToInt((Abs(d) * recip) \div RecipScale) + 1 \in Int
  BY <1>2, QuantizerAssumption DEF QuantizerAssumption, ToInt
<1> QED
  BY <1>3, WrapInt DEF QuantIndex

\* So are the shifted bin and the multiple.
LEMMA ShiftedInt ==
  ASSUME NEW d \in Int, NEW recip \in Int, NEW radius \in Int
  PROVE  Shifted(d, recip, radius) \in Int /\ Multiple(d, recip) \in Int
<1> DEFINE h == QuantIndex(d, recip) \div 2
<1>1. h \in Int
  BY QuantIndexInt
<1> HIDE DEF h
<1>2. /\ Wrap(radius - h) \in Int /\ Wrap(radius + h) \in Int
      /\ Wrap(2 * h) \in Int /\ Wrap(-Wrap(2 * h)) \in Int
  BY <1>1, WrapInt
<1> QED
  BY <1>2 DEF Shifted, Multiple, h

-----------------------------------------------------------------------------
(* The two facts the rest of the project rests on.                         *)

\* The multiple of the error bound the encoder adds to the prediction is the
\* one the decoder computes from the bin, also where the ints overflow.
LEMMA MultipleFromBin ==
  ASSUME NEW d \in Int, NEW recip \in Int, NEW radius \in Int
  PROVE  Multiple(d, recip) = Wrap(2 * Wrap(Shifted(d, recip, radius) - radius))
<1> DEFINE h == QuantIndex(d, recip) \div 2
           M == 2 * IntHalf
<1>1. h \in Int
  BY QuantIndexInt
<1>2. M \in Int
  BY HalfPositive
<1> HIDE DEF h, M
<1>3. ASSUME NEW s \in Int
      PROVE  Wrap(2 * Wrap(Wrap(radius + s) - radius)) = Wrap(2 * s)
  <2>1. PICK k1 \in Int : Wrap(radius + s) = radius + s + M * k1
    BY <1>3, WrapShift DEF M
  <2>2. PICK k2 \in Int : Wrap(Wrap(radius + s) - radius)
                            = (Wrap(radius + s) - radius) + M * k2
    BY <1>3, WrapShift, WrapInt DEF M
  <2>3. /\ M * k1 \in Int /\ M * k2 \in Int
        /\ M * (2 * k1 + 2 * k2) = 2 * (M * k1) + 2 * (M * k2)
    BY <1>2
  <2>4. 2 * Wrap(Wrap(radius + s) - radius) = 2 * s + M * (2 * k1 + 2 * k2)
    BY <1>3, <2>1, <2>2, <2>3
  <2>5. 2 * Wrap(Wrap(radius + s) - radius) \in Int
    BY <1>3, WrapInt
  <2>6. 2 * k1 + 2 * k2 \in Int
    OBVIOUS
  <2> QED
    BY <1>3, <2>4, <2>5, <2>6, WrapCongruent DEF M
<1>4. CASE d < 0
  <2>1. PICK k \in Int : Wrap(2 * h) = 2 * h + M * k
    BY <1>1, WrapShift DEF M
  <2>2. M * (-k) = -(M * k) /\ M * k \in Int
    BY <1>2
  <2>3. -Wrap(2 * h) = 2 * (-h) + M * (-k)
    BY <1>1, <2>1, <2>2
  <2>4. Wrap(-Wrap(2 * h)) = Wrap(2 * (-h))
    BY <1>1, <2>3, WrapInt, WrapCongruent DEF M
  <2>5. Wrap(2 * Wrap(Wrap(radius + (-h)) - radius)) = Wrap(2 * (-h))
    BY <1>1, <1>3
  <2>6. radius + (-h) = radius - h
    BY <1>1
  <2> QED
    BY <1>4, <2>4, <2>5, <2>6 DEF Multiple, Shifted, h
<1>5. CASE ~(d < 0)
  BY <1>1, <1>3, <1>5 DEF Multiple, Shifted, h
<1> QED
  BY <1>4, <1>5

\* recover undoes quantize_and_overwrite: for a predictable value the decoder
\* computes, from the same prediction, bin, error bound and radius, exactly
\* the value the encoder has left in its array.
THEOREM RecoverUndoesQuantize ==
  ASSUME NEW ori \in Int, NEW pred \in Int, NEW ebound \in Int, NEW recip \in Int,
         NEW radius \in Int,
         Predictable(ori, pred, ebound, recip, radius)
  PROVE  Recovered(pred, Bin(ori, pred, ebound, recip, radius), ebound, radius)
           = Overwritten(ori, pred, ebound, recip, radius)
<1>1. Multiple(ori - pred, recip)
        = Wrap(2 * Wrap(Shifted(ori - pred, recip, radius) - radius))
  BY MultipleFromBin
<1> QED
  BY <1>1 DEF Recovered, Bin, Overwritten, Decompressed

\* A value never moves by more than the error bound of the moment, however
\* imprecise the reciprocal and the rounding are and even if the ints overflow.
THEOREM OverwriteWithinBound ==
  ASSUME NEW ori \in Int, NEW pred \in Int, NEW ebound \in Nat, NEW recip \in Int,
         NEW radius \in Int
  PROVE  /\ Overwritten(ori, pred, ebound, recip, radius) \in Int
         /\ Abs(Overwritten(ori, pred, ebound, recip, radius) - ori) <= ebound
<1>1. Multiple(ori - pred, recip) \in Int
  BY ShiftedInt
<1>2. Multiple(ori - pred, recip) * ebound \in Int
  BY <1>1
<1>3. Decompressed(ori, pred, ebound, recip) \in Int
  BY <1>2, RoundInt DEF Decompressed
<1>4. CASE Predictable(ori, pred, ebound, recip, radius)
  BY <1>3, <1>4 DEF Overwritten, Predictable
<1>5. CASE ~Predictable(ori, pred, ebound, recip, radius)
  BY <1>5 DEF Overwritten, Abs
<1> QED
  BY <1>4, <1>5

-----------------------------------------------------------------------------
(* The stream.                                                             *)

\* The unpredictable values, wherever they are at the moment.
Unpreds == IF pc \in {"encode", "save"} THEN unpred ELSE stream.unpred

\* The encoder's error bound is that of its level, and the base one again
\* when the quantizer is saved.
EncoderBound ==
  /\ error_bound = IF pc = "encode" THEN LevelEb(BaseEb, level) ELSE BaseEb
  /\ error_bound_reciprocal = Reciprocal(error_bound)

Finished == pc # "encode" => pos = N + 1

Untouched == \A i \in 1 .. N : i >= pos => data[i] = orig[i]

\* What bin i says about the value the encoder left in element i.
CodedAt(i) ==
  /\ quant_inds[i] \in Int
  /\ Abs(data[i] - orig[i]) <= LevelEb(BaseEb, plan[i].level)
  /\ quant_inds[i] = 0 =>
       /\ cnt[i] < Len(Unpreds)
       /\ data[i] = Unpreds[cnt[i] + 1]
       /\ cnt[i + 1] = cnt[i] + 1
  /\ quant_inds[i] # 0 =>
       /\ plan[i].kind # "anchor"
       /\ data[i] = Recovered(Predict(plan[i].kind, data, i), quant_inds[i],
                              LevelEb(BaseEb, plan[i].level), Radius)
       /\ cnt[i + 1] = cnt[i]

Coded == \A i \in 1 .. N : i < pos => CodedAt(i)

Counted == cnt[1] = 0 /\ cnt[pos] = Len(Unpreds)

Saved ==
  pc \in {"load", "decode", "done"} =>
    stream.error_bound = BaseEb /\ stream.radius = Radius

NotLoaded ==
  pc \in {"encode", "save", "load"} => quant_index = 0 /\ dlevel = Top

Loaded ==
  pc \in {"decode", "done"} =>
    /\ eb = BaseEb
    /\ dec_radius = Radius
    /\ dec_unpred = stream.unpred
    /\ dec_error_bound = LevelEb(BaseEb, dlevel)
    /\ index = cnt[quant_index + 1]
    /\ pc = "done" => quant_index = N

EncoderInv == TypeOK /\ EncoderBound /\ Finished /\ Untouched /\ Coded /\ Counted

DecoderInv == Saved /\ NotLoaded /\ Loaded /\ DecoderAgrees

IInv == EncoderInv /\ DecoderInv
-----------------------------------------------------------------------------
(* The operators of the model.                                             *)

\* What the assumption says of each constant.
LEMMA Constants ==
  /\ N \in Nat /\ Top \in Nat /\ Top >= 1 /\ BaseEb \in Nat
  /\ Radius \in Nat /\ Radius >= 1 /\ Radius <= (IntHalf \div 2) - 1
  /\ Plans \subseteq [1 .. N -> [level : 1 .. Top, kind : Kinds]]
  /\ Values \subseteq Int
<1>1. IntHalf \div 2 \in Int
  BY HalfPositive
<1> QED
  BY <1>1, StreamAssumption DEF StreamAssumption

\* The error bound of every level is a natural number.
LEMMA LevelEbNat ==
  ASSUME NEW base \in Nat, NEW l \in 1 .. Top
  PROVE  LevelEb(base, l) \in Nat
<1>1. CASE l = Top
  BY <1>1 DEF LevelEb
<1>2. CASE l # Top
  <2>1. l \in 1 .. (Top - 1)
    BY <1>2, Constants
  <2>2. Ratio[l] \in Nat \X (Nat \ {0})
    BY <2>1, StreamAssumption DEF StreamAssumption
  <2>3. Ratio[l][1] \in Nat /\ Ratio[l][2] \in Nat \ {0}
    BY <2>2
  <2>4. base * Ratio[l][1] \in Nat
    BY <2>3
  <2>5. (base * Ratio[l][1]) \div Ratio[l][2] \in Nat
    BY <2>3, <2>4
  <2> QED
    BY <1>2, <2>5 DEF LevelEb
<1> QED
  BY <1>1, <1>2

\* A prediction is an integer.
LEMMA PredictInt ==
  ASSUME NEW k, NEW a \in [1 .. N -> Int], NEW i \in 1 .. N
  PROVE  Predict(k, a, i) \in Int
<1>1. At(a, i - 1) \in Int /\ At(a, i - 2) \in Int
  BY Constants DEF At
<1>2. (At(a, i - 1) + At(a, i - 2)) \div 2 \in Int
  BY <1>1
<1>3. 2 * At(a, i - 1) - At(a, i - 2) \in Int
  BY <1>1
<1>4. /\ RoundT((At(a, i - 1) + At(a, i - 2)) \div 2) \in Int
      /\ RoundT(2 * At(a, i - 1) - At(a, i - 2)) \in Int
  BY <1>2, <1>3, RoundInt
<1> QED
  BY <1>1, <1>4 DEF Predict

\* A prediction reads earlier elements only.
LEMMA PredictCausal ==
  ASSUME NEW k, NEW a, NEW b, NEW i \in 1 .. N,
         \A j \in 1 .. N : j < i => a[j] = b[j]
  PROVE  Predict(k, a, i) = Predict(k, b, i)
<1>1. At(a, i - 1) = At(b, i - 1) /\ At(a, i - 2) = At(b, i - 2)
  BY Constants DEF At
<1> QED
  BY <1>1 DEF Predict

\* A value that fits an int is not changed by wrapping.
LEMMA WrapSmall ==
  ASSUME NEW x \in Int, -IntHalf <= x, x < IntHalf
  PROVE  Wrap(x) = x
<1> DEFINE m == 2 * IntHalf
           u == x + IntHalf
<1>1. m \in Nat \ {0} /\ u \in 0 .. (m - 1) /\ IntHalf \in Int
  BY HalfPositive
<1>2. x = u - IntHalf
  BY HalfPositive
<1> HIDE DEF m, u
<1>3. u % m = u
  BY <1>1
<1> QED
  BY <1>1, <1>2, <1>3 DEF Wrap, m, u

\* The bin of a predictable value is never 0, the mark of an unpredictable one:
\* the radius of an int quantbinCnt is too small for the bin to wrap to 0.
LEMMA PredictableBin ==
  ASSUME NEW ori \in Int, NEW pred \in Int, NEW e \in Nat, NEW recip \in Nat,
         Predictable(ori, pred, e, recip, Radius)
  PROVE  Bin(ori, pred, e, recip, Radius) # 0
<1> DEFINE d == ori - pred
           x == (Abs(d) * recip) \div RecipScale
           q == QuantIndex(d, recip)
           h == q \div 2
           half == IntHalf \div 2
<1>1. x \in Nat
  <2>1. Abs(d) \in Nat
    BY DEF Abs
  <2>2. Abs(d) * recip \in Nat
    BY <2>1
  <2> QED
    BY <2>2, QuantizerAssumption DEF QuantizerAssumption
<1>2. IntHalf \in Nat \ {0} /\ BadInt \in {-IntHalf, IntHalf - 1}
  BY QuantizerAssumption DEF QuantizerAssumption
<1>3. half \in Nat /\ 2 * half <= IntHalf /\ IntHalf <= 2 * half + 1
  BY <1>2
<1>4. q = Wrap(ToInt(x) + 1)
  BY DEF QuantIndex
<1> HIDE DEF x
<1>5. ToInt(x) \in 0 .. (IntHalf - 1) \/ ToInt(x) = -IntHalf
  BY <1>1, <1>2 DEF ToInt
<1>6. q \in 1 .. (IntHalf - 1) \/ q = -IntHalf \/ q = -IntHalf + 1
  <2>1. CASE ToInt(x) \in 0 .. (IntHalf - 2)
    BY <1>2, <1>4, <2>1, WrapSmall
  <2>2. CASE ToInt(x) = IntHalf - 1
    <3>1. IntHalf = -IntHalf + (2 * IntHalf) * 1
      BY <1>2
    <3>2. Wrap(IntHalf) = Wrap(-IntHalf)
      BY <1>2, <3>1, WrapCongruent
    <3>3. Wrap(-IntHalf) = -IntHalf
      BY <1>2, WrapSmall
    <3>4. ToInt(x) + 1 = IntHalf
      BY <1>2, <2>2
    <3> QED
      BY <1>4, <3>2, <3>3, <3>4
  <2>3. CASE ToInt(x) = -IntHalf
    BY <1>2, <1>4, <2>3, WrapSmall
  <2> QED
    BY <1>2, <1>5, <2>1, <2>2, <2>3
<1>7. q < 2 * Radius
  BY Constants DEF Predictable
<1> HIDE DEF q, half
<1>8. h \in Int /\ 2 * h <= q /\ q <= 2 * h + 1
  BY <1>2, <1>6
<1> HIDE DEF h
<1>9. Radius \in Nat /\ Radius >= 1 /\ Radius <= half - 1
  BY Constants DEF half
<1>10. /\ Radius - h # 0 /\ -IntHalf <= Radius - h /\ Radius - h < IntHalf
       /\ Radius + h # 0 /\ -IntHalf <= Radius + h /\ Radius + h < IntHalf
  BY <1>2, <1>3, <1>6, <1>7, <1>8, <1>9
<1>11. Wrap(Radius - h) # 0 /\ Wrap(Radius + h) # 0
  BY <1>2, <1>8, <1>9, <1>10, WrapSmall
<1>12. Shifted(d, recip, Radius) # 0
  BY <1>11 DEF Shifted, h, q
<1> QED
  BY <1>12 DEF Bin

\* A bin is an integer.
LEMMA BinInt ==
  ASSUME NEW ori \in Int, NEW pred \in Int, NEW e \in Nat, NEW recip \in Nat
  PROVE  Bin(ori, pred, e, recip, Radius) \in Int
BY Constants, ShiftedInt DEF Bin

\* What quantize_and_overwrite leaves in the array is an integer.
LEMMA OverwriteInt ==
  ASSUME NEW ori \in Int, NEW pred \in Int, NEW e \in Nat, NEW recip \in Nat
  PROVE  Overwritten(ori, pred, e, recip, Radius) \in Int
<1>1. Radius \in Int /\ recip \in Int
  BY Constants
<1> QED
  BY <1>1, OverwriteWithinBound

\* What recover_pred computes is an integer.
LEMMA RecoveredInt ==
  ASSUME NEW pred \in Int, NEW bin \in Int, NEW e \in Nat, NEW radius \in Int
  PROVE  Recovered(pred, bin, e, radius) \in Int
<1> DEFINE w == Wrap(2 * Wrap(bin - radius))
<1>1. w \in Int
  BY WrapInt
<1> HIDE DEF w
<1>2. pred + w * e \in Int
  BY <1>1
<1> QED
  BY <1>2, RoundInt DEF Recovered, w

-----------------------------------------------------------------------------
(* Type correctness.                                                       *)

\* The initial states have the right types.
LEMMA InitType == Init => TypeOK
<1> SUFFICES ASSUME Init PROVE TypeOK
  OBVIOUS
<1>1. Reciprocal(BaseEb) \in Nat
  BY Constants, ReciprocalInt
<1>2. data \in [1 .. N -> Int]
  BY Constants DEF Init
<1>3. <<>> \in Seq(Int) /\ Len(<<>>) = 0
  OBVIOUS
<1>4. SharedType
  BY <1>3 DEF Init, SharedType
<1>5. EncoderType
  BY <1>1, <1>2, <1>3, Constants DEF Init, EncoderType
<1>6. DecoderType
  BY <1>3, Constants DEF Init, DecoderType
<1> QED
  BY <1>4, <1>5, <1>6 DEF TypeOK

\* Every step keeps the types.
LEMMA StepType == TypeOK /\ Finished /\ [Next]_vars => TypeOK'
<1> SUFFICES ASSUME TypeOK, Finished, [Next]_vars PROVE TypeOK'
  OBVIOUS
<1> USE DEF TypeOK
<1>a. UNCHANGED encVars => EncoderType'
  BY DEF EncoderType, encVars
<1>b. UNCHANGED decVars => DecoderType'
  BY DEF DecoderType, decVars
<1>1. CASE NextLevel
  <2>1. level - 1 \in 1 .. Top
    BY <1>1, Constants DEF NextLevel, EncoderType
  <2>2. error_bound' \in Nat /\ error_bound_reciprocal' \in Nat
    BY <1>1, <2>1, LevelEbNat, Constants, ReciprocalInt DEF NextLevel
  <2>3. EncoderType'
    BY <1>1, <2>1, <2>2 DEF NextLevel, EncoderType
  <2>4. SharedType' /\ UNCHANGED decVars
    BY <1>1 DEF NextLevel, SharedType
  <2> QED
    BY <1>b, <2>3, <2>4
<1>2. CASE EncodeAnchor
  <2>1. pos \in 1 .. N /\ data[pos] \in Int /\ pos + 1 \in 1 .. (N + 1)
    BY <1>2, Constants DEF EncodeAnchor, EncoderType
  <2>2. unpred' \in Seq(Int) /\ Len(unpred') \in Nat
    BY <1>2, <2>1 DEF EncodeAnchor, EncoderType
  <2>3. quant_inds' \in Seq(Int) /\ Len(quant_inds') = pos' - 1
    BY <1>2, <2>1 DEF EncodeAnchor, EncoderType
  <2>4. cnt' \in [1 .. (N + 1) -> Nat]
    BY <1>2, <2>2 DEF EncodeAnchor, EncoderType
  <2>5. EncoderType'
    BY <1>2, <2>1, <2>2, <2>3, <2>4 DEF EncodeAnchor, EncoderType
  <2>6. SharedType' /\ UNCHANGED decVars
    BY <1>2 DEF EncodeAnchor, SharedType
  <2> QED
    BY <1>b, <2>5, <2>6
<1>3. CASE EncodePoint
  <2> DEFINE pred == Predict(plan[pos].kind, data, pos)
             bin  == Bin(data[pos], pred, error_bound, error_bound_reciprocal, Radius)
             over == Overwritten(data[pos], pred, error_bound,
                                 error_bound_reciprocal, Radius)
  <2>1. pos \in 1 .. N /\ data[pos] \in Int /\ pos + 1 \in 1 .. (N + 1)
    BY <1>3, Constants DEF EncodePoint, EncoderType
  <2>2. pred \in Int
    BY <2>1, PredictInt DEF EncoderType
  <2>3. error_bound \in Nat /\ error_bound_reciprocal \in Nat
    BY DEF EncoderType
  <2>4. bin \in Int /\ over \in Int
    <3> HIDE DEF pred
    <3> QED
      BY <2>1, <2>2, <2>3, BinInt, OverwriteInt
  <2>5. /\ unpred' = unpred \/ unpred' = Append(unpred, data[pos])
        /\ quant_inds' = Append(quant_inds, bin)
        /\ data' = [data EXCEPT ![pos] = over]
        /\ cnt' = [cnt EXCEPT ![pos + 1] = Len(unpred')]
        /\ pos' = pos + 1
    BY <1>3 DEF EncodePoint
  <2>a. /\ data \in [1 .. N -> Int] /\ unpred \in Seq(Int) /\ quant_inds \in Seq(Int)
        /\ Len(quant_inds) = pos - 1 /\ cnt \in [1 .. (N + 1) -> Nat]
    BY DEF EncoderType
  <2> HIDE DEF pred, bin, over
  <2>6. unpred' \in Seq(Int) /\ Len(unpred') \in Nat
    <3>1. Append(unpred, data[pos]) \in Seq(Int)
      BY <2>1, <2>a
    <3>2. unpred' \in Seq(Int)
      BY <2>5, <2>a, <3>1
    <3> QED
      BY <3>2
  <2>7. quant_inds' \in Seq(Int) /\ Len(quant_inds') = pos' - 1
    BY <2>1, <2>4, <2>5, <2>a
  <2>8. cnt' \in [1 .. (N + 1) -> Nat] /\ data' \in [1 .. N -> Int]
    BY <2>1, <2>4, <2>5, <2>6, <2>a
  <2>9. UNCHANGED <<plan, orig, stream, level, error_bound,
                    error_bound_reciprocal, decVars, pc>>
    BY <1>3 DEF EncodePoint
  <2>10. EncoderType'
    BY <2>1, <2>5, <2>6, <2>7, <2>8, <2>9 DEF EncoderType
  <2>11. SharedType'
    BY <2>9 DEF SharedType
  <2> QED
    BY <1>b, <2>9, <2>10, <2>11
<1>4. CASE RestoreEb
  <2>1. EncoderType'
    BY <1>4, ReciprocalInt, Constants DEF RestoreEb, EncoderType
  <2>2. SharedType' /\ UNCHANGED decVars
    BY <1>4 DEF RestoreEb, SharedType
  <2> QED
    BY <1>b, <2>1, <2>2
<1>5. CASE Save
  <2>1. EncoderType'
    BY <1>5 DEF Save, EncoderType
  <2>2. stream' \in [error_bound : Nat, radius : Int, unpred : Seq(Int)]
    BY <1>5, Constants DEF Save, EncoderType
  <2>3. SharedType' /\ UNCHANGED decVars
    BY <1>5, <2>2 DEF Save, SharedType
  <2> QED
    BY <1>b, <2>1, <2>3
<1>6. CASE Load
  <2>1. DecoderType'
    BY <1>6 DEF Load, SharedType, DecoderType
  <2>2. SharedType' /\ UNCHANGED encVars
    BY <1>6 DEF Load, SharedType
  <2> QED
    BY <1>a, <2>1, <2>2
<1>7. CASE DecodeNextLevel
  <2>1. dlevel - 1 \in 1 .. Top /\ eb \in Nat
    BY <1>7, Constants DEF DecodeNextLevel, DecoderType
  <2>2. dec_error_bound' \in Nat
    BY <1>7, <2>1, LevelEbNat DEF DecodeNextLevel
  <2>3. DecoderType'
    BY <1>7, <2>1, <2>2 DEF DecodeNextLevel, DecoderType
  <2>4. SharedType' /\ UNCHANGED encVars
    BY <1>7 DEF DecodeNextLevel, SharedType
  <2> QED
    BY <1>a, <2>3, <2>4
<1>8. ASSUME NEW i \in 1 .. N, RecoverUnpred(i)
      PROVE  out' \in [1 .. N -> Int] /\ index' \in Nat
  <2>1. index < Len(dec_unpred) => dec_unpred[index + 1] \in Int
    BY DEF DecoderType
  <2> QED
    BY <1>8, <2>1 DEF RecoverUnpred, DecoderType
<1>9. CASE DecodeAnchor
  <2>1. quant_index + 1 \in 1 .. N
    BY <1>9, Constants DEF DecodeAnchor, DecoderType
  <2>2. out' \in [1 .. N -> Int] /\ index' \in Nat
    BY <1>8, <1>9, <2>1 DEF DecodeAnchor
  <2>3. DecoderType'
    BY <1>9, <2>1, <2>2 DEF DecodeAnchor, DecoderType
  <2>4. SharedType' /\ UNCHANGED encVars
    BY <1>9 DEF DecodeAnchor, SharedType
  <2> QED
    BY <1>a, <2>3, <2>4
<1>10. CASE DecodePoint
  <2> DEFINE i == quant_index + 1
             rec == Recovered(Predict(plan[i].kind, out, i), quant_inds[i],
                              dec_error_bound, dec_radius)
  <2>1. i \in 1 .. N
    BY <1>10, Constants DEF DecodePoint, DecoderType
  <2>2. \/ quant_inds[i] = 0 /\ RecoverUnpred(i)
        \/ out' = [out EXCEPT ![i] = rec] /\ index' = index
    BY <1>10 DEF DecodePoint
  <2>3. rec \in Int
    <3>1. quant_inds[i] \in Int
      BY <1>10, <2>1, Constants DEF DecodePoint, EncoderType, Finished
    <3>2. Predict(plan[i].kind, out, i) \in Int
      BY <2>1, PredictInt DEF DecoderType
    <3> QED
      BY <3>1, <3>2, RecoveredInt DEF DecoderType
  <2>4. quant_index' = i
    BY <1>10 DEF DecodePoint
  <2> HIDE DEF i, rec
  <2>5. out' \in [1 .. N -> Int] /\ index' \in Nat
    <3>1. CASE RecoverUnpred(i)
      BY <1>8, <2>1, <3>1
    <3>2. CASE out' = [out EXCEPT ![i] = rec] /\ index' = index
      BY <2>1, <2>3, <3>2 DEF DecoderType
    <3> QED
      BY <2>2, <3>1, <3>2
  <2>6. DecoderType'
    BY <1>10, <2>1, <2>4, <2>5 DEF DecodePoint, DecoderType
  <2>7. SharedType' /\ UNCHANGED encVars
    BY <1>10 DEF DecodePoint, SharedType
  <2> QED
    BY <1>a, <2>6, <2>7
<1>11. CASE Return
  <2>1. SharedType' /\ UNCHANGED encVars /\ UNCHANGED decVars
    BY <1>11 DEF Return, SharedType
  <2> QED
    BY <1>a, <1>b, <2>1
<1>12. CASE UNCHANGED vars
  <2>1. SharedType' /\ UNCHANGED encVars /\ UNCHANGED decVars
    BY <1>12 DEF vars, SharedType
  <2> QED
    BY <1>a, <1>b, <2>1
<1> QED
  BY <1>1, <1>2, <1>3, <1>4, <1>5, <1>6, <1>7, <1>9, <1>10, <1>11, <1>12 DEF Next

-----------------------------------------------------------------------------
(* The inductive invariant.                                                *)

\* The inductive invariant holds initially.
LEMMA InitInv == Init => IInv
<1> SUFFICES ASSUME Init PROVE IInv
  OBVIOUS
<1>1. TypeOK
  BY InitType
<1>2. EncoderBound /\ Finished
  BY DEF Init, EncoderBound, Finished, LevelEb
<1>3. Untouched /\ Coded
  BY DEF Init, Untouched, Coded
<1>4. Counted
  BY Constants DEF Init, Counted, Unpreds
<1>5. DecoderInv
  BY DEF Init, DecoderInv, Saved, NotLoaded, Loaded, DecoderAgrees
<1> QED
  BY <1>1, <1>2, <1>3, <1>4, <1>5 DEF IInv, EncoderInv

\* Coding one more element: b is its bin, v the value left in the array.  The
\* value is either kept and saved, under bin 0, or what the decoder recovers.
Kept(b, v) == b = 0 /\ v = data[pos] /\ unpred' = Append(unpred, data[pos])

Quantized(b, v) ==
  /\ b # 0
  /\ plan[pos].kind # "anchor"
  /\ unpred' = unpred
  /\ v = Recovered(Predict(plan[pos].kind, data, pos), b,
                   LevelEb(BaseEb, plan[pos].level), Radius)

CodeStep(b, v) ==
  /\ pc = "encode" /\ pos \in 1 .. N /\ pos' = pos + 1
  /\ pc' = pc /\ plan' = plan /\ orig' = orig
  /\ quant_inds' = Append(quant_inds, b)
  /\ data' = [data EXCEPT ![pos] = v]
  /\ cnt' = [cnt EXCEPT ![pos + 1] = Len(unpred')]
  /\ Abs(v - orig[pos]) <= LevelEb(BaseEb, plan[pos].level)
  /\ Kept(b, v) \/ Quantized(b, v)

\* Coding one more element keeps what is said of the elements.
LEMMA CodeOne ==
  ASSUME EncoderInv, NEW b \in Int, NEW v \in Int, CodeStep(b, v)
  PROVE  Untouched' /\ Coded' /\ Counted'
<1>1. /\ data \in [1 .. N -> Int] /\ unpred \in Seq(Int)
      /\ quant_inds \in Seq(Int) /\ Len(quant_inds) = pos - 1
      /\ cnt \in [1 .. (N + 1) -> Nat]
  BY DEF EncoderInv, TypeOK, EncoderType
<1>2. /\ pos \in 1 .. N /\ pos' = pos + 1 /\ plan' = plan /\ orig' = orig
      /\ Unpreds = unpred /\ Unpreds' = unpred'
  BY DEF Unpreds, CodeStep
<1>3. /\ \A j \in 1 .. N : j # pos => data'[j] = data[j]
      /\ data'[pos] = v
  BY <1>1, <1>2 DEF CodeStep
<1>4. /\ \A j \in 1 .. pos : cnt'[j] = cnt[j]
      /\ cnt'[pos + 1] = Len(unpred')
  BY <1>1, <1>2, Constants DEF CodeStep
<1>5. /\ \A j \in 1 .. (pos - 1) : quant_inds'[j] = quant_inds[j]
      /\ quant_inds'[pos] = b
  BY <1>1, <1>2 DEF CodeStep
<1>6. data[pos] \in Int /\ Len(unpred) \in Nat
  BY <1>1, <1>2
<1>7. unpred' = Append(unpred, data[pos]) =>
         /\ Len(unpred') = Len(unpred) + 1
         /\ unpred'[Len(unpred) + 1] = data[pos]
         /\ \A j \in 1 .. Len(unpred) : unpred'[j] = unpred[j]
  BY <1>1, <1>6
<1>8. cnt[pos] = Len(unpred) /\ cnt[1] = 0
  BY <1>2 DEF EncoderInv, Counted
<1>9. Untouched'
  <2> SUFFICES ASSUME NEW i \in 1 .. N, i >= pos' PROVE data'[i] = orig'[i]
    BY DEF Untouched
  <2>1. i >= pos /\ i # pos
    BY <1>2
  <2> QED
    BY <1>2, <1>3, <2>1 DEF EncoderInv, Untouched
<1>10. Counted'
  BY <1>2, <1>4, <1>8, Constants DEF Counted
<1>11. ASSUME NEW i \in 1 .. N, i <= pos
       PROVE  Predict(plan[i].kind, data', i) = Predict(plan[i].kind, data, i)
  <2>1. \A j \in 1 .. N : j < i => data'[j] = data[j]
    BY <1>2, <1>3, <1>11
  <2> QED
    BY <2>1, PredictCausal
<1>12. ASSUME NEW i \in 1 .. N, i < pos PROVE CodedAt(i)'
  <2>1. CodedAt(i)
    BY <1>12 DEF EncoderInv, Coded
  <2>2. i \in 1 .. (pos - 1) /\ i \in 1 .. pos /\ i + 1 \in 1 .. pos /\ i # pos
    BY <1>2, <1>12, Constants
  <2>3. /\ data'[i] = data[i] /\ quant_inds'[i] = quant_inds[i]
        /\ cnt'[i] = cnt[i] /\ cnt'[i + 1] = cnt[i + 1]
    BY <1>3, <1>4, <1>5, <2>2
  <2>4. Predict(plan[i].kind, data', i) = Predict(plan[i].kind, data, i)
    BY <1>11, <2>2
  <2>5. cnt[i] < Len(unpred) =>
          cnt[i] < Len(unpred') /\ unpred'[cnt[i] + 1] = unpred[cnt[i] + 1]
    <3>1. cnt[i] \in Nat
      <4>1. i \in 1 .. (N + 1)
        BY Constants
      <4> QED
        BY <1>1, <4>1
    <3>2. unpred' = unpred \/ unpred' = Append(unpred, data[pos])
      BY DEF CodeStep, Kept, Quantized
    <3> QED
      BY <1>6, <1>7, <3>1, <3>2
  <2> QED
    BY <1>2, <2>1, <2>3, <2>4, <2>5 DEF CodedAt
<1>13. ASSUME NEW i \in 1 .. N, i = pos PROVE CodedAt(i)'
  <2>1. Predict(plan[i].kind, data', i) = Predict(plan[i].kind, data, i)
    BY <1>2, <1>11, <1>13
  <2>2. /\ data'[i] = v /\ quant_inds'[i] = b
        /\ cnt'[i] = Len(unpred) /\ cnt'[i + 1] = Len(unpred')
    BY <1>2, <1>3, <1>4, <1>5, <1>8, <1>13, Constants
  <2>3. Abs(v - orig[i]) <= LevelEb(BaseEb, plan[i].level)
    BY <1>13 DEF CodeStep
  <2>4. CASE Kept(b, v)
    BY <1>2, <1>6, <1>7, <1>13, <2>2, <2>3, <2>4 DEF CodedAt, Kept
  <2>5. CASE Quantized(b, v)
    BY <1>2, <1>13, <2>1, <2>2, <2>3, <2>5 DEF CodedAt, Quantized
  <2> QED
    BY <2>4, <2>5 DEF CodeStep
<1>14. Coded'
  <2> SUFFICES ASSUME NEW i \in 1 .. N, i < pos' PROVE CodedAt(i)'
    BY DEF Coded
  <2>1. i < pos \/ i = pos
    BY <1>2
  <2> QED
    BY <1>12, <1>13, <2>1
<1> QED
  BY <1>9, <1>10, <1>14

\* Steps that code nothing and lose no unpredictable value.
CodeFrame ==
  /\ UNCHANGED <<plan, orig, data, pos, quant_inds, cnt>>
  /\ Unpreds' = Unpreds

\* So does a step that codes none.
LEMMA CodeNone ==
  ASSUME EncoderInv, CodeFrame
  PROVE  Untouched' /\ Coded' /\ Counted'
<1>1. \A i \in 1 .. N : CodedAt(i) => CodedAt(i)'
  BY DEF CodeFrame, CodedAt
<1> QED
  BY <1>1 DEF CodeFrame, EncoderInv, Untouched, Coded, Counted

\* Every step keeps the encoder's half of the invariant.
LEMMA StepEncoder == EncoderInv /\ [Next]_vars => EncoderInv'
<1> SUFFICES ASSUME EncoderInv, [Next]_vars PROVE EncoderInv'
  OBVIOUS
<1>1. TypeOK'
  BY StepType DEF EncoderInv
<1>2. UNCHANGED <<error_bound, error_bound_reciprocal, level, pos, pc>>
        => EncoderBound' /\ Finished'
  BY DEF EncoderInv, EncoderBound, Finished
<1>3. CASE NextLevel
  <2>1. CodeFrame
    BY <1>3 DEF NextLevel, CodeFrame, Unpreds
  <2>2. EncoderBound' /\ Finished'
    BY <1>3 DEF NextLevel, EncoderBound, Finished
  <2> QED
    BY <1>1, <2>1, <2>2, CodeNone DEF EncoderInv
<1>4. CASE EncodeAnchor
  <2> DEFINE v == data[pos]
  <2>1. /\ pos \in 1 .. N /\ v \in Int /\ data \in [1 .. N -> Int]
        /\ plan[pos].level \in 1 .. Top
    BY <1>4, Constants
    DEF EncodeAnchor, EncoderInv, TypeOK, EncoderType, SharedType
  <2>2. Abs(v - orig[pos]) <= LevelEb(BaseEb, plan[pos].level)
    <3>1. v = orig[pos]
      BY <2>1 DEF EncoderInv, Untouched
    <3>2. LevelEb(BaseEb, plan[pos].level) \in Nat
      BY <2>1, LevelEbNat, Constants
    <3> QED
      BY <2>1, <3>1, <3>2 DEF Abs
  <2>3. CodeStep(0, v)
    BY <1>4, <2>1, <2>2 DEF EncodeAnchor, CodeStep, Kept
  <2>4. UNCHANGED <<error_bound, error_bound_reciprocal, level, pc>> /\ pc = "encode"
    BY <1>4 DEF EncodeAnchor
  <2>5. EncoderBound' /\ Finished'
    BY <2>4 DEF EncoderInv, EncoderBound, Finished
  <2>6. Untouched' /\ Coded' /\ Counted'
    BY <2>1, <2>3, CodeOne
  <2> QED
    BY <1>1, <2>5, <2>6 DEF EncoderInv
<1>5. CASE EncodePoint
  <2> DEFINE pred == Predict(plan[pos].kind, data, pos)
             bin  == Bin(data[pos], pred, error_bound, error_bound_reciprocal, Radius)
             over == Overwritten(data[pos], pred, error_bound,
                                 error_bound_reciprocal, Radius)
             ok   == Predictable(data[pos], pred, error_bound,
                                 error_bound_reciprocal, Radius)
  <2>1. /\ pos \in 1 .. N /\ data[pos] \in Int /\ data \in [1 .. N -> Int]
        /\ error_bound \in Nat /\ error_bound_reciprocal \in Nat
    BY <1>5, Constants DEF EncodePoint, EncoderInv, TypeOK, EncoderType
  <2>2. error_bound = LevelEb(BaseEb, plan[pos].level) /\ data[pos] = orig[pos]
    BY <1>5, <2>1 DEF EncodePoint, EncoderInv, EncoderBound, Untouched
  <2>3. pred \in Int
    BY <2>1, PredictInt
  <2>4. /\ unpred' = IF ok THEN unpred ELSE Append(unpred, data[pos])
        /\ quant_inds' = Append(quant_inds, bin)
        /\ data' = [data EXCEPT ![pos] = over]
        /\ cnt' = [cnt EXCEPT ![pos + 1] = Len(unpred')]
        /\ pos' = pos + 1
        /\ plan[pos].kind # "anchor" /\ pc = "encode"
        /\ UNCHANGED <<pc, plan, orig, level, error_bound, error_bound_reciprocal>>
    BY <1>5 DEF EncodePoint
  <2>5. Radius \in Int /\ error_bound_reciprocal \in Int
    BY <2>1, Constants
  <2>6. /\ bin \in Int /\ over \in Int
        /\ Abs(over - data[pos]) <= error_bound
        /\ ok => bin # 0 /\ over = Recovered(pred, bin, error_bound, Radius)
        /\ ~ok => bin = 0 /\ over = data[pos]
    <3> HIDE DEF pred
    <3>1. bin \in Int
      BY <2>1, <2>3, BinInt
    <3>2. over \in Int /\ Abs(over - data[pos]) <= error_bound
      BY <2>1, <2>3, <2>5, OverwriteWithinBound
    <3>3. ok => bin # 0
      BY <2>1, <2>3, PredictableBin
    <3>4. ok => over = Recovered(pred, bin, error_bound, Radius)
      BY <2>1, <2>3, <2>5, RecoverUndoesQuantize
    <3>5. ~ok => bin = 0 /\ over = data[pos]
      BY DEF Bin, Overwritten
    <3> QED
      BY <3>1, <3>2, <3>3, <3>4, <3>5
  <2>7. CodeStep(bin, over)
    <3> DEFINE e == LevelEb(BaseEb, plan[pos].level)
    <3>1. Abs(over - orig[pos]) <= e
      BY <2>2, <2>6
    <3>2. ok => Quantized(bin, over)
      BY <2>2, <2>4, <2>6 DEF Quantized
    <3>3. ~ok => Kept(bin, over)
      BY <2>4, <2>6 DEF Kept
    <3> HIDE DEF bin, over, ok
    <3> QED
      BY <2>1, <2>4, <3>1, <3>2, <3>3 DEF CodeStep
  <2> HIDE DEF bin, over, ok
  <2>8. Untouched' /\ Coded' /\ Counted'
    BY <2>6, <2>7, CodeOne
  <2>9. EncoderBound' /\ Finished'
    BY <2>4 DEF EncoderInv, EncoderBound, Finished
  <2> QED
    BY <1>1, <2>8, <2>9 DEF EncoderInv
<1>6. CASE RestoreEb
  <2>1. CodeFrame
    BY <1>6 DEF RestoreEb, CodeFrame, Unpreds
  <2>2. EncoderBound' /\ Finished'
    BY <1>6 DEF RestoreEb, EncoderBound, Finished
  <2> QED
    BY <1>1, <2>1, <2>2, CodeNone DEF EncoderInv
<1>7. CASE Save
  <2>1. CodeFrame
    BY <1>7 DEF Save, CodeFrame, Unpreds
  <2>2. EncoderBound' /\ Finished'
    BY <1>7 DEF Save, EncoderInv, EncoderBound, Finished
  <2> QED
    BY <1>1, <2>1, <2>2, CodeNone DEF EncoderInv
<1>8. CASE Load \/ DecodeNextLevel \/ DecodeAnchor \/ DecodePoint \/ Return
           \/ UNCHANGED vars
  <2>1. /\ UNCHANGED <<plan, orig, stream, encVars>>
        /\ \/ pc' = pc
           \/ pc = "load" /\ pc' = "decode"
           \/ pc = "decode" /\ pc' = "done"
    BY <1>8
    DEF Load, DecodeNextLevel, DecodeAnchor, DecodePoint, Return, vars
  <2>2. CodeFrame
    BY <2>1 DEF CodeFrame, encVars, Unpreds
  <2>3. EncoderBound' /\ Finished'
    BY <2>1 DEF EncoderInv, EncoderBound, Finished, encVars
  <2> QED
    BY <1>1, <2>2, <2>3, CodeNone DEF EncoderInv
<1> QED
  BY <1>3, <1>4, <1>5, <1>6, <1>7, <1>8 DEF Next

\* Every step keeps the decoder's half of the invariant.
LEMMA StepDecoder == IInv /\ [Next]_vars => DecoderInv'
<1> SUFFICES ASSUME IInv, [Next]_vars PROVE DecoderInv'
  OBVIOUS
<1>0. SharedType /\ EncoderType /\ DecoderType /\ Finished /\ Coded /\ Counted
      /\ Saved /\ NotLoaded /\ Loaded /\ DecoderAgrees
  BY DEF IInv, EncoderInv, DecoderInv, TypeOK
\* Nothing is decoded while the encoder works.
<1>1. CASE /\ pc \in {"encode", "save"} /\ pc' \in {"encode", "save", "load"}
           /\ UNCHANGED decVars
           /\ pc' = "load" => stream'.error_bound = BaseEb /\ stream'.radius = Radius
  <2>1. quant_index' = 0 /\ dlevel' = Top
    BY <1>0, <1>1 DEF NotLoaded, decVars
  <2>2. DecoderAgrees'
    BY <2>1 DEF DecoderAgrees
  <2> QED
    BY <1>1, <2>1, <2>2 DEF DecoderInv, Saved, NotLoaded, Loaded
<1>2. CASE NextLevel \/ EncodeAnchor \/ EncodePoint \/ RestoreEb
  BY <1>1, <1>2 DEF NextLevel, EncodeAnchor, EncodePoint, RestoreEb
<1>3. CASE Save
  <2>1. error_bound = BaseEb
    BY <1>3 DEF Save, IInv, EncoderInv, EncoderBound
  <2> QED
    BY <1>1, <1>3, <2>1 DEF Save
<1>4. CASE Load
  <2>1. stream.error_bound = BaseEb /\ stream.radius = Radius
        /\ quant_index = 0 /\ dlevel = Top
    BY <1>0, <1>4 DEF Load, Saved, NotLoaded
  <2>2. cnt[0 + 1] = 0
    BY <1>0 DEF Counted
  <2>3. Loaded'
    BY <1>4, <2>1, <2>2 DEF Load, Loaded, LevelEb, encVars
  <2>4. DecoderAgrees'
    BY <1>4, <2>1 DEF Load, DecoderAgrees
  <2> QED
    BY <1>4, <2>1, <2>3, <2>4 DEF Load, DecoderInv, Saved, NotLoaded
<1>5. CASE DecodeNextLevel
  <2>1. Loaded'
    BY <1>0, <1>5 DEF DecodeNextLevel, Loaded, encVars
  <2>2. DecoderAgrees'
    BY <1>0, <1>5 DEF DecodeNextLevel, DecoderAgrees, encVars
  <2> QED
    BY <1>0, <1>5, <2>1, <2>2 DEF DecodeNextLevel, DecoderInv, Saved, NotLoaded
\* The element about to be decoded, and what its bin says of it.
<1>6. CASE DecodeAnchor \/ DecodePoint
  <2> DEFINE i == quant_index + 1
             rec == Recovered(Predict(plan[i].kind, out, i), quant_inds[i],
                              dec_error_bound, dec_radius)
  <2>1. /\ pc = "decode" /\ quant_index < N /\ plan[i].level = dlevel
        /\ quant_index' = i
        /\ UNCHANGED <<pc, plan, orig, stream, encVars, dlevel, eb,
                       dec_error_bound, dec_radius, dec_unpred>>
    BY <1>6 DEF DecodeAnchor, DecodePoint
  <2>2. \/ (plan[i].kind = "anchor" \/ quant_inds[i] = 0) /\ RecoverUnpred(i)
        \/ quant_inds[i] # 0 /\ out' = [out EXCEPT ![i] = rec] /\ index' = index
    BY <1>6 DEF DecodeAnchor, DecodePoint
  <2>3. /\ i \in 1 .. N /\ i < pos /\ quant_index \in Nat
        /\ out \in [1 .. N -> Int]
    BY <1>0, <2>1, Constants DEF DecoderType, Finished
  <2>4. CodedAt(i)
    BY <1>0, <2>3 DEF Coded
  <2>5. /\ dec_unpred = Unpreds /\ index = cnt[i] /\ dec_radius = Radius
        /\ dec_error_bound = LevelEb(BaseEb, plan[i].level) /\ eb = BaseEb
    BY <1>0, <2>1 DEF Loaded, Unpreds
  <2>6. Predict(plan[i].kind, out, i) = Predict(plan[i].kind, data, i)
    <3>1. \A j \in 1 .. N : j < i => out[j] = data[j]
      BY <1>0, <2>3 DEF DecoderAgrees
    <3> QED
      BY <2>3, <3>1, PredictCausal
  <2> HIDE DEF rec
  <2>7. out' = [out EXCEPT ![i] = data[i]] /\ index' = cnt[i + 1]
    <3>1. CASE (plan[i].kind = "anchor" \/ quant_inds[i] = 0) /\ RecoverUnpred(i)
      <4>1. quant_inds[i] = 0
        BY <2>4, <3>1 DEF CodedAt
      <4>2. /\ index < Len(dec_unpred) /\ dec_unpred[index + 1] = data[i]
            /\ index + 1 = cnt[i + 1]
        BY <2>4, <2>5, <4>1 DEF CodedAt
      <4> QED
        BY <3>1, <4>2 DEF RecoverUnpred
    <3>2. CASE /\ quant_inds[i] # 0 /\ out' = [out EXCEPT ![i] = rec]
               /\ index' = index
      <4>1. rec = data[i]
        BY <2>4, <2>5, <2>6, <3>2 DEF CodedAt, rec
      <4>2. cnt[i + 1] = index
        BY <2>4, <2>5, <3>2 DEF CodedAt
      <4> QED
        BY <3>2, <4>1, <4>2
    <3> QED
      BY <2>2, <3>1, <3>2
  <2>8. DecoderAgrees'
    <3>1. data' = data
      BY <2>1 DEF encVars
    <3> SUFFICES ASSUME NEW j \in 1 .. N, j <= i PROVE out'[j] = data[j]
      BY <2>1, <3>1 DEF DecoderAgrees
    <3>2. CASE j = i
      BY <2>3, <2>7, <3>2
    <3>3. CASE j # i
      BY <1>0, <2>3, <2>7, <3>3 DEF DecoderAgrees
    <3> QED
      BY <3>2, <3>3
  <2>9. Loaded'
    BY <1>0, <2>1, <2>7 DEF Loaded, encVars
  <2> QED
    BY <1>0, <2>1, <2>8, <2>9 DEF DecoderInv, Saved, NotLoaded
<1>7. CASE Return
  <2>1. DecoderAgrees'
    BY <1>0, <1>7 DEF Return, DecoderAgrees, encVars, decVars
  <2> QED
    BY <1>0, <1>7, <2>1
    DEF Return, DecoderInv, Saved, NotLoaded, Loaded, encVars, decVars
<1>8. CASE UNCHANGED vars
  <2>1. DecoderAgrees'
    BY <1>0, <1>8 DEF vars, DecoderAgrees, encVars, decVars
  <2> QED
    BY <1>0, <1>8, <2>1
    DEF vars, DecoderInv, Saved, NotLoaded, Loaded, encVars, decVars
<1> QED
  BY <1>2, <1>3, <1>4, <1>5, <1>6, <1>7, <1>8 DEF Next

\* The inductive invariant holds in every reachable state.
THEOREM Invariance == Spec => []IInv
<1>1. IInv /\ [Next]_vars => IInv'
  BY StepEncoder, StepDecoder DEF IInv
<1> QED
  BY InitInv, <1>1, PTL DEF Spec

-----------------------------------------------------------------------------
(* The theorems.                                                           *)

\* Type correctness of both quantizers and of the arrays they work on.
THEOREM TypeCorrect == Spec => []TypeOK
<1>1. IInv => TypeOK
  BY DEF IInv, EncoderInv
<1> QED
  BY <1>1, Invariance, PTL

\* Every element the encoder has overwritten is within the error bound of its
\* level (quantize_and_overwrite checks the value it is about to store).
THEOREM Bounded == Spec => []ErrorBounded
<1>1. IInv => ErrorBounded
  BY DEF IInv, EncoderInv, Coded, CodedAt, ErrorBounded
<1> QED
  BY <1>1, Invariance, PTL

\* The decoder reconstructs bit for bit what the encoder predicted from, and
\* so every element it returns is within the bound too.
THEOREM Lockstep == Spec => []DecoderAgrees
<1>1. IInv => DecoderAgrees
  BY DEF IInv, DecoderInv
<1> QED
  BY <1>1, Invariance, PTL

\* The decoder takes exactly the unpredictable values that were saved.
THEOREM Consumed == Spec => []UnpredConsumed
<1>1. IInv => UnpredConsumed
  <2> SUFFICES ASSUME IInv, pc = "done" PROVE index = Len(dec_unpred)
    BY DEF UnpredConsumed
  <2>1. index = cnt[pos] /\ dec_unpred = Unpreds
    BY DEF IInv, EncoderInv, DecoderInv, Loaded, Finished, Unpreds
  <2> QED
    BY <2>1 DEF IInv, EncoderInv, Counted
<1> QED
  BY <1>1, Invariance, PTL

\* A level that is not looser than the configuration stays under its bound.
LEMMA LevelEbBelow ==
  ASSUME NoLooser, NEW l \in 1 .. Top
  PROVE  LevelEb(BaseEb, l) <= BaseEb
<1>1. CASE l = Top
  BY <1>1, Constants DEF LevelEb
<1>2. CASE l # Top
  <2>1. l \in 1 .. (Top - 1)
    BY <1>2, Constants
  <2>2. PICK n \in Nat, d \in Nat \ {0} : n = Ratio[l][1] /\ d = Ratio[l][2]
    BY <2>1, StreamAssumption DEF StreamAssumption
  <2>3. n <= d
    BY <2>1, <2>2 DEF NoLooser
  <2>4. PICK b \in Nat : b = BaseEb
    BY Constants
  <2> DEFINE p == b * n
             q == p \div d
  <2>5. p \in Nat /\ b * d \in Nat /\ p <= b * d
    BY <2>3
  <2> HIDE DEF p
  <2>6. q \in Int /\ d * q <= p
    BY <2>5
  <2> HIDE DEF q
  <2>7. q <= b
    <3> SUFFICES ASSUME q >= b + 1 PROVE FALSE
      BY <2>6
    <3>1. PICK r \in Nat : q = b + 1 + r
      BY <2>6
    <3>2. d * q = b * d + d + d * r
      BY <3>1
    <3>3. d * r \in Nat /\ d >= 1
      OBVIOUS
    <3> QED
      BY <2>5, <2>6, <3>2, <3>3
  <2> QED
    BY <1>2, <2>2, <2>4, <2>7 DEF LevelEb, p, q
<1> QED
  BY <1>1, <1>2

\* What the user asked for: if no level is looser than the configuration, the
\* decompressed array is within the error bound of the input at every element.
THEOREM UserBound ==
  ASSUME NoLooser
  PROVE  Spec => []WithinUserBound
<1>1. IInv => WithinUserBound
  <2> SUFFICES ASSUME IInv, pc = "done", NEW i \in 1 .. N
               PROVE  Abs(out[i] - orig[i]) <= BaseEb
    BY DEF WithinUserBound
  <2>1. quant_index = N /\ pos = N + 1
    BY DEF IInv, EncoderInv, DecoderInv, Loaded, Finished
  <2>2. out[i] = data[i]
    BY <2>1, Constants DEF IInv, DecoderInv, DecoderAgrees
  <2>3. Abs(data[i] - orig[i]) <= LevelEb(BaseEb, plan[i].level)
    BY <2>1, Constants DEF IInv, EncoderInv, Coded, CodedAt
  <2>4. plan[i].level \in 1 .. Top
    BY Constants DEF IInv, EncoderInv, TypeOK, SharedType
  <2>5. LevelEb(BaseEb, plan[i].level) <= BaseEb
    BY <2>4, LevelEbBelow
  <2>6. /\ data[i] \in Int /\ orig[i] \in Int /\ BaseEb \in Int
        /\ LevelEb(BaseEb, plan[i].level) \in Int
    <3>1. data[i] \in Int /\ orig[i] \in Values
      BY DEF IInv, EncoderInv, TypeOK, SharedType, EncoderType
    <3>2. LevelEb(BaseEb, plan[i].level) \in Nat
      BY <2>4, Constants, LevelEbNat
    <3>3. BaseEb \in Nat /\ Values \subseteq Int
      BY Constants
    <3>4. orig[i] \in Int
      BY <3>1, <3>3
    <3> QED
      BY <3>1, <3>2, <3>3, <3>4
  <2> QED
    BY <2>2, <2>3, <2>5, <2>6 DEF Abs
<1> QED
  BY <1>1, Invariance, PTL
=============================================================================
