----------------------------- MODULE QuantStream -----------------------------
(***************************************************************************)
(* One compression and the decompression of its stream, as the quantizer   *)
(* sees them: SZInterpolationCompressor::compress drives the encoder side  *)
(* and decompress the decoder side.  Which element is coded next and from  *)
(* which earlier elements it is predicted is the plan, the same on both    *)
(* sides (InterpSweep is about the plan); here the elements are numbered   *)
(* in coding order and the question is whether two quantizers that share   *)
(* only the stream stay in step.                                           *)
(*                                                                         *)
(* Elements coded before the level loop (the anchors, or the first element *)
(* predicted by 0) carry the level Top and use the base error bound.       *)
(***************************************************************************)
EXTENDS LinearQuantizer, Sequences

CONSTANTS
  N,          \* number of elements
  Top,        \* one more than the number of interpolation levels
  BaseEb,     \* the absolute error bound of the configuration
  Radius,     \* quantbinCnt / 2
  Ratio,      \* Ratio[l]: a fraction <<num, den>>, level l uses BaseEb * num/den
  Plans,      \* the plans considered
  Values      \* the values the input array may hold

Kinds == {"anchor", "zero", "copy", "linear", "lorenzo"}

ASSUME StreamAssumption ==
  /\ N \in Nat
  /\ Top \in Nat \ {0}
  /\ BaseEb \in Nat
  /\ Radius \in 1 .. ((IntHalf \div 2) - 1)   \* quantbinCnt is an int
  /\ Ratio \in [1 .. (Top - 1) -> Nat \X (Nat \ {0})]
  /\ Plans \subseteq [1 .. N -> [level : 1 .. Top, kind : Kinds]]
  /\ Values \subseteq Int

VARIABLES
  pc,           \* "encode", "save", "load", "decode" or "done"
  plan,
  orig,         \* the input
  data,         \* the encoder's array, overwritten as it is quantized
  pos,          \* next element to encode
  level,        \* the encoder's level loop
  error_bound, error_bound_reciprocal, unpred,   \* the encoder's quantizer
  quant_inds,   \* the bins, in coding order
  stream,       \* what save wrote
  out,          \* the decoder's array
  quant_index,  \* bins consumed by the decoder
  dlevel,       \* the decoder's level loop
  eb,           \* quantizer.get_eb() after load
  dec_error_bound, dec_radius, dec_unpred, index,  \* the decoder's quantizer
  cnt           \* history: unpredictable values among the first elements

encVars == <<data, pos, level, error_bound, error_bound_reciprocal, unpred,
             quant_inds, cnt>>
decVars == <<out, quant_index, dlevel, eb, dec_error_bound, dec_radius,
             dec_unpred, index>>
vars == <<pc, plan, orig, stream, encVars, decVars>>

-----------------------------------------------------------------------------
\* Mutant: the ratio is multiplied where it should divide.
LevelEb_Inverted(base, l) ==
  IF l = Top THEN base ELSE (base * Ratio[l][2]) \div Ratio[l][1]

LevelEb(base, l) ==
  IF l = Top THEN base ELSE (base * Ratio[l][1]) \div Ratio[l][2]

\* A neighbour, 0 outside the array.
At(a, i) == IF i >= 1 THEN a[i] ELSE 0

\* Prediction of element i from the array as reconstructed so far.
Predict(kind, a, i) ==
  CASE kind = "copy"    -> At(a, i - 1)
    [] kind = "linear"  -> RoundT((At(a, i - 1) + At(a, i - 2)) \div 2)
    [] kind = "lorenzo" -> RoundT(2 * At(a, i - 1) - At(a, i - 2))
    [] OTHER            -> 0

Init ==
  /\ pc = "encode"
  /\ plan \in Plans
  /\ orig \in [1 .. N -> Values]
  /\ data = orig
  /\ pos = 1
  /\ level = Top
  /\ error_bound = BaseEb
  /\ error_bound_reciprocal = Reciprocal(BaseEb)
  /\ unpred = <<>>
  /\ quant_inds = <<>>
  /\ stream = [error_bound |-> 0, radius |-> 0, unpred |-> <<>>]
  /\ out = [i \in 1 .. N |-> 0]
  /\ quant_index = 0
  /\ dlevel = Top
  /\ eb = 0
  /\ dec_error_bound = 0
  /\ dec_radius = 0
  /\ dec_unpred = <<>>
  /\ index = 0
  /\ cnt = [i \in 1 .. (N + 1) |-> 0]

-----------------------------------------------------------------------------
(* The encoder.                                                            *)

\* set_eb at the head of the level loop.
NextLevel ==
  /\ pc = "encode"
  /\ level > 1
  /\ pos <= N => plan[pos].level < level
  /\ level' = level - 1
  /\ error_bound' = LevelEb(BaseEb, level - 1)
  /\ error_bound_reciprocal' = Reciprocal(error_bound')
  /\ UNCHANGED <<pc, plan, orig, stream, data, pos, unpred, quant_inds, cnt,
                 decVars>>

\* Mutant: no bin is pushed for an anchor.
EncodeAnchor_NoBin ==
  /\ pc = "encode"
  /\ pos <= N
  /\ plan[pos].level = level
  /\ plan[pos].kind = "anchor"
  /\ unpred' = Append(unpred, data[pos])
  /\ cnt' = [cnt EXCEPT ![pos + 1] = Len(unpred')]
  /\ pos' = pos + 1
  /\ UNCHANGED <<pc, plan, orig, stream, data, level, error_bound,
                 error_bound_reciprocal, quant_inds, decVars>>

\* build_grid: insert_unpred and a bin 0.
EncodeAnchor ==
  /\ pc = "encode"
  /\ pos <= N
  /\ plan[pos].level = level
  /\ plan[pos].kind = "anchor"
  /\ unpred' = Append(unpred, data[pos])
  /\ quant_inds' = Append(quant_inds, 0)
  /\ cnt' = [cnt EXCEPT ![pos + 1] = Len(unpred')]
  /\ pos' = pos + 1
  /\ UNCHANGED <<pc, plan, orig, stream, data, level, error_bound,
                 error_bound_reciprocal, decVars>>

\* quantize_and_overwrite through quantize_integrated, mode 0.
EncodePoint ==
  /\ pc = "encode"
  /\ pos <= N
  /\ plan[pos].level = level
  /\ plan[pos].kind # "anchor"
  /\ LET pred == Predict(plan[pos].kind, data, pos)
         bin  == Bin(data[pos], pred, error_bound, error_bound_reciprocal, Radius)
     IN  /\ unpred' = IF Predictable(data[pos], pred, error_bound,
                                     error_bound_reciprocal, Radius)
                      THEN unpred
                      ELSE Append(unpred, data[pos])
         /\ quant_inds' = Append(quant_inds, bin)
         /\ data' = [data EXCEPT ![pos] =
                       Overwritten(data[pos], pred, error_bound,
                                   error_bound_reciprocal, Radius)]
  /\ cnt' = [cnt EXCEPT ![pos + 1] = Len(unpred')]
  /\ pos' = pos + 1
  /\ UNCHANGED <<pc, plan, orig, stream, level, error_bound,
                 error_bound_reciprocal, decVars>>

\* quantizer.set_eb(eb) behind the level loop.
RestoreEb ==
  /\ pc = "encode"
  /\ pos = N + 1
  /\ level = 1
  /\ pc' = "save"
  /\ error_bound' = BaseEb
  /\ error_bound_reciprocal' = Reciprocal(BaseEb)
  /\ UNCHANGED <<plan, orig, stream, data, pos, level, unpred, quant_inds, cnt,
                 decVars>>

\* save, then clear.
Save ==
  /\ pc = "save"
  /\ pc' = "load"
  /\ stream' = [error_bound |-> error_bound, radius |-> Radius, unpred |-> unpred]
  /\ unpred' = <<>>
  /\ UNCHANGED <<plan, orig, data, pos, level, error_bound,
                 error_bound_reciprocal, quant_inds, cnt, decVars>>

-----------------------------------------------------------------------------
(* The decoder.                                                            *)

Load ==
  /\ pc = "load"
  /\ pc' = "decode"
  /\ dec_error_bound' = stream.error_bound
  /\ dec_radius' = stream.radius
  /\ dec_unpred' = stream.unpred
  /\ index' = 0
  /\ eb' = stream.error_bound
  /\ UNCHANGED <<plan, orig, stream, encVars, out, quant_index, dlevel>>

\* Mutant: the level's error bound is derived from the last level's.
DecodeNextLevel_Compound ==
  /\ pc = "decode"
  /\ dlevel > 1
  /\ quant_index < N => plan[quant_index + 1].level < dlevel
  /\ dlevel' = dlevel - 1
  /\ dec_error_bound' = LevelEb(dec_error_bound, dlevel - 1)
  /\ UNCHANGED <<pc, plan, orig, stream, encVars, out, quant_index, eb,
                 dec_radius, dec_unpred, index>>

DecodeNextLevel ==
  /\ pc = "decode"
  /\ dlevel > 1
  /\ quant_index < N => plan[quant_index + 1].level < dlevel
  /\ dlevel' = dlevel - 1
  /\ dec_error_bound' = LevelEb(eb, dlevel - 1)
  /\ UNCHANGED <<pc, plan, orig, stream, encVars, out, quant_index, eb,
                 dec_radius, dec_unpred, index>>

\* Mutant: the cursor stays.
RecoverUnpred_Stays(i) ==
  /\ out' = [out EXCEPT ![i] = IF index < Len(dec_unpred)
                               THEN dec_unpred[index + 1] ELSE 0]
  /\ index' = index

\* recover_unpred: unpred[index++], any value when the index runs over.
RecoverUnpred(i) ==
  /\ out' = [out EXCEPT ![i] = IF index < Len(dec_unpred)
                               THEN dec_unpred[index + 1] ELSE 0]
  /\ index' = index + 1

\* recover_grid: the bin is skipped, not read.
DecodeAnchor ==
  /\ pc = "decode"
  /\ quant_index < N
  /\ plan[quant_index + 1].level = dlevel
  /\ plan[quant_index + 1].kind = "anchor"
  /\ RecoverUnpred(quant_index + 1)
  /\ quant_index' = quant_index + 1
  /\ UNCHANGED <<pc, plan, orig, stream, encVars, dlevel, eb, dec_error_bound,
                 dec_radius, dec_unpred>>

DecodePoint ==
  /\ pc = "decode"
  /\ quant_index < N
  /\ plan[quant_index + 1].level = dlevel
  /\ plan[quant_index + 1].kind # "anchor"
  /\ LET i    == quant_index + 1
         bin  == quant_inds[i]
         pred == Predict(plan[i].kind, out, i)
     IN  \/ /\ bin = 0
            /\ RecoverUnpred(i)
         \/ /\ bin # 0
            /\ out' = [out EXCEPT ![i] =
                         Recovered(pred, bin, dec_error_bound, dec_radius)]
            /\ index' = index
  /\ quant_index' = quant_index + 1
  /\ UNCHANGED <<pc, plan, orig, stream, encVars, dlevel, eb, dec_error_bound,
                 dec_radius, dec_unpred>>

Return ==
  /\ pc = "decode"
  /\ quant_index = N
  /\ dlevel = 1
  /\ pc' = "done"
  /\ UNCHANGED <<plan, orig, stream, encVars, decVars>>

Next ==
  \/ NextLevel \/ EncodeAnchor \/ EncodePoint \/ RestoreEb \/ Save
  \/ Load \/ DecodeNextLevel \/ DecodeAnchor \/ DecodePoint \/ Return

Spec == Init /\ [][Next]_vars

-----------------------------------------------------------------------------
(* Properties.                                                             *)

SharedType ==
  /\ pc \in {"encode", "save", "load", "decode", "done"}
  /\ plan \in Plans
  /\ orig \in [1 .. N -> Values]
  /\ stream \in [error_bound : Nat, radius : Int, unpred : Seq(Int)]

EncoderType ==
  /\ data \in [1 .. N -> Int]
  /\ pos \in 1 .. (N + 1)
  /\ level \in 1 .. Top
  /\ error_bound \in Nat
  /\ error_bound_reciprocal \in Nat
  /\ unpred \in Seq(Int)
  /\ quant_inds \in Seq(Int)
  /\ Len(quant_inds) = pos - 1
  /\ cnt \in [1 .. (N + 1) -> Nat]

DecoderType ==
  /\ out \in [1 .. N -> Int]
  /\ quant_index \in 0 .. N
  /\ dlevel \in 1 .. Top
  /\ eb \in Nat
  /\ dec_error_bound \in Nat
  /\ dec_radius \in Int
  /\ dec_unpred \in Seq(Int)
  /\ index \in Nat

\* Type invariant of the two quantizers and of the arrays they work on
\* (IntegerQuantizer.hpp, private members).
TypeOK == SharedType /\ EncoderType /\ DecoderType

\* Every element the encoder has overwritten is within the error bound of its
\* level, whatever the rounding of T, of the reciprocal and the overflow of the
\* bin do: quantize_and_overwrite keeps a value only after checking it.
ErrorBounded ==
  \A i \in 1 .. N :
    i < pos => Abs(data[i] - orig[i]) <= LevelEb(BaseEb, plan[i].level)

\* What the decoder has reconstructed is bit for bit what the encoder predicted
\* from: recover computes the value quantize_and_overwrite stored, under the
\* error bound the decoder derives from the saved one.
DecoderAgrees ==
  \A i \in 1 .. N : i <= quant_index => out[i] = data[i]

\* The decoder takes exactly the unpredictable values that were saved: the
\* cursor of recover_unpred ends at the end of the vector.
UnpredConsumed ==
  pc = "done" => index = Len(dec_unpred)

\* No level is coded under a looser bound than the configuration's: alpha and
\* beta are not on different sides of 1 (compress, the head of the level loop).
NoLooser == \A l \in 1 .. (Top - 1) : Ratio[l][1] <= Ratio[l][2]

\* What an error-bounded compressor is for: in the end every element is within
\* the bound the user asked for, if no level is looser.
WithinUserBound ==
  pc = "done" => \A i \in 1 .. N : Abs(out[i] - orig[i]) <= BaseEb
=============================================================================
