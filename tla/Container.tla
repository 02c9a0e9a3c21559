------------------------------- MODULE Container -------------------------------
(***************************************************************************)
(* SZ_compress and SZ_decompress: fix the bound, choose the compressor,    *)
(* tune, compress, append the configuration; and read it back into whatever*)
(* configuration the caller of SZ_decompress passes.  Part of what the     *)
(* decoder needs is in that trailer, part in the header of the stream.     *)
(***************************************************************************)
EXTENDS Tuning

CONSTANT Callers    \* the configurations SZ_decompress may be called with

ASSUME CallersAssumption == \A c \in Callers : DOMAIN c = ConfigFields

VARIABLES
  stream,      \* what the compressor has written before the bins
  trailer,     \* the saved configuration
  decoder      \* what SZ_decompress has built

vars == <<tuningVars, stream, trailer, decoder>>

None == [compressor |-> [kind |-> "none"]]

-----------------------------------------------------------------------------
\* calAbsErrorBound.  relative is relErrorBound times the range of the data, derived
\* what PSNR or the L2 norm come to.
AbsBound(c) ==
  CASE c.errorBoundMode = "ABS"         -> c.absErrorBound
    [] c.errorBoundMode = "REL"         -> c.relative
    [] c.errorBoundMode = "ABS_AND_REL" -> Min({c.absErrorBound, c.relative})
    [] c.errorBoundMode = "ABS_OR_REL"  -> Max({c.absErrorBound, c.relative})
    [] OTHER                            -> c.derived

\* From here on the mode is ABS, so the calls of calAbsErrorBound further down do
\* nothing.  For an algorithm it does not know compress returns a pointer nobody set.
Dispatch ==
  /\ pc = "dispatch"
  /\ conf' = [conf EXCEPT !.absErrorBound = AbsBound(conf), !.errorBoundMode = "ABS"]
  /\ pc' = CASE conf.cmprAlgo = "INTERP_LORENZO"          -> "tune"
             [] conf.cmprAlgo \in {"INTERP", "LORENZO_REG"} -> "compress"
             [] OTHER                                     -> "undefined"
  /\ UNCHANGED <<given, saved, starts, samples, level, metas, best, pair, trial, seen,
                 stream, trailer, decoder>>

\* The compressor a configuration stands for.  The general one takes its predictors
\* from the configuration; all else it needs is in its stream.
Compressor(c) ==
  IF c.cmprAlgo = "INTERP" THEN [kind |-> "interp"]
  ELSE IF N(c) = 3 /\ "regression2" \notin c.methods THEN [kind |-> "fast"]
  ELSE [kind |-> "general", methods |-> c.methods]

\* The general compressor cannot be built without a predictor.
Buildable(c) == ~ (Compressor(c).kind = "general" /\ c.methods = {})

\* The header of the interpolation compressor.
Header(c) ==
  [dims |-> c.dims, interpMeta |-> c.interpMeta, alpha |-> c.alpha, beta |-> c.beta,
   maxStep |-> c.maxStep, metas |-> c.interpMeta_list, blockwise |-> c.blockwiseTuning,
   frozen_dim |-> c.frozen_dim, crossBlock |-> c.crossBlock, eb |-> c.absErrorBound]

Compress ==
  /\ pc = "compress"
  /\ IF Buildable(conf)
     THEN /\ stream' = [compressor |-> Compressor(conf), header |-> Header(conf)]
          /\ pc' = "save"
     ELSE pc' = "exited" /\ UNCHANGED stream
  /\ UNCHANGED <<given, conf, saved, starts, samples, level, metas, best, pair, trial, seen,
                 trailer, decoder>>

\* Mutant: without the predictors of the general compressor.
SavedFields_NoMethods ==
  {"dims", "num", "cmprAlgo", "errorBoundMode", "tuningTarget", "absErrorBound", "alpha",
   "beta", "interpMeta", "quantbinCnt", "blockSize", "levelwise", "maxStep", "pred_dim"}

\* Config::save, Config::load.
SavedFields ==
  {"dims", "num", "cmprAlgo", "errorBoundMode", "tuningTarget", "absErrorBound", "alpha",
   "beta", "interpMeta", "quantbinCnt", "blockSize", "levelwise", "maxStep", "pred_dim",
   "methods"}

Save ==
  /\ pc = "save"
  /\ trailer' = [f \in SavedFields |-> conf[f]]
  /\ pc' = "stored"
  /\ UNCHANGED <<given, conf, saved, starts, samples, level, metas, best, pair, trial, seen,
                 stream, decoder>>

Loaded(caller) == [f \in DOMAIN caller |-> IF f \in DOMAIN trailer THEN trailer[f] ELSE caller[f]]

\* SZ_decompress: the caller's configuration, overwritten by the trailer, chooses the
\* compressor and the room for the data.
Decompress ==
  /\ pc = "stored"
  /\ \E caller \in Callers :
       LET c == Loaded(caller)
       IN  IF c.cmprAlgo \in {"INTERP", "LORENZO_REG"} /\ Buildable(c)
           THEN /\ decoder' = [compressor |-> Compressor(c), dims |-> c.dims, num |-> c.num]
                /\ pc' = "decoded"
           ELSE pc' = "exited" /\ UNCHANGED decoder
  /\ UNCHANGED <<given, conf, saved, starts, samples, level, metas, best, pair, trial, seen,
                 stream, trailer>>

Ended == {"decoded", "exited", "crashed", "undefined"}

Init ==
  /\ InitTuning
  /\ stream = None /\ trailer = [f \in {} |-> 0] /\ decoder = None

Next ==
  \/ Tune /\ UNCHANGED <<stream, trailer, decoder>>
  \/ Dispatch \/ Compress \/ Save \/ Decompress

Spec == Init /\ [][Next]_vars /\ WF_vars(Next)

-----------------------------------------------------------------------------
(* Properties.                                                             *)

\* Every trial compresses whole sampled blocks under a conf that describes one (its
\* dims and num), without the block-wise search of the real run, and there is a
\* block to try (SZInterp.hpp 291-460, 766-767, 1360-1361).
TrialsOnSamples ==
  trial.stage # "none" =>
    /\ trial.dims = Cube(N(given), conf.sampleBlockSize + 1)
    /\ trial.num = Elements(trial.dims)
    /\ ~trial.blockwise
    /\ trial.blocks \in 1 .. totalblock_num([conf EXCEPT !.dims = given.dims])

\* Whatever the tuning tried, and whichever way it went, the array is compressed with
\* its own dims, num and error bound and the block-wise search asked for
\* (SZInterp.hpp 955-960, 1173-1177, 1460, 1521-1528, 1654).
GivenBack ==
  pc = "compress" =>
    /\ conf.dims = given.dims /\ conf.num = given.num
    /\ conf.absErrorBound = AbsBound(given)
    /\ given.cmprAlgo = "INTERP_LORENZO" =>
         conf.blockwiseTuning = Started(given).blockwiseTuning

\* The factor by which the bound of a level is divided, in hundredths (the one place
\* where it is multiplied, 0 <= alpha < 1, turned round).
LevelRatio(alpha, beta, l) ==
  LET power == Power(alpha)[l - 1]
      cut   == 100 - (l - 1) * alpha
  IN  IF alpha < 0 THEN IF l >= 3 THEN 200 ELSE 100
      ELSE IF alpha >= 100 THEN IF power > beta THEN beta ELSE power
      ELSE 10000 \div (IF cut < beta THEN beta ELSE cut)

\* No level of the stream is coded with a looser bound than the caller asked for: the
\* alpha and beta the tuning settles on only ever divide it by 1 or more
\* (SZInterp.hpp 1381, SZInterpolationCompressor.hpp 277-305).
NoLooserBound ==
  stream.compressor.kind = "interp" =>
    /\ stream.header.eb = AbsBound(given)
    /\ \A l \in CodedLevels(conf, 0, 0) :
         LevelRatio(stream.header.alpha, stream.header.beta, l) >= 100

\* The metas in the header fit the header: as many as there are levels to select for,
\* directions that leave out exactly the frozen dimension, and paradigms that can
\* (SZInterp.hpp 982-987, 1081-1085, 1110).
MetasFit ==
  stream.compressor.kind = "interp" /\ given.cmprAlgo = "INTERP_LORENZO" =>
    LET h    == stream.header
        used == IF h.metas = <<>> THEN {h.interpMeta} ELSE Range(h.metas)
    IN  /\ h.metas # <<>> => Len(h.metas) = conf.levelwise
        /\ \A m \in used :
             IF h.frozen_dim < 0 THEN m.direction < Factorial(N(conf))
             ELSE /\ m.direction \in {6 + 2 * h.frozen_dim, 7 + 2 * h.frozen_dim}
                  /\ m.paradigm < 2

\* The level loop tries every level of a sample exactly once, the coarse ones above the
\* list together with its last (SZInterp.hpp 831-832, 991-992).
LevelsOnce ==
  /\ \A i, j \in DOMAIN seen : i # j => seen[i] \cap seen[j] = {}
  /\ (pc \in {"levels", "freeze_levels"} /\ level = 0) =>
       UNION Range(seen) = CodedLevels(conf, 0, 0)

\* B-M tuning measures blocks of the input, never ones that predictor tuning has
\* overwritten with their reconstruction (SZInterp.hpp 955, 1095, 1297).
FreshForBm == trial.stage \in {"bm", "bm_scaled", "bm_lorenzo"} => trial.fresh

\* SZ_decompress builds the compressor that wrote the stream, and room for as many
\* values as there were, whatever configuration it is called with (sz.hpp 142-178).
DecoderBuilds ==
  pc = "decoded" =>
    /\ decoder.compressor = stream.compressor
    /\ decoder.dims = given.dims /\ decoder.num = given.num

\* Compression ends and so does the decompression of what it has stored: the loops over
\* sample sizes, levels and pairs (with their breaks) come to an end.
Terminates == <>(pc \in Ended)

\* SZ_compress returns, and what it returns decompresses ("@return compressed data").
Returns == pc \notin {"exited", "crashed", "undefined"}
===============================================================================
