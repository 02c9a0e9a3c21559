-------------------------------- MODULE Tuning --------------------------------
(***************************************************************************)
(* SZ_compress_Interp_lorenzo: sample blocks of the array, try settings on *)
(* them and leave the best in conf, then compress the array with conf.     *)
(* The trials run on the same conf as the real thing, so conf.dims,        *)
(* conf.num, the error bound, alpha, beta and blockwiseTuning are lent to  *)
(* the samples and have to be given back on every path.                    *)
(*                                                                         *)
(* What a trial costs in bits and loses in quality is left out: any        *)
(* candidate may win.  A meta is its paradigm and direction, the kernels   *)
(* are free.  Rates count in thousandths, alpha and beta in hundredths.    *)
(* Container goes on where this module ends, with pc = "compress".         *)
(***************************************************************************)
EXTENDS Integers, SequencesExt

CONSTANT Inputs     \* the configurations and arrays considered, see IsInput

VARIABLES
  pc,          \* what compress does next
  given,       \* the caller's configuration, with what matters of the array
  conf,        \* the configuration being tuned
  saved,       \* the locals that hold what conf lends to the samples
  starts,      \* starts.size(): the blocks profiling has let through
  samples,     \* sampled_blocks: how many, and whether they still are the input
  level,       \* the level loop of predictor tuning
  metas,       \* interpMeta_list, the metas chosen so far
  best,        \* what the step has settled on so far
  pair,        \* cursor in alpha_list and beta_list
  trial,       \* history: the last compression of samples
  seen         \* history: the levels coded by the trials of the level loop

tuningVars ==
  <<pc, given, conf, saved, starts, samples, level, metas, best, pair, trial, seen>>

-----------------------------------------------------------------------------
(* Arithmetic.                                                             *)

Pow2[k \in Nat] == IF k = 0 THEN 1 ELSE 2 * Pow2[k - 1]

CeilLog2(x)  == CHOOSE k \in 0 .. x : Pow2[k] >= x /\ (k = 0 \/ Pow2[k - 1] < x)
FloorLog2(x) == CHOOSE k \in 0 .. x : Pow2[k] <= x /\ x < Pow2[k + 1]

Elements(dims) ==
  LET d(i) == IF i <= Len(dims) THEN dims[i] ELSE 1  \* there are at most 4 dimensions
  IN  d(1) * d(2) * d(3) * d(4)

Edges(dims)    == {dims[i] : i \in DOMAIN dims}
Cube(n, size)  == [i \in 1 .. n |-> size]
N(c)           == Len(c.dims)
Factorial(n)   == IF n = 1 THEN 1 ELSE IF n = 2 THEN 2 ELSE IF n = 3 THEN 6 ELSE 24

\* init: the levels of an array, and those a call of compress codes when asked
\* for start .. end + 1.  The anchors take the place of the topmost.
InterpolationLevel(c) ==
  LET full == CeilLog2(Max(Edges(c.dims)))
  IN  IF c.maxStep = 0 THEN full ELSE Min({full, FloorLog2(c.maxStep) + 1})

CodedLevels(c, start_level, end_level) ==
  LET all   == InterpolationLevel(c)
      first == IF start_level <= 0 \/ start_level > all THEN all ELSE start_level
      last  == IF end_level >= first THEN 0 ELSE end_level
  IN  (last + 1) .. (IF c.maxStep > 0 /\ first = all THEN first - 1 ELSE first)

\* The blocks of one direction, each with the point behind it.
Blocks(dim, size) == (dim - 1) \div size

totalblock_num(c) == Elements([i \in DOMAIN c.dims |-> Blocks(c.dims[i], c.sampleBlockSize)])

-----------------------------------------------------------------------------
Meta == [paradigm : 0 .. 2, direction : 0 .. 23]

\* The fields of Config that steer the tuning or that it sets, and of the array what
\* the bounds come to (relative, derived, smooth).
ConfigFields ==
  {"dims", "num", "cmprAlgo", "errorBoundMode", "absErrorBound", "relative", "derived",
   "tuningTarget", "QoZ", "autoTuningRate", "predictorTuningRate", "maxStep", "levelwise",
   "multiDimInterp", "freezeDimTest", "blockwiseTuning", "profiling", "sampleBlockSize",
   "crossBlock", "testLorenzo", "smooth", "pdTuningRealComp", "var_first", "alpha", "beta",
   "interpMeta", "interpMeta_list", "frozen_dim", "methods", "quantbinCnt", "blockSize",
   "pred_dim"}

IntMax == 2147483647

\* What a configuration may ask for, with the types of Config.
\* pdTuningRealComp, var_first, ... are switches of the configuration file;
\* smooth says that the relative bound is too large for Lorenzo to be tried, or
\* that SSIM is the target.
IsInput(c) ==
  /\ DOMAIN c = ConfigFields
  /\ c.dims \in Seq(Nat \ {0}) /\ Len(c.dims) \in 1 .. 4
  /\ c.num = Elements(c.dims)
  /\ c.cmprAlgo \in {"LORENZO_REG", "INTERP", "INTERP_LORENZO", "INTERP_BLOCKED"}
  /\ c.autoTuningRate \in 0 .. 999 /\ c.predictorTuningRate \in 0 .. 999
  /\ c.maxStep \in Nat /\ c.levelwise \in Nat /\ c.multiDimInterp \in Nat /\ c.QoZ \in Nat
  /\ c.sampleBlockSize \in Nat /\ c.sampleBlockSize < IntMax
  /\ c.alpha \in Int /\ c.beta \in Int
  /\ c.freezeDimTest \in BOOLEAN /\ c.blockwiseTuning \in BOOLEAN /\ c.profiling \in BOOLEAN
  /\ c.testLorenzo \in BOOLEAN /\ c.smooth \in BOOLEAN
  /\ c.pdTuningRealComp \in BOOLEAN /\ c.var_first \in BOOLEAN
  /\ c.frozen_dim = -1 /\ c.interpMeta_list = <<>>
  /\ c.interpMeta \in Meta /\ c.interpMeta.direction < Factorial(Len(c.dims))

ASSUME InputsAssumption == \A c \in Inputs : IsInput(c)

NoTrial == [stage |-> "none"]

\* A compression of all sampled blocks under conf c.
Trial(stage, c) ==
  [stage |-> stage, dims |-> c.dims, num |-> c.num, blockwise |-> c.blockwiseTuning,
   absErrorBound |-> c.absErrorBound, blocks |-> samples.blocks, fresh |-> samples.fresh]

\* CompressTest codes the bins of all samples at once; without any the encoder
\* ends the process.
CompressTest(stage, c, next) ==
  /\ trial' = Trial(stage, c)
  /\ pc' = IF samples.blocks = 0 THEN "exited" ELSE next

\* sampleBlocks: how many blocks it takes, by a stride through all of them or
\* through those of starts, or, with var_first, the most varied ones.  In 2
\* dimensions var_first without profiling takes none.
SampledBlocks(c, rate) ==
  LET total == totalblock_num(c)
      upTo(most) == Max({1, Min({(total * rate) \div 1000, most})})
      every(count, stride) == (count + stride - 1) \div stride
  IN  IF c.profiling
      THEN IF c.var_first THEN upTo(starts)
           ELSE every(starts, Max({1, (starts * 1000) \div (total * rate)}))
      ELSE IF ~c.var_first THEN every(total, Max({1, 1000 \div rate}))
           ELSE IF N(c) = 3 THEN upTo(total) ELSE 0

Sampled(c, rate) == [blocks |-> SampledBlocks(c, rate), fresh |-> TRUE]

InitTuning ==
  /\ given \in Inputs
  /\ conf = given
  /\ pc = "dispatch"
  /\ saved = [c \in {} |-> 0]
  /\ starts = 0 /\ samples = [blocks |-> 0, fresh |-> TRUE]
  /\ level = 0 /\ metas = <<>> /\ pair = <<1, 1>>
  /\ best = [useInterp |-> TRUE, list |-> <<>>, alpha |-> 100, beta |-> 100, frozen |-> 0]
  /\ trial = NoTrial /\ seen = <<>>

-----------------------------------------------------------------------------
(* Before the first trial.                                                 *)

\* What SZ_compress_Interp_lorenzo and Tuning switch off where there is nothing
\* to sample.
Disabled(c) ==
  [c EXCEPT !.autoTuningRate = 0, !.predictorTuningRate = 0, !.maxStep = 0,
            !.levelwise = 0, !.multiDimInterp = 0, !.freezeDimTest = FALSE,
            !.blockwiseTuning = FALSE, !.QoZ = 0]

\* The defaults of the levels of QoZ.
Defaults(c) ==
  LET or(x, default) == IF x > 0 THEN x ELSE default
      plane == N(c) <= 2
      c1 == IF c.QoZ = 0 THEN c
            ELSE [c EXCEPT !.profiling = TRUE,
                           !.autoTuningRate = or(@, IF plane THEN 10 ELSE 5),
                           !.predictorTuningRate = or(@, IF plane THEN 10 ELSE 5),
                           !.maxStep = or(@, <<256, 64, 32, 16>>[N(c)]),
                           !.levelwise = or(@, IF plane THEN 5 ELSE 4),
                           !.sampleBlockSize = or(@, IF plane THEN 64 ELSE 32)]
      c2 == IF c.QoZ < 2 THEN c1 ELSE [c1 EXCEPT !.multiDimInterp = 1, !.freezeDimTest = TRUE]
      c3 == IF c.QoZ < 4 THEN c2 ELSE [c2 EXCEPT !.crossBlock = TRUE, !.blockwiseTuning = TRUE]
  IN  [c3 EXCEPT !.testLorenzo = @ /\ ~c.smooth]

\* Only 2 and 3 dimensions are tuned.
Started(c) == Defaults(IF N(c) \in {2, 3} THEN c ELSE Disabled(c))

Start ==
  /\ pc = "tune"
  /\ conf' = Started(conf)
  /\ pc' = "size"
  /\ UNCHANGED <<given, saved, starts, samples, level, metas, best, pair, trial, seen>>

minimum_sbs == 8

\* A block must be shorter than the shortest edge, and no large part of the array.
TooLarge(c, size) ==
  \/ size >= Min(Edges(c.dims))
  \/ /\ c.autoTuningRate > 0
     /\ size >= 2 * minimum_sbs
     /\ 2000 * Elements(Cube(N(c), size + 1)) > 3 * c.autoTuningRate * c.num

Halved(c, size) ==
  Max({h \in {size \div Pow2[k] : k \in 0 .. CeilLog2(size + 1)} : ~TooLarge(c, h)})

\* Mutant: the levels are not capped by what a sample has.
Capped_NotBySample(c) == c

\* The level-wise selection is no longer than a sample has levels; without a
\* proper sample size nothing is tuned.
Capped(c) ==
  IF c.sampleBlockSize < minimum_sbs
  THEN [c EXCEPT !.autoTuningRate = 0, !.predictorTuningRate = 0]
  ELSE [c EXCEPT !.levelwise = Min({@, FloorLog2(c.sampleBlockSize)})]

\* max_interp_level, which leaves out the level of the anchors.
MaxInterpLevel(c) ==
  LET full == CeilLog2(Max(Edges(c.dims)))
  IN  IF c.maxStep = 0 THEN full ELSE Min({full, FloorLog2(c.maxStep)})

\* The size of the samples.  With an edge of 1 it is 0, and the blocks are counted
\* by dividing by it (an optimising compiler may leave the unused count out).
Size ==
  /\ pc = "size"
  /\ LET wanted == IF conf.sampleBlockSize > 0 THEN conf.sampleBlockSize
                   ELSE IF N(conf) = 2 THEN 64 ELSE 32
         size   == Halved(conf, Max({minimum_sbs, wanted}))
     IN  /\ conf' = Capped([conf EXCEPT
                              !.levelwise = IF conf.maxStep = 0 THEN @
                                            ELSE Min({@, MaxInterpLevel(conf)}),
                              !.sampleBlockSize = size])
         /\ pc' \in IF size = 0 THEN {"crashed", "profile"} ELSE {"profile"}
  /\ UNCHANGED <<given, saved, starts, samples, level, metas, best, pair, trial, seen>>

\* profiling_block_2d, _3d: any number of blocks may be too flat.  From here on
\* blockwiseTuning is put away.
Profile ==
  /\ pc = "profile"
  /\ LET profiled == conf.profiling /\ (conf.autoTuningRate > 0 \/ conf.predictorTuningRate > 0)
         total    == totalblock_num(conf)
     IN  starts' \in IF profiled THEN {0, 1, total} \cap 0 .. total ELSE {0}
  /\ conf' = [conf EXCEPT !.profiling = @ /\ starts' > 0, !.blockwiseTuning = FALSE]
  /\ saved' = [dims |-> conf.dims, num |-> conf.num, alpha |-> conf.alpha, beta |-> conf.beta,
               absErrorBound |-> conf.absErrorBound, blockwiseTuning |-> conf.blockwiseTuning]
  /\ pc' = IF conf.predictorTuningRate > 0 THEN "predictor" ELSE "sz3"
  /\ UNCHANGED <<given, samples, level, metas, best, pair, trial, seen>>

-----------------------------------------------------------------------------
(* Predictor tuning.                                                       *)

\* Mutant: num remains that of the array.
OnSample_NoNum(c) == [c EXCEPT !.dims = Cube(N(c), c.sampleBlockSize + 1)]

\* conf for the samples: one block is the array.
OnSample(c) ==
  LET block == Cube(N(c), c.sampleBlockSize + 1)
  IN  [c EXCEPT !.dims = block, !.num = Elements(block)]

\* setABwithRelBound, which goes by the relative bound.
PresetAB == {<<100, 100>>, <<125, 150>>, <<150, 200>>, <<175, 300>>, <<200, 200>>, <<200, 400>>}

PredictorStart ==
  /\ pc = "predictor"
  /\ samples' = Sampled(conf, conf.predictorTuningRate)
  /\ level' = conf.levelwise
  /\ \E ab \in PresetAB :
       conf' = IF conf.autoTuningRate > 0
               THEN [OnSample(conf) EXCEPT !.alpha = ab[1], !.beta = ab[2]]
               ELSE OnSample(conf)
  /\ pc' = IF conf.testLorenzo /\ conf.autoTuningRate = 0 THEN "lorenzo_cr"
           ELSE IF conf.levelwise > 0 THEN "levels" ELSE "flat"
  /\ UNCHANGED <<given, saved, starts, metas, best, pair, trial, seen>>

\* best_lorenzo_ratio, if this is the only tuning there will be.
LorenzoRatio ==
  /\ pc = "lorenzo_cr"
  /\ CompressTest("lorenzo_cr", conf, IF conf.levelwise > 0 THEN "levels" ELSE "flat")
  /\ UNCHANGED <<given, saved, conf, starts, samples, level, metas, best, pair, seen>>

\* The metas the loops try; only paradigm 0 has a direction in 2 dimensions.
LevelCandidates(c) ==
  {m \in [paradigm : 0 .. c.multiDimInterp, direction : {0, Factorial(N(c)) - 1}] :
     ~ ((m.paradigm = 1 \/ (m.paradigm = 2 /\ N(c) <= 2)) /\ m.direction # 0)}

\* The directions that leave out dimension d (counted from 0).
FrozenCandidates(c, d) ==
  {m \in [paradigm : 0 .. Min({1, c.multiDimInterp}), direction : {6 + 2 * d, 7 + 2 * d}] :
     ~ (m.paradigm >= 1 /\ m.direction % 2 # 0)}

\* Without level-wise selection.  The test of the code lacks parentheses and skips
\* paradigm 1 altogether.
FlatCandidates(c) ==
  {m \in [paradigm : 0 .. c.multiDimInterp, direction : {0, Factorial(N(c)) - 1}] :
     ~ (m.paradigm = 1 \/ (m.paradigm = 2 /\ N(c) <= 2 /\ m.direction # 0))}

\* The levels a trial of the level loop codes; the topmost takes all above along.
LevelRange(c) == CodedLevels(c, IF level = c.levelwise THEN 9999 ELSE level, level - 1)

\* The candidate the loops come to last.
LastOf(candidates) ==
  CHOOSE m \in candidates : \A o \in candidates :
    m.paradigm > o.paradigm \/ (m.paradigm = o.paradigm /\ m.direction >= o.direction)

\* One level: every candidate on every sample, in a copy.  With pdTuningRealComp
\* the winner then compresses the samples themselves, for the next level.
TryLevel(candidates) ==
  /\ level > 0
  /\ trial' = Trial("level", conf)
  /\ seen' = Append(seen, LevelRange(conf))
  /\ \E best_meta \in candidates :
       /\ metas' = <<best_meta>> \o metas
       /\ conf' = [conf EXCEPT !.interpMeta = IF conf.pdTuningRealComp THEN best_meta
                                             ELSE LastOf(candidates)]
  /\ samples' = [samples EXCEPT !.fresh = @ /\ ~conf.pdTuningRealComp]
  /\ level' = level - 1
  /\ UNCHANGED <<pc, given, saved, starts, best, pair>>

TuneLevel ==
  /\ pc = "levels"
  /\ TryLevel(LevelCandidates(conf))

\* Whether B-M tuning will go on with these samples.
Shared(c) == c.autoTuningRate > 0 /\ c.autoTuningRate = c.predictorTuningRate

\* Mutant: not, unless there are 3 dimensions.
LevelsDone_NotRecovered ==
  /\ pc = "levels"
  /\ level = 0
  /\ best' = [best EXCEPT !.list = metas]
  /\ samples' = IF conf.pdTuningRealComp /\ N(conf) = 3
                THEN Sampled([conf EXCEPT !.dims = saved.dims], conf.predictorTuningRate)
                ELSE samples
  /\ pc' = IF conf.freezeDimTest /\ N(conf) = 3 THEN "freeze" ELSE "levels_end"
  /\ UNCHANGED <<given, saved, conf, starts, level, metas, pair, trial, seen>>

\* The samples are read again if they have been overwritten and are still needed.
\* (adaptiveMultiDimStride is positive.)
LevelsDone ==
  /\ pc = "levels"
  /\ level = 0
  /\ best' = [best EXCEPT !.list = metas]
  /\ samples' = IF conf.pdTuningRealComp /\ (Shared(conf) \/ N(conf) = 3)
                THEN Sampled([conf EXCEPT !.dims = saved.dims], conf.predictorTuningRate)
                ELSE samples
  /\ pc' = IF conf.freezeDimTest /\ N(conf) = 3 THEN "freeze" ELSE "levels_end"
  /\ UNCHANGED <<given, saved, conf, starts, level, metas, pair, trial, seen>>

\* The metas found are measured once more, then a dimension is singled out and the
\* levels are tuned again without it.
Freeze ==
  /\ pc = "freeze"
  /\ CompressTest("freeze", conf, "freeze_levels")
  /\ \E frozen_dim \in 0 .. 2 : best' = [best EXCEPT !.frozen = frozen_dim]
  /\ level' = conf.levelwise
  /\ metas' = <<>>
  /\ seen' = <<>>
  /\ UNCHANGED <<given, saved, conf, starts, samples, pair>>

FreezeLevel ==
  /\ pc = "freeze_levels"
  /\ TryLevel(FrozenCandidates(conf, best.frozen))

\* Mutant: the metas of a dimension that is not frozen are kept.
FreezeDone_KeepsMetas ==
  /\ pc = "freeze_levels"
  /\ level = 0
  /\ CompressTest("freeze", conf, "levels_end")
  /\ best' = [best EXCEPT !.list = metas]
  /\ \/ UNCHANGED conf
     \/ conf' = [conf EXCEPT !.frozen_dim = best.frozen]
  /\ samples' = IF conf.pdTuningRealComp /\ Shared(conf)
                THEN Sampled([conf EXCEPT !.dims = saved.dims], conf.predictorTuningRate)
                ELSE samples
  /\ UNCHANGED <<given, saved, starts, level, metas, pair, seen>>

\* Frozen or not, by the size of the two streams.
FreezeDone ==
  /\ pc = "freeze_levels"
  /\ level = 0
  /\ CompressTest("freeze", conf, "levels_end")
  /\ \/ UNCHANGED <<conf, best>>
     \/ /\ conf' = [conf EXCEPT !.frozen_dim = best.frozen]
        /\ best' = [best EXCEPT !.list = metas]
  /\ samples' = IF conf.pdTuningRealComp /\ Shared(conf)
                THEN Sampled([conf EXCEPT !.dims = saved.dims], conf.predictorTuningRate)
                ELSE samples
  /\ UNCHANGED <<given, saved, starts, level, metas, pair, seen>>

\* The list is settled; without B-M tuning it is measured against Lorenzo.
LevelsEnd ==
  /\ pc = "levels_end"
  /\ conf' = [conf EXCEPT !.interpMeta_list = best.list]
  /\ IF conf.autoTuningRate = 0
     THEN CompressTest("levels_end", conf', "restore")
     ELSE pc' = "restore" /\ UNCHANGED trial
  /\ metas' = <<>> /\ seen' = <<>>
  /\ best' = [best EXCEPT !.list = <<>>, !.frozen = 0]
  /\ UNCHANGED <<given, saved, starts, samples, level, pair>>

\* One meta for all levels.
TuneFlat ==
  /\ pc = "flat"
  /\ CompressTest("flat", conf, "restore")
  /\ \E best_meta \in FlatCandidates(conf) : conf' = [conf EXCEPT !.interpMeta = best_meta]
  /\ UNCHANGED <<given, saved, starts, samples, level, metas, best, pair, seen>>

\* Mutant: num is left at the size of a sample.
Restored_NoNum(c) ==
  [c EXCEPT !.dims = saved.dims, !.absErrorBound = saved.absErrorBound,
            !.alpha = saved.alpha, !.beta = saved.beta]

Restored(c) ==
  [c EXCEPT !.dims = saved.dims, !.num = saved.num, !.absErrorBound = saved.absErrorBound,
            !.alpha = saved.alpha, !.beta = saved.beta]

\* The better of interpolation and Lorenzo, if Lorenzo has been measured.
Restore ==
  /\ pc = "restore"
  /\ conf' = Restored(conf)
  /\ \E useInterp \in IF conf.testLorenzo /\ conf.autoTuningRate = 0 THEN BOOLEAN ELSE {TRUE} :
       best' = [best EXCEPT !.useInterp = useInterp]
  /\ pc' = "bm"
  /\ UNCHANGED <<given, saved, starts, samples, level, metas, pair, trial, seen>>

\* sampling of Extraction.hpp: a small array is taken whole (and not tried), and
\* any may be if too much of it would be sampled.
MayExtract(c) == IF Min(Edges(c.dims)) < 18 THEN {FALSE} ELSE BOOLEAN

\* Without a rate: the method of SZ3, on extracted data of its own.
TuneSz3 ==
  /\ pc = "sz3"
  /\ \E extracted \in MayExtract(conf) :
       IF ~extracted THEN UNCHANGED <<conf, best>>
       ELSE \E d \in {conf.interpMeta.direction, Factorial(N(conf)) - 1}, useInterp \in BOOLEAN :
              /\ conf' = [conf EXCEPT !.interpMeta.direction = d]
              /\ best' = [best EXCEPT !.useInterp = useInterp]
  /\ pc' = "bm"
  /\ UNCHANGED <<given, saved, starts, samples, level, metas, pair, trial, seen>>

-----------------------------------------------------------------------------
(* B-M tuning: alpha and beta, which shrink the bound of the coarse levels. *)

alpha_list(c) == IF c.tuningTarget = "CR" THEN <<-100, 100, 125, 150, 175, 200>>
                 ELSE <<100, 125, 150, 175, 200>>
beta_list(c)  == IF c.tuningTarget = "CR" THEN <<-100, 150, 200, 300>>
                 ELSE <<150, 200, 300, 400>>

\* The samples of predictor tuning serve again if the rate is the same.
BmStart ==
  /\ pc = "bm"
  /\ best.useInterp /\ conf.autoTuningRate > 0
  /\ samples' = IF conf.autoTuningRate = conf.predictorTuningRate THEN samples
                ELSE Sampled(conf, conf.autoTuningRate)
  /\ conf' = OnSample(conf)
  /\ saved' = [saved EXCEPT !.absErrorBound = conf.absErrorBound]
  /\ best' = [best EXCEPT !.alpha = 100, !.beta = 100]
  /\ pair' = <<1, 1>>
  /\ pc' = "bm_loop"
  /\ UNCHANGED <<given, starts, level, metas, trial, seen>>

\* Without B-M tuning alpha and beta go by the relative bound, if at all.
BmPreset ==
  /\ pc = "bm"
  /\ ~ (best.useInterp /\ conf.autoTuningRate > 0)
  /\ IF best.useInterp /\ conf.QoZ > 0
     THEN \E ab \in PresetAB : conf' = [conf EXCEPT !.alpha = ab[1], !.beta = ab[2]]
     ELSE UNCHANGED conf
  /\ pc' = "finish"
  /\ UNCHANGED <<given, saved, starts, samples, level, metas, best, pair, trial, seen>>

NextAlpha(p) == <<p[1] + 1, 1>>
NextOf(p)    == IF p[2] = Len(beta_list(conf)) THEN NextAlpha(p) ELSE <<p[1], p[2] + 1>>

\* Mutant: every combination.
Skipped_None(alpha, beta) == FALSE

\* beta is a ceiling of alpha^(level - 1), and -1 stands for the rule of SZ3.
Skipped(alpha, beta) == (alpha >= 100 /\ alpha > beta) \/ (alpha < 0 /\ beta # -100)

\* alpha^k, cut off above all of beta_list.
Power(alpha) ==
  LET power[k \in Nat] == IF k = 0 THEN 100 ELSE Min({1000, (alpha * power[k - 1]) \div 100})
  IN  power

\* A larger beta would change nothing.
Saturated(alpha, beta) ==
  LET levels == MaxInterpLevel([conf EXCEPT !.dims = saved.dims]) - 1
  IN  IF alpha >= 100 THEN Power(alpha)[levels] <= beta ELSE alpha * levels <= beta

BmPair ==
  /\ pc = "bm_loop"
  /\ pair[1] <= Len(alpha_list(conf))
  /\ LET alpha == alpha_list(conf)[pair[1]]
         beta  == beta_list(conf)[pair[2]]
         tried == [conf EXCEPT !.absErrorBound = saved.absErrorBound,
                               !.alpha = alpha, !.beta = beta]
         after == IF Saturated(alpha, beta) THEN NextAlpha(pair) ELSE NextOf(pair)
     IN  IF Skipped(alpha, beta)
         THEN /\ pair' = NextOf(pair)
              /\ conf' = [conf EXCEPT !.absErrorBound = saved.absErrorBound]
              /\ UNCHANGED <<pc, best, trial>>
         ELSE \/ /\ CompressTest("bm", tried, "bm_loop")              \* better
                 /\ best' = [best EXCEPT !.alpha = alpha, !.beta = beta]
                 /\ pair' = after /\ conf' = tried
              \/ /\ CompressTest("bm", tried, "bm_loop")              \* worse
                 /\ pair' = after /\ conf' = tried
                 /\ UNCHANGED best
              \/ /\ conf.tuningTarget # "CR"                          \* neither
                 /\ CompressTest("bm", tried, "bm_scaled")
                 /\ conf' = [tried EXCEPT !.absErrorBound = 2 * @]
                 /\ UNCHANGED <<best, pair>>
  /\ UNCHANGED <<given, saved, starts, samples, level, metas, seen>>

\* Mutant: the pair is tried again.
BmScaled_Again ==
  /\ pc = "bm_scaled"
  /\ CompressTest("bm_scaled", conf, "bm_loop")
  /\ conf' = [conf EXCEPT !.absErrorBound = saved.absErrorBound]
  /\ UNCHANGED <<given, saved, starts, samples, level, metas, best, pair, seen>>

\* One gains in rate what the other does in quality: a second point of the curve, at
\* a bound scaled by the rates, decides.
BmScaled ==
  /\ pc = "bm_scaled"
  /\ CompressTest("bm_scaled", conf, "bm_loop")
  /\ conf' = [conf EXCEPT !.absErrorBound = saved.absErrorBound]
  /\ \/ UNCHANGED best
     \/ best' = [best EXCEPT !.alpha = conf.alpha, !.beta = conf.beta]
  /\ pair' = IF Saturated(conf.alpha, conf.beta) THEN NextAlpha(pair) ELSE NextOf(pair)
  /\ UNCHANGED <<given, saved, starts, samples, level, metas, seen>>

BmLoopDone ==
  /\ pc = "bm_loop"
  /\ pair[1] > Len(alpha_list(conf))
  /\ conf' = [conf EXCEPT !.absErrorBound = saved.absErrorBound]
  /\ pc' = IF conf.testLorenzo THEN "bm_lorenzo" ELSE "bm_end"
  /\ UNCHANGED <<given, saved, starts, samples, level, metas, best, pair, trial, seen>>

\* Lorenzo against the best alpha and beta, with the second point where it takes one.
BmLorenzo ==
  /\ pc = "bm_lorenzo"
  /\ CompressTest("bm_lorenzo", conf, "bm_end")
  /\ best' \in {[best EXCEPT !.useInterp = FALSE, !.alpha = -100, !.beta = -100],
                [best EXCEPT !.useInterp = TRUE]}
  /\ UNCHANGED <<given, saved, conf, starts, samples, level, metas, pair, seen>>

BmEnd ==
  /\ pc = "bm_end"
  /\ conf' = [conf EXCEPT !.absErrorBound = saved.absErrorBound, !.dims = saved.dims,
                          !.num = saved.num, !.alpha = best.alpha, !.beta = best.beta]
  /\ pc' = "finish"
  /\ UNCHANGED <<given, saved, starts, samples, level, metas, best, pair, trial, seen>>

Finish ==
  /\ pc = "finish"
  /\ conf' = [conf EXCEPT !.blockwiseTuning = saved.blockwiseTuning,
                          !.cmprAlgo = IF best.useInterp THEN "INTERP" ELSE "LORENZO_REG"]
  /\ pc' = IF best.useInterp THEN "compress" ELSE "lorenzo"
  /\ UNCHANGED <<given, saved, starts, samples, level, metas, best, pair, trial, seen>>

-----------------------------------------------------------------------------
(* Lorenzo has won.                                                        *)

SetDims(c, dims) ==
  [c EXCEPT !.dims = dims, !.num = Elements(dims), !.pred_dim = Len(dims),
            !.blockSize = CASE Len(dims) = 1 -> 128 [] Len(dims) = 2 -> 16 [] OTHER -> 6]

\* Extracted data serve to choose the number of bins (in 3 dimensions and for small
\* bounds) and pred_dim; setDims, back to those of the array, undoes the latter and
\* blockSize.
LorenzoTuned(c, extracted) ==
  LET c1 == [c EXCEPT !.methods = {"lorenzo", "lorenzo2"}, !.blockSize = 5]
      optimized == IF N(c) = 3 THEN 4096 ELSE c.quantbinCnt
  IN  IF ~extracted THEN {c1}
      ELSE {SetDims([c1 EXCEPT !.quantbinCnt = q], c.dims) : q \in {optimized, 16384}}

LorenzoTune ==
  /\ pc = "lorenzo"
  /\ \E extracted \in MayExtract(conf) : conf' \in LorenzoTuned(conf, extracted)
  /\ pc' = "compress"
  /\ UNCHANGED <<given, saved, starts, samples, level, metas, best, pair, trial, seen>>

-----------------------------------------------------------------------------
Tune ==
  \/ Start \/ Size \/ Profile
  \/ PredictorStart \/ LorenzoRatio \/ TuneLevel \/ LevelsDone
  \/ Freeze \/ FreezeLevel \/ FreezeDone \/ LevelsEnd \/ TuneFlat \/ Restore \/ TuneSz3
  \/ BmStart \/ BmPreset \/ BmPair \/ BmScaled \/ BmLoopDone \/ BmLorenzo \/ BmEnd \/ Finish
  \/ LorenzoTune
===============================================================================
