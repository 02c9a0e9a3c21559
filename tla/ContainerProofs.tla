---------------------------- MODULE ContainerProofs ----------------------------
(***************************************************************************)
(* The safety properties of Container, for every input and every caller.   *)
(*                                                                         *)
(* The argument is in layers, each with its own step lemma, which may use  *)
(* those below it:                                                         *)
(*   Shape     the records have their fields                               *)
(*   Lent      what conf lends to the samples, and where that is kept      *)
(*   FreshInv  whether the samples are the input or their reconstruction   *)
(*   Sized     numbers are numbers, and a sample fits into the data        *)
(*   Rates     predictor and B-M tuning run at a rate only                 *)
(*   Written   what has been written is what conf says                     *)
(*   Looped    the levels the loop has tried, down to where it is          *)
(*   Sampling  how many blocks have been sampled                           *)
(*   Divided   alpha and beta never loosen a bound                         *)
(*   Selected  metas and the frozen dimension, taken or left together      *)
(* GivenBack needs Shape and Lent; FreshForBm, Shape and FreshInv;         *)
(* DecoderBuilds and NoLooserBound, Written besides, the latter Divided    *)
(* too; LevelsOnce, Looped over Sized and Rates; TrialsOnSamples, Sampling *)
(* over these and FreshInv; MetasFit, Selected over these and Written.     *)
(* An invariant is proved of Next in two parts, the actions of Tune and    *)
(* those of the container.                                                 *)
(***************************************************************************)
EXTENDS Container, NumberLemmas

-----------------------------------------------------------------------------
(* Powers of two, and how many of them a length has room for.              *)

\* Pow2 is what its recursive definition says.
LEMMA Pow2Is ==
  /\ Pow2 \in [Nat -> Nat]
  /\ Pow2[0] = 1
  /\ \A n \in Nat : Pow2[n + 1] = 2 * Pow2[n]
<1> DEFINE step == [n \in Nat |-> [x \in Nat |-> 2 * x]]
<1>1. step \in [Nat -> [Nat -> Nat]] /\ 1 \in Nat
  OBVIOUS
<1>2. \A n \in Nat, x \in Nat : step[n][x] = 2 * x
  OBVIOUS
<1> HIDE DEF step
<1>3. PICK f \in [Nat -> Nat] : \A n \in Nat : f[n] = IF n = 0 THEN 1 ELSE step[n][f[n - 1]]
  BY <1>1, Recursion, Zenon
<1>4. \A n \in Nat : f[n] = IF n = 0 THEN 1 ELSE 2 * f[n - 1]
  <2> SUFFICES ASSUME NEW n \in Nat PROVE f[n] = IF n = 0 THEN 1 ELSE 2 * f[n - 1]
    OBVIOUS
  <2>1. n # 0 => n - 1 \in Nat /\ f[n - 1] \in Nat
    BY <1>3
  <2> QED
    BY <1>2, <1>3, <2>1
<1>5. f = [n \in Nat |-> IF n = 0 THEN 1 ELSE 2 * f[n - 1]]
  BY <1>3, <1>4
<1>6. Pow2 = [n \in Nat |-> IF n = 0 THEN 1 ELSE 2 * Pow2[n - 1]]
  BY <1>5 DEF Pow2
<1>7. /\ DOMAIN Pow2 = Nat
      /\ \A n \in Nat : Pow2[n] = IF n = 0 THEN 1 ELSE 2 * Pow2[n - 1]
  BY <1>6
<1>8. \A n \in Nat : Pow2[n] \in Nat
  <2> DEFINE T == {n \in Nat : Pow2[n] \notin Nat}
  <2>1. SUFFICES ASSUME T # {} PROVE FALSE
    OBVIOUS
  <2>2. PICK n \in T : \A y \in T : n <= y
    BY <2>1, Least
  <2>3. n # 0
    BY <1>7, <2>2
  <2>4. n - 1 \in Nat /\ ~(n <= n - 1)
    BY <2>3
  <2>5. Pow2[n - 1] \in Nat
    BY <2>2, <2>4
  <2> QED
    BY <1>7, <2>2, <2>3, <2>5
<1>9. \A n \in Nat : n + 1 \in Nat /\ n + 1 # 0 /\ (n + 1) - 1 = n
  OBVIOUS
<1> QED
  BY <1>6, <1>7, <1>8, <1>9

\* A power of two is larger than its exponent.
LEMMA Pow2Exceeds ==
  ASSUME NEW n \in Nat
  PROVE  Pow2[n] > n
<1> DEFINE T == {k \in Nat : ~(Pow2[k] > k)}
<1>1. SUFFICES ASSUME T # {} PROVE FALSE
  OBVIOUS
<1>2. PICK k \in T : \A y \in T : k <= y
  BY <1>1, Least
<1>3. k # 0
  BY <1>2, Pow2Is
<1>4. k - 1 \in Nat /\ ~(k <= k - 1) /\ (k - 1) + 1 = k
  BY <1>3
<1>5. Pow2[k - 1] > k - 1
  BY <1>2, <1>4
<1>6. Pow2[k] = 2 * Pow2[k - 1] /\ Pow2[k - 1] \in Nat
  BY <1>4, Pow2Is
<1> QED
  BY <1>2, <1>3, <1>5, <1>6

\* Powers of two grow with the exponent.
LEMMA Pow2Grows ==
  ASSUME NEW m \in Nat, NEW n \in Nat, m <= n
  PROVE  Pow2[m] <= Pow2[n]
<1> DEFINE T == {k \in Nat : m <= k /\ ~(Pow2[m] <= Pow2[k])}
<1>1. SUFFICES ASSUME T # {} PROVE FALSE
  OBVIOUS
<1>2. PICK k \in T : \A y \in T : k <= y
  BY <1>1, Least
<1>3. k # m
  BY <1>2, Pow2Is
<1>4. k - 1 \in Nat /\ m <= k - 1 /\ ~(k <= k - 1) /\ (k - 1) + 1 = k
  BY <1>2, <1>3
<1>5. Pow2[m] <= Pow2[k - 1]
  BY <1>2, <1>4
<1>6. Pow2[k] = 2 * Pow2[k - 1] /\ Pow2[k - 1] \in Nat /\ Pow2[m] \in Nat
  BY <1>4, Pow2Is
<1> QED
  BY <1>2, <1>5, <1>6

\* ceil(log2(x)): the least exponent that reaches x.
LEMMA CeilLog2Is ==
  ASSUME NEW x \in Nat \ {0}
  PROVE  /\ CeilLog2(x) \in Nat
         /\ Pow2[CeilLog2(x)] >= x
         /\ CeilLog2(x) = 0 \/ Pow2[CeilLog2(x) - 1] < x
<1> DEFINE T == {k \in Nat : Pow2[k] >= x}
           P(k) == Pow2[k] >= x /\ (k = 0 \/ Pow2[k - 1] < x)
<1>1. x \in T
  BY Pow2Exceeds, Pow2Is
<1>2. PICK k \in T : \A y \in T : k <= y
  BY <1>1, Least
<1>3. k \in 0 .. x
  BY <1>1, <1>2
<1>4. P(k)
  <2>1. CASE k # 0
    <3>1. k - 1 \in Nat /\ ~(k <= k - 1)
      BY <2>1
    <3>2. ~(Pow2[k - 1] >= x) /\ Pow2[k - 1] \in Nat
      BY <1>2, <3>1, Pow2Is
    <3> QED
      BY <1>2, <3>2
  <2> QED
    BY <1>2, <2>1
<1>5. CeilLog2(x) \in 0 .. x /\ P(CeilLog2(x))
  BY <1>3, <1>4, Zenon DEF CeilLog2
<1> QED
  BY <1>5

\* floor(log2(x)): the last exponent that stays within x.
LEMMA FloorLog2Is ==
  ASSUME NEW x \in Nat \ {0}
  PROVE  /\ FloorLog2(x) \in Nat
         /\ Pow2[FloorLog2(x)] <= x
         /\ x < Pow2[FloorLog2(x) + 1]
<1> DEFINE T == {k \in Nat : x < Pow2[k + 1]}
           P(k) == Pow2[k] <= x /\ x < Pow2[k + 1]
<1>1. x \in T
  <2>1. Pow2[x + 1] > x + 1 /\ Pow2[x + 1] \in Nat
    BY Pow2Exceeds, Pow2Is
  <2> QED
    BY <2>1
<1>2. PICK k \in T : \A y \in T : k <= y
  BY <1>1, Least
<1>3. k \in 0 .. x
  BY <1>1, <1>2
<1>4. P(k)
  <2>1. CASE k = 0
    BY <1>2, <2>1, Pow2Is
  <2>2. CASE k # 0
    <3>1. k - 1 \in Nat /\ ~(k <= k - 1) /\ (k - 1) + 1 = k
      BY <2>2
    <3>2. ~(x < Pow2[k]) /\ Pow2[k] \in Nat
      BY <1>2, <3>1, Pow2Is
    <3> QED
      BY <1>2, <3>2
  <2> QED
    BY <2>1, <2>2
<1>5. FloorLog2(x) \in 0 .. x /\ P(FloorLog2(x))
  BY <1>3, <1>4, Zenon DEF FloorLog2
<1> QED
  BY <1>5

\* A sample of size points and the one behind has one level more than size has.
LEMMA LogsAgree ==
  ASSUME NEW x \in Nat \ {0}
  PROVE  CeilLog2(x + 1) = FloorLog2(x) + 1
<1> DEFINE c == CeilLog2(x + 1)
           f == FloorLog2(x)
<1>1. /\ f \in Nat /\ Pow2[f] <= x /\ x < Pow2[f + 1]
  BY FloorLog2Is
<1>2. c \in Nat /\ Pow2[c] >= x + 1 /\ (c = 0 \/ Pow2[c - 1] < x + 1)
  <2>1. x + 1 \in Nat \ {0}
    OBVIOUS
  <2> QED
    BY <2>1, CeilLog2Is
<1> HIDE DEF c, f
<1>3. ~(c <= f)
  <2>1. ASSUME c <= f PROVE FALSE
    <3>1. Pow2[c] <= Pow2[f] /\ Pow2[c] \in Nat /\ Pow2[f] \in Nat
      BY <1>1, <1>2, <2>1, Pow2Grows, Pow2Is
    <3> QED
      BY <1>1, <1>2, <3>1
  <2> QED
    BY <2>1
<1>4. ~(c > f + 1)
  <2>1. ASSUME c > f + 1 PROVE FALSE
    <3>1. c - 1 \in Nat /\ f + 1 \in Nat /\ f + 1 <= c - 1
      BY <1>1, <1>2, <2>1
    <3>2. Pow2[f + 1] <= Pow2[c - 1] /\ Pow2[f + 1] \in Nat /\ Pow2[c - 1] \in Nat
      BY <3>1, Pow2Grows, Pow2Is
    <3> QED
      BY <1>1, <1>2, <2>1, <3>2
  <2> QED
    BY <2>1
<1>5. c = f + 1
  BY <1>1, <1>2, <1>3, <1>4
<1> QED
  BY <1>5 DEF c, f

-----------------------------------------------------------------------------
(* Control, and what conf is at each place of it.                          *)

\* Where conf describes a sample, and where the array although conf is being tuned.
OnSamples ==
  {"lorenzo_cr", "levels", "freeze", "freeze_levels", "levels_end", "flat", "restore",
   "bm_loop", "bm_scaled", "bm_lorenzo", "bm_end"}

\* Where the tuning is between two uses of the samples.
Between == {"predictor", "sz3", "bm", "finish"}

\* Where the tuning is over.
Settled == {"compress", "save", "stored", "decoded"}

\* The records have their fields.
Shape ==
  /\ given \in Inputs
  /\ DOMAIN conf = ConfigFields
  /\ pc \in OnSamples \cup Between \cup {"lorenzo"} =>
       DOMAIN saved = {"dims", "num", "alpha", "beta", "absErrorBound", "blockwiseTuning"}
  /\ DOMAIN best = {"useInterp", "list", "alpha", "beta", "frozen"}
  /\ DOMAIN samples = {"blocks", "fresh"}

\* What conf lends to the samples, where it lends it and where that is kept.
Lent ==
  /\ pc \in {"tune", "size", "profile", "lorenzo"} \cup OnSamples \cup Between =>
       given.cmprAlgo = "INTERP_LORENZO"
  /\ pc = "dispatch" => conf = given
  /\ pc = "tune" =>
       conf = [given EXCEPT !.absErrorBound = AbsBound(given), !.errorBoundMode = "ABS"]
  /\ pc \in {"size", "profile", "lorenzo"} \cup Between \cup Settled =>
       /\ conf.dims = given.dims /\ conf.num = given.num
       /\ conf.absErrorBound = AbsBound(given)
  /\ pc \in {"size", "profile", "lorenzo"} => conf.blockwiseTuning = Started(given).blockwiseTuning
  /\ pc \in Settled /\ given.cmprAlgo = "INTERP_LORENZO" =>
       conf.blockwiseTuning = Started(given).blockwiseTuning
  /\ pc \in OnSamples =>
       /\ conf.dims = Cube(N(given), conf.sampleBlockSize + 1)
       /\ conf.num = Elements(conf.dims)
  /\ pc \in OnSamples \cup Between =>
       /\ conf.blockwiseTuning = FALSE
       /\ saved.dims = given.dims /\ saved.num = given.num
       /\ saved.absErrorBound = AbsBound(given)
       /\ saved.blockwiseTuning = Started(given).blockwiseTuning

\* Nothing has been given up or made up at the start.
LEMMA ShapeInit == Init => Shape
BY InputsAssumption DEF Init, InitTuning, Shape, IsInput, OnSamples, Between

\* Nothing is lent at the start.
LEMMA LentInit == Init => Lent
BY DEF Init, InitTuning, Lent, OnSamples, Between, Settled

\* The presets of QoZ leave the input's description alone.
LEMMA DefaultsKeep ==
  ASSUME NEW c, DOMAIN c = ConfigFields
  PROVE  LET d == Defaults(c)
         IN  /\ DOMAIN d = ConfigFields
             /\ d.dims = c.dims /\ d.num = c.num /\ d.absErrorBound = c.absErrorBound
             /\ c.QoZ < 4 => d.blockwiseTuning = c.blockwiseTuning
             /\ ~(c.QoZ < 4) => d.blockwiseTuning = TRUE
<1>1. /\ DOMAIN Defaults(c) = ConfigFields
      /\ Defaults(c).dims = c.dims /\ Defaults(c).num = c.num
      /\ Defaults(c).absErrorBound = c.absErrorBound
      /\ Defaults(c).blockwiseTuning = (IF c.QoZ < 4 THEN c.blockwiseTuning ELSE TRUE)
  BY SMTT(60) DEF Defaults, ConfigFields
<1> QED
  BY <1>1, Zenon

\* So does the branch that switches the tuning off.
LEMMA DisabledKeep ==
  ASSUME NEW c, DOMAIN c = ConfigFields
  PROVE  LET d == Disabled(c)
         IN  /\ DOMAIN d = ConfigFields
             /\ d.dims = c.dims /\ d.num = c.num /\ d.absErrorBound = c.absErrorBound
             /\ d.blockwiseTuning = FALSE /\ d.QoZ = 0
BY DEF Disabled, ConfigFields

\* Start sets neither the array nor the bound, and blockwiseTuning to what is wanted.
LEMMA StartedKeep ==
  ASSUME NEW g, DOMAIN g = ConfigFields, NEW c, DOMAIN c = ConfigFields,
         \A f \in ConfigFields \ {"absErrorBound", "errorBoundMode"} : c[f] = g[f]
  PROVE  /\ DOMAIN Started(c) = ConfigFields
         /\ Started(c).dims = g.dims /\ Started(c).num = g.num
         /\ Started(c).absErrorBound = c.absErrorBound
         /\ Started(c).blockwiseTuning = Started(g).blockwiseTuning
<1>1. /\ c.dims = g.dims /\ c.num = g.num
      /\ c.QoZ = g.QoZ /\ c.blockwiseTuning = g.blockwiseTuning
  BY DEF ConfigFields
<1>2. N(c) = N(g)
  BY <1>1 DEF N
<1>3. CASE N(g) \in {2, 3}
  <2>1. Started(g) = Defaults(g) /\ Started(c) = Defaults(c)
    BY <1>2, <1>3 DEF Started
  <2>2. Defaults(c).blockwiseTuning = Defaults(g).blockwiseTuning
    BY <1>1, DefaultsKeep
  <2> QED
    BY <1>1, <2>1, <2>2, DefaultsKeep
<1>4. CASE N(g) \notin {2, 3}
  <2> PICK dg : dg = Disabled(g)
    OBVIOUS
  <2> PICK dc : dc = Disabled(c)
    OBVIOUS
  <2>1. Started(g) = Defaults(dg) /\ Started(c) = Defaults(dc)
    BY <1>2, <1>4 DEF Started
  <2>2. DOMAIN dg = ConfigFields /\ dg.QoZ = 0 /\ dg.blockwiseTuning = FALSE
    BY DisabledKeep
  <2>3. /\ DOMAIN dc = ConfigFields /\ dc.QoZ = 0 /\ dc.blockwiseTuning = FALSE
        /\ dc.dims = c.dims /\ dc.num = c.num /\ dc.absErrorBound = c.absErrorBound
    BY DisabledKeep
  <2>4. dg.QoZ < 4 /\ dc.QoZ < 4
    BY <2>2, <2>3
  <2>5. Defaults(dg).blockwiseTuning = FALSE
    BY <2>2, <2>4, DefaultsKeep, Zenon
  <2>6. /\ DOMAIN Defaults(dc) = ConfigFields
        /\ Defaults(dc).dims = c.dims /\ Defaults(dc).num = c.num
        /\ Defaults(dc).absErrorBound = c.absErrorBound
        /\ Defaults(dc).blockwiseTuning = FALSE
    BY <2>3, <2>4, DefaultsKeep, Zenon
  <2> QED
    BY <1>1, <2>1, <2>5, <2>6
<1> QED
  BY <1>3, <1>4

\* setDims with the dimensions at hand changes what it derives from them.
LEMMA SetDimsKeep ==
  ASSUME NEW c, DOMAIN c = ConfigFields
  PROVE  LET d == SetDims(c, c.dims)
         IN  /\ DOMAIN d = ConfigFields
             /\ d.dims = c.dims /\ d.num = Elements(c.dims)
             /\ \A f \in ConfigFields \ {"num", "pred_dim", "blockSize"} : d[f] = c[f]
BY DEF SetDims, ConfigFields

\* The trials of the Lorenzo branch end with the input's own dimensions.
LEMMA LorenzoTunedKeep ==
  ASSUME NEW c, DOMAIN c = ConfigFields, NEW e \in BOOLEAN, NEW d \in LorenzoTuned(c, e)
  PROVE  /\ DOMAIN d = ConfigFields
         /\ d.dims = c.dims /\ d.num \in {c.num, Elements(c.dims)}
         /\ \A f \in ConfigFields \ {"num", "pred_dim", "blockSize", "methods", "quantbinCnt"} :
              d[f] = c[f]
<1> DEFINE c1 == [c EXCEPT !.methods = {"lorenzo", "lorenzo2"}, !.blockSize = 5]
<1>1. DOMAIN c1 = ConfigFields /\ \A f \in ConfigFields \ {"methods", "blockSize"} : c1[f] = c[f]
  BY DEF ConfigFields
<1>2. CASE d = c1
  BY <1>1, <1>2 DEF ConfigFields
<1>3. CASE \E q : d = SetDims([c1 EXCEPT !.quantbinCnt = q], c.dims)
  <2>1. PICK q : d = SetDims([c1 EXCEPT !.quantbinCnt = q], c.dims)
    BY <1>3
  <2> DEFINE c2 == [c1 EXCEPT !.quantbinCnt = q]
  <2>2. /\ DOMAIN c2 = ConfigFields
        /\ \A f \in ConfigFields \ {"methods", "blockSize", "quantbinCnt"} : c2[f] = c[f]
    BY <1>1 DEF ConfigFields
  <2> HIDE DEF c1, c2
  <2>3. c2.dims = c.dims
    BY <2>2 DEF ConfigFields
  <2>4. d = SetDims(c2, c2.dims)
    BY <2>1, <2>3 DEF c2
  <2>5. /\ DOMAIN d = ConfigFields
        /\ d.dims = c2.dims /\ d.num = Elements(c2.dims)
        /\ \A f \in ConfigFields \ {"num", "pred_dim", "blockSize"} : d[f] = c2[f]
    BY <2>2, <2>4, SetDimsKeep
  <2> QED
    BY <2>2, <2>3, <2>5 DEF ConfigFields
<1>4. d = c1 \/ \E q : d = SetDims([c1 EXCEPT !.quantbinCnt = q], c.dims)
  <2> HIDE DEF c1
  <2> DEFINE bins == {IF N(c) = 3 THEN 4096 ELSE c.quantbinCnt, 16384}
  <2>1. LorenzoTuned(c, e) = IF ~e THEN {c1}
                             ELSE {SetDims([c1 EXCEPT !.quantbinCnt = q], c.dims) : q \in bins}
    BY DEF LorenzoTuned, c1
  <2> HIDE DEF bins
  <2>2. CASE ~e
    BY <2>1, <2>2
  <2>3. CASE e
    <3>1. d \in {SetDims([c1 EXCEPT !.quantbinCnt = q], c.dims) : q \in bins}
      BY <2>1, <2>3, Zenon
    <3> QED
      BY <3>1
  <2> QED
    BY <2>2, <2>3
<1> QED
  BY <1>2, <1>3, <1>4

\* A sample is a cube with room for one more point than its block size.
LEMMA OnSampleKeep ==
  ASSUME NEW c, DOMAIN c = ConfigFields
  PROVE  LET d == OnSample(c)
         IN  /\ DOMAIN d = ConfigFields
             /\ d.dims = Cube(N(c), c.sampleBlockSize + 1) /\ d.num = Elements(d.dims)
             /\ \A f \in ConfigFields \ {"dims", "num"} : d[f] = c[f]
BY DEF OnSample, ConfigFields

\* Every step keeps the fields there are and the places of control.
LEMMA ShapeNext == Shape /\ [Next]_vars => Shape'
<1> SUFFICES ASSUME Shape, [Next]_vars PROVE Shape'
  OBVIOUS
<1> USE DEF Shape, OnSamples, Between, ConfigFields
<1>1. CASE Start
  BY <1>1, DefaultsKeep, DisabledKeep DEF Start, Started
<1>2. CASE Size
  BY <1>2 DEF Size, Capped
<1>3. CASE Profile
  BY <1>3 DEF Profile
<1>4. CASE PredictorStart
  BY <1>4 DEF PredictorStart, OnSample, Sampled
<1>5. CASE LorenzoRatio
  BY <1>5 DEF LorenzoRatio, CompressTest
<1>6. CASE TuneLevel
  BY <1>6 DEF TuneLevel, TryLevel
<1>7. CASE LevelsDone
  BY <1>7 DEF LevelsDone, Sampled
<1>8. CASE Freeze
  BY <1>8 DEF Freeze, CompressTest
<1>9. CASE FreezeLevel
  BY <1>9 DEF FreezeLevel, TryLevel
<1>10. CASE FreezeDone
  BY <1>10 DEF FreezeDone, CompressTest, Sampled
<1>11. CASE LevelsEnd
  BY <1>11 DEF LevelsEnd, CompressTest
<1>12. CASE TuneFlat
  BY <1>12 DEF TuneFlat, CompressTest
<1>13. CASE Restore
  BY <1>13 DEF Restore, Restored
<1>14. CASE TuneSz3
  BY <1>14 DEF TuneSz3
<1>15. CASE BmStart
  BY <1>15 DEF BmStart, OnSample, Sampled
<1>16. CASE BmPreset
  BY <1>16 DEF BmPreset
<1>17. CASE BmPair
  BY <1>17 DEF BmPair, CompressTest
<1>18. CASE BmScaled
  BY <1>18 DEF BmScaled, CompressTest
<1>19. CASE BmLoopDone
  BY <1>19 DEF BmLoopDone
<1>20. CASE BmLorenzo
  BY <1>20 DEF BmLorenzo, CompressTest
<1>21. CASE BmEnd
  BY <1>21 DEF BmEnd
<1>22. CASE Finish
  BY <1>22 DEF Finish
<1>23. CASE LorenzoTune
  BY <1>23, LorenzoTunedKeep DEF LorenzoTune, MayExtract
<1>24. CASE Dispatch
  BY <1>24 DEF Dispatch
<1>25. CASE Compress
  BY <1>25 DEF Compress
<1>26. CASE Save
  BY <1>26 DEF Save
<1>27. CASE Decompress
  BY <1>27 DEF Decompress
<1>28. CASE UNCHANGED vars
  BY <1>28 DEF vars, tuningVars
<1> QED
  BY <1>1, <1>2, <1>3, <1>4, <1>5, <1>6, <1>7, <1>8, <1>9, <1>10, <1>11, <1>12, <1>13,
     <1>14, <1>15, <1>16, <1>17, <1>18, <1>19, <1>20, <1>21, <1>22, <1>23, <1>24, <1>25,
     <1>26, <1>27, <1>28 DEF Next, Tune

\* SZ_compress_Interp_lorenzo starts from the absolute bound and keeps dims and num.
LEMMA StartLent ==
  ASSUME Shape, Lent, Start
  PROVE  /\ conf'.dims = given.dims /\ conf'.num = given.num
         /\ conf'.absErrorBound = AbsBound(given)
         /\ conf'.blockwiseTuning = Started(given).blockwiseTuning
<1>1. conf = [given EXCEPT !.absErrorBound = AbsBound(given), !.errorBoundMode = "ABS"]
  BY DEF Start, Lent
<1>2. DOMAIN given = ConfigFields
  BY InputsAssumption DEF Shape, IsInput
<1>3. /\ DOMAIN conf = ConfigFields /\ conf.absErrorBound = AbsBound(given)
      /\ \A f \in ConfigFields \ {"absErrorBound", "errorBoundMode"} : conf[f] = given[f]
  BY <1>1, <1>2 DEF ConfigFields
<1>4. /\ Started(conf).dims = given.dims /\ Started(conf).num = given.num
      /\ Started(conf).absErrorBound = conf.absErrorBound
      /\ Started(conf).blockwiseTuning = Started(given).blockwiseTuning
  BY <1>2, <1>3, StartedKeep
<1> QED
  BY <1>3, <1>4 DEF Start

\* Tuning Lorenzo comes right before the compression and keeps all but its own fields.
LEMMA LorenzoTuneKeeps ==
  ASSUME Shape, LorenzoTune
  PROVE  /\ pc = "lorenzo" /\ pc' = "compress"
         /\ DOMAIN conf' = ConfigFields
         /\ conf'.dims = conf.dims /\ conf'.num \in {conf.num, Elements(conf.dims)}
         /\ \A f \in ConfigFields \ {"num", "pred_dim", "blockSize", "methods", "quantbinCnt"} :
              conf'[f] = conf[f]
         /\ UNCHANGED <<given, saved, starts, samples, level, metas, best, pair, trial, seen>>
<1>1. PICK extracted \in BOOLEAN : conf' \in LorenzoTuned(conf, extracted)
  BY DEF LorenzoTune, MayExtract
<1>2. DOMAIN conf = ConfigFields
  BY DEF Shape
<1> QED
  BY <1>1, <1>2, LorenzoTunedKeep DEF LorenzoTune

\* A pair of alpha and beta is tried with nothing else changed.
LEMMA BmPairKeeps ==
  ASSUME Shape, BmPair
  PROVE  /\ pc = "bm_loop" /\ pc' \in {"bm_loop", "bm_scaled", "exited"}
         /\ DOMAIN conf' = ConfigFields
         /\ \A f \in ConfigFields \ {"absErrorBound", "alpha", "beta"} : conf'[f] = conf[f]
         /\ UNCHANGED <<given, saved, starts, samples, level, metas, seen>>
BY DEF Shape, BmPair, CompressTest, ConfigFields

\* Every step keeps track of what is lent, and the way back restores it.
LEMMA LentNext == Shape /\ Lent /\ [Next]_vars => Lent'
<1> SUFFICES ASSUME Shape, Lent, [Next]_vars PROVE Lent'
  OBVIOUS
<1> USE DEF Shape, Lent, OnSamples, Between, Settled, ConfigFields
<1>1. CASE Start
  <2>1. /\ conf'.dims = given.dims /\ conf'.num = given.num
        /\ conf'.absErrorBound = AbsBound(given)
        /\ conf'.blockwiseTuning = Started(given).blockwiseTuning
    BY <1>1, StartLent
  <2> QED
    BY <1>1, <2>1 DEF Start
<1>2. CASE Size
  BY <1>2 DEF Size, Capped
<1>3. CASE Profile
  BY <1>3 DEF Profile
<1>4. CASE PredictorStart
  <2>1. N(conf) = N(given)
    BY <1>4 DEF PredictorStart, N
  <2>2. /\ conf'.dims = Cube(N(given), conf.sampleBlockSize + 1)
        /\ conf'.num = Elements(conf'.dims)
        /\ conf'.sampleBlockSize = conf.sampleBlockSize /\ conf'.blockwiseTuning = FALSE
    BY <1>4, <2>1, OnSampleKeep DEF PredictorStart
  <2> QED
    BY <1>4, <2>2 DEF PredictorStart
<1>5. CASE LorenzoRatio
  BY <1>5 DEF LorenzoRatio, CompressTest
<1>6. CASE TuneLevel
  BY <1>6 DEF TuneLevel, TryLevel
<1>7. CASE LevelsDone
  BY <1>7 DEF LevelsDone, Sampled
<1>8. CASE Freeze
  BY <1>8 DEF Freeze, CompressTest
<1>9. CASE FreezeLevel
  BY <1>9 DEF FreezeLevel, TryLevel
<1>10. CASE FreezeDone
  BY <1>10 DEF FreezeDone, CompressTest, Sampled
<1>11. CASE LevelsEnd
  BY <1>11 DEF LevelsEnd, CompressTest
<1>12. CASE TuneFlat
  BY <1>12 DEF TuneFlat, CompressTest
<1>13. CASE Restore
  BY <1>13 DEF Restore, Restored
<1>14. CASE TuneSz3
  BY <1>14 DEF TuneSz3
<1>15. CASE BmStart
  <2>1. N(conf) = N(given)
    BY <1>15 DEF BmStart, N
  <2>2. /\ conf'.dims = Cube(N(given), conf.sampleBlockSize + 1)
        /\ conf'.num = Elements(conf'.dims)
        /\ conf'.sampleBlockSize = conf.sampleBlockSize /\ conf'.blockwiseTuning = FALSE
    BY <1>15, <2>1, OnSampleKeep DEF BmStart
  <2> QED
    BY <1>15, <2>2 DEF BmStart
<1>16. CASE BmPreset
  BY <1>16 DEF BmPreset
<1>17. CASE BmPair
  BY <1>17, BmPairKeeps
<1>18. CASE BmScaled
  BY <1>18 DEF BmScaled, CompressTest
<1>19. CASE BmLoopDone
  BY <1>19 DEF BmLoopDone
<1>20. CASE BmLorenzo
  BY <1>20 DEF BmLorenzo, CompressTest
<1>21. CASE BmEnd
  BY <1>21 DEF BmEnd
<1>22. CASE Finish
  BY <1>22 DEF Finish
<1>23. CASE LorenzoTune
  <2>1. given.num = Elements(given.dims)
    BY InputsAssumption DEF IsInput
  <2> QED
    BY <1>23, <2>1, LorenzoTuneKeeps
<1>24. CASE Dispatch
  BY <1>24 DEF Dispatch
<1>25. CASE Compress
  BY <1>25 DEF Compress
<1>26. CASE Save
  BY <1>26 DEF Save
<1>27. CASE Decompress
  BY <1>27 DEF Decompress
<1>28. CASE UNCHANGED vars
  BY <1>28 DEF vars, tuningVars
<1> QED
  BY <1>1, <1>2, <1>3, <1>4, <1>5, <1>6, <1>7, <1>8, <1>9, <1>10, <1>11, <1>12, <1>13,
     <1>14, <1>15, <1>16, <1>17, <1>18, <1>19, <1>20, <1>21, <1>22, <1>23, <1>24, <1>25,
     <1>26, <1>27, <1>28 DEF Next, Tune

\* The array is compressed with its own dims, num and error bound and the block-wise
\* search asked for (GivenBack), for every input.
THEOREM AllGivenBack == Spec => []GivenBack
<1>1. Init => Shape /\ Lent
  BY ShapeInit, LentInit
<1>2. Shape /\ Lent /\ [Next]_vars => (Shape /\ Lent)'
  BY ShapeNext, LentNext
<1>3. Shape /\ Lent => GivenBack
  BY DEF Lent, GivenBack, Settled
<1> QED
  BY <1>1, <1>2, <1>3, PTL DEF Spec

-----------------------------------------------------------------------------
(* What Size has settled stays.                                            *)

\* The fields no step behind Size assigns.
Param ==
  {"sampleBlockSize", "levelwise", "maxStep", "autoTuningRate", "predictorTuningRate",
   "multiDimInterp", "pdTuningRealComp", "var_first", "tuningTarget", "testLorenzo",
   "freezeDimTest", "QoZ"}

\* What Size has settled does not change any more.
LEMMA ParamFixed ==
  ASSUME Shape, [Next]_vars, pc \notin {"dispatch", "tune", "size"}
  PROVE  /\ \A f \in Param : conf'[f] = conf[f]
         /\ given' = given
         /\ pc' \notin {"dispatch", "tune", "size"}
         /\ pc' \in {"profile"} \cup OnSamples \cup Between =>
              pc \in {"profile"} \cup OnSamples \cup Between
<1> USE DEF Shape, ConfigFields, Param, OnSamples, Between
<1>1. CASE Start
  BY <1>1 DEF Start
<1>2. CASE Size
  BY <1>2 DEF Size
<1>3. CASE Profile
  BY <1>3 DEF Profile
<1>4. CASE PredictorStart
  BY <1>4 DEF PredictorStart, OnSample
<1>5. CASE LorenzoRatio
  BY <1>5 DEF LorenzoRatio, CompressTest
<1>6. CASE TuneLevel
  BY <1>6 DEF TuneLevel, TryLevel
<1>7. CASE LevelsDone
  BY <1>7 DEF LevelsDone
<1>8. CASE Freeze
  BY <1>8 DEF Freeze, CompressTest
<1>9. CASE FreezeLevel
  BY <1>9 DEF FreezeLevel, TryLevel
<1>10. CASE FreezeDone
  BY <1>10 DEF FreezeDone, CompressTest
<1>11. CASE LevelsEnd
  BY <1>11 DEF LevelsEnd, CompressTest
<1>12. CASE TuneFlat
  BY <1>12 DEF TuneFlat, CompressTest
<1>13. CASE Restore
  BY <1>13 DEF Restore, Restored
<1>14. CASE TuneSz3
  BY <1>14 DEF TuneSz3
<1>15. CASE BmStart
  BY <1>15 DEF BmStart, OnSample
<1>16. CASE BmPreset
  BY <1>16 DEF BmPreset
<1>17. CASE BmPair
  BY <1>17, BmPairKeeps
<1>18. CASE BmScaled
  BY <1>18 DEF BmScaled, CompressTest
<1>19. CASE BmLoopDone
  BY <1>19 DEF BmLoopDone
<1>20. CASE BmLorenzo
  BY <1>20 DEF BmLorenzo, CompressTest
<1>21. CASE BmEnd
  BY <1>21 DEF BmEnd
<1>22. CASE Finish
  BY <1>22 DEF Finish
<1>23. CASE LorenzoTune
  BY <1>23, LorenzoTuneKeeps
<1>24. CASE Dispatch
  BY <1>24 DEF Dispatch
<1>25. CASE Compress
  BY <1>25 DEF Compress
<1>26. CASE Save
  BY <1>26 DEF Save
<1>27. CASE Decompress
  BY <1>27 DEF Decompress
<1>28. CASE UNCHANGED vars
  BY <1>28 DEF vars, tuningVars
<1> QED
  BY <1>1, <1>2, <1>3, <1>4, <1>5, <1>6, <1>7, <1>8, <1>9, <1>10, <1>11, <1>12, <1>13,
     <1>14, <1>15, <1>16, <1>17, <1>18, <1>19, <1>20, <1>21, <1>22, <1>23, <1>24, <1>25,
     <1>26, <1>27, <1>28 DEF Next, Tune

-----------------------------------------------------------------------------
(* The numbers of a configuration, and those Size chooses.                 *)

\* The literal, once and for all.
LEMMA IntMaxIs == IntMax \in Nat /\ IntMax > 64
BY SMT DEF IntMax

\* The fields that are counted with.
Numbers(c) ==
  /\ c.autoTuningRate \in 0 .. 999 /\ c.predictorTuningRate \in 0 .. 999
  /\ c.maxStep \in Nat /\ c.levelwise \in Nat /\ c.multiDimInterp \in Nat /\ c.QoZ \in Nat
  /\ c.sampleBlockSize \in Nat /\ c.sampleBlockSize < IntMax

\* The presets put numbers for numbers, and leave them alone for QoZ 0.
LEMMA DefaultsNumbers ==
  ASSUME NEW c, DOMAIN c = ConfigFields, Numbers(c), N(c) \in 1 .. 4
  PROVE  /\ Numbers(Defaults(c))
         /\ c.QoZ = 0 => /\ Defaults(c).autoTuningRate = c.autoTuningRate
                         /\ Defaults(c).predictorTuningRate = c.predictorTuningRate
<1> DEFINE d == Defaults(c)
<1>1. \A x \in Nat, y \in Nat : (IF x > 0 THEN x ELSE y) \in Nat
  OBVIOUS
<1>2. <<256, 64, 32, 16>>[N(c)] \in Nat
  OBVIOUS
<1>3. /\ d.autoTuningRate = IF c.QoZ = 0 \/ c.autoTuningRate > 0 THEN c.autoTuningRate
                            ELSE IF N(c) <= 2 THEN 10 ELSE 5
      /\ d.predictorTuningRate = IF c.QoZ = 0 \/ c.predictorTuningRate > 0 THEN c.predictorTuningRate
                                 ELSE IF N(c) <= 2 THEN 10 ELSE 5
  BY SMTT(60) DEF Defaults, ConfigFields
<1>4. /\ d.maxStep = IF c.QoZ = 0 \/ c.maxStep > 0 THEN c.maxStep ELSE <<256, 64, 32, 16>>[N(c)]
      /\ d.levelwise = IF c.QoZ = 0 \/ c.levelwise > 0 THEN c.levelwise
                       ELSE IF N(c) <= 2 THEN 5 ELSE 4
  BY SMTT(60) DEF Defaults, ConfigFields
<1>5. /\ d.sampleBlockSize = IF c.QoZ = 0 \/ c.sampleBlockSize > 0 THEN c.sampleBlockSize
                             ELSE IF N(c) <= 2 THEN 64 ELSE 32
      /\ d.multiDimInterp = IF c.QoZ < 2 THEN c.multiDimInterp ELSE 1
      /\ d.QoZ = c.QoZ
  BY SMTT(60) DEF Defaults, ConfigFields
<1> HIDE DEF d
<1>6. Numbers(d)
  BY <1>2, <1>3, <1>4, <1>5, IntMaxIs DEF Numbers
<1> QED
  BY <1>3, <1>6 DEF d

\* With the tuning off the rates are 0.
LEMMA DisabledNumbers ==
  ASSUME NEW c, DOMAIN c = ConfigFields, Numbers(c)
  PROVE  /\ Numbers(Disabled(c)) /\ N(Disabled(c)) = N(c)
         /\ Disabled(c).QoZ = 0
         /\ Disabled(c).autoTuningRate = 0 /\ Disabled(c).predictorTuningRate = 0
BY DEF Disabled, ConfigFields, Numbers, N

\* Nothing but 2 and 3 dimensions is sampled.
LEMMA StartedNumbers ==
  ASSUME NEW c, DOMAIN c = ConfigFields, Numbers(c), N(c) \in 1 .. 4
  PROVE  /\ Numbers(Started(c))
         /\ N(c) \notin {2, 3} => /\ Started(c).autoTuningRate = 0
                                  /\ Started(c).predictorTuningRate = 0
<1>1. CASE N(c) \in {2, 3}
  BY <1>1, DefaultsNumbers DEF Started
<1>2. CASE N(c) \notin {2, 3}
  <2> PICK d : d = Disabled(c)
    OBVIOUS
  <2>1. DOMAIN d = ConfigFields
    BY DisabledKeep
  <2>2. /\ Numbers(d) /\ N(d) \in 1 .. 4 /\ d.QoZ = 0
        /\ d.autoTuningRate = 0 /\ d.predictorTuningRate = 0
    BY DisabledNumbers
  <2>3. Started(c) = Defaults(d)
    BY <1>2 DEF Started
  <2> QED
    BY <1>2, <2>1, <2>2, <2>3, DefaultsNumbers
<1> QED
  BY <1>1, <1>2

\* The shortest side is a side, and none is shorter.
LEMMA MinEdge ==
  ASSUME NEW d \in Seq(Nat \ {0}), Len(d) >= 1
  PROVE  Min(Edges(d)) \in Nat \ {0} /\ \A i \in DOMAIN d : Min(Edges(d)) <= d[i]
<1>1. DOMAIN d = 1 .. Len(d) /\ Len(d) \in Int /\ \A i \in 1 .. Len(d) : d[i] \in Nat \ {0}
  OBVIOUS
<1>2. PICK m \in 1 .. Len(d) : \A i \in 1 .. Len(d) : d[m] <= d[i]
  <2> PICK n : n = Len(d)
    OBVIOUS
  <2>1. 1 \in Int /\ n \in Int /\ 1 <= n /\ \A i \in 1 .. n : d[i] \in Int
    BY <1>1
  <2>2. \E m \in 1 .. n : \A i \in 1 .. n : d[m] <= d[i]
    BY <2>1, Smallest, Zenon
  <2> QED
    BY <2>2
<1>3. /\ Edges(d) \in SUBSET Int /\ d[m] \in Edges(d) /\ \A x \in Edges(d) : d[m] <= x
  BY <1>1, <1>2 DEF Edges
<1>4. Min(Edges(d)) = d[m]
  BY <1>3, MinIs
<1> QED
  BY <1>1, <1>2, <1>4

\* The longest side is a side, and none is longer.
LEMMA MaxEdge ==
  ASSUME NEW d \in Seq(Nat \ {0}), Len(d) >= 1
  PROVE  Max(Edges(d)) \in Nat \ {0} /\ \A i \in DOMAIN d : d[i] <= Max(Edges(d))
<1>1. DOMAIN d = 1 .. Len(d) /\ Len(d) \in Int /\ \A i \in 1 .. Len(d) : d[i] \in Nat \ {0}
  OBVIOUS
<1>2. PICK m \in 1 .. Len(d) : \A i \in 1 .. Len(d) : d[i] <= d[m]
  <2> PICK n : n = Len(d)
    OBVIOUS
  <2>1. 1 \in Int /\ n \in Int /\ 1 <= n /\ \A i \in 1 .. n : d[i] \in Int
    BY <1>1
  <2>2. \E m \in 1 .. n : \A i \in 1 .. n : d[i] <= d[m]
    BY <2>1, Greatest, Zenon
  <2> QED
    BY <2>2
<1>3. /\ Edges(d) \in SUBSET Int /\ d[m] \in Edges(d) /\ \A x \in Edges(d) : x <= d[m]
  BY <1>1, <1>2 DEF Edges
<1>4. Max(Edges(d)) = d[m]
  BY <1>3, MaxIs
<1> QED
  BY <1>1, <1>2, <1>4

\* Halving comes to an end at 0, which is not too large.
LEMMA HalvedIs ==
  ASSUME NEW c, c.dims \in Seq(Nat \ {0}), Len(c.dims) >= 1, NEW size \in Nat
  PROVE  /\ Halved(c, size) \in 0 .. size
         /\ \A i \in DOMAIN c.dims : Halved(c, size) < c.dims[i]
<1> DEFINE halves == {size \div Pow2[k] : k \in 0 .. CeilLog2(size + 1)}
           fit    == {h \in halves : ~TooLarge(c, h)}
<1>1. CeilLog2(size + 1) \in Nat /\ Pow2[CeilLog2(size + 1)] >= size + 1
  <2>1. size + 1 \in Nat \ {0}
    OBVIOUS
  <2> QED
    BY <2>1, CeilLog2Is
<1>2. \A k \in Nat : Pow2[k] \in Nat \ {0}
  <2> SUFFICES ASSUME NEW k \in Nat PROVE Pow2[k] \in Nat \ {0}
    OBVIOUS
  <2>1. Pow2[k] \in Nat /\ Pow2[k] > k
    BY Pow2Is, Pow2Exceeds
  <2> QED
    BY <2>1
<1>3. ASSUME NEW k \in Nat PROVE size \div Pow2[k] \in 0 .. size
  <2> PICK p : p = Pow2[k]
    OBVIOUS
  <2>1. p \in Nat \ {0}
    BY <1>2
  <2> PICK q : q = size \div p
    OBVIOUS
  <2>2. q \in Nat /\ p * q <= size
    BY <2>1, QuotientOf
  <2>3. q <= p * q
    BY <2>1, <2>2
  <2>4. p * q \in Nat
    BY <2>1, <2>2
  <2>5. q <= size
    BY <2>2, <2>3, <2>4
  <2> QED
    BY <2>2, <2>5
<1>4. halves \in SUBSET (0 .. size)
  <2>1. \A k \in 0 .. CeilLog2(size + 1) : k \in Nat
    BY <1>1
  <2> QED
    BY <1>3, <2>1
<1>5. 0 \in halves
  <2> PICK k : k = CeilLog2(size + 1)
    OBVIOUS
  <2> PICK p : p = Pow2[k]
    OBVIOUS
  <2>1. k \in Nat /\ p \in Nat \ {0} /\ p > size
    BY <1>1, <1>2
  <2> PICK q : q = size \div p
    OBVIOUS
  <2>2. q \in Nat /\ p * q <= size
    BY <2>1, QuotientOf
  <2>3. ASSUME q >= 1 PROVE FALSE
    <3>1. p <= p * q /\ p * q \in Nat
      BY <2>1, <2>2, <2>3
    <3> QED
      BY <2>1, <2>2, <3>1
  <2>4. q = 0
    BY <2>2, <2>3
  <2>5. k \in 0 .. CeilLog2(size + 1) /\ size \div Pow2[k] = 0
    BY <2>1, <2>4
  <2> QED
    BY <2>5
<1>6. ~TooLarge(c, 0)
  <2>1. Min(Edges(c.dims)) \in Nat \ {0}
    BY MinEdge
  <2> QED
    BY <2>1 DEF TooLarge, minimum_sbs
<1> HIDE DEF halves
<1>7. fit \in SUBSET (0 .. size) /\ fit # {} /\ fit \in SUBSET Int
  <2>1. 0 \in fit
    BY <1>5, <1>6
  <2>2. ASSUME NEW h \in fit PROVE h \in 0 .. size /\ h \in Int
    BY <1>4
  <2> QED
    BY <2>1, <2>2
<1>8. PICK h \in fit : \A x \in fit : x <= h
  BY <1>7, Largest
<1>9. Halved(c, size) = h
  <2>1. Max(fit) = h
    BY <1>7, <1>8, MaxIs
  <2> QED
    BY <2>1 DEF Halved, halves
<1>10. h \in 0 .. size /\ ~TooLarge(c, h)
  BY <1>7, <1>8
<1>11. \A i \in DOMAIN c.dims : h < c.dims[i]
  <2>1. Min(Edges(c.dims)) \in Nat \ {0} /\ \A i \in DOMAIN c.dims : Min(Edges(c.dims)) <= c.dims[i]
    BY MinEdge
  <2>2. h < Min(Edges(c.dims))
    BY <1>10, <2>1 DEF TooLarge
  <2>3. \A i \in DOMAIN c.dims : c.dims[i] \in Nat
    OBVIOUS
  <2> QED
    BY <1>10, <2>1, <2>2, <2>3
<1> QED
  BY <1>9, <1>10, <1>11

\* The anchors bound the number of levels.
LEMMA MaxInterpLevelIs ==
  ASSUME NEW c, c.dims \in Seq(Nat \ {0}), Len(c.dims) >= 1, c.maxStep \in Nat
  PROVE  /\ MaxInterpLevel(c) \in Nat
         /\ c.maxStep > 0 => MaxInterpLevel(c) <= FloorLog2(c.maxStep)
<1> PICK full : full = CeilLog2(Max(Edges(c.dims)))
  OBVIOUS
<1>1. full \in Nat
  BY MaxEdge, CeilLog2Is
<1>2. CASE c.maxStep = 0
  BY <1>1, <1>2 DEF MaxInterpLevel
<1>3. CASE c.maxStep # 0
  <2> PICK f : f = FloorLog2(c.maxStep)
    OBVIOUS
  <2>1. f \in Nat
    BY <1>3, FloorLog2Is
  <2>2. MaxInterpLevel(c) = IF full <= f THEN full ELSE f
    BY <1>1, <1>3, <2>1, MinOfTwo DEF MaxInterpLevel
  <2> QED
    BY <1>1, <2>1, <2>2
<1> QED
  BY <1>2, <1>3

\* What holds of conf once Size has run; Tuned says that there will be samples.
Tuned == conf.autoTuningRate > 0 \/ conf.predictorTuningRate > 0

\* A block with its border lies within the data and has the levels to be tuned.
SampleFits ==
  /\ N(given) \in {2, 3}
  /\ 8 <= conf.sampleBlockSize
  /\ \A i \in DOMAIN given.dims : conf.sampleBlockSize < given.dims[i]
  /\ conf.levelwise <= FloorLog2(conf.sampleBlockSize)
  /\ conf.maxStep > 0 => conf.levelwise <= FloorLog2(conf.maxStep)

\* Numbers are numbers, only 2 and 3 dimensions are tuned, and behind Size samples fit.
Sized ==
  /\ Numbers(conf)
  /\ pc = "size" /\ Tuned => N(given) \in {2, 3}
  /\ pc \in {"profile"} \cup OnSamples \cup Between /\ Tuned => SampleFits

\* The input is one the program accepts.
LEMMA GivenIs ==
  ASSUME Shape
  PROVE  /\ given.dims \in Seq(Nat \ {0}) /\ Len(given.dims) \in 1 .. 4
         /\ DOMAIN given = ConfigFields /\ Numbers(given)
BY InputsAssumption DEF Shape, IsInput, Numbers

\* The numbers of the input are numbers.
LEMMA SizedInit == Init => Sized
<1> SUFFICES ASSUME Init PROVE Sized
  OBVIOUS
<1>1. Shape /\ conf = given /\ pc = "dispatch"
  BY ShapeInit DEF Init, InitTuning
<1> QED
  BY <1>1, GivenIs DEF Sized, OnSamples, Between

\* The levels tuned one by one are at least one, and below those of the sample.
LEMMA CappedIs ==
  ASSUME NEW c, DOMAIN c = ConfigFields, c.levelwise \in Nat, c.sampleBlockSize \in Nat
  PROVE  /\ \A f \in ConfigFields \ {"autoTuningRate", "predictorTuningRate", "levelwise"} :
              Capped(c)[f] = c[f]
         /\ Capped(c).autoTuningRate \in {0, c.autoTuningRate}
         /\ Capped(c).predictorTuningRate \in {0, c.predictorTuningRate}
         /\ Capped(c).levelwise \in Nat /\ Capped(c).levelwise <= c.levelwise
         /\ \/ Capped(c).autoTuningRate = 0 /\ Capped(c).predictorTuningRate = 0
            \/ /\ c.sampleBlockSize >= 8
               /\ Capped(c).levelwise <= FloorLog2(c.sampleBlockSize)
<1>1. CASE c.sampleBlockSize < minimum_sbs
  <2>1. Capped(c) = [c EXCEPT !.autoTuningRate = 0, !.predictorTuningRate = 0]
    BY <1>1 DEF Capped
  <2> PICK d : d = Capped(c)
    OBVIOUS
  <2>2. /\ \A f \in ConfigFields \ {"autoTuningRate", "predictorTuningRate"} : d[f] = c[f]
        /\ d.autoTuningRate = 0 /\ d.predictorTuningRate = 0
    BY <2>1 DEF ConfigFields
  <2>3. d.levelwise = c.levelwise
    BY <2>2 DEF ConfigFields
  <2> QED
    BY <2>2, <2>3
<1>2. CASE ~(c.sampleBlockSize < minimum_sbs)
  <2> PICK f : f = FloorLog2(c.sampleBlockSize)
    OBVIOUS
  <2>1. c.sampleBlockSize >= 8
    BY <1>2 DEF minimum_sbs
  <2>2. f \in Nat
    BY <2>1, FloorLog2Is
  <2> PICK l : l = Min({c.levelwise, f})
    OBVIOUS
  <2>3. l \in Nat /\ l <= c.levelwise /\ l <= f
    BY <2>2, MinOfTwo
  <2>4. Capped(c) = [c EXCEPT !.levelwise = l]
    BY <1>2 DEF Capped
  <2> QED
    BY <2>1, <2>3, <2>4 DEF ConfigFields
<1> QED
  BY <1>1, <1>2

\* Size finds a block that fits into the data, or divides by zero.
LEMMA SizeSizes ==
  ASSUME Shape, Lent, Sized, Size
  PROVE  /\ Numbers(conf') /\ pc' \in {"crashed", "profile"}
         /\ Tuned' => SampleFits'
<1> DEFINE wanted == IF conf.sampleBlockSize > 0 THEN conf.sampleBlockSize
                     ELSE IF N(conf) = 2 THEN 64 ELSE 32
           size   == Halved(conf, Max({minimum_sbs, wanted}))
           lev    == IF conf.maxStep = 0 THEN conf.levelwise
                     ELSE Min({conf.levelwise, MaxInterpLevel(conf)})
           c      == [conf EXCEPT !.levelwise = lev, !.sampleBlockSize = size]
<1>1. /\ conf.dims = given.dims /\ given' = given /\ N(given') = N(given)
      /\ conf.dims \in Seq(Nat \ {0}) /\ Len(conf.dims) >= 1 /\ Numbers(conf)
      /\ pc = "size" /\ DOMAIN conf = ConfigFields
  <2>1. pc = "size" /\ given' = given /\ Numbers(conf) /\ DOMAIN conf = ConfigFields
    BY DEF Size, Sized, Shape
  <2>2. conf.dims = given.dims
    BY <2>1 DEF Lent
  <2>3. conf.dims \in Seq(Nat \ {0}) /\ Len(conf.dims) >= 1
    BY <2>2, GivenIs
  <2> QED
    BY <2>1, <2>2, <2>3
<1>2. conf' = Capped(c) /\ pc' \in {"crashed", "profile"}
  BY DEF Size
<1>3. size \in Nat /\ size < IntMax /\ \A i \in DOMAIN conf.dims : size < conf.dims[i]
  <2> PICK w : w = wanted
    OBVIOUS
  <2>1. w \in Nat /\ w < IntMax
    BY <1>1, IntMaxIs DEF Numbers
  <2> PICK m : m = Max({minimum_sbs, w})
    OBVIOUS
  <2>2. m \in Nat /\ m < IntMax
    BY <2>1, IntMaxIs, MaxOfTwo DEF minimum_sbs
  <2>3. size = Halved(conf, m)
    OBVIOUS
  <2>4. Halved(conf, m) \in 0 .. m /\ \A i \in DOMAIN conf.dims : Halved(conf, m) < conf.dims[i]
    BY <1>1, <2>2, HalvedIs
  <2> HIDE DEF size
  <2> QED
    BY <2>2, <2>3, <2>4, IntMaxIs
<1>4. lev \in Nat /\ lev <= conf.levelwise /\ (conf.maxStep > 0 => lev <= FloorLog2(conf.maxStep))
  <2>1. conf.maxStep \in Nat /\ conf.levelwise \in Nat
    BY <1>1 DEF Numbers
  <2> PICK m : m = MaxInterpLevel(conf)
    OBVIOUS
  <2>2. m \in Nat /\ (conf.maxStep > 0 => m <= FloorLog2(conf.maxStep))
    BY <1>1, <2>1, MaxInterpLevelIs
  <2>3. CASE conf.maxStep = 0
    BY <2>1, <2>3
  <2>4. CASE conf.maxStep # 0
    <3>1. lev = IF conf.levelwise <= m THEN conf.levelwise ELSE m
      BY <2>1, <2>2, <2>4, MinOfTwo
    <3>2. FloorLog2(conf.maxStep) \in Nat
      BY <2>1, <2>4, FloorLog2Is
    <3> HIDE DEF lev
    <3> QED
      BY <2>1, <2>2, <2>4, <3>1, <3>2
  <2> QED
    BY <2>3, <2>4
<1> HIDE DEF size, lev
<1>5. /\ DOMAIN c = ConfigFields /\ c.levelwise = lev /\ c.sampleBlockSize = size
      /\ \A f \in ConfigFields \ {"levelwise", "sampleBlockSize"} : c[f] = conf[f]
  BY <1>1 DEF ConfigFields
<1> HIDE DEF c
<1>6. /\ conf'.sampleBlockSize = size /\ conf'.maxStep = conf.maxStep
      /\ conf'.multiDimInterp = conf.multiDimInterp /\ conf'.QoZ = conf.QoZ
      /\ conf'.autoTuningRate \in {0, conf.autoTuningRate}
      /\ conf'.predictorTuningRate \in {0, conf.predictorTuningRate}
      /\ conf'.levelwise \in Nat /\ conf'.levelwise <= lev
      /\ \/ conf'.autoTuningRate = 0 /\ conf'.predictorTuningRate = 0
         \/ size >= 8 /\ conf'.levelwise <= FloorLog2(size)
  <2>1. c.levelwise \in Nat /\ c.sampleBlockSize \in Nat
    BY <1>3, <1>4, <1>5
  <2> PICK d : d = Capped(c)
    OBVIOUS
  <2>2. /\ \A f \in ConfigFields \ {"autoTuningRate", "predictorTuningRate", "levelwise"} :
              d[f] = c[f]
        /\ d.autoTuningRate \in {0, c.autoTuningRate}
        /\ d.predictorTuningRate \in {0, c.predictorTuningRate}
        /\ d.levelwise \in Nat /\ d.levelwise <= lev
        /\ \/ d.autoTuningRate = 0 /\ d.predictorTuningRate = 0
           \/ size >= 8 /\ d.levelwise <= FloorLog2(size)
    BY <1>5, <2>1, CappedIs
  <2>3. conf' = d
    BY <1>2
  <2> QED
    BY <1>5, <2>2, <2>3 DEF ConfigFields
<1>7. Numbers(conf')
  <2>1. /\ conf.autoTuningRate \in 0 .. 999 /\ conf.predictorTuningRate \in 0 .. 999
        /\ conf.maxStep \in Nat /\ conf.multiDimInterp \in Nat /\ conf.QoZ \in Nat
    BY <1>1 DEF Numbers
  <2>2. conf'.autoTuningRate \in 0 .. 999 /\ conf'.predictorTuningRate \in 0 .. 999
    BY <1>6, <2>1
  <2> HIDE <1>1
  <2> QED
    BY <1>3, <1>6, <2>1, <2>2 DEF Numbers
<1>8. ASSUME Tuned' PROVE SampleFits'
  <2>1. conf'.autoTuningRate > 0 \/ conf'.predictorTuningRate > 0
    BY <1>8 DEF Tuned
  <2>2. size >= 8 /\ conf'.levelwise <= FloorLog2(size)
    BY <1>6, <2>1
  <2>3. N(given) \in {2, 3}
    <3>1. Tuned
      BY <1>6, <2>1 DEF Tuned
    <3> QED
      BY <1>1, <3>1 DEF Sized
  <2>4. conf'.maxStep > 0 => conf'.levelwise <= FloorLog2(conf'.maxStep)
    <3> SUFFICES ASSUME conf.maxStep > 0 PROVE conf'.levelwise <= FloorLog2(conf.maxStep)
      BY <1>6
    <3>1. conf.maxStep \in Nat \ {0}
      BY <1>1 DEF Numbers
    <3>2. FloorLog2(conf.maxStep) \in Nat
      BY <3>1, FloorLog2Is
    <3> QED
      BY <1>4, <1>6, <3>2
  <2>5. \A i \in DOMAIN given'.dims : conf'.sampleBlockSize < given'.dims[i]
    BY <1>1, <1>3, <1>6
  <2> QED
    BY <1>1, <1>6, <2>2, <2>3, <2>4, <2>5 DEF SampleFits
<1> QED
  BY <1>2, <1>7, <1>8

\* Where control is says which actions there are.
LEMMA OnlyDispatch ==
  ASSUME [Next]_vars, pc = "dispatch"
  PROVE  Dispatch \/ UNCHANGED vars
BY SMTT(30) DEF Next, Tune, Start, Size, Profile, PredictorStart, LorenzoRatio, TuneLevel, LevelsDone, Freeze, FreezeLevel, FreezeDone, LevelsEnd, TuneFlat, Restore, TuneSz3, BmStart, BmPreset, BmPair, BmScaled, BmLoopDone, BmLorenzo, BmEnd, Finish, LorenzoTune, Compress, Save, Decompress

\* The only step at tune is Start.
LEMMA OnlyStart ==
  ASSUME [Next]_vars, pc = "tune"
  PROVE  Start \/ UNCHANGED vars
BY SMTT(30) DEF Next, Tune, Size, Profile, PredictorStart, LorenzoRatio, TuneLevel, LevelsDone, Freeze, FreezeLevel, FreezeDone, LevelsEnd, TuneFlat, Restore, TuneSz3, BmStart, BmPreset, BmPair, BmScaled, BmLoopDone, BmLorenzo, BmEnd, Finish, LorenzoTune, Dispatch, Compress, Save, Decompress

\* The only step at size is Size.
LEMMA OnlySize ==
  ASSUME [Next]_vars, pc = "size"
  PROVE  Size \/ UNCHANGED vars
BY SMTT(30) DEF Next, Tune, Start, Profile, PredictorStart, LorenzoRatio, TuneLevel, LevelsDone, Freeze, FreezeLevel, FreezeDone, LevelsEnd, TuneFlat, Restore, TuneSz3, BmStart, BmPreset, BmPair, BmScaled, BmLoopDone, BmLorenzo, BmEnd, Finish, LorenzoTune, Dispatch, Compress, Save, Decompress

\* Every step keeps numbers numbers, and a sample within the data.
LEMMA SizedNext == Shape /\ Lent /\ Sized /\ [Next]_vars => Sized'
<1> SUFFICES ASSUME Shape, Lent, Sized, [Next]_vars PROVE Sized'
  OBVIOUS
<1>1. CASE pc = "dispatch"
  <2>1. CASE Dispatch
    <3>1. /\ pc' \in {"tune", "compress", "undefined"}
          /\ \A f \in ConfigFields \ {"absErrorBound", "errorBoundMode"} : conf'[f] = conf[f]
      BY <2>1 DEF Dispatch, Shape, ConfigFields
    <3>2. Numbers(conf')
      BY <3>1 DEF Sized, Numbers, ConfigFields
    <3> QED
      BY <3>1, <3>2 DEF Sized, OnSamples, Between
  <2>2. CASE UNCHANGED vars
    BY <2>2 DEF Sized, vars, tuningVars, SampleFits, Tuned
  <2> QED
    BY <1>1, <2>1, <2>2, OnlyDispatch
<1>2. CASE pc = "tune"
  <2>1. CASE Start
    <3>1. /\ conf.dims = given.dims /\ DOMAIN conf = ConfigFields /\ Numbers(conf)
          /\ given' = given /\ pc' = "size" /\ conf' = Started(conf)
      <4>1. conf = [given EXCEPT !.absErrorBound = AbsBound(given), !.errorBoundMode = "ABS"]
        BY <1>2 DEF Lent
      <4>2. conf.dims = given.dims
        BY <4>1, GivenIs DEF ConfigFields
      <4> QED
        BY <2>1, <4>2 DEF Start, Shape, Sized
    <3>2. N(conf) = N(given) /\ N(conf) \in 1 .. 4 /\ N(given') = N(given)
      BY <3>1, GivenIs DEF N
    <3> PICK c : c = conf
      OBVIOUS
    <3> PICK d : d = Started(c)
      OBVIOUS
    <3>3. /\ Numbers(d)
          /\ N(c) \notin {2, 3} => d.autoTuningRate = 0 /\ d.predictorTuningRate = 0
      BY <3>1, <3>2, StartedNumbers
    <3>4. conf' = d
      BY <3>1
    <3>5. Tuned' => N(given') \in {2, 3}
      BY <3>2, <3>3, <3>4 DEF Tuned
    <3> QED
      BY <3>1, <3>3, <3>4, <3>5 DEF Sized, OnSamples, Between
  <2>2. CASE UNCHANGED vars
    BY <2>2 DEF Sized, vars, tuningVars, SampleFits, Tuned
  <2> QED
    BY <1>2, <2>1, <2>2, OnlyStart
<1>3. CASE pc = "size"
  <2>1. CASE Size
    BY <2>1, SizeSizes DEF Sized, OnSamples, Between
  <2>2. CASE UNCHANGED vars
    BY <2>2 DEF Sized, vars, tuningVars, SampleFits, Tuned
  <2> QED
    BY <1>3, <2>1, <2>2, OnlySize
<1>4. CASE pc \notin {"dispatch", "tune", "size"}
  <2>1. /\ conf'.sampleBlockSize = conf.sampleBlockSize /\ conf'.levelwise = conf.levelwise
        /\ conf'.maxStep = conf.maxStep /\ conf'.autoTuningRate = conf.autoTuningRate
        /\ conf'.predictorTuningRate = conf.predictorTuningRate
        /\ conf'.multiDimInterp = conf.multiDimInterp /\ conf'.QoZ = conf.QoZ
    BY <1>4, ParamFixed DEF Param
  <2>2. /\ given' = given /\ pc' \notin {"dispatch", "tune", "size"}
        /\ pc' \in {"profile"} \cup OnSamples \cup Between =>
              pc \in {"profile"} \cup OnSamples \cup Between
    BY <1>4, ParamFixed
  <2>3. Numbers(conf')
    BY <2>1 DEF Sized, Numbers
  <2>4. (Tuned' => Tuned) /\ (SampleFits => SampleFits')
    BY <2>1, <2>2 DEF Tuned, SampleFits
  <2> QED
    BY <2>2, <2>3, <2>4 DEF Sized
<1> QED
  BY <1>1, <1>2, <1>3, <1>4

-----------------------------------------------------------------------------
(* Whether the samples are the input.                                      *)

\* Samples are fresh unless predictor tuning has compressed them in place.
FreshInv ==
  /\ pc = "sz3" => ~(conf.predictorTuningRate > 0)
  /\ samples.fresh \in BOOLEAN
  /\ pc \in {"lorenzo_cr", "flat", "bm_loop", "bm_scaled", "bm_lorenzo"} => samples.fresh
  /\ pc \in {"levels", "freeze", "freeze_levels"} => conf.pdTuningRealComp \/ samples.fresh
  /\ pc \in {"levels_end", "restore", "bm"} /\ Shared(conf) => samples.fresh
  /\ FreshForBm

\* No sample has been taken at the start.
LEMMA FreshInit == Init => FreshInv
BY DEF Init, InitTuning, FreshInv, FreshForBm, NoTrial

\* Every step keeps track of whether the samples are still the input.
LEMMA FreshNext == Shape /\ FreshInv /\ [Next]_vars => FreshInv'
<1> SUFFICES ASSUME Shape, FreshInv, [Next]_vars PROVE FreshInv'
  OBVIOUS
<1> USE DEF Shape, FreshInv, FreshForBm, ConfigFields, Shared, OnSamples, Between
<1>1. CASE Start
  BY <1>1 DEF Start
<1>2. CASE Size
  BY <1>2 DEF Size
<1>3. CASE Profile
  BY <1>3 DEF Profile
<1>4. CASE PredictorStart
  BY <1>4 DEF PredictorStart, OnSample, Sampled
<1>5. CASE LorenzoRatio
  BY <1>5 DEF LorenzoRatio, CompressTest, Trial
<1>6. CASE TuneLevel
  BY <1>6 DEF TuneLevel, TryLevel, Trial
<1>7. CASE LevelsDone
  BY <1>7 DEF LevelsDone, Sampled
<1>8. CASE Freeze
  BY <1>8 DEF Freeze, CompressTest, Trial
<1>9. CASE FreezeLevel
  BY <1>9 DEF FreezeLevel, TryLevel, Trial
<1>10. CASE FreezeDone
  BY <1>10 DEF FreezeDone, CompressTest, Trial, Sampled
<1>11. CASE LevelsEnd
  BY <1>11 DEF LevelsEnd, CompressTest, Trial
<1>12. CASE TuneFlat
  BY <1>12 DEF TuneFlat, CompressTest, Trial
<1>13. CASE Restore
  BY <1>13 DEF Restore, Restored
<1>14. CASE TuneSz3
  BY <1>14 DEF TuneSz3
<1>15. CASE BmStart
  BY <1>15 DEF BmStart, OnSample, Sampled
<1>16. CASE BmPreset
  BY <1>16 DEF BmPreset
<1>17. CASE BmPair
  BY <1>17 DEF BmPair, CompressTest, Trial
<1>18. CASE BmScaled
  BY <1>18 DEF BmScaled, CompressTest, Trial
<1>19. CASE BmLoopDone
  BY <1>19 DEF BmLoopDone
<1>20. CASE BmLorenzo
  BY <1>20 DEF BmLorenzo, CompressTest, Trial
<1>21. CASE BmEnd
  BY <1>21 DEF BmEnd
<1>22. CASE Finish
  BY <1>22 DEF Finish
<1>23. CASE LorenzoTune
  BY <1>23, LorenzoTuneKeeps
<1>24. CASE Dispatch
  BY <1>24 DEF Dispatch
<1>25. CASE Compress
  BY <1>25 DEF Compress
<1>26. CASE Save
  BY <1>26 DEF Save
<1>27. CASE Decompress
  BY <1>27 DEF Decompress
<1>28. CASE UNCHANGED vars
  BY <1>28 DEF vars, tuningVars
<1> QED
  BY <1>1, <1>2, <1>3, <1>4, <1>5, <1>6, <1>7, <1>8, <1>9, <1>10, <1>11, <1>12, <1>13,
     <1>14, <1>15, <1>16, <1>17, <1>18, <1>19, <1>20, <1>21, <1>22, <1>23, <1>24, <1>25,
     <1>26, <1>27, <1>28 DEF Next, Tune

\* B-M tuning measures blocks of the input, never their reconstruction (FreshForBm),
\* for every input: wherever predictor tuning has overwritten the samples, they are read
\* again before B-M tuning gets them.
THEOREM AlwaysFreshForBm == Spec => []FreshForBm
<1>1. Init => Shape /\ FreshInv
  BY ShapeInit, FreshInit
<1>2. Shape /\ FreshInv /\ [Next]_vars => (Shape /\ FreshInv)'
  BY ShapeNext, FreshNext
<1>3. FreshInv => FreshForBm
  BY DEF FreshInv
<1> QED
  BY <1>1, <1>2, <1>3, PTL DEF Spec

-----------------------------------------------------------------------------
(* What has been written, and what is built from it.                       *)

\* The stream and the trailer are those of conf, which no longer changes.
Written ==
  /\ pc \notin {"save", "stored", "decoded", "exited"} => stream = None
  /\ stream # None => /\ stream = [compressor |-> Compressor(conf), header |-> Header(conf)]
                      /\ conf.absErrorBound = AbsBound(given) /\ conf.dims = given.dims
  /\ pc \in {"save", "stored", "decoded"} =>
       stream = [compressor |-> Compressor(conf), header |-> Header(conf)]
  /\ pc \in {"stored", "decoded"} => trailer = [f \in SavedFields |-> conf[f]]
  /\ pc = "decoded" => /\ decoder.compressor = Compressor(conf)
                       /\ decoder.dims = conf.dims /\ decoder.num = conf.num

\* Nothing has been written at the start.
LEMMA WrittenInit == Init => Written
BY DEF Init, InitTuning, Written

\* The tuning goes on only before anything is written.
LEMMA TuneBefore ==
  ASSUME Tune
  PROVE  /\ pc \notin {"dispatch", "compress", "save", "stored", "decoded", "exited"}
         /\ pc' \notin {"save", "stored", "decoded"}
<1> USE DEF CompressTest
<1>1. CASE Start
  BY <1>1 DEF Start
<1>2. CASE Size
  BY <1>2 DEF Size
<1>3. CASE Profile
  BY <1>3 DEF Profile
<1>4. CASE PredictorStart
  BY <1>4 DEF PredictorStart
<1>5. CASE LorenzoRatio
  BY <1>5 DEF LorenzoRatio
<1>6. CASE TuneLevel
  BY <1>6 DEF TuneLevel, TryLevel
<1>7. CASE LevelsDone
  BY <1>7 DEF LevelsDone
<1>8. CASE Freeze
  BY <1>8 DEF Freeze
<1>9. CASE FreezeLevel
  BY <1>9 DEF FreezeLevel, TryLevel
<1>10. CASE FreezeDone
  BY <1>10 DEF FreezeDone
<1>11. CASE LevelsEnd
  BY <1>11 DEF LevelsEnd
<1>12. CASE TuneFlat
  BY <1>12 DEF TuneFlat
<1>13. CASE Restore
  BY <1>13 DEF Restore
<1>14. CASE TuneSz3
  BY <1>14 DEF TuneSz3
<1>15. CASE BmStart
  BY <1>15 DEF BmStart
<1>16. CASE BmPreset
  BY <1>16 DEF BmPreset
<1>17. CASE BmPair
  BY <1>17 DEF BmPair
<1>18. CASE BmScaled
  BY <1>18 DEF BmScaled
<1>19. CASE BmLoopDone
  BY <1>19 DEF BmLoopDone
<1>20. CASE BmLorenzo
  BY <1>20 DEF BmLorenzo
<1>21. CASE BmEnd
  BY <1>21 DEF BmEnd
<1>22. CASE Finish
  BY <1>22 DEF Finish
<1>23. CASE LorenzoTune
  BY <1>23 DEF LorenzoTune
<1> QED
  BY <1>1, <1>2, <1>3, <1>4, <1>5, <1>6, <1>7, <1>8, <1>9, <1>10, <1>11, <1>12, <1>13,
     <1>14, <1>15, <1>16, <1>17, <1>18, <1>19, <1>20, <1>21, <1>22, <1>23 DEF Tune

\* What the trailer holds decides, whatever the caller has passed.
LEMMA LoadedIs ==
  ASSUME NEW caller \in Callers, trailer = [f \in SavedFields |-> conf[f]]
  PROVE  /\ Compressor(Loaded(caller)) = Compressor(conf)
         /\ Loaded(caller).dims = conf.dims /\ Loaded(caller).num = conf.num
<1> PICK c : c = Loaded(caller)
  OBVIOUS
<1>1. DOMAIN caller = ConfigFields /\ DOMAIN trailer = SavedFields
  BY CallersAssumption
<1>2. SavedFields \subseteq ConfigFields
  BY DEF SavedFields, ConfigFields
<1>3. \A f \in SavedFields : c[f] = conf[f]
  BY <1>1, <1>2 DEF Loaded
<1>4. /\ c.dims = conf.dims /\ c.num = conf.num
      /\ c.cmprAlgo = conf.cmprAlgo /\ c.methods = conf.methods
  BY <1>3 DEF SavedFields
<1> QED
  BY <1>4 DEF Compressor, N

\* Every step keeps what has been written in step with conf.
LEMMA WrittenNext == Shape /\ Lent /\ Written /\ [Next]_vars => Written'
<1> SUFFICES ASSUME Shape, Lent, Written, [Next]_vars PROVE Written'
  OBVIOUS
<1> USE DEF Written
<1>1. CASE Tune /\ UNCHANGED <<stream, trailer, decoder>>
  <2>1. /\ pc \notin {"dispatch", "compress", "save", "stored", "decoded", "exited"}
        /\ pc' \notin {"save", "stored", "decoded"}
    BY <1>1, TuneBefore
  <2> QED
    BY <1>1, <2>1
<1>2. CASE Dispatch
  BY <1>2 DEF Dispatch
<1>3. CASE Compress
  <2>1. /\ conf.absErrorBound = AbsBound(given) /\ conf.dims = given.dims
        /\ conf' = conf /\ given' = given
    BY <1>3 DEF Compress, Lent, Settled
  <2>2. Compressor(conf') = Compressor(conf) /\ Header(conf') = Header(conf)
    BY <2>1
  <2>3. stream = None
    BY <1>3 DEF Compress
  <2>4. CASE Buildable(conf)
    BY <1>3, <2>1, <2>2, <2>4 DEF Compress
  <2>5. CASE ~Buildable(conf)
    BY <1>3, <2>1, <2>3, <2>5 DEF Compress
  <2> QED
    BY <2>4, <2>5
<1>4. CASE Save
  BY <1>4 DEF Save
<1>5. CASE Decompress
  <2>1. trailer = [f \in SavedFields |-> conf[f]]
    BY <1>5 DEF Decompress
  <2>2. PICK caller \in Callers :
          LET c == Loaded(caller)
          IN  IF c.cmprAlgo \in {"INTERP", "LORENZO_REG"} /\ Buildable(c)
              THEN /\ decoder' = [compressor |-> Compressor(c), dims |-> c.dims, num |-> c.num]
                   /\ pc' = "decoded"
              ELSE pc' = "exited" /\ UNCHANGED decoder
    BY <1>5, Zenon DEF Decompress
  <2>3. /\ Compressor(Loaded(caller)) = Compressor(conf)
        /\ Loaded(caller).dims = conf.dims /\ Loaded(caller).num = conf.num
    BY <2>1, LoadedIs
  <2>4. UNCHANGED <<given, conf, stream, trailer>> /\ pc = "stored"
    BY <1>5 DEF Decompress
  <2> QED
    BY <2>2, <2>3, <2>4
<1>6. CASE UNCHANGED vars
  BY <1>6 DEF vars, tuningVars
<1> QED
  BY <1>1, <1>2, <1>3, <1>4, <1>5, <1>6 DEF Next

\* SZ_decompress builds the compressor that wrote the stream, and room for as many values
\* as there were (DecoderBuilds), for every input and whatever configuration it is called
\* with: the trailer has all that the choice depends on.
THEOREM AlwaysDecoderBuilds == Spec => []DecoderBuilds
<1>1. Init => Shape /\ Lent /\ Written
  BY ShapeInit, LentInit, WrittenInit
<1>2. Shape /\ Lent /\ Written /\ [Next]_vars => (Shape /\ Lent /\ Written)'
  BY ShapeNext, LentNext, WrittenNext
<1>3. Lent /\ Written => DecoderBuilds
  BY DEF Lent, Written, DecoderBuilds, Settled
<1> QED
  BY <1>1, <1>2, <1>3, PTL DEF Spec

-----------------------------------------------------------------------------
(* The levels of a sample, and the loop over them.                         *)

\* Where predictor tuning is, and where B-M tuning.
Predicting ==
  {"predictor", "lorenzo_cr", "levels", "freeze", "freeze_levels", "levels_end", "flat",
   "restore"}

\* Where B-M tuning is.
Scaling == {"bm_loop", "bm_scaled", "bm_lorenzo", "bm_end"}

\* Each needs its rate, and the level loop a level.
Rates ==
  /\ pc \in Predicting => conf.predictorTuningRate > 0
  /\ pc \in Scaling => conf.autoTuningRate > 0
  /\ pc \in {"levels", "freeze", "freeze_levels", "levels_end"} => conf.levelwise > 0
  /\ pc \in {"lorenzo_cr", "levels", "freeze_levels"} => level \in 0 .. conf.levelwise
  /\ pc = "lorenzo_cr" => level = conf.levelwise

\* The rates are the input's at the start.
LEMMA RatesInit == Init => Rates
BY DEF Init, InitTuning, Rates, Predicting, Scaling

\* Every step keeps a tuning with a rate to tune at.
LEMMA RatesNext == Shape /\ Sized /\ Rates /\ [Next]_vars => Rates'
<1> SUFFICES ASSUME Shape, Sized, Rates, [Next]_vars PROVE Rates'
  OBVIOUS
<1>0. conf.levelwise \in Nat
  BY DEF Sized, Numbers
<1> USE DEF Shape, Rates, Predicting, Scaling, ConfigFields, OnSamples, Between
<1>1. CASE Start
  BY <1>1 DEF Start
<1>2. CASE Size
  BY <1>2 DEF Size
<1>3. CASE Profile
  BY <1>3 DEF Profile
<1>4. CASE PredictorStart
  BY <1>0, <1>4 DEF PredictorStart, OnSample, Sampled
<1>5. CASE LorenzoRatio
  BY <1>5 DEF LorenzoRatio, CompressTest, Trial
<1>6. CASE TuneLevel
  BY <1>0, <1>6 DEF TuneLevel, TryLevel, Trial
<1>7. CASE LevelsDone
  BY <1>7 DEF LevelsDone, Sampled
<1>8. CASE Freeze
  BY <1>0, <1>8 DEF Freeze, CompressTest, Trial
<1>9. CASE FreezeLevel
  BY <1>0, <1>9 DEF FreezeLevel, TryLevel, Trial
<1>10. CASE FreezeDone
  BY <1>10 DEF FreezeDone, CompressTest, Trial, Sampled
<1>11. CASE LevelsEnd
  BY <1>11 DEF LevelsEnd, CompressTest, Trial
<1>12. CASE TuneFlat
  BY <1>12 DEF TuneFlat, CompressTest, Trial
<1>13. CASE Restore
  BY <1>13 DEF Restore, Restored
<1>14. CASE TuneSz3
  BY <1>14 DEF TuneSz3
<1>15. CASE BmStart
  BY <1>15 DEF BmStart, OnSample, Sampled
<1>16. CASE BmPreset
  BY <1>16 DEF BmPreset
<1>17. CASE BmPair
  BY <1>17, BmPairKeeps
<1>18. CASE BmScaled
  BY <1>18 DEF BmScaled, CompressTest, Trial
<1>19. CASE BmLoopDone
  BY <1>19 DEF BmLoopDone
<1>20. CASE BmLorenzo
  BY <1>20 DEF BmLorenzo, CompressTest, Trial
<1>21. CASE BmEnd
  BY <1>21 DEF BmEnd
<1>22. CASE Finish
  BY <1>22 DEF Finish
<1>23. CASE LorenzoTune
  BY <1>23, LorenzoTuneKeeps
<1>24. CASE Dispatch
  BY <1>24 DEF Dispatch
<1>25. CASE Compress
  BY <1>25 DEF Compress
<1>26. CASE Save
  BY <1>26 DEF Save
<1>27. CASE Decompress
  BY <1>27 DEF Decompress
<1>28. CASE UNCHANGED vars
  BY <1>28 DEF vars, tuningVars
<1> QED
  BY <1>1, <1>2, <1>3, <1>4, <1>5, <1>6, <1>7, <1>8, <1>9, <1>10, <1>11, <1>12, <1>13,
     <1>14, <1>15, <1>16, <1>17, <1>18, <1>19, <1>20, <1>21, <1>22, <1>23, <1>24, <1>25,
     <1>26, <1>27, <1>28 DEF Next, Tune

\* The top level coded of conf's array; with anchors one less than it has.
Top(c) == IF c.maxStep > 0 THEN InterpolationLevel(c) - 1 ELSE InterpolationLevel(c)

\* No length of an array needs more than 31 levels.
LEMMA Pow2Of31 == Pow2[31] > IntMax
<1>1. \A n \in Nat : Pow2[n] \in Nat /\ Pow2[n + 1] = 2 * Pow2[n]
  BY Pow2Is
<1>2. Pow2[0] = 1
  BY Pow2Is
<1>3. /\ Pow2[0 + 1] = 2 * Pow2[0] /\ Pow2[1 + 1] = 2 * Pow2[1] /\ Pow2[2 + 1] = 2 * Pow2[2]
      /\ Pow2[3 + 1] = 2 * Pow2[3] /\ Pow2[4 + 1] = 2 * Pow2[4] /\ Pow2[5 + 1] = 2 * Pow2[5]
      /\ Pow2[6 + 1] = 2 * Pow2[6] /\ Pow2[7 + 1] = 2 * Pow2[7] /\ Pow2[8 + 1] = 2 * Pow2[8]
      /\ Pow2[9 + 1] = 2 * Pow2[9] /\ Pow2[10 + 1] = 2 * Pow2[10]
      /\ Pow2[11 + 1] = 2 * Pow2[11] /\ Pow2[12 + 1] = 2 * Pow2[12]
      /\ Pow2[13 + 1] = 2 * Pow2[13] /\ Pow2[14 + 1] = 2 * Pow2[14]
      /\ Pow2[15 + 1] = 2 * Pow2[15] /\ Pow2[16 + 1] = 2 * Pow2[16]
  BY <1>1, SMT
<1>4. /\ Pow2[17 + 1] = 2 * Pow2[17] /\ Pow2[18 + 1] = 2 * Pow2[18]
      /\ Pow2[19 + 1] = 2 * Pow2[19] /\ Pow2[20 + 1] = 2 * Pow2[20]
      /\ Pow2[21 + 1] = 2 * Pow2[21] /\ Pow2[22 + 1] = 2 * Pow2[22]
      /\ Pow2[23 + 1] = 2 * Pow2[23] /\ Pow2[24 + 1] = 2 * Pow2[24]
      /\ Pow2[25 + 1] = 2 * Pow2[25] /\ Pow2[26 + 1] = 2 * Pow2[26]
      /\ Pow2[27 + 1] = 2 * Pow2[27] /\ Pow2[28 + 1] = 2 * Pow2[28]
      /\ Pow2[29 + 1] = 2 * Pow2[29] /\ Pow2[30 + 1] = 2 * Pow2[30]
  BY <1>1, SMT
<1>5. Pow2[17] = 131072
  BY <1>2, <1>3, SMT
<1>6. Pow2[31] = 2147483648
  BY <1>4, <1>5, SMT
<1> QED
  BY <1>6, SMT DEF IntMax

\* The edges of a cube are all the same.
LEMMA MaxOfCube ==
  ASSUME NEW n \in Nat \ {0}, NEW size \in Nat
  PROVE  Max(Edges(Cube(n, size))) = size
<1> PICK d : d = Cube(n, size)
  OBVIOUS
<1>1. DOMAIN d = 1 .. n /\ \A i \in 1 .. n : d[i] = size
  BY DEF Cube
<1>2. 1 \in 1 .. n
  OBVIOUS
<1>3. Edges(d) \in SUBSET Int /\ size \in Edges(d) /\ \A x \in Edges(d) : x <= size
  BY <1>1, <1>2 DEF Edges
<1> QED
  BY <1>3, MaxIs

\* A sample has a level above every one that is selected for, and fewer than the
\* number that asks for all of them.
LEMMA SampleLevels ==
  ASSUME Shape, Lent, Sized, Rates, pc \in OnSamples
  PROVE  /\ InterpolationLevel(conf) \in Nat /\ conf.levelwise \in Nat
         /\ conf.maxStep \in Nat
         /\ conf.levelwise < InterpolationLevel(conf)
         /\ InterpolationLevel(conf) < 9999
<1>1. /\ SampleFits /\ conf.maxStep \in Nat /\ conf.levelwise \in Nat
      /\ conf.sampleBlockSize \in Nat /\ conf.sampleBlockSize < IntMax
  <2>1. Tuned
    BY DEF Rates, Tuned, OnSamples, Predicting, Scaling
  <2> QED
    BY <2>1 DEF Sized, Numbers
<1> PICK s : s = conf.sampleBlockSize
  OBVIOUS
<1> PICK full : full = CeilLog2(s + 1)
  OBVIOUS
<1>2. /\ s \in Nat /\ s >= 8 /\ s < IntMax /\ conf.levelwise <= FloorLog2(s)
      /\ conf.maxStep > 0 => conf.levelwise <= FloorLog2(conf.maxStep)
  BY <1>1 DEF SampleFits
<1>3. full = FloorLog2(s) + 1 /\ FloorLog2(s) \in Nat
  <2>1. s \in Nat \ {0}
    BY <1>2
  <2> QED
    BY <2>1, LogsAgree, FloorLog2Is
<1>4. full < 9999
  <2>1. s + 1 \in Nat \ {0}
    BY <1>2
  <2>2. full \in Nat /\ (full = 0 \/ Pow2[full - 1] < s + 1)
    BY <2>1, CeilLog2Is
  <2>3. ASSUME full >= 9999 PROVE FALSE
    <3>1. full - 1 \in Nat /\ 31 \in Nat /\ 31 <= full - 1 /\ full # 0
      BY <2>2, <2>3
    <3>2. Pow2[31] <= Pow2[full - 1] /\ Pow2[31] \in Nat /\ Pow2[full - 1] \in Nat
      BY <3>1, Pow2Grows, Pow2Is
    <3>3. IntMax \in Nat /\ Pow2[31] > IntMax
      BY IntMaxIs, Pow2Of31
    <3> QED
      BY <1>2, <2>2, <3>1, <3>2, <3>3
  <2> QED
    BY <2>2, <2>3
<1>5. Max(Edges(conf.dims)) = s + 1
  <2>1. N(given) \in Nat \ {0}
    BY <1>1 DEF SampleFits
  <2>2. conf.dims = Cube(N(given), s + 1)
    BY DEF Lent
  <2> QED
    BY <1>2, <2>1, <2>2, MaxOfCube
<1>6. CASE conf.maxStep = 0
  <2>1. InterpolationLevel(conf) = full
    BY <1>5, <1>6 DEF InterpolationLevel
  <2> QED
    BY <1>1, <1>2, <1>3, <1>4, <2>1
<1>7. CASE conf.maxStep # 0
  <2> PICK f : f = FloorLog2(conf.maxStep)
    OBVIOUS
  <2>1. f \in Nat /\ conf.levelwise <= f
    BY <1>1, <1>2, <1>7, FloorLog2Is
  <2> PICK all : all = InterpolationLevel(conf)
    OBVIOUS
  <2>2. all = Min({full, f + 1})
    BY <1>5, <1>7 DEF InterpolationLevel
  <2>3. all = IF full <= f + 1 THEN full ELSE f + 1
    BY <1>3, <2>1, <2>2, MinOfTwo
  <2> QED
    BY <1>1, <1>2, <1>3, <1>4, <2>1, <2>3
<1> QED
  BY <1>6, <1>7

\* The trials so far have taken every level from levelwise down to the next one alone,
\* but the first has taken all above along.
Covered ==
  /\ DOMAIN seen = 1 .. conf.levelwise - level
  /\ \A i \in 1 .. conf.levelwise - level :
       seen[i] = (conf.levelwise - i + 1)
                   .. (IF i = 1 THEN Top(conf) ELSE conf.levelwise - i + 1)

\* No level has been tried twice.
Apart == \A i, j \in DOMAIN seen : i # j => seen[i] \cap seen[j] = {}

\* While the loop runs and when it ends.
Looped ==
  /\ Apart
  /\ pc \in {"dispatch", "tune", "size", "profile", "predictor", "lorenzo_cr"} => seen = <<>>
  /\ pc \in {"lorenzo_cr", "levels", "freeze_levels"} => seen \in Seq(SUBSET Int) /\ Covered

\* No level has been tried at the start.
LEMMA LoopedInit == Init => Looped
BY DEF Init, InitTuning, Looped, Apart

\* What the next trial of the loop takes.
LEMMA LevelRangeIs ==
  ASSUME Shape, Lent, Sized, Rates, pc \in {"levels", "freeze_levels"}, level > 0
  PROVE  LevelRange(conf) = level .. (IF level = conf.levelwise THEN Top(conf) ELSE level)
<1> PICK all : all = InterpolationLevel(conf)
  OBVIOUS
<1>1. /\ all \in Nat /\ conf.levelwise \in Nat /\ conf.levelwise < all /\ all < 9999
      /\ level \in 0 .. conf.levelwise
  BY SampleLevels DEF OnSamples, Rates
<1>2. CASE level = conf.levelwise
  BY <1>1, <1>2, SMT DEF LevelRange, CodedLevels, Top
<1>3. CASE level # conf.levelwise
  BY <1>1, <1>3 DEF LevelRange, CodedLevels, Top
<1> QED
  BY <1>2, <1>3

\* A call without a range of its own codes all levels up to the top one.
LEMMA AllCodedLevels ==
  ASSUME Shape, Lent, Sized, Rates, pc \in OnSamples
  PROVE  CodedLevels(conf, 0, 0) = 1 .. Top(conf) /\ Top(conf) \in Nat
         /\ conf.levelwise <= Top(conf)
<1> PICK all : all = InterpolationLevel(conf)
  OBVIOUS
<1>1. /\ all \in Nat /\ conf.levelwise \in Nat /\ conf.levelwise < all
  BY SampleLevels
<1> QED
  BY <1>1 DEF CodedLevels, Top

\* One more level.
LEMMA TryLevelCovers ==
  ASSUME Shape, Lent, Sized, Rates, Looped, pc \in {"levels", "freeze_levels"},
         NEW candidates, TryLevel(candidates)
  PROVE  Apart' /\ seen' \in Seq(SUBSET Int) /\ Covered' /\ pc' = pc
<1> PICK r : r = LevelRange(conf)
  OBVIOUS
<1> PICK lw : lw = conf.levelwise
  OBVIOUS
<1> PICK top : top = Top(conf)
  OBVIOUS
<1>1. /\ lw \in Nat /\ top \in Nat /\ level \in 1 .. lw
      /\ r = level .. (IF level = lw THEN top ELSE level)
  BY SampleLevels, AllCodedLevels, LevelRangeIs DEF OnSamples, Rates, TryLevel
<1>2. seen' = Append(seen, r) /\ seen \in Seq(SUBSET Int) /\ level' = level - 1 /\ pc' = pc
  BY DEF TryLevel, Looped
<1>3. /\ DOMAIN seen = 1 .. lw - level
      /\ \A i \in 1 .. lw - level : seen[i] = (lw - i + 1) .. (IF i = 1 THEN top ELSE lw - i + 1)
  BY DEF Looped, Covered
<1>4. r \in SUBSET Int
  BY <1>1
<1>5. Len(seen) = lw - level
  BY <1>1, <1>2, <1>3
<1>6. /\ seen' \in Seq(SUBSET Int) /\ DOMAIN seen' = 1 .. (lw - level) + 1
      /\ \A i \in 1 .. lw - level : seen'[i] = seen[i]
      /\ seen'[(lw - level) + 1] = r
  BY <1>1, <1>2, <1>4, <1>5
<1>7. conf'.levelwise = lw /\ Top(conf') = top
  BY DEF TryLevel, Top, InterpolationLevel, Shape, ConfigFields
<1>8. \A i \in 1 .. lw - (level - 1) :
        seen'[i] = (lw - i + 1) .. (IF i = 1 THEN top ELSE lw - i + 1)
  <2> SUFFICES ASSUME NEW i \in 1 .. lw - (level - 1)
               PROVE  seen'[i] = (lw - i + 1) .. (IF i = 1 THEN top ELSE lw - i + 1)
    OBVIOUS
  <2>1. CASE i = (lw - level) + 1
    <3>1. lw - i + 1 = level /\ (i = 1 <=> level = lw)
      BY <1>1, <2>1
    <3> QED
      BY <1>1, <1>6, <2>1, <3>1
  <2>2. CASE i # (lw - level) + 1
    <3>1. i \in 1 .. lw - level
      BY <1>1, <2>2
    <3> QED
      BY <1>3, <1>6, <3>1
  <2> QED
    BY <2>1, <2>2
<1>9. Covered'
  <2>1. lw - (level - 1) = (lw - level) + 1
    BY <1>1
  <2> QED
    BY <1>2, <1>6, <1>7, <1>8, <2>1 DEF Covered
<1>10. Apart'
  <2> SUFFICES ASSUME NEW i \in DOMAIN seen', NEW j \in DOMAIN seen', i # j,
                      NEW x \in seen'[i] \cap seen'[j]
               PROVE  FALSE
    BY DEF Apart
  <2>1. i \in 1 .. lw - (level - 1) /\ j \in 1 .. lw - (level - 1)
    BY <1>1, <1>6
  <2>2. /\ x \in (lw - i + 1) .. (IF i = 1 THEN top ELSE lw - i + 1)
        /\ x \in (lw - j + 1) .. (IF j = 1 THEN top ELSE lw - j + 1)
    BY <1>8, <2>1
  <2> QED
    BY <1>1, <2>1, <2>2
<1> QED
  BY <1>2, <1>6, <1>9, <1>10

\* Every step keeps the levels tried apart, and down to where the loop is.
LEMMA LoopedNext == Shape /\ Lent /\ Sized /\ Rates /\ Looped /\ [Next]_vars => Looped'
<1> SUFFICES ASSUME Shape, Lent, Sized, Rates, Looped, [Next]_vars PROVE Looped'
  OBVIOUS
<1>0. conf.levelwise \in Nat
  BY DEF Sized, Numbers
<1> USE DEF Shape, Looped, ConfigFields, OnSamples, Between
<1>1. CASE Start
  BY <1>1 DEF Start, Apart
<1>2. CASE Size
  BY <1>2 DEF Size, Apart
<1>3. CASE Profile
  BY <1>3 DEF Profile, Apart
<1>4. CASE PredictorStart
  BY <1>0, <1>4 DEF PredictorStart, OnSample, Sampled, Covered, Apart
<1>5. CASE LorenzoRatio
  BY <1>5 DEF LorenzoRatio, CompressTest, Covered, Apart, Top, InterpolationLevel
<1>6. CASE TuneLevel
  BY <1>6, TryLevelCovers DEF TuneLevel
<1>7. CASE LevelsDone
  BY <1>7 DEF LevelsDone, Sampled, Apart
<1>8. CASE Freeze
  BY <1>0, <1>8 DEF Freeze, CompressTest, Trial, Covered, Apart
<1>9. CASE FreezeLevel
  BY <1>9, TryLevelCovers DEF FreezeLevel
<1>10. CASE FreezeDone
  BY <1>10 DEF FreezeDone, CompressTest, Trial, Sampled, Apart
<1>11. CASE LevelsEnd
  BY <1>11 DEF LevelsEnd, CompressTest, Trial, Apart
<1>12. CASE TuneFlat
  BY <1>12 DEF TuneFlat, CompressTest, Trial, Apart
<1>13. CASE Restore
  BY <1>13 DEF Restore, Restored, Apart
<1>14. CASE TuneSz3
  BY <1>14 DEF TuneSz3, Apart
<1>15. CASE BmStart
  BY <1>15 DEF BmStart, OnSample, Sampled, Apart
<1>16. CASE BmPreset
  BY <1>16 DEF BmPreset, Apart
<1>17. CASE BmPair
  BY <1>17, BmPairKeeps DEF Apart
<1>18. CASE BmScaled
  BY <1>18 DEF BmScaled, CompressTest, Trial, Apart
<1>19. CASE BmLoopDone
  BY <1>19 DEF BmLoopDone, Apart
<1>20. CASE BmLorenzo
  BY <1>20 DEF BmLorenzo, CompressTest, Trial, Apart
<1>21. CASE BmEnd
  BY <1>21 DEF BmEnd, Apart
<1>22. CASE Finish
  BY <1>22 DEF Finish, Apart
<1>23. CASE LorenzoTune
  BY <1>23, LorenzoTuneKeeps DEF Apart
<1>24. CASE Dispatch
  BY <1>24 DEF Dispatch, Apart
<1>25. CASE Compress
  BY <1>25 DEF Compress, Apart
<1>26. CASE Save
  BY <1>26 DEF Save, Apart
<1>27. CASE Decompress
  BY <1>27 DEF Decompress, Apart
<1>28. CASE UNCHANGED vars
  <2>1. UNCHANGED <<pc, conf, level, seen>>
    BY <1>28 DEF vars, tuningVars
  <2>2. Covered => Covered'
    BY <2>1, Zenon DEF Covered, Top, InterpolationLevel
  <2>3. Apart'
    BY <2>1, Zenon DEF Apart
  <2> QED
    BY <2>1, <2>2, <2>3
<1> QED
  BY <1>1, <1>2, <1>3, <1>4, <1>5, <1>6, <1>7, <1>8, <1>9, <1>10, <1>11, <1>12, <1>13,
     <1>14, <1>15, <1>16, <1>17, <1>18, <1>19, <1>20, <1>21, <1>22, <1>23, <1>24, <1>25,
     <1>26, <1>27, <1>28 DEF Next, Tune

\* The level loop tries every level of a sample exactly once, whatever the size of the
\* sample, the anchors and the number of levels selected for (LevelsOnce).
THEOREM AlwaysLevelsOnce == Spec => []LevelsOnce
<1>1. Init => Shape /\ Lent /\ Sized /\ Rates /\ Looped
  BY ShapeInit, LentInit, SizedInit, RatesInit, LoopedInit
<1>2. Shape /\ Lent /\ Sized /\ Rates /\ Looped /\ [Next]_vars
        => (Shape /\ Lent /\ Sized /\ Rates /\ Looped)'
  BY ShapeNext, LentNext, SizedNext, RatesNext, LoopedNext
<1>3. Shape /\ Lent /\ Sized /\ Rates /\ Looped => LevelsOnce
  <2> SUFFICES ASSUME Shape, Lent, Sized, Rates, Looped PROVE LevelsOnce
    OBVIOUS
  <2>1. ASSUME pc \in {"levels", "freeze_levels"}, level = 0
        PROVE  UNION Range(seen) = CodedLevels(conf, 0, 0)
    <3> PICK lw : lw = conf.levelwise
      OBVIOUS
    <3> PICK top : top = Top(conf)
      OBVIOUS
    <3>1. /\ lw \in Nat /\ lw > 0 /\ top \in Nat /\ lw <= top
          /\ CodedLevels(conf, 0, 0) = 1 .. top
      BY <2>1, SampleLevels, AllCodedLevels DEF OnSamples, Rates
    <3>2. /\ DOMAIN seen = 1 .. lw
          /\ \A i \in 1 .. lw : seen[i] = (lw - i + 1) .. (IF i = 1 THEN top ELSE lw - i + 1)
      BY <2>1, <3>1 DEF Looped, Covered
    <3>3. ASSUME NEW x \in 1 .. top PROVE x \in UNION Range(seen)
      <4> PICK i : i = IF x >= lw THEN 1 ELSE lw - x + 1
        OBVIOUS
      <4>1. i \in 1 .. lw /\ x \in (lw - i + 1) .. (IF i = 1 THEN top ELSE lw - i + 1)
        BY <3>1, <3>3
      <4>2. i \in DOMAIN seen /\ x \in seen[i]
        BY <3>2, <4>1
      <4> QED
        BY <4>2 DEF Range
    <3>4. ASSUME NEW x \in UNION Range(seen) PROVE x \in 1 .. top
      <4>1. PICK i \in 1 .. lw : x \in seen[i]
        BY <3>2, <3>4 DEF Range
      <4>2. x \in (lw - i + 1) .. (IF i = 1 THEN top ELSE lw - i + 1)
        BY <3>2, <4>1
      <4> QED
        BY <3>1, <4>2
    <3>5. UNION Range(seen) = 1 .. top
      BY <3>3, <3>4
    <3> QED
      BY <3>1, <3>5
  <2> QED
    BY <2>1 DEF LevelsOnce, Looped, Apart
<1> QED
  BY <1>1, <1>2, <1>3, PTL DEF Spec

-----------------------------------------------------------------------------
(* How many blocks are sampled.                                            *)

\* How many blocks of a size lie in an array.
TotalOf(dims, size) == Elements([i \in DOMAIN dims |-> Blocks(dims[i], size)])

\* How many blocks there are depends on the sides and the block size alone.
LEMMA TotalIs ==
  ASSUME NEW c, DOMAIN c = ConfigFields, NEW dims
  PROVE  /\ totalblock_num(c) = TotalOf(c.dims, c.sampleBlockSize)
         /\ totalblock_num([c EXCEPT !.dims = dims]) = TotalOf(dims, c.sampleBlockSize)
<1> DEFINE d == [c EXCEPT !.dims = dims]
<1>1. d.dims = dims /\ d.sampleBlockSize = c.sampleBlockSize
  BY DEF ConfigFields
<1> QED
  BY <1>1 DEF totalblock_num, TotalOf

\* A sample that is shorter than every edge has a place.
LEMMA TotalPositive ==
  ASSUME NEW dims \in Seq(Nat \ {0}), NEW size \in Nat \ {0}, \A i \in DOMAIN dims : size < dims[i]
  PROVE  TotalOf(dims, size) \in Nat \ {0}
<1> DEFINE b == [i \in DOMAIN dims |-> Blocks(dims[i], size)]
<1>1. \A i \in DOMAIN dims : b[i] \in Nat \ {0}
  <2> SUFFICES ASSUME NEW i \in DOMAIN dims PROVE b[i] \in Nat \ {0}
    OBVIOUS
  <2> PICK x : x = dims[i] - 1
    OBVIOUS
  <2> PICK q : q = x \div size
    OBVIOUS
  <2>1. x \in Nat /\ x >= size /\ b[i] = q
    BY DEF Blocks
  <2>2. q \in Nat /\ x < size * q + size
    BY <2>1, QuotientOf
  <2> QED
    BY <2>1, <2>2
<1>2. DOMAIN b = 1 .. Len(dims) /\ Len(dims) \in Nat
  OBVIOUS
<1> HIDE DEF b
<1>3. b \in Seq(Nat \ {0})
  <2>1. b = [i \in 1 .. Len(dims) |-> b[i]]
    BY <1>2 DEF b
  <2> QED
    BY <1>1, <1>2, <2>1
<1>4. \A i \in 1 .. 4 : i <= Len(b) => b[i] \in Nat \ {0}
  BY <1>1, <1>2, <1>3
<1> DEFINE d(i) == IF i <= Len(b) THEN b[i] ELSE 1
<1>5. d(1) \in Nat \ {0} /\ d(2) \in Nat \ {0} /\ d(3) \in Nat \ {0} /\ d(4) \in Nat \ {0}
  BY <1>4
<1>6. Elements(b) = d(1) * d(2) * d(3) * d(4)
  BY DEF Elements
<1> HIDE DEF d
<1>7. \A x, y \in Nat \ {0} : x * y \in Nat \ {0}
  <2> SUFFICES ASSUME NEW x \in Nat \ {0}, NEW y \in Nat \ {0} PROVE x * y \in Nat \ {0}
    OBVIOUS
  <2> QED
    OBVIOUS
<1>8. Elements(b) \in Nat \ {0}
  BY <1>5, <1>6, <1>7
<1> QED
  BY <1>8 DEF TotalOf, b

\* Every stride-th of some blocks is one of them at least, and not more than all.
LEMMA EveryIs ==
  ASSUME NEW count \in Nat \ {0}, NEW stride \in Nat \ {0}
  PROVE  (count + stride - 1) \div stride \in 1 .. count
<1> PICK x : x = count + stride - 1
  OBVIOUS
<1> PICK q : q = x \div stride
  OBVIOUS
<1>1. x \in Nat /\ x >= stride
  OBVIOUS
<1>2. q \in Nat /\ stride * q <= x /\ x < stride * q + stride
  BY <1>1, QuotientOf
<1>3. q # 0
  BY <1>1, <1>2
<1>4. ~(q > count)
  <2>1. ASSUME q > count PROVE FALSE
    <3> PICK e : e = q - 1 - count
      OBVIOUS
    <3>1. e \in Nat /\ q = 1 + count + e
      BY <1>2, <2>1
    <3>2. stride * q = stride + stride * count + stride * e
      BY <3>1
    <3>3. stride * count >= count /\ stride * e >= 0
      BY <3>1
    <3> QED
      BY <1>2, <3>1, <3>2, <3>3
  <2> QED
    BY <2>1
<1> QED
  BY <1>2, <1>3, <1>4

\* Profiling or not, varied blocks first or not: there is a block, and no more than there
\* are.  The one exception is var_first without profiling in 2 dimensions.
LEMMA SampledBlocksIs ==
  ASSUME NEW c, NEW rate \in 1 .. 999, NEW total \in Nat \ {0}, totalblock_num(c) = total,
         starts \in 0 .. total, c.profiling => starts >= 1,
         ~c.profiling /\ c.var_first => N(c) = 3
  PROVE  SampledBlocks(c, rate) \in 1 .. total
<1>1. ASSUME NEW most \in 1 .. total, NEW q \in Nat
      PROVE  Max({1, Min({q, most})}) \in 1 .. total
  <2> PICK m : m = Min({q, most})
    OBVIOUS
  <2>1. m = IF q <= most THEN q ELSE most
    BY MinOfTwo
  <2>2. m \in Nat /\ m <= total
    BY <2>1
  <2>3. \A x \in Nat : Max({1, x}) = IF 1 >= x THEN 1 ELSE x
    BY MaxOfTwo
  <2> QED
    BY <2>2, <2>3
<1>2. ASSUME NEW s \in Nat PROVE Max({1, s}) \in Nat \ {0}
  BY MaxOfTwo
<1>3. (total * rate) \div 1000 \in Nat /\ (starts * 1000) \div (total * rate) \in Nat
  <2>1. total * rate \in Nat \ {0} /\ starts * 1000 \in Nat /\ 1000 \in Nat \ {0}
    OBVIOUS
  <2> QED
    BY <2>1, QuotientOf
<1>4. ASSUME NEW count \in Nat \ {0}, NEW s \in Nat
      PROVE  (count + Max({1, s}) - 1) \div Max({1, s}) \in 1 .. count
  <2> PICK stride : stride = Max({1, s})
    OBVIOUS
  <2>1. stride \in Nat \ {0}
    BY <1>2
  <2> QED
    BY <2>1, EveryIs
<1>7. CASE c.profiling /\ c.var_first
  <2> PICK q : q = (total * rate) \div 1000
    OBVIOUS
  <2>1. starts \in 1 .. total /\ q \in Nat
    BY <1>3, <1>7
  <2>2. SampledBlocks(c, rate) = Max({1, Min({q, starts})})
    BY <1>7 DEF SampledBlocks
  <2> QED
    BY <1>1, <2>1, <2>2
<1>8. CASE c.profiling /\ ~c.var_first
  <2> DEFINE q == (starts * 1000) \div (total * rate)
  <2>1. starts \in Nat \ {0} /\ starts <= total /\ q \in Nat
    BY <1>3, <1>8
  <2>2. SampledBlocks(c, rate) = (starts + Max({1, q}) - 1) \div Max({1, q})
    BY <1>8 DEF SampledBlocks
  <2> HIDE DEF q
  <2>3. (starts + Max({1, q}) - 1) \div Max({1, q}) \in 1 .. starts
    BY <1>4, <2>1
  <2> QED
    BY <2>1, <2>2, <2>3
<1>5. CASE ~c.profiling /\ ~c.var_first
  <2>1. 1000 \div rate \in Nat
    <3>1. 1000 \in Nat /\ rate \in Nat \ {0}
      OBVIOUS
    <3> QED
      BY <3>1, QuotientOf
  <2>2. SampledBlocks(c, rate)
          = (total + Max({1, 1000 \div rate}) - 1) \div Max({1, 1000 \div rate})
    BY <1>5 DEF SampledBlocks
  <2> QED
    BY <1>4, <2>1, <2>2
<1>6. CASE ~c.profiling /\ c.var_first
  <2> PICK q : q = (total * rate) \div 1000
    OBVIOUS
  <2>1. N(c) = 3 /\ total \in 1 .. total /\ q \in Nat
    BY <1>3, <1>6
  <2>2. SampledBlocks(c, rate) = Max({1, Min({q, total})})
    BY <1>6, <2>1 DEF SampledBlocks
  <2> QED
    BY <1>1, <2>1, <2>2
<1> QED
  BY <1>5, <1>6, <1>7, <1>8

\* How many blocks a sample of this size has in the array.
Total == TotalOf(given.dims, conf.sampleBlockSize)

\* Blocks are sampled from those there are, at least one if they are to be tried.
Sampling ==
  /\ conf.var_first = given.var_first
  /\ pc \in {"dispatch", "tune", "size", "profile"} => trial = NoTrial
  /\ pc \in OnSamples \cup Between /\ Tuned =>
       /\ starts \in 0 .. Total
       /\ conf.profiling => starts >= 1
  /\ pc \in OnSamples => samples.blocks \in 1 .. Total
  /\ pc = "bm" /\ conf.predictorTuningRate > 0 => samples.blocks \in 1 .. Total
  /\ trial.stage # "none" =>
       /\ trial.dims = Cube(N(given), conf.sampleBlockSize + 1)
       /\ trial.num = Elements(trial.dims)
       /\ ~trial.blockwise
       /\ trial.blocks \in 1 .. Total

\* var_first is not used in 2 dimensions, where without profiling it takes no block.
VariedTaken == \A c \in Inputs : c.var_first => N(c) # 2

\* No block has been sampled at the start.
LEMMA SamplingInit == Init => Sampling
BY DEF Init, InitTuning, Sampling, OnSamples, Between, NoTrial

\* The order of sampling is the caller's.
LEMMA StartedKeepsFirst ==
  ASSUME NEW c, DOMAIN c = ConfigFields
  PROVE  Started(c).var_first = c.var_first
<1>1. ASSUME NEW x, DOMAIN x = ConfigFields PROVE Defaults(x).var_first = x.var_first
  BY SMTT(60) DEF Defaults, ConfigFields
<1>2. CASE N(c) \in {2, 3}
  BY <1>1, <1>2 DEF Started
<1>3. CASE N(c) \notin {2, 3}
  <2> PICK d : d = Disabled(c)
    OBVIOUS
  <2>1. DOMAIN d = ConfigFields /\ d.var_first = c.var_first
    BY DEF Disabled, ConfigFields
  <2> QED
    BY <1>1, <1>3, <2>1 DEF Started
<1> QED
  BY <1>2, <1>3

\* Samples are taken of the array, whether conf describes it or a sample at the time.
LEMMA SampledIs ==
  ASSUME VariedTaken, Shape, Lent, Sized, Sampling, pc \in OnSamples \cup Between, Tuned,
         NEW c, c \in {conf, [conf EXCEPT !.dims = saved.dims]}, pc \in Between => c = conf,
         pc \in OnSamples => c = [conf EXCEPT !.dims = saved.dims],
         NEW rate \in 1 .. 999
  PROVE  SampledBlocks(c, rate) \in 1 .. Total
<1>1. /\ SampleFits /\ Numbers(conf) /\ DOMAIN conf = ConfigFields
      /\ starts \in 0 .. Total /\ (conf.profiling => starts >= 1)
      /\ given.dims \in Seq(Nat \ {0})
  BY GivenIs DEF Sized, Shape, Sampling
<1>2. conf.sampleBlockSize \in Nat \ {0} /\ Total \in Nat \ {0}
  BY <1>1, TotalPositive DEF SampleFits, Numbers, Total
<1>3. /\ c.dims = given.dims /\ c.profiling = conf.profiling
      /\ c.var_first = given.var_first /\ totalblock_num(c) = Total
  <2>1. CASE pc \in Between
    <3>1. c = conf /\ conf.dims = given.dims
      BY <2>1 DEF Lent
    <3> QED
      BY <1>1, <3>1, TotalIs DEF Sampling, Total
  <2>2. CASE pc \in OnSamples
    <3>1. c = [conf EXCEPT !.dims = given.dims]
      BY <2>2 DEF Lent
    <3>2. totalblock_num(c) = Total
      BY <1>1, <3>1, TotalIs DEF Total
    <3> QED
      BY <1>1, <3>1, <3>2 DEF Sampling, ConfigFields
  <2> QED
    BY <2>1, <2>2
<1>4. c.var_first => N(c) = 3
  <2>1. given.var_first => N(given) # 2
    BY DEF VariedTaken, Shape
  <2>2. N(c) = N(given) /\ N(given) \in {2, 3}
    BY <1>1, <1>3 DEF N, SampleFits
  <2> QED
    BY <1>3, <2>1, <2>2
<1> HIDE DEF Total
<1>5. Total \in Nat \ {0} /\ starts \in 0 .. Total /\ (c.profiling => starts >= 1)
  BY <1>1, <1>2, <1>3
<1> QED
  BY <1>3, <1>4, <1>5, SampledBlocksIs

\* What Size and Profile leave to the sampling.
LEMMA ProfileSamples ==
  ASSUME Shape, Lent, Sized, Sampling, Profile
  PROVE  /\ Tuned' => starts' \in 0 .. Total' /\ (conf'.profiling => starts' >= 1)
         /\ conf'.var_first = conf.var_first /\ given' = given /\ trial' = trial
         /\ pc' \in {"predictor", "sz3"}
<1>1. /\ DOMAIN conf = ConfigFields /\ conf.dims = given.dims /\ pc = "profile"
  BY DEF Shape, Lent, Profile
<1>2. totalblock_num(conf) = Total
  BY <1>1, TotalIs DEF Total
<1>3. Tuned' = Tuned /\ Total' = Total /\ given' = given /\ trial' = trial
      /\ conf'.var_first = conf.var_first /\ pc' \in {"predictor", "sz3"}
  BY <1>1 DEF Profile, Tuned, Total, ConfigFields
<1>4. ASSUME Tuned PROVE Total \in Nat \ {0}
  <2>1. SampleFits /\ Numbers(conf) /\ given.dims \in Seq(Nat \ {0})
    BY <1>1, <1>4, GivenIs DEF Sized
  <2> QED
    BY <2>1, TotalPositive DEF SampleFits, Numbers, Total
<1>5. starts' \in IF conf.profiling /\ (conf.autoTuningRate > 0 \/ conf.predictorTuningRate > 0)
                  THEN {0, 1, Total} \cap 0 .. Total ELSE {0}
  BY <1>2 DEF Profile
<1>6. conf'.profiling = (conf.profiling /\ starts' > 0)
  BY <1>1 DEF Profile, ConfigFields
<1>7. ASSUME Tuned PROVE starts' \in 0 .. Total /\ (conf'.profiling => starts' >= 1)
  <2>1. starts' \in 0 .. Total
    BY <1>4, <1>5, <1>7
  <2>2. conf'.profiling => starts' > 0
    BY <1>6, Zenon
  <2> QED
    BY <1>4, <1>7, <2>1, <2>2
<1> QED
  BY <1>3, <1>7

\* Only Profile fills starts, and every other action leaves what the sampling goes by.
LEMMA StartsFixed ==
  ASSUME Shape, [Next]_vars, pc \notin {"dispatch", "tune", "size", "profile"}
  PROVE  /\ starts' = starts /\ conf'.profiling = conf.profiling
         /\ pc' \notin {"dispatch", "tune", "size", "profile"}
<1> USE DEF Shape, ConfigFields, OnSamples, Between
<1>1. CASE Start
  BY <1>1 DEF Start
<1>2. CASE Size
  BY <1>2 DEF Size
<1>3. CASE Profile
  BY <1>3 DEF Profile
<1>4. CASE PredictorStart
  BY <1>4 DEF PredictorStart, OnSample, Sampled
<1>5. CASE LorenzoRatio
  BY <1>5 DEF LorenzoRatio, CompressTest, Trial
<1>6. CASE TuneLevel
  BY <1>6 DEF TuneLevel, TryLevel, Trial
<1>7. CASE LevelsDone
  BY <1>7 DEF LevelsDone, Sampled
<1>8. CASE Freeze
  BY <1>8 DEF Freeze, CompressTest, Trial
<1>9. CASE FreezeLevel
  BY <1>9 DEF FreezeLevel, TryLevel, Trial
<1>10. CASE FreezeDone
  BY <1>10 DEF FreezeDone, CompressTest, Trial, Sampled
<1>11. CASE LevelsEnd
  BY <1>11 DEF LevelsEnd, CompressTest, Trial
<1>12. CASE TuneFlat
  BY <1>12 DEF TuneFlat, CompressTest, Trial
<1>13. CASE Restore
  BY <1>13 DEF Restore, Restored
<1>14. CASE TuneSz3
  BY <1>14 DEF TuneSz3
<1>15. CASE BmStart
  BY <1>15 DEF BmStart, OnSample, Sampled
<1>16. CASE BmPreset
  BY <1>16 DEF BmPreset
<1>17. CASE BmPair
  BY <1>17 DEF BmPair, CompressTest
<1>18. CASE BmScaled
  BY <1>18 DEF BmScaled, CompressTest, Trial
<1>19. CASE BmLoopDone
  BY <1>19 DEF BmLoopDone
<1>20. CASE BmLorenzo
  BY <1>20 DEF BmLorenzo, CompressTest, Trial
<1>21. CASE BmEnd
  BY <1>21 DEF BmEnd
<1>22. CASE Finish
  BY <1>22 DEF Finish
<1>23. CASE LorenzoTune
  BY <1>23, LorenzoTuneKeeps
<1>24. CASE Dispatch
  BY <1>24 DEF Dispatch
<1>25. CASE Compress
  BY <1>25 DEF Compress
<1>26. CASE Save
  BY <1>26 DEF Save
<1>27. CASE Decompress
  BY <1>27 DEF Decompress
<1>28. CASE UNCHANGED vars
  BY <1>28 DEF vars, tuningVars
<1> QED
  BY <1>1, <1>2, <1>3, <1>4, <1>5, <1>6, <1>7, <1>8, <1>9, <1>10, <1>11, <1>12, <1>13,
     <1>14, <1>15, <1>16, <1>17, <1>18, <1>19, <1>20, <1>21, <1>22, <1>23, <1>24, <1>25,
     <1>26, <1>27, <1>28 DEF Next, Tune

\* A trial compresses the samples there are, under conf.
LEMMA TrialOf ==
  ASSUME Shape, [Next]_vars, pc \notin {"dispatch", "tune", "size", "profile"}
  PROVE  \/ trial' = trial
         \/ /\ pc \in OnSamples
            /\ trial'.dims = conf.dims /\ trial'.num = conf.num
            /\ trial'.blockwise = conf.blockwiseTuning /\ trial'.blocks = samples.blocks
<1> USE DEF Shape, ConfigFields, OnSamples, Between
<1>1. CASE Start
  BY <1>1 DEF Start
<1>2. CASE Size
  BY <1>2 DEF Size
<1>3. CASE Profile
  BY <1>3 DEF Profile
<1>4. CASE PredictorStart
  BY <1>4 DEF PredictorStart, OnSample, Sampled
<1>5. CASE LorenzoRatio
  BY <1>5 DEF LorenzoRatio, CompressTest, Trial
<1>6. CASE TuneLevel
  BY <1>6 DEF TuneLevel, TryLevel, Trial
<1>7. CASE LevelsDone
  BY <1>7 DEF LevelsDone, Sampled
<1>8. CASE Freeze
  BY <1>8 DEF Freeze, CompressTest, Trial
<1>9. CASE FreezeLevel
  BY <1>9 DEF FreezeLevel, TryLevel, Trial
<1>10. CASE FreezeDone
  BY <1>10 DEF FreezeDone, CompressTest, Trial, Sampled
<1>11. CASE LevelsEnd
  BY <1>11 DEF LevelsEnd, CompressTest, Trial
<1>12. CASE TuneFlat
  BY <1>12 DEF TuneFlat, CompressTest, Trial
<1>13. CASE Restore
  BY <1>13 DEF Restore, Restored
<1>14. CASE TuneSz3
  BY <1>14 DEF TuneSz3
<1>15. CASE BmStart
  BY <1>15 DEF BmStart, OnSample, Sampled
<1>16. CASE BmPreset
  BY <1>16 DEF BmPreset
<1>17. CASE BmPair
  BY <1>17 DEF BmPair, CompressTest, Trial
<1>18. CASE BmScaled
  BY <1>18 DEF BmScaled, CompressTest, Trial
<1>19. CASE BmLoopDone
  BY <1>19 DEF BmLoopDone
<1>20. CASE BmLorenzo
  BY <1>20 DEF BmLorenzo, CompressTest, Trial
<1>21. CASE BmEnd
  BY <1>21 DEF BmEnd
<1>22. CASE Finish
  BY <1>22 DEF Finish
<1>23. CASE LorenzoTune
  BY <1>23, LorenzoTuneKeeps
<1>24. CASE Dispatch
  BY <1>24 DEF Dispatch
<1>25. CASE Compress
  BY <1>25 DEF Compress
<1>26. CASE Save
  BY <1>26 DEF Save
<1>27. CASE Decompress
  BY <1>27 DEF Decompress
<1>28. CASE UNCHANGED vars
  BY <1>28 DEF vars, tuningVars
<1> QED
  BY <1>1, <1>2, <1>3, <1>4, <1>5, <1>6, <1>7, <1>8, <1>9, <1>10, <1>11, <1>12, <1>13,
     <1>14, <1>15, <1>16, <1>17, <1>18, <1>19, <1>20, <1>21, <1>22, <1>23, <1>24, <1>25,
     <1>26, <1>27, <1>28 DEF Next, Tune

\* Samples are kept, or taken anew with a rate there is.
LEMMA SamplesOf ==
  ASSUME Shape, [Next]_vars, pc \notin {"dispatch", "tune", "size", "profile"}
  PROVE  \/ /\ samples'.blocks = samples.blocks
            /\ pc' \in OnSamples =>
                 \/ pc \in OnSamples
                 \/ /\ pc = "bm" /\ conf.autoTuningRate > 0
                    /\ conf.autoTuningRate = conf.predictorTuningRate
            /\ pc' = "bm" => pc \in OnSamples \cup {"sz3", "bm"}
         \/ /\ pc = "predictor"
            /\ samples'.blocks = SampledBlocks(conf, conf.predictorTuningRate)
         \/ /\ pc \in {"levels", "freeze_levels"}
            /\ samples'.blocks
                 = SampledBlocks([conf EXCEPT !.dims = saved.dims], conf.predictorTuningRate)
         \/ /\ pc = "bm" /\ conf.autoTuningRate > 0
            /\ samples'.blocks = SampledBlocks(conf, conf.autoTuningRate)
<1> USE DEF Shape, ConfigFields, OnSamples, Between
<1>1. CASE Start
  BY <1>1 DEF Start
<1>2. CASE Size
  BY <1>2 DEF Size
<1>3. CASE Profile
  BY <1>3 DEF Profile
<1>4. CASE PredictorStart
  BY <1>4 DEF PredictorStart, OnSample, Sampled
<1>5. CASE LorenzoRatio
  BY <1>5 DEF LorenzoRatio, CompressTest, Trial
<1>6. CASE TuneLevel
  BY <1>6 DEF TuneLevel, TryLevel, Trial
<1>7. CASE LevelsDone
  BY <1>7 DEF LevelsDone, Sampled
<1>8. CASE Freeze
  BY <1>8 DEF Freeze, CompressTest, Trial
<1>9. CASE FreezeLevel
  BY <1>9 DEF FreezeLevel, TryLevel, Trial
<1>10. CASE FreezeDone
  BY <1>10 DEF FreezeDone, CompressTest, Trial, Sampled
<1>11. CASE LevelsEnd
  BY <1>11 DEF LevelsEnd, CompressTest, Trial
<1>12. CASE TuneFlat
  BY <1>12 DEF TuneFlat, CompressTest, Trial
<1>13. CASE Restore
  BY <1>13 DEF Restore, Restored
<1>14. CASE TuneSz3
  BY <1>14 DEF TuneSz3
<1>15. CASE BmStart
  BY <1>15 DEF BmStart, OnSample, Sampled
<1>16. CASE BmPreset
  BY <1>16 DEF BmPreset
<1>17. CASE BmPair
  BY <1>17 DEF BmPair, CompressTest, Trial
<1>18. CASE BmScaled
  BY <1>18 DEF BmScaled, CompressTest, Trial
<1>19. CASE BmLoopDone
  BY <1>19 DEF BmLoopDone
<1>20. CASE BmLorenzo
  BY <1>20 DEF BmLorenzo, CompressTest, Trial
<1>21. CASE BmEnd
  BY <1>21 DEF BmEnd
<1>22. CASE Finish
  BY <1>22 DEF Finish
<1>23. CASE LorenzoTune
  BY <1>23, LorenzoTuneKeeps
<1>24. CASE Dispatch
  BY <1>24 DEF Dispatch
<1>25. CASE Compress
  BY <1>25 DEF Compress
<1>26. CASE Save
  BY <1>26 DEF Save
<1>27. CASE Decompress
  BY <1>27 DEF Decompress
<1>28. CASE UNCHANGED vars
  BY <1>28 DEF vars, tuningVars
<1> QED
  BY <1>1, <1>2, <1>3, <1>4, <1>5, <1>6, <1>7, <1>8, <1>9, <1>10, <1>11, <1>12, <1>13,
     <1>14, <1>15, <1>16, <1>17, <1>18, <1>19, <1>20, <1>21, <1>22, <1>23, <1>24, <1>25,
     <1>26, <1>27, <1>28 DEF Next, Tune

\* The only step at profile is Profile.
LEMMA OnlyProfile ==
  ASSUME [Next]_vars, pc = "profile"
  PROVE  Profile \/ UNCHANGED vars
BY SMTT(30) DEF Next, Tune, Start, Size, PredictorStart, LorenzoRatio, TuneLevel, LevelsDone, Freeze, FreezeLevel, FreezeDone, LevelsEnd, TuneFlat, Restore, TuneSz3, BmStart, BmPreset, BmPair, BmScaled, BmLoopDone, BmLorenzo, BmEnd, Finish, LorenzoTune, Dispatch, Compress, Save, Decompress

\* Before Profile nothing is tried.
LEMMA SamplingBefore ==
  ASSUME Shape, Sampling, [Next]_vars, pc \in {"dispatch", "tune", "size"}
  PROVE  /\ given' = given /\ conf'.var_first = conf.var_first /\ trial' = trial
         /\ pc' \notin OnSamples \cup Between
<1> USE DEF OnSamples, Between
<1>1. CASE Dispatch
  BY <1>1 DEF Dispatch, Shape, ConfigFields
<1>2. CASE Start
  <2>1. DOMAIN conf = ConfigFields
    BY DEF Shape
  <2> PICK c : c = conf
    OBVIOUS
  <2>2. Started(c).var_first = c.var_first
    BY <2>1, StartedKeepsFirst
  <2> QED
    BY <1>2, <2>2 DEF Start
<1>3. CASE Size
  <2>1. conf'.var_first = conf.var_first
    BY <1>3 DEF Size, Capped, Shape, ConfigFields
  <2> QED
    BY <1>3, <2>1 DEF Size
<1>4. CASE UNCHANGED vars
  BY <1>4 DEF vars, tuningVars
<1> QED
  BY <1>1, <1>2, <1>3, <1>4, OnlyDispatch, OnlyStart, OnlySize

\* Every step keeps the samples as many as the rate in force says.
LEMMA SamplingNext ==
  VariedTaken /\ Shape /\ Lent /\ Sized /\ Rates /\ FreshInv /\ Sampling /\ [Next]_vars
    => Sampling'
<1> SUFFICES ASSUME VariedTaken, Shape, Lent, Sized, Rates, FreshInv, Sampling, [Next]_vars
             PROVE  Sampling'
  OBVIOUS
<1>1. CASE pc \in {"dispatch", "tune", "size"}
  <2>1. /\ given' = given /\ conf'.var_first = conf.var_first /\ trial' = trial
        /\ pc' \notin OnSamples \cup Between
    BY <1>1, SamplingBefore
  <2>2. trial = NoTrial /\ trial.stage = "none"
    BY <1>1 DEF Sampling, NoTrial
  <2> QED
    BY <2>1, <2>2 DEF Sampling, Between
<1>2. CASE pc = "profile"
  <2>1. CASE Profile
    <3>1. /\ Tuned' => starts' \in 0 .. Total' /\ (conf'.profiling => starts' >= 1)
          /\ conf'.var_first = conf.var_first /\ given' = given /\ trial' = trial
          /\ pc' \in {"predictor", "sz3"}
      BY <2>1, ProfileSamples
    <3>2. trial = NoTrial /\ trial.stage = "none"
      BY <1>2 DEF Sampling, NoTrial
    <3> QED
      BY <3>1, <3>2 DEF Sampling, OnSamples
  <2>2. CASE UNCHANGED vars
    <3>1. UNCHANGED <<pc, given, conf, starts, samples, trial>>
      BY <2>2 DEF vars, tuningVars
    <3>2. Total' = Total /\ N(given') = N(given) /\ Tuned' = Tuned
      BY <3>1 DEF Total, N, Tuned
    <3> QED
      BY <3>1, <3>2 DEF Sampling
  <2> QED
    BY <1>2, <2>1, <2>2, OnlyProfile
<1>3. CASE pc \notin {"dispatch", "tune", "size", "profile"}
  <2>1. /\ given' = given /\ conf'.sampleBlockSize = conf.sampleBlockSize
        /\ conf'.var_first = conf.var_first
        /\ conf'.autoTuningRate = conf.autoTuningRate
        /\ conf'.predictorTuningRate = conf.predictorTuningRate
        /\ pc' \in {"profile"} \cup OnSamples \cup Between =>
             pc \in {"profile"} \cup OnSamples \cup Between
    BY <1>3, ParamFixed DEF Param
  <2>2. Total' = Total /\ Tuned' = Tuned /\ N(given') = N(given)
    BY <2>1 DEF Total, Tuned, N
  <2>3. /\ starts' = starts /\ conf'.profiling = conf.profiling
        /\ pc' \notin {"dispatch", "tune", "size", "profile"}
    BY <1>3, StartsFixed
  <2>4. \/ trial' = trial
        \/ /\ pc \in OnSamples
           /\ trial'.dims = conf.dims /\ trial'.num = conf.num
           /\ trial'.blockwise = conf.blockwiseTuning /\ trial'.blocks = samples.blocks
    BY <1>3, TrialOf
  <2>5. trial'.stage # "none" =>
          /\ trial'.dims = Cube(N(given), conf.sampleBlockSize + 1)
          /\ trial'.num = Elements(trial'.dims)
          /\ ~trial'.blockwise
          /\ trial'.blocks \in 1 .. Total
    <3>1. CASE trial' = trial
      BY <3>1 DEF Sampling
    <3>2. CASE trial' # trial
      BY <2>4, <3>2 DEF Sampling, Lent
    <3> QED
      BY <3>1, <3>2
  <2>6. pc \in Predicting \cup {"bm"} => conf.autoTuningRate \in 0 .. 999
                                        /\ conf.predictorTuningRate \in 0 .. 999
    BY DEF Sized, Numbers
  <2>7. /\ pc' \in OnSamples => samples'.blocks \in 1 .. Total
        /\ pc' = "bm" /\ conf.predictorTuningRate > 0 => samples'.blocks \in 1 .. Total
    <3>1. CASE pc = "predictor" /\ samples'.blocks = SampledBlocks(conf, conf.predictorTuningRate)
      <4>1. conf.predictorTuningRate \in 1 .. 999 /\ Tuned
        BY <2>6, <3>1 DEF Rates, Predicting, Tuned
      <4>2. SampledBlocks(conf, conf.predictorTuningRate) \in 1 .. Total
        BY <3>1, <4>1, SampledIs DEF Between, OnSamples
      <4> QED
        BY <3>1, <4>2
    <3>2. CASE /\ pc \in {"levels", "freeze_levels"}
               /\ samples'.blocks
                    = SampledBlocks([conf EXCEPT !.dims = saved.dims], conf.predictorTuningRate)
      <4>1. conf.predictorTuningRate \in 1 .. 999 /\ Tuned
        BY <2>6, <3>2 DEF Rates, Predicting, Tuned
      <4> PICK c : c = [conf EXCEPT !.dims = saved.dims]
        OBVIOUS
      <4>2. SampledBlocks(c, conf.predictorTuningRate) \in 1 .. Total
        BY <3>2, <4>1, SampledIs DEF Between, OnSamples
      <4> QED
        BY <3>2, <4>2
    <3>3. CASE /\ pc = "bm" /\ conf.autoTuningRate > 0
               /\ samples'.blocks = SampledBlocks(conf, conf.autoTuningRate)
      <4>1. conf.autoTuningRate \in 1 .. 999 /\ Tuned
        BY <2>6, <3>3 DEF Tuned
      <4>2. SampledBlocks(conf, conf.autoTuningRate) \in 1 .. Total
        BY <3>3, <4>1, SampledIs DEF Between, OnSamples
      <4> QED
        BY <3>3, <4>2
    <3>4. CASE /\ samples'.blocks = samples.blocks
               /\ pc' \in OnSamples =>
                    \/ pc \in OnSamples
                    \/ /\ pc = "bm" /\ conf.autoTuningRate > 0
                       /\ conf.autoTuningRate = conf.predictorTuningRate
               /\ pc' = "bm" => pc \in OnSamples \cup {"sz3", "bm"}
      BY <3>4 DEF Sampling, FreshInv
    <3> QED
      BY <1>3, <3>1, <3>2, <3>3, <3>4, SamplesOf
  <2>8. pc' \in OnSamples \cup Between => pc \in OnSamples \cup Between
    BY <1>3, <2>1, <2>3
  <2> QED
    BY <2>1, <2>2, <2>3, <2>5, <2>7, <2>8 DEF Sampling
<1> QED
  BY <1>1, <1>2, <1>3

\* Every trial compresses whole sampled blocks under a conf that describes one, and there
\* is a block to try (TrialsOnSamples), for every input that does not combine var_first
\* with 2 dimensions: there sampleBlocks takes nothing unless profiling has found blocks.
THEOREM AlwaysTrialsOnSamples == VariedTaken => (Spec => []TrialsOnSamples)
<1> SUFFICES ASSUME VariedTaken PROVE Spec => []TrialsOnSamples
  OBVIOUS
<1>1. Init => Shape /\ Lent /\ Sized /\ Rates /\ FreshInv /\ Sampling
  BY ShapeInit, LentInit, SizedInit, RatesInit, FreshInit, SamplingInit
<1>2. Shape /\ Lent /\ Sized /\ Rates /\ FreshInv /\ Sampling /\ [Next]_vars
        => (Shape /\ Lent /\ Sized /\ Rates /\ FreshInv /\ Sampling)'
  BY ShapeNext, LentNext, SizedNext, RatesNext, FreshNext, SamplingNext
<1>3. Shape /\ Sampling => TrialsOnSamples
  <2> SUFFICES ASSUME Shape, Sampling PROVE TrialsOnSamples
    OBVIOUS
  <2>1. totalblock_num([conf EXCEPT !.dims = given.dims]) = Total
    BY TotalIs DEF Shape, Total
  <2> QED
    BY <2>1 DEF Sampling, TrialsOnSamples
<1> QED
  BY <1>1, <1>2, <1>3, PTL DEF Spec

-----------------------------------------------------------------------------
(* By what the bound of a level is divided.                                *)

\* An alpha and a beta that never multiply the bound: those of SZ3 (alpha below 0), a
\* power cut off at beta, or a share of the bound that does not fall below beta.
Tightens(alpha, beta) ==
  /\ alpha \in Int /\ beta \in Int
  /\ \/ alpha < 0
     \/ alpha >= 100 /\ beta >= 100
     \/ 0 <= alpha /\ alpha < 100 /\ 0 < beta /\ beta <= 100

\* The caller asks for no others.
InputsTighten == \A c \in Inputs : Tightens(c.alpha, c.beta)

\* A power of 1 or more stays one, also where it is cut off.
LEMMA PowerIs ==
  ASSUME NEW alpha \in Int, alpha >= 100, NEW k \in Nat
  PROVE  Power(alpha)[k] \in Nat /\ Power(alpha)[k] >= 100
<1> DEFINE next(x) == Min({1000, (alpha * x) \div 100})
           step == [n \in Nat |-> [x \in Nat |-> next(x)]]
<1>1. ASSUME NEW x \in Nat
      PROVE  next(x) \in Nat /\ (x >= 100 => next(x) >= 100)
  <2> PICK p : p = alpha * x
    OBVIOUS
  <2>1. p \in Nat /\ p >= 100 * x
    OBVIOUS
  <2> PICK q : q = p \div 100
    OBVIOUS
  <2>2. q \in Nat /\ p < 100 * q + 100
    BY <2>1, QuotientOf
  <2>3. next(x) = Min({1000, q})
    OBVIOUS
  <2> HIDE DEF next
  <2>4. \A y \in Nat : Min({1000, y}) = IF 1000 <= y THEN 1000 ELSE y
    BY MinOfTwo
  <2>5. x >= 100 => q >= 100
    BY <2>1, <2>2
  <2> QED
    BY <2>2, <2>3, <2>4, <2>5
<1> HIDE DEF next
<1>2. step \in [Nat -> [Nat -> Nat]] /\ 100 \in Nat
  BY <1>1
<1>3. \A n \in Nat, x \in Nat : step[n][x] = next(x)
  OBVIOUS
<1> HIDE DEF step
<1>4. PICK f \in [Nat -> Nat] : \A n \in Nat : f[n] = IF n = 0 THEN 100 ELSE step[n][f[n - 1]]
  BY <1>2, Recursion, Zenon
<1>5. \A n \in Nat : f[n] = IF n = 0 THEN 100 ELSE next(f[n - 1])
  <2> SUFFICES ASSUME NEW n \in Nat PROVE f[n] = IF n = 0 THEN 100 ELSE next(f[n - 1])
    OBVIOUS
  <2>1. n # 0 => n - 1 \in Nat /\ f[n - 1] \in Nat
    BY <1>4
  <2> QED
    BY <1>3, <1>4, <2>1
<1>6. f = [n \in Nat |-> IF n = 0 THEN 100 ELSE next(f[n - 1])]
  BY <1>4, <1>5
<1>7. Power(alpha) = [n \in Nat |-> IF n = 0 THEN 100 ELSE next(Power(alpha)[n - 1])]
  <2> DEFINE Solves(p) == p = [n \in Nat |-> IF n = 0 THEN 100
                                            ELSE Min({1000, (alpha * p[n - 1]) \div 100})]
  <2>1. Power(alpha) = CHOOSE p : Solves(p)
    BY Zenon DEF Power
  <2>2. Solves(f)
    BY <1>6, Zenon DEF next
  <2> HIDE DEF Solves
  <2>3. Solves(CHOOSE p : Solves(p))
    BY <2>2, Zenon
  <2>4. Solves(Power(alpha))
    BY <2>1, <2>3, Zenon
  <2> QED
    BY <2>4, Zenon DEF Solves, next
<1> PICK g : g = Power(alpha)
  OBVIOUS
<1>8. \A n \in Nat : g[n] = IF n = 0 THEN 100 ELSE next(g[n - 1])
  BY <1>7
<1> DEFINE T == {n \in Nat : ~(g[n] \in Nat /\ g[n] >= 100)}
<1>9. ASSUME T # {} PROVE FALSE
  <2>1. PICK n \in T : \A y \in T : n <= y
    BY <1>9, Least
  <2>2. n # 0
    BY <1>8, <2>1
  <2>3. n - 1 \in Nat /\ ~(n <= n - 1)
    BY <2>2
  <2>4. g[n - 1] \in Nat /\ g[n - 1] >= 100
    BY <2>1, <2>3
  <2> QED
    BY <1>1, <1>8, <2>1, <2>2, <2>4
<1> QED
  BY <1>9

\* The reciprocal of a share, in hundredths.
LEMMA Reciprocal ==
  ASSUME NEW x \in 1 .. 100
  PROVE  10000 \div x >= 100
<1> PICK n : n = 10000
  OBVIOUS
<1> PICK q : q = n \div x
  OBVIOUS
<1>1. n \in Nat /\ x \in Nat \ {0}
  OBVIOUS
<1>2. q \in Nat /\ n < x * q + x
  BY <1>1, QuotientOf
<1>3. ASSUME q < 100 PROVE FALSE
  <2> PICK e : e = 99 - q
    OBVIOUS
  <2>1. e \in Nat /\ q + e = 99
    BY <1>2, <1>3
  <2>2. x * e \in Nat
    BY <1>1, <2>1
  <2>3. x * (q + e) = x * q + x * e
    BY <1>1, <1>2, <2>1
  <2>4. x * q + x <= 99 * x + x
    BY <1>1, <1>2, <2>1, <2>2, <2>3
  <2> QED
    BY <1>1, <1>2, <2>4
<1> QED
  BY <1>2, <1>3

\* So no level gets a looser bound.
LEMMA RatioIs ==
  ASSUME NEW alpha, NEW beta, Tightens(alpha, beta), NEW l \in Nat \ {0}
  PROVE  LevelRatio(alpha, beta, l) >= 100
<1>1. CASE alpha < 0
  BY <1>1 DEF LevelRatio
<1>2. CASE alpha >= 100
  <2>1. alpha \in Int /\ beta \in Int /\ beta >= 100 /\ l - 1 \in Nat
    BY <1>2 DEF Tightens
  <2> PICK p : p = Power(alpha)[l - 1]
    OBVIOUS
  <2>2. p \in Nat /\ p >= 100
    BY <1>2, <2>1, PowerIs
  <2> QED
    BY <1>2, <2>1, <2>2 DEF LevelRatio
<1>3. CASE 0 <= alpha /\ alpha < 100
  <2>1. alpha \in Int /\ beta \in Int /\ 0 < beta /\ beta <= 100
    BY <1>3 DEF Tightens
  <2> PICK cut : cut = 100 - (l - 1) * alpha
    OBVIOUS
  <2>2. cut \in Int /\ cut <= 100
    <3>1. l - 1 \in Nat /\ alpha \in Nat
      BY <1>3, <2>1
    <3>2. (l - 1) * alpha \in Nat
      BY <3>1
    <3> QED
      BY <3>2
  <2> PICK x : x = IF cut < beta THEN beta ELSE cut
    OBVIOUS
  <2>3. x \in 1 .. 100
    BY <2>1, <2>2
  <2>4. LevelRatio(alpha, beta, l) = 10000 \div x
    BY <1>3, <2>1 DEF LevelRatio
  <2>5. 10000 \div x >= 100
    BY <2>3, Reciprocal
  <2> QED
    BY <2>4, <2>5
<1> QED
  BY <1>1, <1>2, <1>3 DEF Tightens

\* Every pair in use tightens: the one in conf, the one kept aside and the best so far.
Divided ==
  /\ Tightens(conf.alpha, conf.beta)
  /\ pc \in OnSamples \cup Between \cup {"lorenzo"} => Tightens(saved.alpha, saved.beta)
  /\ Tightens(best.alpha, best.beta)
  /\ pc \in {"bm_loop", "bm_scaled"} => pair \in (Nat \ {0}) \X (1 .. 4)

\* The caller's pair tightens, by assumption.
LEMMA DividedInit == InputsTighten /\ Init => Divided
BY DEF Init, InitTuning, Divided, InputsTighten, Tightens, OnSamples, Between

\* So do the presets, every pair of them.
LEMMA PresetTightens == \A ab \in PresetAB : Tightens(ab[1], ab[2])
BY DEF PresetAB, Tightens

\* The start of the tuning leaves the caller's pair alone.
LEMMA StartedKeepsAlpha ==
  ASSUME NEW c, DOMAIN c = ConfigFields
  PROVE  Started(c).alpha = c.alpha /\ Started(c).beta = c.beta
<1>1. ASSUME NEW x, DOMAIN x = ConfigFields
      PROVE  Defaults(x).alpha = x.alpha /\ Defaults(x).beta = x.beta
  BY SMTT(60) DEF Defaults, ConfigFields
<1>2. CASE N(c) \in {2, 3}
  BY <1>1, <1>2 DEF Started
<1>3. CASE N(c) \notin {2, 3}
  <2> PICK d : d = Disabled(c)
    OBVIOUS
  <2>1. DOMAIN d = ConfigFields /\ d.alpha = c.alpha /\ d.beta = c.beta
    BY DEF Disabled, ConfigFields
  <2> QED
    BY <1>1, <1>3, <2>1 DEF Started
<1> QED
  BY <1>2, <1>3

\* What is tried and not skipped tightens.
LEMMA PairTightens ==
  ASSUME NEW c, NEW p \in (Nat \ {0}) \X (1 .. 4), p[1] <= Len(alpha_list(c)),
         ~Skipped(alpha_list(c)[p[1]], beta_list(c)[p[2]])
  PROVE  Tightens(alpha_list(c)[p[1]], beta_list(c)[p[2]])
<1>1. CASE c.tuningTarget = "CR"
  <2>1. p[1] \in 1 .. 6 /\ p[2] \in 1 .. 4
    BY <1>1 DEF alpha_list
  <2> QED
    BY <1>1, <2>1 DEF alpha_list, beta_list, Skipped, Tightens
<1>2. CASE c.tuningTarget # "CR"
  <2>1. p[1] \in 1 .. 5 /\ p[2] \in 1 .. 4
    BY <1>2 DEF alpha_list
  <2> QED
    BY <1>2, <2>1 DEF alpha_list, beta_list, Skipped, Tightens
<1> QED
  BY <1>1, <1>2

\* The loop over pairs stays within the two lists, or ends behind the first.
LEMMA NextPair ==
  ASSUME NEW p \in (Nat \ {0}) \X (1 .. 4)
  PROVE  /\ NextAlpha(p) \in (Nat \ {0}) \X (1 .. 4)
         /\ NextOf(p) \in (Nat \ {0}) \X (1 .. 4)
<1>1. Len(beta_list(conf)) = 4
  BY DEF beta_list
<1> QED
  BY <1>1 DEF NextAlpha, NextOf

\* A pair that is tried is one that tightens, whether or not it is kept.
LEMMA BmPairDivided ==
  ASSUME Shape, Divided, BmPair
  PROVE  Divided'
<1> PICK alpha : alpha = alpha_list(conf)[pair[1]]
  OBVIOUS
<1> PICK beta : beta = beta_list(conf)[pair[2]]
  OBVIOUS
<1>1. /\ pc = "bm_loop" /\ pair \in (Nat \ {0}) \X (1 .. 4)
      /\ pair[1] <= Len(alpha_list(conf)) /\ saved' = saved
      /\ DOMAIN conf = ConfigFields /\ DOMAIN best = {"useInterp", "list", "alpha", "beta", "frozen"}
      /\ pc' \in {"bm_loop", "bm_scaled", "exited"}
  BY BmPairKeeps DEF BmPair, Divided, Shape
<1>2. pair' \in {pair, NextAlpha(pair), NextOf(pair)}
  BY DEF BmPair, CompressTest
<1>3. pair' \in (Nat \ {0}) \X (1 .. 4)
  BY <1>1, <1>2, NextPair
<1>4. CASE Skipped(alpha, beta)
  <2>1. conf'.alpha = conf.alpha /\ conf'.beta = conf.beta /\ best' = best
    BY <1>1, <1>4 DEF BmPair, ConfigFields
  <2> QED
    BY <1>1, <1>3, <2>1 DEF Divided, OnSamples
<1>5. CASE ~Skipped(alpha, beta)
  <2>1. Tightens(alpha, beta)
    BY <1>1, <1>5, PairTightens
  <2>2. /\ conf'.alpha = alpha /\ conf'.beta = beta
        /\ \/ best' = best
           \/ best'.alpha = alpha /\ best'.beta = beta
    BY <1>1, <1>5 DEF BmPair, CompressTest, ConfigFields
  <2> QED
    BY <1>1, <1>3, <2>1, <2>2 DEF Divided, OnSamples
<1> QED
  BY <1>4, <1>5

\* Every step keeps pairs that tighten.
LEMMA DividedNext == Shape /\ Divided /\ [Next]_vars => Divided'
<1> SUFFICES ASSUME Shape, Divided, [Next]_vars PROVE Divided'
  OBVIOUS
<1> USE DEF Shape, Divided, ConfigFields, OnSamples, Between
<1>1. CASE Start
  <2> PICK c : c = conf
    OBVIOUS
  <2>1. DOMAIN c = ConfigFields
    OBVIOUS
  <2>2. Started(c).alpha = c.alpha /\ Started(c).beta = c.beta
    BY <2>1, StartedKeepsAlpha
  <2> QED
    BY <1>1, <2>2 DEF Start
<1>2. CASE Size
  <2>1. conf'.alpha = conf.alpha /\ conf'.beta = conf.beta
    BY <1>2 DEF Size, Capped
  <2>2. best' = best /\ pc' \in {"crashed", "profile"}
    BY <1>2 DEF Size
  <2> QED
    BY <2>1, <2>2
<1>3. CASE Profile
  BY <1>3 DEF Profile
<1>4. CASE PredictorStart
  BY <1>4, PresetTightens DEF PredictorStart, OnSample, Sampled
<1>5. CASE LorenzoRatio
  BY <1>5 DEF LorenzoRatio, CompressTest, Trial
<1>6. CASE TuneLevel
  BY <1>6 DEF TuneLevel, TryLevel, Trial
<1>7. CASE LevelsDone
  BY <1>7 DEF LevelsDone, Sampled
<1>8. CASE Freeze
  BY <1>8 DEF Freeze, CompressTest, Trial
<1>9. CASE FreezeLevel
  BY <1>9 DEF FreezeLevel, TryLevel, Trial
<1>10. CASE FreezeDone
  BY <1>10 DEF FreezeDone, CompressTest, Trial, Sampled
<1>11. CASE LevelsEnd
  BY <1>11 DEF LevelsEnd, CompressTest, Trial
<1>12. CASE TuneFlat
  BY <1>12 DEF TuneFlat, CompressTest, Trial
<1>13. CASE Restore
  BY <1>13 DEF Restore, Restored
<1>14. CASE TuneSz3
  BY <1>14 DEF TuneSz3
<1>15. CASE BmStart
  <2>1. Tightens(100, 100)
    BY DEF Tightens
  <2> QED
    BY <1>15, <2>1 DEF BmStart, OnSample
<1>16. CASE BmPreset
  BY <1>16, PresetTightens DEF BmPreset
<1>17. CASE BmPair
  BY <1>17, BmPairDivided
<1>18. CASE BmScaled
  BY <1>18, NextPair DEF BmScaled, CompressTest, Trial
<1>19. CASE BmLoopDone
  BY <1>19 DEF BmLoopDone
<1>20. CASE BmLorenzo
  <2>1. Tightens(-100, -100)
    BY DEF Tightens
  <2> QED
    BY <1>20, <2>1 DEF BmLorenzo, CompressTest
<1>21. CASE BmEnd
  BY <1>21 DEF BmEnd
<1>22. CASE Finish
  BY <1>22 DEF Finish
<1>23. CASE LorenzoTune
  BY <1>23, LorenzoTuneKeeps
<1>24. CASE Dispatch
  BY <1>24 DEF Dispatch
<1>25. CASE Compress
  BY <1>25 DEF Compress
<1>26. CASE Save
  BY <1>26 DEF Save
<1>27. CASE Decompress
  BY <1>27 DEF Decompress
<1>28. CASE UNCHANGED vars
  BY <1>28 DEF vars, tuningVars
<1> QED
  BY <1>1, <1>2, <1>3, <1>4, <1>5, <1>6, <1>7, <1>8, <1>9, <1>10, <1>11, <1>12, <1>13,
     <1>14, <1>15, <1>16, <1>17, <1>18, <1>19, <1>20, <1>21, <1>22, <1>23, <1>24, <1>25,
     <1>26, <1>27, <1>28 DEF Next, Tune

\* No level of the stream is coded with a looser bound than the caller asked for
\* (NoLooserBound), for every input whose own alpha and beta do not loosen it, whichever
\* of the pairs the tuning settles on.
THEOREM AlwaysNoLooserBound == InputsTighten => (Spec => []NoLooserBound)
<1> SUFFICES ASSUME InputsTighten PROVE Spec => []NoLooserBound
  OBVIOUS
<1>1. Init => Shape /\ Lent /\ Written /\ Divided
  BY ShapeInit, LentInit, WrittenInit, DividedInit
<1>2. Shape /\ Lent /\ Written /\ Divided /\ [Next]_vars
        => (Shape /\ Lent /\ Written /\ Divided)'
  BY ShapeNext, LentNext, WrittenNext, DividedNext
<1>3. Written /\ Divided => NoLooserBound
  <2> SUFFICES ASSUME Written, Divided, stream.compressor.kind = "interp"
               PROVE  /\ stream.header.eb = AbsBound(given)
                      /\ \A l \in CodedLevels(conf, 0, 0) :
                           LevelRatio(stream.header.alpha, stream.header.beta, l) >= 100
    BY DEF NoLooserBound
  <2>1. stream # None
    BY DEF None
  <2>2. stream.header = Header(conf) /\ conf.absErrorBound = AbsBound(given)
    BY <2>1 DEF Written
  <2>3. /\ stream.header.eb = AbsBound(given)
        /\ stream.header.alpha = conf.alpha /\ stream.header.beta = conf.beta
    BY <2>2 DEF Header
  <2>4. ASSUME NEW l \in CodedLevels(conf, 0, 0) PROVE l \in Nat \ {0}
    BY <2>4 DEF CodedLevels
  <2> QED
    BY <2>3, <2>4, RatioIs DEF Divided
<1> QED
  BY <1>1, <1>2, <1>3, PTL DEF Spec

-----------------------------------------------------------------------------
(* The metas.                                                              *)

\* Some meta, of any paradigm and direction.
SomeMeta == [paradigm : Nat, direction : Nat]

\* A meta for an array of n dimensions of which one may be frozen.
MetaFits(m, frozen_dim, n) ==
  IF frozen_dim < 0 THEN m.direction < Factorial(n)
  ELSE /\ m.direction \in {6 + 2 * frozen_dim, 7 + 2 * frozen_dim}
       /\ m.paradigm < 2

\* A list of the length, all of whose metas fit.
AllFit(list, len, frozen_dim, n) ==
  /\ list \in Seq(SomeMeta) /\ Len(list) = len
  /\ \A i \in 1 .. len : MetaFits(list[i], frozen_dim, n)

\* Up to FreezeDone nothing is frozen, and up to LevelsEnd there is no list.
Unfrozen ==
  {"dispatch", "tune", "size", "profile", "predictor", "lorenzo_cr", "levels", "freeze",
   "freeze_levels", "flat", "sz3"}

\* Where predictor tuning has made its choice.
Chosen == {"restore", "bm", "finish", "lorenzo", "compress"} \cup Scaling

\* conf's own metas fit: those of its list if it has one.
ConfFits ==
  IF conf.interpMeta_list = <<>> THEN MetaFits(conf.interpMeta, conf.frozen_dim, N(given))
  ELSE AllFit(conf.interpMeta_list, conf.levelwise, conf.frozen_dim, N(given))

\* What is known of the metas at each place.
Selected ==
  /\ pc \in Unfrozen => conf.frozen_dim = -1
  /\ pc \in Unfrozen \cup {"levels_end"} => conf.interpMeta_list = <<>>
  /\ pc \in {"dispatch", "tune", "size", "profile", "sz3"} =>
       conf.interpMeta \in SomeMeta /\ MetaFits(conf.interpMeta, -1, N(given))
  /\ pc \in {"dispatch", "tune", "size", "profile", "predictor", "lorenzo_cr"} => metas = <<>>
  /\ pc = "levels" => AllFit(metas, conf.levelwise - level, -1, N(given))
  /\ pc \in {"freeze", "freeze_levels"} => AllFit(best.list, conf.levelwise, -1, N(given))
  /\ pc = "freeze_levels" =>
       /\ best.frozen \in 0 .. 2
       /\ AllFit(metas, conf.levelwise - level, best.frozen, N(given))
  /\ pc = "levels_end" => AllFit(best.list, conf.levelwise, conf.frozen_dim, N(given))
  /\ given.cmprAlgo = "INTERP_LORENZO" /\ (pc \in Chosen \/ stream # None) => ConfFits

\* Lists grow at the front.
LEMMA ListGrows ==
  ASSUME NEW list, NEW len \in Nat, NEW frozen_dim, NEW n, AllFit(list, len, frozen_dim, n),
         NEW m \in SomeMeta, MetaFits(m, frozen_dim, n)
  PROVE  AllFit(<<m>> \o list, len + 1, frozen_dim, n)
<1> PICK longer : longer = <<m>> \o list
  OBVIOUS
<1>1. list \in Seq(SomeMeta) /\ Len(list) = len
  BY DEF AllFit
<1>2. /\ longer \in Seq(SomeMeta) /\ Len(longer) = len + 1
      /\ longer[1] = m /\ \A i \in 2 .. len + 1 : longer[i] = list[i - 1]
  BY <1>1
<1>3. ASSUME NEW i \in 1 .. len + 1 PROVE MetaFits(longer[i], frozen_dim, n)
  <2>1. CASE i = 1
    BY <1>2, <2>1
  <2>2. CASE i # 1
    <3>1. i \in 2 .. len + 1 /\ i - 1 \in 1 .. len
      BY <2>2
    <3> QED
      BY <1>2, <3>1 DEF AllFit
  <2> QED
    BY <2>1, <2>2
<1> QED
  BY <1>2, <1>3 DEF AllFit

\* An empty list holds nothing that could not fit.
LEMMA NoneFit == \A frozen_dim, n : AllFit(<<>>, 0, frozen_dim, n)
BY DEF AllFit

\* On a sample as on the array there are 2 or 3 dimensions, and its candidates fit.
LEMMA CandidatesFit ==
  ASSUME Shape, Lent, Sized, Rates, pc \in OnSamples
  PROVE  /\ N(conf) = N(given)
         /\ \A m \in LevelCandidates(conf) \cup FlatCandidates(conf) :
              m \in SomeMeta /\ MetaFits(m, -1, N(given))
         /\ \A d \in 0 .. 2 : \A m \in FrozenCandidates(conf, d) :
              m \in SomeMeta /\ MetaFits(m, d, N(given))
<1>1. SampleFits /\ conf.multiDimInterp \in Nat /\ conf.dims = Cube(N(given), conf.sampleBlockSize + 1)
  <2>1. Tuned
    BY DEF Rates, Tuned, OnSamples, Predicting, Scaling
  <2> QED
    BY <2>1 DEF Sized, Numbers, Lent
<1>2. N(given) \in {2, 3}
  BY <1>1 DEF SampleFits
<1>3. N(conf) = N(given)
  <2> PICK n : n = N(given)
    OBVIOUS
  <2>1. Len([i \in 1 .. n |-> conf.sampleBlockSize + 1]) = n
    BY <1>2
  <2> QED
    BY <1>1, <2>1 DEF N, Cube
<1>4. ASSUME NEW m \in LevelCandidates(conf) \cup FlatCandidates(conf)
      PROVE  m \in SomeMeta /\ MetaFits(m, -1, N(given))
  <2>1. m \in [paradigm : 0 .. conf.multiDimInterp, direction : {0, Factorial(N(given)) - 1}]
    BY <1>3 DEF LevelCandidates, FlatCandidates
  <2>2. Factorial(N(given)) \in Nat \ {0}
    BY <1>2 DEF Factorial
  <2> QED
    BY <1>1, <2>1, <2>2 DEF SomeMeta, MetaFits
<1>5. ASSUME NEW d \in 0 .. 2, NEW m \in FrozenCandidates(conf, d)
      PROVE  m \in SomeMeta /\ MetaFits(m, d, N(given))
  <2> PICK most : most = Min({1, conf.multiDimInterp})
    OBVIOUS
  <2>1. most \in 0 .. 1
    <3>1. \A y \in Nat : Min({1, y}) = IF 1 <= y THEN 1 ELSE y
      BY MinOfTwo
    <3> QED
      BY <1>1, <3>1
  <2>2. m \in [paradigm : 0 .. most, direction : {6 + 2 * d, 7 + 2 * d}]
    BY DEF FrozenCandidates
  <2> QED
    BY <2>1, <2>2 DEF SomeMeta, MetaFits
<1> QED
  BY <1>3, <1>4, <1>5

\* No meta has been chosen at the start.
LEMMA SelectedInit == Init => Selected
<1> SUFFICES ASSUME Init PROVE Selected
  OBVIOUS
<1>1. /\ conf = given /\ pc = "dispatch" /\ metas = <<>> /\ stream = None
      /\ given.frozen_dim = -1 /\ given.interpMeta_list = <<>>
      /\ given.interpMeta \in Meta /\ given.interpMeta.direction < Factorial(Len(given.dims))
  BY InputsAssumption DEF Init, InitTuning, IsInput
<1>2. given.interpMeta \in SomeMeta /\ MetaFits(given.interpMeta, -1, N(given))
  BY <1>1 DEF Meta, SomeMeta, MetaFits, N
<1> QED
  BY <1>1, <1>2 DEF Selected, Chosen, Unfrozen, Scaling

\* The start of the tuning leaves the caller's metas alone.
LEMMA StartedKeepsMeta ==
  ASSUME NEW c, DOMAIN c = ConfigFields
  PROVE  /\ Started(c).frozen_dim = c.frozen_dim
         /\ Started(c).interpMeta_list = c.interpMeta_list
         /\ Started(c).interpMeta = c.interpMeta
<1>1. ASSUME NEW x, DOMAIN x = ConfigFields
      PROVE  /\ Defaults(x).frozen_dim = x.frozen_dim
             /\ Defaults(x).interpMeta_list = x.interpMeta_list
             /\ Defaults(x).interpMeta = x.interpMeta
  BY SMTT(60) DEF Defaults, ConfigFields
<1>2. CASE N(c) \in {2, 3}
  BY <1>1, <1>2 DEF Started
<1>3. CASE N(c) \notin {2, 3}
  <2> PICK d : d = Disabled(c)
    OBVIOUS
  <2>1. /\ DOMAIN d = ConfigFields /\ d.frozen_dim = c.frozen_dim
        /\ d.interpMeta_list = c.interpMeta_list /\ d.interpMeta = c.interpMeta
    BY DEF Disabled, ConfigFields
  <2> QED
    BY <1>1, <1>3, <2>1 DEF Started
<1> QED
  BY <1>2, <1>3

\* One step of the tuning, with nothing written yet.
LEMMA SelectedTune ==
  ASSUME Shape, Lent, Sized, Rates, Selected, Tune, stream = None, stream' = None
  PROVE  Selected'
<1>0. /\ conf.levelwise \in Nat /\ conf.levelwise - 0 = conf.levelwise
      /\ conf.levelwise - conf.levelwise = 0
  BY DEF Sized, Numbers
<1> USE DEF Shape, Selected, ConfFits, ConfigFields, OnSamples, Between, Unfrozen, Chosen, Scaling
<1>1. CASE Start
  <2> PICK c : c = conf
    OBVIOUS
  <2>1. DOMAIN c = ConfigFields
    OBVIOUS
  <2>2. /\ Started(c).frozen_dim = c.frozen_dim
        /\ Started(c).interpMeta_list = c.interpMeta_list
        /\ Started(c).interpMeta = c.interpMeta
    BY <2>1, StartedKeepsMeta
  <2> QED
    BY <1>1, <2>2 DEF Start
<1>2. CASE Size
  <2>1. /\ conf'.frozen_dim = conf.frozen_dim
        /\ conf'.interpMeta_list = conf.interpMeta_list /\ conf'.interpMeta = conf.interpMeta
    BY <1>2 DEF Size, Capped
  <2>2. /\ pc = "size" /\ pc' \in {"crashed", "profile"}
        /\ metas' = metas /\ given' = given
    BY <1>2 DEF Size
  <2> QED
    BY <2>1, <2>2
<1>3. CASE Profile
  BY <1>3 DEF Profile
<1>4. CASE PredictorStart
  BY <1>4, <1>0, NoneFit DEF PredictorStart, OnSample, Sampled
<1>5. CASE LorenzoRatio
  <2>1. /\ pc = "lorenzo_cr" /\ metas = <<>> /\ level = conf.levelwise
        /\ UNCHANGED <<given, conf, level, metas, best>>
    BY <1>5 DEF LorenzoRatio, Rates
  <2>2. pc' \in {"exited", "levels", "flat"}
    BY <1>5 DEF LorenzoRatio, CompressTest
  <2>3. AllFit(metas, conf.levelwise - level, -1, N(given))
    BY <1>0, <2>1, NoneFit
  <2> QED
    BY <2>1, <2>2, <2>3
<1>6. CASE TuneLevel
  <2>1. /\ level \in Nat /\ level > 0 /\ level' = level - 1 /\ pc = "levels" /\ pc' = pc
        /\ given' = given /\ conf.levelwise - level \in Nat
        /\ conf.levelwise - (level - 1) = (conf.levelwise - level) + 1
    BY <1>6, <1>0 DEF TuneLevel, TryLevel, Rates
  <2>2. PICK m \in LevelCandidates(conf) : metas' = <<m>> \o metas
    BY <1>6 DEF TuneLevel, TryLevel
  <2>3. m \in SomeMeta /\ MetaFits(m, -1, N(given))
    BY <2>1, CandidatesFit
  <2>4. AllFit(<<m>> \o metas, (conf.levelwise - level) + 1, -1, N(given))
    BY <2>1, <2>3, ListGrows
  <2>5. /\ conf'.frozen_dim = conf.frozen_dim /\ conf'.interpMeta_list = conf.interpMeta_list
        /\ conf'.levelwise = conf.levelwise
    BY <1>6 DEF TuneLevel, TryLevel
  <2> QED
    BY <2>1, <2>2, <2>4, <2>5
<1>7. CASE LevelsDone
  BY <1>7, <1>0 DEF LevelsDone, Sampled
<1>8. CASE Freeze
  BY <1>8, <1>0, NoneFit DEF Freeze, CompressTest, Trial
<1>9. CASE FreezeLevel
  <2>1. /\ level \in Nat /\ level > 0 /\ level' = level - 1
        /\ pc = "freeze_levels" /\ pc' = pc /\ best' = best
        /\ given' = given /\ conf.levelwise - level \in Nat
        /\ conf.levelwise - (level - 1) = (conf.levelwise - level) + 1
    BY <1>9, <1>0 DEF FreezeLevel, TryLevel, Rates
  <2>2. PICK m \in FrozenCandidates(conf, best.frozen) : metas' = <<m>> \o metas
    BY <1>9 DEF FreezeLevel, TryLevel
  <2>3. m \in SomeMeta /\ MetaFits(m, best.frozen, N(given))
    BY <2>1, CandidatesFit
  <2>4. AllFit(<<m>> \o metas, (conf.levelwise - level) + 1, best.frozen, N(given))
    BY <2>1, <2>3, ListGrows
  <2>5. /\ conf'.frozen_dim = conf.frozen_dim /\ conf'.interpMeta_list = conf.interpMeta_list
        /\ conf'.levelwise = conf.levelwise
    BY <1>9 DEF FreezeLevel, TryLevel
  <2> QED
    BY <2>1, <2>2, <2>4, <2>5
<1>10. CASE FreezeDone
  BY <1>10, <1>0 DEF FreezeDone, CompressTest, Trial, Sampled
<1>11. CASE LevelsEnd
  <2>1. AllFit(best.list, conf.levelwise, conf.frozen_dim, N(given)) /\ conf.levelwise > 0
    BY <1>11 DEF LevelsEnd, Rates
  <2>2. best.list # <<>>
    BY <2>1 DEF AllFit
  <2> QED
    BY <1>11, <2>1, <2>2 DEF LevelsEnd, CompressTest
<1>12. CASE TuneFlat
  BY <1>12, CandidatesFit DEF TuneFlat, CompressTest, Trial
<1>13. CASE Restore
  BY <1>13 DEF Restore, Restored
<1>14. CASE TuneSz3
  <2>1. N(given) \in 1 .. 4
    BY GivenIs DEF N
  <2>2. Factorial(N(given)) \in Nat \ {0}
    BY <2>1 DEF Factorial
  <2>3. /\ pc = "sz3" /\ pc' = "bm" /\ given' = given /\ conf.dims = given.dims
        /\ conf.interpMeta_list = <<>> /\ conf.frozen_dim = -1
        /\ conf.interpMeta \in SomeMeta /\ MetaFits(conf.interpMeta, -1, N(given))
    BY <1>14 DEF TuneSz3, Lent
  <2>4. N(conf) = N(given)
    BY <2>3 DEF N
  <2>5. \/ conf' = conf
        \/ \E d \in {conf.interpMeta.direction, Factorial(N(given)) - 1} :
              conf' = [conf EXCEPT !.interpMeta.direction = d]
    BY <1>14, <2>4 DEF TuneSz3
  <2>6. CASE conf' = conf
    BY <2>3, <2>6
  <2>7. CASE conf' # conf
    <3>1. PICK d \in {conf.interpMeta.direction, Factorial(N(given)) - 1} :
            conf' = [conf EXCEPT !.interpMeta.direction = d]
      BY <2>5, <2>7
    <3> PICK m : m = [conf.interpMeta EXCEPT !.direction = d]
      OBVIOUS
    <3>2. conf' = [conf EXCEPT !.interpMeta = m]
      BY <3>1
    <3>3. m.direction = d
      BY <2>3 DEF SomeMeta
    <3>4. MetaFits(m, -1, N(given))
      BY <2>2, <2>3, <3>3 DEF MetaFits, SomeMeta
    <3>5. conf'.interpMeta = m /\ conf'.interpMeta_list = <<>> /\ conf'.frozen_dim = -1
      BY <2>3, <3>2
    <3> QED
      BY <2>3, <3>4, <3>5
  <2> QED
    BY <2>6, <2>7
<1>15. CASE BmStart
  BY <1>15 DEF BmStart, OnSample, Sampled
<1>16. CASE BmPreset
  BY <1>16 DEF BmPreset
<1>17. CASE BmPair
  <2>1. best'.list = best.list
    BY <1>17 DEF BmPair, CompressTest
  <2> QED
    BY <1>17, <2>1, BmPairKeeps
<1>18. CASE BmScaled
  BY <1>18 DEF BmScaled, CompressTest, Trial
<1>19. CASE BmLoopDone
  BY <1>19 DEF BmLoopDone
<1>20. CASE BmLorenzo
  BY <1>20 DEF BmLorenzo, CompressTest, Trial
<1>21. CASE BmEnd
  BY <1>21 DEF BmEnd
<1>22. CASE Finish
  BY <1>22 DEF Finish
<1>23. CASE LorenzoTune
  BY <1>23, LorenzoTuneKeeps
<1> QED
  BY <1>1, <1>2, <1>3, <1>4, <1>5, <1>6, <1>7, <1>8, <1>9, <1>10, <1>11, <1>12, <1>13,
     <1>14, <1>15, <1>16, <1>17, <1>18, <1>19, <1>20, <1>21, <1>22, <1>23 DEF Tune

\* Every step keeps metas that fit the frozen dimension chosen with them.
LEMMA SelectedNext ==
  Shape /\ Lent /\ Sized /\ Rates /\ Written /\ Selected /\ [Next]_vars => Selected'
<1> SUFFICES ASSUME Shape, Lent, Sized, Rates, Written, Selected, [Next]_vars PROVE Selected'
  OBVIOUS
<1> USE DEF Selected, ConfFits, Unfrozen, Chosen, Scaling
<1>1. CASE Tune /\ UNCHANGED <<stream, trailer, decoder>>
  <2>1. pc \notin {"dispatch", "compress", "save", "stored", "decoded", "exited"}
    BY <1>1, TuneBefore
  <2>2. stream = None /\ stream' = None
    BY <1>1, <2>1 DEF Written
  <2> HIDE DEF Selected
  <2> QED
    BY <1>1, <2>2, SelectedTune
<1>2. CASE Dispatch
  <2>1. conf = given /\ stream = None /\ stream' = stream /\ given' = given /\ metas' = metas
    BY <1>2 DEF Dispatch, Lent, Written
  <2>2. /\ conf'.frozen_dim = conf.frozen_dim /\ conf'.interpMeta_list = conf.interpMeta_list
        /\ conf'.interpMeta = conf.interpMeta
    BY <1>2 DEF Dispatch, Shape, ConfigFields
  <2>3. /\ pc = "dispatch" /\ pc' \in {"tune", "compress", "undefined"}
        /\ pc' = "compress" => given.cmprAlgo # "INTERP_LORENZO"
    BY <1>2, <2>1 DEF Dispatch
  <2> QED
    BY <2>1, <2>2, <2>3
<1>3. CASE Compress
  BY <1>3 DEF Compress
<1>4. CASE Save
  BY <1>4 DEF Save, Written, None
<1>5. CASE Decompress
  BY <1>5 DEF Decompress, Written, None
<1>6. CASE UNCHANGED vars
  BY <1>6 DEF vars, tuningVars
<1> QED
  BY <1>1, <1>2, <1>3, <1>4, <1>5, <1>6 DEF Next

\* The metas in the header fit the header (MetasFit), for every input, whatever candidates
\* win and whether a dimension is frozen: as many as there are levels to select for, with
\* directions and paradigms of the dimension left out.
THEOREM AlwaysMetasFit == Spec => []MetasFit
<1>1. Init => Shape /\ Lent /\ Sized /\ Rates /\ Written /\ Selected
  BY ShapeInit, LentInit, SizedInit, RatesInit, WrittenInit, SelectedInit
<1>2. Shape /\ Lent /\ Sized /\ Rates /\ Written /\ Selected /\ [Next]_vars
        => (Shape /\ Lent /\ Sized /\ Rates /\ Written /\ Selected)'
  BY ShapeNext, LentNext, SizedNext, RatesNext, WrittenNext, SelectedNext
<1>3. Sized /\ Written /\ Selected => MetasFit
  <2> SUFFICES ASSUME Sized, Written, Selected,
                      stream.compressor.kind = "interp", given.cmprAlgo = "INTERP_LORENZO"
               PROVE  LET h    == stream.header
                          used == IF h.metas = <<>> THEN {h.interpMeta} ELSE Range(h.metas)
                      IN  /\ h.metas # <<>> => Len(h.metas) = conf.levelwise
                          /\ \A m \in used : MetaFits(m, h.frozen_dim, N(conf))
    BY DEF MetasFit, MetaFits
  <2>1. stream # None
    BY DEF None
  <2>2. /\ stream.header.metas = conf.interpMeta_list
        /\ stream.header.interpMeta = conf.interpMeta
        /\ stream.header.frozen_dim = conf.frozen_dim
        /\ N(conf) = N(given) /\ ConfFits
    <3>1. stream.header = Header(conf) /\ conf.dims = given.dims
      BY <2>1 DEF Written
    <3>2. ConfFits
      BY <2>1 DEF Selected
    <3> QED
      BY <3>1, <3>2 DEF Header, N
  <2>3. CASE conf.interpMeta_list = <<>>
    BY <2>2, <2>3 DEF ConfFits
  <2>4. CASE conf.interpMeta_list # <<>>
    <3> PICK list : list = conf.interpMeta_list
      OBVIOUS
    <3>1. /\ list \in Seq(SomeMeta) /\ Len(list) = conf.levelwise
          /\ \A i \in 1 .. conf.levelwise : MetaFits(list[i], conf.frozen_dim, N(given))
      BY <2>2, <2>4 DEF ConfFits, AllFit
    <3>2. ASSUME NEW m \in Range(list) PROVE MetaFits(m, conf.frozen_dim, N(given))
      <4>1. PICK i \in DOMAIN list : m = list[i]
        BY DEF Range
      <4>2. i \in 1 .. conf.levelwise
        BY <3>1
      <4> QED
        BY <3>1, <4>1, <4>2
    <3> QED
      BY <2>2, <2>4, <3>1, <3>2
  <2> QED
    BY <2>3, <2>4
<1> QED
  BY <1>1, <1>2, <1>3, PTL DEF Spec

===============================================================================
