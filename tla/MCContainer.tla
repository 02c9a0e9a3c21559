------------------------------ MODULE MCContainer ------------------------------
(* Configurations and arrays for checking Container.                         *)
EXTENDS Container

\* The defaults of Config, with what matters of the array.
Default(dims) ==
  [dims |-> dims, num |-> Elements(dims), cmprAlgo |-> "INTERP_LORENZO",
   errorBoundMode |-> "ABS", absErrorBound |-> 4, relative |-> 2, derived |-> 3,
   tuningTarget |-> "RD", QoZ |-> 4, autoTuningRate |-> 0, predictorTuningRate |-> 0,
   maxStep |-> 0, levelwise |-> 0, multiDimInterp |-> 0, freezeDimTest |-> FALSE,
   blockwiseTuning |-> FALSE, profiling |-> FALSE, sampleBlockSize |-> 0,
   crossBlock |-> FALSE, testLorenzo |-> FALSE, smooth |-> FALSE,
   pdTuningRealComp |-> FALSE, var_first |-> FALSE, alpha |-> -100, beta |-> -100,
   interpMeta |-> [paradigm |-> 0, direction |-> 0], interpMeta_list |-> <<>>,
   frozen_dim |-> -1, methods |-> {"lorenzo", "regression"}, quantbinCnt |-> 65536,
   blockSize |-> CASE Len(dims) = 1 -> 128 [] Len(dims) = 2 -> 16 [] OTHER -> 6,
   pred_dim |-> Len(dims)]

Plane == Default(<<100, 130>>)
Solid == Default(<<70, 60, 90>>)

\* SZ3 and the steps of QoZ, with and without the parts that are off by default; ends
\* in 1 and 4 dimensions; and the algorithms that are not tuned.
TunedInputs ==
  {Plane,
   [Plane EXCEPT !.QoZ = 1, !.levelwise = 2, !.errorBoundMode = "REL", !.testLorenzo = TRUE],
   [Plane EXCEPT !.QoZ = 0],
   [Plane EXCEPT !.QoZ = 0, !.autoTuningRate = 20, !.tuningTarget = "CR"],
   [Plane EXCEPT !.QoZ = 0, !.predictorTuningRate = 20, !.testLorenzo = TRUE,
                 !.multiDimInterp = 2, !.blockwiseTuning = TRUE],
   [Plane EXCEPT !.maxStep = 4, !.levelwise = 1, !.autoTuningRate = 20,
                 !.pdTuningRealComp = TRUE, !.errorBoundMode = "PSNR"],
   [Plane EXCEPT !.maxStep = 8, !.levelwise = 3, !.autoTuningRate = 10, !.QoZ = 1,
                 !.pdTuningRealComp = TRUE, !.tuningTarget = "CR", !.testLorenzo = TRUE],
   [Solid EXCEPT !.maxStep = 4, !.errorBoundMode = "ABS_AND_REL"],
   [Solid EXCEPT !.maxStep = 2, !.tuningTarget = "CR", !.pdTuningRealComp = TRUE,
                 !.testLorenzo = TRUE, !.errorBoundMode = "ABS_OR_REL"],
   [Solid EXCEPT !.QoZ = 0, !.predictorTuningRate = 300, !.levelwise = 2, !.var_first = TRUE,
                 !.freezeDimTest = TRUE, !.testLorenzo = TRUE, !.sampleBlockSize = 16],
   [Default(<<9, 12>>) EXCEPT !.QoZ = 2],
   Default(<<5, 40>>),
   Default(<<300>>), [Default(<<20, 21, 22, 23>>) EXCEPT !.errorBoundMode = "L2NORM"],
   [Plane EXCEPT !.cmprAlgo = "LORENZO_REG", !.methods = {"lorenzo2"}],
   [Solid EXCEPT !.cmprAlgo = "LORENZO_REG", !.methods = {"lorenzo", "regression2"}],
   [Solid EXCEPT !.cmprAlgo = "LORENZO_REG", !.methods = {}],
   [Solid EXCEPT !.cmprAlgo = "INTERP", !.alpha = 150, !.beta = 300, !.errorBoundMode = "REL"]}

\* A fresh configuration, and one that asks for something else altogether.
SomeCallers ==
  {[Default(<<>>) EXCEPT !.blockSize = 6],
   [Solid EXCEPT !.cmprAlgo = "LORENZO_REG", !.methods = {"regression2"}]}

\* An edge of 1, and var_first where no block varies.
StrangeInputs == {Default(<<1, 100>>), [Plane EXCEPT !.var_first = TRUE]}
===============================================================================
