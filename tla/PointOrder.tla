------------------------------ MODULE PointOrder ------------------------------
(***************************************************************************)
(* What the order of an interpolation compressor promises, whatever the    *)
(* stencils: the encoder codes the points of the grid in batches, no point *)
(* twice and none predicted from a point that is not reconstructed yet; the*)
(* decoder repeats the batches in the same order.  The decoder then has,   *)
(* at every prediction, what the encoder had (InterpSweepProofs).          *)
(***************************************************************************)
EXTENDS Integers, Sequences

VARIABLES
  grid,   \* the points of the array
  log,    \* the batches coded, sets of [at : point, reads : set of points]
  dlog    \* the batches decoded

poVars == <<grid, log, dlog>>

Coded(l, n) == UNION {{e.at : e \in l[k]} : k \in 1 .. n}
Known(l)    == Coded(l, Len(l))

\* The points of a batch may be coded in any order among themselves.
GoodBatch(batch, known) ==
  /\ batch \subseteq [at : grid \ known, reads : SUBSET known]
  /\ \A e, f \in batch : e.at = f.at => e = f

Init == log = <<>> /\ dlog = <<>>

Encode ==
  /\ Len(log') = Len(log) + 1
  /\ log' = Append(log, log'[Len(log) + 1])
  /\ GoodBatch(log'[Len(log) + 1], Known(log))
  /\ UNCHANGED <<grid, dlog>>

Decode ==
  /\ Len(dlog) < Len(log)
  /\ dlog' = Append(dlog, log[Len(dlog) + 1])
  /\ UNCHANGED <<grid, log>>

Next == Encode \/ Decode

Spec == Init /\ [][Next]_poVars

-----------------------------------------------------------------------------
Event == [at : grid, reads : SUBSET grid]

\* Logs are sequences of sets of events.
Typed == log \in Seq(SUBSET Event) /\ dlog \in Seq(SUBSET Event)

\* No point is coded twice, in one batch or in two.
CodedOnce ==
  \A j, k \in 1 .. Len(log) : \A e \in log[j], f \in log[k] :
    e.at = f.at => j = k /\ e = f

\* What a prediction reads has been coded in an earlier batch.
ReadsCoded ==
  \A k \in 1 .. Len(log) : \A e \in log[k] : e.reads \subseteq Coded(log, k - 1)

\* The decoder has decoded what the encoder coded first, in the same batches, and
\* what a prediction of it reads has been decoded in an earlier batch.
DecoderReady ==
  /\ Len(dlog) <= Len(log)
  /\ \A k \in 1 .. Len(dlog) :
       /\ dlog[k] = log[k]
       /\ \A e \in dlog[k] : e.reads \subseteq Coded(dlog, k - 1)
=============================================================================
