---------------------------- MODULE BlockFrontend ----------------------------
(***************************************************************************)
(* SZGeneralFrontend, the Lorenzo and regression path: the array is cut    *)
(* into blocks, every block gets a predictor, and its elements are coded in*)
(* row-major order by two multi_dimensional_iterators, one over the blocks *)
(* and one over the elements of a block.  With more than one predictor     *)
(* enabled ComposedPredictor picks one for each block and keeps the picks  *)
(* in a list; RegressionPredictor and PolyRegressionPredictor keep the     *)
(* coefficients of their blocks in lists too, each as a difference from the*)
(* block before.  The decoder has these lists and its own iterators.       *)
(*                                                                         *)
(* Data is left out: a set of coefficients is the number of the block it   *)
(* was fitted to (0 for the initial zeros), and which predictor has the    *)
(* smallest error is a choice.  Elements are offsets in the array.         *)
(***************************************************************************)
EXTENDS Integers, Sequences, FiniteSetsExt

CONSTANT Configs       \* the configurations considered

\* The order make_lorenzo_regression_compressor enables them in.
Methods     == <<"lorenzo", "lorenzo2", "regression", "regression2">>
Regressions == {"regression", "regression2"}

\* methods is a subsequence of Methods; regression2 is for 1, 2 and 3 dimensions,
\* and in 3 dimensions SZFastFrontend is used without it.
IsConfig(c) ==
  /\ DOMAIN c = {"dims", "block_size", "methods"}
  /\ Len(c.dims) \in 1 .. 4 /\ \A d \in 1 .. Len(c.dims) : c.dims[d] \in Nat \ {0}
  /\ c.block_size \in Nat \ {0}
  /\ \E enabled \in SUBSET (1 .. 4) : /\ enabled # {}
                                      /\ (Len(c.dims) = 3 => 4 \in enabled) /\ (Len(c.dims) = 4 => 4 \notin enabled)
                                      /\ c.methods = [k \in 1 .. Cardinality(enabled) |->
                                           Methods[CHOOSE i \in enabled :
                                             Cardinality({j \in enabled : j <= i}) = k]]

ASSUME FrontendAssumption == \A c \in Configs : IsConfig(c)

VARIABLES
  pc, cfg,
  block,        \* compress: the iterator over blocks,
  elem,         \*   the iterator over the elements of the block,
  selection,    \*   ComposedPredictor's picks,
  prev_coeffs,  \*   by regression predictor, the coefficients of its last block
  coeffs,       \*   and regression_coeff_quant_inds, an entry for a block,
  used,         \*   history: what each block was predicted by,
  log,          \*   history: the elements coded, see PointOrder
  stream,       \* what save wrote
  dblock, delem, current_index, current_coeffs, regression_coeff_index, dused, dlog

encVars == <<block, elem, selection, prev_coeffs, coeffs, used, log>>
decVars == <<dblock, delem, current_index, current_coeffs, regression_coeff_index, dused, dlog>>
vars == <<pc, cfg, stream, encVars, decVars>>

-----------------------------------------------------------------------------
(* multi_dimensional_range and its iterator.                               *)

Dims(c) == 1 .. Len(c.dims)

\* The sum of f[i] and all behind it, f having the directions as its domain.
SumFrom(f, i) ==
  LET sum[d \in Nat] == IF d \in DOMAIN f THEN f[d] + sum[d + 1] ELSE 0
  IN  sum[i]

\* set_global_dim_strides, for access stride 1.
Strides(c) ==
  LET f[d \in Dims(c)] == IF d = Len(c.dims) THEN 1 ELSE f[d + 1] * c.dims[d + 1]
  IN  f

BlockRange(c) ==
  LET dims    == [d \in Dims(c) |-> ((c.dims[d] - 1) \div c.block_size) + 1]
      strides == [d \in Dims(c) |-> Strides(c)[d] * c.block_size]
  IN  [dims |-> dims, strides |-> strides, start |-> 0, end |-> dims[1] * strides[1],
       left_boundary |-> [d \in Dims(c) |-> FALSE]]

\* Mutant: every block is taken for a full one.
ElementRange_Full(c, b) ==
  [dims |-> [d \in Dims(c) |-> c.block_size], strides |-> Strides(c), start |-> b.offset,
   end |-> b.offset + c.block_size * Strides(c)[1],
   left_boundary |-> [d \in Dims(c) |-> b.local[d] = 0]]

\* update_block_range: the range of the block b points to.
ElementRange(c, b) ==
  LET dims == [d \in Dims(c) |-> IF b.local[d] = BlockRange(c).dims[d] - 1
                                 THEN c.dims[d] - b.local[d] * c.block_size
                                 ELSE c.block_size]
  IN  [dims |-> dims, strides |-> Strides(c), start |-> b.offset,
       end |-> b.offset + dims[1] * Strides(c)[1],
       left_boundary |-> [d \in Dims(c) |-> b.local[d] = 0]]

Begin(range) == [local |-> [d \in DOMAIN range.dims |-> 0], offset |-> range.start]
AtEnd(range, it) == it.offset = range.end

\* Mutant: the carry goes one step short of the end of a row.
Increment_Early(range, it) ==
  LET last == Max({1} \cup {d \in DOMAIN range.dims : it.local[d] + 2 < range.dims[d]})
      row  == [d \in DOMAIN range.dims |-> it.local[d] * range.strides[d]]
  IN  [local  |-> [d \in DOMAIN range.dims |-> IF d < last THEN it.local[d]
                                               ELSE IF d = last THEN it.local[d] + 1 ELSE 0],
       offset |-> it.offset + range.strides[last]
                    - SumFrom(row, last + 1)]

\* operator++: the last direction with room, those behind it start over.
Increment(range, it) ==
  LET last == Max({1} \cup {d \in DOMAIN range.dims : it.local[d] + 1 < range.dims[d]})
      row  == [d \in DOMAIN range.dims |-> range.dims[d] * range.strides[d] - range.strides[d]]
  IN  [local  |-> [d \in DOMAIN range.dims |-> IF d < last THEN it.local[d]
                                               ELSE IF d = last THEN it.local[d] + 1 ELSE 0],
       offset |-> it.offset + range.strides[last]
                    - SumFrom(row, last + 1)]

\* Mutant: every block is a left boundary.
Prev_AnyBlock(range, it, pos) ==
  IF \E d \in DOMAIN pos : it.local[d] < pos[d] THEN {}
  ELSE {it.offset - SumFrom([d \in DOMAIN pos |-> pos[d] * range.strides[d]], 1)}

\* Mutant: no block is a left boundary.
Prev_Unchecked(range, it, pos) ==
  {it.offset - SumFrom([d \in DOMAIN pos |-> pos[d] * range.strides[d]], 1)}

\* prev: the offset it reads, none if it returns 0.
Prev(range, it, pos) ==
  IF \E d \in DOMAIN pos : it.local[d] < pos[d] /\ range.left_boundary[d] THEN {}
  ELSE {it.offset - SumFrom([d \in DOMAIN pos |-> pos[d] * range.strides[d]], 1)}

\* The terms of do_predict of LorenzoPredictor<T, N, layers>.
Terms(n, layers) == [1 .. n -> 0 .. layers] \ {[d \in 1 .. n |-> 0]}
\* A 4-dimensional predictor has one layer; the fallback predictor too.
Layers(c, by) ==
  CASE by \in Regressions                        -> 0
    [] by = "lorenzo2" /\ Len(c.dims) < 4         -> 2
    [] OTHER                                      -> 1

Event(c, range, it, by) ==
  [at    |-> it.offset,
   reads |-> UNION {Prev(range, it, pos) : pos \in Terms(Len(c.dims), Layers(c, by))}]

-----------------------------------------------------------------------------
(* The predictors.                                                         *)

Composed(c) == Len(c.methods) > 1

\* precompress_block and predecompress_block: thin blocks are not fitted.
Accepts(by, range) ==
  /\ by = "regression"  => \A d \in DOMAIN range.dims : range.dims[d] > 1
  /\ by = "regression2" => \A d \in DOMAIN range.dims : range.dims[d] > 2

\* do_estimate_error and min_element: in a block of up to 2 elements across
\* nothing is compared, except in 1 dimension, and the first predictor is taken.
Picks(c, range) ==
  IF Len(c.dims) > 1 /\ Min({range.dims[d] : d \in Dims(c)}) <= 2 THEN {1}
  ELSE 1 .. Len(c.methods)

Init ==
  LET regressions(c) == {c.methods[k] : k \in 1 .. Len(c.methods)} \cap Regressions
  IN  /\ cfg \in Configs
      /\ pc = "block"
      /\ block = Begin(BlockRange(cfg)) /\ elem = block
      /\ selection = <<>> /\ used = <<>> /\ log = <<>>
      /\ prev_coeffs = [m \in regressions(cfg) |-> 0]
      /\ coeffs = [m \in regressions(cfg) |-> <<>>]
      /\ stream = [selection |-> <<>>, coeffs |-> coeffs]
      /\ dblock = block /\ delem = block
      /\ current_index = 0
      /\ current_coeffs = prev_coeffs /\ regression_coeff_index = prev_coeffs
      /\ dused = <<>> /\ dlog = <<>>

-----------------------------------------------------------------------------
(* compress.                                                               *)

\* Mutant: prev_coeffs is left as it is.
Commit_NoCopy(by, this) ==
  /\ coeffs' = [coeffs EXCEPT ![by] = Append(@, [prev |-> prev_coeffs[by], cur |-> this])]
  /\ UNCHANGED prev_coeffs

\* precompress_block_commit of a regression predictor.
Commit(by, this) ==
  /\ coeffs' = [coeffs EXCEPT ![by] = Append(@, [prev |-> prev_coeffs[by], cur |-> this])]
  /\ prev_coeffs' = [prev_coeffs EXCEPT ![by] = this]

\* The block's predictor accepts it and commits.
StartBlock ==
  LET range == ElementRange(cfg, block)
      this  == Len(used) + 1
  IN  /\ pc = "block"
      /\ ~AtEnd(BlockRange(cfg), block)
      /\ \E sid \in Picks(cfg, range) :
           LET by == cfg.methods[sid]
           IN  /\ Accepts(by, range)
               /\ selection' = IF Composed(cfg) THEN Append(selection, sid) ELSE selection
               /\ IF by \in Regressions THEN Commit(by, this)
                                        ELSE UNCHANGED <<coeffs, prev_coeffs>>
               /\ used' = Append(used, [by |-> by, coeffs |-> IF by \in Regressions THEN this
                                                                                   ELSE 0])
      /\ elem' = Begin(range)
      /\ pc' = "element"
      /\ UNCHANGED <<cfg, block, log, stream, decVars>>

\* It refuses, and the fallback predictor commits in its place.
StartFallback ==
  LET range == ElementRange(cfg, block)
  IN  /\ pc = "block"
      /\ ~AtEnd(BlockRange(cfg), block)
      /\ \E sid \in Picks(cfg, range) : ~Accepts(cfg.methods[sid], range)
      /\ used' = Append(used, [by |-> "fallback", coeffs |-> 0])
      /\ elem' = Begin(range)
      /\ pc' = "element"
      /\ UNCHANGED <<cfg, block, selection, coeffs, prev_coeffs, log, stream, decVars>>

CodeElement ==
  LET range == ElementRange(cfg, block)
  IN  /\ pc = "element"
      /\ ~AtEnd(range, elem)
      /\ log' = Append(log, {Event(cfg, range, elem, used[Len(used)].by)})
      /\ elem' = Increment(range, elem)
      /\ UNCHANGED <<pc, cfg, block, selection, coeffs, prev_coeffs, used, stream, decVars>>

NextBlock ==
  /\ pc = "element"
  /\ AtEnd(ElementRange(cfg, block), elem)
  /\ block' = Increment(BlockRange(cfg), block)
  /\ pc' = "block"
  /\ UNCHANGED <<cfg, elem, selection, coeffs, prev_coeffs, used, log, stream, decVars>>

\* PolyRegressionPredictor hands HuffmanEncoder its list even if it is empty, and
\* preprocess_encode exits.
HuffmanRefuses == "regression2" \in DOMAIN coeffs /\ coeffs["regression2"] = <<>>

SaveExits ==
  /\ pc = "block"
  /\ AtEnd(BlockRange(cfg), block)
  /\ HuffmanRefuses
  /\ pc' = "exited"
  /\ UNCHANGED <<cfg, stream, encVars, decVars>>

\* save and load; load leaves the cursors at 0 and the coefficients zero.
Save ==
  /\ pc = "block"
  /\ AtEnd(BlockRange(cfg), block)
  /\ ~HuffmanRefuses
  /\ stream' = [selection |-> selection, coeffs |-> coeffs]
  /\ pc' = "dblock"
  /\ UNCHANGED <<cfg, encVars, decVars>>

-----------------------------------------------------------------------------
(* decompress.                                                             *)

\* The lists have what predecompress_block reads from them next.
InLists(range) ==
  /\ Composed(cfg) => current_index < Len(stream.selection)
  /\ LET by == cfg.methods[IF Composed(cfg) THEN stream.selection[current_index + 1] ELSE 1]
     IN  by \in Regressions /\ Accepts(by, range) =>
           regression_coeff_index[by] < Len(stream.coeffs[by])

\* It reads past the end of a list: nothing is known of what follows.
DecodeRunsOff ==
  /\ pc = "dblock"
  /\ ~AtEnd(BlockRange(cfg), dblock)
  /\ ~InLists(ElementRange(cfg, dblock))
  /\ pc' = "undefined"
  /\ UNCHANGED <<cfg, stream, encVars, decVars>>

\* pred_and_recover_coefficients: the difference is added to the coefficients
\* at hand; -1 are coefficients of no block.
Recovered(entry, current) == IF entry.prev = current THEN entry.cur ELSE -1

DecodeStartBlock ==
  LET range == ElementRange(cfg, dblock)
      by    == cfg.methods[IF Composed(cfg) THEN stream.selection[current_index + 1] ELSE 1]
  IN  /\ pc = "dblock"
      /\ ~AtEnd(BlockRange(cfg), dblock)
      /\ InLists(range)
      /\ current_index' = IF Composed(cfg) THEN current_index + 1 ELSE current_index
      /\ IF by \in Regressions /\ Accepts(by, range)
         THEN /\ current_coeffs' = [current_coeffs EXCEPT ![by] =
                   Recovered(stream.coeffs[by][regression_coeff_index[by] + 1], @)]
              /\ regression_coeff_index' = [regression_coeff_index EXCEPT ![by] = @ + 1]
              /\ dused' = Append(dused, [by |-> by, coeffs |-> current_coeffs'[by]])
         ELSE /\ dused' = Append(dused, [by |-> IF Accepts(by, range) THEN by ELSE "fallback",
                                         coeffs |-> 0])
              /\ UNCHANGED <<current_coeffs, regression_coeff_index>>
      /\ delem' = Begin(range)
      /\ pc' = "delement"
      /\ UNCHANGED <<cfg, stream, dblock, dlog, encVars>>

DecodeElement ==
  LET range == ElementRange(cfg, dblock)
  IN  /\ pc = "delement"
      /\ ~AtEnd(range, delem)
      /\ dlog' = Append(dlog, {Event(cfg, range, delem, dused[Len(dused)].by)})
      /\ delem' = Increment(range, delem)
      /\ UNCHANGED <<pc, cfg, stream, dblock, current_index, current_coeffs,
                     regression_coeff_index, dused, encVars>>

DecodeNextBlock ==
  /\ pc = "delement"
  /\ AtEnd(ElementRange(cfg, dblock), delem)
  /\ dblock' = Increment(BlockRange(cfg), dblock)
  /\ pc' = "dblock"
  /\ UNCHANGED <<cfg, stream, delem, current_index, current_coeffs,
                 regression_coeff_index, dused, dlog, encVars>>

\* Mutant: the last block is left out.
Return_Early ==
  /\ pc = "dblock"
  /\ AtEnd(BlockRange(cfg), Increment(BlockRange(cfg), dblock))
  /\ pc' = "done"
  /\ UNCHANGED <<cfg, stream, encVars, decVars>>

Return ==
  /\ pc = "dblock"
  /\ AtEnd(BlockRange(cfg), dblock)
  /\ pc' = "done"
  /\ UNCHANGED <<cfg, stream, encVars, decVars>>

Done == pc \in {"done", "undefined", "exited"} /\ UNCHANGED vars

Next ==
  \/ StartBlock \/ StartFallback \/ CodeElement \/ NextBlock \/ SaveExits \/ Save
  \/ DecodeRunsOff \/ DecodeStartBlock \/ DecodeElement \/ DecodeNextBlock \/ Return
  \/ Done

Spec == Init /\ [][Next]_vars

-----------------------------------------------------------------------------
(* Properties.                                                             *)

\* num_elements.
Size(c) == c.dims[1] * Strides(c)[1]

\* A predictor that is picked in spite of other choices never refuses the block.
NeverRefuses(c) ==
  Composed(c) =>
    \A dims \in [Dims(c) -> 1 .. c.block_size] :
      (\A d \in Dims(c) : dims[d] \in {c.block_size, ((c.dims[d] - 1) % c.block_size) + 1}) =>
        \A sid \in Picks(c, [dims |-> dims]) : Accepts(c.methods[sid], [dims |-> dims])

\* The decoder's log counts where the lists are in step, see InStep.
Order == INSTANCE PointOrder WITH
           grid <- 0 .. (Size(cfg) - 1),
           dlog <- IF NeverRefuses(cfg) THEN dlog ELSE <<>>

\* Over all blocks and borders no element is coded twice, Lorenzo prediction reads
\* elements that are already coded, and the decoder repeats the order and the reads
\* of the encoder.  (compress and decompress of SZGeneralFrontend; *element is
\* overwritten as it is coded.)
FollowsOrder == Order!Spec

\* compress fills all of quant_inds(num_elements).
AllCoded == pc \notin {"block", "element"} => Order!Known(log) = 0 .. (Size(cfg) - 1)

\* prev reads the element that many places before along each direction, and is 0
\* exactly when there is none ("return 0 if range is exceeded").
PrevIsNeighbour ==
  LET range == ElementRange(cfg, block)
      by    == used[Len(used)].by
      at[d \in Dims(cfg)] == (elem.offset \div Strides(cfg)[d]) % cfg.dims[d]
      before(pos) == {p \in 0 .. elem.offset : \A d \in Dims(cfg) :
                        /\ at[d] >= pos[d]
                        /\ (p \div Strides(cfg)[d]) % cfg.dims[d] = at[d] - pos[d]}
  IN  pc = "element" /\ ~AtEnd(range, elem) =>
        \A pos \in Terms(Len(cfg.dims), Layers(cfg, by)) : Prev(range, elem, pos) = before(pos)

\* Every block is decoded with the predictor and the coefficients it was coded
\* with, picked from lists that hold an entry for it.  sz.hpp says of the four
\* predictors that they "can be enabled or disabled independently by conf settings".
BlocksAgree ==
  /\ pc # "undefined"
  /\ \A b \in 1 .. Len(dused) : b <= Len(used) /\ dused[b] = used[b]

\* So it is where no predictor refuses a block it is picked for: ComposedPredictor
\* has pushed a selection for every block, and the differences of coefficients add
\* up over the blocks other predictors coded in between.
InStep == NeverRefuses(cfg) => BlocksAgree

\* The decoder then ends with both kinds of lists used up.
ListsConsumed ==
  pc = "done" /\ NeverRefuses(cfg) =>
    /\ current_index = Len(selection)
    /\ \A m \in DOMAIN coeffs : regression_coeff_index[m] = Len(coeffs[m])

\* compress comes to its end whichever predictors the blocks were coded with, as the
\* same sentence of sz.hpp promises.
SaveSucceeds == pc # "exited"
=============================================================================
