----------------------------- MODULE InterpSweep -----------------------------
(***************************************************************************)
(* The order in which SZInterpolationCompressor visits the array: first the*)
(* anchors (or the first point), then level by level from the coarsest to  *)
(* the finest, block by block, and in a block the passes of                *)
(* block_interpolation.  compress walks the order once, tuning blocks as it*)
(* goes if asked to, and writes a header; decompress walks it again from   *)
(* what the header tells.                                                  *)
(*                                                                         *)
(* An event is the coding of one point: [at, reads], reads the points its  *)
(* prediction reads.  The values are left out: QuantStream is about them.  *)
(* Points are tuples, counted from 0; dimensions are counted from 1.       *)
(*                                                                         *)
(* Paradigm 0 goes along one direction after the other; the paradigms from *)
(* 1 on go along all of them on the coarse lines first, and code the points*)
(* in between from both sides of several directions.  In 1 and 4 dimensions*)
(* there is paradigm 0 only.                                               *)
(***************************************************************************)
EXTENDS CenterStencils, FiniteSets

CONSTANT Configs      \* the configurations considered, see Config

Metas == [algo : {"linear", "cubic"}, adj : BOOLEAN, paradigm : Nat, direction : Nat]

\* conf.fixBlockSize 0 and conf.maxStep 0 are off; frozen 0 is frozen_dim -1.
IsConfig(c) ==
  /\ DOMAIN c = {"dims", "blocksize", "fixBlockSize", "maxStep", "frozen", "cross",
                 "meta", "list", "blockwise", "rate", "multiDim"}
  /\ Len(c.dims) \in 1 .. 4 /\ \A d \in 1 .. Len(c.dims) : c.dims[d] \in Nat \ {0}
  /\ c.blocksize \in Nat \ {0} /\ c.blocksize % 2 = 0
  /\ {c.fixBlockSize, c.maxStep, c.multiDim} \subseteq Nat
  /\ c.frozen \in 0 .. 3 /\ (c.frozen # 0 => Len(c.dims) = 3)   \* freezeDimTest
  /\ c.cross \in BOOLEAN /\ c.blockwise \in BOOLEAN
  /\ c.meta \in Metas /\ c.list \in Seq(Metas)
  /\ c.rate \in {1, 2, 4}

ASSUME SweepAssumption == \A c \in Configs : IsConfig(c)

VARIABLES
  pc,          \* what the program does next
  cfg,         \* the configuration, global_dimensions included
  level,       \* compress: the level loop,
  block,       \*   the block's first point,
  todo,        \*   the rest of its passes
  log,         \*   the events so far, a batch for every loop of the code
  interp_metas,\*   the metas chosen block by block
  dirty,       \*   points whose value a trial has changed for good
  hdr,         \* what the stream says
  dlevel, dblock, dtodo, dlog, meta_index    \* the same for decompress

encVars == <<level, block, todo, log, interp_metas, dirty>>
decVars == <<dlevel, dblock, dtodo, dlog, meta_index>>
vars == <<pc, cfg, hdr, encVars, decVars>>

-----------------------------------------------------------------------------
Dims(c)   == 1 .. Len(c.dims)
Points(c) == {p \in [Dims(c) -> 0 .. Max({c.dims[d] : d \in Dims(c)})] :
                \A d \in Dims(c) : p[d] < c.dims[d]}
Origin(c) == [d \in Dims(c) |-> 0]

\* dimension_sequences[k]: the permutations in lexicographic order.
Orders(n) == {p \in [1 .. n -> 1 .. n] : \A i, j \in 1 .. n : p[i] = p[j] => i = j}
Lesser(n, p, q) == \E i \in 1 .. n : p[i] < q[i] /\ \A j \in 1 .. (i - 1) : p[j] = q[j]

dimension_sequences(n, k) ==
  CHOOSE p \in Orders(n) : Cardinality({q \in Orders(n) : Lesser(n, q, p)}) = k

Pow2[k \in Nat] == IF k = 0 THEN 1 ELSE 2 * Pow2[k - 1]

CeilLog2(x)  == CHOOSE k \in 0 .. x : Pow2[k] >= x /\ (k = 0 \/ Pow2[k - 1] < x)
FloorLog2(x) == CHOOSE k \in 0 .. x : Pow2[k] <= x /\ x < Pow2[k + 1]

\* init, and the decrement for the level the anchors replace.
StartLevel(c) ==
  LET full == Max({CeilLog2(c.dims[d]) : d \in Dims(c)})
  IN  IF c.maxStep = 0 THEN full ELSE Min({full, FloorLog2(c.maxStep) + 1}) - 1

\* build_grid and recover_grid; without anchors the first point, predicted by 0.
FirstBatch(c) ==
  LET stride(d) == IF d = c.frozen THEN 1 ELSE c.maxStep
      points == IF c.maxStep = 0 THEN {Origin(c)}
                ELSE {p \in Points(c) : \A d \in Dims(c) : p[d] % stride(d) = 0}
  IN  {[at |-> p, reads |-> {}] : p \in points}

Stride(l) == Pow2[l - 1]

\* Mutant: the size is divided by the stride.
CurBlocksize_Divided(c, l) ==
  IF c.fixBlockSize > 0 THEN c.fixBlockSize ELSE c.blocksize \div Stride(l)

CurBlocksize(c, l) == IF c.fixBlockSize > 0 THEN c.fixBlockSize ELSE c.blocksize * Stride(l)

BlockEnd(c, l, start) ==
  [d \in Dims(c) |-> Min({start[d] + CurBlocksize(c, l), c.dims[d] - 1})]

\* multi_dimensional_iterator::operator++: the directions that have a next block.
Advance(c, l, start) == {d \in Dims(c) : start[d] + CurBlocksize(c, l) < c.dims[d]}

NextStart(c, l, start) ==
  LET last == Max(Advance(c, l, start))
  IN  [d \in Dims(c) |-> IF d < last THEN start[d]
                         ELSE IF d = last THEN start[d] + CurBlocksize(c, l) ELSE 0]

\* cur_meta: the level's meta, or the last one for the levels beyond.
LevelMeta(meta, list, l) ==
  IF list = <<>> THEN meta ELSE list[Min({l, Len(list)})]

-----------------------------------------------------------------------------
(* The passes of a block.                                                  *)

\* Mutant: the first line of a block is coded again with the next block.
After_Shared(x, step) == x

After(x, step) == IF x # 0 THEN x + step ELSE 0

\* block_interpolation_1d_crossblock_2d and _3d: the lines along dir that start
\* at the points of lo .. end, steps apart; in 1 dimension without cross blocks
\* and in 4 dimensions block_interpolation_1d, line by line.
LinePass(c, meta, lo, end, dir, steps, s) ==
  LET others == Dims(c) \ {dir}
      n      == ((end[dir] - lo[dir]) \div s) + 1
      bases  == {p \in Points(c) :
                   /\ p[dir] = lo[dir]
                   /\ \A d \in others : /\ p[d] \in lo[d] .. end[d]
                                        /\ (p[d] - lo[d]) % steps[d] = 0}
      front(p) == c.cross /\ \A d \in others : p[d] % (2 * s) = 0
      line(f)  == [n |-> n, begin |-> lo[dir], end |-> end[dir], stride |-> s,
                   dim |-> c.dims[dir], back |-> c.cross, front |-> f]
      phases(f) == IF (Len(c.dims) = 1 /\ ~c.cross) \/ Len(c.dims) = 4
                   THEN PlainLine(n, meta) ELSE CrossLine(line(f), meta)
      byFront   == [f \in BOOLEAN |-> phases(f)]
      point(p, i)    == [p EXCEPT ![dir] = @ + i * s]
      event(p, i, offs) == [at |-> point(p, i), reads |-> {point(p, i + o) : o \in offs}]
  IN  IF \E d \in Dims(c) : end[d] < lo[d] THEN <<>>
      ELSE [k \in 1 .. Len(byFront[FALSE]) |->
              UNION {{event(p, x[1], x[2]) : x \in byFront[front(p)][k]} : p \in bases}]

\* Paradigm 0: one direction after the other, each filling in what the earlier
\* ones have made half as coarse.  A direction from 6 on leaves out dims[1],
\* which is frozen.
AlongDims(c, meta, start, end, s) ==
  LET fallback_2d == Len(c.dims) = 3 /\ meta.direction >= 6
      dims  == dimension_sequences(Len(c.dims), meta.direction - IF fallback_2d THEN 6 ELSE 0)
      step(d, k) == IF fallback_2d /\ d = dims[1] THEN 1
                    ELSE IF \E j \in 1 .. (k - 1) : dims[j] = d THEN s ELSE 2 * s
      pass(k) ==
        LinePass(c, meta,
                 [d \in Dims(c) |-> IF d = dims[k] THEN start[d] ELSE After(start[d], step(d, k))],
                 end, dims[k], [d \in Dims(c) |-> step(d, k)], s)
  IN  FlattenSeq([k \in Dims(c) |-> IF fallback_2d /\ k = 1 THEN <<>> ELSE pass(k)])

\* block_interpolation_2d_crossblock(_3d) and block_interpolation_3d_crossblock:
\* the points odd in all of dirs, in every plane that lo .. end and steps give for
\* the other dimensions.  The cubic kernels leave out the directions that are too
\* short for them: there the odd points are taken one by one.  Parallel planes
\* read nothing of one another, so the order between them is left out.
CenterPass(c, meta, lo, end, dirs, steps, s) ==
  LET n(d)    == ((end[d] - lo[d]) \div s) + 1
      real(d) == IF c.cross THEN (end[d] \div s) + 1 ELSE n(d)
      long    == IF meta.algo = "linear" \/ \A d \in dirs : real(d) < 5 THEN dirs
                 ELSE {d \in dirs : real(d) >= 5}
      from    == [d \in Dims(c) |-> IF d \in dirs \ long THEN lo[d] + s ELSE lo[d]]
      by      == [d \in Dims(c) |-> IF d \in dirs \ long THEN 2 * s ELSE steps[d]]
      bases   == {p \in Points(c) :
                    \A d \in Dims(c) : IF d \in long THEN p[d] = from[d]
                                      ELSE p[d] \in from[d] .. end[d] /\ (p[d] - from[d]) % by[d] = 0}
      box     == [len   |-> [d \in long |-> n(d)],
                  start |-> [d \in long |-> IF c.cross /\ lo[d] >= 2 * s THEN 1 ELSE 3]]
      move(p, x) == [d \in Dims(c) |-> IF d \in long THEN p[d] + s * x[d] ELSE p[d]]
      stencils == IF meta.algo = "linear" \/ \A d \in dirs : real(d) < 5 THEN CenterLinear(box)
                  ELSE IF meta.adj THEN CenterCubicAdj(box) ELSE CenterCubic(box)
      event(p, x) == [at |-> move(p, x[1]), reads |-> {move(move(p, x[1]), o) : o \in x[2]}]
  IN  IF (\E d \in Dims(c) : end[d] < lo[d]) \/ (\E d \in dirs : n(d) <= 1) THEN <<>>
      ELSE IF Cardinality(long) = 1
           THEN LinePass(c, meta, from, end, CHOOSE d \in long : TRUE, by, s)
      ELSE [k \in 1 .. Len(stencils) |-> {event(p, x) : p \in bases, x \in stencils[k]}]

\* Mutant: the planes are coded before the lines they read.
Combinations_Swapped(dims) ==
  IF Len(dims) = 2 THEN << {dims[1], dims[2]}, {dims[1]}, {dims[2]} >>
  ELSE << {dims[1]}, {dims[2]}, {dims[1], dims[2]}, {dims[3]}, {dims[1], dims[3]},
          {dims[2], dims[3]}, {dims[1], dims[2], dims[3]} >>

\* The directions of the passes, from lines to planes to the cube.
Combinations(dims) ==
  IF Len(dims) = 2 THEN << {dims[1]}, {dims[2]}, {dims[1], dims[2]} >>
  ELSE << {dims[1]}, {dims[2]}, {dims[3]}, {dims[1], dims[2]}, {dims[1], dims[3]},
          {dims[2], dims[3]}, {dims[1], dims[2], dims[3]} >>

\* Paradigms 1 and up: every pass lies on the coarse points of the directions it
\* leaves out, or on all points of a frozen one.
AroundCenter(c, meta, start, end, s) ==
  LET fallback_2d == Len(c.dims) = 3 /\ meta.direction >= 6
      dims  == dimension_sequences(Len(c.dims), IF fallback_2d THEN meta.direction - 6 ELSE 0)
      step(d) == IF fallback_2d /\ d = dims[1] THEN 1 ELSE 2 * s
      steps == [d \in Dims(c) |-> step(d)]
      lo(dirs) == [d \in Dims(c) |-> IF d \in dirs THEN start[d] ELSE After(start[d], step(d))]
      pass(dirs) == IF Cardinality(dirs) = 1
                    THEN LinePass(c, meta, lo(dirs), end, CHOOSE d \in dirs : TRUE, steps, s)
                    ELSE CenterPass(c, meta, lo(dirs), end, dirs, steps, s)
      combinations == Combinations(IF fallback_2d THEN Tail(dims) ELSE dims)
  IN  FlattenSeq([k \in DOMAIN combinations |-> pass(combinations[k])])

\* block_interpolation.
BlockPasses(c, meta, start, end, s) ==
  IF meta.paradigm = 0 \/ Len(c.dims) \in {1, 4}
  THEN AlongDims(c, meta, start, end, s)
  ELSE AroundCenter(c, meta, start, end, s)

-----------------------------------------------------------------------------
(* compress.                                                               *)

Init ==
  /\ cfg \in Configs
  /\ pc = "first"
  /\ level = 0 /\ block = <<>> /\ todo = <<>> /\ log = <<>>
  /\ interp_metas = <<>> /\ dirty = {}
  /\ hdr = [meta |-> cfg.meta, list |-> <<>>, blockwise |-> FALSE]
  /\ dlevel = 0 /\ dblock = <<>> /\ dtodo = <<>> /\ dlog = <<>> /\ meta_index = 0

EncodeFirst ==
  /\ pc = "first"
  /\ log' = <<FirstBatch(cfg)>>
  /\ level' = StartLevel(cfg)
  /\ block' = Origin(cfg)
  /\ pc' = IF level' = 0 THEN "save" ELSE "block"
  /\ UNCHANGED <<cfg, hdr, todo, interp_metas, dirty, decVars>>

\* blockwiseTuning is read by compress in 2 and 3 dimensions only.
Tuned(c) == c.blockwise /\ Len(c.dims) \in {2, 3}

StartPasses(meta) ==
  todo' = BlockPasses(cfg, meta, block, BlockEnd(cfg, level, block), Stride(level))

EncodeBlock ==
  /\ pc = "block"
  /\ ~Tuned(cfg)
  /\ StartPasses(LevelMeta(cfg.meta, cfg.list, level))
  /\ pc' = "code"
  /\ UNCHANGED <<cfg, hdr, level, block, log, interp_metas, dirty, decVars>>

\* The metas a block is tried with.
Candidates(c, meta) ==
  LET direct == IF c.frozen = 0 THEN {0, (IF Len(c.dims) = 2 THEN 2 ELSE 6) - 1}
                ELSE {4 + 2 * c.frozen, 5 + 2 * c.frozen}
      skipped(p, d) == IF c.frozen # 0 THEN p > 1
                       ELSE d # 0 /\ (p = 1 \/ (p = 2 /\ Len(c.dims) = 2))
  IN  {m \in [algo : {meta.algo}, adj : {meta.adj}, paradigm : 0 .. c.multiDim, direction : direct] :
         ~skipped(m.paradigm, m.direction)}

\* The part of the block a trial runs on, in direction d: the middle 1/rate of
\* it, if that leaves 8 points.
SampleRange(c, l, start, d) ==
  LET s    == Stride(l)
      end  == BlockEnd(c, l, start)[d]
      len  == end - start[d] + 1
      rate == IF l >= 3 THEN 1
              ELSE Max({r \in {1, 2, 4} : r <= c.rate /\ (r = 1 \/ len \div (s * r) >= 8)})
      down(num) == ((num * len) \div (2 * rate * 2 * s)) * 2 * s + start[d]
  IN  <<down(rate - 1), Min({down(rate + 1), end})>>

\* Mutant: the sample is saved and restored twice as coarse.
Saved_Coarse(c, s, first, last) ==
  {p \in Points(c) : \A d \in Dims(c) :
     p[d] \in first[d] .. last[d] /\ (p[d] - first[d]) % (2 * s) = 0}

\* orig_sampled_block: the points of the sample that are saved before the trials
\* and written back after each.
Saved(c, s, first, last) ==
  LET sample_strides == [d \in Dims(c) |-> IF d = c.frozen THEN 1 ELSE s]
  IN  {p \in Points(c) : \A d \in Dims(c) :
         p[d] \in first[d] .. last[d] /\ (p[d] - first[d]) % sample_strides[d] = 0}

\* One block tuned: every candidate is tried in place on the sample, the sample
\* written back each time, and the best one (any of them: losses are left out)
\* codes the block.
TuneBlock ==
  LET s      == Stride(level)
      sample == [d \in Dims(cfg) |-> SampleRange(cfg, level, block, d)]
      first  == [d \in Dims(cfg) |-> sample[d][1]]
      last   == [d \in Dims(cfg) |-> sample[d][2]]
      metas    == Candidates(cfg, LevelMeta(cfg.meta, cfg.list, level))
      written(meta) == UNION {{e.at : e \in batch} :
                                batch \in Range(BlockPasses(cfg, meta, first, last, s))}
  IN  /\ pc = "block"
      /\ Tuned(cfg)
      /\ dirty' = dirty \cup ((UNION {written(meta) : meta \in metas}) \ Saved(cfg, s, first, last))
      /\ \E best \in metas :
           /\ interp_metas' = Append(interp_metas, best)
           /\ StartPasses(best)
      /\ pc' = "code"
      /\ UNCHANGED <<cfg, hdr, level, block, log, decVars>>

\* One loop of a pass: quantize_and_overwrite for each of its points.
EncodePass ==
  /\ pc = "code"
  /\ todo # <<>>
  /\ log' = Append(log, Head(todo))
  /\ todo' = Tail(todo)
  /\ UNCHANGED <<pc, cfg, hdr, level, block, interp_metas, dirty, decVars>>

EncodeNextBlock ==
  /\ pc = "code"
  /\ todo = <<>>
  /\ Advance(cfg, level, block) # {}
  /\ block' = NextStart(cfg, level, block)
  /\ pc' = "block"
  /\ UNCHANGED <<cfg, hdr, level, todo, log, interp_metas, dirty, decVars>>

EncodeNextLevel ==
  /\ pc = "code"
  /\ todo = <<>>
  /\ Advance(cfg, level, block) = {}
  /\ level' = level - 1
  /\ block' = Origin(cfg)
  /\ pc' = IF level' = 0 THEN "save" ELSE "block"
  /\ UNCHANGED <<cfg, hdr, todo, log, interp_metas, dirty, decVars>>

\* The rest of the header repeats cfg.
WriteHeader ==
  /\ pc = "save"
  /\ hdr' = [meta |-> cfg.meta, blockwise |-> cfg.blockwise,
             list |-> IF cfg.blockwise THEN interp_metas ELSE cfg.list]
  /\ pc' = "dfirst"
  /\ UNCHANGED <<cfg, encVars, decVars>>

-----------------------------------------------------------------------------
(* decompress.                                                             *)

DecodeFirst ==
  /\ pc = "dfirst"
  /\ dlog' = <<FirstBatch(cfg)>>
  /\ dlevel' = StartLevel(cfg)
  /\ dblock' = Origin(cfg)
  /\ pc' = IF dlevel' = 0 THEN "done" ELSE "dblock"
  /\ UNCHANGED <<cfg, hdr, dtodo, meta_index, encVars>>

\* Mutant: the metas of the blocks are not used.
DecodeBlock_LevelMeta ==
  /\ pc = "dblock"
  /\ dtodo' = BlockPasses(cfg, LevelMeta(hdr.meta, hdr.list, dlevel), dblock,
                          BlockEnd(cfg, dlevel, dblock), Stride(dlevel))
  /\ meta_index' = meta_index + IF hdr.blockwise THEN 1 ELSE 0
  /\ pc' = "dcode"
  /\ UNCHANGED <<cfg, hdr, dlevel, dblock, dlog, encVars>>

DecodeBlock ==
  LET meta == IF hdr.blockwise THEN hdr.list[meta_index + 1]
                               ELSE LevelMeta(hdr.meta, hdr.list, dlevel)
  IN  /\ pc = "dblock"
      /\ dtodo' = BlockPasses(cfg, meta, dblock, BlockEnd(cfg, dlevel, dblock), Stride(dlevel))
      /\ meta_index' = meta_index + IF hdr.blockwise THEN 1 ELSE 0
      /\ pc' = "dcode"
      /\ UNCHANGED <<cfg, hdr, dlevel, dblock, dlog, encVars>>

DecodePass ==
  /\ pc = "dcode"
  /\ dtodo # <<>>
  /\ dlog' = Append(dlog, Head(dtodo))
  /\ dtodo' = Tail(dtodo)
  /\ UNCHANGED <<pc, cfg, hdr, dlevel, dblock, meta_index, encVars>>

DecodeNextBlock ==
  /\ pc = "dcode"
  /\ dtodo = <<>>
  /\ Advance(cfg, dlevel, dblock) # {}
  /\ dblock' = NextStart(cfg, dlevel, dblock)
  /\ pc' = "dblock"
  /\ UNCHANGED <<cfg, hdr, dlevel, dtodo, dlog, meta_index, encVars>>

\* Mutant: the level loop ends before the last level.
DecodeNextLevel_Short ==
  /\ pc = "dcode"
  /\ dtodo = <<>>
  /\ Advance(cfg, dlevel, dblock) = {}
  /\ dlevel' = dlevel - 1
  /\ dblock' = Origin(cfg)
  /\ pc' = IF dlevel' <= 1 THEN "done" ELSE "dblock"
  /\ UNCHANGED <<cfg, hdr, dtodo, dlog, meta_index, encVars>>

DecodeNextLevel ==
  /\ pc = "dcode"
  /\ dtodo = <<>>
  /\ Advance(cfg, dlevel, dblock) = {}
  /\ dlevel' = dlevel - 1
  /\ dblock' = Origin(cfg)
  /\ pc' = IF dlevel' = 0 THEN "done" ELSE "dblock"
  /\ UNCHANGED <<cfg, hdr, dtodo, dlog, meta_index, encVars>>

Done == pc = "done" /\ UNCHANGED vars

Step ==
  \/ EncodeFirst \/ EncodeBlock \/ TuneBlock \/ EncodePass
  \/ EncodeNextBlock \/ EncodeNextLevel \/ WriteHeader
  \/ DecodeFirst \/ DecodeBlock \/ DecodePass \/ DecodeNextBlock \/ DecodeNextLevel

Next == Step \/ Done

\* One thread runs compress and then decompress to their ends.
Spec == Init /\ [][Next]_vars

-----------------------------------------------------------------------------
(* Properties.                                                             *)

\* The settings under which compress and decompress are meant to be run: anchors a
\* power of two apart, but not further than the array is long; blocks of whole cells of
\* the anchors; directions that name a permutation, of 3 dimensions or of the 2 that are
\* not frozen; and tuned blocks only where compress tunes them.
Fits(c) ==
  /\ IF c.maxStep = 0 THEN c.frozen = 0
     ELSE /\ \E k \in 0 .. c.maxStep : c.maxStep = Pow2[k]
          /\ \E d \in Dims(c) : c.maxStep < c.dims[d]
  /\ c.fixBlockSize % Pow2[StartLevel(c)] = 0
  /\ IF c.blockwise THEN Len(c.dims) \in {2, 3}
     ELSE \A meta \in {c.meta} \cup Range(c.list) :
            IF c.frozen = 0 THEN meta.direction < Cardinality(Orders(Len(c.dims)))
            ELSE meta.direction \in {4 + 2 * c.frozen, 5 + 2 * c.frozen}

\* The log and the decoder's log as the abstract order sees them.
Order == INSTANCE PointOrder WITH grid <- Points(cfg)

\* No point is coded twice and every point a prediction reads is coded before
\* it, over all levels, blocks, passes and borders; and the decoder, which has
\* only the header and its own cursor, repeats the encoder's order.  (Every
\* caller of quantize_integrated and recover relies on it.)
FollowsOrder == Order!Spec

\* assert(quant_inds.size() == num_elements) at the end of compress: there is an
\* event, so a bin, for every point.
AllCoded == pc \notin {"first", "block", "code"} => Order!Known(log) = Points(cfg)

\* The decoder ends with every batch decoded and every block's meta used.
AllDecoded == pc = "done" => dlog = log /\ (hdr.blockwise => meta_index = Len(hdr.list))

\* A trial of blockwiseTuning leaves no trace in the array: every value it has
\* overwritten is written back.
TrialInvisible == dirty = {}

\* Coarser levels come before finer ones, blocks of a level in row order.
Further(l, at, next_l, next_at) ==
  \/ next_l < l
  \/ /\ next_l = l
     /\ \E d \in Dims(cfg) : next_at[d] > at[d] /\ \A k \in 1 .. (d - 1) : next_at[k] = at[k]

\* Every step brings compress, then decompress, nearer to its end: the unsigned level
\* counts down, the cursor of the blocks moves forward in row order (for which a block
\* must not be empty), or a loop of the block is done.  With no deadlock but at the
\* end, all loops come to their ends.
MovesOn ==
  [][LET phase == [first |-> 0, block |-> 1, code |-> 1, save |-> 2, dfirst |-> 3,
                   dblock |-> 4, dcode |-> 4, done |-> 5]
     IN  \/ phase[pc'] > phase[pc]
         \/ <<pc, pc'>> \in {<<"block", "code">>, <<"dblock", "dcode">>}
         \/ pc = "code" /\ Further(level, block, level', block')
         \/ pc = "dcode" /\ Further(dlevel, dblock, dlevel', dblock')
         \/ /\ pc' = pc
            /\ Len(todo') + Len(dtodo') < Len(todo) + Len(dtodo)]_vars
=============================================================================
