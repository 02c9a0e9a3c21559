----------------------------- MODULE FastFrontend -----------------------------
(***************************************************************************)
(* SZFastFrontend, the Lorenzo and regression path of three dimensions when *)
(* regression2 is off.  The array is cut into blocks, and every block has an*)
(* indicator of its predictor.  A Lorenzo prediction reads a buffer of      *)
(* block_size planes and two more, with two cells of padding before every   *)
(* row and two rows before every plane; when a layer of blocks is coded, the*)
(* last two planes are copied over the first two and the rest keeps what it *)
(* had.  Coefficients of a regression block are coded as differences from   *)
(* those of the regression block before.                                    *)
(*                                                                          *)
(* Data is left out: a cell holds the offset of the element whose           *)
(* reconstruction it has, a prediction is the cells or coefficients it was  *)
(* made from, and a bin recovers its element only from the prediction it is *)
(* a difference to.  The four coefficients of a block are its number.       *)
(***************************************************************************)
EXTENDS Integers, Sequences, FiniteSetsExt, Functions

CONSTANT Configs       \* the configurations considered

Padding == 2           \* lorenzo_padding_layer
Zero    == -1          \* a cell as memset left it
Garbage == -2          \* a value of no element, coefficients of no block

Enablers == {"lorenzo", "lorenzo2", "regression"}

\* hard and odd: the elements, and the blocks' coefficients, that are unpredictable.
\* A block of one plane would have memcpy copy between planes that overlap.
IsConfig(c) ==
  /\ DOMAIN c = {"dims", "block_size", "pred_dim", "methods", "hard", "odd"}
  /\ c.dims \in [1 .. 3 -> Nat \ {0}]
  /\ c.block_size \in Nat \ {0, 1} /\ c.pred_dim \in 1 .. 3
  /\ c.methods \subseteq Enablers /\ c.hard \subseteq Nat /\ c.odd \subseteq Nat

ASSUME FastFrontendAssumption == \A c \in Configs : IsConfig(c)

VARIABLES
  pc, cfg,
  at,              \* the block at hand, and the data and buffer pointers
  elem,            \* the element in it
  buffer,          \* pred_buffer
  indicator,       \* compress: the blocks' predictors,
  reg_params,      \*   slots of coefficients, the first one zeros,
  reg_count,       \*   the slots committed beyond it,
  reg_types,       \*   reg_params_type, an entry for a block,
  reg_unpred,      \*   reg_unpredictable_data,
  type,            \*   the bins,
  unpred,          \*   and the quantizer's unpredictable elements
  stream,          \* what save wrote
  dparams,         \* decompress: the coefficients decoded by load,
  read,            \*   how far each list is read,
  dec_data,
  log, dlog        \* history: the elements coded and decoded, see PointOrder

loopVars == <<at, elem, buffer>>
encVars  == <<indicator, reg_params, reg_count, reg_types, reg_unpred, type, unpred, log>>
decVars  == <<dparams, read, dec_data, dlog>>
vars     == <<pc, cfg, stream, loopVars, encVars, decVars>>

-----------------------------------------------------------------------------
(* DSize_3d, the buffer, and the loops compress_3d and decompress_3d share. *)

Num(c)     == [d \in 1 .. 3 |-> ((c.dims[d] - 1) \div c.block_size) + 1]
Blocks(c)  == Num(c)[1] * Num(c)[2] * Num(c)[3]
Size(c)    == c.dims[1] * c.dims[2] * c.dims[3]
Offsets(c) == <<c.dims[2] * c.dims[3], c.dims[3], 1>>

BufferOffsets(c) ==
  <<(c.dims[2] + Padding) * (c.dims[3] + Padding), c.dims[3] + Padding, 1>>
BufferSize(c)    == (c.block_size + Padding) * BufferOffsets(c)[1]

Along(p, offsets) == p[1] * offsets[1] + p[2] * offsets[2] + p[3] * offsets[3]

First == [block |-> <<0, 0, 0>>, x |-> 0, y |-> 0, z |-> 0, buf |-> 0]

\* Mutant: every block is taken for a full one.
Sizes_Full(c, b) == [d \in 1 .. 3 |-> c.block_size]

\* size_x, size_y and size_z.
Sizes(c, b) ==
  [d \in 1 .. 3 |-> IF (b.block[d] + 1) * c.block_size < c.dims[d]
                    THEN c.block_size ELSE c.dims[d] - b.block[d] * c.block_size]

MinSize(c, b) == Min({Sizes(c, b)[d] : d \in 1 .. 3})
LastOfLayer(c, b) == b.block[2] + 1 = Num(c)[2] /\ b.block[3] + 1 = Num(c)[3]
AtEnd(c, b) == b.block[1] = Num(c)[1]

\* Mutant: the buffer pointer is not taken back at the end of a row of blocks.
Advance_NotBack(c, b) ==
  IF b.block[3] + 1 < Num(c)[3]
  THEN [b EXCEPT !.block[3] = @ + 1, !.z = @ + Sizes(c, b)[3], !.buf = @ + c.block_size]
  ELSE IF b.block[2] + 1 < Num(c)[2]
  THEN LET y == b.y + c.block_size * Offsets(c)[2]
       IN  [b EXCEPT !.block = <<@[1], @[2] + 1, 0>>, !.y = y, !.z = y,
                     !.buf = @ + c.block_size + c.block_size * BufferOffsets(c)[2]]
  ELSE LET x == b.x + c.block_size * Offsets(c)[1]
       IN  [block |-> <<b.block[1] + 1, 0, 0>>, x |-> x, y |-> x, z |-> x, buf |-> 0]

\* The pointers after a block: z_data_pos moves by what the block had, the buffer
\* pointer by a whole block, taken back at the end of the row of blocks.
Advance(c, b) ==
  IF b.block[3] + 1 < Num(c)[3]
  THEN [b EXCEPT !.block[3] = @ + 1, !.z = @ + Sizes(c, b)[3], !.buf = @ + c.block_size]
  ELSE IF b.block[2] + 1 < Num(c)[2]
  THEN LET y == b.y + c.block_size * Offsets(c)[2]
       IN  [b EXCEPT !.block = <<@[1], @[2] + 1, 0>>, !.y = y, !.z = y,
                     !.buf = @ + c.block_size + c.block_size * BufferOffsets(c)[2]
                               - c.block_size * Num(c)[3]]
  ELSE LET x == b.x + c.block_size * Offsets(c)[1]
       IN  [block |-> <<b.block[1] + 1, 0, 0>>, x |-> x, y |-> x, z |-> x, buf |-> 0]

\* Mutant: one plane is copied.
CopyBottom_OnePlane(c, buf) ==
  [a \in DOMAIN buf |-> IF a < BufferOffsets(c)[1]
                        THEN buf[a + c.block_size * BufferOffsets(c)[1]] ELSE buf[a]]

\* memcpy after a layer of blocks: the bottom of the buffer to its top.
CopyBottom(c, buf) ==
  [a \in DOMAIN buf |-> IF a < Padding * BufferOffsets(c)[1]
                        THEN buf[a + c.block_size * BufferOffsets(c)[1]] ELSE buf[a]]

Volume(c, b) == Sizes(c, b)[1] * Sizes(c, b)[2] * Sizes(c, b)[3]

\* The loops over a block: rows along the last direction, then planes.
Place(c, b, e) ==
  LET s == Sizes(c, b) IN <<e \div (s[2] * s[3]), (e \div s[3]) % s[2], e % s[3]>>

DataAt(c, b, e)   == b.z + Along(Place(c, b, e), Offsets(c))
BufferAt(c, b, e) == b.buf + Along(<<Padding, Padding, Padding>>, BufferOffsets(c))
                           + Along(Place(c, b, e), BufferOffsets(c))

-----------------------------------------------------------------------------
(* The predictors.                                                         *)

Layers(by) == IF by = "lorenzo2" THEN 2 ELSE 1

\* The terms of lorenzo_predict_*: in 2 dimensions the first and the last direction.
Terms(c, by) ==
  {t \in [1 .. 3 -> 0 .. Layers(by)] :
     /\ t # [d \in 1 .. 3 |-> 0]
     /\ c.pred_dim < 3 => t[2] = 0
     /\ c.pred_dim < 2 => t[1] = 0}

\* What a prediction is made from: coefficients, or cells before that of the element.
Predict(c, buf, b, e, by, coeffs) ==
  IF by = "regression" THEN [coeffs |-> coeffs, cells |-> <<>>]
  ELSE [coeffs |-> 0,
        cells  |-> [t \in Terms(c, by) |->
                      buf[BufferAt(c, b, e) - Along(t, BufferOffsets(c))]]]

Event(c, b, e, pred) ==
  [at    |-> DataAt(c, b, e),
   reads |-> {pred.cells[t] : t \in DOMAIN pred.cells} \ {Zero, Garbage}]

\* meta_blockwise_selection_3d: the elements the predictors are compared at.
Sampled(min_size) ==
  UNION {{i} \X {i, min_size - i} \X {i, min_size - i} : i \in 2 .. min_size - 2}
    \cup (IF min_size > 3 THEN {<<min_size - 1, min_size - 1, min_size - 1>>} ELSE {})

RegressionEnabled(c, min_size) == "regression" \in c.methods /\ min_size >= 2

\* And the choice: errors are ranks, all 0 where nothing is compared.
Selections(c, min_size) ==
  LET ranks  == IF Sampled(min_size) = {} THEN {0} ELSE 0 .. 2
      on(m)  == IF m = "regression" THEN RegressionEnabled(c, min_size) ELSE m \in c.methods
      pick(err) ==
        IF /\ on("regression")
           /\ on("lorenzo")  => err["regression"] <= err["lorenzo"]
           /\ on("lorenzo2") => err["regression"] < err["lorenzo2"]
        THEN "regression"
        ELSE IF /\ on("lorenzo2")
                /\ on("lorenzo")    => err["lorenzo2"] <= err["lorenzo"]
                /\ on("regression") => err["lorenzo2"] <= err["regression"]
        THEN "lorenzo2" ELSE "lorenzo"
  IN  {pick(err) : err \in [Enablers -> ranks]}

\* Mutant: decompress_3d starts at the zeros.
FirstParams_Zeros == 0

\* reg_params + RegCoeffNum3d, in slots.
FirstParams == 1

Init ==
  /\ cfg \in Configs
  /\ pc = "block"
  /\ at = First /\ elem = 0
  /\ buffer = [a \in 0 .. BufferSize(cfg) - 1 |-> Zero]
  /\ indicator = <<>>
  /\ reg_params = [k \in 0 .. Blocks(cfg) |-> IF k = 0 THEN 0 ELSE Garbage]
  /\ reg_count = 0 /\ reg_types = <<>> /\ reg_unpred = <<>>
  /\ type = <<>> /\ unpred = <<>>
  /\ stream = <<>>
  /\ dparams = <<>>
  /\ read = [indicator |-> 0, params |-> FirstParams, type |-> 0, unpred |-> 0]
  /\ dec_data = [n \in 0 .. Size(cfg) - 1 |-> Zero]
  /\ log = <<>> /\ dlog = <<>>

-----------------------------------------------------------------------------
(* compress_3d.                                                            *)

\* compress_regression_coefficient_3d, into slots: coefficients keep their block.
Quantized(slots) ==
  LET new == slots[reg_count + 1]
  IN  /\ reg_types' = Append(reg_types, [unpred |-> new \in cfg.odd,
                                         prev |-> slots[reg_count], cur |-> new])
      /\ reg_unpred' = IF new \in cfg.odd THEN Append(reg_unpred, new) ELSE reg_unpred

\* Coefficients are computed into the slot after those committed, and a predictor
\* is chosen.
StartBlock ==
  LET min_size == MinSize(cfg, at)
      this     == Len(indicator) + 1
  IN  /\ pc = "block"
      /\ ~AtEnd(cfg, at)
      /\ reg_params' = IF RegressionEnabled(cfg, min_size)
                       THEN [reg_params EXCEPT ![reg_count + 1] = this] ELSE reg_params
      /\ \E by \in Selections(cfg, min_size) :
           /\ indicator' = Append(indicator, by)
           /\ IF by = "regression" THEN Quantized(reg_params')
                                   ELSE UNCHANGED <<reg_types, reg_unpred>>
      /\ elem' = 0
      /\ pc' = "element"
      /\ UNCHANGED <<cfg, at, buffer, reg_count, type, unpred, log, stream, decVars>>

\* lorenzo_predict_quantize_3d and regression_predict_quantize_3d, an element.
CodeElement ==
  LET n    == DataAt(cfg, at, elem)
      pred == Predict(cfg, buffer, at, elem, indicator[Len(indicator)],
                      reg_params[reg_count + 1])
  IN  /\ pc = "element"
      /\ elem < Volume(cfg, at)
      /\ type' = Append(type, [unpred |-> n \in cfg.hard, pred |-> pred, cur |-> n])
      /\ unpred' = IF n \in cfg.hard THEN Append(unpred, n) ELSE unpred
      /\ buffer' = [buffer EXCEPT ![BufferAt(cfg, at, elem)] = n]
      /\ log' = Append(log, {Event(cfg, at, elem, pred)})
      /\ elem' = elem + 1
      /\ UNCHANGED <<pc, cfg, at, indicator, reg_params, reg_count, reg_types, reg_unpred,
                     stream, decVars>>

\* Coefficients of a block that is not a regression block are computed over.
NextBlock ==
  /\ pc = "element"
  /\ elem = Volume(cfg, at)
  /\ at' = Advance(cfg, at)
  /\ buffer' = IF LastOfLayer(cfg, at) THEN CopyBottom(cfg, buffer) ELSE buffer
  /\ reg_count' = IF indicator[Len(indicator)] = "regression" THEN reg_count + 1 ELSE reg_count
  /\ pc' = "block"
  /\ UNCHANGED <<cfg, elem, indicator, reg_params, reg_types, reg_unpred, type, unpred, log,
                 stream, decVars>>

\* decode_regression_coefficients, the zeros in front.
DecodeCoefficients(s) ==
  LET unpreds(k) == Cardinality({i \in 1 .. k : s.reg_types[i].unpred})
      f[k \in 0 .. s.reg_count] ==
        IF k = 0 THEN 0
        ELSE LET e == s.reg_types[k]
             IN  IF e.unpred THEN s.reg_unpred[unpreds(k)]
                 ELSE IF e.prev = f[k - 1] THEN e.cur ELSE Garbage
  IN  [k \in 0 .. s.reg_count |-> f[k]]

\* save, and load before decompress_3d sets its loops up.
SaveAndLoad ==
  /\ pc = "block"
  /\ AtEnd(cfg, at)
  /\ stream' = [indicator |-> indicator, reg_count |-> reg_count, reg_types |-> reg_types,
                reg_unpred |-> reg_unpred, type |-> type, unpred |-> unpred]
  /\ dparams' = DecodeCoefficients(stream')
  /\ at' = First /\ elem' = 0
  /\ buffer' = [a \in 0 .. BufferSize(cfg) - 1 |-> Zero]
  /\ pc' = "dblock"
  /\ UNCHANGED <<cfg, encVars, read, dec_data, dlog>>

-----------------------------------------------------------------------------
(* decompress_3d.                                                          *)

\* Mutant: the coefficients move on with every block.
ParamsRead_Always(by) == read.params + 1

\* reg_params_pos, after a block.
ParamsRead(by) == read.params + (IF by = "regression" THEN 1 ELSE 0)

DecodeStartBlock ==
  /\ pc = "dblock"
  /\ ~AtEnd(cfg, at)
  /\ elem' = 0
  /\ pc' = "delement"
  /\ UNCHANGED <<cfg, at, buffer, encVars, stream, decVars>>

\* An entry of a list, Garbage beyond its end.
Entry(list, k) == IF k \in DOMAIN list THEN list[k] ELSE Garbage

\* lorenzo_predict_recover_3d and regression_predict_recover_3d, an element.
DecodeElement ==
  LET by    == stream.indicator[read.indicator + 1]
      entry == stream.type[read.type + 1]
      pred  == Predict(cfg, buffer, at, elem, by, Entry(dparams, read.params))
      value == IF entry.unpred THEN Entry(stream.unpred, read.unpred + 1)
               ELSE IF entry.pred = pred THEN entry.cur ELSE Garbage
  IN  /\ pc = "delement"
      /\ elem < Volume(cfg, at)
      /\ dec_data' = [dec_data EXCEPT ![DataAt(cfg, at, elem)] = value]
      /\ buffer' = [buffer EXCEPT ![BufferAt(cfg, at, elem)] = value]
      /\ read' = [read EXCEPT !.type = @ + 1,
                              !.unpred = IF entry.unpred THEN @ + 1 ELSE @]
      /\ dlog' = Append(dlog, {Event(cfg, at, elem, pred)})
      /\ elem' = elem + 1
      /\ UNCHANGED <<pc, cfg, at, encVars, stream, dparams>>

DecodeNextBlock ==
  /\ pc = "delement"
  /\ elem = Volume(cfg, at)
  /\ at' = Advance(cfg, at)
  /\ buffer' = IF LastOfLayer(cfg, at) THEN CopyBottom(cfg, buffer) ELSE buffer
  /\ read' = [read EXCEPT !.indicator = @ + 1,
                          !.params = ParamsRead(stream.indicator[read.indicator + 1])]
  /\ pc' = "dblock"
  /\ UNCHANGED <<cfg, elem, encVars, stream, dparams, dec_data, dlog>>

Return ==
  /\ pc = "dblock"
  /\ AtEnd(cfg, at)
  /\ pc' = "done"
  /\ UNCHANGED <<cfg, loopVars, encVars, stream, decVars>>

Done == pc = "done" /\ UNCHANGED vars

Next ==
  \/ StartBlock \/ CodeElement \/ NextBlock \/ SaveAndLoad
  \/ DecodeStartBlock \/ DecodeElement \/ DecodeNextBlock \/ Return
  \/ Done

Spec == Init /\ [][Next]_vars

-----------------------------------------------------------------------------
(* Properties.                                                             *)

\* The pointers stay in the data and the buffer, the slots and lists in what is
\* allocated for them, and the decoder's cursors in the lists.
TypeOK ==
  /\ IsConfig(cfg)
  /\ pc \in {"block", "element", "dblock", "delement", "done"}
  /\ pc \in {"element", "delement"} /\ elem < Volume(cfg, at) =>
       /\ DataAt(cfg, at, elem) \in DOMAIN dec_data
       /\ BufferAt(cfg, at, elem) \in DOMAIN buffer
  /\ Len(indicator) <= Blocks(cfg) /\ Len(type) <= Size(cfg) /\ reg_count <= Len(indicator)
  /\ pc = "delement" => read.indicator < Len(stream.indicator)
  /\ stream # <<>> => /\ read.type <= Len(stream.type)
                      /\ read.params <= stream.reg_count + 1 /\ read.unpred <= Len(stream.unpred)

\* Coordinates of an element.
Coordinates(c, n) ==
  [d \in 1 .. 3 |-> (n \div Offsets(c)[d]) % c.dims[d]]

\* A cell that lorenzo_predict_* reads holds the reconstruction of the element that
\* many places before, in this block, in the blocks before it or, by way of the
\* planes copied to the top, in the layer before; and zero exactly where the array
\* has no such element.  Planes left over from an earlier layer are never read.
ReadsNeighbours ==
  LET by      == indicator[Len(indicator)]
      here    == Coordinates(cfg, DataAt(cfg, at, elem))
      cells   == Predict(cfg, buffer, at, elem, by, 0).cells
      before(t) == IF \E d \in 1 .. 3 : here[d] < t[d] THEN Zero
                   ELSE Along([d \in 1 .. 3 |-> here[d] - t[d]], Offsets(cfg))
  IN  pc = "element" /\ elem < Volume(cfg, at) /\ by # "regression" =>
        \A t \in Terms(cfg, by) : cells[t] = before(t)

\* decompress_3d returns every element as it was reconstructed in compress_3d: each
\* was predicted from the same cells, or the same coefficients, as it was coded
\* with, or is the next of the unpredictable ones.
Reconstructs ==
  pc = "done" => \A n \in DOMAIN dec_data : dec_data[n] = n

\* It then has used the lists up, so what follows them in the stream is found.
ListsConsumed ==
  pc = "done" =>
    read = [indicator |-> Len(stream.indicator), params |-> stream.reg_count + 1,
            type |-> Len(stream.type), unpred |-> Len(stream.unpred)]

Order == INSTANCE PointOrder WITH grid <- 0 .. (Size(cfg) - 1)

\* No element is coded twice, predictions are made from coded elements, and the
\* decoder repeats the order and the reads of the encoder over every border of
\* blocks and choice of predictors.
FollowsOrder == Order!Spec
=============================================================================
