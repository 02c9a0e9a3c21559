# HPEZ: models, checks and proofs

HPEZ (also QoZ) is an error-bounded lossy compressor for floating-point arrays of
1 to 4 dimensions, header-only C++ under `src/include/QoZ`. Each element is predicted
from elements that the decoder has already, the difference is quantized to an
integer *bin*, bins are Huffman-coded and the result goes through zstd. The whole
design rests on one fact: **the decoder repeats, bit for bit, what the encoder
did**. It has no copy of the input; every cursor, bound, list and choice must be
re-derived from the stream or from its own state. Most of what is checked here is a
form of that sentence, and the rest of what users are promised: no element further
from the input than the error bound.

## 1. The system

| Component | Source | State it keeps | Operations | Status |
|---|---|---|---|---|
| Linear quantizer | `quantizer/IntegerQuantizer.hpp` | error bound and its stored reciprocal, radius, list `unpred`, cursor `index` | quantize, quantize_and_overwrite, recover, insert_unpred, recover_unpred, set_eb, save, load, clear | modelled |
| Interpolation compressor | `compressor/SZInterpolationCompressor.hpp`, `utils/Interpolators.hpp` | bins, `interpolation_level`, `interp_metas`, cursors `quant_index` and `meta_index` | compress, decompress, build_grid, recover_grid, the interpolation passes | partly |
| General frontend | `frontend/SZGeneralFrontend.hpp`, `utils/Iterator.hpp` | two nested iterators, a fallback predictor | compress, decompress, save, load | modelled |
| Block predictors | `predictor/{Composed,Regression,PolyRegression,Lorenzo}Predictor.hpp` | list of selections; per regression predictor, current and previous coefficients, list of coefficient bins, cursor | precompress_block, precompress_block_commit, predict, predecompress_block, save, load | modelled |
| OpenMP compression | `api/impl/SZImplOMP.hpp` | per-thread ranges, bounds, sizes, offsets; shared `conf`, `nThreads`, buffer | SZ_compress_OMP, SZ_decompress_OMP | modelled |
| Error bound modes | `utils/Statistic.hpp` | `conf.errorBoundMode`, `conf.absErrorBound` | calAbsErrorBound | modelled |
| Lorenzo/regression entry | `api/impl/SZLorenzoReg.hpp` | none | picks predictors and frontend | modelled |
| Huffman encoder | `encoder/HuffmanEncoder.hpp` | node pool, priority queue, tree, code table, `nodeCount`, `offset` | preprocess_encode, save, encode, load, decode | modelled |
| Auto-tuning | `api/impl/SZInterp.hpp`, `utils/{Sample,Metrics,QuantOptimization,CoeffRegression}.hpp` | fields of `conf`, lent to the samples and given back; the samples | samples blocks, tries settings, picks the best | modelled |
| API, dispatch, configuration | `api/sz.hpp`, `api/impl/{SZImpl,SZDispatcher}.hpp`, `utils/Config.hpp` | `Config`, the trailer of the stream | framing of the stream, choice of the compressor | partly |
| Fast frontend | `frontend/SZFastFrontend.hpp`, `predictor/Meta*.hpp` | padded block buffer, slots of coefficients, coefficient bins | compress, decompress (3 dimensions), save, load | modelled |
| General compressor | `compressor/SZGeneralCompressor.hpp` | the frontend, the encoder | compress, decompress | partly |
| Lossless back ends, other encoders, preprocessors, truncation, helpers, command line, deprecated and vendored code | | | | out of scope, see section 8 |

`PROJECT.json` lists all of them with their files.

**How they interact.** `SZ_compress` dispatches on the algorithm. The interpolation
path (`SZ_compress_Interp_lorenzo`) tunes the configuration on samples, and then
hands the array either to `SZInterpolationCompressor` or to the Lorenzo/regression
path: `SZGeneralCompressor` over `SZGeneralFrontend` (or the fast frontend in 3
dimensions). Both compressors own a quantizer and a Huffman encoder; the frontend
calls its predictor and quantizer once per element, and the predictors own
quantizers of their own for coefficients. All calls are synchronous and within one
thread. Only `SZ_compress_OMP` has threads: each compresses a slab of rows with the
whole serial machinery, and they share the bound, the sizes and the buffer.

**What is hard.** No network, no crash recovery, and little concurrency; instead
two long sequential programs that must stay in step without talking.

- *Cursors.* Six lists are written by one side and read by a bare index on the
  other (bins, unpredictable values, metas of blocks, selections, coefficients of
  two predictors). One push too few shifts everything behind it.
- *State that outlives its use.* One quantizer serves all levels under different
  bounds; trials of block-wise tuning overwrite the array that is being coded; the fast
  frontend's buffer keeps the layer of blocks before.
- *Borrowed state.* The tuning tries its settings on samples under the very `conf` of the
  real compression, whose dimensions, bound and switches it changes and has to restore
  on every path.
- *Order.* A prediction is right only if each point it reads is reconstructed
  already, on both sides. Levels, blocks, directions, borders and the residues of
  every length decide that.
- *Partial failure.* A predictor may be picked for a block and then refuse it.
- *Bits.* Codes of any length are packed into bytes with 64-bit stores and shifts; one
  wrong offset garbles every bin behind it.
- *Numeric edges.* The bin is a truncated double in an `int`; `T` is rounded; the
  reciprocal of the bound is rounded once more.
- *Threads.* One range over all chunks, one sum over all sizes, barriers and single
  constructs inside a condition that one of the threads changes.

The list in `PROJECT.json` under "hazards" gives each with its line and with the
properties that would catch it, or why none does.

## 2. The modules

| Module | Models | Uses |
|---|---|---|
| `LinearQuantizer` | the arithmetic of the quantizer, fixed-point, with the width of `int` | |
| `QuantStream` | a compression and decompression as the quantizer sees them: levels with their bounds, anchors, points, save and load | `LinearQuantizer` |
| `LineStencils` | kernels, and passes along one line: which point is coded by which loop, reading which points | |
| `CenterStencils` | the passes over the points odd in two directions of a plane or three of a cube | `LineStencils` |
| `PointOrder` | *abstract*: points coded in batches, none twice, none before what it reads, the decoder behind in the same order | |
| `InterpSweep` | levels, blocks and passes of `SZInterpolationCompressor`, both sides, with block-wise tuning and the header | `CenterStencils`, implements `PointOrder` |
| `BlockFrontend` | `SZGeneralFrontend` with its iterators and predictors, both sides | implements `PointOrder` |
| `OmpChunks` | the parallel region of `SZ_compress_OMP`, and `SZ_decompress_OMP` | |
| `BitBuffer` | how `encode` appends one code to the bytes written so far | |
| `BitWriter` | the loop of `encode` for any code table | `BitBuffer` |
| `HuffmanTree` | node pool, priority queue, codes, the tree in the stream | `BitBuffer` |
| `HuffmanEncoder` | `preprocess_encode`, `save`, `encode`, then `load` and `decode` | `HuffmanTree` |
| `FastFrontend` | compress, save, load and decompress of the 3-dimensional frontend | `PointOrder` |
| `Tuning` | what the tuning does to `conf` and the samples, from the defaults to the settings it leaves | |
| `Container` | SZ_compress and SZ_decompress around it: bound, dispatch, header, trailer, and the compressor the decoder builds | `Tuning` |
| `NumberLemmas` | lemmas: least and greatest numbers, `Max` and `Min`, quotients and remainders, recursion on numbers, points a stride apart; sequences and logs after one more member, and joined; batches that fill a set of points | |
| `QuantStreamProofs`, `InterpSweepProofs`, `BitWriterProofs`, `OmpChunksProofs`, `ContainerProofs`, `BlockFrontendProofs`, `FastFrontendProofs` | theorems | the modules they are named for |
| `MC...` | values of the constants for TLC | |

Data is abstracted to what the properties tell apart. `QuantStream` knows values and
bounds and takes the order of points (the *plan*) as given; `InterpSweep` and
`BlockFrontend` know the order and leave the values out. The two halves meet in
`PointOrder`: a decoder that has reconstructed what a prediction reads, in the
encoder's order (`PointOrder`), and whose reconstruction of a point from an equal
prediction is equal (`QuantStream`), holds the encoder's array at the end. That the bins
themselves arrive is the matter of `HuffmanEncoder`, and that the decoder runs the same
compressor with the same settings that of `Container`.

### State and code

*QuantStream.* `error_bound`, `error_bound_reciprocal`, `unpred` and `index` are the
quantizer's members; the decoder's copies are `dec_...`. `stream` is what
`LinearQuantizer::save` writes. `NextLevel` is the head of the level loop
(`set_eb` with the level's bound), `EncodeAnchor` is one point of `build_grid`,
`EncodePoint` one call of `quantize_integrated`, `RestoreEb` the `set_eb` behind the
loop. `DecodeNextLevel`, `DecodeAnchor` and `DecodePoint` answer on the other side.
`cnt` is a history variable. A value is a multiple of `1/Grid`-th of a unit scaled to
integers: `RoundT` rounds to the element type, `Reciprocal` rounds `1.0 / eb`, and
`Wrap`/`ToInt` are the conversion to `int`, including the outcome x86 builds give
for a double out of range.

*InterpSweep.* `pc` walks through `compress` (`first`, `block`, `code`, `save`) and
then `decompress` (`dfirst`, `dblock`, `dcode`). `level` and `block` are the loop
variables; `todo` holds the rest of the current block's passes, computed by
`BlockPasses` from the block's bounds and meta exactly where the code calls
`block_interpolation`. An element of `log` is one loop of a kernel: a set of events
`[at, reads]`. One loop is one batch because its order is immaterial: no point of it
may read another (the invariant says so). `TuneBlock` is the whole of block-wise
tuning for one block: save the sample, run each candidate in place, restore, pick.

*BlockFrontend.* `block` and `elem` are the two iterators (local index and offset, as
in the code); an event is one element. Coefficients are the number of the block they
were fitted to; a list entry is the difference between two of these, so that adding
it to the wrong base gives coefficients of no block. `StartBlock` and
`StartFallback` are the two branches of `precompress_block`; `pc = "undefined"` is a
read past a list's end and `"exited"` the `exit(0)` of `HuffmanEncoder`.

*OmpChunks.* `at[t]` is the statement thread `t` is about to execute, with a place for
every barrier, explicit or implied by a `single`. `ran` holds the single constructs
already taken. `conf` is two shared variables, `mode` and `absErrorBound`.

*BitBuffer, BitWriter.* The buffer is a function from bit positions to bits; `p`,
`lackBits` and `outSize` are `encode`'s variables. `Append0`, `Spill` and `Fit` are its
three branches (nothing begun, the code crosses into the next byte, it fits). The store
of a whole word over what lies behind is in `int64ToBytes_bigEndian`. `written` is a
history variable, and `ByteBits` and `WordBytes` are 8 and 8 in the code.

*HuffmanTree, HuffmanEncoder.* `pool` is the array of nodes, `qq` the heap of their
places. `InsertState` is one turn of the loop over the hash map, `Join` one of the
loop that joins two nodes, `BuildCode` the walk that gives each leaf its code. `Save`
turns the tree into the four arrays of `pad_tree` (`hdr`) and moves the cursor `c` by
their bytes; `EncodeBin` and `FinishEncode` are `encode`. `Load` builds the tree of
`unpad_tree` and moves the cursor `dc` by its own formula; `DecodeBin` is the walk to one
leaf. The bits of an index in the arrays are cut to the width `Bytes` picks.

*FastFrontend.* A cell of `buffer`, like one of `dec_data`, holds the offset of the element
whose reconstruction is in it, so that a plane left over from another layer shows.
`at` is the three block loops with their pointers (`x`, `y` and `z` into the data, `buf`
into the buffer), which `Advance` moves as the code does, by whole blocks here and by what
the block had there. A bin is an element and the prediction it was made from
(`type`), and gives the element back only from the same prediction. `StartBlock`
computes coefficients into the slot behind the committed ones and picks a predictor:
the errors that decide are ranks, all of them tried. Each function body is one action
per block or element; `SaveAndLoad` is `save` and `load` with the decoding of all
coefficients.

*Tuning, Container.* `conf` is the `Config` the code passes around, `given` the caller's,
`saved` the locals of the tuning that hold what it lends (`global_dims`, `global_num`,
`ori_eb` and the like). `samples` says how many sampled blocks there are and whether they
still hold the input, `starts` how many the profiling let through, `level` and `metas` the
level loop, `pair` the loops over alpha and beta, `best` what is settled. One action is one
turn of a loop or the code between two trials; `trial` and `seen` are history. `pc` ends in
`decoded`, in `exited` (an `exit(0)`), `crashed` (the division by zero) or `undefined`
(a pointer nobody set). What a trial costs and loses is a choice among the outcomes that
the comparisons tell apart. Rates are in thousandths, alpha and beta in hundredths; powers
of alpha are cut off above the largest beta. In `Container`, `trailer` has the fields
`Config::save` writes and `decoder` is what `SZ_decompress` builds from them and
whatever else the caller's configuration holds.

## 3. Runs

| Run | Question | Bounds, and why they are enough |
|---|---|---|
| `quant_stream` | Do two quantizers that share a stream agree, take exactly the saved values, and keep the user's bound? | 4 elements over three plans (with anchors, without, with an empty level), 8 input values each: exact, rounded, out of radius in both directions, and one so far off that an `int` of 6 bits overflows. A level with a tighter bound of its own. An element depends on the two before it, so four give every pair of predictable and unpredictable neighbours. |
| `interp_orders` | Is every point coded once, after what it reads, and in the same order again? Is tuning without trace, does the decoder find each block its meta, and do the loops end? | 1 dimension: lengths 1 to 21, three block sizes, fixed blocks, anchors, cross-block reads, every kernel and list of levels; 2 dimensions: 56 shapes with all residues modulo 4 and both sides of each length at which a kernel changes (2, 3, 4, 5, 8), both directions and the center pass; 3 dimensions: all six direction orders, the six with a frozen dimension, and the passes around the center in blocks of up to 13 points, with directions too short for a cubic kernel and without; 4 dimensions. Block-wise tuning in 2 and 3 dimensions, with whole blocks and with their middles as samples, frozen dimensions, two paradigms per block and any candidate as the best. |
| `interp_short_grid` | *Violation.* Is every point coded when anchors are as far apart as the array is long? | 8 x 8, maxStep 8 |
| `block_frontend` | Iterators, predictions, lists and coefficients of the Lorenzo/regression path | all lengths to 9 in 1 dimension, 32 planes, 3 and 4 dimensions, blocks of 1, 2 and 3 with every remainder, 9 sets of predictors (none with more layers than the block has elements across), any pick. 89,395 states. |
| `block_line` | *Violation.* Does the decoder use the encoder's predictor for each block? | 5 elements, blocks of 2 |
| `block_picked` | *Violation.* Does save return? | 6 x 6, blocks of 3 |
| `omp_chunks` | One bound, whole chunks, restored rows, no deadlock, over all interleavings | 3 threads, 4 rows (slabs of 1, 1 and 2 rows), chunk sizes 1 or 2, two values, both bound modes. Three threads are the least for which one can be late, one early and one in a single construct. |
| `bit_writer` | Is the output the concatenation of the codes, with the right size? | bytes of 3 bits, words of 2 bytes, buffers of 7 bytes full of zeros or ones, up to 12 bits of output; 67 codes with all lengths from 0 to 6. A code begins at each bit of a byte and ends in the same, the next or the second next byte, at each bit. |
| `huffman` | Do the bins come back, and is the next item of the stream found? Is the code optimal? | bytes of 2 bits, so that 3 states need an array of two-byte and 9 one of four-byte indices; all arrays of 1 to 5 bins over three values with a gap in every order of the hash map; a tree of depth 4, three flat or mixed ones, one that is balanced only if a parent counts both children, and one of 17 nodes; either order of the two removals. Optimality is compared with all lengths up to 5 states. |
| `tuning` | Does the tuning give back what it borrows, do its results fit the stream, and does the decoder build the compressor that wrote it? | 18 configurations of planes, cubes, lines and 4-dimensional arrays: SZ3, every level of QoZ, both targets, all modes of the bound, anchors near and far, tuned with the same rate and with different ones, with a frozen dimension, with Lorenzo tried or not, overwritten samples, and the algorithms that are not tuned; two configurations of the decompressing caller. Every outcome of every comparison. 149,840 states. |
| `tuning_returns` | *Violation.* Does `SZ_compress` return? | 1 x 100, and a plane sampled by variance |
| `fast_frontend` | Does the padded buffer hold the neighbours, and does the decoder take the lists as they were stored? | blocks of 2 and 3 with every kind of border, all sets of predictors and all `pred_dim`; blocks of 4, the least in which predictors are compared, next to each other in all directions; one of the default size. With and without unpredictable elements and coefficients, any predictor in any block. 103,544 states. |

Each property has at least one mutant: a changed definition, kept in the module next
to the one it changes and commented `Mutant`, under which the run must fail.

### The properties

- `DecoderAgrees`, `UnpredConsumed`, `WithinUserBound`, `ErrorBounded` (`QuantStream`):
  lockstep, cursor, the user's bound (if no level is looser than the configuration), the
  bound of each level (always).
- `FollowsOrder` (`InterpSweep`, `BlockFrontend`, `FastFrontend`): refinement of
  `PointOrder` under the mapping `grid <- Points(cfg)` (or all offsets), `log`, `dlog`. It
  is checked on each step: a batch reads only what earlier batches coded and repeats none,
  and the decoder's next batch is the encoder's. In `BlockFrontend` the decoder's log
  takes part only for configurations in which no block is refused (`NeverRefuses`);
  for the others `block_line` shows what happens.
- `AllCoded`: the assertion `quant_inds.size() == num_elements`.
- `AllDecoded`, `TrialInvisible`, `MovesOn` (`InterpSweep`): the decoder's batches and
  metas are used up; a trial of a block leaves the array as it was; every step is further on
  in the loops of levels, blocks and passes, which therefore end.
- `PrevIsNeighbour`, `InStep`, `ListsConsumed` (`BlockFrontend`): `prev` reads the
  neighbour at the given distance and returns 0 outside the array only; every block
  is decoded with the predictor and coefficients it was coded with; lists are used up.
- `ReadsNeighbours`, `Reconstructs`, `ListsConsumed` (`FastFrontend`): a cell that a
  prediction reads holds the element that many places before, through blocks, rows and the
  copied planes, and zero exactly where there is none; every element comes back; lists are
  used up. `TypeOK` keeps the pointers in the data and the buffer.
- `OneBound`, `ChunksIntact`, `RowsRestored`, `Terminates` (`OmpChunks`).
- `Written`, `CursorInv` (`BitWriter`): the bits in the buffer; where the cursor stands,
  and zeros in the rest of the begun byte, which the next code is ORed into.
- `Optimal`, `RoundTrip`, `Aligned` (`HuffmanEncoder`): no prefix-free code is shorter
  (which fails if the queue is no heap or a node is joined out of turn); `decode` gives
  the bins back through the stored tree; the decoder's cursor ends where the encoder's
  does. `TypeOK` bounds the two node pools, whose sizes are guesses from the range of the
  bins.
- `TrialsOnSamples`, `GivenBack`, `LevelsOnce`, `FreshForBm`, `MetasFit`, `NoLooserBound`,
  `DecoderBuilds`, `Terminates` (`Container`): every trial runs on whole samples under a
  `conf` that describes one; the array is compressed with its own dimensions, number and
  bound; the level loop tries every level of a sample once; alpha and beta are measured on
  blocks of the input, not on their reconstruction; the metas in the header go with the
  frozen dimension in it; no alpha and beta that win loosen a level's bound; the decoder's
  compressor is the encoder's, whatever configuration it is called with; all loops end.

### Deadlock and fairness

`QuantStream` stops at its end, `BitWriter` when the buffer is full and `Container` when
the data is back or the process has ended: their runs disable the deadlock check. The
other modules have an explicit `Done`, so that any other stop is reported.
`Container` assumes `WF_vars(Next)`: one thread runs two functions, and nothing holds it
up. That `InterpSweep` ends needs no fairness to state: `MovesOn` says that each step
brings the loop variables further in a well-founded order, and there is no deadlock before
`done`. `OmpChunks` assumes weak fairness of each thread: a thread of an OpenMP team
that is not held at a barrier is scheduled by the operating system. No strong
fairness is used anywhere.

## 4. Findings

1. **A level is lost when anchors are too far apart** (`interp_short_grid`).
   `compress` decrements `interpolation_level` for the anchors whether or not `init`
   lowered it to the anchors' distance. For dimensions no longer than `maxStep` the
   coarsest level between anchors is never coded, and the assertion at
   `SZInterpolationCompressor.hpp:540` fails (a release build returns a stream
   without these points). Without a
   setting the tuning takes 64 in 2 dimensions and 32 in 3 (`SZInterp.hpp:588-591`), so an
   array of 40 x 40 reaches it.
2. **Refused blocks break the list of selections** (`block_line`). The fallback's
   commit replaces `ComposedPredictor`'s, so nothing is pushed for the block, yet
   the decoder takes a selection for each.
3. **An unused second-order regression ends the process** (`block_picked`).
   `PolyRegressionPredictor::save` encodes an empty list and `HuffmanEncoder` calls
   `exit(0)`; `RegressionPredictor::save` guards against this.
4. **Compression of some arrays does not return** (`tuning_returns`). The size of a
   sample is halved until it is shorter than the shortest edge, and the blocks are counted by
   dividing by it (`SZInterp.hpp:685`, `715`): with an edge of 1 it is 0. With `var_first` in
   2 dimensions and no block left by the profiling, no block is sampled and the encoder of
   the first trial calls `exit(0)`.

## 5. Proofs

| Theorem | Says, for all values of the constants |
|---|---|
| `RecoverUndoesQuantize` | `recover_pred` gives the value `quantize_and_overwrite` left |
| `OverwriteWithinBound` | overwriting moves a value by at most the bound |
| `TypeCorrect` | `Spec => []TypeOK` (`QuantStream`) |
| `Bounded` | `Spec => []ErrorBounded` |
| `Lockstep` | `Spec => []DecoderAgrees` |
| `Consumed` | `Spec => []UnpredConsumed` |
| `UserBound` | `Spec => []WithinUserBound`, assuming `NoLooser` |
| `TypeCorrect` | `Spec => []TypeOK` (`BitWriter`) |
| `CursorCorrect` | `Spec => []CursorInv` |
| `OutputIsCodes` | `Spec => []Written` |
| `OnceOnly`, `DecoderIsReady` | what `PointOrder` promises follows from its steps |
| `AlwaysAllDecoded` | `Spec => []AllDecoded` (`InterpSweep`), assuming `Fits` |
| `AlwaysMovesOn` | `Spec => MovesOn`, assuming `Fits` |
| `AlwaysTrialInvisible` | `Spec => []TrialInvisible`, assuming `Fits` |
| `AlwaysAllCoded` | `Spec => []AllCoded`, assuming `Fits` |
| `RefinesOrder` | `Spec => FollowsOrder`, assuming `Fits`: the interpolation implements `PointOrder` |
| `Inductive` | `Spec => [](Control /\ Data)` (`OmpChunks`) |
| `TypeCorrect` | `Spec => []TypeOK` (`OmpChunks`) |
| `BoundIsOne` | `Spec => []OneBound` |
| `Packed` | `Spec => []ChunksIntact` |
| `Restored` | `Spec => []RowsRestored` |
| `AllGivenBack` | `Spec => []GivenBack` (`Container`) |
| `AlwaysFreshForBm` | `Spec => []FreshForBm` |
| `AlwaysDecoderBuilds` | `Spec => []DecoderBuilds` |
| `AlwaysLevelsOnce` | `Spec => []LevelsOnce` |
| `AlwaysMetasFit` | `Spec => []MetasFit` |
| `AlwaysTrialsOnSamples` | `Spec => []TrialsOnSamples`, assuming `VariedTaken` |
| `AlwaysNoLooserBound` | `Spec => []NoLooserBound`, assuming `InputsTighten` |
| `InductiveReplay` | `Spec => [](Typed /\ Walked /\ AllChained /\ Replayed)` (`BlockFrontend`) |
| `AlwaysInStep` | `Spec => []InStep` |
| `AlwaysListsConsumed` | `Spec => []ListsConsumed` |
| `InductivePlaces` | `Spec => [](Typed /\ Placed)` |
| `AlwaysAllCoded` | `Spec => []AllCoded` |
| `AlwaysPrevIsNeighbour` | `Spec => []PrevIsNeighbour`, assuming `LayersFit` |
| `RefinesOrder` | `Spec => FollowsOrder`, assuming `LayersFit`: the frontend implements `PointOrder` |
| `InductiveInvariant` | `Spec => []IInv` (`FastFrontend`) |
| `AlwaysTypeOK` | `Spec => []TypeOK` |
| `AlwaysReadsNeighbours` | `Spec => []ReadsNeighbours` |
| `AlwaysReconstructs` | `Spec => []Reconstructs` |
| `AlwaysListsConsumed` | `Spec => []ListsConsumed` |
| `RefinesOrder` | `Spec => FollowsOrder`: the fast frontend implements `PointOrder` |

*Assumptions.* `QuantizerAssumption` and `StreamAssumption`: widths, grids and scales
are positive, `quantbinCnt` fits an `int` (`Radius < IntHalf / 2`), plans are
functions into levels and kinds, values are integers. Nothing is assumed about the
rounding beyond its definition, about the size of the bound, or about overflow.
`NoLooser` is a hypothesis of `UserBound` alone. `BitAssumption` and `WriterAssumption`:
bytes and words are not empty, no code is longer than a word. That the buffer has room
for one word more than the output is the guard of `EncodeBin`. `OmpAssumption`: the team
is no larger than the number of rows, values are integers and the sizes of chunks natural
numbers. `FrontendAssumption`: 1 to 4 dimensions, all lengths and block sizes positive, and
a selection of predictors that the entry makes for the general frontend.
`FastFrontendAssumption`: three positive lengths, blocks of 2 and more in each direction,
any enabled predictors, one to three directions to predict from, any sets of
unpredictable elements and coefficients.
`InputsAssumption`: an input has the fields of `Config` with values of their types, its number
of elements is the product of its dimensions, and its rates are below 1; which values go
together is left open. `CallersAssumption`: the configuration `SZ_decompress` is called with
has these fields, whatever is in them.

`SweepAssumption`: a configuration has the fields of `IsConfig`, 1 to 4 positive lengths, an
even block size, and a frozen dimension in 3 dimensions only, as `freezeDimTest` sets it.

Four hypotheses on the inputs are stated with the theorems that need them. The theorems
about the sweep assume `Fits` of every configuration, which `MCInterpSweep` has TLC check
(an `ASSUME`) of all those of `interp_orders`: anchors are none, or a power of two apart and
less far than the array is long in some direction (all the defaults of
`SZInterp.hpp:588-590` are powers of two; finding 1 and `interp_short_grid` show what is
lost in a shorter array); fixed blocks consist of whole cells of the anchors (the setting is
0 by default); a direction is the number of an order of the dimensions, and of the two that
begin with the frozen one if there is one, which are the values the tuning tries; and blocks
are tuned in 2 and 3 dimensions, where `compress` does it. `VariedTaken` leaves out
`var_first` in 2 dimensions, which samples nothing when the profiling lets no block through
(finding 4). `InputsTighten` leaves out callers whose own alpha and beta loosen a level:
without tuning `Config.hpp:160` takes them as they are. `LayersFit` says that no predictor
has more Lorenzo layers than a block has elements across. That is a real bound of the code:
`prev` knows of one neighbouring block in each direction (`left_boundary`), so in blocks of
one element the second layer, two blocks back, is read outside the array.

*Quantizer.* The bin is computed with wraps at five places. `WrapCongruent` and
`RemainderUnique` show that wrapping is compatible with addition and doubling
modulo the width; `MultipleFromBin` then shows that what `recover_pred` rebuilds
from the bin is the multiple the encoder used, also after an overflow that passed the
range check. The bound follows from the check of the decompressed value alone.

*Stream.* `DecoderAgrees` is not inductive: it says nothing about how `out[i]` will
be computed. The invariant `IInv` adds, for the encoder:
`EncoderBound` (the quantizer holds the bound of the current level and the
reciprocal of that bound), `Finished` and `Untouched` (elements from `pos` on are the
input), `Coded` (each coded element has the level, bin, overwritten value and, if
rejected, place in `unpred` that `quantize_and_overwrite` gives it from the array
*as it is now*: later steps do not change what it was predicted from, lemma
`PredictCausal`), and `Counted` (`cnt` tells how many rejected values lie before each
element). For the decoder: `Saved` (the stream holds the base bound, which is why
`RestoreEb` matters, and the list), `NotLoaded`, `Loaded` (its bound is the current
level's, derived from the loaded one; its list is the saved one; its cursor is
`cnt[quant_index + 1]`). Then one step of the decoder predicts from equal values
(`DecoderAgrees`), takes the bin's branch, and gets the encoder's value by
`RecoverUndoesQuantize` or from the same place in the list. `CodeOne` and `CodeNone`
carry `Coded` and `Counted` over the steps that code one element and none.

*Order.* `OrderInv` is `Typed`, `CodedOnce`, `ReadsCoded` and `DecoderReady`; each step
appends one batch (`AppendKeeps`). `PointOrder` has no theorems module: these are in
`InterpSweepProofs`, about its instance `PO`, and so for every grid.

*Sweep, lockstep.* `compress` and `decompress` stop at the same places, the starts of the
blocks of each level. A *walk* is the sequence of these stops with the log as it is there;
`IsWalk` says that each follows from the one before by the passes of its block under the meta
used there, the level's or, with tuned blocks, the next of `interp_metas`. `WalkInv`
says that `compress` is on such a walk, its log and `todo` the two parts of the log at the
next stop (`Encoded`), and that `decompress`, who has the metas from the header and a cursor,
is on the same one at its own place (`Decoding`). At the end of the walk both lists are used
up, which is `AllDecoded`. For `MovesOn` the blocks' cursor is shown to grow and the levels
to shrink; that a level has blocks at all needs powers of two (`StartLevel`, `Stride`) and
`Fits`.

*Sweep, points.* What a sequence of loops has to do with a set of points is one predicate,
`Fills(B, K, T)`: the loops `B` code each point of `T` once, nothing else, and read only `K`
and what earlier loops of `B` coded. It is proved from the inside out. A line of `n` points
has its odd points coded once, from even points or from odd ones of an earlier loop, by each
of the kernels, with all remainders at its end (`GoodLine`; `PlainCubicAdjGood` and the
borders that read across blocks are the long ones); the corners of a plane and a cube
likewise (`GoodCenter`), whose two halves are separated modulo 4. That much is about the
stencils alone. A pass moves a line or a center over all points it begins at: since these
are disjoint, it fills the points between the coarser ones in its directions
(`LinePassFills`, `CenterPassFills`). The passes of a block, along one direction after the
other or around the centers from lines to cubes, fill it one after the other, since each
reads what those before it filled (`FillsFlatten`). The blocks of a level fill the next
grid, and the levels the array.

*Sweep, state.* `SweepInv` is then about the loops of `compress`: outside a trial nothing is
dirty; at a block, the points coded are `Reach`, the coarser grid and the earlier blocks of
the level, borders included; in a block, the passes still to come fill the rest of it
(`Rest`); after the last level, all points are coded. `AllCoded` is its last part and
`TrialInvisible` its first. A trial writes the sample only, which lies in the block, and
every point it writes is saved before. With `WalkInv` the decoder's batch is the encoder's at
the same place, so that every step is one of `PointOrder` or leaves its logs alone:
`RefinesOrder`.

*Bits.* `Written` alone does not say where the next code goes. `CursorInv` fixes the
cursor in bits (`p * ByteBits` is the end of the output less the bits used of its last
byte), `outSize` by `p` and `lackBits`, and demands zeros in the rest of the begun
byte: without them ORing would not write. Each of the three branches has its lemma on
the bits it leaves alone, the bits of the code and the zeros behind them; `SizeUnique`
turns the cursor back into the number of bytes.

*Threads.* The invariant has two parts. `Control` says where the threads can be in
relation to each other: all on one side of a barrier or at it, and a single construct in
`ran` as soon as one thread is behind it. `Data` says what the shared variables hold at
these places: the minima and maxima of a thread's own rows once it has passed them, the
bound once the single construct has run, the offsets as sums of the sizes, each chunk's
bytes in place behind its thread's copy. Every action has its lemma for each part. The
existence of a minimum and a maximum, that the chunks of rows cover all of them
(`Covered`) and do not overlap (`Apart`), and that the sums of sizes are well defined
(`PrefixSums`) are facts about all numbers, for which one would use induction; the least
number principle `Least`, proved from the well-foundedness of `<` on `Nat`, takes its
place.

*Tuning and container.* The properties speak of `conf` at one moment, and it is changed and
given back on some forty paths. What is inductive are layers, each about what one stage needs
of the ones before: `Shape` (the records have their fields), `Lent` (at each `pc`, what
`conf` lends to the samples and which locals hold the array's), `FreshInv` (whether the
samples are still input), `Sized` (a sample fits into the array), `Rates` (what is tuned at
a rate only), `Written` (header, trailer and compressor are what `conf` says), `Looped` (the
levels tried, down to where the loop is), `Sampling` (how many blocks there are), `Divided`
(no pair of alpha and beta loosens a bound) and `Selected` (metas and frozen dimension are
taken or left together). Each is proved of `Next` in two parts, the actions of the tuning and
those of the container.

*Frontend, lists.* `compress` and `decompress` take the same walk over blocks and elements,
which depends on the configuration alone; `Walked` says that the place of either is a place
of that walk, and that the counters of blocks and elements are those of the place.
`AllChained` says of each predictor's list that the differences in it, added up, give the
coefficients of the blocks it was picked for, one after the other; `Replayed` that the
decoder's cursors are at the number of picks so far and its coefficients those of the last
one. `InStep` needs more than the code promises when a predictor refuses a block (finding
2); it is stated, as in the run, for the configurations in which none does
(`NeverRefuses`).

*Frontend, order.* An iterator keeps an offset and local indices side by side and
`operator++` changes both. `Aligned` says that the offset is the one of the indices;
`operator++` then moves to the next place in the order `Before` of the indices and ends
exactly when they have left the range, so that each place of a range is met once. `Placed`
says where both iterators are and that the log holds the offsets of all places before.
Every offset below the size is the place of one block and one element in it, which gives
`AllCoded`. `prev` at a legal distance stays in the block or in one neighbour per direction;
what it reads has smaller indices and lies in an earlier block or earlier in this one
(`BackCoded`), so it is in the log: that is the step of `PointOrder`. Through `RefinesOrder`
the theorems `OnceOnly` and `DecoderIsReady` of `PointOrder` hold for the frontend.

*Fast frontend.* None of the five properties is inductive: what a cell holds depends on
every write and copy since the array began. The invariant names the set of elements the
loops have been at, `Coded`, by comparing an element's block, and its place there, with the
loops' own; the set grows by one at each element (`CodedNext`), does not change from the end
of a block to the start of the next (`CodedBlock`) and is the whole array at the end
(`CodedLast`). `InLoops` gives the three data pointers and the buffer pointer as functions of
the block, which is where taking the buffer pointer back at the end of a row shows. `Held`
says of every cell of the buffer, by its plane, row and column, that it is zero if the array
has no element there and that element if it is coded; of cells of elements still to come it
says nothing, so what an earlier layer left there may stay. `HeldWrite` and `HeldCopy` keep
it over a store and over the `memcpy`, `CellFound` and `TermReads` find the cell of a term.
That a term's element is coded (`SmallerCoded`) needs the order of the loops only: an element
with no larger coordinate lies in the same block before this one or in a block before it. On
the lists, `HaveElements` has of each element coded its bin, event and unpredictable value at
the position told by the number of elements before it, with the prediction it must have
been made from, `Prediction`, which refers to neither the buffer nor the slots; the decoder,
whose buffer satisfies the same `Held`, computes the same. `Coefficients` says the same of
the regression blocks, each with the block before it, and `DecodedIs` that decoding gives
them back: the recursive function of `DecodeCoefficients` is the only one that satisfies its
equation, by the least index where two would differ.

*Only model-checked.* Liveness (`Terminates` of `OmpChunks` and of `Container`), which the
provers cannot treat. The tree of `HuffmanEncoder` (`TypeOK`, `Optimal`, `RoundTrip`,
`Aligned`), whose codes, arrays and heap are recursive operators, and what they compute
would need induction over trees.

## 6. Plan

Done, in this order: quantizer and stream with proofs; abstract order with proofs;
line, plane and cube stencils; interpolation sweep; block frontend; OpenMP with proofs;
bit stream with proofs; Huffman tree and round trip; tuning and container; fast frontend;
proofs of the container, of the frontend's lists and of its order, of the fast frontend and
of the interpolation.

Next, by importance:

1. The composition of the tuning with the sweep: the calls of `compress` that code some
   levels only and leave their bins to be encoded together.
2. Buffer sizes in bytes, from `size_est` to the trailer.
3. The regressive kernels, which are off by default.

## 7. How to run

    tlc -workers 2 -config MCQuantStream.cfg MCQuantStream
    tlapm QuantStreamProofs.tla

A run's module is the `MC` module that its `.cfg` starts with, except that the
`MCInterp...` files belong to `MCInterpSweep`, the `MCBlock...` files to
`MCBlockFrontend` and `MCContainerReturns.cfg` to `MCContainer`.

## 8. Not modelled, and why

Compression quality (losses, ratios, metrics, regression fits, which predictor is
best) is arithmetic that no correctness property depends on; the models leave it as
a choice. zstd, inih and the hash map are vendored. File and command-line handling is
I/O. `ArithmeticEncoder`, `RunlengthEncoder`, the preprocessors, `ZeroPredictor`,
`SZTruncateCompressor` and everything deprecated are not reached from `sz.hpp`.
IEEE infinities and NaN have no value in the fixed-point model. Buffer sizes in bytes
are not modelled (plan, 2), nor the tuning modes of `compress` that stop after a level,
of which `Tuning` only has the levels they code (plan, 1). `encode` and `build_code` have
branches for codes of more than 64 bits; a tree that deep needs the frequencies of
Fibonacci numbers and so more than 44 * 10^12 bins, and `BitBuffer` leaves them out. The
copying in `Extraction.hpp` and the text of configuration files are left out.

Inputs the models leave out, though the code accepts them:

- a block size of 1 in the fast frontend, whose `memcpy` would be between planes that
  overlap, and blocks of one element with the second-order Lorenzo predictor in
  `BlockFrontend` (`LayersFit`, section 5);
- a team of threads larger than the number of rows, whose last threads index past the
  data, and fewer threads at decompression than at compression, whose last chunks stay
  undecoded;
- a difference within one bound of -2^31 bounds: negating the bin wraps too, the check of
  the value passes and the bin is far outside the Huffman alphabet;
- `ALGO_INTERP_BLOCKED`, for which the dispatcher returns a pointer nobody set
  (`Container` has the outcome, no run asks for it);
- `fixBlockSize` smaller than two strides of a level;
- block-wise tuning in 1 or 4 dimensions under `ALGO_INTERP` (the tuning clears the flag):
  the passes of `compress` ignore it, the header has it, and `decompress` would index an
  empty list of metas.

In 3 dimensions and without a frozen one, `recover_grid` takes `frozen_dim` (-1) as a
`size_t` (`SZInterpolationCompressor.hpp:734`, `752`), so that `frozen_dim >= 0` holds and the
write of a stride goes to the word before the array. That is undefined behaviour;
`InterpSweep` has the strides the code means.

Things met on the way that break nothing: `setDims` at `SZInterp.hpp:1654` resets the
`pred_dim` and `blockSize` just tuned (`LorenzoTuned` does so too); with
`autoTuningRate` 0 the measurements at 1086 and 1115 run on samples that the level loop
has overwritten, and decide between settings that are both right; a comment in
`sz.hpp:129-130` says that the right configuration is returned, while `SZ_decompress`
works on a copy.
