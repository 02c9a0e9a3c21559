------------------------------ MODULE OmpChunks ------------------------------
(***************************************************************************)
(* SZ_compress_OMP and SZ_decompress_OMP: the rows of the array are cut    *)
(* into chunks, a thread of the team compresses each with its own copy of  *)
(* the configuration, and the results are packed one behind the other.     *)
(* Every thread runs the parallel region on its own between the barriers;  *)
(* a single construct is run by whichever thread gets there first, and the *)
(* others wait at the barrier it ends with.                                *)
(*                                                                         *)
(* A row is one value; a compressed chunk is a number of bytes, byte k of  *)
(* thread t's chunk being <<t, k>>.                                        *)
(***************************************************************************)
EXTENDS Integers, Sequences, FiniteSetsExt

CONSTANTS
  Team,      \* threads of the parallel region
  Rows,      \* conf.dims[0]
  Values,    \* the values of a row
  Sizes      \* the sizes a compressed chunk may have

\* With more threads than rows the threads from nThreads on index the vectors
\* past their ends; decompress gets the team it asks for.
ASSUME OmpAssumption ==
  /\ Team \in Nat \ {0} /\ Rows \in Nat \ {0} /\ Team <= Rows
  /\ Values \subseteq Int /\ Sizes \subseteq Nat /\ Sizes # {}

Threads == 0 .. (Team - 1)
AllRows == 0 .. (Rows - 1)

\* The places of a thread, in order: an inner one is a single construct or the
\* barrier that follows it.
Places == <<"init", "init_end", "chunk", "barrier", "bound", "bound_end", "compress",
            "packed", "layout", "layout_end", "copy", "joined", "decompress", "done">>
Rank(p) == CHOOSE k \in 1 .. Len(Places) : Places[k] = p

VARIABLES
  at,                          \* where each thread is
  ran,                         \* the single constructs that have been run
  data, mode, absErrorBound,   \* the input and what conf says of the bound
  nThreads, min_t, max_t, conf_t, cmp_size_t, cmp_start_t,
  buffer,                      \* from cmp_start_t[0] on
  out                          \* the decompressed rows

shared == <<data, mode, absErrorBound, nThreads, min_t, max_t, conf_t, cmp_size_t, cmp_start_t,
            buffer, out>>
vars == <<at, ran, shared>>

-----------------------------------------------------------------------------
\* Mutant: a chunk ends with the first row of the next one.
hi_Next(t) == ((t + 1) * Rows) \div nThreads + 1

\* Mutant: a row left over by the division is no thread's.
hi_Even(t) == (t + 1) * (Rows \div nThreads)

lo(t) == (t * Rows) \div nThreads
hi(t) == ((t + 1) * Rows) \div nThreads

Span(S) == Max(S) - Min(S)

Goto(t, p) == at' = [at EXCEPT ![t] = p]

\* Every thread has come to the barrier p.
Arrived(p) == \A t \in Threads : Rank(at[t]) >= Rank(p)

Init ==
  /\ at = [t \in Threads |-> "init"]
  /\ ran = {}
  /\ data \in [AllRows -> Values]
  /\ mode \in {"ABS", "REL"}
  /\ absErrorBound = IF mode = "ABS" THEN 1 ELSE 0
  /\ nThreads = 1
  /\ min_t = <<>> /\ max_t = <<>> /\ conf_t = <<>> /\ cmp_size_t = <<>> /\ cmp_start_t = <<>>
  /\ buffer = <<>>
  /\ out = [r \in AllRows |-> <<>>]

\* Mutant: a thread that finds the construct taken does not go on.
Skip_Stays(t, single, end) ==
  /\ at[t] = single /\ single \in ran
  /\ UNCHANGED <<at, ran, shared>>

\* A thread that comes to a single construct another one has taken.
Skip(t, single, end) ==
  /\ at[t] = single /\ single \in ran
  /\ Goto(t, end)
  /\ UNCHANGED <<ran, shared>>

Take(t, single, end) ==
  /\ at[t] = single /\ single \notin ran
  /\ ran' = ran \cup {single}
  /\ Goto(t, end)

Pass(t, barrier, next) ==
  /\ at[t] = barrier /\ Arrived(barrier)
  /\ Goto(t, next)
  /\ UNCHANGED <<ran, shared>>

-----------------------------------------------------------------------------
(* compress.                                                               *)

\* nThreads and the vectors, their elements 0 until a thread has set its own.
InitTeam(t) ==
  /\ Take(t, "init", "init_end")
  /\ nThreads' = IF Rows < Team THEN Rows ELSE Team
  /\ LET zeros == [i \in 0 .. (nThreads' - 1) |-> 0]
     IN  /\ min_t' = zeros /\ max_t' = zeros /\ conf_t' = zeros
         /\ cmp_size_t' = zeros /\ cmp_start_t' = zeros
  /\ UNCHANGED <<data, mode, absErrorBound, buffer, out>>

\* Mutant: the threads do not wait for each other's range.
TakeChunk_NoBarrier(t) ==
  LET data_t == {data[r] : r \in lo(t) .. (hi(t) - 1)}
  IN  /\ at[t] = "chunk"
      /\ IF mode # "ABS"
         THEN /\ min_t' = [min_t EXCEPT ![t] = Min(data_t)]
              /\ max_t' = [max_t EXCEPT ![t] = Max(data_t)]
              /\ Goto(t, "bound")
         ELSE /\ Goto(t, "compress")
              /\ UNCHANGED <<min_t, max_t>>
      /\ UNCHANGED <<ran, data, mode, absErrorBound, nThreads, conf_t, cmp_size_t,
                     cmp_start_t, buffer, out>>

\* The chunk's own range, if the bound depends on it.
TakeChunk(t) ==
  LET data_t == {data[r] : r \in lo(t) .. (hi(t) - 1)}
  IN  /\ at[t] = "chunk"
      /\ IF mode # "ABS"
         THEN /\ min_t' = [min_t EXCEPT ![t] = Min(data_t)]
              /\ max_t' = [max_t EXCEPT ![t] = Max(data_t)]
              /\ Goto(t, "barrier")
         ELSE /\ Goto(t, "compress")
              /\ UNCHANGED <<min_t, max_t>>
      /\ UNCHANGED <<ran, data, mode, absErrorBound, nThreads, conf_t, cmp_size_t,
                     cmp_start_t, buffer, out>>

\* calAbsErrorBound with the range of all chunks; relErrorBound is 1.
SetBound(t) ==
  /\ Take(t, "bound", "bound_end")
  /\ mode' = "ABS"
  /\ absErrorBound' = Max({max_t[i] : i \in 0 .. (nThreads - 1)})
                        - Min({min_t[i] : i \in 0 .. (nThreads - 1)})
  /\ UNCHANGED <<data, nThreads, min_t, max_t, conf_t, cmp_size_t, cmp_start_t, buffer, out>>

\* Mutant: the sizes are added up without waiting for all of them.
CompressChunk_NoBarrier(t) ==
  /\ at[t] = "compress"
  /\ conf_t' = [conf_t EXCEPT ![t] = IF mode = "ABS" THEN absErrorBound
                                     ELSE Span({data[r] : r \in lo(t) .. (hi(t) - 1)})]
  /\ \E size \in Sizes : cmp_size_t' = [cmp_size_t EXCEPT ![t] = size]
  /\ Goto(t, "layout")
  /\ UNCHANGED <<ran, data, mode, absErrorBound, nThreads, min_t, max_t, cmp_start_t,
                 buffer, out>>

\* SZ_compress_dispatcher on the chunk; it would compute the bound itself if conf
\* did not say ABS.
CompressChunk(t) ==
  /\ at[t] = "compress"
  /\ conf_t' = [conf_t EXCEPT ![t] = IF mode = "ABS" THEN absErrorBound
                                     ELSE Span({data[r] : r \in lo(t) .. (hi(t) - 1)})]
  /\ \E size \in Sizes : cmp_size_t' = [cmp_size_t EXCEPT ![t] = size]
  /\ Goto(t, "packed")
  /\ UNCHANGED <<ran, data, mode, absErrorBound, nThreads, min_t, max_t, cmp_start_t,
                 buffer, out>>

\* The prefix sums of the sizes and a buffer for all.
Starts(sizes) ==
  LET start[i \in 0 .. nThreads] == IF i = 0 THEN 0 ELSE start[i - 1] + sizes[i - 1]
  IN  start

LayOut(t) ==
  /\ Take(t, "layout", "layout_end")
  /\ cmp_start_t' = Starts(cmp_size_t)
  /\ buffer' = [k \in 0 .. (cmp_start_t'[nThreads] - 1) |-> <<>>]
  /\ UNCHANGED <<data, mode, absErrorBound, nThreads, min_t, max_t, conf_t, cmp_size_t, out>>

CopyChunk(t) ==
  /\ at[t] = "copy"
  /\ buffer' = [k \in DOMAIN buffer |->
                  IF k \in cmp_start_t[t] .. (cmp_start_t[t] + cmp_size_t[t] - 1)
                  THEN <<t, k - cmp_start_t[t]>> ELSE buffer[k]]
  /\ Goto(t, "joined")
  /\ UNCHANGED <<ran, data, mode, absErrorBound, nThreads, min_t, max_t, conf_t, cmp_size_t,
                 cmp_start_t, out>>

-----------------------------------------------------------------------------
(* decompress, by as many threads, each told its size and so its start.    *)

DecompressChunk(t) ==
  LET start == Starts(cmp_size_t)[t]
  IN  /\ at[t] = "decompress"
      /\ out' = [r \in AllRows |->
                   IF r \in lo(t) .. (hi(t) - 1)
                   THEN Append(out[r], [row |-> r - lo(t), bound |-> conf_t[t],
                                        bytes |-> [k \in 0 .. (cmp_size_t[t] - 1) |-> buffer[start + k]]])
                   ELSE out[r]]
      /\ Goto(t, "done")
      /\ UNCHANGED <<ran, data, mode, absErrorBound, nThreads, min_t, max_t, conf_t, cmp_size_t,
                     cmp_start_t, buffer>>

-----------------------------------------------------------------------------
Compress(t) ==
  \/ InitTeam(t) \/ Skip(t, "init", "init_end") \/ Pass(t, "init_end", "chunk")
  \/ TakeChunk(t) \/ Pass(t, "barrier", "bound")
  \/ SetBound(t) \/ Skip(t, "bound", "bound_end") \/ Pass(t, "bound_end", "compress")
  \/ CompressChunk(t) \/ Pass(t, "packed", "layout")
  \/ LayOut(t) \/ Skip(t, "layout", "layout_end") \/ Pass(t, "layout_end", "copy")
  \/ CopyChunk(t)

Decompress(t) == Pass(t, "joined", "decompress") \/ DecompressChunk(t)

Thread(t) == Compress(t) \/ Decompress(t)

Done == (\A t \in Threads : at[t] = "done") /\ UNCHANGED vars

Next == (\E t \in Threads : Thread(t)) \/ Done

\* A thread that is not held at a barrier goes on.
Spec == Init /\ [][Next]_vars /\ \A t \in Threads : WF_vars(Thread(t))

-----------------------------------------------------------------------------
(* Properties.                                                             *)

Past(t, p) == Rank(at[t]) > Rank(p)

\* The vectors have an element for every thread before a thread sets its own, and
\* the chunks stay in the array.
TypeOK ==
  /\ \A t \in Threads : at[t] \in {Places[k] : k \in 1 .. Len(Places)}
  /\ mode \in {"ABS", "REL"}
  /\ \A t \in Threads : Past(t, "init_end") =>
       /\ {DOMAIN min_t, DOMAIN max_t, DOMAIN conf_t, DOMAIN cmp_size_t} = {Threads}
       /\ lo(t) \in AllRows /\ hi(t) \in (lo(t) + 1) .. Rows

\* Every chunk is compressed with the bound that the range of the whole array
\* gives, however the threads interleave: none before the bound is set, and none
\* with the range of its own chunk.
OneBound ==
  \A t \in Threads : Past(t, "compress") =>
    conf_t[t] = IF "bound" \in ran THEN Span({data[r] : r \in AllRows}) ELSE 1

\* The chunks lie apart in the buffer, whole and in order, and no thread's copy
\* destroys another's: LayOut has seen the sizes of all chunks.
ChunksIntact ==
  \A t \in Threads : Past(t, "copy") =>
    \A k \in 0 .. (cmp_size_t[t] - 1) :
      cmp_start_t[t] + k \in DOMAIN buffer /\ buffer[cmp_start_t[t] + k] = <<t, k>>

\* Each row is decompressed once, from the chunk that was compressed with it.
RowsRestored ==
  (\A t \in Threads : at[t] = "done") =>
    \A r \in AllRows :
      /\ Len(out[r]) = 1
      /\ \E t \in Threads : /\ lo(t) + out[r][1].row = r
                            /\ out[r][1].bytes = [k \in 0 .. (cmp_size_t[t] - 1) |-> <<t, k>>]
                            /\ out[r][1].bound = conf_t[t]

\* No thread waits at a barrier for ever.
Terminates == <>(\A t \in Threads : at[t] = "done")
=============================================================================
