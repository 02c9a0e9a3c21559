--------------------------- MODULE OmpChunksProofs ---------------------------
(***************************************************************************)
(* OmpChunks is safe for every team, number of rows and size of a chunk.   *)
(* Control says which places of two threads, and which single constructs,  *)
(* go together; the data follows from it.                                  *)
(***************************************************************************)
EXTENDS OmpChunks, NumberLemmas

PlaceSet == {Places[k] : k \in 1 .. Len(Places)}

LEMMA Ranks ==
  /\ Rank("init") = 1 /\ Rank("init_end") = 2 /\ Rank("chunk") = 3
  /\ Rank("barrier") = 4 /\ Rank("bound") = 5 /\ Rank("bound_end") = 6
  /\ Rank("compress") = 7 /\ Rank("packed") = 8
  /\ Rank("layout") = 9 /\ Rank("layout_end") = 10 /\ Rank("copy") = 11
  /\ Rank("joined") = 12 /\ Rank("decompress") = 13 /\ Rank("done") = 14
BY DEF Rank, Places

LEMMA PlacesListed ==
  PlaceSet = {"init", "init_end", "chunk", "barrier", "bound", "bound_end", "compress",
              "packed", "layout", "layout_end", "copy", "joined", "decompress", "done"}
BY DEF PlaceSet, Places

\* A chunk of the whole team has rows, in the array.
LEMMA TeamChunk ==
  ASSUME NEW t \in Threads
  PROVE  LET first == (t * Rows) \div Team
             next  == ((t + 1) * Rows) \div Team
         IN  first \in Nat /\ next \in Nat /\ first < next /\ next <= Rows
<1> DEFINE q == (t * Rows) \div Team
           p == ((t + 1) * Rows) \div Team
<1>1. t * Rows \in Nat /\ (t + 1) * Rows = t * Rows + Rows
  BY OmpAssumption DEF Threads
<1>2. /\ q \in Nat /\ Team * q <= t * Rows /\ t * Rows < Team * q + Team
      /\ p \in Nat /\ Team * p <= (t + 1) * Rows /\ (t + 1) * Rows < Team * p + Team
  <2>1. (t + 1) * Rows \in Nat /\ Team \in Nat \ {0}
    BY <1>1, OmpAssumption DEF Threads
  <2> QED
    BY <1>1, <2>1, QuotientOf, Zenon
<1>3. (t + 1) * Rows <= Team * Rows
  <2>1. (Team - (t + 1)) * Rows >= 0
    BY OmpAssumption DEF Threads
  <2>2. Team * Rows = (Team - (t + 1)) * Rows + (t + 1) * Rows
    BY OmpAssumption DEF Threads
  <2> QED
    BY <2>1, <2>2, OmpAssumption DEF Threads
<1> HIDE DEF q, p
<1>4. q < p
  <2>1. SUFFICES ASSUME p <= q PROVE FALSE
    BY <1>2
  <2>2. Team * p <= Team * q
    <3>1. Team * (q - p) >= 0
      BY <1>2, <2>1, OmpAssumption
    <3>2. Team * q = Team * (q - p) + Team * p
      BY <1>2, OmpAssumption
    <3> QED
      BY <1>2, <3>1, <3>2, OmpAssumption
  <2>3. Team * p \in Int /\ Team * q \in Int /\ Team <= Rows
    BY <1>2, OmpAssumption
  <2> QED
    BY <1>1, <1>2, <2>2, <2>3, OmpAssumption
<1>5. p <= Rows
  <2>1. SUFFICES ASSUME Rows + 1 <= p PROVE FALSE
    BY <1>2, OmpAssumption
  <2>2. Team * p = Team * (p - (Rows + 1)) + Team * Rows + Team /\ Team * (p - (Rows + 1)) >= 0
    BY <1>2, <2>1, OmpAssumption
  <2>3. Team * Rows \in Int /\ Team * p \in Int
    BY <1>2, OmpAssumption
  <2> QED
    BY <1>1, <1>2, <1>3, <2>2, <2>3, OmpAssumption
<1> QED
  BY <1>2, <1>4, <1>5 DEF q, p

LEMMA OneChunk ==
  ASSUME nThreads = Team, NEW t \in Threads
  PROVE  /\ lo(t) \in Nat /\ hi(t) \in Nat
         /\ lo(t) < hi(t) /\ hi(t) <= Rows
         /\ hi(t) = lo(t + 1)
BY TeamChunk DEF lo, hi

LEMMA FirstAndLast ==
  ASSUME nThreads = Team
  PROVE  lo(0) = 0 /\ hi(Team - 1) = Rows
<1>1. lo(0) = 0
  <2>1. 0 * Rows = 0 /\ 0 \in Nat
    BY OmpAssumption
  <2> DEFINE z == 0 \div Team
  <2>2. z \in Nat /\ Team * z <= 0
    BY OmpAssumption, QuotientOf
  <2>3. z = 0
    <3>1. SUFFICES ASSUME z >= 1 PROVE FALSE
      BY <2>2
    <3>2. Team * z = Team * (z - 1) + Team /\ Team * (z - 1) >= 0
      BY <2>2, <3>1, OmpAssumption
    <3> QED
      BY <2>2, <3>2, OmpAssumption
  <2> QED
    BY <2>1, <2>3 DEF lo
<1>2. hi(Team - 1) = Rows
  <2> DEFINE p == (Team * Rows) \div Team
  <2>1. Team * Rows \in Nat
    BY OmpAssumption
  <2>2. p \in Nat /\ Team * p <= Team * Rows /\ Team * Rows < Team * p + Team
    BY <2>1, OmpAssumption, QuotientOf
  <2> HIDE DEF p
  <2>3. p = Rows
    <3>1. CASE p < Rows
      <4>1. Team * Rows = Team * (Rows - p - 1) + Team * p + Team /\ Team * (Rows - p - 1) >= 0
        BY <2>2, <3>1, OmpAssumption
      <4>2. Team * p \in Int
        BY <2>2, OmpAssumption
      <4> QED
        BY <2>1, <2>2, <4>1, <4>2, OmpAssumption
    <3>2. CASE Rows < p
      <4>1. Team * p = Team * (p - Rows - 1) + Team * Rows + Team /\ Team * (p - Rows - 1) >= 0
        BY <2>2, <3>2, OmpAssumption
      <4> QED
        BY <2>1, <2>2, <4>1, OmpAssumption
    <3> QED
      BY <2>2, <3>1, <3>2, OmpAssumption
  <2>4. (Team - 1) + 1 = Team
    BY OmpAssumption
  <2> QED
    BY <2>3, <2>4 DEF hi, p
<1> QED
  BY <1>1, <1>2

\* Every row is in a chunk.
LEMMA Covered ==
  ASSUME nThreads = Team, NEW r \in AllRows
  PROVE  \E t \in Threads : r \in lo(t) .. (hi(t) - 1)
<1> DEFINE T == {t \in Threads : r < hi(t)}
<1>1. Team - 1 \in T
  BY FirstAndLast, OmpAssumption DEF Threads, AllRows
<1>2. T \subseteq Nat
  BY OmpAssumption DEF Threads
<1>3. PICK t \in T : \A u \in T : t <= u
  BY <1>1, <1>2, Least
<1>4. t \in Threads /\ r < hi(t) /\ t \in Nat /\ t < Team
  BY <1>2, <1>3, OmpAssumption DEF Threads
<1>5. lo(t) <= r
  <2>1. CASE t = 0
    BY <2>1, FirstAndLast DEF AllRows
  <2>2. CASE t # 0
    <3>1. t - 1 \in Threads /\ ~(t <= t - 1) /\ (t - 1) + 1 = t
      BY <1>4, <2>2, OmpAssumption DEF Threads
    <3>2. ~(r < hi(t - 1))
      BY <1>3, <3>1
    <3>3. hi(t - 1) = lo(t) /\ hi(t - 1) \in Nat
      BY <3>1, OneChunk
    <3> QED
      BY <3>2, <3>3 DEF AllRows
  <2> QED
    BY <2>1, <2>2
<1> QED
  BY <1>4, <1>5, OneChunk DEF AllRows

\* The chunks of two threads lie apart.
LEMMA Apart ==
  ASSUME nThreads = Team, NEW t \in Threads, NEW u \in Threads, t < u
  PROVE  hi(t) <= lo(u)
<1> DEFINE T == {v \in Threads : t < v /\ ~(hi(t) <= lo(v))}
<1>1. SUFFICES ASSUME T # {} PROVE FALSE
  BY <1>1
<1>2. T \subseteq Nat
  BY OmpAssumption DEF Threads
<1>3. PICK v \in T : \A w \in T : v <= w
  BY <1>1, <1>2, Least
<1>4. v \in Threads /\ t < v /\ ~(hi(t) <= lo(v)) /\ v \in Nat /\ t \in Nat
  BY <1>2, <1>3, OmpAssumption DEF Threads
<1>5. /\ v - 1 \in Threads /\ t + 1 \in Threads /\ (v - 1) + 1 = v
      /\ hi(v - 1) = lo(v) /\ hi(t) = lo(t + 1) /\ hi(t) \in Nat /\ hi(v - 1) \in Nat
      /\ lo(v - 1) \in Nat /\ lo(v - 1) < hi(v - 1)
  <2>1. v - 1 \in Threads /\ t + 1 \in Threads /\ (v - 1) + 1 = v
    BY <1>4, OmpAssumption DEF Threads
  <2> QED
    BY <2>1, OneChunk
<1>6. t < v - 1
  <2>1. SUFFICES ASSUME v = t + 1 PROVE FALSE
    BY <1>4
  <2> QED
    BY <1>4, <1>5, <2>1
<1>7. v - 1 \notin T
  BY <1>3, <1>4
<1>8. hi(t) <= lo(v - 1)
  BY <1>5, <1>6, <1>7
<1> QED
  BY <1>4, <1>5, <1>8

\* What Starts is defined to be: the prefix sums of the sizes.
LEMMA PrefixSums ==
  ASSUME nThreads = Team, NEW s \in [Threads -> Nat]
  PROVE  /\ Starts(s) \in [0 .. Team -> Nat]
         /\ Starts(s)[0] = 0
         /\ \A i \in Threads : Starts(s)[i + 1] = Starts(s)[i] + s[i]
<1> DEFINE Sums(f, n) == f = [i \in 0 .. n |-> IF i = 0 THEN 0 ELSE f[i - 1] + s[i - 1]]
           Good(f, n) == f \in [0 .. n -> Nat] /\ Sums(f, n)
           T == {n \in 0 .. Team : ~\E f : Good(f, n)}
<1>1. T = {}
  <2>1. SUFFICES ASSUME T # {} PROVE FALSE
    OBVIOUS
  <2>2. T \subseteq Nat
    BY OmpAssumption
  <2>3. PICK n \in T : \A y \in T : n <= y
    BY <2>1, <2>2, Least
  <2>4. n \in 0 .. Team /\ n \in Nat /\ ~\E f : Good(f, n)
    BY <2>2, <2>3
  <2>5. n # 0
    <3>1. Good([i \in 0 .. 0 |-> 0], 0)
      OBVIOUS
    <3> QED
      BY <2>4, <3>1
  <2>6. n - 1 \in 0 .. Team /\ ~(n <= n - 1) /\ n - 1 \in Threads /\ n - 1 \in Nat
    BY <2>4, <2>5, OmpAssumption DEF Threads
  <2>7. PICK f : Good(f, n - 1)
    BY <2>3, <2>6
  <2> DEFINE g == [i \in 0 .. n |-> IF i = n THEN f[n - 1] + s[n - 1] ELSE f[i]]
  <2>8. \A i \in 0 .. n : i = n \/ i \in 0 .. n - 1
    BY <2>4
  <2>9. f[n - 1] \in Nat /\ s[n - 1] \in Nat
    <3>1. n - 1 \in 0 .. n - 1 /\ f \in [0 .. n - 1 -> Nat]
      BY <2>6, <2>7
    <3> QED
      BY <2>6, <3>1
  <2>10. g \in [0 .. n -> Nat]
    BY <2>7, <2>8, <2>9
  <2>11. \A i \in 0 .. n : g[i] = IF i = 0 THEN 0 ELSE g[i - 1] + s[i - 1]
    <3> SUFFICES ASSUME NEW i \in 0 .. n
                 PROVE  g[i] = IF i = 0 THEN 0 ELSE g[i - 1] + s[i - 1]
      OBVIOUS
    <3>1. i # 0 => i - 1 \in 0 .. n - 1 /\ i - 1 \in 0 .. n /\ i - 1 # n
      BY <2>4
    <3>2. i # 0 => g[i - 1] = f[i - 1]
      BY <3>1
    <3>3. i # n => g[i] = f[i] /\ f[i] = IF i = 0 THEN 0 ELSE f[i - 1] + s[i - 1]
      BY <2>7, <2>8
    <3>4. i = n => g[i] = f[n - 1] + s[n - 1] /\ i # 0
      BY <2>5
    <3> QED
      BY <3>2, <3>3, <3>4
  <2>12. Sums(g, n)
    BY <2>10, <2>11
  <2> QED
    BY <2>4, <2>10, <2>12
<1>2. PICK f : Good(f, Team)
  BY <1>1, OmpAssumption
<1>3. Sums(Starts(s), Team)
  BY <1>2 DEF Starts
<1> DEFINE S == Starts(s)
<1>4. DOMAIN S = 0 .. Team /\ \A i \in 0 .. Team : S[i] = IF i = 0 THEN 0 ELSE S[i - 1] + s[i - 1]
  <2> HIDE DEF S
  <2> QED
    BY <1>3 DEF S
<1> HIDE DEF S
<1>5. \A i \in Threads : S[i + 1] = S[i] + s[i]
  <2> SUFFICES ASSUME NEW i \in Threads PROVE S[i + 1] = S[i] + s[i]
    OBVIOUS
  <2>1. i + 1 \in 0 .. Team /\ i + 1 # 0 /\ (i + 1) - 1 = i
    BY OmpAssumption DEF Threads
  <2> QED
    BY <1>4, <2>1
<1>6. S[0] = 0 /\ 0 \in 0 .. Team
  BY <1>4, OmpAssumption
<1>7. \A i \in 0 .. Team : S[i] \in Nat
  <2> DEFINE U == {i \in 0 .. Team : S[i] \notin Nat}
  <2>1. SUFFICES ASSUME U # {} PROVE FALSE
    OBVIOUS
  <2>2. U \subseteq Nat
    BY OmpAssumption
  <2>3. PICK i \in U : \A j \in U : i <= j
    BY <2>1, <2>2, Least
  <2>4. i \in 0 .. Team /\ S[i] \notin Nat /\ i # 0
    BY <1>6, <2>3
  <2>5. i - 1 \in Threads /\ i - 1 \in 0 .. Team /\ ~(i <= i - 1) /\ (i - 1) + 1 = i
    BY <2>4, OmpAssumption DEF Threads
  <2>6. S[i - 1] \in Nat
    BY <2>3, <2>5
  <2>7. s[i - 1] \in Nat /\ S[i] = S[i - 1] + s[i - 1]
    BY <1>5, <2>5
  <2> QED
    BY <2>4, <2>6, <2>7
<1>8. S = [i \in 0 .. Team |-> S[i]]
  BY <1>3, Zenon DEF S
<1>9. S \in [0 .. Team -> Nat]
  BY <1>7, <1>8
<1> QED
  BY <1>5, <1>6, <1>9 DEF S

\* Two chunks of bytes lie apart.
LEMMA SumsApart ==
  ASSUME nThreads = Team, NEW s \in [Threads -> Nat], NEW t \in Threads,
         NEW u \in 0 .. Team, t < u
  PROVE  Starts(s)[t] + s[t] <= Starts(s)[u]
<1> DEFINE S == Starts(s)
           T == {v \in 0 .. Team : t < v /\ ~(S[t] + s[t] <= S[v])}
<1>1. /\ S \in [0 .. Team -> Nat] /\ \A i \in Threads : S[i + 1] = S[i] + s[i]
      /\ Threads \subseteq 0 .. Team /\ Threads \subseteq Nat
  <2>1. S \in [0 .. Team -> Nat] /\ \A i \in Threads : S[i + 1] = S[i] + s[i]
    BY PrefixSums, Zenon
  <2>2. Threads \subseteq 0 .. Team /\ Threads \subseteq Nat
    BY OmpAssumption DEF Threads
  <2> QED
    BY <2>1, <2>2
<1> HIDE DEF S
<1>2. SUFFICES ASSUME T # {} PROVE FALSE
  BY DEF S
<1>3. T \subseteq Nat
  BY OmpAssumption
<1>4. PICK v \in T : \A w \in T : v <= w
  BY <1>2, <1>3, Least
<1>5. v \in 0 .. Team /\ t < v /\ ~(S[t] + s[t] <= S[v]) /\ v \in Nat /\ t \in Nat
  BY <1>1, <1>3, <1>4
<1>6. v - 1 \in Threads /\ v - 1 \in 0 .. Team /\ (v - 1) + 1 = v /\ ~(v <= v - 1)
  BY <1>5, OmpAssumption DEF Threads
<1>7. S[v] = S[v - 1] + s[v - 1] /\ S[v - 1] \in Nat /\ s[v - 1] \in Nat /\ S[t] \in Nat /\ s[t] \in Nat
  <2>1. S[v] = S[v - 1] + s[v - 1]
    BY <1>1, <1>6
  <2> QED
    BY <1>1, <1>6, <2>1
<1>8. CASE v = t + 1
  BY <1>5, <1>7, <1>8
<1>9. CASE v # t + 1
  <2>1. t < v - 1 /\ v - 1 \notin T
    BY <1>4, <1>5, <1>6, <1>9
  <2>2. S[t] + s[t] <= S[v - 1]
    BY <1>6, <2>1
  <2> QED
    BY <1>5, <1>7, <2>2
<1> QED
  BY <1>8, <1>9

-----------------------------------------------------------------------------
(* The threads' places.                                                    *)

R(t) == Rank(at[t])

Control ==
  /\ at \in [Threads -> PlaceSet]
  /\ ran \subseteq {"init", "bound", "layout"}
  /\ mode \in {"ABS", "REL"}
  /\ \A t \in Threads : R(t) >= 2 => "init" \in ran
  /\ \A t, u \in Threads : R(t) >= 3 => R(u) >= 2
  /\ \A t, u \in Threads : at[t] = "bound" \/ "bound" \in ran => R(u) >= 4
  /\ "bound" \in ran => mode = "ABS"
  /\ mode = "REL" => \A t \in Threads : R(t) <= 5
  /\ mode = "ABS" /\ "bound" \notin ran =>
       \A t \in Threads : at[t] \notin {"barrier", "bound", "bound_end"}
  /\ \A t, u \in Threads : R(t) >= 9 \/ "layout" \in ran => R(u) >= 8
  /\ \A t \in Threads : R(t) >= 10 => "layout" \in ran
  /\ \A t, u \in Threads : R(t) >= 11 => R(u) >= 10
  /\ \A t, u \in Threads : R(t) >= 13 => R(u) >= 12

LEMMA ControlInit == Init => Control
BY Ranks, PlacesListed DEF Init, Control, R

LEMMA ControlPass ==
  ASSUME Control, NEW t \in Threads,
         \/ Pass(t, "init_end", "chunk") \/ Pass(t, "barrier", "bound")
         \/ Pass(t, "bound_end", "compress") \/ Pass(t, "packed", "layout")
         \/ Pass(t, "layout_end", "copy") \/ Pass(t, "joined", "decompress")
  PROVE  Control'
<1>1. CASE Pass(t, "init_end", "chunk")
  BY <1>1, Ranks, PlacesListed DEF Control, Pass, Goto, Arrived, R, shared
<1>2. CASE Pass(t, "barrier", "bound")
  BY <1>2, Ranks, PlacesListed DEF Control, Pass, Goto, Arrived, R, shared
<1>3. CASE Pass(t, "bound_end", "compress")
  BY <1>3, Ranks, PlacesListed DEF Control, Pass, Goto, Arrived, R, shared
<1>4. CASE Pass(t, "packed", "layout")
  BY <1>4, Ranks, PlacesListed DEF Control, Pass, Goto, Arrived, R, shared
<1>5. CASE Pass(t, "layout_end", "copy")
  BY <1>5, Ranks, PlacesListed DEF Control, Pass, Goto, Arrived, R, shared
<1>6. CASE Pass(t, "joined", "decompress")
  BY <1>6, Ranks, PlacesListed DEF Control, Pass, Goto, Arrived, R, shared
<1> QED
  BY <1>1, <1>2, <1>3, <1>4, <1>5, <1>6

LEMMA ControlSingle ==
  ASSUME Control, NEW t \in Threads,
         \/ InitTeam(t) \/ Skip(t, "init", "init_end")
         \/ SetBound(t) \/ Skip(t, "bound", "bound_end")
         \/ LayOut(t) \/ Skip(t, "layout", "layout_end")
  PROVE  Control'
<1>1. CASE InitTeam(t)
  BY <1>1, Ranks, PlacesListed DEF Control, InitTeam, Take, Goto, R
<1>2. CASE Skip(t, "init", "init_end")
  BY <1>2, Ranks, PlacesListed DEF Control, Skip, Goto, R, shared
<1>3. CASE SetBound(t)
  BY <1>3, Ranks, PlacesListed DEF Control, SetBound, Take, Goto, R
<1>4. CASE Skip(t, "bound", "bound_end")
  BY <1>4, Ranks, PlacesListed DEF Control, Skip, Goto, R, shared
<1>5. CASE LayOut(t)
  BY <1>5, Ranks, PlacesListed DEF Control, LayOut, Take, Goto, R
<1>6. CASE Skip(t, "layout", "layout_end")
  BY <1>6, Ranks, PlacesListed DEF Control, Skip, Goto, R, shared
<1> QED
  BY <1>1, <1>2, <1>3, <1>4, <1>5, <1>6

LEMMA ControlOwn ==
  ASSUME Control, NEW t \in Threads,
         TakeChunk(t) \/ CompressChunk(t) \/ CopyChunk(t) \/ DecompressChunk(t)
  PROVE  Control'
<1>1. CASE TakeChunk(t)
  <2>1. UNCHANGED <<ran, mode>>
    BY <1>1 DEF TakeChunk
  <2>2. at[t] = "chunk" /\ (IF mode # "ABS" THEN Goto(t, "barrier") ELSE Goto(t, "compress"))
    BY <1>1 DEF TakeChunk
  <2> QED
    BY <2>1, <2>2, Ranks, PlacesListed DEF Control, Goto, R
<1>2. CASE CompressChunk(t)
  <2>1. UNCHANGED <<ran, mode>> /\ at[t] = "compress" /\ Goto(t, "packed")
    BY <1>2 DEF CompressChunk
  <2> QED
    BY <2>1, Ranks, PlacesListed DEF Control, Goto, R
<1>3. CASE CopyChunk(t)
  <2>1. UNCHANGED <<ran, mode>> /\ at[t] = "copy" /\ Goto(t, "joined")
    BY <1>3 DEF CopyChunk
  <2> QED
    BY <2>1, Ranks, PlacesListed DEF Control, Goto, R
<1>4. CASE DecompressChunk(t)
  <2>1. UNCHANGED <<ran, mode>> /\ at[t] = "decompress" /\ Goto(t, "done")
    BY <1>4 DEF DecompressChunk
  <2> QED
    BY <2>1, Ranks, PlacesListed DEF Control, Goto, R
<1> QED
  BY <1>1, <1>2, <1>3, <1>4

LEMMA ControlNext == Control /\ [Next]_vars => Control'
<1> SUFFICES ASSUME Control, [Next]_vars PROVE Control'
  OBVIOUS
<1>1. CASE UNCHANGED vars
  BY <1>1, Ranks DEF Control, R, vars, shared
<1>2. CASE \E t \in Threads : Thread(t)
  <2> PICK t \in Threads : Thread(t)
    BY <1>2
  <2> QED
    BY ControlPass, ControlSingle, ControlOwn DEF Thread, Compress, Decompress
<1> QED
  BY <1>1, <1>2 DEF Next, Done
-----------------------------------------------------------------------------
(* The data.                                                               *)

Chunk(t)   == lo(t) .. (hi(t) - 1)
DataOf(S)  == {data[r] : r \in S}
Bound      == IF "bound" \in ran THEN Span(DataOf(AllRows)) ELSE 1
Bytes(t)   == [k \in 0 .. (cmp_size_t[t] - 1) |-> <<t, k>>]
Row(t, r)  == [row |-> r - lo(t), bound |-> conf_t[t], bytes |-> Bytes(t)]

Vectors ==
  /\ nThreads = Team
  /\ DOMAIN min_t = Threads /\ DOMAIN max_t = Threads
  /\ conf_t = [t \in Threads |-> conf_t[t]]
  /\ cmp_size_t \in [Threads -> Nat]

Ranges ==
  mode = "REL" =>
    \A t \in Threads : R(t) >= 4 => /\ min_t[t] = Min(DataOf(Chunk(t)))
                                    /\ max_t[t] = Max(DataOf(Chunk(t)))

Bounds ==
  /\ mode = "ABS" => absErrorBound = Bound
  /\ \A t \in Threads : R(t) >= 8 => conf_t[t] = Bound

LaidOut ==
  /\ cmp_start_t = Starts(cmp_size_t)
  /\ DOMAIN buffer = 0 .. (cmp_start_t[Team] - 1)

Copied ==
  \A t \in Threads : R(t) >= 12 =>
    \A k \in 0 .. (cmp_size_t[t] - 1) : buffer[cmp_start_t[t] + k] = <<t, k>>

Rest ==
  /\ DOMAIN out = AllRows
  /\ \A t \in Threads : \A r \in Chunk(t) :
       out[r] = IF at[t] = "done" THEN <<Row(t, r)>> ELSE <<>>

Data ==
  /\ data \in [AllRows -> Values]
  /\ mode = "REL" \/ "init" \in ran \/ absErrorBound = 1
  /\ "init" \notin ran => out = [r \in AllRows |-> <<>>]
  /\ "init" \in ran => Vectors /\ Ranges /\ Bounds /\ Rest
  /\ "layout" \in ran => LaidOut /\ Copied

\* The range of a chunk is that of two of its rows.
LEMMA ChunkRange ==
  ASSUME data \in [AllRows -> Values], NEW a \in AllRows, NEW b \in AllRows, a <= b
  PROVE  \E m, n \in a .. b :
           /\ Min(DataOf(a .. b)) = data[m] /\ Max(DataOf(a .. b)) = data[n]
           /\ \A r \in a .. b : data[m] <= data[r] /\ data[r] <= data[n]
<1>1. /\ a \in Int /\ b \in Int /\ a .. b \subseteq AllRows
      /\ \A r \in a .. b : data[r] \in Int
  <2>1. a \in Int /\ b \in Int /\ a .. b \subseteq AllRows
    BY OmpAssumption DEF AllRows
  <2>2. \A r \in AllRows : data[r] \in Int
    BY OmpAssumption
  <2> QED
    BY <2>1, <2>2
<1>2. PICK m \in a .. b : \A r \in a .. b : data[m] <= data[r]
  BY <1>1, Smallest
<1>3. PICK n \in a .. b : \A r \in a .. b : data[r] <= data[n]
  BY <1>1, Greatest
<1>4. DataOf(a .. b) \in SUBSET Int /\ data[m] \in DataOf(a .. b) /\ data[n] \in DataOf(a .. b)
  BY <1>1 DEF DataOf
<1>5. \A x \in DataOf(a .. b) : data[m] <= x /\ x <= data[n]
  BY <1>2, <1>3 DEF DataOf
<1>6. Min(DataOf(a .. b)) = data[m]
  BY <1>4, <1>5, MinIs
<1>7. Max(DataOf(a .. b)) = data[n]
  BY <1>4, <1>5, MaxIs
<1> QED
  BY <1>2, <1>3, <1>6, <1>7

\* The range of the chunks' ranges is that of the array.
LEMMA WholeRange ==
  ASSUME data \in [AllRows -> Values], nThreads = Team,
         \A t \in Threads : /\ min_t[t] = Min(DataOf(Chunk(t)))
                            /\ max_t[t] = Max(DataOf(Chunk(t)))
  PROVE  /\ Max({max_t[i] : i \in 0 .. (nThreads - 1)}) = Max(DataOf(AllRows))
         /\ Min({min_t[i] : i \in 0 .. (nThreads - 1)}) = Min(DataOf(AllRows))
<1>1. 0 .. (nThreads - 1) = Threads
  BY DEF Threads
<1>2. \A t \in Threads : \E m, n \in Chunk(t) :
        /\ min_t[t] = data[m] /\ max_t[t] = data[n]
        /\ \A r \in Chunk(t) : data[m] <= data[r] /\ data[r] <= data[n]
  <2> SUFFICES ASSUME NEW t \in Threads
               PROVE  \E m, n \in Chunk(t) :
                        /\ min_t[t] = data[m] /\ max_t[t] = data[n]
                        /\ \A r \in Chunk(t) : data[m] <= data[r] /\ data[r] <= data[n]
    OBVIOUS
  <2>1. lo(t) \in AllRows /\ hi(t) - 1 \in AllRows /\ lo(t) <= hi(t) - 1
    BY OneChunk, OmpAssumption DEF AllRows
  <2> QED
    BY <2>1, ChunkRange DEF Chunk
<1>3. /\ 0 \in AllRows /\ Rows - 1 \in AllRows /\ 0 <= Rows - 1
      /\ AllRows = 0 .. (Rows - 1)
  BY OmpAssumption DEF AllRows
<1>4. PICK m, n \in AllRows : /\ Min(DataOf(AllRows)) = data[m] /\ Max(DataOf(AllRows)) = data[n]
                              /\ \A r \in AllRows : data[m] <= data[r] /\ data[r] <= data[n]
  BY <1>3, ChunkRange
<1>5. \A t \in Threads : Chunk(t) \subseteq AllRows
  <2> SUFFICES ASSUME NEW t \in Threads PROVE Chunk(t) \subseteq AllRows
    OBVIOUS
  <2>1. lo(t) \in Nat /\ hi(t) \in Nat /\ hi(t) <= Rows
    BY OneChunk
  <2> QED
    BY <2>1, OmpAssumption DEF Chunk, AllRows
<1>6. \A r \in AllRows : data[r] \in Int
  BY OmpAssumption
<1>7. Max({max_t[i] : i \in Threads}) = data[n]
  <2> DEFINE S == {max_t[i] : i \in Threads}
  <2>1. PICK t \in Threads : n \in Chunk(t)
    BY Covered DEF Chunk
  <2>2. S \in SUBSET Int /\ \A x \in S : x <= data[n]
    BY <1>2, <1>4, <1>5, <1>6
  <2>3. max_t[t] = data[n]
    <3>1. data[n] <= max_t[t] /\ max_t[t] \in Int /\ max_t[t] <= data[n]
      BY <1>2, <2>1, <2>2
    <3> QED
      BY <1>4, <1>6, <3>1
  <2>4. data[n] \in S
    BY <2>3
  <2> QED
    BY <2>2, <2>4, MaxIs
<1>8. Min({min_t[i] : i \in Threads}) = data[m]
  <2> DEFINE S == {min_t[i] : i \in Threads}
  <2>1. PICK t \in Threads : m \in Chunk(t)
    BY Covered DEF Chunk
  <2>2. S \in SUBSET Int /\ \A x \in S : data[m] <= x
    BY <1>2, <1>4, <1>5, <1>6
  <2>3. min_t[t] = data[m]
    <3>1. min_t[t] <= data[m] /\ min_t[t] \in Int /\ data[m] <= min_t[t]
      BY <1>2, <2>1, <2>2
    <3> QED
      BY <1>4, <1>6, <3>1
  <2>4. data[m] \in S
    BY <2>3
  <2> QED
    BY <2>2, <2>4, MinIs
<1> QED
  BY <1>1, <1>4, <1>7, <1>8

LEMMA DataInit == Init => Data
<1> SUFFICES ASSUME Init PROVE Data
  OBVIOUS
<1> QED
  BY DEF Init, Data

\* Steps that change nothing but a thread's place, and not across one the data
\* depends on.
LEMMA DataMoves ==
  ASSUME Data, Control, UNCHANGED shared, UNCHANGED ran, NEW t \in Threads,
         NEW p \in PlaceSet, Goto(t, p), p # "done", at[t] # "done",
         R(t) >= 4 <=> Rank(p) >= 4, R(t) >= 8 <=> Rank(p) >= 8,
         R(t) >= 12 <=> Rank(p) >= 12
  PROVE  Data'
<1>1. \A u \in Threads : lo(u)' = lo(u) /\ hi(u)' = hi(u) /\ Bytes(u)' = Bytes(u)
  BY DEF shared, lo, hi, Bytes
<1>2. \A u \in Threads : Chunk(u)' = Chunk(u) /\ \A r \in Chunk(u) : Row(u, r)' = Row(u, r)
  BY <1>1 DEF Chunk, Row, shared
<1>3. /\ \A S : DataOf(S)' = DataOf(S)
      /\ Bound' = Bound /\ Starts(cmp_size_t)' = Starts(cmp_size_t)
  BY DEF DataOf, Bound, Starts, shared
<1>4. \A u \in Threads : /\ R(u)' >= 4 <=> R(u) >= 4
                         /\ R(u)' >= 8 <=> R(u) >= 8
                         /\ R(u)' >= 12 <=> R(u) >= 12
                         /\ (at[u]' = "done") <=> (at[u] = "done")
  BY DEF Goto, R, Control
<1>5. Vectors => Vectors'
  BY DEF Vectors, shared
<1>6. Ranges => Ranges'
  BY <1>2, <1>3, <1>4 DEF Ranges, shared
<1>7. Bounds => Bounds'
  BY <1>3, <1>4 DEF Bounds, shared
<1>8. Rest => Rest'
  BY <1>2, <1>4 DEF Rest, shared
<1>9. LaidOut => LaidOut'
  BY <1>3 DEF LaidOut, shared
<1>10. Copied => Copied'
  BY <1>4 DEF Copied, shared
<1> QED
  BY <1>5, <1>6, <1>7, <1>8, <1>9, <1>10 DEF Data, shared

LEMMA DataInitTeam ==
  ASSUME Data, Control, NEW t \in Threads, InitTeam(t)
  PROVE  Data'
<1>1. /\ "init" \notin ran /\ ran' = ran \cup {"init"} /\ at[t] = "init" /\ Goto(t, "init_end")
      /\ UNCHANGED <<data, mode, absErrorBound, buffer, out>>
  BY DEF InitTeam, Take
<1>2. \A u \in Threads : R(u) < 2 /\ at[u] = "init"
  BY <1>1, Ranks, PlacesListed DEF Control, R
<1>3. "bound" \notin ran /\ "layout" \notin ran
  BY <1>1, <1>2, Ranks DEF Control, R
<1>4. \A u \in Threads : R(u)' \in {1, 2} /\ at'[u] # "done"
  BY <1>1, <1>2, Ranks DEF Goto, R, Control
<1>5. nThreads' = Team /\ 0 .. (nThreads' - 1) = Threads
  BY OmpAssumption DEF InitTeam, Threads
<1>6. Vectors'
  <2> DEFINE zeros == [i \in 0 .. (nThreads' - 1) |-> 0]
  <2>1. min_t' = zeros /\ max_t' = zeros /\ conf_t' = zeros /\ cmp_size_t' = zeros
    BY DEF InitTeam
  <2>2. zeros = [i \in Threads |-> 0]
    BY <1>5
  <2> HIDE DEF zeros
  <2> QED
    BY <1>5, <2>1, <2>2 DEF Vectors
<1>7. Ranges'
  BY <1>4 DEF Ranges
<1>8. Bounds'
  <2>1. mode' = "ABS" => absErrorBound' = 1
    BY <1>1 DEF Data
  <2>2. Bound' = 1
    BY <1>1, <1>3 DEF Bound
  <2>3. \A u \in Threads : ~(R(u)' >= 8)
    BY <1>4
  <2> QED
    BY <2>1, <2>2, <2>3 DEF Bounds
<1>9. Rest'
  <2>1. out' = [r \in AllRows |-> <<>>]
    BY <1>1 DEF Data
  <2>2. \A u \in Threads : Chunk(u)' \subseteq AllRows
    <3> SUFFICES ASSUME NEW u \in Threads PROVE Chunk(u)' \subseteq AllRows
      OBVIOUS
    <3>1. lo(u)' \in Nat /\ hi(u)' \in Nat /\ hi(u)' <= Rows
      BY <1>5, TeamChunk DEF lo, hi
    <3> QED
      BY <3>1, OmpAssumption DEF Chunk, AllRows
  <2> QED
    BY <1>4, <2>1, <2>2 DEF Rest
<1> QED
  BY <1>1, <1>3, <1>6, <1>7, <1>8, <1>9 DEF Data

\* A thread past its place has seen the team set up.
LEMMA TeamSet ==
  ASSUME Data, Control, NEW t \in Threads, R(t) >= 2
  PROVE  "init" \in ran /\ nThreads = Team /\ Vectors /\ Ranges /\ Bounds /\ Rest
BY DEF Data, Control, Vectors

LEMMA SameChunks ==
  ASSUME UNCHANGED nThreads
  PROVE  \A u \in Threads : lo(u)' = lo(u) /\ hi(u)' = hi(u) /\ Chunk(u)' = Chunk(u)
BY DEF lo, hi, Chunk

LEMMA DataTakeChunk ==
  ASSUME Data, Control, NEW t \in Threads, TakeChunk(t)
  PROVE  Data'
<1>1. /\ at[t] = "chunk"
      /\ UNCHANGED <<ran, data, mode, absErrorBound, nThreads, conf_t, cmp_size_t, cmp_start_t,
                     buffer, out>>
      /\ Goto(t, IF mode # "ABS" THEN "barrier" ELSE "compress")
      /\ mode = "ABS" => UNCHANGED <<min_t, max_t>>
      /\ mode # "ABS" => /\ min_t' = [min_t EXCEPT ![t] = Min(DataOf(Chunk(t)))]
                         /\ max_t' = [max_t EXCEPT ![t] = Max(DataOf(Chunk(t)))]
  BY DEF TakeChunk, DataOf, Chunk
<1>2. "init" \in ran /\ nThreads = Team /\ Vectors /\ Ranges /\ Bounds /\ Rest
  BY <1>1, TeamSet, Ranks DEF R
<1>3. \A u \in Threads : /\ u # t => R(u)' = R(u) /\ at'[u] = at[u]
                         /\ (R(u)' >= 8) <=> (R(u) >= 8)
                         /\ (R(u)' >= 12) <=> (R(u) >= 12)
                         /\ (at'[u] = "done") <=> (at[u] = "done")
  BY <1>1, Ranks DEF Goto, R, Control
<1>4. "bound" \notin ran /\ "layout" \notin ran
  BY <1>1, Ranks DEF Control, R
<1>5. \A u \in Threads : Chunk(u)' = Chunk(u) /\ lo(u)' = lo(u)
  BY <1>1, SameChunks
<1>6. \A S : DataOf(S)' = DataOf(S)
  BY <1>1 DEF DataOf
<1>7. Vectors'
  BY <1>1, <1>2 DEF Vectors
<1>8. Ranges'
  <2> SUFFICES ASSUME mode' = "REL", NEW u \in Threads, R(u)' >= 4
               PROVE  /\ min_t'[u] = Min(DataOf(Chunk(u)))
                      /\ max_t'[u] = Max(DataOf(Chunk(u)))
    BY <1>5, <1>6 DEF Ranges
  <2>1. CASE u = t
    BY <1>1, <1>2, <2>1 DEF Vectors
  <2>2. CASE u # t
    BY <1>1, <1>2, <1>3, <2>2 DEF Vectors, Ranges
  <2> QED
    BY <2>1, <2>2
<1>9. Bound' = Bound
  BY <1>1, <1>6 DEF Bound
<1>10. Bounds'
  BY <1>1, <1>2, <1>3, <1>9 DEF Bounds
<1>11. \A u \in Threads, r \in AllRows : Row(u, r)' = Row(u, r)
  BY <1>1, <1>5 DEF Row, Bytes
<1>12. Rest'
  <2>1. \A u \in Threads : Chunk(u) \subseteq AllRows
    <3> SUFFICES ASSUME NEW u \in Threads PROVE Chunk(u) \subseteq AllRows
      OBVIOUS
    <3>1. lo(u) \in Nat /\ hi(u) \in Nat /\ hi(u) <= Rows
      BY <1>2, OneChunk
    <3> QED
      BY <3>1, OmpAssumption DEF Chunk, AllRows
  <2> QED
    BY <1>1, <1>2, <1>3, <1>5, <1>11, <2>1 DEF Rest
<1> QED
  BY <1>1, <1>2, <1>4, <1>7, <1>8, <1>10, <1>12 DEF Data

LEMMA DataSetBound ==
  ASSUME Data, Control, NEW t \in Threads, SetBound(t)
  PROVE  Data'
<1>1. /\ at[t] = "bound" /\ "bound" \notin ran /\ ran' = ran \cup {"bound"}
      /\ Goto(t, "bound_end") /\ mode' = "ABS"
      /\ absErrorBound' = Max({max_t[i] : i \in 0 .. (nThreads - 1)})
                            - Min({min_t[i] : i \in 0 .. (nThreads - 1)})
      /\ UNCHANGED <<data, nThreads, min_t, max_t, conf_t, cmp_size_t, cmp_start_t, buffer, out>>
  BY DEF SetBound, Take
<1>2. "init" \in ran /\ nThreads = Team /\ Vectors /\ Ranges /\ Bounds /\ Rest
  BY <1>1, TeamSet, Ranks DEF R
<1>3. mode = "REL"
  BY <1>1 DEF Control
<1>4. \A u \in Threads : R(u) >= 4 /\ R(u) \in {4, 5}
  <2> SUFFICES ASSUME NEW u \in Threads PROVE R(u) >= 4 /\ R(u) \in {4, 5}
    OBVIOUS
  <2>1. R(u) >= 4 /\ R(u) <= 5 /\ at[u] \in PlaceSet
    BY <1>1, <1>3 DEF Control
  <2> QED
    BY <2>1, Ranks, PlacesListed DEF R
<1>5. "layout" \notin ran
  BY <1>4 DEF Control
<1>6. \A u \in Threads : R(u)' \in {4, 5, 6} /\ at'[u] # "done" /\ at[u] # "done"
  BY <1>1, <1>4, Ranks DEF Goto, R, Control
<1>7. \A u \in Threads : Chunk(u)' = Chunk(u)
  BY <1>1, SameChunks
<1>8. \A S : DataOf(S)' = DataOf(S)
  BY <1>1 DEF DataOf
<1>9. absErrorBound' = Span(DataOf(AllRows))
  BY <1>1, <1>2, <1>3, <1>4, WholeRange DEF Ranges, Span, Data
<1>10. Bounds'
  BY <1>1, <1>6, <1>8, <1>9 DEF Bounds, Bound
<1>11. Vectors' /\ Ranges'
  BY <1>1, <1>2 DEF Vectors, Ranges
<1>12. Rest'
  BY <1>1, <1>2, <1>6, <1>7 DEF Rest
<1> QED
  BY <1>1, <1>2, <1>5, <1>10, <1>11, <1>12 DEF Data

LEMMA DataCompressChunk ==
  ASSUME Data, Control, NEW t \in Threads, CompressChunk(t)
  PROVE  Data'
<1>1. /\ at[t] = "compress" /\ Goto(t, "packed")
      /\ UNCHANGED <<ran, data, mode, absErrorBound, nThreads, min_t, max_t, cmp_start_t,
                     buffer, out>>
  BY DEF CompressChunk
<1>2. mode = "ABS" /\ "layout" \notin ran
  BY <1>1, Ranks DEF Control, R
<1>3. conf_t' = [conf_t EXCEPT ![t] = absErrorBound]
  BY <1>2 DEF CompressChunk
<1>4. PICK size \in Sizes : cmp_size_t' = [cmp_size_t EXCEPT ![t] = size]
  BY DEF CompressChunk
<1>5. "init" \in ran /\ nThreads = Team /\ Vectors /\ Ranges /\ Bounds /\ Rest
  BY <1>1, TeamSet, Ranks DEF R
<1>6. \A u \in Threads : /\ u # t => R(u)' = R(u)
                         /\ (at'[u] = "done") <=> (at[u] = "done")
  BY <1>1, Ranks DEF Goto, R, Control
<1>7. \A u \in Threads : Chunk(u)' = Chunk(u) /\ lo(u)' = lo(u)
  BY <1>1, SameChunks
<1>8. Bound' = Bound
  <2>1. \A S : DataOf(S)' = DataOf(S)
    BY <1>1 DEF DataOf
  <2> QED
    BY <1>1, <2>1 DEF Bound
<1>9. Vectors'
  <2>1. cmp_size_t' \in [Threads -> Nat]
    BY <1>4, <1>5, OmpAssumption DEF Vectors
  <2>2. conf_t' = [u \in Threads |-> conf_t'[u]]
    BY <1>3, <1>5 DEF Vectors
  <2> QED
    BY <1>1, <1>5, <2>1, <2>2 DEF Vectors
<1>10. Ranges'
  BY <1>1, <1>2 DEF Ranges
<1>11. Bounds'
  <2> SUFFICES ASSUME NEW u \in Threads, R(u)' >= 8 PROVE conf_t'[u] = Bound
    BY <1>1, <1>5, <1>8 DEF Bounds
  <2>1. CASE u = t
    BY <1>2, <1>3, <1>5, <2>1 DEF Bounds, Vectors
  <2>2. CASE u # t
    BY <1>3, <1>5, <1>6, <2>2 DEF Bounds, Vectors
  <2> QED
    BY <2>1, <2>2
<1>12. Rest'
  <2>1. at'[t] # "done" /\ at[t] # "done"
    BY <1>1 DEF Goto, Control
  <2>2. \A u \in Threads : \A r \in Chunk(u) : u # t => Row(u, r)' = Row(u, r)
    BY <1>1, <1>3, <1>4, <1>5, <1>7 DEF Row, Bytes, Vectors
  <2> QED
    BY <1>1, <1>5, <1>6, <1>7, <2>1, <2>2 DEF Rest
<1> QED
  BY <1>1, <1>2, <1>5, <1>9, <1>10, <1>11, <1>12 DEF Data

LEMMA DataLayOut ==
  ASSUME Data, Control, NEW t \in Threads, LayOut(t)
  PROVE  Data'
<1>1. /\ at[t] = "layout" /\ "layout" \notin ran /\ ran' = ran \cup {"layout"}
      /\ Goto(t, "layout_end")
      /\ cmp_start_t' = Starts(cmp_size_t)
      /\ buffer' = [k \in 0 .. (cmp_start_t'[nThreads] - 1) |-> <<>>]
      /\ UNCHANGED <<data, mode, absErrorBound, nThreads, min_t, max_t, conf_t, cmp_size_t, out>>
  BY DEF LayOut, Take
<1>2. "init" \in ran /\ nThreads = Team /\ Vectors /\ Ranges /\ Bounds /\ Rest
  BY <1>1, TeamSet, Ranks DEF R
<1>3. \A u \in Threads : /\ (R(u)' >= 4) <=> (R(u) >= 4)
                         /\ (R(u)' >= 8) <=> (R(u) >= 8)
                         /\ (at'[u] = "done") <=> (at[u] = "done")
  BY <1>1, Ranks DEF Goto, R, Control
<1>4. \A u \in Threads : ~(R(u)' >= 12)
  <2> SUFFICES ASSUME NEW u \in Threads PROVE ~(R(u)' >= 12)
    OBVIOUS
  <2>1. ~(R(u) >= 10) /\ at[u] \in PlaceSet
    BY <1>1 DEF Control
  <2> QED
    BY <1>1, <2>1, Ranks, PlacesListed DEF Goto, R, Control
<1>5. \A u \in Threads : Chunk(u)' = Chunk(u) /\ lo(u)' = lo(u)
  BY <1>1, SameChunks
<1>6. \A S : DataOf(S)' = DataOf(S)
  BY <1>1 DEF DataOf
<1>7. Vectors' /\ Ranges'
  BY <1>1, <1>2, <1>3, <1>5, <1>6 DEF Vectors, Ranges
<1>8. Bounds'
  <2>1. Bound' = Bound
    BY <1>1, <1>6 DEF Bound
  <2> QED
    BY <1>1, <1>2, <1>3, <2>1 DEF Bounds
<1>9. Rest'
  <2>1. \A u \in Threads : \A r \in Chunk(u) : Row(u, r)' = Row(u, r)
    BY <1>1, <1>5 DEF Row, Bytes
  <2> QED
    BY <1>1, <1>2, <1>3, <1>5, <2>1 DEF Rest
<1>10. LaidOut'
  <2>1. Starts(cmp_size_t)' = Starts(cmp_size_t)
    BY <1>1 DEF Starts
  <2> QED
    BY <1>1, <1>2, <2>1 DEF LaidOut
<1>11. Copied'
  BY <1>4 DEF Copied
<1> QED
  BY <1>1, <1>2, <1>7, <1>8, <1>9, <1>10, <1>11 DEF Data

\* Where a chunk's bytes are.
LEMMA BytesIn ==
  ASSUME Data, "layout" \in ran, "init" \in ran,
         NEW t \in Threads, NEW k \in 0 .. (cmp_size_t[t] - 1)
  PROVE  /\ cmp_start_t[t] \in Nat /\ cmp_size_t[t] \in Nat /\ k \in Nat
         /\ cmp_start_t[t] + k \in DOMAIN buffer
<1> DEFINE s == cmp_size_t
<1>1. nThreads = Team /\ s \in [Threads -> Nat] /\ LaidOut
  BY DEF Data, Vectors
<1>2. Starts(s) \in [0 .. Team -> Nat]
  BY <1>1, PrefixSums
<1>3. t \in 0 .. Team /\ Team \in 0 .. Team /\ t < Team
  BY OmpAssumption DEF Threads
<1>4. Starts(s)[t] + s[t] <= Starts(s)[Team]
  BY <1>1, <1>3, SumsApart
<1>5. s[t] \in Nat /\ Starts(s)[t] \in Nat /\ Starts(s)[Team] \in Nat
  BY <1>1, <1>2, <1>3
<1>6. k \in Nat /\ k < s[t]
  BY <1>5
<1> QED
  BY <1>1, <1>4, <1>5, <1>6 DEF LaidOut

\* Bytes of two chunks are not at the same place.
LEMMA BytesApart ==
  ASSUME Data, "layout" \in ran, "init" \in ran,
         NEW t \in Threads, NEW u \in Threads, t # u,
         NEW k \in 0 .. (cmp_size_t[u] - 1)
  PROVE  cmp_start_t[u] + k \notin cmp_start_t[t] .. (cmp_start_t[t] + cmp_size_t[t] - 1)
<1> DEFINE s == cmp_size_t
<1>1. nThreads = Team /\ s \in [Threads -> Nat] /\ cmp_start_t = Starts(s)
  BY DEF Data, Vectors, LaidOut
<1>2. Starts(s) \in [0 .. Team -> Nat]
  BY <1>1, PrefixSums
<1>3. t \in 0 .. Team /\ u \in 0 .. Team /\ t \in Int /\ u \in Int
  BY OmpAssumption DEF Threads
<1>4. s[t] \in Nat /\ s[u] \in Nat /\ Starts(s)[t] \in Nat /\ Starts(s)[u] \in Nat
  BY <1>1, <1>2, <1>3
<1>5. k \in Nat /\ k < s[u]
  BY <1>4
<1>6. CASE t < u
  <2>1. Starts(s)[t] + s[t] <= Starts(s)[u]
    BY <1>1, <1>3, <1>6, SumsApart
  <2> QED
    BY <1>1, <1>4, <1>5, <2>1
<1>7. CASE u < t
  <2>1. Starts(s)[u] + s[u] <= Starts(s)[t]
    BY <1>1, <1>3, <1>7, SumsApart
  <2> QED
    BY <1>1, <1>4, <1>5, <2>1
<1> QED
  BY <1>3, <1>6, <1>7

LEMMA DataCopyChunk ==
  ASSUME Data, Control, NEW t \in Threads, CopyChunk(t)
  PROVE  Data'
<1>1. /\ at[t] = "copy" /\ Goto(t, "joined")
      /\ buffer' = [k \in DOMAIN buffer |->
                      IF k \in cmp_start_t[t] .. (cmp_start_t[t] + cmp_size_t[t] - 1)
                      THEN <<t, k - cmp_start_t[t]>> ELSE buffer[k]]
      /\ UNCHANGED <<ran, data, mode, absErrorBound, nThreads, min_t, max_t, conf_t, cmp_size_t,
                     cmp_start_t, out>>
  BY DEF CopyChunk
<1>2. "init" \in ran /\ nThreads = Team /\ Vectors /\ Ranges /\ Bounds /\ Rest
  BY <1>1, TeamSet, Ranks DEF R
<1>3. "layout" \in ran /\ LaidOut /\ Copied
  BY <1>1, Ranks DEF Control, R, Data
<1>4. \A u \in Threads : /\ (R(u)' >= 4) <=> (R(u) >= 4)
                         /\ (R(u)' >= 8) <=> (R(u) >= 8)
                         /\ (at'[u] = "done") <=> (at[u] = "done")
                         /\ u # t => R(u)' = R(u)
  BY <1>1, Ranks DEF Goto, R, Control
<1>5. \A u \in Threads : Chunk(u)' = Chunk(u) /\ lo(u)' = lo(u)
  BY <1>1, SameChunks
<1>6. \A S : DataOf(S)' = DataOf(S)
  BY <1>1 DEF DataOf
<1>7. Vectors' /\ Ranges'
  BY <1>1, <1>2, <1>4, <1>5, <1>6 DEF Vectors, Ranges
<1>8. Bounds'
  <2>1. Bound' = Bound
    BY <1>1, <1>6 DEF Bound
  <2> QED
    BY <1>1, <1>2, <1>4, <2>1 DEF Bounds
<1>9. Rest'
  <2>1. \A u \in Threads : \A r \in Chunk(u) : Row(u, r)' = Row(u, r)
    BY <1>1, <1>5 DEF Row, Bytes
  <2> QED
    BY <1>1, <1>2, <1>4, <1>5, <2>1 DEF Rest
<1>10. LaidOut'
  <2>1. Starts(cmp_size_t)' = Starts(cmp_size_t)
    BY <1>1 DEF Starts
  <2> QED
    BY <1>1, <1>3, <2>1 DEF LaidOut
<1>11. Copied'
  <2> SUFFICES ASSUME NEW u \in Threads, R(u)' >= 12, NEW k \in 0 .. (cmp_size_t[u] - 1)
               PROVE  buffer'[cmp_start_t[u] + k] = <<u, k>>
    BY <1>1 DEF Copied
  <2>1. /\ cmp_start_t[u] \in Nat /\ cmp_size_t[u] \in Nat /\ k \in Nat
        /\ cmp_start_t[u] + k \in DOMAIN buffer
    BY <1>2, <1>3, BytesIn
  <2>2. CASE u = t
    <3>1. /\ cmp_start_t[t] + k \in cmp_start_t[t] .. (cmp_start_t[t] + cmp_size_t[t] - 1)
          /\ cmp_start_t[t] + k - cmp_start_t[t] = k
      BY <2>1, <2>2
    <3> QED
      BY <1>1, <2>1, <2>2, <3>1
  <2>3. CASE u # t
    <3>1. cmp_start_t[u] + k \notin cmp_start_t[t] .. (cmp_start_t[t] + cmp_size_t[t] - 1)
      BY <1>2, <1>3, <2>3, BytesApart
    <3>2. buffer[cmp_start_t[u] + k] = <<u, k>>
      BY <1>3, <1>4, <2>3 DEF Copied
    <3> QED
      BY <1>1, <2>1, <3>1, <3>2
  <2> QED
    BY <2>2, <2>3
<1> QED
  BY <1>1, <1>2, <1>3, <1>7, <1>8, <1>9, <1>10, <1>11 DEF Data

LEMMA DataDecompressChunk ==
  ASSUME Data, Control, NEW t \in Threads, DecompressChunk(t)
  PROVE  Data'
<1> DEFINE got(r) == [row |-> r - lo(t), bound |-> conf_t[t],
                      bytes |-> [k \in 0 .. (cmp_size_t[t] - 1) |->
                                   buffer[Starts(cmp_size_t)[t] + k]]]
<1>1. /\ at[t] = "decompress" /\ Goto(t, "done")
      /\ out' = [r \in AllRows |-> IF r \in Chunk(t) THEN Append(out[r], got(r)) ELSE out[r]]
      /\ UNCHANGED <<ran, data, mode, absErrorBound, nThreads, min_t, max_t, conf_t, cmp_size_t,
                     cmp_start_t, buffer>>
  BY DEF DecompressChunk, Chunk
<1>2. "init" \in ran /\ nThreads = Team /\ Vectors /\ Ranges /\ Bounds /\ Rest
  BY <1>1, TeamSet, Ranks DEF R
<1>3. "layout" \in ran /\ LaidOut /\ Copied
  BY <1>1, Ranks DEF Control, R, Data
<1>4. \A u \in Threads : /\ (R(u)' >= 4) <=> (R(u) >= 4)
                         /\ (R(u)' >= 8) <=> (R(u) >= 8)
                         /\ (R(u)' >= 12) <=> (R(u) >= 12)
                         /\ u # t => at'[u] = at[u]
  BY <1>1, Ranks DEF Goto, R, Control
<1>5. \A u \in Threads : Chunk(u)' = Chunk(u) /\ lo(u)' = lo(u)
  BY <1>1, SameChunks
<1>6. \A S : DataOf(S)' = DataOf(S)
  BY <1>1 DEF DataOf
<1>7. Vectors' /\ Ranges'
  BY <1>1, <1>2, <1>4, <1>5, <1>6 DEF Vectors, Ranges
<1>8. Bounds'
  <2>1. Bound' = Bound
    BY <1>1, <1>6 DEF Bound
  <2> QED
    BY <1>1, <1>2, <1>4, <2>1 DEF Bounds
<1>9. LaidOut' /\ Copied'
  <2>1. Starts(cmp_size_t)' = Starts(cmp_size_t)
    BY <1>1 DEF Starts
  <2> QED
    BY <1>1, <1>3, <1>4, <2>1 DEF LaidOut, Copied
<1>10. \A r : got(r) = Row(t, r)
  <2>1. \A k \in 0 .. (cmp_size_t[t] - 1) : buffer[Starts(cmp_size_t)[t] + k] = <<t, k>>
    <3>1. R(t) >= 12
      BY <1>1, Ranks DEF R
    <3>2. cmp_start_t = Starts(cmp_size_t)
      BY <1>3 DEF LaidOut
    <3> QED
      BY <1>3, <3>1, <3>2, Zenon DEF Copied
  <2>2. [k \in 0 .. (cmp_size_t[t] - 1) |-> buffer[Starts(cmp_size_t)[t] + k]] = Bytes(t)
    BY <2>1 DEF Bytes
  <2> QED
    BY <2>2 DEF Row
<1> HIDE DEF got
<1>11. Rest'
  <2>1. \A u \in Threads : \A r \in Chunk(u) : r \in AllRows /\ Row(u, r)' = Row(u, r)
    <3> SUFFICES ASSUME NEW u \in Threads, NEW r \in Chunk(u)
                 PROVE  r \in AllRows /\ Row(u, r)' = Row(u, r)
      OBVIOUS
    <3>1. lo(u) \in Nat /\ hi(u) \in Nat /\ hi(u) <= Rows
      BY <1>2, OneChunk
    <3>2. r \in AllRows
      BY <3>1, OmpAssumption DEF Chunk, AllRows
    <3> QED
      BY <1>1, <1>5, <3>2 DEF Row, Bytes
  <2>2. \A u \in Threads : \A r \in Chunk(u) : u # t => r \notin Chunk(t)
    <3> SUFFICES ASSUME NEW u \in Threads, NEW r \in Chunk(u), u # t, r \in Chunk(t)
                 PROVE  FALSE
      OBVIOUS
    <3>1. /\ lo(u) \in Nat /\ hi(u) \in Nat /\ lo(t) \in Nat /\ hi(t) \in Nat
          /\ u \in Int /\ t \in Int
      BY <1>2, OneChunk, OmpAssumption DEF Threads
    <3>2. r \in Int /\ lo(u) <= r /\ r < hi(u) /\ lo(t) <= r /\ r < hi(t)
      BY <3>1 DEF Chunk
    <3>3. CASE u < t
      BY <1>2, <3>1, <3>2, <3>3, Apart
    <3>4. CASE t < u
      BY <1>2, <3>1, <3>2, <3>4, Apart
    <3> QED
      BY <3>1, <3>3, <3>4
  <2>3. at'[t] = "done" /\ at[t] # "done"
    BY <1>1 DEF Goto, Control
  <2>4. \A r \in Chunk(t) : out'[r] = <<Row(t, r)>>
    <3> SUFFICES ASSUME NEW r \in Chunk(t) PROVE out'[r] = <<Row(t, r)>>
      OBVIOUS
    <3>1. out[r] = <<>>
      BY <1>2, <2>3 DEF Rest
    <3>2. out'[r] = Append(out[r], Row(t, r))
      BY <1>1, <1>10, <2>1
    <3> QED
      BY <3>1, <3>2
  <2>5. \A u \in Threads : \A r \in Chunk(u) : u # t => out'[r] = out[r]
    BY <1>1, <2>1, <2>2
  <2> SUFFICES ASSUME NEW u \in Threads, NEW r \in Chunk(u)
               PROVE  out'[r] = IF at'[u] = "done" THEN <<Row(u, r)>> ELSE <<>>
    BY <1>1, <1>5, <2>1 DEF Rest
  <2>6. CASE u = t
    BY <2>3, <2>4, <2>6
  <2>7. CASE u # t
    BY <1>2, <1>4, <2>5, <2>7 DEF Rest
  <2> QED
    BY <2>6, <2>7
<1> QED
  BY <1>1, <1>2, <1>3, <1>7, <1>8, <1>9, <1>11 DEF Data

LEMMA DataPass ==
  ASSUME Data, Control, NEW t \in Threads,
         \/ Pass(t, "init_end", "chunk") \/ Pass(t, "barrier", "bound")
         \/ Pass(t, "bound_end", "compress") \/ Pass(t, "packed", "layout")
         \/ Pass(t, "layout_end", "copy") \/ Pass(t, "joined", "decompress")
         \/ Skip(t, "init", "init_end") \/ Skip(t, "bound", "bound_end")
         \/ Skip(t, "layout", "layout_end")
  PROVE  Data'
<1>1. /\ UNCHANGED shared /\ UNCHANGED ran
      /\ \E p, q \in PlaceSet :
           /\ <<p, q>> \in {<<"init_end", "chunk">>, <<"barrier", "bound">>,
                            <<"bound_end", "compress">>, <<"packed", "layout">>,
                            <<"layout_end", "copy">>, <<"joined", "decompress">>,
                            <<"init", "init_end">>, <<"bound", "bound_end">>,
                            <<"layout", "layout_end">>}
           /\ at[t] = p /\ Goto(t, q)
  BY PlacesListed DEF Pass, Skip
<1>2. PICK p, q \in PlaceSet :
        /\ <<p, q>> \in {<<"init_end", "chunk">>, <<"barrier", "bound">>,
                         <<"bound_end", "compress">>, <<"packed", "layout">>,
                         <<"layout_end", "copy">>, <<"joined", "decompress">>,
                         <<"init", "init_end">>, <<"bound", "bound_end">>,
                         <<"layout", "layout_end">>}
        /\ at[t] = p /\ Goto(t, q)
  BY <1>1
<1>3. CASE <<p, q>> = <<"bound_end", "compress">>
  BY <1>1, <1>2, <1>3, DataMoves, Ranks DEF R
<1> QED
  BY <1>1, <1>2, <1>3, DataMoves, Ranks DEF R

LEMMA DataNext == Data /\ Control /\ [Next]_vars => Data'
<1> SUFFICES ASSUME Data, Control, [Next]_vars PROVE Data'
  OBVIOUS
<1>1. CASE UNCHANGED vars
  <2>1. \A u \in Threads : /\ lo(u)' = lo(u) /\ Chunk(u)' = Chunk(u) /\ R(u)' = R(u)
                           /\ \A r : Row(u, r)' = Row(u, r)
    BY <1>1 DEF vars, shared, lo, hi, Chunk, R, Row, Bytes
  <2>2. /\ \A S : DataOf(S)' = DataOf(S)
        /\ Bound' = Bound /\ Starts(cmp_size_t)' = Starts(cmp_size_t)
    BY <1>1 DEF vars, shared, DataOf, Bound, Starts
  <2>3. (Vectors => Vectors') /\ (Ranges => Ranges') /\ (Bounds => Bounds')
    BY <1>1, <2>1, <2>2 DEF vars, shared, Vectors, Ranges, Bounds
  <2>4. (Rest => Rest') /\ (LaidOut => LaidOut') /\ (Copied => Copied')
    BY <1>1, <2>1, <2>2 DEF vars, shared, Rest, LaidOut, Copied
  <2> QED
    BY <1>1, <2>3, <2>4 DEF Data, vars, shared
<1>2. CASE \E t \in Threads : Thread(t)
  <2> PICK t \in Threads : Thread(t)
    BY <1>2
  <2> QED
    BY DataPass, DataInitTeam, DataTakeChunk, DataSetBound, DataCompressChunk, DataLayOut,
       DataCopyChunk, DataDecompressChunk DEF Thread, Compress, Decompress
<1> QED
  BY <1>1, <1>2 DEF Next, Done

-----------------------------------------------------------------------------
\* The places and the single constructs, and with them the data, are as stated at
\* every step of every interleaving.
THEOREM Inductive == Spec => [](Control /\ Data)
<1>1. Init => Control /\ Data
  BY ControlInit, DataInit
<1>2. (Control /\ Data) /\ [Next]_vars => (Control /\ Data)'
  BY ControlNext, DataNext
<1> QED
  BY <1>1, <1>2, PTL DEF Spec

\* The vectors have an element for every thread before one sets its own, and every
\* chunk has rows, all in the array: the threads of compress and decompress index
\* nothing that is not there.
THEOREM TypeCorrect == Spec => []TypeOK
<1>1. Control /\ Data => TypeOK
  <2> SUFFICES ASSUME Control, Data PROVE TypeOK
    OBVIOUS
  <2>1. \A t \in Threads : at[t] \in PlaceSet
    BY DEF Control
  <2>2. ASSUME NEW t \in Threads, Past(t, "init_end")
        PROVE  /\ {DOMAIN min_t, DOMAIN max_t, DOMAIN conf_t, DOMAIN cmp_size_t} = {Threads}
               /\ lo(t) \in AllRows /\ hi(t) \in (lo(t) + 1) .. Rows
    <3>1. R(t) >= 2
      <4>1. R(t) \in Nat
        BY <2>1, Ranks, PlacesListed DEF R
      <4> QED
        BY <2>2, <4>1, Ranks DEF Past, R
    <3>2. nThreads = Team /\ Vectors
      BY <3>1, TeamSet
    <3>3. {DOMAIN min_t, DOMAIN max_t, DOMAIN conf_t, DOMAIN cmp_size_t} = {Threads}
      BY <3>2 DEF Vectors
    <3>4. lo(t) \in Nat /\ hi(t) \in Nat /\ lo(t) < hi(t) /\ hi(t) <= Rows
      BY <3>2, OneChunk
    <3> QED
      BY <3>3, <3>4, OmpAssumption DEF AllRows
  <2> QED
    BY <2>1, <2>2 DEF TypeOK, PlaceSet, Control
<1> QED
  BY <1>1, Inductive, PTL

\* Every chunk is compressed with the bound the whole array gives, in every
\* interleaving of SZ_compress_OMP.
THEOREM BoundIsOne == Spec => []OneBound
<1>1. Control /\ Data => OneBound
  <2> SUFFICES ASSUME Control, Data, NEW t \in Threads, Past(t, "compress")
               PROVE  conf_t[t] = Bound
    BY DEF OneBound, Bound, DataOf
  <2>1. R(t) >= 8 /\ R(t) >= 2
    <3>1. at[t] \in PlaceSet
      BY DEF Control
    <3> QED
      BY <3>1, Ranks, PlacesListed DEF R, Past
  <2> QED
    BY <2>1, TeamSet DEF Bounds
<1> QED
  BY <1>1, Inductive, PTL

\* A chunk that is packed stays as it was compressed: the copies of the threads,
\* each at the sum of the sizes before it, do not overlap.
THEOREM Packed == Spec => []ChunksIntact
<1>1. Control /\ Data => ChunksIntact
  <2> SUFFICES ASSUME Control, Data, NEW t \in Threads, Past(t, "copy"),
                      NEW k \in 0 .. (cmp_size_t[t] - 1)
               PROVE  /\ cmp_start_t[t] + k \in DOMAIN buffer
                      /\ buffer[cmp_start_t[t] + k] = <<t, k>>
    BY DEF ChunksIntact
  <2>1. R(t) >= 12 /\ R(t) >= 10 /\ R(t) >= 2
    <3>1. at[t] \in PlaceSet
      BY DEF Control
    <3> QED
      BY <3>1, Ranks, PlacesListed DEF R, Past
  <2>2. "init" \in ran /\ "layout" \in ran /\ Copied
    BY <2>1 DEF Control, Data
  <2> QED
    BY <2>1, <2>2, BytesIn DEF Copied
<1> QED
  BY <1>1, Inductive, PTL

\* SZ_decompress_OMP gives every row once, from the chunk that was compressed with
\* it, for any team, number of rows and sizes of the chunks.
THEOREM Restored == Spec => []RowsRestored
<1>1. Control /\ Data => RowsRestored
  <2> SUFFICES ASSUME Control, Data, \A t \in Threads : at[t] = "done", NEW r \in AllRows
               PROVE  /\ Len(out[r]) = 1
                      /\ \E t \in Threads :
                           /\ lo(t) + out[r][1].row = r
                           /\ out[r][1].bytes = Bytes(t)
                           /\ out[r][1].bound = conf_t[t]
    BY DEF RowsRestored, Bytes
  <2>1. 0 \in Threads
    BY OmpAssumption DEF Threads
  <2>2. nThreads = Team /\ Rest
    <3>1. R(0) >= 2
      BY <2>1, Ranks DEF R
    <3> QED
      BY <2>1, <3>1, TeamSet
  <2>3. PICK t \in Threads : r \in Chunk(t)
    BY <2>2, Covered DEF Chunk
  <2>4. out[r] = <<Row(t, r)>>
    BY <2>2, <2>3 DEF Rest
  <2>5. Len(out[r]) = 1 /\ out[r][1] = Row(t, r)
    BY <2>4
  <2>6. lo(t) + (r - lo(t)) = r
    BY <2>2, OneChunk DEF AllRows
  <2> QED
    BY <2>5, <2>6 DEF Row
<1> QED
  BY <1>1, Inductive, PTL
=============================================================================
