--------------------------- MODULE FastFrontendProofs ---------------------------
(***************************************************************************)
(* SZFastFrontend's Lorenzo predictions read the neighbours they should,   *)
(* and decompress_3d returns what compress_3d reconstructed, for every     *)
(* shape, block size, choice of predictors and set of what is              *)
(* unpredictable.                                                          *)
(*                                                                         *)
(* Offsets, cells of the buffer, numbers of blocks and places in a block   *)
(* are all Numbers of three digits in two mixed radices.  Coded is the set *)
(* of elements the loops have been at, told from the block and the element *)
(* they are at: it grows by one with an element (CodedNext), is the same   *)
(* at the end of a block and the beginning of the next (CodedBlock), and   *)
(* is everything at the end (CodedLast).                                   *)
(*                                                                         *)
(* The invariant has six parts:                                            *)
(*   LoopInv    the pointers are at the block and the element (InLoops),   *)
(*              and a cell of the buffer in the planes of the layer, or in *)
(*              the two before it, holds its element where that is coded,  *)
(*              and zero where the array has none (Held);                  *)
(*   ChosenInv  every block begun has a predictor;                         *)
(*   SlotsInv   the slots of coefficients have those coded, in order;      *)
(*   ListsInv   the bins, the unpredictable elements and the log have the  *)
(*              elements coded, each at the place told by how many come    *)
(*              before it, predicted from its neighbours or from its       *)
(*              block's coefficients; the lists of coefficients have the   *)
(*              regression blocks, each with the one before;               *)
(*   StreamInv  the stream holds these lists;                              *)
(*   ReplayInv  the decoder's cursors are as far as the elements and the   *)
(*              blocks decoded, and those came out as they went in.        *)
(***************************************************************************)
EXTENDS FastFrontend, NumberLemmas, FiniteSetTheorems

-----------------------------------------------------------------------------
(* Three digits: offsets into the data and the buffer, elements of a block. *)

\* A number is its quotient times the divisor and the remainder.
LEMMA Division ==
  ASSUME NEW n \in Nat, NEW r \in Nat \ {0}
  PROVE  n \div r \in Nat /\ n % r \in 0 .. r - 1 /\ n = (n \div r) * r + (n % r)
<1> PICK q : q = n \div r
  OBVIOUS
<1> PICK z : z = n % r
  OBVIOUS
<1>1. q \in Nat /\ r * q <= n
  BY QuotientOf
<1>2. z \in 0 .. r - 1 /\ z = n - r * q
  BY RemainderOf
<1>3. r * q = q * r /\ q * r \in Nat
  BY <1>1
<1>4. n = q * r + z
  BY <1>1, <1>2, <1>3
<1> QED
  BY <1>1, <1>2, <1>4

\* The number with the digits x, y and z, the last two of base r2 and r3.
Number(r2, r3, x, y, z) == (x * r2 + y) * r3 + z

\* They are digits.
AreDigits(r2, r3, x, y, z) ==
  /\ r2 \in Nat \ {0} /\ r3 \in Nat \ {0}
  /\ x \in Nat /\ y \in 0 .. r2 - 1 /\ z \in 0 .. r3 - 1

\* Digits are found again in the number.
LEMMA NumberIs ==
  ASSUME NEW r2, NEW r3, NEW x, NEW y, NEW z, AreDigits(r2, r3, x, y, z),
         NEW n, n = Number(r2, r3, x, y, z)
  PROVE  /\ n \in Nat
         /\ n \div (r2 * r3) = x /\ (n \div r3) % r2 = y /\ n % r3 = z
<1>0. /\ r2 \in Nat \ {0} /\ r3 \in Nat \ {0}
      /\ x \in Nat /\ y \in 0 .. r2 - 1 /\ z \in 0 .. r3 - 1
  BY DEF AreDigits
<1> PICK q : q = x * r2 + y
  OBVIOUS
<1>1. q \in Nat
  BY <1>0
<1>2. n = q * r3 + z /\ n \in Nat
  BY <1>0, <1>1 DEF Number
<1>3. n \div r3 = q /\ n % r3 = z
  <2>1. (q * r3 + z) \div r3 = q /\ (q * r3 + z) % r3 = z
    BY <1>0, <1>1, QuotientFound
  <2> QED
    BY <1>2, <2>1
<1>4. q \div r2 = x /\ q % r2 = y
  BY <1>0, QuotientFound
<1>5. r2 * r3 \in Nat \ {0} /\ y * r3 + z \in 0 .. r2 * r3 - 1
  <2>1. y * r3 + z \in 0 .. r3 * r2 - 1
    BY <1>0, Digit
  <2>2. r3 * r2 = r2 * r3 /\ r2 * r3 \in Nat
    BY <1>0
  <2> QED
    BY <2>1, <2>2
<1>6. n = x * (r2 * r3) + (y * r3 + z)
  <2>1. (x * r2 + y) * r3 = x * (r2 * r3) + y * r3
    BY <1>0
  <2>2. x * (r2 * r3) \in Nat /\ y * r3 \in Nat
    BY <1>0, <1>5
  <2> QED
    BY <1>0, <2>1, <2>2 DEF Number
<1>7. n \div (r2 * r3) = x
  BY <1>0, <1>5, <1>6, QuotientFound
<1> QED
  BY <1>2, <1>3, <1>4, <1>7

\* Every number has digits.
LEMMA HaveDigits ==
  ASSUME NEW r2 \in Nat \ {0}, NEW r3 \in Nat \ {0}, NEW n \in Nat
  PROVE  \E x, y, z : AreDigits(r2, r3, x, y, z) /\ n = Number(r2, r3, x, y, z)
<1> PICK q : q = n \div r3
  OBVIOUS
<1> PICK z : z = n % r3
  OBVIOUS
<1> PICK x : x = q \div r2
  OBVIOUS
<1> PICK y : y = q % r2
  OBVIOUS
<1>1. q \in Nat /\ z \in 0 .. r3 - 1 /\ n = q * r3 + z
  BY Division
<1>2. x \in Nat /\ y \in 0 .. r2 - 1 /\ q = x * r2 + y
  BY <1>1, Division
<1> QED
  BY <1>1, <1>2 DEF AreDigits, Number

\* A number is below another if no digit is larger and one is smaller.
LEMMA NumberBelow ==
  ASSUME NEW r2, NEW r3, NEW x, NEW y, NEW z, AreDigits(r2, r3, x, y, z),
         NEW u, NEW v, NEW w, AreDigits(r2, r3, u, v, w),
         x <= u, y <= v, z <= w, ~(x = u /\ y = v /\ z = w)
  PROVE  Number(r2, r3, x, y, z) < Number(r2, r3, u, v, w)
<1>0. /\ r2 \in Nat \ {0} /\ r3 \in Nat \ {0}
      /\ x \in Nat /\ y \in Nat /\ z \in Nat /\ u \in Nat /\ v \in Nat /\ w \in Nat
  BY DEF AreDigits
<1> PICK p : p = x * r2 + y
  OBVIOUS
<1> PICK q : q = u * r2 + v
  OBVIOUS
<1>1. x * r2 \in Nat /\ u * r2 \in Nat /\ p \in Nat /\ q \in Nat
  BY <1>0
<1>2. x = u \/ x * r2 + r2 <= u * r2
  BY <1>0, OneStride
<1>3. p <= q /\ (p = q => x = u /\ y = v)
  BY <1>0, <1>1, <1>2
<1>4. p * r3 \in Nat /\ q * r3 \in Nat
  BY <1>0, <1>1
<1>5. p = q \/ p * r3 + r3 <= q * r3
  BY <1>0, <1>1, <1>3, OneStride
<1>6. p * r3 + z < q * r3 + w
  BY <1>0, <1>1, <1>3, <1>4, <1>5
<1> QED
  BY <1>6 DEF Number

\* Where the first digit has a bound, so has the number, and conversely.
LEMMA NumberBounded ==
  ASSUME NEW r2, NEW r3, NEW x, NEW y, NEW z, AreDigits(r2, r3, x, y, z), NEW r1 \in Nat
  PROVE  x < r1 <=> Number(r2, r3, x, y, z) < r1 * r2 * r3
<1>0. /\ r2 \in Nat \ {0} /\ r3 \in Nat \ {0}
      /\ x \in Nat /\ y \in 0 .. r2 - 1 /\ z \in 0 .. r3 - 1
  BY DEF AreDigits
<1> PICK p : p = x * r2 + y
  OBVIOUS
<1> PICK s : s = r1 * r2
  OBVIOUS
<1>1. x * r2 \in Nat /\ p \in Nat /\ s \in Nat /\ p * r3 \in Nat /\ s * r3 \in Nat
  BY <1>0
<1>2. x < r1 => x * r2 + r2 <= r1 * r2
  BY <1>0, OneStride
<1>3. x >= r1 => r1 * r2 <= x * r2
  <2>1. r1 < x => r1 * r2 + r2 <= x * r2
    BY <1>0, OneStride
  <2> QED
    BY <1>0, <1>1, <2>1
<1>4. x < r1 <=> p < s
  BY <1>0, <1>1, <1>2, <1>3
<1>5. p < s => p * r3 + r3 <= s * r3
  BY <1>0, <1>1, OneStride
<1>6. p >= s => s * r3 <= p * r3
  <2>1. s < p => s * r3 + r3 <= p * r3
    BY <1>0, <1>1, OneStride
  <2> QED
    BY <1>0, <1>1, <2>1
<1>7. p < s <=> p * r3 + z < s * r3
  BY <1>0, <1>1, <1>5, <1>6
<1> QED
  BY <1>4, <1>7 DEF Number

\* Three sums.
AreSums(x, y, z, u, v, w, a, b, d) ==
  /\ x \in Int /\ y \in Int /\ z \in Int /\ u \in Int /\ v \in Int /\ w \in Int
  /\ a = x + u /\ b = y + v /\ d = z + w

\* Digits add up one by one.
LEMMA NumberSum ==
  ASSUME NEW r2 \in Nat, NEW r3 \in Nat, NEW x, NEW y, NEW z, NEW u, NEW v, NEW w,
         NEW a, NEW b, NEW d, AreSums(x, y, z, u, v, w, a, b, d)
  PROVE  /\ Number(r2, r3, x, y, z) \in Int /\ Number(r2, r3, u, v, w) \in Int
         /\ Number(r2, r3, a, b, d) \in Int
         /\ Number(r2, r3, a, b, d) = Number(r2, r3, x, y, z) + Number(r2, r3, u, v, w)
<1>0. /\ x \in Int /\ y \in Int /\ z \in Int /\ u \in Int /\ v \in Int /\ w \in Int
      /\ a = x + u /\ b = y + v /\ d = z + w
  BY DEF AreSums
<1>1. (x + u) * r2 = x * r2 + u * r2 /\ x * r2 \in Int /\ u * r2 \in Int
  BY <1>0
<1> PICK p \in Int : p = x * r2 + y
  BY <1>0, <1>1
<1> PICK q \in Int : q = u * r2 + v
  BY <1>0, <1>1
<1>2. a * r2 + b = p + q
  BY <1>0, <1>1
<1>3. (p + q) * r3 = p * r3 + q * r3 /\ p * r3 \in Int /\ q * r3 \in Int
  OBVIOUS
<1> QED
  BY <1>0, <1>2, <1>3 DEF Number

\* And so do they in Along.
LEMMA AlongIs ==
  ASSUME NEW r2 \in Nat, NEW r3 \in Nat, NEW p, p[1] \in Int, p[2] \in Int, p[3] \in Int
  PROVE  Along(p, <<r2 * r3, r3, 1>>) = Number(r2, r3, p[1], p[2], p[3])
<1> PICK x \in Int : x = p[1]
  OBVIOUS
<1> PICK y \in Int : y = p[2]
  OBVIOUS
<1>1. (x * r2 + y) * r3 = x * (r2 * r3) + y * r3
  OBVIOUS
<1>2. x * (r2 * r3) \in Int /\ y * r3 \in Int
  OBVIOUS
<1> QED
  BY <1>1, <1>2 DEF Along, Number

-----------------------------------------------------------------------------
(* The array, its blocks and the elements in them.                         *)

\* What a configuration has.
LEMMA ConfigIs ==
  ASSUME NEW c \in Configs
  PROVE  /\ c.dims[1] \in Nat \ {0} /\ c.dims[2] \in Nat \ {0} /\ c.dims[3] \in Nat \ {0}
         /\ c.block_size \in Nat \ {0, 1}
BY FastFrontendAssumption DEF IsConfig

\* The offset of the element at x, y and z, and the buffer's cell in plane i, row j
\* and column k.
Element(c, x, y, z) == Number(c.dims[2], c.dims[3], x, y, z)
Cell(c, i, j, k)    == Number(c.dims[2] + Padding, c.dims[3] + Padding, i, j, k)

\* x, y and z are in the array.
InArray(c, x, y, z) ==
  x \in 0 .. c.dims[1] - 1 /\ y \in 0 .. c.dims[2] - 1 /\ z \in 0 .. c.dims[3] - 1

\* i, j and k are in the buffer.
InBuffer(c, i, j, k) ==
  /\ i \in 0 .. c.block_size + 1 /\ j \in 0 .. c.dims[2] + 1 /\ k \in 0 .. c.dims[3] + 1

\* An element's offset is in the data and has its coordinates.
LEMMA ElementIs ==
  ASSUME NEW c \in Configs, NEW x, NEW y, NEW z, InArray(c, x, y, z)
  PROVE  /\ AreDigits(c.dims[2], c.dims[3], x, y, z)
         /\ Element(c, x, y, z) \in 0 .. Size(c) - 1
         /\ Coordinates(c, Element(c, x, y, z))[1] = x
         /\ Coordinates(c, Element(c, x, y, z))[2] = y
         /\ Coordinates(c, Element(c, x, y, z))[3] = z
<1> PICK n : n = Element(c, x, y, z)
  OBVIOUS
<1>0. c.dims[1] \in Nat \ {0} /\ c.dims[2] \in Nat \ {0} /\ c.dims[3] \in Nat \ {0}
  BY ConfigIs
<1>1. AreDigits(c.dims[2], c.dims[3], x, y, z)
  BY <1>0 DEF AreDigits, InArray
<1>2. /\ n \in Nat
      /\ n \div (c.dims[2] * c.dims[3]) = x /\ (n \div c.dims[3]) % c.dims[2] = y
      /\ n % c.dims[3] = z
  BY <1>1, NumberIs DEF Element
<1>3. x < c.dims[1] /\ x \in Nat /\ x % c.dims[1] = x
  BY <1>0 DEF InArray
<1>4. n < c.dims[1] * c.dims[2] * c.dims[3]
  BY <1>0, <1>1, <1>3, NumberBounded DEF Element
<1>5. c.dims[1] * c.dims[2] * c.dims[3] \in Nat
  <2>1. c.dims[1] * c.dims[2] \in Nat
    BY <1>0
  <2> QED
    BY <1>0, <2>1
<1>6. n \in 0 .. Size(c) - 1
  BY <1>2, <1>4, <1>5 DEF Size
<1>7. n \div 1 = n
  BY <1>2
<1>8. /\ Coordinates(c, n)[1] = (n \div (c.dims[2] * c.dims[3])) % c.dims[1]
      /\ Coordinates(c, n)[2] = (n \div c.dims[3]) % c.dims[2]
      /\ Coordinates(c, n)[3] = (n \div 1) % c.dims[3]
  BY DEF Coordinates, Offsets
<1> QED
  BY <1>1, <1>2, <1>3, <1>6, <1>7, <1>8

\* Every offset in the data is that of the element at its coordinates.
LEMMA OffsetIs ==
  ASSUME NEW c \in Configs, NEW n \in 0 .. Size(c) - 1
  PROVE  /\ InArray(c, Coordinates(c, n)[1], Coordinates(c, n)[2], Coordinates(c, n)[3])
         /\ n = Element(c, Coordinates(c, n)[1], Coordinates(c, n)[2], Coordinates(c, n)[3])
<1>0. c.dims[1] \in Nat \ {0} /\ c.dims[2] \in Nat \ {0} /\ c.dims[3] \in Nat \ {0}
  BY ConfigIs
<1>1. n \in Nat
  OBVIOUS
<1>2. PICK x, y, z : AreDigits(c.dims[2], c.dims[3], x, y, z) /\ n = Element(c, x, y, z)
  BY <1>0, <1>1, HaveDigits DEF Element
<1>3. c.dims[1] * c.dims[2] * c.dims[3] \in Nat
  <2>1. c.dims[1] * c.dims[2] \in Nat
    BY <1>0
  <2> QED
    BY <1>0, <2>1
<1>4. n < c.dims[1] * c.dims[2] * c.dims[3]
  BY <1>3 DEF Size
<1>5. x < c.dims[1]
  <2>1. Number(c.dims[2], c.dims[3], x, y, z) < c.dims[1] * c.dims[2] * c.dims[3]
    BY <1>2, <1>4 DEF Element
  <2> QED
    BY <1>0, <1>2, <2>1, NumberBounded
<1>6. InArray(c, x, y, z)
  BY <1>0, <1>2, <1>5 DEF InArray, AreDigits
<1>7. Coordinates(c, n)[1] = x /\ Coordinates(c, n)[2] = y /\ Coordinates(c, n)[3] = z
  <2>1. /\ Coordinates(c, Element(c, x, y, z))[1] = x
        /\ Coordinates(c, Element(c, x, y, z))[2] = y
        /\ Coordinates(c, Element(c, x, y, z))[3] = z
    BY <1>6, ElementIs
  <2> QED
    BY <1>2, <2>1, Zenon
<1> HIDE DEF Coordinates
<1> QED
  BY <1>2, <1>6, <1>7, Zenon

\* A cell is in the buffer, and no other one.
LEMMA CellIs ==
  ASSUME NEW c \in Configs, NEW i, NEW j, NEW k, InBuffer(c, i, j, k)
  PROVE  /\ Cell(c, i, j, k) \in 0 .. BufferSize(c) - 1
         /\ \A u, v, w : InBuffer(c, u, v, w) /\ Cell(c, u, v, w) = Cell(c, i, j, k)
                           => u = i /\ v = j /\ w = k
<1>0. c.dims[2] \in Nat \ {0} /\ c.dims[3] \in Nat \ {0} /\ c.block_size \in Nat \ {0}
  BY ConfigIs
<1> PICK r2 \in Nat \ {0} : r2 = c.dims[2] + Padding
  BY <1>0 DEF Padding
<1> PICK r3 \in Nat \ {0} : r3 = c.dims[3] + Padding
  BY <1>0 DEF Padding
<1> PICK r1 \in Nat : r1 = c.block_size + Padding
  BY <1>0 DEF Padding
<1>1. \A u, v, w : InBuffer(c, u, v, w) =>
        u \in Nat /\ u < r1 /\ AreDigits(r2, r3, u, v, w) /\ Cell(c, u, v, w) = Number(r2, r3, u, v, w)
  BY <1>0 DEF InBuffer, AreDigits, Cell, Padding
<1> PICK n : n = Cell(c, i, j, k)
  OBVIOUS
<1>2. n \in Nat /\ n \div (r2 * r3) = i /\ (n \div r3) % r2 = j /\ n % r3 = k
  BY <1>1, NumberIs
<1>3. n < r1 * r2 * r3
  BY <1>1, NumberBounded
<1>4. r1 * r2 * r3 = BufferSize(c) /\ r1 * r2 * r3 \in Nat
  <2>1. BufferSize(c) = r1 * (r2 * r3)
    BY DEF BufferSize, BufferOffsets
  <2>2. r1 * (r2 * r3) = r1 * r2 * r3 /\ r1 * r2 \in Nat
    OBVIOUS
  <2> QED
    BY <2>1, <2>2
<1>5. ASSUME NEW u, NEW v, NEW w, InBuffer(c, u, v, w), Cell(c, u, v, w) = n
      PROVE  u = i /\ v = j /\ w = k
  <2>1. AreDigits(r2, r3, u, v, w) /\ n = Number(r2, r3, u, v, w)
    BY <1>1, <1>5
  <2>2. n \div (r2 * r3) = u /\ (n \div r3) % r2 = v /\ n % r3 = w
    BY <2>1, NumberIs
  <2> QED
    BY <1>2, <2>2
<1> QED
  BY <1>2, <1>3, <1>4, <1>5

-----------------------------------------------------------------------------
(* The loops over blocks and over the elements of one.                     *)

\* The loops are at a block, or behind the last one, with their pointers there.
InLoops(c, b) ==
  /\ b \in [block : [1 .. 3 -> Int], x : Int, y : Int, z : Int, buf : Int]
  /\ b.block[1] \in 0 .. Num(c)[1] /\ b.block[2] \in 0 .. Num(c)[2] - 1
  /\ b.block[3] \in 0 .. Num(c)[3] - 1
  /\ AtEnd(c, b) => b.block[2] = 0 /\ b.block[3] = 0
  /\ b.x = b.block[1] * c.block_size * Offsets(c)[1]
  /\ b.y = b.x + b.block[2] * c.block_size * Offsets(c)[2]
  /\ b.z = b.y + b.block[3] * c.block_size
  /\ b.buf = b.block[2] * c.block_size * BufferOffsets(c)[2] + b.block[3] * c.block_size

\* They are at a block, and at one of its elements.
InBlocks(c, b)      == InLoops(c, b) /\ ~AtEnd(c, b)
AtElement(c, b, e)  == InBlocks(c, b) /\ e \in Nat /\ e < Volume(c, b)

\* Number of blocks along the directions.
LEMMA NumIs ==
  ASSUME NEW c \in Configs
  PROVE  \A d \in 1 .. 3 : /\ Num(c)[d] \in Nat \ {0}
                           /\ Num(c)[d] - 1 = (c.dims[d] - 1) \div c.block_size
<1> SUFFICES ASSUME NEW d \in 1 .. 3
             PROVE  /\ Num(c)[d] \in Nat \ {0}
                    /\ Num(c)[d] - 1 = (c.dims[d] - 1) \div c.block_size
  OBVIOUS
<1>1. c.dims[d] - 1 \in Nat /\ c.block_size \in Nat \ {0}
  BY ConfigIs
<1>2. (c.dims[d] - 1) \div c.block_size \in Nat
  BY <1>1, QuotientOf
<1>3. Num(c)[d] = ((c.dims[d] - 1) \div c.block_size) + 1
  BY DEF Num
<1> QED
  BY <1>2, <1>3

\* A block is at its place, and its size is what is left, at most block_size.
LEMMA SizesAre ==
  ASSUME NEW c \in Configs, NEW b, InBlocks(c, b)
  PROVE  \A d \in 1 .. 3 : /\ b.block[d] \in 0 .. Num(c)[d] - 1
                           /\ Sizes(c, b)[d] = Left(c.dims[d], c.block_size, b.block[d])
                           /\ Sizes(c, b)[d] \in 1 .. c.block_size
                           /\ b.block[d] < Num(c)[d] - 1 => Sizes(c, b)[d] = c.block_size
<1> SUFFICES ASSUME NEW d \in 1 .. 3
             PROVE  /\ b.block[d] \in 0 .. Num(c)[d] - 1
                    /\ Sizes(c, b)[d] = Left(c.dims[d], c.block_size, b.block[d])
                    /\ Sizes(c, b)[d] \in 1 .. c.block_size
                    /\ b.block[d] < Num(c)[d] - 1 => Sizes(c, b)[d] = c.block_size
  OBVIOUS
<1>1. b.block[d] \in 0 .. Num(c)[d] - 1
  BY NumIs DEF InBlocks, InLoops, AtEnd
<1> PICK len : len = c.dims[d]
  OBVIOUS
<1> PICK size : size = c.block_size
  OBVIOUS
<1> PICK k : k = b.block[d]
  OBVIOUS
<1>2. len \in Nat \ {0} /\ size \in Nat \ {0}
  BY ConfigIs
<1> PICK m : m = (len - 1) \div size
  OBVIOUS
<1>3. m \in Nat /\ m = Num(c)[d] - 1 /\ k \in 0 .. m
  BY <1>1, NumIs
<1>4. m * size \in Nat /\ m * size <= len - 1 /\ len <= m * size + size
  <2>1. size * m <= len - 1 /\ len - 1 < size * m + size
    <3>1. len - 1 \in Nat
      BY <1>2
    <3> QED
      BY <1>2, <3>1, QuotientOf, Zenon
  <2>2. size * m = m * size /\ m * size \in Nat
    BY <1>2, <1>3
  <2> QED
    BY <1>2, <2>1, <2>2
<1>5. Sizes(c, b)[d] = IF (k + 1) * size < len THEN size ELSE len - k * size
  BY DEF Sizes
<1>6. (k + 1) * size = k * size + size /\ k * size \in Nat
  BY <1>2, <1>3
<1>7. k < m => k * size + size <= m * size
  BY <1>2, <1>3, OneStride
<1>8. Sizes(c, b)[d] = Left(len, size, k)
  <2>1. CASE k < m
    <3>1. (k + 1) * size < len
      BY <1>2, <1>4, <1>6, <1>7, <2>1
    <3> QED
      BY <1>3, <1>5, <2>1, <3>1 DEF Left
  <2>2. CASE k = m
    <3>1. ~((k + 1) * size < len)
      BY <1>2, <1>4, <1>6, <2>2
    <3> QED
      BY <1>5, <2>2, <3>1 DEF Left
  <2> QED
    BY <1>3, <2>1, <2>2
<1>9. Left(len, size, k) \in 1 .. size /\ (k < m => Left(len, size, k) = size)
  <2>1. Left(len, size, k) \in 1 .. size
    <3>1. k \in Nat /\ k <= (len - 1) \div size
      BY <1>3
    <3> QED
      BY <1>2, <3>1, LeftIs, Zenon
  <2> QED
    BY <1>3, <2>1 DEF Left
<1> QED
  BY <1>1, <1>3, <1>8, <1>9

\* The coordinate of the element e of a block.
Coordinate(c, b, e, d) == b.block[d] * c.block_size + Place(c, b, e)[d]

\* Its place in the block.
LEMMA PlaceIs ==
  ASSUME NEW c \in Configs, NEW b, NEW e, AtElement(c, b, e)
  PROVE  /\ \A d \in 1 .. 3 : Place(c, b, e)[d] \in 0 .. Sizes(c, b)[d] - 1
         /\ AreDigits(Sizes(c, b)[2], Sizes(c, b)[3], Place(c, b, e)[1], Place(c, b, e)[2],
                      Place(c, b, e)[3])
         /\ e = Number(Sizes(c, b)[2], Sizes(c, b)[3], Place(c, b, e)[1], Place(c, b, e)[2],
                       Place(c, b, e)[3])
<1>0. InBlocks(c, b) /\ e \in Nat /\ e < Volume(c, b)
  BY DEF AtElement
<1> PICK s1 : s1 = Sizes(c, b)[1]
  OBVIOUS
<1> PICK s2 : s2 = Sizes(c, b)[2]
  OBVIOUS
<1> PICK s3 : s3 = Sizes(c, b)[3]
  OBVIOUS
<1>1. s1 \in Nat \ {0} /\ s2 \in Nat \ {0} /\ s3 \in Nat \ {0}
  <2>1. c.block_size \in Nat
    BY ConfigIs
  <2> QED
    BY <1>0, <2>1, SizesAre
<1>2. PICK x, y, z : AreDigits(s2, s3, x, y, z) /\ e = Number(s2, s3, x, y, z)
  BY <1>0, <1>1, HaveDigits
<1>3. e < s1 * s2 * s3
  BY <1>0 DEF Volume
<1>4. x < s1
  <2>1. Number(s2, s3, x, y, z) < s1 * s2 * s3
    BY <1>2, <1>3
  <2> QED
    BY <1>1, <1>2, <2>1, NumberBounded
<1>5. Place(c, b, e)[1] = x /\ Place(c, b, e)[2] = y /\ Place(c, b, e)[3] = z
  <2>1. e \div (s2 * s3) = x /\ (e \div s3) % s2 = y /\ e % s3 = z
    BY <1>2, NumberIs
  <2> QED
    BY <2>1 DEF Place
<1>6. x \in 0 .. s1 - 1 /\ y \in 0 .. s2 - 1 /\ z \in 0 .. s3 - 1
  BY <1>1, <1>2, <1>4 DEF AreDigits
<1>7. \A d \in 1 .. 3 : Place(c, b, e)[d] \in 0 .. Sizes(c, b)[d] - 1
  <2>1. \A d \in 1 .. 3 : d = 1 \/ d = 2 \/ d = 3
    OBVIOUS
  <2> QED
    BY <1>5, <1>6, <2>1, Zenon
<1> HIDE DEF Place, Sizes
<1> QED
  BY <1>2, <1>5, <1>7, Zenon

\* Which element of its block x, y and z is.
Nth(c, x, y, z) ==
  Number(Left(c.dims[2], c.block_size, y \div c.block_size),
         Left(c.dims[3], c.block_size, z \div c.block_size),
         x % c.block_size, y % c.block_size, z % c.block_size)

\* The element is in the array, in this block, and is the block's e-th.
LEMMA HereIs ==
  ASSUME NEW c \in Configs, NEW b, NEW e, AtElement(c, b, e),
         NEW x, x = Coordinate(c, b, e, 1), NEW y, y = Coordinate(c, b, e, 2),
         NEW z, z = Coordinate(c, b, e, 3)
  PROVE  /\ InArray(c, x, y, z)
         /\ x \div c.block_size = b.block[1] /\ y \div c.block_size = b.block[2]
         /\ z \div c.block_size = b.block[3]
         /\ x % c.block_size = Place(c, b, e)[1] /\ y % c.block_size = Place(c, b, e)[2]
         /\ z % c.block_size = Place(c, b, e)[3]
         /\ Nth(c, x, y, z) = e
<1>0. InBlocks(c, b)
  BY DEF AtElement
<1>1. c.block_size \in Nat \ {0} /\ \A d \in 1 .. 3 : c.dims[d] \in Nat \ {0}
  BY ConfigIs
<1>2. ASSUME NEW d \in 1 .. 3
      PROVE  /\ Coordinate(c, b, e, d) \in 0 .. c.dims[d] - 1
             /\ Coordinate(c, b, e, d) \div c.block_size = b.block[d]
             /\ Coordinate(c, b, e, d) % c.block_size = Place(c, b, e)[d]
  <2> PICK k : k = b.block[d]
    OBVIOUS
  <2> PICK l : l = Place(c, b, e)[d]
    OBVIOUS
  <2>1. k \in Nat /\ k <= (c.dims[d] - 1) \div c.block_size
    BY <1>0, SizesAre, NumIs
  <2>2. l \in Nat /\ l < Left(c.dims[d], c.block_size, k)
    <3>1. l \in 0 .. Sizes(c, b)[d] - 1
      BY PlaceIs
    <3>2. Sizes(c, b)[d] = Left(c.dims[d], c.block_size, k) /\ Sizes(c, b)[d] \in Nat
      BY <1>0, <1>1, SizesAre
    <3> QED
      BY <3>1, <3>2
  <2>3. InBlock(c.dims[d], c.block_size, k, l)
    BY <1>1, <2>1, <2>2 DEF InBlock
  <2>4. /\ k * c.block_size + l \in Nat /\ k * c.block_size + l < c.dims[d]
        /\ (k * c.block_size + l) \div c.block_size = k /\ (k * c.block_size + l) % c.block_size = l
    BY <2>3, JoinIndex
  <2> QED
    BY <1>1, <2>4 DEF Coordinate
<1>3. InArray(c, x, y, z)
  BY <1>2 DEF InArray
<1>4. /\ x \div c.block_size = b.block[1] /\ y \div c.block_size = b.block[2]
      /\ z \div c.block_size = b.block[3]
      /\ x % c.block_size = Place(c, b, e)[1] /\ y % c.block_size = Place(c, b, e)[2]
      /\ z % c.block_size = Place(c, b, e)[3]
  BY <1>2
<1>5. /\ Sizes(c, b)[2] = Left(c.dims[2], c.block_size, b.block[2])
      /\ Sizes(c, b)[3] = Left(c.dims[3], c.block_size, b.block[3])
  BY <1>0, SizesAre
<1>6. Nth(c, x, y, z) = e
  BY <1>4, <1>5, PlaceIs DEF Nth
<1> QED
  BY <1>3, <1>4, <1>6

-----------------------------------------------------------------------------
(* The order the loops take the elements in.                               *)

\* The first three are before the last three.
Ahead(k1, k2, k3, b1, b2, b3) ==
  k1 < b1 \/ (k1 = b1 /\ k2 < b2) \/ (k1 = b1 /\ k2 = b2 /\ k3 < b3)

\* The loops have been at x, y and z when they are at the element e of block b.
IsCoded(c, b, e, x, y, z) ==
  LET k1 == x \div c.block_size
      k2 == y \div c.block_size
      k3 == z \div c.block_size
  IN  \/ Ahead(k1, k2, k3, b.block[1], b.block[2], b.block[3])
      \/ /\ k1 = b.block[1] /\ k2 = b.block[2] /\ k3 = b.block[3]
         /\ Nth(c, x, y, z) < e

\* The offsets of the elements they have been at.
Coded(c, b, e) ==
  {n \in 0 .. Size(c) - 1 :
     IsCoded(c, b, e, Coordinates(c, n)[1], Coordinates(c, n)[2], Coordinates(c, n)[3])}

\* The same by coordinates.
LEMMA CodedIs ==
  ASSUME NEW c \in Configs, NEW b, NEW e, NEW x, NEW y, NEW z, InArray(c, x, y, z)
  PROVE  Element(c, x, y, z) \in Coded(c, b, e) <=> IsCoded(c, b, e, x, y, z)
<1> PICK n : n = Element(c, x, y, z)
  OBVIOUS
<1>1. /\ n \in 0 .. Size(c) - 1
      /\ Coordinates(c, n)[1] = x /\ Coordinates(c, n)[2] = y /\ Coordinates(c, n)[3] = z
  BY ElementIs
<1> HIDE DEF Coordinates
<1> QED
  BY <1>1 DEF Coded

\* Where an element is among the blocks and in its own.
LEMMA BlockIs ==
  ASSUME NEW c \in Configs, NEW x, NEW y, NEW z, InArray(c, x, y, z)
  PROVE  /\ x \div c.block_size \in 0 .. Num(c)[1] - 1
         /\ y \div c.block_size \in 0 .. Num(c)[2] - 1
         /\ z \div c.block_size \in 0 .. Num(c)[3] - 1
         /\ x = (x \div c.block_size) * c.block_size + (x % c.block_size)
         /\ y = (y \div c.block_size) * c.block_size + (y % c.block_size)
         /\ z = (z \div c.block_size) * c.block_size + (z % c.block_size)
         /\ x % c.block_size \in 0 .. Left(c.dims[1], c.block_size, x \div c.block_size) - 1
         /\ AreDigits(Left(c.dims[2], c.block_size, y \div c.block_size),
                      Left(c.dims[3], c.block_size, z \div c.block_size),
                      x % c.block_size, y % c.block_size, z % c.block_size)
         /\ Nth(c, x, y, z) \in Nat
<1>1. c.block_size \in Nat \ {0} /\ \A d \in 1 .. 3 : c.dims[d] \in Nat \ {0}
  BY ConfigIs
<1>2. ASSUME NEW d \in 1 .. 3, NEW i \in 0 .. c.dims[d] - 1
      PROVE  /\ i \div c.block_size \in 0 .. Num(c)[d] - 1
             /\ i = (i \div c.block_size) * c.block_size + (i % c.block_size)
             /\ Left(c.dims[d], c.block_size, i \div c.block_size) \in Nat \ {0}
             /\ i % c.block_size \in 0 .. Left(c.dims[d], c.block_size, i \div c.block_size) - 1
  <2> PICK k : k = i \div c.block_size
    OBVIOUS
  <2> PICK l : l = i % c.block_size
    OBVIOUS
  <2>1. i \in Nat /\ i < c.dims[d]
    BY <1>1
  <2>2. /\ k \in Nat /\ k <= (c.dims[d] - 1) \div c.block_size
        /\ l \in Nat /\ l < Left(c.dims[d], c.block_size, k)
        /\ i = k * c.block_size + l
    BY <1>1, <2>1, CutIndex
  <2>3. Left(c.dims[d], c.block_size, k) \in 1 .. c.block_size
    BY <1>1, <2>2, LeftIs
  <2>4. k \in 0 .. Num(c)[d] - 1
    BY <2>2, NumIs
  <2>5. /\ Left(c.dims[d], c.block_size, k) \in Nat \ {0}
        /\ l \in 0 .. Left(c.dims[d], c.block_size, k) - 1
    <3> PICK m : m = Left(c.dims[d], c.block_size, k)
      OBVIOUS
    <3>1. m \in 1 .. c.block_size /\ l \in Nat /\ l < m
      BY <2>2, <2>3
    <3>2. m \in Nat \ {0} /\ l \in 0 .. m - 1
      BY <1>1, <3>1
    <3> QED
      BY <3>2
  <2> QED
    BY <2>2, <2>4, <2>5, Zenon
<1>3. x \in 0 .. c.dims[1] - 1 /\ y \in 0 .. c.dims[2] - 1 /\ z \in 0 .. c.dims[3] - 1
  BY DEF InArray
<1>4. 1 \in 1 .. 3 /\ 2 \in 1 .. 3 /\ 3 \in 1 .. 3
  OBVIOUS
<1>5. /\ x \div c.block_size \in 0 .. Num(c)[1] - 1
      /\ x = (x \div c.block_size) * c.block_size + (x % c.block_size)
      /\ x % c.block_size \in 0 .. Left(c.dims[1], c.block_size, x \div c.block_size) - 1
      /\ x % c.block_size \in Nat
  <2>1. \A r, m : r \in 0 .. m - 1 => r \in Nat
    OBVIOUS
  <2>2. x % c.block_size \in 0 .. Left(c.dims[1], c.block_size, x \div c.block_size) - 1
    BY <1>2, <1>3, <1>4, Zenon
  <2> QED
    BY <1>2, <1>3, <1>4, <2>1, <2>2, Zenon
<1>6. /\ y \div c.block_size \in 0 .. Num(c)[2] - 1
      /\ y = (y \div c.block_size) * c.block_size + (y % c.block_size)
      /\ Left(c.dims[2], c.block_size, y \div c.block_size) \in Nat \ {0}
      /\ y % c.block_size \in 0 .. Left(c.dims[2], c.block_size, y \div c.block_size) - 1
  BY <1>2, <1>3, <1>4, Zenon
<1>7. /\ z \div c.block_size \in 0 .. Num(c)[3] - 1
      /\ z = (z \div c.block_size) * c.block_size + (z % c.block_size)
      /\ Left(c.dims[3], c.block_size, z \div c.block_size) \in Nat \ {0}
      /\ z % c.block_size \in 0 .. Left(c.dims[3], c.block_size, z \div c.block_size) - 1
  BY <1>2, <1>3, <1>4, Zenon
<1>8. AreDigits(Left(c.dims[2], c.block_size, y \div c.block_size),
                Left(c.dims[3], c.block_size, z \div c.block_size),
                x % c.block_size, y % c.block_size, z % c.block_size)
  BY <1>5, <1>6, <1>7, Zenon DEF AreDigits
<1>9. Nth(c, x, y, z) \in Nat
  <2>1. \A r2, r3, u, v, w : AreDigits(r2, r3, u, v, w) => Number(r2, r3, u, v, w) \in Nat
    BY NumberIs
  <2> QED
    BY <1>8, <2>1, Zenon DEF Nth
<1> QED
  BY <1>5, <1>6, <1>7, <1>8, <1>9, Zenon

\* The pointers are at the element, in the data and in the buffer.
LEMMA PointersAre ==
  ASSUME NEW c \in Configs, NEW b, NEW e, AtElement(c, b, e),
         NEW x, x = Coordinate(c, b, e, 1), NEW y, y = Coordinate(c, b, e, 2),
         NEW z, z = Coordinate(c, b, e, 3), NEW i, i = Place(c, b, e)[1] + Padding
  PROVE  /\ DataAt(c, b, e) = Element(c, x, y, z)
         /\ BufferAt(c, b, e) = Cell(c, i, y + Padding, z + Padding)
         /\ InBuffer(c, i, y + Padding, z + Padding)
<1>0. InBlocks(c, b)
  BY DEF AtElement
<1>1. /\ c.block_size \in Nat \ {0}
      /\ c.dims[1] \in Nat \ {0} /\ c.dims[2] \in Nat \ {0} /\ c.dims[3] \in Nat \ {0}
  BY ConfigIs
<1> PICK p : p = Place(c, b, e)
  OBVIOUS
<1> PICK s : s = c.block_size
  OBVIOUS
<1>2. p[1] \in 0 .. s - 1 /\ p[2] \in Nat /\ p[3] \in Nat
  <2>1. \A d \in 1 .. 3 : p[d] \in 0 .. Sizes(c, b)[d] - 1 /\ Sizes(c, b)[d] \in 1 .. s
    BY <1>0, PlaceIs, SizesAre
  <2> QED
    BY <1>1, <2>1
<1> PICK b1 : b1 = b.block[1]
  OBVIOUS
<1> PICK b2 : b2 = b.block[2]
  OBVIOUS
<1> PICK b3 : b3 = b.block[3]
  OBVIOUS
<1>3. b1 \in Nat /\ b2 \in Nat /\ b3 \in Nat
  BY <1>0, SizesAre, NumIs
<1>4. b1 * s \in Nat /\ b2 * s \in Nat /\ b3 * s \in Nat
  BY <1>1, <1>3
<1>5. x = b1 * s + p[1] /\ y = b2 * s + p[2] /\ z = b3 * s + p[3]
  BY DEF Coordinate
<1>6. DataAt(c, b, e) = Element(c, x, y, z)
  <2> PICK r2 \in Nat : r2 = c.dims[2]
    BY <1>1
  <2> PICK r3 \in Nat : r3 = c.dims[3]
    BY <1>1
  <2>1. Along(p, Offsets(c)) = Number(r2, r3, p[1], p[2], p[3])
    BY <1>2, AlongIs DEF Offsets
  <2>2. b.z = b1 * s * (r2 * r3) + b2 * s * r3 + b3 * s
    BY <1>0 DEF InBlocks, InLoops, Offsets
  <2>3. Number(r2, r3, b1 * s, b2 * s, b3 * s) = b.z
    <3>1. b1 * s * (r2 * r3) = b1 * s * r2 * r3 /\ b1 * s * r2 \in Nat
      BY <1>4
    <3>2. (b1 * s * r2 + b2 * s) * r3 = b1 * s * r2 * r3 + b2 * s * r3
      BY <1>4, <3>1
    <3> QED
      BY <2>2, <3>1, <3>2 DEF Number
  <2>4. /\ Number(r2, r3, b1 * s, b2 * s, b3 * s) + Number(r2, r3, p[1], p[2], p[3])
             = Number(r2, r3, x, y, z)
    <3>1. AreSums(b1 * s, b2 * s, b3 * s, p[1], p[2], p[3], x, y, z)
      BY <1>2, <1>4, <1>5 DEF AreSums
    <3> QED
      BY <3>1, NumberSum
  <2> QED
    BY <2>1, <2>3, <2>4 DEF DataAt, Element
<1>7. BufferAt(c, b, e) = Cell(c, i, y + Padding, z + Padding)
  <2> PICK r2 \in Nat : r2 = c.dims[2] + Padding
    BY <1>1 DEF Padding
  <2> PICK r3 \in Nat : r3 = c.dims[3] + Padding
    BY <1>1 DEF Padding
  <2>1. BufferOffsets(c) = <<r2 * r3, r3, 1>>
    BY DEF BufferOffsets
  <2>2. Along(p, BufferOffsets(c)) = Number(r2, r3, p[1], p[2], p[3])
    BY <1>2, <2>1, AlongIs
  <2>3. Along(<<Padding, Padding, Padding>>, BufferOffsets(c))
          = Number(r2, r3, Padding, Padding, Padding)
    <3>1. \A q : q = <<Padding, Padding, Padding>> =>
            q[1] = Padding /\ q[2] = Padding /\ q[3] = Padding /\ Padding \in Int
      BY DEF Padding
    <3> QED
      BY <2>1, <3>1, AlongIs
  <2>4. b.buf = b2 * s * r3 + b3 * s
    <3>1. BufferOffsets(c)[2] = r3
      BY <2>1
    <3> QED
      BY <1>0, <3>1 DEF InBlocks, InLoops
  <2>5. Number(r2, r3, 0, b2 * s, b3 * s) = b.buf
    <3>1. 0 * r2 = 0
      OBVIOUS
    <3> QED
      BY <1>4, <2>4, <3>1 DEF Number
  <2>6. Padding \in Int /\ 0 \in Int
    BY DEF Padding
  <2>7. Number(r2, r3, 0, b2 * s, b3 * s) + Number(r2, r3, p[1], p[2], p[3])
          = Number(r2, r3, p[1], y, z) /\ Number(r2, r3, 0, b2 * s, b3 * s) \in Int
          /\ Number(r2, r3, p[1], p[2], p[3]) \in Int
    <3>1. AreSums(0, b2 * s, b3 * s, p[1], p[2], p[3], p[1], y, z)
      BY <1>2, <1>4, <1>5 DEF AreSums
    <3> QED
      BY <3>1, NumberSum
  <2>8. y \in Int /\ z \in Int /\ p[1] \in Int
    BY <1>2, <1>4, <1>5
  <2>9. /\ Number(r2, r3, p[1], y, z) + Number(r2, r3, Padding, Padding, Padding)
             = Number(r2, r3, i, y + Padding, z + Padding)
        /\ Number(r2, r3, p[1], y, z) \in Int /\ Number(r2, r3, Padding, Padding, Padding) \in Int
    <3>1. AreSums(p[1], y, z, Padding, Padding, Padding, i, y + Padding, z + Padding)
      BY <2>6, <2>8 DEF AreSums
    <3> QED
      BY <3>1, NumberSum
  <2>10. b.buf + Number(r2, r3, Padding, Padding, Padding) + Number(r2, r3, p[1], p[2], p[3])
           = Number(r2, r3, i, y + Padding, z + Padding)
    BY <2>5, <2>7, <2>8, <2>9
  <2> QED
    BY <2>2, <2>3, <2>10 DEF BufferAt, Cell
<1>8. InBuffer(c, i, y + Padding, z + Padding)
  <2>1. InArray(c, x, y, z)
    BY HereIs
  <2> QED
    BY <1>1, <1>2, <2>1 DEF InArray, InBuffer, Padding
<1> QED
  BY <1>6, <1>7, <1>8

\* At the outset the loops are at the first block and have been nowhere.
LEMMA CodedFirst ==
  ASSUME NEW c \in Configs
  PROVE  InLoops(c, First) /\ Coded(c, First, 0) = {}
<1>1. First.block[1] = 0 /\ First.block[2] = 0 /\ First.block[3] = 0
  BY DEF First
<1>2. InLoops(c, First)
  <2>1. Num(c)[1] \in Nat \ {0} /\ Num(c)[2] \in Nat \ {0} /\ Num(c)[3] \in Nat \ {0}
    BY NumIs
  <2>2. c.block_size \in Nat /\ c.dims[2] \in Nat /\ c.dims[3] \in Nat
    BY ConfigIs
  <2>3. Offsets(c)[1] \in Nat /\ Offsets(c)[2] \in Nat /\ BufferOffsets(c)[2] \in Nat
    BY <2>2 DEF Offsets, BufferOffsets, Padding
  <2>4. \A r \in Nat : 0 * c.block_size * r = 0 /\ 0 * c.block_size = 0
    BY <2>2
  <2>5. First.x = 0 /\ First.y = 0 /\ First.z = 0 /\ First.buf = 0
    BY DEF First
  <2>6. First \in [block : [1 .. 3 -> Int], x : Int, y : Int, z : Int, buf : Int]
    BY DEF First
  <2> HIDE DEF First
  <2> QED
    BY <1>1, <2>1, <2>3, <2>4, <2>5, <2>6 DEF InLoops
<1>3. ASSUME NEW n \in Coded(c, First, 0) PROVE FALSE
  <2> PICK x : x = Coordinates(c, n)[1]
    OBVIOUS
  <2> PICK y : y = Coordinates(c, n)[2]
    OBVIOUS
  <2> PICK z : z = Coordinates(c, n)[3]
    OBVIOUS
  <2>1. n \in 0 .. Size(c) - 1 /\ IsCoded(c, First, 0, x, y, z)
    BY DEF Coded
  <2>2. InArray(c, x, y, z)
    BY <2>1, OffsetIs
  <2> HIDE DEF Coordinates, First
  <2>3. /\ x \div c.block_size \in 0 .. Num(c)[1] - 1
        /\ y \div c.block_size \in 0 .. Num(c)[2] - 1
        /\ z \div c.block_size \in 0 .. Num(c)[3] - 1
        /\ Nth(c, x, y, z) \in Nat
    BY <2>2, BlockIs, Zenon
  <2>4. \A k, m : k \in 0 .. m - 1 => k \in Nat
    OBVIOUS
  <2>5. /\ x \div c.block_size \in Nat /\ y \div c.block_size \in Nat
        /\ z \div c.block_size \in Nat
    BY <2>3, <2>4, Zenon
  <2> QED
    BY <1>1, <2>1, <2>3, <2>5 DEF IsCoded, Ahead
<1> QED
  BY <1>2, <1>3

\* At an element, they have not been at it, and have been nowhere else when they go on.
LEMMA CodedNext ==
  ASSUME NEW c \in Configs, NEW b, NEW e, AtElement(c, b, e), NEW n, n = DataAt(c, b, e)
  PROVE  /\ n \in 0 .. Size(c) - 1
         /\ n \notin Coded(c, b, e)
         /\ Coded(c, b, e + 1) = Coded(c, b, e) \cup {n}
<1> PICK u : u = Coordinate(c, b, e, 1)
  OBVIOUS
<1> PICK v : v = Coordinate(c, b, e, 2)
  OBVIOUS
<1> PICK w : w = Coordinate(c, b, e, 3)
  OBVIOUS
<1>0. e \in Nat /\ InBlocks(c, b)
  BY DEF AtElement
<1>1. /\ InArray(c, u, v, w)
      /\ u \div c.block_size = b.block[1] /\ v \div c.block_size = b.block[2]
      /\ w \div c.block_size = b.block[3]
      /\ Nth(c, u, v, w) = e
  BY HereIs
<1>2. n = Element(c, u, v, w) /\ n \in 0 .. Size(c) - 1
  BY <1>1, PointersAre, ElementIs
<1>3. b.block[1] \in Nat /\ b.block[2] \in Nat /\ b.block[3] \in Nat
  BY <1>0, SizesAre, NumIs
<1>4. ~IsCoded(c, b, e, u, v, w) /\ IsCoded(c, b, e + 1, u, v, w)
  BY <1>0, <1>1, <1>3 DEF IsCoded, Ahead
<1>5. n \notin Coded(c, b, e) /\ n \in Coded(c, b, e + 1)
  BY <1>1, <1>2, <1>4, CodedIs
<1>6. ASSUME NEW m \in 0 .. Size(c) - 1, m # n
      PROVE  m \in Coded(c, b, e) <=> m \in Coded(c, b, e + 1)
  <2> PICK x : x = Coordinates(c, m)[1]
    OBVIOUS
  <2> PICK y : y = Coordinates(c, m)[2]
    OBVIOUS
  <2> PICK z : z = Coordinates(c, m)[3]
    OBVIOUS
  <2>1. InArray(c, x, y, z) /\ m = Element(c, x, y, z)
    BY OffsetIs
  <2> HIDE DEF Coordinates
  <2>2. Nth(c, x, y, z) \in Nat
    BY <2>1, BlockIs, Zenon
  <2>3. CASE /\ x \div c.block_size = b.block[1] /\ y \div c.block_size = b.block[2]
             /\ z \div c.block_size = b.block[3] /\ Nth(c, x, y, z) = e
    <3> PICK r2 : r2 = Left(c.dims[2], c.block_size, b.block[2])
      OBVIOUS
    <3> PICK r3 : r3 = Left(c.dims[3], c.block_size, b.block[3])
      OBVIOUS
    <3> PICK x1 : x1 = x % c.block_size
      OBVIOUS
    <3> PICK y1 : y1 = y % c.block_size
      OBVIOUS
    <3> PICK z1 : z1 = z % c.block_size
      OBVIOUS
    <3> PICK u1 : u1 = Place(c, b, e)[1]
      OBVIOUS
    <3> PICK v1 : v1 = Place(c, b, e)[2]
      OBVIOUS
    <3> PICK w1 : w1 = Place(c, b, e)[3]
      OBVIOUS
    <3>1. /\ AreDigits(r2, r3, x1, y1, z1)
          /\ x = b.block[1] * c.block_size + x1 /\ y = b.block[2] * c.block_size + y1
          /\ z = b.block[3] * c.block_size + z1
      BY <2>1, <2>3, BlockIs, Zenon
    <3>2. /\ AreDigits(r2, r3, u1, v1, w1)
          /\ u = b.block[1] * c.block_size + u1 /\ v = b.block[2] * c.block_size + v1
          /\ w = b.block[3] * c.block_size + w1
      <4>1. Sizes(c, b)[2] = r2 /\ Sizes(c, b)[3] = r3
        BY <1>0, SizesAre
      <4>2. AreDigits(r2, r3, u1, v1, w1)
        BY <4>1, PlaceIs
      <4> QED
        BY <4>2 DEF Coordinate
    <3>3. Number(r2, r3, x1, y1, z1) = e
      BY <2>3, Zenon DEF Nth
    <3>4. Number(r2, r3, u1, v1, w1) = e
      <4>1. Sizes(c, b)[2] = r2 /\ Sizes(c, b)[3] = r3
        BY <1>0, SizesAre
      <4> QED
        BY <4>1, PlaceIs
    <3>5. x1 = u1 /\ y1 = v1 /\ z1 = w1
      <4>1. e \div (r2 * r3) = x1 /\ (e \div r3) % r2 = y1 /\ e % r3 = z1
        BY <3>1, <3>3, NumberIs
      <4>2. e \div (r2 * r3) = u1 /\ (e \div r3) % r2 = v1 /\ e % r3 = w1
        BY <3>2, <3>4, NumberIs
      <4> QED
        BY <4>1, <4>2, Zenon
    <3>6. x = u /\ y = v /\ z = w
      BY <3>1, <3>2, <3>5, Zenon
    <3> QED
      BY <1>2, <1>6, <2>1, <3>6
  <2>4. CASE ~(/\ x \div c.block_size = b.block[1] /\ y \div c.block_size = b.block[2]
               /\ z \div c.block_size = b.block[3] /\ Nth(c, x, y, z) = e)
    <3>1. IsCoded(c, b, e, x, y, z) <=> IsCoded(c, b, e + 1, x, y, z)
      BY <1>0, <2>2, <2>4 DEF IsCoded
    <3> QED
      BY <2>1, <3>1, CodedIs, Zenon
  <2> QED
    BY <2>3, <2>4
<1> QED
  BY <1>2, <1>5, <1>6 DEF Coded

\* Places in the loops.
Loops == [block : [1 .. 3 -> Int], x : Int, y : Int, z : Int, buf : Int]

\* A triple is a function.
LEMMA TripleIs ==
  ASSUME NEW k \in Int, NEW l \in Int
  PROVE  <<l, k, 0>> \in [1 .. 3 -> Int]
OBVIOUS

\* The terms of the pointers.
LEMMA TermsAre ==
  ASSUME NEW k \in Nat, NEW s \in Nat, NEW r \in Nat
  PROVE  /\ k * s \in Nat /\ k * s * r \in Nat /\ s * r \in Nat /\ (k + 1) * s = k * s + s
         /\ (k + 1) * s * r = k * s * r + s * r
         /\ 0 * s = 0 /\ 0 * s * r = 0 /\ s * k = k * s
<1> PICK p \in Nat : p = k * s
  OBVIOUS
<1>1. (k + 1) * s = p + s
  OBVIOUS
<1>2. (p + s) * r = p * r + s * r /\ p * r \in Nat /\ s * r \in Nat
  OBVIOUS
<1>3. 0 * s = 0 /\ 0 * r = 0 /\ s * k = k * s
  OBVIOUS
<1> QED
  BY <1>1, <1>2, <1>3

\* What the loops have at a block.
LEMMA LoopsAre ==
  ASSUME NEW c \in Configs, NEW b, InBlocks(c, b)
  PROVE  /\ b \in Loops /\ b.x \in Int /\ b.y \in Int /\ b.z \in Int /\ b.buf \in Int
         /\ Num(c)[1] \in Nat \ {0} /\ Num(c)[2] \in Nat \ {0} /\ Num(c)[3] \in Nat \ {0}
         /\ c.block_size \in Nat
         /\ b.block[1] \in 0 .. Num(c)[1] - 1 /\ b.block[2] \in 0 .. Num(c)[2] - 1
         /\ b.block[3] \in 0 .. Num(c)[3] - 1
         /\ b.block[1] \in Nat /\ b.block[2] \in Nat /\ b.block[3] \in Nat
         /\ Offsets(c)[1] \in Nat /\ Offsets(c)[2] \in Nat /\ BufferOffsets(c)[2] \in Nat
<1>1. c.block_size \in Nat /\ c.dims[2] \in Nat /\ c.dims[3] \in Nat
  BY ConfigIs
<1>2. Offsets(c)[1] \in Nat /\ Offsets(c)[2] \in Nat /\ BufferOffsets(c)[2] \in Nat
  BY <1>1 DEF Offsets, BufferOffsets, Padding
<1>3. b \in Loops /\ b.x \in Int /\ b.y \in Int /\ b.z \in Int /\ b.buf \in Int
  BY DEF InBlocks, InLoops, Loops
<1>4. \A d \in 1 .. 3 : Num(c)[d] \in Nat \ {0} /\ b.block[d] \in 0 .. Num(c)[d] - 1
  BY NumIs, SizesAre
<1> QED
  BY <1>1, <1>2, <1>3, <1>4

\* The loops go on along a row of blocks.
LEMMA NextInRow ==
  ASSUME NEW c \in Configs, NEW b, InBlocks(c, b), b.block[3] + 1 < Num(c)[3]
  PROVE  /\ InLoops(c, Advance(c, b))
         /\ Advance(c, b).block[1] = b.block[1] /\ Advance(c, b).block[2] = b.block[2]
         /\ Advance(c, b).block[3] = b.block[3] + 1
<1> PICK next : next = Advance(c, b)
  OBVIOUS
<1>1. /\ next \in Loops
      /\ next.block[1] = b.block[1] /\ next.block[2] = b.block[2]
      /\ next.block[3] = b.block[3] + 1
      /\ next.x = b.x /\ next.y = b.y /\ next.z = b.z + c.block_size
      /\ next.buf = b.buf + c.block_size
  <2>1. Sizes(c, b)[3] = c.block_size
    BY LoopsAre, SizesAre
  <2>2. /\ b \in Loops /\ b.block[3] + 1 \in Int /\ b.z + c.block_size \in Int
        /\ b.buf + c.block_size \in Int
    BY LoopsAre
  <2> PICK k \in Int : k = b.block[3] + 1
    BY <2>2
  <2> PICK z \in Int : z = b.z + c.block_size
    BY <2>2
  <2> PICK buf \in Int : buf = b.buf + c.block_size
    BY <2>2
  <2>3. next = [b EXCEPT !.block[3] = k, !.z = z, !.buf = buf]
    BY <2>1 DEF Advance
  <2>4. /\ next \in Loops
        /\ next.block[1] = b.block[1] /\ next.block[2] = b.block[2] /\ next.block[3] = k
        /\ next.x = b.x /\ next.y = b.y /\ next.z = z /\ next.buf = buf
    <3>1. next \in Loops
      <4>1. b.block \in [1 .. 3 -> Int]
        BY <2>2 DEF Loops
      <4> PICK row \in [1 .. 3 -> Int] : row = [b.block EXCEPT ![3] = k]
        BY <4>1
      <4>2. next = [b EXCEPT !.block = row, !.z = z, !.buf = buf]
        BY <2>3
      <4> QED
        BY <2>2, <4>2 DEF Loops
    <3>2. next.block[1] = b.block[1] /\ next.block[2] = b.block[2] /\ next.block[3] = k
      BY <2>2, <2>3 DEF Loops
    <3>3. next.x = b.x /\ next.y = b.y /\ next.z = z /\ next.buf = buf
      BY <2>2, <2>3 DEF Loops
    <3> QED
      BY <3>1, <3>2, <3>3
  <2> QED
    BY <2>4
<1> PICK s \in Nat : s = c.block_size
  BY LoopsAre
<1> PICK b3 \in Nat : b3 = b.block[3]
  BY LoopsAre
<1> PICK p : p = b3 * s
  OBVIOUS
<1> PICK q : q = (b3 + 1) * s
  OBVIOUS
<1>2. p \in Nat /\ q = p + s
  <2>1. \A x, y \in Nat : x * y \in Nat /\ (x + 1) * y = x * y + y
    BY Products
  <2> QED
    BY <2>1, Zenon
<1> PICK p1 : p1 = b.block[1] * s * Offsets(c)[1]
  OBVIOUS
<1> PICK p2 : p2 = b.block[2] * s * Offsets(c)[2]
  OBVIOUS
<1> PICK q2 : q2 = b.block[2] * s * BufferOffsets(c)[2]
  OBVIOUS
<1>3. p1 \in Int /\ p2 \in Int /\ q2 \in Int
  BY LoopsAre, TermsAre
<1>4. b.x = p1 /\ b.y = b.x + p2 /\ b.z = b.y + p /\ b.buf = q2 + p
  BY Zenon DEF InBlocks, InLoops
<1>5. next.x = p1 /\ next.y = next.x + p2 /\ next.z = next.y + q /\ next.buf = q2 + q
  BY <1>1, <1>2, <1>3, <1>4
<1>6. /\ next.block[1] \in 0 .. Num(c)[1] /\ next.block[2] \in 0 .. Num(c)[2] - 1
      /\ next.block[3] \in 0 .. Num(c)[3] - 1
  BY <1>1, LoopsAre
<1>8. ~AtEnd(c, next)
  BY <1>1, Zenon DEF AtEnd, InBlocks
<1>7. InLoops(c, next)
  BY <1>1, <1>5, <1>6, <1>8, Zenon DEF InLoops, Loops
<1> QED
  BY <1>1, <1>7, Zenon

\* They go on to the next row of blocks.
LEMMA NextRow ==
  ASSUME NEW c \in Configs, NEW b, InBlocks(c, b), b.block[3] + 1 = Num(c)[3],
         b.block[2] + 1 < Num(c)[2]
  PROVE  /\ InLoops(c, Advance(c, b))
         /\ Advance(c, b).block[1] = b.block[1] /\ Advance(c, b).block[2] = b.block[2] + 1
         /\ Advance(c, b).block[3] = 0
<1> PICK next : next = Advance(c, b)
  OBVIOUS
<1> PICK s \in Nat : s = c.block_size
  BY LoopsAre
<1>00. \A u, w \in Nat : (u + 1) * s * w = u * s * w + s * w
  <2> TAKE u, w \in Nat
  <2>1. \A v \in Nat : (u + 1) * v * w = u * v * w + v * w
    <3> TAKE v \in Nat
    <3> QED
      BY TermsAre
  <2> QED
    BY <2>1, Zenon
<1> PICK sr : sr = s * Offsets(c)[2]
  OBVIOUS
<1> PICK st : st = s * BufferOffsets(c)[2]
  OBVIOUS
<1> PICK sn : sn = s * Num(c)[3]
  OBVIOUS
<1>0. sr \in Int /\ st \in Int /\ sn \in Int
  <2>1. \A x, y \in Nat : x * y \in Int
    BY Products
  <2>2. Num(c)[3] \in Nat
    BY LoopsAre
  <2> QED
    BY LoopsAre, <2>1, <2>2, Zenon
<1> PICK k \in Int : k = b.block[2] + 1
  BY LoopsAre
<1> PICK l \in Int : l = b.block[1]
  BY LoopsAre
<1> PICK y \in Int : y = b.y + sr
  BY <1>0, LoopsAre
<1> PICK buf \in Int : buf = b.buf + s + st - sn
  BY <1>0, LoopsAre
<1>1. /\ next \in Loops
      /\ next.block[1] = b.block[1] /\ next.block[2] = k /\ next.block[3] = 0
      /\ next.x = b.x /\ next.y = y /\ next.z = y /\ next.buf = buf
  <2> PICK row \in [1 .. 3 -> Int] : row = <<l, k, 0>>
    BY TripleIs, Zenon
  <2>1. ~(b.block[3] + 1 < Num(c)[3])
    BY LoopsAre
  <2>2. next = [b EXCEPT !.block = row, !.y = y, !.z = y, !.buf = buf]
    BY <2>1 DEF Advance
  <2>3. b \in Loops
    BY LoopsAre
  <2>4. next \in Loops
    BY <2>2, <2>3 DEF Loops
  <2>5. next.block = row /\ next.x = b.x /\ next.y = y /\ next.z = y /\ next.buf = buf
    BY <2>2, <2>3 DEF Loops
  <2> QED
    BY <2>4, <2>5
<1> PICK b2 \in Nat : b2 = b.block[2]
  BY LoopsAre
<1> PICK b3 \in Nat : b3 = b.block[3]
  BY LoopsAre
<1> PICK p1 : p1 = b.block[1] * s * Offsets(c)[1]
  OBVIOUS
<1> PICK p2 : p2 = b2 * s * Offsets(c)[2]
  OBVIOUS
<1> PICK p3 : p3 = b3 * s
  OBVIOUS
<1> PICK q2 : q2 = b2 * s * BufferOffsets(c)[2]
  OBVIOUS
<1> PICK p : p = k * s * Offsets(c)[2]
  OBVIOUS
<1> PICK q : q = k * s * BufferOffsets(c)[2]
  OBVIOUS
<1>2. /\ p1 \in Int /\ p2 \in Int /\ p3 \in Int /\ q2 \in Int
      /\ p = p2 + sr /\ q = q2 + st /\ sn = p3 + s /\ 0 * s = 0
  <2>1. \A u, v, w \in Nat : /\ u * v \in Int /\ u * v * w \in Int
                             /\ (u + 1) * v * w = u * v * w + v * w
                             /\ v * (u + 1) = u * v + v /\ 0 * v = 0
    <3> TAKE u, v, w \in Nat
    <3>1. u * v \in Int /\ u * v * w \in Int /\ (u + 1) * v * w = u * v * w + v * w /\ 0 * v = 0
      BY TermsAre
    <3>2. v * (u + 1) = (u + 1) * v /\ (u + 1) * v = u * v + v
      OBVIOUS
    <3> QED
      BY <3>1, <3>2
  <2>2. k = b2 + 1 /\ Num(c)[3] = b3 + 1
    OBVIOUS
  <2>3. b.block[1] \in Nat /\ Offsets(c)[1] \in Nat /\ Offsets(c)[2] \in Nat /\ BufferOffsets(c)[2] \in Nat
    BY LoopsAre
  <2>4. p = (b2 + 1) * s * Offsets(c)[2] /\ q = (b2 + 1) * s * BufferOffsets(c)[2]
        /\ sn = s * (b3 + 1)
    BY <2>2, Zenon
  <2>5. p1 \in Int /\ p2 \in Int /\ p3 \in Int /\ q2 \in Int /\ 0 * s = 0
    BY <2>1, <2>3, Zenon
  <2>9. \A w \in Nat : (b2 + 1) * s * w = b2 * s * w + s * w
    BY <1>00, Zenon
  <2>6. p = p2 + sr
    <3>1. (b2 + 1) * s * Offsets(c)[2] = b2 * s * Offsets(c)[2] + s * Offsets(c)[2]
      BY <2>3, <2>9, Zenon
    <3> QED
      BY <2>4, <3>1, Zenon
  <2>7. q = q2 + st
    <3>1. (b2 + 1) * s * BufferOffsets(c)[2]
            = b2 * s * BufferOffsets(c)[2] + s * BufferOffsets(c)[2]
      BY <2>3, <2>9, Zenon
    <3> QED
      BY <2>4, <3>1, Zenon
  <2>8. sn = p3 + s
    BY <2>1, <2>3, <2>4, Zenon
  <2> QED
    BY <2>5, <2>6, <2>7, <2>8
<1>3. b.x = p1 /\ b.y = b.x + p2 /\ b.z = b.y + p3 /\ b.buf = q2 + p3
  BY Zenon DEF InBlocks, InLoops
<1> PICK none : none = 0 * s
  OBVIOUS
<1>4. next.x = p1 /\ next.y = next.x + p /\ next.z = next.y + none /\ next.buf = q + none
  BY <1>0, <1>1, <1>2, <1>3
<1>5. /\ next.block[1] \in 0 .. Num(c)[1] /\ next.block[2] \in 0 .. Num(c)[2] - 1
      /\ next.block[3] \in 0 .. Num(c)[3] - 1
  BY <1>1, LoopsAre
<1>8. ~AtEnd(c, next)
  BY <1>1, Zenon DEF AtEnd, InBlocks
<1>6. InLoops(c, next)
  BY <1>1, <1>4, <1>5, <1>8, Zenon DEF InLoops, Loops
<1> QED
  BY <1>1, <1>6, Zenon

\* They go on to the next layer of blocks.
LEMMA NextLayer ==
  ASSUME NEW c \in Configs, NEW b, InBlocks(c, b), b.block[3] + 1 = Num(c)[3],
         b.block[2] + 1 = Num(c)[2]
  PROVE  /\ InLoops(c, Advance(c, b))
         /\ Advance(c, b).block[1] = b.block[1] + 1 /\ Advance(c, b).block[2] = 0
         /\ Advance(c, b).block[3] = 0
<1> PICK next : next = Advance(c, b)
  OBVIOUS
<1> PICK s \in Nat : s = c.block_size
  BY LoopsAre
<1> PICK sr : sr = s * Offsets(c)[1]
  OBVIOUS
<1>0. sr \in Int
  <2>1. \A x, y \in Nat : x * y \in Int
    BY Products
  <2> QED
    BY LoopsAre, <2>1, Zenon
<1> PICK k \in Int : k = b.block[1] + 1
  BY LoopsAre
<1> PICK x \in Int : x = b.x + sr
  BY <1>0, LoopsAre
<1>1. /\ next \in Loops
      /\ next.block[1] = k /\ next.block[2] = 0 /\ next.block[3] = 0
      /\ next.x = x /\ next.y = x /\ next.z = x /\ next.buf = 0
  <2>0. 0 \in Int
    OBVIOUS
  <2> PICK row \in [1 .. 3 -> Int] : row = <<k, 0, 0>>
    BY <2>0, TripleIs, Zenon
  <2>1. ~(b.block[3] + 1 < Num(c)[3]) /\ ~(b.block[2] + 1 < Num(c)[2])
    BY LoopsAre
  <2>2. next = [block |-> row, x |-> x, y |-> x, z |-> x, buf |-> 0]
    BY <2>1 DEF Advance
  <2> QED
    BY <2>2 DEF Loops
<1> PICK b1 \in Nat : b1 = b.block[1]
  BY LoopsAre
<1> PICK p1 : p1 = b1 * s * Offsets(c)[1]
  OBVIOUS
<1> PICK p : p = k * s * Offsets(c)[1]
  OBVIOUS
<1>2. p1 \in Int /\ p = p1 + sr /\ 0 * s = 0 /\ 0 * s * Offsets(c)[2] = 0
      /\ 0 * s * BufferOffsets(c)[2] = 0
  <2>1. \A u, v, w \in Nat : /\ u * v * w \in Int
                             /\ (u + 1) * v * w = u * v * w + v * w
                             /\ 0 * v = 0 /\ 0 * v * w = 0
    BY TermsAre
  <2>2. p = (b1 + 1) * s * Offsets(c)[1]
    OBVIOUS
  <2>3. Offsets(c)[1] \in Nat /\ Offsets(c)[2] \in Nat /\ BufferOffsets(c)[2] \in Nat
    BY LoopsAre
  <2>4. p1 \in Int /\ 0 * s = 0 /\ 0 * s * Offsets(c)[2] = 0
    BY <2>1, <2>3, Zenon
  <2>5. 0 * s * BufferOffsets(c)[2] = 0
    BY <2>1, <2>3, Zenon
  <2>6. p = p1 + sr
    BY <2>1, <2>2, <2>3, Zenon
  <2> QED
    BY <2>4, <2>5, <2>6
<1>3. b.x = p1
  BY Zenon DEF InBlocks, InLoops
<1>4. /\ next.x = p /\ next.y = next.x + 0 * s * Offsets(c)[2] /\ next.z = next.y + 0 * s
      /\ next.buf = 0 * s * BufferOffsets(c)[2] + 0 * s
  <2>1. x = p
    BY <1>0, <1>2, <1>3
  <2>2. x + 0 = x /\ 0 + 0 = 0
    OBVIOUS
  <2> QED
    BY <1>1, <1>2, <2>1, <2>2, Zenon
<1>5. /\ next.block[1] \in 0 .. Num(c)[1] /\ next.block[2] \in 0 .. Num(c)[2] - 1
      /\ next.block[3] \in 0 .. Num(c)[3] - 1
  BY <1>1, LoopsAre
<1>6. InLoops(c, next)
  BY <1>1, <1>4, <1>5, Zenon DEF InLoops, Loops
<1> QED
  BY <1>1, <1>6, Zenon

\* A block is the next one's when it is through.
LEMMA CodedBlock ==
  ASSUME NEW c \in Configs, NEW b, InBlocks(c, b), NEW next, next = Advance(c, b)
  PROVE  /\ InLoops(c, next)
         /\ Coded(c, next, 0) = Coded(c, b, Volume(c, b))
         /\ IF LastOfLayer(c, b)
            THEN next.block[1] = b.block[1] + 1 /\ next.block[2] = 0 /\ next.block[3] = 0
            ELSE next.block[1] = b.block[1]
<1> PICK b1 : b1 = b.block[1]
  OBVIOUS
<1> PICK b2 : b2 = b.block[2]
  OBVIOUS
<1> PICK b3 : b3 = b.block[3]
  OBVIOUS
<1> PICK s : s = c.block_size
  OBVIOUS
<1> PICK n1 : n1 = Num(c)[1]
  OBVIOUS
<1> PICK n2 : n2 = Num(c)[2]
  OBVIOUS
<1> PICK n3 : n3 = Num(c)[3]
  OBVIOUS
<1>1. /\ n1 \in Nat \ {0} /\ n2 \in Nat \ {0} /\ n3 \in Nat \ {0} /\ s \in Nat
      /\ b1 \in 0 .. n1 - 1 /\ b2 \in 0 .. n2 - 1 /\ b3 \in 0 .. n3 - 1
  BY SizesAre, NumIs, ConfigIs
<1>7. LastOfLayer(c, b) <=> b2 + 1 = n2 /\ b3 + 1 = n3
  BY DEF LastOfLayer
\* The rest of the row of blocks, the next row, the next layer.
<1>8. \/ /\ b3 + 1 < n3 /\ InLoops(c, next)
         /\ next.block[1] = b1 /\ next.block[2] = b2 /\ next.block[3] = b3 + 1
      \/ /\ b3 + 1 = n3 /\ b2 + 1 < n2 /\ InLoops(c, next)
         /\ next.block[1] = b1 /\ next.block[2] = b2 + 1 /\ next.block[3] = 0
      \/ /\ b3 + 1 = n3 /\ b2 + 1 = n2 /\ InLoops(c, next)
         /\ next.block[1] = b1 + 1 /\ next.block[2] = 0 /\ next.block[3] = 0
  <2>1. b3 + 1 < n3 \/ (b3 + 1 = n3 /\ b2 + 1 < n2) \/ (b3 + 1 = n3 /\ b2 + 1 = n2)
    BY <1>1
  <2> QED
    BY <2>1, NextInRow, NextRow, NextLayer
<1>9. ASSUME NEW m \in 0 .. Size(c) - 1
      PROVE  m \in Coded(c, next, 0) <=> m \in Coded(c, b, Volume(c, b))
  <2> PICK x : x = Coordinates(c, m)[1]
    OBVIOUS
  <2> PICK y : y = Coordinates(c, m)[2]
    OBVIOUS
  <2> PICK z : z = Coordinates(c, m)[3]
    OBVIOUS
  <2>1. InArray(c, x, y, z) /\ m = Element(c, x, y, z)
    BY OffsetIs
  <2> HIDE DEF Coordinates
  <2> PICK k1 : k1 = x \div s
    OBVIOUS
  <2> PICK k2 : k2 = y \div s
    OBVIOUS
  <2> PICK k3 : k3 = z \div s
    OBVIOUS
  <2> PICK o : o = Nth(c, x, y, z)
    OBVIOUS
  <2>2. k1 \in 0 .. n1 - 1 /\ k2 \in 0 .. n2 - 1 /\ k3 \in 0 .. n3 - 1 /\ o \in Nat
    BY <2>1, BlockIs, Zenon
  <2>3. k1 = b1 /\ k2 = b2 /\ k3 = b3 => o < Volume(c, b)
    <3> SUFFICES ASSUME k1 = b1, k2 = b2, k3 = b3 PROVE o < Volume(c, b)
      OBVIOUS
    <3> PICK l1 : l1 = x % s
      OBVIOUS
    <3> PICK l2 : l2 = y % s
      OBVIOUS
    <3> PICK l3 : l3 = z % s
      OBVIOUS
    <3>1. /\ l1 \in 0 .. Left(c.dims[1], s, k1) - 1
          /\ AreDigits(Left(c.dims[2], s, k2), Left(c.dims[3], s, k3), l1, l2, l3)
      BY <2>1, BlockIs, Zenon
    <3>2. o = Number(Left(c.dims[2], s, k2), Left(c.dims[3], s, k3), l1, l2, l3)
      BY DEF Nth
    <3>3. /\ Sizes(c, b)[1] = Left(c.dims[1], s, k1) /\ Sizes(c, b)[2] = Left(c.dims[2], s, k2)
          /\ Sizes(c, b)[3] = Left(c.dims[3], s, k3) /\ Sizes(c, b)[1] \in Nat
      BY <1>1, SizesAre
    <3>4. l1 < Sizes(c, b)[1]
      BY <3>1, <3>3
    <3>5. o < Sizes(c, b)[1] * Sizes(c, b)[2] * Sizes(c, b)[3]
      BY <3>1, <3>2, <3>3, <3>4, NumberBounded
    <3> QED
      BY <3>5 DEF Volume
  <2>4. IsCoded(c, next, 0, x, y, z) <=> IsCoded(c, b, Volume(c, b), x, y, z)
    <3>1. Ahead(k1, k2, k3, next.block[1], next.block[2], next.block[3])
            <=> Ahead(k1, k2, k3, b1, b2, b3) \/ (k1 = b1 /\ k2 = b2 /\ k3 = b3)
      <4> PICK i1, i2, i3 :
            /\ i1 = next.block[1] /\ i2 = next.block[2] /\ i3 = next.block[3]
        OBVIOUS
      <4>1. \/ b3 + 1 < n3 /\ i1 = b1 /\ i2 = b2 /\ i3 = b3 + 1
            \/ b3 + 1 = n3 /\ b2 + 1 < n2 /\ i1 = b1 /\ i2 = b2 + 1 /\ i3 = 0
            \/ b3 + 1 = n3 /\ b2 + 1 = n2 /\ i1 = b1 + 1 /\ i2 = 0 /\ i3 = 0
        BY <1>8, Zenon
      <4>2. Ahead(k1, k2, k3, i1, i2, i3)
              <=> Ahead(k1, k2, k3, b1, b2, b3) \/ (k1 = b1 /\ k2 = b2 /\ k3 = b3)
        BY <1>1, <2>2, <4>1 DEF Ahead
      <4> QED
        BY <4>2
    <3>2. ~(o < 0)
      BY <2>2
    <3> QED
      BY <2>3, <3>1, <3>2 DEF IsCoded
  <2> QED
    BY <2>1, <2>4, CodedIs, Zenon
<1>10. Coded(c, next, 0) = Coded(c, b, Volume(c, b))
  BY <1>9 DEF Coded
<1> QED
  BY <1>1, <1>7, <1>8, <1>10

\* Behind the last block they have been everywhere.
LEMMA CodedLast ==
  ASSUME NEW c \in Configs, NEW b, InLoops(c, b), AtEnd(c, b)
  PROVE  Coded(c, b, 0) = 0 .. Size(c) - 1
<1> SUFFICES ASSUME NEW m \in 0 .. Size(c) - 1 PROVE m \in Coded(c, b, 0)
  BY DEF Coded
<1> PICK x : x = Coordinates(c, m)[1]
  OBVIOUS
<1> PICK y : y = Coordinates(c, m)[2]
  OBVIOUS
<1> PICK z : z = Coordinates(c, m)[3]
  OBVIOUS
<1>1. InArray(c, x, y, z) /\ m = Element(c, x, y, z)
  BY OffsetIs
<1> HIDE DEF Coordinates
<1>2. x \div c.block_size \in 0 .. Num(c)[1] - 1
  BY <1>1, BlockIs, Zenon
<1>3. b.block[1] = Num(c)[1] /\ Num(c)[1] \in Nat
  BY NumIs DEF AtEnd
<1>4. IsCoded(c, b, 0, x, y, z)
  BY <1>2, <1>3 DEF IsCoded, Ahead
<1> QED
  BY <1>1, <1>4, CodedIs, Zenon

-----------------------------------------------------------------------------
(* The buffer.                                                             *)

\* What is in a cell for x, y and z: zero where the array has no such element before
\* its first one, and the element once it is coded.
CellHolds(c, v, b, e, x, y, z) ==
  /\ x < 0 \/ y < 0 \/ z < 0 => v = Zero
  /\ InArray(c, x, y, z) /\ IsCoded(c, b, e, x, y, z) => v = Element(c, x, y, z)

\* The plane of the array in plane i of the buffer.
Plane(c, b, i) == b.block[1] * c.block_size + i - Padding

\* The buffer has this in every cell.
Held(c, buf, b, e) ==
  /\ buf \in [0 .. BufferSize(c) - 1 -> Int]
  /\ \A i, j, k : InBuffer(c, i, j, k) =>
       CellHolds(c, buf[Cell(c, i, j, k)], b, e, Plane(c, b, i), j - Padding, k - Padding)

\* It has at the outset.
LEMMA HeldFirst ==
  ASSUME NEW c \in Configs
  PROVE  Held(c, [a \in 0 .. BufferSize(c) - 1 |-> Zero], First, 0)
<1> PICK buf : buf = [a \in 0 .. BufferSize(c) - 1 |-> Zero]
  OBVIOUS
<1>1. buf \in [0 .. BufferSize(c) - 1 -> Int]
  BY DEF Zero
<1>2. ASSUME NEW i, NEW j, NEW k, InBuffer(c, i, j, k)
      PROVE  CellHolds(c, buf[Cell(c, i, j, k)], First, 0, Plane(c, First, i), j - Padding, k - Padding)
  <2>1. buf[Cell(c, i, j, k)] = Zero
    <3>1. Cell(c, i, j, k) \in 0 .. BufferSize(c) - 1
      BY <1>2, CellIs
    <3> QED
      BY <3>1
  <2>2. \A x, y, z : InArray(c, x, y, z) => ~IsCoded(c, First, 0, x, y, z)
    BY CodedFirst, CodedIs
  <2> QED
    BY <2>1, <2>2, Zenon DEF CellHolds
<1> QED
  BY <1>1, <1>2 DEF Held

\* It has when the loops have gone on without an element in between, in the same layer.
LEMMA HeldSame ==
  ASSUME NEW c \in Configs, NEW buf, NEW b, NEW e, Held(c, buf, b, e), NEW b2, NEW e2,
         b2.block[1] = b.block[1], Coded(c, b2, e2) = Coded(c, b, e)
  PROVE  Held(c, buf, b2, e2)
<1>1. \A x, y, z : InArray(c, x, y, z) => (IsCoded(c, b2, e2, x, y, z) <=> IsCoded(c, b, e, x, y, z))
  BY CodedIs
<1>2. \A i : Plane(c, b2, i) = Plane(c, b, i)
  BY DEF Plane
<1>3. ASSUME NEW i, NEW j, NEW k, InBuffer(c, i, j, k)
      PROVE  CellHolds(c, buf[Cell(c, i, j, k)], b2, e2, Plane(c, b2, i), j - Padding, k - Padding)
  <2>1. CellHolds(c, buf[Cell(c, i, j, k)], b, e, Plane(c, b, i), j - Padding, k - Padding)
    BY <1>3 DEF Held
  <2> QED
    BY <1>1, <1>2, <2>1, Zenon DEF CellHolds
<1> QED
  BY <1>3 DEF Held

\* It has when the element the loops are at is written.
LEMMA HeldWrite ==
  ASSUME NEW c \in Configs, NEW buf, NEW b, NEW e, AtElement(c, b, e), Held(c, buf, b, e)
  PROVE  Held(c, [buf EXCEPT ![BufferAt(c, b, e)] = DataAt(c, b, e)], b, e + 1)
<1> PICK x : x = Coordinate(c, b, e, 1)
  OBVIOUS
<1> PICK y : y = Coordinate(c, b, e, 2)
  OBVIOUS
<1> PICK z : z = Coordinate(c, b, e, 3)
  OBVIOUS
<1> PICK h : h = Place(c, b, e)[1] + Padding
  OBVIOUS
<1> PICK n : n = DataAt(c, b, e)
  OBVIOUS
<1> PICK a : a = BufferAt(c, b, e)
  OBVIOUS
<1> PICK buf2 : buf2 = [buf EXCEPT ![a] = n]
  OBVIOUS
<1>1. n = Element(c, x, y, z) /\ a = Cell(c, h, y + Padding, z + Padding)
      /\ InBuffer(c, h, y + Padding, z + Padding) /\ InArray(c, x, y, z)
  BY PointersAre, HereIs
<1>2. n \in Int /\ a \in 0 .. BufferSize(c) - 1
  <2>1. n \in 0 .. Size(c) - 1
    BY CodedNext
  <2>2. \A m, k : m \in 0 .. k => m \in Int
    OBVIOUS
  <2> QED
    BY <1>1, <2>1, <2>2, CellIs
<1>3. buf \in [0 .. BufferSize(c) - 1 -> Int] /\ buf2 \in [0 .. BufferSize(c) - 1 -> Int]
  BY <1>2 DEF Held
<1>4. x = Plane(c, b, h)
  <2>1. b.block[1] \in Nat /\ c.block_size \in Nat /\ Place(c, b, e)[1] \in Nat
    <3>1. c.block_size \in Nat /\ InBlocks(c, b)
      BY ConfigIs DEF AtElement
    <3>2. Sizes(c, b)[1] \in Nat /\ b.block[1] \in Nat
      BY <3>1, SizesAre, NumIs
    <3> QED
      BY <3>1, <3>2, PlaceIs
  <2>2. b.block[1] * c.block_size \in Nat
    BY <2>1
  <2> QED
    BY <2>1, <2>2 DEF Plane, Coordinate, Padding
<1>5. ASSUME NEW i, NEW j, NEW k, InBuffer(c, i, j, k)
      PROVE  CellHolds(c, buf2[Cell(c, i, j, k)], b, e + 1, Plane(c, b, i), j - Padding, k - Padding)
  <2> PICK u : u = Plane(c, b, i)
    OBVIOUS
  <2> PICK v : v = j - Padding
    OBVIOUS
  <2> PICK w : w = k - Padding
    OBVIOUS
  <2>1. CellHolds(c, buf[Cell(c, i, j, k)], b, e, u, v, w)
    BY <1>5 DEF Held
  <2>2. CASE Cell(c, i, j, k) = a
    <3>1. i = h /\ j = y + Padding /\ k = z + Padding
      BY <1>1, <1>5, <2>2, CellIs
    <3>2. u = x /\ v = y /\ w = z
      BY <1>1, <1>4, <3>1 DEF InArray, Padding
    <3>3. buf2[Cell(c, i, j, k)] = n
      BY <1>2, <1>3, <2>2
    <3>4. ~(x < 0) /\ ~(y < 0) /\ ~(z < 0)
      BY <1>1 DEF InArray
    <3> QED
      BY <1>1, <3>2, <3>3, <3>4, Zenon DEF CellHolds
  <2>3. CASE Cell(c, i, j, k) # a
    <3>1. buf2[Cell(c, i, j, k)] = buf[Cell(c, i, j, k)]
      BY <1>2, <1>3, <2>3
    <3>2. ~(u = x /\ v = y /\ w = z)
      <4> SUFFICES ASSUME u = x, v = y, w = z PROVE FALSE
        OBVIOUS
      <4>1. i \in Int /\ j \in Int /\ k \in Int /\ h \in Int
        BY <1>1, <1>5 DEF InBuffer
      <4>2. j = y + Padding /\ k = z + Padding
        BY <4>1 DEF Padding
      <4>3. b.block[1] * c.block_size \in Int
        <5>1. b.block[1] \in Nat /\ c.block_size \in Nat
          BY LoopsAre DEF AtElement
        <5> QED
          BY <5>1
      <4>4. i = h
        BY <1>4, <4>1, <4>3 DEF Plane, Padding
      <4> QED
        BY <1>1, <2>3, <4>2, <4>4
    <3>3. InArray(c, u, v, w) => (IsCoded(c, b, e + 1, u, v, w) => IsCoded(c, b, e, u, v, w))
      <4> SUFFICES ASSUME InArray(c, u, v, w), IsCoded(c, b, e + 1, u, v, w)
                   PROVE  IsCoded(c, b, e, u, v, w)
        OBVIOUS
      <4>1. Element(c, u, v, w) \in Coded(c, b, e + 1)
        BY CodedIs
      <4>2. Element(c, u, v, w) # n
        <5>1. /\ Coordinates(c, Element(c, u, v, w))[1] = u
              /\ Coordinates(c, Element(c, u, v, w))[2] = v
              /\ Coordinates(c, Element(c, u, v, w))[3] = w
          BY ElementIs
        <5>2. /\ Coordinates(c, Element(c, x, y, z))[1] = x
              /\ Coordinates(c, Element(c, x, y, z))[2] = y
              /\ Coordinates(c, Element(c, x, y, z))[3] = z
          BY <1>1, ElementIs
        <5> HIDE DEF Coordinates
        <5> QED
          BY <1>1, <3>2, <5>1, <5>2, Zenon
      <4>3. Element(c, u, v, w) \in Coded(c, b, e)
        BY <4>1, <4>2, CodedNext
      <4> QED
        BY <4>3, CodedIs
    <3> QED
      BY <2>1, <3>1, <3>3, Zenon DEF CellHolds
  <2> QED
    BY <2>2, <2>3
<1> QED
  BY <1>3, <1>5 DEF Held

\* Every place in the buffer is a cell.
LEMMA CellFound ==
  ASSUME NEW c \in Configs, NEW a \in 0 .. BufferSize(c) - 1
  PROVE  \E i, j, k : InBuffer(c, i, j, k) /\ a = Cell(c, i, j, k)
<1> PICK r2 \in Nat \ {0} : r2 = c.dims[2] + Padding
  BY ConfigIs DEF Padding
<1> PICK r3 \in Nat \ {0} : r3 = c.dims[3] + Padding
  BY ConfigIs DEF Padding
<1> PICK r1 \in Nat : r1 = c.block_size + Padding
  BY ConfigIs DEF Padding
<1>1. a \in Nat
  OBVIOUS
<1>2. PICK i, j, k : AreDigits(r2, r3, i, j, k) /\ a = Number(r2, r3, i, j, k)
  BY <1>1, HaveDigits
<1>3. BufferSize(c) = r1 * r2 * r3 /\ r1 * r2 * r3 \in Nat
  <2>1. BufferSize(c) = r1 * (r2 * r3)
    BY DEF BufferSize, BufferOffsets
  <2>2. r1 * (r2 * r3) = r1 * r2 * r3 /\ r1 * r2 \in Nat
    OBVIOUS
  <2> QED
    BY <2>1, <2>2
<1>4. Number(r2, r3, i, j, k) < r1 * r2 * r3
  BY <1>2, <1>3
<1>5. i < r1
  BY <1>2, <1>4, NumberBounded
<1>6. i \in 0 .. r1 - 1 /\ j \in 0 .. r2 - 1 /\ k \in 0 .. r3 - 1
  BY <1>2, <1>5 DEF AreDigits
<1>7. InBuffer(c, i, j, k)
  <2>1. c.dims[2] \in Nat /\ c.dims[3] \in Nat /\ c.block_size \in Nat
    BY ConfigIs
  <2> QED
    BY <1>6, <2>1 DEF InBuffer, Padding
<1> QED
  BY <1>2, <1>7 DEF Cell

\* A quotient is at least what the divisor fits in.
LEMMA QuotientAbove ==
  ASSUME NEW x \in Nat, NEW s \in Nat \ {0}, NEW k \in Nat, k * s <= x
  PROVE  x \div s >= k
<1> PICK q : q = x \div s
  OBVIOUS
<1>1. q \in Nat /\ s * q <= x /\ x < s * q + s
  BY QuotientOf
<1>2. s * q = q * s /\ q * s \in Nat /\ k * s \in Nat
  BY <1>1
<1>3. q < k => q * s + s <= k * s
  BY <1>1, OneStride
<1> QED
  BY <1>1, <1>2, <1>3

\* A plane further down in the buffer.
LEMMA PlaneBelow ==
  ASSUME NEW c \in Configs, NEW i, NEW j, NEW k, InBuffer(c, i, j, k)
  PROVE  /\ Cell(c, i, j, k) < Padding * BufferOffsets(c)[1] <=> i < Padding
         /\ Cell(c, i, j, k) + c.block_size * BufferOffsets(c)[1]
              = Cell(c, i + c.block_size, j, k)
<1> PICK s \in Nat : s = c.block_size
  BY ConfigIs
<1> PICK r2 \in Nat \ {0} : r2 = c.dims[2] + Padding
  BY ConfigIs DEF Padding
<1> PICK r3 \in Nat \ {0} : r3 = c.dims[3] + Padding
  BY ConfigIs DEF Padding
<1>1. BufferOffsets(c)[1] = r2 * r3
  BY DEF BufferOffsets
<1>2. /\ AreDigits(r2, r3, i, j, k) /\ Cell(c, i, j, k) = Number(r2, r3, i, j, k)
      /\ i \in Nat /\ j \in Nat /\ k \in Nat
  <2>1. c.dims[2] \in Nat /\ c.dims[3] \in Nat
    BY ConfigIs
  <2> QED
    BY <2>1 DEF InBuffer, AreDigits, Cell, Padding
<1>3. i < 2 <=> Number(r2, r3, i, j, k) < 2 * r2 * r3
  BY <1>2, NumberBounded
<1>4. 2 * r2 * r3 = 2 * (r2 * r3)
  OBVIOUS
<1>5. Number(r2, r3, s, 0, 0) = s * (r2 * r3)
  <2>1. s * r2 * r3 = s * (r2 * r3) /\ s * r2 \in Nat
    OBVIOUS
  <2> PICK p \in Nat : p = s * r2
    BY <2>1
  <2>2. (p + 0) * r3 + 0 = p * r3
    OBVIOUS
  <2> QED
    BY <2>1, <2>2 DEF Number
<1>6. /\ Number(r2, r3, i, j, k) + Number(r2, r3, s, 0, 0) = Number(r2, r3, i + s, j, k)
  <2>1. AreSums(i, j, k, s, 0, 0, i + s, j, k)
    BY <1>2 DEF AreSums
  <2> QED
    BY <2>1, NumberSum
<1>7. Cell(c, i + s, j, k) = Number(r2, r3, i + s, j, k)
  BY DEF Cell
<1>8. Cell(c, i, j, k) < Padding * BufferOffsets(c)[1] <=> i < Padding
  BY <1>1, <1>2, <1>3, <1>4 DEF Padding
<1> QED
  BY <1>1, <1>2, <1>5, <1>6, <1>7, <1>8

\* What the planes have before and after a layer of blocks.
LEMMA PlanesOn ==
  ASSUME NEW c \in Configs, NEW b, InBlocks(c, b), NEW next, next.block[1] = b.block[1] + 1,
         NEW i \in Int
  PROVE  /\ Plane(c, next, i) \in Int
         /\ Plane(c, next, i) = Plane(c, b, i + c.block_size)
         /\ i >= Padding => Plane(c, next, i) >= next.block[1] * c.block_size
         /\ i >= 0 => Plane(c, next, i) >= 0
<1> PICK s \in Nat : s = c.block_size /\ s >= 2
  BY ConfigIs
<1> PICK b1 \in Nat : b1 = b.block[1]
  BY LoopsAre
<1> PICK p \in Nat : p = b1 * s
  BY Products
<1>1. (b1 + 1) * s = p + s
  BY Products
<1>2. Plane(c, next, i) = p + s + i - 2
  BY <1>1 DEF Plane, Padding
<1>3. Plane(c, b, i + s) = p + (i + s) - 2
  BY DEF Plane, Padding
<1>4. next.block[1] * c.block_size = p + s
  BY <1>1
<1> QED
  BY <1>2, <1>3, <1>4 DEF Padding

\* The buffer has what it should when its bottom is copied to its top.
LEMMA HeldCopy ==
  ASSUME NEW c \in Configs, NEW buf, NEW b, InBlocks(c, b), LastOfLayer(c, b),
         Held(c, buf, b, Volume(c, b))
  PROVE  Held(c, CopyBottom(c, buf), Advance(c, b), 0)
<1> PICK s \in Nat : s = c.block_size /\ s >= 2
  BY ConfigIs
<1> PICK next : next = Advance(c, b)
  OBVIOUS
<1> PICK copy : copy = CopyBottom(c, buf)
  OBVIOUS
<1>1. /\ Coded(c, next, 0) = Coded(c, b, Volume(c, b))
      /\ next.block[1] = b.block[1] + 1 /\ next.block[2] = 0 /\ next.block[3] = 0
  BY CodedBlock
<1>2. buf \in [0 .. BufferSize(c) - 1 -> Int]
  BY DEF Held
<1>3. \A i, j, k : InBuffer(c, i, j, k) =>
        copy[Cell(c, i, j, k)] = IF i < Padding THEN buf[Cell(c, i + s, j, k)]
                                 ELSE buf[Cell(c, i, j, k)]
  <2> SUFFICES ASSUME NEW i, NEW j, NEW k, InBuffer(c, i, j, k)
               PROVE  copy[Cell(c, i, j, k)] = IF i < Padding THEN buf[Cell(c, i + s, j, k)]
                                               ELSE buf[Cell(c, i, j, k)]
    OBVIOUS
  <2> PICK a : a = Cell(c, i, j, k)
    OBVIOUS
  <2>1. a \in 0 .. BufferSize(c) - 1
    BY CellIs
  <2>2. copy[a] = IF a < Padding * BufferOffsets(c)[1]
                  THEN buf[a + c.block_size * BufferOffsets(c)[1]] ELSE buf[a]
    BY <1>2, <2>1 DEF CopyBottom
  <2>3. (a < Padding * BufferOffsets(c)[1] <=> i < Padding)
        /\ a + c.block_size * BufferOffsets(c)[1] = Cell(c, i + s, j, k)
    BY PlaneBelow
  <2> QED
    BY <2>2, <2>3
<1>4. \A i, j, k : InBuffer(c, i, j, k) /\ i < Padding => InBuffer(c, i + s, j, k)
  BY DEF InBuffer, Padding
<1>5. copy \in [0 .. BufferSize(c) - 1 -> Int]
  <2>1. ASSUME NEW a \in 0 .. BufferSize(c) - 1 PROVE copy[a] \in Int
    <3>1. \E i, j, k : InBuffer(c, i, j, k) /\ a = Cell(c, i, j, k)
      BY CellFound
    <3>2. PICK i, j, k : InBuffer(c, i, j, k) /\ a = Cell(c, i, j, k)
      BY <3>1
    <3>3. copy[a] = IF i < Padding THEN buf[Cell(c, i + s, j, k)] ELSE buf[Cell(c, i, j, k)]
      BY <1>3, <3>2
    <3>4. i < Padding => Cell(c, i + s, j, k) \in 0 .. BufferSize(c) - 1
      BY <1>4, <3>2, CellIs
    <3> QED
      BY <1>2, <3>2, <3>3, <3>4
  <2>2. copy = [a \in 0 .. BufferSize(c) - 1 |-> copy[a]]
    BY <1>2 DEF CopyBottom
  <2> QED
    BY <2>1, <2>2
<1>6. ASSUME NEW i, NEW j, NEW k, InBuffer(c, i, j, k)
      PROVE  CellHolds(c, copy[Cell(c, i, j, k)], next, 0, Plane(c, next, i), j - Padding, k - Padding)
  <2> PICK x : x = Plane(c, next, i)
    OBVIOUS
  <2> PICK y : y = j - Padding
    OBVIOUS
  <2> PICK z : z = k - Padding
    OBVIOUS
  <2>0. i \in Int /\ i >= 0
    BY <1>6 DEF InBuffer
  <2>1. x \in Int /\ x >= 0 /\ x = Plane(c, b, i + s)
        /\ (i >= Padding => x >= next.block[1] * s)
    BY <1>1, <2>0, PlanesOn
  <2>2. CASE i < Padding
    <3>1. CellHolds(c, buf[Cell(c, i + s, j, k)], b, Volume(c, b), x, y, z)
      BY <1>4, <1>6, <2>1, <2>2 DEF Held
    <3>2. copy[Cell(c, i, j, k)] = buf[Cell(c, i + s, j, k)]
      BY <1>3, <1>6, <2>2
    <3>3. InArray(c, x, y, z) => (IsCoded(c, next, 0, x, y, z) <=> IsCoded(c, b, Volume(c, b), x, y, z))
      BY <1>1, CodedIs
    <3> QED
      BY <3>1, <3>2, <3>3, Zenon DEF CellHolds
  <2>3. CASE ~(i < Padding)
    <3>1. copy[Cell(c, i, j, k)] = buf[Cell(c, i, j, k)]
      BY <1>3, <1>6, <2>3
    <3>2. y < 0 \/ z < 0 => buf[Cell(c, i, j, k)] = Zero
      <4>1. CellHolds(c, buf[Cell(c, i, j, k)], b, Volume(c, b), Plane(c, b, i), y, z)
        BY <1>6 DEF Held
      <4> QED
        BY <4>1, Zenon DEF CellHolds
    <3>3. InArray(c, x, y, z) => ~IsCoded(c, next, 0, x, y, z)
      <4> SUFFICES ASSUME InArray(c, x, y, z), IsCoded(c, next, 0, x, y, z) PROVE FALSE
        OBVIOUS
      <4> PICK k1 : k1 = x \div s
        OBVIOUS
      <4> PICK k2 : k2 = y \div s
        OBVIOUS
      <4> PICK k3 : k3 = z \div s
        OBVIOUS
      <4>1. k1 \in Nat /\ k2 \in Nat /\ k3 \in Nat /\ Nth(c, x, y, z) \in Nat
        <5>1. /\ k1 \in 0 .. Num(c)[1] - 1 /\ k2 \in 0 .. Num(c)[2] - 1
              /\ k3 \in 0 .. Num(c)[3] - 1 /\ Nth(c, x, y, z) \in Nat
          BY BlockIs, Zenon
        <5> QED
          BY <5>1
      <4> PICK m \in Nat : m = next.block[1]
        BY <1>1, LoopsAre
      <4>2. k1 >= m
        <5>1. x \in Nat /\ s \in Nat \ {0}
          BY <2>1
        <5>2. m * s <= x
          BY <2>0, <2>1, <2>3 DEF Padding
        <5> QED
          BY <5>1, <5>2, QuotientAbove
      <4>3. Ahead(k1, k2, k3, m, 0, 0) \/ Nth(c, x, y, z) < 0
        BY <1>1 DEF IsCoded
      <4> QED
        BY <4>1, <4>2, <4>3 DEF Ahead
    <3>4. ~(x < 0)
      BY <2>1
    <3> QED
      BY <3>1, <3>2, <3>3, <3>4, Zenon DEF CellHolds
  <2> QED
    BY <2>2, <2>3
<1> QED
  BY <1>5, <1>6 DEF Held

-----------------------------------------------------------------------------
(* Predictions.                                                            *)

\* What the cell so many places before an element should have.
Before(c, n, t) ==
  IF \E d \in 1 .. 3 : Coordinates(c, n)[d] < t[d] THEN Zero
  ELSE Along([d \in 1 .. 3 |-> Coordinates(c, n)[d] - t[d]], Offsets(c))

\* What a prediction of the element should be made from.
Prediction(c, n, by, coeffs) ==
  IF by = "regression" THEN [coeffs |-> coeffs, cells |-> <<>>]
  ELSE [coeffs |-> 0, cells |-> [t \in Terms(c, by) |-> Before(c, n, t)]]

\* Quotients are monotonic.
LEMMA QuotientsGrow ==
  ASSUME NEW u \in Nat, NEW x \in Nat, u <= x, NEW s \in Nat \ {0}
  PROVE  u \div s \in Nat /\ x \div s \in Nat /\ u \div s <= x \div s
<1> PICK q : q = u \div s
  OBVIOUS
<1>1. q \in Nat /\ s * q <= u
  BY QuotientOf
<1>2. q * s <= x
  BY <1>1
<1>3. x \div s >= q
  BY <1>1, <1>2, QuotientAbove
<1> QED
  BY <1>1, <1>3, QuotientOf

\* Of two elements of a block whose coordinates are no larger, the first is coded.
LEMMA SmallerCoded ==
  ASSUME NEW c \in Configs, NEW b, NEW e, AtElement(c, b, e),
         NEW u, NEW v, NEW w, InArray(c, u, v, w),
         u <= Coordinate(c, b, e, 1), v <= Coordinate(c, b, e, 2), w <= Coordinate(c, b, e, 3),
         ~(u = Coordinate(c, b, e, 1) /\ v = Coordinate(c, b, e, 2) /\ w = Coordinate(c, b, e, 3))
  PROVE  IsCoded(c, b, e, u, v, w)
<1> PICK s \in Nat \ {0} : s = c.block_size
  BY ConfigIs
<1> PICK x : x = Coordinate(c, b, e, 1)
  OBVIOUS
<1> PICK y : y = Coordinate(c, b, e, 2)
  OBVIOUS
<1> PICK z : z = Coordinate(c, b, e, 3)
  OBVIOUS
<1>1. /\ InArray(c, x, y, z)
      /\ x \div s = b.block[1] /\ y \div s = b.block[2] /\ z \div s = b.block[3]
      /\ Nth(c, x, y, z) = e
  BY HereIs
<1>2. /\ x \in Nat /\ y \in Nat /\ z \in Nat /\ u \in Nat /\ v \in Nat /\ w \in Nat
  BY <1>1 DEF InArray
<1>6. /\ AreDigits(Left(c.dims[2], s, v \div s), Left(c.dims[3], s, w \div s), u % s, v % s, w % s)
      /\ u = (u \div s) * s + (u % s) /\ v = (v \div s) * s + (v % s)
      /\ w = (w \div s) * s + (w % s)
  <2> HIDE DEF Coordinate
  <2> QED
    BY BlockIs
<1>7. /\ AreDigits(Left(c.dims[2], s, y \div s), Left(c.dims[3], s, z \div s), x % s, y % s, z % s)
      /\ x = (x \div s) * s + (x % s) /\ y = (y \div s) * s + (y % s)
      /\ z = (z \div s) * s + (z % s)
  BY <1>1, BlockIs
<1> PICK k1 : k1 = u \div s
  OBVIOUS
<1> PICK k2 : k2 = v \div s
  OBVIOUS
<1> PICK k3 : k3 = w \div s
  OBVIOUS
<1> PICK m1 : m1 = x \div s
  OBVIOUS
<1> PICK m2 : m2 = y \div s
  OBVIOUS
<1> PICK m3 : m3 = z \div s
  OBVIOUS
<1>3. /\ k1 \in Nat /\ k2 \in Nat /\ k3 \in Nat /\ m1 \in Nat /\ m2 \in Nat /\ m3 \in Nat
      /\ k1 <= m1 /\ k2 <= m2 /\ k3 <= m3
  BY <1>2, QuotientsGrow
<1>4. CASE k1 = m1 /\ k2 = m2 /\ k3 = m3
  <2> PICK r2 : r2 = Left(c.dims[2], s, k2)
    OBVIOUS
  <2> PICK r3 : r3 = Left(c.dims[3], s, k3)
    OBVIOUS
  <2> PICK u1 : u1 = u % s
    OBVIOUS
  <2> PICK v1 : v1 = v % s
    OBVIOUS
  <2> PICK w1 : w1 = w % s
    OBVIOUS
  <2> PICK x1 : x1 = x % s
    OBVIOUS
  <2> PICK y1 : y1 = y % s
    OBVIOUS
  <2> PICK z1 : z1 = z % s
    OBVIOUS
  <2>1. /\ AreDigits(r2, r3, u1, v1, w1) /\ u = k1 * s + u1 /\ v = k2 * s + v1 /\ w = k3 * s + w1
    BY <1>6, Zenon
  <2>2. /\ AreDigits(Left(c.dims[2], s, m2), Left(c.dims[3], s, m3), x1, y1, z1)
        /\ x = m1 * s + x1 /\ y = m2 * s + y1 /\ z = m3 * s + z1
    BY <1>7, Zenon
  <2>3. AreDigits(r2, r3, x1, y1, z1)
    BY <1>4, <2>2, Zenon
  <2> PICK p1 \in Nat : p1 = k1 * s
    BY <1>3
  <2> PICK p2 \in Nat : p2 = k2 * s
    BY <1>3
  <2> PICK p3 \in Nat : p3 = k3 * s
    BY <1>3
  <2>4. /\ u = p1 + u1 /\ v = p2 + v1 /\ w = p3 + w1 /\ x = p1 + x1 /\ y = p2 + y1 /\ z = p3 + z1
        /\ u1 \in Nat /\ v1 \in Nat /\ w1 \in Nat /\ x1 \in Nat /\ y1 \in Nat /\ z1 \in Nat
    BY <1>4, <2>1, <2>2, <2>3 DEF AreDigits
  <2>5. u1 <= x1 /\ v1 <= y1 /\ w1 <= z1 /\ ~(u1 = x1 /\ v1 = y1 /\ w1 = z1)
    BY <2>4
  <2>6. Number(r2, r3, u1, v1, w1) < Number(r2, r3, x1, y1, z1)
    BY <2>1, <2>3, <2>5, NumberBelow
  <2>7. Nth(c, u, v, w) = Number(r2, r3, u1, v1, w1)
    BY Zenon DEF Nth
  <2>8. Nth(c, x, y, z) = Number(r2, r3, x1, y1, z1)
    BY <1>4, Zenon DEF Nth
  <2>9. Nth(c, u, v, w) < e
    BY <1>1, <2>6, <2>7, <2>8, Zenon
  <2> QED
    BY <1>1, <1>4, <2>9 DEF IsCoded
<1>5. CASE ~(k1 = m1 /\ k2 = m2 /\ k3 = m3)
  <2>1. Ahead(k1, k2, k3, m1, m2, m3) \/ (k1 = m1 /\ k2 = m2 /\ k3 = m3)
    BY <1>3 DEF Ahead
  <2> QED
    BY <1>1, <1>5, <2>1, Zenon DEF IsCoded
<1> QED
  BY <1>4, <1>5

\* The cell a term of a prediction reads is for the element that many places before,
\* which is coded if the array has it.
LEMMA TermReads ==
  ASSUME NEW c \in Configs, NEW buf, NEW b, NEW e, AtElement(c, b, e), Held(c, buf, b, e),
         NEW t \in [1 .. 3 -> 0 .. 2], t # [d \in 1 .. 3 |-> 0], NEW n, n = DataAt(c, b, e)
  PROVE  /\ buf[BufferAt(c, b, e) - Along(t, BufferOffsets(c))] = Before(c, n, t)
         /\ Before(c, n, t) \in Coded(c, b, e) \cup {Zero}
<1> PICK x : x = Coordinate(c, b, e, 1)
  OBVIOUS
<1> PICK y : y = Coordinate(c, b, e, 2)
  OBVIOUS
<1> PICK z : z = Coordinate(c, b, e, 3)
  OBVIOUS
<1> PICK h : h = Place(c, b, e)[1] + Padding
  OBVIOUS
<1> PICK t1 \in 0 .. 2 : t1 = t[1]
  OBVIOUS
<1> PICK t2 \in 0 .. 2 : t2 = t[2]
  OBVIOUS
<1> PICK t3 \in 0 .. 2 : t3 = t[3]
  OBVIOUS
<1>1. /\ n = Element(c, x, y, z) /\ BufferAt(c, b, e) = Cell(c, h, y + Padding, z + Padding)
      /\ InBuffer(c, h, y + Padding, z + Padding) /\ InArray(c, x, y, z)
  BY PointersAre, HereIs
<1>2. x \in Nat /\ y \in Nat /\ z \in Nat /\ h \in Nat /\ h >= 2
  <2>1. InBlocks(c, b)
    BY DEF AtElement
  <2>2. Place(c, b, e)[1] \in 0 .. Sizes(c, b)[1] - 1
    BY PlaceIs
  <2> QED
    BY <1>1, <2>1, <2>2 DEF InArray, Padding
<1> PICK i : i = h - t1
  OBVIOUS
<1> PICK j : j = y + Padding - t2
  OBVIOUS
<1> PICK k : k = z + Padding - t3
  OBVIOUS
<1>3. InBuffer(c, i, j, k)
  <2>1. c.dims[2] \in Nat /\ c.dims[3] \in Nat /\ c.block_size \in Nat
    BY ConfigIs
  <2> QED
    BY <1>1, <1>2, <2>1 DEF InBuffer, Padding
<1>4. BufferAt(c, b, e) - Along(t, BufferOffsets(c)) = Cell(c, i, j, k)
  <2> PICK r2 \in Nat : r2 = c.dims[2] + Padding
    BY ConfigIs DEF Padding
  <2> PICK r3 \in Nat : r3 = c.dims[3] + Padding
    BY ConfigIs DEF Padding
  <2>1. BufferOffsets(c) = <<r2 * r3, r3, 1>>
    BY DEF BufferOffsets
  <2>2. Along(t, BufferOffsets(c)) = Number(r2, r3, t1, t2, t3)
    BY <2>1, AlongIs
  <2>3. AreSums(i, j, k, t1, t2, t3, h, y + Padding, z + Padding)
    BY <1>2 DEF AreSums, Padding
  <2>4. /\ Number(r2, r3, h, y + Padding, z + Padding)
             = Number(r2, r3, i, j, k) + Number(r2, r3, t1, t2, t3)
        /\ Number(r2, r3, i, j, k) \in Int /\ Number(r2, r3, t1, t2, t3) \in Int
    BY <2>3, NumberSum
  <2> QED
    BY <1>1, <2>2, <2>4 DEF Cell
<1>5. Plane(c, b, i) = x - t1 /\ j - Padding = y - t2 /\ k - Padding = z - t3
  <2>1. b.block[1] * c.block_size \in Int /\ Place(c, b, e)[1] \in Int
    <3>1. b.block[1] \in Nat /\ c.block_size \in Nat
      BY LoopsAre DEF AtElement
    <3>2. Place(c, b, e)[1] \in 0 .. Sizes(c, b)[1] - 1
      BY PlaceIs
    <3> QED
      BY <3>1, <3>2
  <2> QED
    BY <1>2, <2>1 DEF Plane, Coordinate, Padding
<1> PICK u : u = x - t1
  OBVIOUS
<1> PICK v : v = y - t2
  OBVIOUS
<1> PICK w : w = z - t3
  OBVIOUS
<1>6. CellHolds(c, buf[Cell(c, i, j, k)], b, e, u, v, w)
  BY <1>3, <1>5 DEF Held
<1>7. Coordinates(c, n)[1] = x /\ Coordinates(c, n)[2] = y /\ Coordinates(c, n)[3] = z
  BY <1>1, ElementIs
<1> HIDE DEF Coordinates
<1>8. CASE u < 0 \/ v < 0 \/ w < 0
  <2>1. buf[Cell(c, i, j, k)] = Zero
    BY <1>6, <1>8, Zenon DEF CellHolds
  <2>2. Before(c, n, t) = Zero
    <3>1. Coordinates(c, n)[1] < t[1] \/ Coordinates(c, n)[2] < t[2] \/ Coordinates(c, n)[3] < t[3]
      BY <1>2, <1>7, <1>8
    <3> QED
      BY <3>1 DEF Before
  <2> QED
    BY <1>4, <2>1, <2>2
<1>9. CASE ~(u < 0 \/ v < 0 \/ w < 0)
  <2>1. InArray(c, u, v, w)
    <3>1. u \in Nat /\ v \in Nat /\ w \in Nat /\ u <= x /\ v <= y /\ w <= z
      BY <1>2, <1>9
    <3>2. /\ x <= c.dims[1] - 1 /\ y <= c.dims[2] - 1 /\ z <= c.dims[3] - 1
          /\ c.dims[1] \in Nat /\ c.dims[2] \in Nat /\ c.dims[3] \in Nat
      BY <1>1, ConfigIs DEF InArray
    <3> QED
      BY <1>2, <3>1, <3>2 DEF InArray
  <2>2. Before(c, n, t) = Element(c, u, v, w)
    <3>1. ~\E d \in 1 .. 3 : Coordinates(c, n)[d] < t[d]
      <4>1. \A d \in 1 .. 3 : d = 1 \/ d = 2 \/ d = 3
        OBVIOUS
      <4>2. ~(x < t1) /\ ~(y < t2) /\ ~(z < t3)
        BY <1>2, <1>9
      <4> QED
        BY <1>7, <4>1, <4>2, Zenon
    <3> PICK p : p = [d \in 1 .. 3 |-> Coordinates(c, n)[d] - t[d]]
      OBVIOUS
    <3>2. p[1] = u /\ p[2] = v /\ p[3] = w
      BY <1>7
    <3>3. Along(p, Offsets(c)) = Number(c.dims[2], c.dims[3], u, v, w)
      <4>1. u \in Int /\ v \in Int /\ w \in Int
        BY <1>2
      <4>2. c.dims[2] \in Nat /\ c.dims[3] \in Nat
        BY ConfigIs
      <4>3. Offsets(c) = <<c.dims[2] * c.dims[3], c.dims[3], 1>>
        BY DEF Offsets
      <4>4. Along(p, <<c.dims[2] * c.dims[3], c.dims[3], 1>>)
              = Number(c.dims[2], c.dims[3], p[1], p[2], p[3])
        BY <3>2, <4>1, <4>2, AlongIs
      <4> QED
        BY <3>2, <4>3, <4>4
    <3>4. Before(c, n, t) = Along(p, Offsets(c))
      BY <3>1 DEF Before
    <3> QED
      BY <3>3, <3>4 DEF Element
  <2>3. IsCoded(c, b, e, u, v, w)
    <3>1. u <= x /\ v <= y /\ w <= z /\ ~(u = x /\ v = y /\ w = z)
      <4>1. ~(t1 = 0 /\ t2 = 0 /\ t3 = 0)
        <5> SUFFICES ASSUME t1 = 0, t2 = 0, t3 = 0 PROVE FALSE
          OBVIOUS
        <5>1. \A d \in 1 .. 3 : d = 1 \/ d = 2 \/ d = 3
          OBVIOUS
        <5>2. \A d \in 1 .. 3 : t[d] = 0
          BY <5>1, Zenon
        <5>3. t = [d \in 1 .. 3 |-> t[d]]
          OBVIOUS
        <5> QED
          BY <5>2, <5>3, Zenon
      <4> QED
        BY <1>2, <4>1
    <3> QED
      BY <1>1, <2>1, <3>1, SmallerCoded
  <2>4. buf[Cell(c, i, j, k)] = Element(c, u, v, w)
    BY <1>6, <2>1, <2>3, Zenon DEF CellHolds
  <2>5. Element(c, u, v, w) \in Coded(c, b, e)
    BY <2>1, <2>3, CodedIs
  <2> QED
    BY <1>4, <2>2, <2>4, <2>5
<1> QED
  BY <1>8, <1>9

\* A prediction is made from what it should be made from, and reads coded elements.
LEMMA PredictIs ==
  ASSUME NEW c \in Configs, NEW buf, NEW b, NEW e, AtElement(c, b, e), Held(c, buf, b, e),
         NEW by, NEW coeffs, NEW n, n = DataAt(c, b, e), NEW pred,
         pred = Predict(c, buf, b, e, by, coeffs)
  PROVE  /\ pred = Prediction(c, n, by, coeffs)
         /\ {pred.cells[t] : t \in DOMAIN pred.cells} \ {Zero, Garbage} \subseteq Coded(c, b, e)
<1>1. CASE by = "regression"
  <2>1. pred = [coeffs |-> coeffs, cells |-> <<>>]
    BY <1>1 DEF Predict
  <2>2. pred = Prediction(c, n, by, coeffs)
    BY <1>1, <2>1 DEF Prediction
  <2>3. DOMAIN pred.cells = {}
    BY <2>1
  <2> QED
    BY <2>2, <2>3
<1>2. CASE by # "regression"
  <2>1. \A t \in Terms(c, by) : t \in [1 .. 3 -> 0 .. 2] /\ t # [d \in 1 .. 3 |-> 0]
    BY DEF Terms, Layers
  <2>2. \A t \in Terms(c, by) :
          /\ buf[BufferAt(c, b, e) - Along(t, BufferOffsets(c))] = Before(c, n, t)
          /\ Before(c, n, t) \in Coded(c, b, e) \cup {Zero}
    BY <2>1, TermReads
  <2>3. pred = [coeffs |-> 0,
                cells  |-> [t \in Terms(c, by) |->
                              buf[BufferAt(c, b, e) - Along(t, BufferOffsets(c))]]]
    BY <1>2 DEF Predict
  <2>4. [t \in Terms(c, by) |-> buf[BufferAt(c, b, e) - Along(t, BufferOffsets(c))]]
          = [t \in Terms(c, by) |-> Before(c, n, t)]
    BY <2>2
  <2>5. pred = [coeffs |-> 0, cells |-> [t \in Terms(c, by) |-> Before(c, n, t)]]
    BY <2>3, <2>4, Zenon
  <2>6. pred = Prediction(c, n, by, coeffs)
    BY <1>2, <2>5 DEF Prediction
  <2>7. /\ DOMAIN pred.cells = Terms(c, by)
        /\ \A t \in Terms(c, by) : pred.cells[t] = Before(c, n, t)
    BY <2>5
  <2> QED
    BY <2>2, <2>6, <2>7
<1> QED
  BY <1>1, <1>2

-----------------------------------------------------------------------------
(* Where the lists have what is said of an element and of a block.         *)

\* The elements the loops have been at when they come to n.
Earlier(c, n) ==
  LET x == Coordinates(c, n)[1]
      y == Coordinates(c, n)[2]
      z == Coordinates(c, n)[3]
  IN  Coded(c, [block |-> [d \in 1 .. 3 |-> Coordinates(c, n)[d] \div c.block_size]],
            Nth(c, x, y, z))

LEMMA EarlierIs ==
  ASSUME NEW c \in Configs, NEW b, NEW e, AtElement(c, b, e), NEW n, n = DataAt(c, b, e)
  PROVE  Earlier(c, n) = Coded(c, b, e)
<1> PICK x : x = Coordinate(c, b, e, 1)
  OBVIOUS
<1> PICK y : y = Coordinate(c, b, e, 2)
  OBVIOUS
<1> PICK z : z = Coordinate(c, b, e, 3)
  OBVIOUS
<1>1. /\ InArray(c, x, y, z) /\ n = Element(c, x, y, z)
      /\ x \div c.block_size = b.block[1] /\ y \div c.block_size = b.block[2]
      /\ z \div c.block_size = b.block[3]
      /\ Nth(c, x, y, z) = e
  BY HereIs, PointersAre
<1>2. Coordinates(c, n)[1] = x /\ Coordinates(c, n)[2] = y /\ Coordinates(c, n)[3] = z
  BY <1>1, ElementIs
<1> HIDE DEF Coordinates
<1> PICK f : f = [d \in 1 .. 3 |-> Coordinates(c, n)[d] \div c.block_size]
  OBVIOUS
<1>3. f[1] = b.block[1] /\ f[2] = b.block[2] /\ f[3] = b.block[3]
  BY <1>1, <1>2
<1> PICK b2 : b2 = [block |-> f]
  OBVIOUS
<1>4. b2.block = f
  OBVIOUS
<1>5. Coded(c, b2, e) = Coded(c, b, e)
  BY <1>3, <1>4, Zenon DEF Coded, IsCoded
<1>6. Earlier(c, n) = Coded(c, b2, Nth(c, x, y, z))
  BY <1>2, Zenon DEF Earlier
<1> QED
  BY <1>1, <1>5, <1>6, Zenon

\* The number of a block, and of the block of an element.
BlockNo(c, b) == Number(Num(c)[2], Num(c)[3], b.block[1], b.block[2], b.block[3])
BlockOf(c, n) ==
  Number(Num(c)[2], Num(c)[3], Coordinates(c, n)[1] \div c.block_size,
         Coordinates(c, n)[2] \div c.block_size, Coordinates(c, n)[3] \div c.block_size)

LEMMA BlockOfIs ==
  ASSUME NEW c \in Configs, NEW b, NEW e, AtElement(c, b, e), NEW n, n = DataAt(c, b, e)
  PROVE  BlockOf(c, n) = BlockNo(c, b)
<1> PICK x : x = Coordinate(c, b, e, 1)
  OBVIOUS
<1> PICK y : y = Coordinate(c, b, e, 2)
  OBVIOUS
<1> PICK z : z = Coordinate(c, b, e, 3)
  OBVIOUS
<1>1. /\ InArray(c, x, y, z) /\ n = Element(c, x, y, z)
      /\ x \div c.block_size = b.block[1] /\ y \div c.block_size = b.block[2]
      /\ z \div c.block_size = b.block[3]
  BY HereIs, PointersAre
<1>2. Coordinates(c, n)[1] = x /\ Coordinates(c, n)[2] = y /\ Coordinates(c, n)[3] = z
  BY <1>1, ElementIs
<1> HIDE DEF Coordinates
<1> QED
  BY <1>1, <1>2, Zenon DEF BlockOf, BlockNo

\* One more is carried from the last digit z, and the digit before it becomes v.
Carried(r2, r3, x, y, z, v) ==
  r2 \in Nat /\ r3 \in Nat /\ x \in Nat /\ y \in Nat /\ z \in Nat /\ z + 1 = r3 /\ v = y + 1

LEMMA CarryOnce ==
  ASSUME NEW r2, NEW r3, NEW x, NEW y, NEW z, NEW v, Carried(r2, r3, x, y, z, v)
  PROVE  Number(r2, r3, x, v, 0) = Number(r2, r3, x, y, z) + 1
<1> USE DEF Carried
<1> PICK p \in Nat : p = x * r2
  BY Products
<1> PICK q \in Nat : q = p + y
  OBVIOUS
<1>1. (q + 1) * r3 = q * r3 + r3 /\ q * r3 \in Nat
  OBVIOUS
<1>2. Number(r2, r3, x, v, 0) = (q + 1) * r3 + 0
  <2>1. p + (y + 1) = q + 1
    OBVIOUS
  <2> QED
    BY <2>1 DEF Number
<1>3. Number(r2, r3, x, y, z) = q * r3 + z
  BY DEF Number
<1> QED
  BY <1>1, <1>2, <1>3

LEMMA CarryTwice ==
  ASSUME NEW r2 \in Nat, NEW r3 \in Nat, NEW x \in Nat, NEW y \in Nat, NEW z \in Nat,
         z + 1 = r3, y + 1 = r2, NEW u, u = x + 1
  PROVE  Number(r2, r3, u, 0, 0) = Number(r2, r3, x, y, z) + 1
<1> PICK v : v = y + 1
  OBVIOUS
<1>1. u * r2 + 0 = x * r2 + v
  <2>1. (x + 1) * r2 = x * r2 + r2 /\ x * r2 \in Nat
    BY Products
  <2> QED
    BY <2>1
<1>2. Number(r2, r3, u, 0, 0) = Number(r2, r3, x, v, 0)
  BY <1>1, Zenon DEF Number
<1>3. Number(r2, r3, x, v, 0) = Number(r2, r3, x, y, z) + 1
  <2>1. Carried(r2, r3, x, y, z, v)
    BY DEF Carried
  <2> QED
    BY <2>1, CarryOnce
<1> QED
  BY <1>2, <1>3, Zenon

\* Numbers of blocks, the first, the next and the last.
LEMMA BlockNoIs ==
  ASSUME NEW c \in Configs
  PROVE  /\ Blocks(c) \in Nat
         /\ BlockNo(c, First) = 0
         /\ \A b : /\ InBlocks(c, b) => /\ BlockNo(c, b) \in Nat /\ BlockNo(c, b) < Blocks(c)
                                        /\ BlockNo(c, Advance(c, b)) = BlockNo(c, b) + 1
                   /\ InLoops(c, b) /\ AtEnd(c, b)  => BlockNo(c, b) = Blocks(c)
<1> PICK n1 \in Nat \ {0} : n1 = Num(c)[1]
  BY NumIs
<1> PICK n2 \in Nat \ {0} : n2 = Num(c)[2]
  BY NumIs
<1> PICK n3 \in Nat \ {0} : n3 = Num(c)[3]
  BY NumIs
<1>1. n1 * n2 * n3 \in Nat /\ Blocks(c) = n1 * n2 * n3
  <2>1. n1 * n2 \in Nat
    OBVIOUS
  <2> QED
    BY <2>1 DEF Blocks
<1>2. BlockNo(c, First) = 0
  <2>1. (0 * n2 + 0) * n3 + 0 = 0
    OBVIOUS
  <2>2. First.block[1] = 0 /\ First.block[2] = 0 /\ First.block[3] = 0
    BY DEF First
  <2> QED
    BY <2>1, <2>2 DEF BlockNo, Number
<1>3. ASSUME NEW b, InBlocks(c, b)
      PROVE  /\ BlockNo(c, b) \in Nat /\ BlockNo(c, b) < Blocks(c)
             /\ BlockNo(c, Advance(c, b)) = BlockNo(c, b) + 1
  <2> PICK b1 \in 0 .. n1 - 1 : b1 = b.block[1]
    BY <1>3, LoopsAre
  <2> PICK b2 \in 0 .. n2 - 1 : b2 = b.block[2]
    BY <1>3, LoopsAre
  <2> PICK b3 \in 0 .. n3 - 1 : b3 = b.block[3]
    BY <1>3, LoopsAre
  <2>1. AreDigits(n2, n3, b1, b2, b3)
    BY DEF AreDigits
  <2>2. BlockNo(c, b) \in Nat
    BY <2>1, NumberIs DEF BlockNo
  <2>3. BlockNo(c, b) < Blocks(c)
    <3>1. b1 < n1 <=> Number(n2, n3, b1, b2, b3) < n1 * n2 * n3
      BY <2>1, NumberBounded
    <3> QED
      BY <1>1, <3>1 DEF BlockNo
  <2> PICK next : next = Advance(c, b)
    OBVIOUS
  <2>4. \/ b3 + 1 < n3 /\ next.block[1] = b1 /\ next.block[2] = b2 /\ next.block[3] = b3 + 1
        \/ b3 + 1 = n3 /\ next.block[1] = b1 /\ next.block[2] = b2 + 1 /\ next.block[3] = 0
        \/ /\ b3 + 1 = n3 /\ b2 + 1 = n2
           /\ next.block[1] = b1 + 1 /\ next.block[2] = 0 /\ next.block[3] = 0
    <3>1. b3 + 1 < n3 \/ (b3 + 1 = n3 /\ b2 + 1 < n2) \/ (b3 + 1 = n3 /\ b2 + 1 = n2)
      OBVIOUS
    <3> QED
      BY <1>3, <3>1, NextInRow, NextRow, NextLayer
  <2>5. \/ BlockNo(c, next) = Number(n2, n3, b1, b2, b3 + 1)
        \/ b3 + 1 = n3 /\ BlockNo(c, next) = Number(n2, n3, b1, b2 + 1, 0)
        \/ b3 + 1 = n3 /\ b2 + 1 = n2 /\ BlockNo(c, next) = Number(n2, n3, b1 + 1, 0, 0)
    BY <2>4, Zenon DEF BlockNo
  <2>6. Number(n2, n3, b1, b2, b3 + 1) = Number(n2, n3, b1, b2, b3) + 1
    <3> PICK p \in Nat : p = (b1 * n2 + b2) * n3
      <4>1. b1 * n2 \in Nat
        OBVIOUS
      <4>2. b1 * n2 + b2 \in Nat
        BY <4>1
      <4> QED
        BY <4>2
    <3> QED
      BY DEF Number
  <2>7. b3 + 1 = n3 => Number(n2, n3, b1, b2 + 1, 0) = Number(n2, n3, b1, b2, b3) + 1
    <3> PICK v : v = b2 + 1
      OBVIOUS
    <3>1. ASSUME b3 + 1 = n3
          PROVE  Number(n2, n3, b1, v, 0) = Number(n2, n3, b1, b2, b3) + 1
      <4>1. Carried(n2, n3, b1, b2, b3, v)
        BY <3>1 DEF Carried
      <4> QED
        BY <4>1, CarryOnce
    <3> QED
      BY <3>1
  <2>8. b3 + 1 = n3 /\ b2 + 1 = n2 => Number(n2, n3, b1 + 1, 0, 0) = Number(n2, n3, b1, b2, b3) + 1
    <3> PICK u : u = b1 + 1
      OBVIOUS
    <3>1. b3 + 1 = n3 /\ b2 + 1 = n2 => Number(n2, n3, u, 0, 0) = Number(n2, n3, b1, b2, b3) + 1
      BY CarryTwice
    <3> QED
      BY <3>1
  <2>9. BlockNo(c, b) = Number(n2, n3, b1, b2, b3)
    BY Zenon DEF BlockNo
  <2> QED
    BY <2>2, <2>3, <2>5, <2>6, <2>7, <2>8, <2>9, Zenon
<1>4. ASSUME NEW b, InLoops(c, b), AtEnd(c, b) PROVE BlockNo(c, b) = Blocks(c)
  <2>1. b.block[1] = n1
    BY <1>4 DEF AtEnd
  <2>2. b.block[2] = 0 /\ b.block[3] = 0
    BY <1>4 DEF InLoops
  <2>3. (n1 * n2 + 0) * n3 + 0 = n1 * n2 * n3
    <3> PICK p \in Nat : p = n1 * n2
      OBVIOUS
    <3>1. (p + 0) * n3 + 0 = p * n3
      OBVIOUS
    <3> QED
      BY <3>1
  <2>4. BlockNo(c, b) = (n1 * n2 + 0) * n3 + 0
    BY <2>1, <2>2 DEF BlockNo, Number
  <2> QED
    BY <1>1, <2>3, <2>4
<1> QED
  BY <1>1, <1>2, <1>3, <1>4

-----------------------------------------------------------------------------
(* Counting, and what the lists have of every element coded.               *)

\* A set of offsets has a number of elements.
LEMMA CountIs ==
  ASSUME NEW c \in Configs, NEW E, E \subseteq 0 .. Size(c) - 1
  PROVE  /\ Size(c) \in Nat
         /\ IsFiniteSet(E) /\ Cardinality(E) \in Nat /\ Cardinality(E) <= Size(c)
         /\ \A F : F \subseteq E => /\ IsFiniteSet(F) /\ Cardinality(F) \in Nat
                                    /\ Cardinality(F) <= Cardinality(E)
<1>1. Size(c) \in Nat
  <2>1. c.dims[1] * c.dims[2] \in Nat /\ c.dims[3] \in Nat
    BY ConfigIs
  <2> QED
    BY <2>1 DEF Size
<1> PICK N : N = 0 .. Size(c) - 1
  OBVIOUS
<1>2. IsFiniteSet(N) /\ Cardinality(N) = Size(c)
  BY <1>1, FS_Interval
<1>3. IsFiniteSet(E) /\ Cardinality(E) \in Nat /\ Cardinality(E) <= Size(c)
  BY <1>1, <1>2, FS_Subset, FS_CardinalityType
<1>4. ASSUME NEW F, F \subseteq E
      PROVE  IsFiniteSet(F) /\ Cardinality(F) \in Nat /\ Cardinality(F) <= Cardinality(E)
  BY <1>3, <1>4, FS_Subset, FS_CardinalityType
<1> QED
  BY <1>1, <1>3, <1>4

\* One more.
LEMMA CountOn ==
  ASSUME NEW c \in Configs, NEW E, E \subseteq 0 .. Size(c) - 1, NEW n, n \notin E
  PROVE  Cardinality(E \cup {n}) = Cardinality(E) + 1
BY CountIs, FS_AddElement

\* And of the unpredictable ones among them.
LEMMA CountHard ==
  ASSUME NEW c \in Configs, NEW E, E \subseteq 0 .. Size(c) - 1, NEW n, n \notin E
  PROVE  Cardinality((E \cup {n}) \cap c.hard)
           = IF n \in c.hard THEN Cardinality(E \cap c.hard) + 1 ELSE Cardinality(E \cap c.hard)
<1>1. CASE n \in c.hard
  <2>1. (E \cup {n}) \cap c.hard = (E \cap c.hard) \cup {n}
    BY <1>1
  <2>2. E \cap c.hard \subseteq 0 .. Size(c) - 1 /\ n \notin E \cap c.hard
    OBVIOUS
  <2> QED
    BY <1>1, <2>1, <2>2, CountOn
<1>2. CASE n \notin c.hard
  <2>1. (E \cup {n}) \cap c.hard = E \cap c.hard
    BY <1>2
  <2> QED
    BY <1>2, <2>1
<1> QED
  BY <1>1, <1>2

\* The places of an element in the bins, and of an unpredictable one in unpred.
Pos(c, n)     == Cardinality(Earlier(c, n)) + 1
HardPos(c, n) == Cardinality(Earlier(c, n) \cap c.hard) + 1

\* What an element of a block with this predictor is coded as.
Bin(c, n, by) ==
  [unpred |-> n \in c.hard, pred |-> Prediction(c, n, by, BlockOf(c, n) + 1), cur |-> n]

\* Its event.
Made(n, pred) ==
  [at |-> n, reads |-> {pred.cells[t] : t \in DOMAIN pred.cells} \ {Zero, Garbage}]
Happens(c, n, by) == Made(n, Prediction(c, n, by, BlockOf(c, n) + 1))

\* The lists have an element.
HasElement(c, ind, bins, hards, events, n) ==
  LET by == ind[BlockOf(c, n) + 1]
  IN  /\ BlockOf(c, n) + 1 \in 1 .. Len(ind)
      /\ Pos(c, n) \in 1 .. Len(bins)
      /\ bins[Pos(c, n)] = Bin(c, n, by)
      /\ events[Pos(c, n)] = {Happens(c, n, by)}
      /\ n \in c.hard => HardPos(c, n) \in 1 .. Len(hards) /\ hards[HardPos(c, n)] = n

\* The lists have the elements of E and no others.
HaveElements(c, ind, bins, hards, events, E) ==
  /\ E \subseteq 0 .. Size(c) - 1
  /\ IsSeq(bins) /\ Len(bins) = Cardinality(E)
  /\ IsSeq(hards) /\ Len(hards) = Cardinality(E \cap c.hard)
  /\ IsSeq(events) /\ Len(events) = Cardinality(E)
  /\ \A n \in E : HasElement(c, ind, bins, hards, events, n)

\* They have none at the outset.
LEMMA HaveNone ==
  ASSUME NEW c \in Configs
  PROVE  HaveElements(c, <<>>, <<>>, <<>>, <<>>, {})
<1>1. IsSeq(<<>>) /\ Len(<<>>) = 0
  BY DEF IsSeq
<1>2. Cardinality({}) = 0 /\ {} \cap c.hard = {}
  BY FS_EmptySet
<1> QED
  BY <1>1, <1>2 DEF HaveElements

\* They have what they had when the predictor of another block is appended.
LEMMA HaveMore ==
  ASSUME NEW c \in Configs, NEW ind, IsSeq(ind), NEW by, NEW bins, NEW hards, NEW events, NEW E,
         HaveElements(c, ind, bins, hards, events, E)
  PROVE  HaveElements(c, Append(ind, by), bins, hards, events, E)
<1> PICK more : more = Append(ind, by)
  OBVIOUS
<1>1. Len(ind) \in Nat /\ Len(more) = Len(ind) + 1 /\ \A k \in 1 .. Len(ind) : more[k] = ind[k]
  BY AppendIs
<1>2. ASSUME NEW n \in E PROVE HasElement(c, more, bins, hards, events, n)
  <2>1. HasElement(c, ind, bins, hards, events, n)
    BY DEF HaveElements
  <2> PICK k : k = BlockOf(c, n) + 1
    OBVIOUS
  <2>2. k \in 1 .. Len(ind) /\ k \in 1 .. Len(more) /\ more[k] = ind[k]
    BY <1>1, <2>1 DEF HasElement
  <2> QED
    BY <2>1, <2>2, Zenon DEF HasElement
<1> QED
  BY <1>2 DEF HaveElements

\* They have one more element when it is appended.
LEMMA HaveOneMore ==
  ASSUME NEW c \in Configs, NEW ind, NEW bins, NEW hards, NEW events, NEW E,
         HaveElements(c, ind, bins, hards, events, E),
         NEW n \in 0 .. Size(c) - 1, n \notin E, Earlier(c, n) = E,
         BlockOf(c, n) + 1 \in 1 .. Len(ind),
         NEW bin, bin = Bin(c, n, ind[BlockOf(c, n) + 1]),
         NEW event, event = Happens(c, n, ind[BlockOf(c, n) + 1]),
         NEW hards2, hards2 = IF n \in c.hard THEN Append(hards, n) ELSE hards
  PROVE  HaveElements(c, ind, Append(bins, bin), hards2, Append(events, {event}), E \cup {n})
<1> PICK bins2 : bins2 = Append(bins, bin)
  OBVIOUS
<1> PICK events2 : events2 = Append(events, {event})
  OBVIOUS
<1>1. /\ Len(bins) \in Nat /\ IsSeq(bins2) /\ Len(bins2) = Len(bins) + 1
      /\ bins2[Len(bins) + 1] = bin /\ \A k \in 1 .. Len(bins) : bins2[k] = bins[k]
  BY AppendIs DEF HaveElements
<1>2. /\ IsSeq(events2) /\ Len(events2) = Len(events) + 1
      /\ events2[Len(events) + 1] = {event}
      /\ \A k \in 1 .. Len(events) : events2[k] = events[k]
  BY AppendIs DEF HaveElements
<1>3. /\ Len(hards) \in Nat /\ IsSeq(hards2)
      /\ Len(hards2) = IF n \in c.hard THEN Len(hards) + 1 ELSE Len(hards)
      /\ n \in c.hard => hards2[Len(hards) + 1] = n
      /\ \A k \in 1 .. Len(hards) : hards2[k] = hards[k]
  <2>1. CASE n \in c.hard
    BY <2>1, AppendIs DEF HaveElements
  <2>2. CASE n \notin c.hard
    BY <2>2, LengthIs DEF HaveElements
  <2> QED
    BY <2>1, <2>2
<1>4. /\ Len(bins) = Cardinality(E) /\ Len(events) = Cardinality(E)
      /\ Len(hards) = Cardinality(E \cap c.hard) /\ E \subseteq 0 .. Size(c) - 1
  BY DEF HaveElements
<1>5. Cardinality(E \cup {n}) = Cardinality(E) + 1
  BY <1>4, CountOn
<1>6. Cardinality((E \cup {n}) \cap c.hard)
        = IF n \in c.hard THEN Cardinality(E \cap c.hard) + 1 ELSE Cardinality(E \cap c.hard)
  BY <1>4, CountHard
<1>7. ASSUME NEW m \in E PROVE HasElement(c, ind, bins2, hards2, events2, m)
  <2>1. HasElement(c, ind, bins, hards, events, m)
    BY DEF HaveElements
  <2> PICK p : p = Pos(c, m)
    OBVIOUS
  <2> PICK q : q = HardPos(c, m)
    OBVIOUS
  <2>2. p \in 1 .. Len(bins)
    BY <2>1 DEF HasElement
  <2>3. p \in 1 .. Len(bins2) /\ bins2[p] = bins[p] /\ events2[p] = events[p]
    BY <1>1, <1>2, <1>4, <2>2
  <2>4. m \in c.hard => q \in 1 .. Len(hards)
    BY <2>1 DEF HasElement
  <2>5. m \in c.hard => q \in 1 .. Len(hards2) /\ hards2[q] = hards[q]
    BY <1>3, <2>4
  <2> QED
    BY <2>1, <2>3, <2>5, Zenon DEF HasElement
<1>8. HasElement(c, ind, bins2, hards2, events2, n)
  <2>1. Pos(c, n) = Len(bins) + 1 /\ Pos(c, n) = Len(events) + 1
    BY <1>4 DEF Pos
  <2>2. HardPos(c, n) = Len(hards) + 1
    BY <1>4 DEF HardPos
  <2>3. Pos(c, n) \in 1 .. Len(bins2) /\ bins2[Pos(c, n)] = bin /\ events2[Pos(c, n)] = {event}
    BY <1>1, <1>2, <2>1
  <2>4. n \in c.hard => HardPos(c, n) \in 1 .. Len(hards2) /\ hards2[HardPos(c, n)] = n
    BY <1>3, <2>2
  <2> QED
    BY <2>3, <2>4, Zenon DEF HasElement
<1>9. E \cup {n} \subseteq 0 .. Size(c) - 1
  BY <1>4
<1> QED
  BY <1>1, <1>2, <1>3, <1>4, <1>5, <1>6, <1>7, <1>8, <1>9 DEF HaveElements

-----------------------------------------------------------------------------
(* The coefficients of regression blocks.                                  *)

\* Numbers up to k are counted one by one.
LEMMA CountUpTo ==
  ASSUME NEW k \in Nat, NEW S, S \subseteq 1 .. k
  PROVE  /\ Cardinality(S) \in Nat /\ Cardinality(S) <= k
         /\ \A T : T \subseteq S => Cardinality(T) \in Nat /\ Cardinality(T) <= Cardinality(S)
         /\ Cardinality(S \cup {k + 1}) = Cardinality(S) + 1
<1>1. IsFiniteSet(1 .. k) /\ Cardinality(1 .. k) = k
  BY FS_Interval
<1>2. IsFiniteSet(S) /\ Cardinality(S) \in Nat /\ Cardinality(S) <= k
  BY <1>1, FS_Subset, FS_CardinalityType
<1>3. ASSUME NEW T, T \subseteq S PROVE Cardinality(T) \in Nat /\ Cardinality(T) <= Cardinality(S)
  BY <1>2, <1>3, FS_Subset, FS_CardinalityType
<1>4. k + 1 \notin S
  OBVIOUS
<1>5. Cardinality(S \cup {k + 1}) = Cardinality(S) + 1
  BY <1>2, <1>4, FS_AddElement
<1> QED
  BY <1>2, <1>3, <1>5

\* How many of the first k blocks are regression blocks.
Fits(ind, k) == Cardinality({j \in 1 .. k : ind[j] = "regression"})

LEMMA FitsAre ==
  ASSUME NEW ind, NEW k \in Nat
  PROVE  /\ Fits(ind, 0) = 0
         /\ Fits(ind, k) \in Nat /\ Fits(ind, k) <= k
         /\ ind[k + 1] = "regression" => Fits(ind, k + 1) = Fits(ind, k) + 1
         /\ ind[k + 1] # "regression" => Fits(ind, k + 1) = Fits(ind, k)
         /\ \A j \in 0 .. k : Fits(ind, j) \in Nat /\ Fits(ind, j) <= Fits(ind, k)
         /\ \A longer : (\A j \in 1 .. k : longer[j] = ind[j]) => Fits(longer, k) = Fits(ind, k)
<1> PICK S : S = {j \in 1 .. k : ind[j] = "regression"}
  OBVIOUS
<1>0. S \subseteq 1 .. k /\ Fits(ind, k) = Cardinality(S)
  BY DEF Fits
<1>1. Fits(ind, 0) = 0
  <2>1. {j \in 1 .. 0 : ind[j] = "regression"} = {}
    OBVIOUS
  <2> QED
    BY <2>1, FS_EmptySet DEF Fits
<1>2. Fits(ind, k) \in Nat /\ Fits(ind, k) <= k
  BY <1>0, CountUpTo
<1>3. /\ ind[k + 1] = "regression" => Fits(ind, k + 1) = Fits(ind, k) + 1
      /\ ind[k + 1] # "regression" => Fits(ind, k + 1) = Fits(ind, k)
  <2> PICK T : T = {j \in 1 .. k + 1 : ind[j] = "regression"}
    OBVIOUS
  <2>1. Fits(ind, k + 1) = Cardinality(T)
    BY DEF Fits
  <2>2. \A j : j \in 1 .. k + 1 <=> j \in 1 .. k \/ j = k + 1
    OBVIOUS
  <2>3. ASSUME ind[k + 1] = "regression" PROVE Fits(ind, k + 1) = Fits(ind, k) + 1
    <3>1. T = S \cup {k + 1}
      BY <2>2, <2>3
    <3>2. Cardinality(S \cup {k + 1}) = Cardinality(S) + 1
      BY <1>0, CountUpTo
    <3> QED
      BY <1>0, <2>1, <3>1, <3>2
  <2>4. ASSUME ind[k + 1] # "regression" PROVE Fits(ind, k + 1) = Fits(ind, k)
    <3>1. T = S
      BY <2>2, <2>4
    <3> QED
      BY <1>0, <2>1, <3>1
  <2> QED
    BY <2>3, <2>4
<1>4. ASSUME NEW j \in 0 .. k PROVE Fits(ind, j) \in Nat /\ Fits(ind, j) <= Fits(ind, k)
  <2>1. {i \in 1 .. j : ind[i] = "regression"} \subseteq S
    OBVIOUS
  <2> QED
    BY <1>0, <2>1, CountUpTo DEF Fits
<1>5. ASSUME NEW longer, \A j \in 1 .. k : longer[j] = ind[j] PROVE Fits(longer, k) = Fits(ind, k)
  <2>1. {j \in 1 .. k : longer[j] = "regression"} = {j \in 1 .. k : ind[j] = "regression"}
    BY <1>5
  <2> QED
    BY <2>1, Zenon DEF Fits
<1> QED
  BY <1>1, <1>2, <1>3, <1>4, <1>5

\* How many of the first k entries are of unpredictable coefficients.
Odds(types, k) == Cardinality({i \in 1 .. k : types[i].unpred})

LEMMA OddsAre ==
  ASSUME NEW types, NEW k \in Nat
  PROVE  /\ Odds(types, 0) = 0
         /\ Odds(types, k) \in Nat
         /\ types[k + 1].unpred => Odds(types, k + 1) = Odds(types, k) + 1
         /\ ~types[k + 1].unpred => Odds(types, k + 1) = Odds(types, k)
         /\ \A longer : (\A j \in 1 .. k : longer[j] = types[j]) => Odds(longer, k) = Odds(types, k)
<1> PICK S : S = {j \in 1 .. k : types[j].unpred}
  OBVIOUS
<1>0. S \subseteq 1 .. k /\ Odds(types, k) = Cardinality(S)
  BY DEF Odds
<1>1. Odds(types, 0) = 0
  <2>1. {j \in 1 .. 0 : types[j].unpred} = {}
    OBVIOUS
  <2> QED
    BY <2>1, FS_EmptySet DEF Odds
<1>2. Odds(types, k) \in Nat
  BY <1>0, CountUpTo
<1> PICK T : T = {j \in 1 .. k + 1 : types[j].unpred}
  OBVIOUS
<1>3. Odds(types, k + 1) = Cardinality(T)
  BY DEF Odds
<1>4. \A j : j \in 1 .. k + 1 <=> j \in 1 .. k \/ j = k + 1
  OBVIOUS
<1>5. ASSUME types[k + 1].unpred PROVE Odds(types, k + 1) = Odds(types, k) + 1
  <2>1. T = S \cup {k + 1}
    BY <1>4, <1>5
  <2>2. Cardinality(S \cup {k + 1}) = Cardinality(S) + 1
    BY <1>0, CountUpTo
  <2> QED
    BY <1>0, <1>3, <2>1, <2>2
<1>6. ASSUME ~types[k + 1].unpred PROVE Odds(types, k + 1) = Odds(types, k)
  <2>1. T = S
    BY <1>4, <1>6
  <2> QED
    BY <1>0, <1>3, <2>1
<1>7. ASSUME NEW longer, \A j \in 1 .. k : longer[j] = types[j]
      PROVE  Odds(longer, k) = Odds(types, k)
  <2>1. {j \in 1 .. k : longer[j].unpred} = {j \in 1 .. k : types[j].unpred}
    BY <1>7
  <2> QED
    BY <2>1, Zenon DEF Odds
<1> QED
  BY <1>1, <1>2, <1>5, <1>6, <1>7

\* The lists of coefficients have those of the regression blocks, each with the block
\* before it, and no others.
Coefficients(ind, types, unpreds) ==
  /\ IsSeq(types) /\ Len(types) = Fits(ind, Len(ind))
  /\ IsSeq(unpreds) /\ Len(unpreds) = Odds(types, Len(types))
  /\ \A m \in 1 .. Len(types) :
       /\ types[m].prev = IF m = 1 THEN 0 ELSE types[m - 1].cur
       /\ types[m].unpred => /\ Odds(types, m) \in 1 .. Len(unpreds)
                             /\ unpreds[Odds(types, m)] = types[m].cur
  /\ \A j \in 1 .. Len(ind) :
       ind[j] = "regression" => Fits(ind, j) \in 1 .. Len(types) /\ types[Fits(ind, j)].cur = j

LEMMA CoefficientsNone == Coefficients(<<>>, <<>>, <<>>)
<1>1. IsSeq(<<>>) /\ Len(<<>>) = 0
  BY DEF IsSeq
<1>2. Fits(<<>>, 0) = 0 /\ Odds(<<>>, 0) = 0
  BY FitsAre, OddsAre
<1> QED
  BY <1>1, <1>2 DEF Coefficients

\* A block that is no regression block adds none.
LEMMA CoefficientsSame ==
  ASSUME NEW ind, IsSeq(ind), NEW types, NEW unpreds, Coefficients(ind, types, unpreds),
         NEW by, by # "regression"
  PROVE  Coefficients(Append(ind, by), types, unpreds)
<1> PICK more : more = Append(ind, by)
  OBVIOUS
<1>1. /\ Len(ind) \in Nat /\ Len(more) = Len(ind) + 1 /\ more[Len(ind) + 1] = by
      /\ \A k \in 1 .. Len(ind) : more[k] = ind[k]
  BY AppendIs
<1>2. ASSUME NEW k \in 0 .. Len(ind) PROVE Fits(more, k) = Fits(ind, k)
  <2>1. k \in Nat /\ \A j \in 1 .. k : more[j] = ind[j]
    BY <1>1
  <2> QED
    BY <2>1, FitsAre
<1>3. Fits(more, Len(ind) + 1) = Fits(ind, Len(ind))
  <2>1. Fits(more, Len(ind) + 1) = Fits(more, Len(ind))
    BY <1>1, FitsAre
  <2> QED
    BY <1>1, <1>2, <2>1
<1>4. ASSUME NEW j \in 1 .. Len(more), more[j] = "regression"
      PROVE  Fits(more, j) \in 1 .. Len(types) /\ types[Fits(more, j)].cur = j
  <2>1. j \in 1 .. Len(ind) /\ ind[j] = "regression"
    BY <1>1, <1>4
  <2>2. Fits(more, j) = Fits(ind, j)
    BY <1>2, <2>1
  <2> QED
    BY <2>1, <2>2, Zenon DEF Coefficients
<1> QED
  BY <1>1, <1>3, <1>4 DEF Coefficients

\* A regression block adds its own.
LEMMA CoefficientsMore ==
  ASSUME NEW ind, IsSeq(ind), NEW types, NEW unpreds, Coefficients(ind, types, unpreds),
         NEW entry, entry.cur = Len(ind) + 1,
         entry.prev = IF Len(types) = 0 THEN 0 ELSE types[Len(types)].cur,
         NEW unpreds2,
         entry.unpred  => unpreds2 = Append(unpreds, entry.cur),
         ~entry.unpred => unpreds2 = unpreds
  PROVE  Coefficients(Append(ind, "regression"), Append(types, entry), unpreds2)
<1> PICK more : more = Append(ind, "regression")
  OBVIOUS
<1> PICK types2 : types2 = Append(types, entry)
  OBVIOUS
<1>1. /\ Len(ind) \in Nat /\ Len(more) = Len(ind) + 1 /\ more[Len(ind) + 1] = "regression"
      /\ \A k \in 1 .. Len(ind) : more[k] = ind[k]
  BY AppendIs
<1>2. /\ Len(types) \in Nat /\ IsSeq(types2) /\ Len(types2) = Len(types) + 1
      /\ types2[Len(types) + 1] = entry /\ \A k \in 1 .. Len(types) : types2[k] = types[k]
  BY AppendIs DEF Coefficients
<1>3. /\ Len(unpreds) \in Nat /\ IsSeq(unpreds2)
      /\ entry.unpred => /\ Len(unpreds2) = Len(unpreds) + 1
                         /\ unpreds2[Len(unpreds) + 1] = entry.cur
      /\ ~entry.unpred => Len(unpreds2) = Len(unpreds)
      /\ \A k \in 1 .. Len(unpreds) : unpreds2[k] = unpreds[k]
  <2> PICK longer : longer = Append(unpreds, entry.cur)
    OBVIOUS
  <2>1. IsSeq(unpreds) /\ Len(unpreds) \in Nat
    BY LengthIs DEF Coefficients
  <2>2. /\ IsSeq(longer) /\ Len(longer) = Len(unpreds) + 1
        /\ longer[Len(unpreds) + 1] = entry.cur
        /\ \A k \in 1 .. Len(unpreds) : longer[k] = unpreds[k]
    BY <2>1, AppendIs
  <2>3. (entry.unpred /\ unpreds2 = longer) \/ (~entry.unpred /\ unpreds2 = unpreds)
    BY Zenon
  <2> QED
    BY <2>1, <2>2, <2>3, Zenon
<1>4. ASSUME NEW k \in 0 .. Len(ind) PROVE Fits(more, k) = Fits(ind, k)
  <2>1. k \in Nat /\ \A j \in 1 .. k : more[j] = ind[j]
    BY <1>1
  <2> QED
    BY <2>1, FitsAre
<1>5. Fits(more, Len(ind) + 1) = Len(types) + 1
  <2>1. Fits(more, Len(ind) + 1) = Fits(more, Len(ind)) + 1
    BY <1>1, FitsAre
  <2> QED
    BY <1>1, <1>4, <2>1 DEF Coefficients
<1>6. ASSUME NEW k \in 0 .. Len(types) PROVE Odds(types2, k) = Odds(types, k)
  <2>1. k \in Nat /\ \A j \in 1 .. k : types2[j] = types[j]
    BY <1>2
  <2> QED
    BY <2>1, OddsAre
<1>7. /\ entry.unpred  => Odds(types2, Len(types) + 1) = Len(unpreds) + 1
      /\ ~entry.unpred => Odds(types2, Len(types) + 1) = Len(unpreds)
  <2> PICK n \in Nat : n = Len(types)
    BY <1>2
  <2>1. Odds(types2, n) = Len(unpreds)
    BY <1>2, <1>6 DEF Coefficients
  <2>2. /\ types2[n + 1].unpred => Odds(types2, n + 1) = Odds(types2, n) + 1
        /\ ~types2[n + 1].unpred => Odds(types2, n + 1) = Odds(types2, n)
    BY OddsAre
  <2> QED
    BY <1>2, <2>1, <2>2, Zenon
<1>8. Len(unpreds2) = Odds(types2, Len(types2))
  BY <1>2, <1>3, <1>7
<1>9. ASSUME NEW m \in 1 .. Len(types2)
      PROVE  /\ types2[m].prev = IF m = 1 THEN 0 ELSE types2[m - 1].cur
             /\ types2[m].unpred => /\ Odds(types2, m) \in 1 .. Len(unpreds2)
                                    /\ unpreds2[Odds(types2, m)] = types2[m].cur
  <2>1. CASE m = Len(types) + 1
    <3>1. types2[m].prev = IF m = 1 THEN 0 ELSE types2[m - 1].cur
      <4>1. CASE m = 1
        BY <1>2, <2>1, <4>1
      <4>2. CASE m # 1
        <5>1. m - 1 = Len(types) /\ m - 1 \in 1 .. Len(types) /\ Len(types) # 0
          BY <1>2, <2>1, <4>2
        <5>2. types2[m - 1] = types[Len(types)]
          BY <1>2, <5>1
        <5> QED
          BY <1>2, <2>1, <4>2, <5>1, <5>2
      <4> QED
        BY <4>1, <4>2
    <3>2. types2[m].unpred => /\ Odds(types2, m) \in 1 .. Len(unpreds2)
                              /\ unpreds2[Odds(types2, m)] = types2[m].cur
      BY <1>2, <1>3, <1>7, <2>1
    <3> QED
      BY <3>1, <3>2
  <2>2. CASE m \in 1 .. Len(types)
    <3>1. types2[m] = types[m] /\ (m # 1 => types2[m - 1] = types[m - 1])
      <4>1. m # 1 => m - 1 \in 1 .. Len(types)
        BY <1>2, <2>2
      <4> QED
        BY <1>2, <2>2, <4>1
    <3>2. types[m].prev = IF m = 1 THEN 0 ELSE types[m - 1].cur
      BY <2>2 DEF Coefficients
    <3>3. Odds(types2, m) = Odds(types, m)
      BY <1>2, <1>6, <2>2
    <3>4. types[m].unpred => /\ Odds(types, m) \in 1 .. Len(unpreds)
                             /\ unpreds[Odds(types, m)] = types[m].cur
      BY <2>2 DEF Coefficients
    <3>5. \A q \in 1 .. Len(unpreds) : q \in 1 .. Len(unpreds2) /\ unpreds2[q] = unpreds[q]
      BY <1>3
    <3>6. types2[m].prev = IF m = 1 THEN 0 ELSE types2[m - 1].cur
      BY <3>1, <3>2
    <3>7. types2[m].unpred => /\ Odds(types2, m) \in 1 .. Len(unpreds2)
                              /\ unpreds2[Odds(types2, m)] = types2[m].cur
      BY <3>1, <3>3, <3>4, <3>5
    <3> QED
      BY <3>6, <3>7
  <2> QED
    BY <1>2, <2>1, <2>2
<1>10. ASSUME NEW j \in 1 .. Len(more), more[j] = "regression"
       PROVE  Fits(more, j) \in 1 .. Len(types2) /\ types2[Fits(more, j)].cur = j
  <2>1. CASE j = Len(ind) + 1
    BY <1>2, <1>5, <2>1
  <2>2. CASE j \in 1 .. Len(ind)
    <3>1. ind[j] = "regression" /\ Fits(more, j) = Fits(ind, j)
      BY <1>1, <1>4, <1>10, <2>2
    <3>2. Fits(ind, j) \in 1 .. Len(types) /\ types[Fits(ind, j)].cur = j
      BY <2>2, <3>1 DEF Coefficients
    <3> QED
      BY <1>2, <3>1, <3>2
  <2> QED
    BY <1>1, <2>1, <2>2
<1> QED
  BY <1>1, <1>2, <1>3, <1>5, <1>8, <1>9, <1>10 DEF Coefficients

\* Decoded, they are the coefficients that were coded.
LEMMA DecodedIs ==
  ASSUME NEW ind, NEW s, Coefficients(ind, s.reg_types, s.reg_unpred),
         s.reg_count = Len(s.reg_types), NEW d, d = DecodeCoefficients(s)
  PROVE  /\ DOMAIN d = 0 .. s.reg_count
         /\ \A m \in 1 .. s.reg_count : d[m] = s.reg_types[m].cur
<1> PICK n \in Nat : n = s.reg_count
  BY LengthIs DEF Coefficients
<1> PICK types : types = s.reg_types
  OBVIOUS
<1> PICK unpreds : unpreds = s.reg_unpred
  OBVIOUS
<1> DEFINE D(g) == [k \in 0 .. n |->
                      IF k = 0 THEN 0
                      ELSE IF types[k].unpred THEN unpreds[Odds(types, k)]
                           ELSE IF types[k].prev = g[k - 1] THEN types[k].cur ELSE Garbage]
           f == CHOOSE g : g = D(g)
           h == [k \in 0 .. n |-> IF k = 0 THEN 0 ELSE types[k].cur]
<1>1. d = [k \in 0 .. n |-> f[k]]
  BY DEF DecodeCoefficients, Odds
<1>2. ASSUME NEW m \in 1 .. n
      PROVE  /\ types[m].prev = IF m = 1 THEN 0 ELSE types[m - 1].cur
             /\ types[m].unpred => unpreds[Odds(types, m)] = types[m].cur
  BY DEF Coefficients
<1>3. h = D(h)
  <2>1. ASSUME NEW k \in 0 .. n PROVE h[k] = D(h)[k]
    <3>1. CASE k = 0
      BY <3>1
    <3>2. CASE k # 0
      <4>1. k \in 1 .. n /\ k - 1 \in 0 .. n /\ (k - 1 = 0 <=> k = 1)
        BY <3>2
      <4>2. types[k].prev = h[k - 1]
        BY <1>2, <4>1
      <4> QED
        BY <1>2, <3>2, <4>1, <4>2
    <3> QED
      BY <3>1, <3>2
  <2> QED
    BY <2>1
<1>4. f = D(f)
  <2> HIDE DEF D, h
  <2> QED
    BY <1>3, Zenon
<1> HIDE DEF f
<1>5. \A k \in 0 .. n : f[k] = h[k]
  <2> DEFINE U == {k \in 0 .. n : f[k] # h[k]}
  <2>1. SUFFICES ASSUME U # {} PROVE FALSE
    BY <2>1
  <2>2. U \subseteq Nat
    OBVIOUS
  <2>3. PICK k \in U : \A j \in U : k <= j
    BY <2>1, <2>2, Least
  <2>4. k \in 0 .. n /\ f[k] # h[k]
    BY <2>3
  <2>5. f[k] = D(f)[k] /\ h[k] = D(h)[k]
    BY <1>3, <1>4
  <2>6. k # 0
    BY <2>4, <2>5
  <2>7. k - 1 \in 0 .. n /\ ~(k <= k - 1)
    BY <2>4, <2>6
  <2>8. f[k - 1] = h[k - 1]
    BY <2>3, <2>7
  <2> QED
    BY <2>4, <2>5, <2>8
<1>6. \A k \in 0 .. n : d[k] = h[k]
  BY <1>1, <1>5
<1>7. \A m \in 1 .. n : m \in 0 .. n /\ h[m] = types[m].cur
  OBVIOUS
<1>8. DOMAIN d = 0 .. n
  BY <1>1
<1> QED
  BY <1>6, <1>7, <1>8

-----------------------------------------------------------------------------
(* The invariants.                                                         *)

\* The element at hand within the block, none of it before and after its loops.
Here(p, e) == IF p \in {"element", "delement"} THEN e ELSE 0

\* The loops are where their pointers say, and the buffer holds what it should.
Looping(c, p, b, e, buf) ==
  /\ c \in Configs
  /\ p \in {"block", "element", "dblock", "delement", "done"}
  /\ InLoops(c, b)
  /\ p \in {"element", "delement"} => ~AtEnd(c, b) /\ e \in Nat /\ e <= Volume(c, b)
  /\ p = "done" => AtEnd(c, b)
  /\ Held(c, buf, b, Here(p, e))

\* compress_3d goes on, and has coded these elements; decompress_3d has decoded those.
Encoding(p)         == p \in {"block", "element"}
Encoded(c, p, b, e) == IF Encoding(p) THEN Coded(c, b, Here(p, e)) ELSE 0 .. Size(c) - 1
Decoded(c, p, b, e) == IF Encoding(p) THEN {} ELSE Coded(c, b, Here(p, e))

\* A predictor for every block begun.
Chosen(c, p, b, ind) ==
  /\ IsSeq(ind)
  /\ Len(ind) = IF p = "block" THEN BlockNo(c, b)
                ELSE IF p = "element" THEN BlockNo(c, b) + 1 ELSE Blocks(c)

\* The slots committed have the coefficients coded, and the one after them those of a
\* regression block at hand.
Slots(c, p, ind, slots, count, types) ==
  /\ slots \in [0 .. Blocks(c) -> Int] /\ slots[0] = 0
  /\ count = IF p = "element" THEN Fits(ind, Len(ind) - 1) ELSE Len(types)
  /\ \A m \in 1 .. count : slots[m] = types[m].cur
  /\ p = "element" /\ ind[Len(ind)] = "regression" => slots[count + 1] = Len(ind)

\* The compressor's lists have the elements coded.
Lists(c, p, b, e, ind, types, unpreds, bins, hards, events) ==
  /\ HaveElements(c, ind, bins, hards, events, Encoded(c, p, b, e))
  /\ Coefficients(ind, types, unpreds)
  /\ Happened(events) = Encoded(c, p, b, e)

\* The decompressor has decoded what was coded first, and reads what is next.
Replays(c, p, b, e, ind, count, types, events, params, r, data, devents) ==
  /\ data \in [0 .. Size(c) - 1 -> Int]
  /\ \A n \in Decoded(c, p, b, e) : data[n] = n
  /\ IsSeq(devents) /\ Len(devents) = Cardinality(Decoded(c, p, b, e))
  /\ \A k \in 1 .. Len(devents) : devents[k] = events[k]
  /\ r = [indicator |-> IF Encoding(p) THEN 0 ELSE BlockNo(c, b),
          params    |-> 1 + IF Encoding(p) THEN 0 ELSE Fits(ind, BlockNo(c, b)),
          type      |-> Cardinality(Decoded(c, p, b, e)),
          unpred    |-> Cardinality(Decoded(c, p, b, e) \cap c.hard)]
  /\ ~Encoding(p) => /\ DOMAIN params = 0 .. count
                     /\ \A m \in 1 .. count : params[m] = types[m].cur

LoopInv   == Looping(cfg, pc, at, elem, buffer)
ChosenInv == Chosen(cfg, pc, at, indicator)
SlotsInv  == Slots(cfg, pc, indicator, reg_params, reg_count, reg_types)
ListsInv  == Lists(cfg, pc, at, elem, indicator, reg_types, reg_unpred, type, unpred, log)
StreamInv ==
  stream = IF Encoding(pc) THEN <<>>
           ELSE [indicator |-> indicator, reg_count |-> reg_count, reg_types |-> reg_types,
                 reg_unpred |-> reg_unpred, type |-> type, unpred |-> unpred]
ReplayInv ==
  Replays(cfg, pc, at, elem, indicator, reg_count, reg_types, log, dparams, read, dec_data, dlog)

IInv == LoopInv /\ ChosenInv /\ SlotsInv /\ ListsInv /\ StreamInv /\ ReplayInv

-----------------------------------------------------------------------------
(* The start, and compress_3d.                                             *)

\* A block has a number of elements.
LEMMA VolumeIs ==
  ASSUME NEW c \in Configs, NEW b, InBlocks(c, b)
  PROVE  Volume(c, b) \in Nat
<1>1. Sizes(c, b)[1] \in Nat /\ Sizes(c, b)[2] \in Nat /\ Sizes(c, b)[3] \in Nat
  <2>1. c.block_size \in Nat
    BY ConfigIs
  <2> QED
    BY <2>1, SizesAre
<1>2. Sizes(c, b)[1] * Sizes(c, b)[2] \in Nat
  BY <1>1
<1> QED
  BY <1>1, <1>2 DEF Volume

\* A regression block has coefficients.
LEMMA SelectionIs ==
  ASSUME NEW c, NEW m, "regression" \in Selections(c, m)
  PROVE  RegressionEnabled(c, m)
BY DEF Selections

\* Nothing is decoded while compress_3d goes on.
Idle(c, r, data, devents) ==
  /\ data \in [0 .. Size(c) - 1 -> Int]
  /\ IsSeq(devents) /\ Len(devents) = 0
  /\ r = [indicator |-> 0, params |-> 1, type |-> 0, unpred |-> 0]

LEMMA IdleIs ==
  ASSUME NEW c, NEW p, Encoding(p), NEW b, NEW e, NEW ind, NEW count, NEW types, NEW events,
         NEW params, NEW r, NEW data, NEW devents
  PROVE  Replays(c, p, b, e, ind, count, types, events, params, r, data, devents)
           <=> Idle(c, r, data, devents)
<1>1. Decoded(c, p, b, e) = {}
  BY DEF Decoded
<1>2. Cardinality({}) = 0 /\ {} \cap c.hard = {}
  BY FS_EmptySet
<1>3. 1 + (IF Encoding(p) THEN 0 ELSE Fits(ind, BlockNo(c, b))) = 1
  OBVIOUS
<1>4. (IF Encoding(p) THEN 0 ELSE BlockNo(c, b)) = 0
  OBVIOUS
<1>5. Cardinality(Decoded(c, p, b, e)) = 0 /\ Cardinality(Decoded(c, p, b, e) \cap c.hard) = 0
  BY <1>1, <1>2
<1>6. \A k \in 1 .. Len(devents) : Len(devents) = 0 => FALSE
  OBVIOUS
<1> QED
  BY <1>1, <1>3, <1>4, <1>5, <1>6 DEF Replays, Idle

\* The invariants hold at the start.
LEMMA InitIs == ASSUME Init PROVE IInv
<1> PICK c : c = cfg
  OBVIOUS
<1>0. c \in Configs /\ pc = "block" /\ at = First /\ elem = 0
  BY DEF Init
<1>1. InLoops(c, First) /\ Coded(c, First, 0) = {}
  BY <1>0, CodedFirst
<1>2. LoopInv
  <2>1. Held(c, buffer, First, 0)
    BY <1>0, HeldFirst DEF Init
  <2> QED
    BY <1>0, <1>1, <2>1 DEF LoopInv, Looping, Here
<1>3. Encoding(pc) /\ Encoded(c, pc, at, elem) = {}
  BY <1>0, <1>1 DEF Encoding, Encoded, Here
<1>4. ChosenInv
  <2>1. indicator = <<>> /\ IsSeq(<<>>) /\ Len(<<>>) = 0
    BY DEF Init, IsSeq
  <2>2. BlockNo(c, First) = 0
    BY <1>0, BlockNoIs
  <2> QED
    BY <1>0, <2>1, <2>2 DEF ChosenInv, Chosen
<1>5. SlotsInv
  <2>1. Blocks(c) \in Nat
    BY <1>0, BlockNoIs
  <2>2. reg_params = [k \in 0 .. Blocks(c) |-> IF k = 0 THEN 0 ELSE Garbage]
    BY DEF Init
  <2>3. reg_params \in [0 .. Blocks(c) -> Int] /\ reg_params[0] = 0
    BY <2>1, <2>2 DEF Garbage
  <2>4. reg_count = 0 /\ reg_types = <<>> /\ Len(<<>>) = 0
    BY DEF Init
  <2> QED
    BY <1>0, <2>3, <2>4 DEF SlotsInv, Slots
<1>6. ListsInv
  <2>1. /\ indicator = <<>> /\ reg_types = <<>> /\ reg_unpred = <<>> /\ type = <<>> /\ unpred = <<>>
        /\ log = <<>>
    BY DEF Init
  <2>2. HaveElements(c, <<>>, <<>>, <<>>, <<>>, {})
    BY <1>0, HaveNone
  <2>3. Happened(<<>>) = {}
    BY DEF Happened
  <2> QED
    BY <1>3, <2>1, <2>2, <2>3, CoefficientsNone, Zenon DEF ListsInv, Lists
<1>7. StreamInv
  BY <1>3 DEF Init, StreamInv
<1>8. ReplayInv
  <2>1. Size(c) \in Nat
    BY <1>0, CountIs
  <2>2. dec_data \in [0 .. Size(c) - 1 -> Int]
    BY <2>1 DEF Init, Zero
  <2>3. Idle(c, read, dec_data, dlog)
    BY <2>2 DEF Init, Idle, IsSeq, FirstParams
  <2> QED
    BY <1>3, <2>3, IdleIs DEF ReplayInv
<1> QED
  BY <1>2, <1>4, <1>5, <1>6, <1>7, <1>8 DEF IInv

\* StartBlock keeps them.
LEMMA StartBlockIs == ASSUME IInv, StartBlock PROVE IInv'
<1> PICK c : c = cfg
  OBVIOUS
<1> PICK b : b = at
  OBVIOUS
<1> PICK ind : ind = indicator
  OBVIOUS
<1>0. /\ pc = "block" /\ pc' = "element" /\ ~AtEnd(c, b) /\ elem' = 0
      /\ cfg' = c /\ at' = b /\ buffer' = buffer /\ reg_count' = reg_count /\ type' = type
      /\ unpred' = unpred /\ log' = log /\ stream' = stream /\ dparams' = dparams
      /\ read' = read /\ dec_data' = dec_data /\ dlog' = dlog
  BY DEF StartBlock, decVars
<1>1. /\ c \in Configs /\ InLoops(c, b) /\ InBlocks(c, b) /\ Held(c, buffer, b, 0)
  BY <1>0 DEF IInv, LoopInv, Looping, InBlocks, Here
<1>2. Encoding(pc) /\ Encoding(pc') /\ Encoded(c, pc, b, elem) = Coded(c, b, 0)
      /\ Encoded(c, pc', b, elem') = Coded(c, b, 0)
  BY <1>0 DEF Encoding, Encoded, Here
<1> PICK n : n = BlockNo(c, b)
  OBVIOUS
<1>3. n \in Nat /\ n < Blocks(c) /\ Blocks(c) \in Nat
  BY <1>1, BlockNoIs
<1>4. IsSeq(ind) /\ Len(ind) = n
  BY <1>0 DEF IInv, ChosenInv, Chosen
<1> PICK by : /\ by \in Selections(c, MinSize(c, b))
              /\ indicator' = Append(ind, by)
              /\ IF by = "regression" THEN Quantized(reg_params') ELSE UNCHANGED <<reg_types, reg_unpred>>
  BY DEF StartBlock
<1> PICK more : more = Append(ind, by)
  OBVIOUS
<1>5. /\ IsSeq(more) /\ Len(more) = n + 1 /\ more[n + 1] = by /\ indicator' = more
      /\ \A k \in 1 .. n : more[k] = ind[k]
  BY <1>4, AppendIs
<1>6. /\ reg_params \in [0 .. Blocks(c) -> Int] /\ reg_params[0] = 0
      /\ reg_count = Len(reg_types) /\ \A m \in 1 .. reg_count : reg_params[m] = reg_types[m].cur
  BY <1>0 DEF IInv, SlotsInv, Slots
<1>7. Coefficients(ind, reg_types, reg_unpred)
  BY DEF IInv, ListsInv, Lists
<1> PICK k : k = reg_count
  OBVIOUS
<1>8. k \in Nat /\ k = Fits(ind, n) /\ k <= n /\ k = Len(reg_types) /\ IsSeq(reg_types)
  <2>1. Len(reg_types) = Fits(ind, n)
    BY <1>4, <1>7 DEF Coefficients
  <2> QED
    BY <1>3, <1>6, <1>7, <2>1, FitsAre DEF Coefficients
<1>9. /\ reg_params' \in [0 .. Blocks(c) -> Int] /\ \A m \in 0 .. k : reg_params'[m] = reg_params[m]
      /\ by = "regression" => reg_params'[k + 1] = n + 1
  <2>1. CASE RegressionEnabled(c, MinSize(c, b))
    <3>1. reg_params' = [reg_params EXCEPT ![k + 1] = n + 1]
      BY <1>4, <2>1 DEF StartBlock
    <3>2. k + 1 \in 0 .. Blocks(c) /\ n + 1 \in Int /\ \A m \in 0 .. k : m \in 0 .. Blocks(c) /\ m # k + 1
      BY <1>3, <1>8
    <3> QED
      BY <1>6, <3>1, <3>2
  <2>2. CASE ~RegressionEnabled(c, MinSize(c, b))
    <3>1. reg_params' = reg_params
      BY <2>2 DEF StartBlock
    <3>2. by # "regression"
      BY <2>2, SelectionIs
    <3> QED
      BY <1>6, <3>1, <3>2
  <2> QED
    BY <2>1, <2>2
<1>10. LoopInv'
  <2>1. Volume(c, b) \in Nat
    BY <1>1, VolumeIs
  <2> QED
    BY <1>0, <1>1, <2>1 DEF LoopInv, Looping, Here
<1>11. ChosenInv'
  BY <1>0, <1>5 DEF ChosenInv, Chosen
<1>12. /\ Coefficients(more, reg_types', reg_unpred')
       /\ \A m \in 1 .. k : reg_types'[m] = reg_types[m]
  <2>1. CASE by = "regression"
    <3> PICK entry : entry = [unpred |-> n + 1 \in c.odd, prev |-> reg_params[k], cur |-> n + 1]
      OBVIOUS
    <3>1. /\ reg_types' = Append(reg_types, entry)
          /\ reg_unpred' = IF n + 1 \in c.odd THEN Append(reg_unpred, n + 1) ELSE reg_unpred
      <4>1. reg_params'[k + 1] = n + 1 /\ reg_params'[k] = reg_params[k]
        BY <1>8, <1>9, <2>1
      <4> QED
        BY <2>1, <4>1 DEF Quantized
    <3>2. entry.cur = Len(ind) + 1 /\ (entry.unpred <=> n + 1 \in c.odd)
      BY <1>4
    <3>3. entry.prev = IF Len(reg_types) = 0 THEN 0 ELSE reg_types[Len(reg_types)].cur
      BY <1>6, <1>8
    <3>4. /\ entry.unpred => reg_unpred' = Append(reg_unpred, entry.cur)
          /\ ~entry.unpred => reg_unpred' = reg_unpred
      BY <1>4, <3>1, <3>2
    <3>5. Coefficients(Append(ind, "regression"), Append(reg_types, entry), reg_unpred')
      BY <1>4, <1>7, <3>2, <3>3, <3>4, CoefficientsMore
    <3>6. \A m \in 1 .. k : Append(reg_types, entry)[m] = reg_types[m]
      BY <1>8, AppendIs
    <3> QED
      BY <2>1, <3>1, <3>5, <3>6
  <2>2. CASE by # "regression"
    <3>1. reg_types' = reg_types /\ reg_unpred' = reg_unpred
      BY <2>2
    <3> QED
      BY <1>4, <1>7, <2>2, <3>1, CoefficientsSame
  <2> QED
    BY <2>1, <2>2
<1>13. SlotsInv'
  <2>1. reg_count' = Fits(more, Len(more) - 1)
    <3>1. Len(more) - 1 = n
      BY <1>3, <1>5
    <3>2. Fits(more, n) = Fits(ind, n)
      BY <1>3, <1>5, Zenon DEF Fits
    <3> QED
      BY <1>0, <1>8, <3>1, <3>2
  <2>2. \A m \in 1 .. reg_count' : reg_params'[m] = reg_types'[m].cur
    <3>1. \A m \in 1 .. k : m \in 0 .. k
      OBVIOUS
    <3> QED
      BY <1>0, <1>6, <1>9, <1>12, <3>1
  <2>3. reg_params'[0] = 0
    BY <1>6, <1>8, <1>9
  <2>4. more[Len(more)] = "regression" => reg_params'[reg_count' + 1] = Len(more)
    BY <1>0, <1>5, <1>9
  <2> QED
    BY <1>0, <1>5, <1>9, <2>1, <2>2, <2>3, <2>4 DEF SlotsInv, Slots
<1>14. ListsInv'
  <2>1. HaveElements(c, ind, type, unpred, log, Coded(c, b, 0)) /\ Happened(log) = Coded(c, b, 0)
    BY <1>2 DEF IInv, ListsInv, Lists
  <2>2. HaveElements(c, more, type, unpred, log, Coded(c, b, 0))
    BY <1>1, <1>4, <2>1, HaveMore
  <2> QED
    BY <1>0, <1>2, <1>5, <1>12, <2>1, <2>2, Zenon DEF ListsInv, Lists
<1>15. StreamInv'
  BY <1>0, <1>2 DEF IInv, StreamInv
<1>16. ReplayInv'
  <2>1. Idle(c, read, dec_data, dlog)
    BY <1>2, IdleIs DEF IInv, ReplayInv
  <2> QED
    BY <1>0, <1>2, <2>1, IdleIs DEF ReplayInv
<1> QED
  BY <1>10, <1>11, <1>13, <1>14, <1>15, <1>16 DEF IInv

\* The buffer holds what it should at the next block.
LEMMA HeldBlock ==
  ASSUME NEW c \in Configs, NEW b, InBlocks(c, b), NEW next, next = Advance(c, b),
         NEW buf, Held(c, buf, b, Volume(c, b)),
         NEW buf2, buf2 = IF LastOfLayer(c, b) THEN CopyBottom(c, buf) ELSE buf
  PROVE  InLoops(c, next) /\ Held(c, buf2, next, 0) /\ Coded(c, next, 0) = Coded(c, b, Volume(c, b))
<1>1. /\ InLoops(c, next) /\ Coded(c, next, 0) = Coded(c, b, Volume(c, b))
      /\ ~LastOfLayer(c, b) => next.block[1] = b.block[1]
  BY CodedBlock
<1>2. CASE LastOfLayer(c, b)
  BY <1>1, <1>2, HeldCopy
<1>3. CASE ~LastOfLayer(c, b)
  BY <1>1, <1>3, HeldSame
<1> QED
  BY <1>1, <1>2, <1>3

\* CodeElement keeps them: its prediction is the element's, and reads what is coded.
LEMMA CodeElementIs ==
  ASSUME IInv, CodeElement
  PROVE  /\ IInv'
         /\ \E event : /\ log' = Append(log, {event})
                       /\ event.at \in (0 .. Size(cfg) - 1) \ Happened(log)
                       /\ event.reads \subseteq Happened(log)
                       /\ event = [at |-> event.at, reads |-> event.reads]
<1> PICK c : c = cfg
  OBVIOUS
<1> PICK b : b = at
  OBVIOUS
<1> PICK e : e = elem
  OBVIOUS
<1> PICK ind : ind = indicator
  OBVIOUS
<1> PICK n : n = DataAt(c, b, e)
  OBVIOUS
<1> PICK by : by = ind[Len(ind)]
  OBVIOUS
<1> PICK coeffs : coeffs = reg_params[reg_count + 1]
  OBVIOUS
<1> PICK pred : pred = Predict(c, buffer, b, e, by, coeffs)
  OBVIOUS
<1> PICK bin : bin = [unpred |-> n \in c.hard, pred |-> pred, cur |-> n]
  OBVIOUS
<1> PICK event : event = Made(n, pred)
  OBVIOUS
<1>0. /\ pc = "element" /\ pc' = "element" /\ e < Volume(c, b) /\ elem' = e + 1
      /\ cfg' = c /\ at' = b /\ indicator' = ind /\ reg_params' = reg_params
      /\ reg_count' = reg_count /\ reg_types' = reg_types /\ reg_unpred' = reg_unpred
      /\ stream' = stream /\ dparams' = dparams /\ read' = read /\ dec_data' = dec_data
      /\ dlog' = dlog
  BY DEF CodeElement, decVars
<1>1. /\ type' = Append(type, bin) /\ log' = Append(log, {event})
      /\ unpred' = IF n \in c.hard THEN Append(unpred, n) ELSE unpred
      /\ buffer' = [buffer EXCEPT ![BufferAt(c, b, e)] = n]
  BY DEF CodeElement, Event, Made
<1>2. /\ c \in Configs /\ InLoops(c, b) /\ InBlocks(c, b) /\ ~AtEnd(c, b) /\ AtElement(c, b, e)
      /\ Held(c, buffer, b, e) /\ e \in Nat
  BY <1>0 DEF IInv, LoopInv, Looping, AtElement, InBlocks, Here
<1>3. Encoding(pc) /\ Encoding(pc') /\ Encoded(c, pc, b, e) = Coded(c, b, e)
      /\ Encoded(c, pc', b, elem') = Coded(c, b, e + 1)
  BY <1>0 DEF Encoding, Encoded, Here
<1>4. n \in 0 .. Size(c) - 1 /\ n \notin Coded(c, b, e) /\ Coded(c, b, e + 1) = Coded(c, b, e) \cup {n}
  BY <1>2, CodedNext
<1>5. BlockOf(c, n) = BlockNo(c, b) /\ Earlier(c, n) = Coded(c, b, e)
  BY <1>2, BlockOfIs, EarlierIs
<1>6. BlockNo(c, b) \in Nat /\ IsSeq(ind) /\ Len(ind) = BlockNo(c, b) + 1
  BY <1>0, <1>2, BlockNoIs DEF IInv, ChosenInv, Chosen
<1>7. BlockOf(c, n) + 1 = Len(ind) /\ BlockOf(c, n) + 1 \in 1 .. Len(ind)
  BY <1>5, <1>6
<1>8. by = "regression" => coeffs = BlockOf(c, n) + 1
  BY <1>0, <1>7 DEF IInv, SlotsInv, Slots
<1>9. /\ pred = Prediction(c, n, by, coeffs)
      /\ {pred.cells[t] : t \in DOMAIN pred.cells} \ {Zero, Garbage} \subseteq Coded(c, b, e)
  BY <1>2, PredictIs
<1>10. pred = Prediction(c, n, by, BlockOf(c, n) + 1)
  BY <1>8, <1>9, Zenon DEF Prediction
<1>11. bin = Bin(c, n, ind[BlockOf(c, n) + 1]) /\ event = Happens(c, n, ind[BlockOf(c, n) + 1])
  BY <1>7, <1>10, Zenon DEF Bin, Happens
<1>12. /\ HaveElements(c, ind, type, unpred, log, Coded(c, b, e))
       /\ Coefficients(ind, reg_types, reg_unpred) /\ Happened(log) = Coded(c, b, e)
  BY <1>3 DEF IInv, ListsInv, Lists
<1>13. LoopInv'
  <2>1. Held(c, buffer', b, e + 1)
    BY <1>1, <1>2, HeldWrite
  <2>2. e + 1 \in Nat /\ e + 1 <= Volume(c, b)
    BY <1>0, <1>2, VolumeIs
  <2> QED
    BY <1>0, <1>2, <2>1, <2>2 DEF LoopInv, Looping, Here
<1>14. ChosenInv'
  BY <1>0 DEF IInv, ChosenInv, Chosen
<1>15. SlotsInv'
  BY <1>0 DEF IInv, SlotsInv, Slots
<1>16. ListsInv'
  <2>1. HaveElements(c, ind, type', unpred', log', Coded(c, b, e) \cup {n})
    BY <1>1, <1>2, <1>4, <1>5, <1>7, <1>11, <1>12, HaveOneMore
  <2>2. IsSeq(log)
    BY <1>12 DEF HaveElements
  <2>3. event.at = n
    BY DEF Made
  <2>4. Happened(log') = Coded(c, b, e) \cup {n}
    BY <1>1, <1>12, <2>2, <2>3, HappenedIs
  <2> QED
    BY <1>0, <1>3, <1>4, <1>12, <2>1, <2>4, Zenon DEF ListsInv, Lists
<1>17. StreamInv'
  BY <1>0, <1>3 DEF IInv, StreamInv
<1>18. ReplayInv'
  <2>1. Idle(c, read, dec_data, dlog)
    BY <1>3, IdleIs DEF IInv, ReplayInv
  <2> QED
    BY <1>0, <1>3, <2>1, IdleIs DEF ReplayInv
<1>19. /\ event.at \in (0 .. Size(c) - 1) \ Happened(log)
       /\ event.reads \subseteq Happened(log)
       /\ event = [at |-> event.at, reads |-> event.reads]
  <2>1. event.at = n /\ event.reads = {pred.cells[t] : t \in DOMAIN pred.cells} \ {Zero, Garbage}
        /\ event = [at |-> event.at, reads |-> event.reads]
    BY DEF Made
  <2> QED
    BY <1>4, <1>9, <1>12, <2>1, Zenon
<1>20. IInv'
  BY <1>13, <1>14, <1>15, <1>16, <1>17, <1>18 DEF IInv
<1> QED
  BY <1>1, <1>19, <1>20, Zenon

\* NextBlock keeps them: the block's coefficients are committed, and the planes copied.
LEMMA NextBlockIs == ASSUME IInv, NextBlock PROVE IInv'
<1> PICK c : c = cfg
  OBVIOUS
<1> PICK b : b = at
  OBVIOUS
<1> PICK ind : ind = indicator
  OBVIOUS
<1> PICK next : next = Advance(c, b)
  OBVIOUS
<1>0. /\ pc = "element" /\ pc' = "block" /\ elem = Volume(c, b)
      /\ cfg' = c /\ at' = next /\ elem' = elem /\ indicator' = ind /\ reg_params' = reg_params
      /\ reg_types' = reg_types /\ reg_unpred' = reg_unpred /\ type' = type
      /\ unpred' = unpred /\ log' = log /\ stream' = stream /\ dparams' = dparams
      /\ read' = read /\ dec_data' = dec_data /\ dlog' = dlog
      /\ buffer' = IF LastOfLayer(c, b) THEN CopyBottom(c, buffer) ELSE buffer
      /\ reg_count' = IF ind[Len(ind)] = "regression" THEN reg_count + 1 ELSE reg_count
  BY DEF NextBlock, decVars
<1>1. /\ c \in Configs /\ InBlocks(c, b) /\ Held(c, buffer, b, Volume(c, b))
  BY <1>0 DEF IInv, LoopInv, Looping, InBlocks, Here
<1>2. InLoops(c, next) /\ Held(c, buffer', next, 0)
      /\ Coded(c, next, 0) = Coded(c, b, Volume(c, b))
  BY <1>0, <1>1, HeldBlock
<1>3. /\ Encoding(pc) /\ Encoding(pc') /\ Encoded(c, pc, b, elem) = Coded(c, b, Volume(c, b))
      /\ Encoded(c, pc', next, elem') = Coded(c, b, Volume(c, b))
  BY <1>0, <1>2 DEF Encoding, Encoded, Here
<1> PICK n \in Nat : n = BlockNo(c, b)
  BY <1>1, BlockNoIs
<1>4. BlockNo(c, next) = n + 1
  BY <1>1, BlockNoIs
<1>5. IsSeq(ind) /\ Len(ind) = n + 1
  BY <1>0 DEF IInv, ChosenInv, Chosen
<1>6. LoopInv'
  BY <1>0, <1>1, <1>2 DEF LoopInv, Looping, Here
<1>7. ChosenInv'
  BY <1>0, <1>4, <1>5 DEF ChosenInv, Chosen
<1>8. /\ HaveElements(c, ind, type, unpred, log, Coded(c, b, Volume(c, b)))
      /\ Coefficients(ind, reg_types, reg_unpred) /\ Happened(log) = Coded(c, b, Volume(c, b))
  BY <1>3 DEF IInv, ListsInv, Lists
<1>9. ListsInv'
  BY <1>0, <1>3, <1>8, Zenon DEF ListsInv, Lists
<1>10. SlotsInv'
  <2>1. /\ reg_params \in [0 .. Blocks(c) -> Int] /\ reg_params[0] = 0
        /\ reg_count = Fits(ind, n) /\ \A m \in 1 .. reg_count : reg_params[m] = reg_types[m].cur
        /\ ind[n + 1] = "regression" => reg_params[reg_count + 1] = n + 1
    BY <1>0, <1>5 DEF IInv, SlotsInv, Slots
  <2>2. reg_count \in Nat /\ Len(reg_types) = Fits(ind, n + 1)
    BY <1>5, <1>8, <2>1, FitsAre DEF Coefficients
  <2>3. CASE ind[n + 1] = "regression"
    <3>1. reg_count' = reg_count + 1 /\ Fits(ind, n + 1) = reg_count + 1
      BY <1>0, <1>5, <2>1, <2>3, FitsAre
    <3>2. reg_types[reg_count + 1].cur = n + 1
      BY <1>5, <1>8, <2>3, <3>1 DEF Coefficients
    <3>3. \A m \in 1 .. reg_count' : m \in 1 .. reg_count \/ m = reg_count + 1
      BY <2>2, <3>1
    <3>4. \A m \in 1 .. reg_count' : reg_params[m] = reg_types[m].cur
      BY <2>1, <2>3, <3>2, <3>3
    <3> QED
      BY <1>0, <2>1, <2>2, <3>1, <3>4 DEF SlotsInv, Slots
  <2>4. CASE ind[n + 1] # "regression"
    <3>1. reg_count' = reg_count /\ Fits(ind, n + 1) = reg_count
      BY <1>0, <1>5, <2>1, <2>4, FitsAre
    <3> QED
      BY <1>0, <2>1, <2>2, <3>1 DEF SlotsInv, Slots
  <2> QED
    BY <2>3, <2>4
<1>11. StreamInv'
  BY <1>0, <1>3 DEF IInv, StreamInv
<1>12. ReplayInv'
  <2>1. Idle(c, read, dec_data, dlog)
    BY <1>3, IdleIs DEF IInv, ReplayInv
  <2> QED
    BY <1>0, <1>3, <2>1, IdleIs DEF ReplayInv
<1> QED
  BY <1>6, <1>7, <1>9, <1>10, <1>11, <1>12 DEF IInv

-----------------------------------------------------------------------------
(* save, load and decompress_3d.                                           *)

\* SaveAndLoad keeps them: everything is coded, and nothing decoded.
LEMMA SaveAndLoadIs == ASSUME IInv, SaveAndLoad PROVE IInv'
<1> PICK c : c = cfg
  OBVIOUS
<1> PICK b : b = at
  OBVIOUS
<1> PICK ind : ind = indicator
  OBVIOUS
<1>0. /\ pc = "block" /\ pc' = "dblock" /\ AtEnd(c, b) /\ elem' = 0 /\ at' = First
      /\ cfg' = c /\ indicator' = ind /\ reg_params' = reg_params
      /\ reg_count' = reg_count /\ reg_types' = reg_types /\ reg_unpred' = reg_unpred
      /\ type' = type /\ unpred' = unpred /\ log' = log
      /\ read' = read /\ dec_data' = dec_data /\ dlog' = dlog
      /\ buffer' = [a \in 0 .. BufferSize(c) - 1 |-> Zero]
      /\ stream' = [indicator |-> ind, reg_count |-> reg_count, reg_types |-> reg_types,
                    reg_unpred |-> reg_unpred, type |-> type, unpred |-> unpred]
      /\ dparams' = DecodeCoefficients(stream')
  BY DEF SaveAndLoad, encVars
<1>1. c \in Configs /\ InLoops(c, b) /\ InLoops(c, First) /\ Coded(c, First, 0) = {}
  BY <1>0, CodedFirst DEF IInv, LoopInv, Looping
<1>2. /\ Encoding(pc) /\ ~Encoding(pc') /\ Encoded(c, pc, b, elem) = 0 .. Size(c) - 1
      /\ Encoded(c, pc', First, elem') = 0 .. Size(c) - 1
      /\ Decoded(c, pc', First, elem') = {}
  <2>1. Coded(c, b, 0) = 0 .. Size(c) - 1
    BY <1>0, <1>1, CodedLast
  <2> QED
    BY <1>0, <1>1, <2>1 DEF Encoding, Encoded, Decoded, Here
<1>3. LoopInv'
  <2>1. Held(c, buffer', First, 0)
    BY <1>0, <1>1, HeldFirst
  <2> QED
    BY <1>0, <1>1, <2>1 DEF LoopInv, Looping, Here
<1>4. IsSeq(ind) /\ Len(ind) = Blocks(c)
  BY <1>0, <1>1, BlockNoIs DEF IInv, ChosenInv, Chosen
<1>5. ChosenInv'
  BY <1>0, <1>4 DEF ChosenInv, Chosen
<1>6. Coefficients(ind, reg_types, reg_unpred)
  BY DEF IInv, ListsInv, Lists
<1>7. reg_count = Len(reg_types)
  BY <1>0 DEF IInv, SlotsInv, Slots
<1>8. SlotsInv'
  BY <1>0 DEF IInv, SlotsInv, Slots
<1>9. ListsInv'
  BY <1>0, <1>2 DEF IInv, ListsInv, Lists
<1>10. StreamInv'
  BY <1>0, <1>2 DEF StreamInv
<1>11. ReplayInv'
  <2>1. Idle(c, read, dec_data, dlog)
    BY <1>2, IdleIs DEF IInv, ReplayInv
  <2>2. DOMAIN dparams' = 0 .. reg_count /\ \A m \in 1 .. reg_count : dparams'[m] = reg_types[m].cur
    <3> PICK s : s = stream'
      OBVIOUS
    <3>1. s.reg_types = reg_types /\ s.reg_unpred = reg_unpred /\ s.reg_count = reg_count
      BY <1>0
    <3>2. Coefficients(ind, s.reg_types, s.reg_unpred) /\ s.reg_count = Len(s.reg_types)
      BY <1>6, <1>7, <3>1
    <3>3. dparams' = DecodeCoefficients(s)
      BY <1>0
    <3> QED
      BY <3>1, <3>2, <3>3, DecodedIs
  <2>3. BlockNo(c, First) = 0 /\ Fits(ind, 0) = 0
    BY <1>1, BlockNoIs, FitsAre
  <2>4. Cardinality({}) = 0 /\ {} \cap c.hard = {}
    BY FS_EmptySet
  <2>5. read = [indicator |-> 0, params |-> 1, type |-> 0, unpred |-> 0]
        /\ dec_data \in [0 .. Size(c) - 1 -> Int] /\ IsSeq(dlog) /\ Len(dlog) = 0
    BY <2>1 DEF Idle
  <2>6. read = [indicator |-> BlockNo(c, First), params |-> 1 + Fits(ind, BlockNo(c, First)),
                type |-> Cardinality({}), unpred |-> Cardinality({} \cap c.hard)]
    BY <2>3, <2>4, <2>5
  <2>7. \A k \in 1 .. Len(dlog) : dlog[k] = log[k]
    BY <2>5
  <2> QED
    BY <1>0, <1>2, <2>2, <2>4, <2>5, <2>6, <2>7 DEF ReplayInv, Replays
<1> QED
  BY <1>3, <1>5, <1>8, <1>9, <1>10, <1>11 DEF IInv

\* What is replayed is told by the elements decoded.
LEMMA ReplaysSame ==
  ASSUME NEW c, NEW p, ~Encoding(p), NEW p2, ~Encoding(p2), NEW b, NEW e, NEW e2,
         Decoded(c, p2, b, e2) = Decoded(c, p, b, e),
         NEW ind, NEW count, NEW types, NEW events, NEW params, NEW r, NEW data, NEW devents,
         Replays(c, p, b, e, ind, count, types, events, params, r, data, devents)
  PROVE  Replays(c, p2, b, e2, ind, count, types, events, params, r, data, devents)
BY DEF Replays

\* So do the steps that start a block of decompress_3d, return, or do nothing.
LEMMA PassingIs == ASSUME IInv, DecodeStartBlock \/ Return \/ UNCHANGED vars PROVE IInv'
<1>1. CASE DecodeStartBlock \/ Return
  <2>0. /\ ~Encoding(pc) /\ ~Encoding(pc') /\ pc = "dblock" /\ pc' \in {"delement", "done"}
        /\ Here(pc, elem) = 0 /\ Here(pc', elem') = 0
        /\ AtEnd(cfg, at) <=> pc' = "done"
        /\ cfg' = cfg /\ at' = at /\ buffer' = buffer /\ indicator' = indicator
        /\ reg_params' = reg_params /\ reg_count' = reg_count /\ reg_types' = reg_types
        /\ reg_unpred' = reg_unpred /\ type' = type /\ unpred' = unpred /\ log' = log
        /\ stream' = stream /\ dparams' = dparams /\ read' = read /\ dec_data' = dec_data
        /\ dlog' = dlog
        /\ pc' = "delement" => elem' = 0
    BY <1>1 DEF DecodeStartBlock, Return, loopVars, encVars, decVars, Encoding, Here
  <2>1. LoopInv'
    <3>1. ~AtEnd(cfg, at) => Volume(cfg, at) \in Nat
      BY VolumeIs DEF IInv, LoopInv, Looping, InBlocks
    <3> QED
      BY <2>0, <3>1 DEF IInv, LoopInv, Looping
  <2>2. ChosenInv' /\ SlotsInv'
    BY <2>0 DEF IInv, ChosenInv, Chosen, SlotsInv, Slots
  <2>3. /\ Encoded(cfg, pc', at, elem') = Encoded(cfg, pc, at, elem)
        /\ Decoded(cfg, pc', at, elem') = Decoded(cfg, pc, at, elem)
    BY <2>0, Zenon DEF Encoded, Decoded
  <2>4. ListsInv' /\ StreamInv'
    BY <2>0, <2>3, Zenon DEF IInv, ListsInv, Lists, StreamInv
  <2>5. ReplayInv'
    <3>1. Replays(cfg, pc', at, elem', indicator, reg_count, reg_types, log, dparams, read,
                  dec_data, dlog)
      BY <2>0, <2>3, ReplaysSame DEF IInv, ReplayInv
    <3> QED
      BY <2>0, <3>1, Zenon DEF ReplayInv
  <2> QED
    BY <2>1, <2>2, <2>4, <2>5 DEF IInv
<1>2. CASE UNCHANGED vars
  <2>0. /\ pc' = pc /\ elem' = elem
        /\ cfg' = cfg /\ at' = at /\ buffer' = buffer /\ indicator' = indicator
        /\ reg_params' = reg_params /\ reg_count' = reg_count /\ reg_types' = reg_types
        /\ reg_unpred' = reg_unpred /\ type' = type /\ unpred' = unpred /\ log' = log
        /\ stream' = stream /\ dparams' = dparams /\ read' = read /\ dec_data' = dec_data
        /\ dlog' = dlog
    BY <1>2 DEF vars, loopVars, encVars, decVars
  <2> QED
    BY <2>0, Zenon DEF IInv, LoopInv, ChosenInv, SlotsInv, ListsInv, StreamInv, ReplayInv
<1> QED
  BY <1>1, <1>2

\* What the decoder reads for the element at hand is what it was coded as: the
\* predictor, the coefficients, the prediction, and the value.
LEMMA EntryIs ==
  ASSUME IInv, pc = "delement", elem < Volume(cfg, at),
         NEW n, n = DataAt(cfg, at, elem), NEW by, by = stream.indicator[read.indicator + 1],
         NEW entry, entry = stream.type[read.type + 1],
         NEW pred, pred = Predict(cfg, buffer, at, elem, by, Entry(dparams, read.params))
  PROVE  /\ AtElement(cfg, at, elem)
         /\ n \in 0 .. Size(cfg) - 1
         /\ by = indicator[BlockOf(cfg, n) + 1]
         /\ Pos(cfg, n) = Len(dlog) + 1 /\ Pos(cfg, n) \in 1 .. Len(log)
         /\ log[Len(dlog) + 1] = {Made(n, pred)}
         /\ entry.unpred <=> n \in cfg.hard
         /\ entry.unpred => Entry(stream.unpred, read.unpred + 1) = n
         /\ ~entry.unpred => entry.pred = pred /\ entry.cur = n
<1> PICK c : c = cfg
  OBVIOUS
<1> PICK b : b = at
  OBVIOUS
<1> PICK e : e = elem
  OBVIOUS
<1> PICK ind : ind = indicator
  OBVIOUS
<1> PICK E : E = Coded(c, b, e)
  OBVIOUS
<1>0. ~Encoding(pc) /\ Decoded(c, pc, b, e) = E /\ Encoded(c, pc, b, e) = 0 .. Size(c) - 1
  BY DEF Encoding, Encoded, Decoded, Here
<1>1. /\ c \in Configs /\ InBlocks(c, b) /\ AtElement(c, b, e) /\ Held(c, buffer, b, e)
  BY DEF IInv, LoopInv, Looping, AtElement, InBlocks, Here
<1>2. n \in 0 .. Size(c) - 1 /\ E \subseteq 0 .. Size(c) - 1
  BY <1>1, CodedNext DEF Coded
<1> PICK k : k = BlockNo(c, b)
  OBVIOUS
<1>3. BlockOf(c, n) = k /\ Earlier(c, n) = E /\ k \in Nat /\ k < Blocks(c)
  BY <1>1, BlockOfIs, EarlierIs, BlockNoIs
<1>4. IsSeq(ind) /\ Len(ind) = Blocks(c) /\ Blocks(c) \in Nat
  BY <1>1, BlockNoIs DEF IInv, ChosenInv, Chosen
<1>5. /\ stream.indicator = ind /\ stream.type = type /\ stream.unpred = unpred
  BY <1>0 DEF IInv, StreamInv
<1>6. /\ read.indicator = k /\ read.params = 1 + Fits(ind, k)
      /\ read.type = Cardinality(E) /\ read.unpred = Cardinality(E \cap c.hard)
      /\ Len(dlog) = Cardinality(E)
      /\ DOMAIN dparams = 0 .. reg_count /\ \A m \in 1 .. reg_count : dparams[m] = reg_types[m].cur
  BY <1>0 DEF IInv, ReplayInv, Replays
<1>7. /\ HaveElements(c, ind, type, unpred, log, 0 .. Size(c) - 1)
      /\ Coefficients(ind, reg_types, reg_unpred)
  BY <1>0 DEF IInv, ListsInv, Lists
<1>8. HasElement(c, ind, type, unpred, log, n)
  BY <1>2, <1>7 DEF HaveElements
<1>9. by = ind[k + 1] /\ by = ind[BlockOf(c, n) + 1]
  BY <1>3, <1>5, <1>6
<1>10. /\ Pos(c, n) \in 1 .. Len(type) /\ Pos(c, n) = read.type + 1
       /\ entry = Bin(c, n, by) /\ log[Pos(c, n)] = {Happens(c, n, by)}
       /\ Pos(c, n) = Len(dlog) + 1
  BY <1>3, <1>5, <1>6, <1>8, <1>9 DEF HasElement, Pos
<1>11. n \in c.hard => Entry(unpred, read.unpred + 1) = n
  <2>1. HardPos(c, n) = read.unpred + 1
    BY <1>3, <1>6 DEF HardPos
  <2>2. DOMAIN unpred = 1 .. Len(unpred)
    BY <1>7 DEF HaveElements, IsSeq
  <2> QED
    BY <1>8, <2>1, <2>2 DEF HasElement, Entry
<1>12. by = "regression" => Entry(dparams, read.params) = k + 1
  <2>1. ASSUME by = "regression" PROVE Entry(dparams, read.params) = k + 1
    <3>1. k + 1 \in 1 .. Len(ind) /\ ind[k + 1] = "regression"
      BY <1>3, <1>4, <1>9, <2>1
    <3>2. Fits(ind, k + 1) \in 1 .. Len(reg_types) /\ reg_types[Fits(ind, k + 1)].cur = k + 1
      BY <1>7, <3>1 DEF Coefficients
    <3>3. Fits(ind, k + 1) = Fits(ind, k) + 1 /\ Fits(ind, k) \in Nat
      BY <1>3, <3>1, FitsAre
    <3>4. reg_count = Len(reg_types)
      BY DEF IInv, SlotsInv, Slots
    <3>5. read.params \in 1 .. reg_count /\ read.params \in 0 .. reg_count
          /\ read.params = Fits(ind, k + 1)
      BY <1>6, <3>2, <3>3, <3>4
    <3> QED
      BY <1>6, <3>2, <3>5 DEF Entry
  <2> QED
    BY <2>1
<1>13. pred = Prediction(c, n, by, Entry(dparams, read.params))
  BY <1>1, PredictIs
<1>14. pred = Prediction(c, n, by, BlockOf(c, n) + 1)
  BY <1>3, <1>12, <1>13, Zenon DEF Prediction
<1>15. Happens(c, n, by) = Made(n, pred)
  BY <1>14, Zenon DEF Happens
<1>16. /\ entry.unpred <=> n \in c.hard
       /\ entry.pred = pred /\ entry.cur = n
  <2>1. entry = [unpred |-> n \in c.hard, pred |-> pred, cur |-> n]
    BY <1>10, <1>14, Zenon DEF Bin
  <2>2. entry.unpred = (n \in c.hard) /\ entry.pred = pred /\ entry.cur = n
    BY <2>1
  <2> QED
    BY <2>2
<1>17. Pos(c, n) \in 1 .. Len(log)
  BY <1>7, <1>10 DEF HaveElements
<1> QED
  BY <1>1, <1>2, <1>5, <1>9, <1>10, <1>11, <1>15, <1>16, <1>17

\* DecodeElement keeps them: the element comes out as it went in, and its event is the
\* next of the compressor's.
LEMMA DecodeElementIs ==
  ASSUME IInv, DecodeElement
  PROVE  /\ IInv'
         /\ Len(dlog) < Len(log) /\ dlog' = Append(dlog, log[Len(dlog) + 1])
<1> PICK c : c = cfg
  OBVIOUS
<1> PICK b : b = at
  OBVIOUS
<1> PICK e : e = elem
  OBVIOUS
<1> PICK E : E = Coded(c, b, e)
  OBVIOUS
<1> PICK n : n = DataAt(c, b, e)
  OBVIOUS
<1> PICK by : by = stream.indicator[read.indicator + 1]
  OBVIOUS
<1> PICK entry : entry = stream.type[read.type + 1]
  OBVIOUS
<1> PICK pred : pred = Predict(c, buffer, b, e, by, Entry(dparams, read.params))
  OBVIOUS
<1> PICK value : value = IF entry.unpred THEN Entry(stream.unpred, read.unpred + 1)
                         ELSE IF entry.pred = pred THEN entry.cur ELSE Garbage
  OBVIOUS
<1>0. /\ pc = "delement" /\ pc' = "delement" /\ e < Volume(c, b) /\ elem' = e + 1
      /\ cfg' = c /\ at' = b /\ indicator' = indicator /\ reg_params' = reg_params
      /\ reg_count' = reg_count /\ reg_types' = reg_types /\ reg_unpred' = reg_unpred
      /\ type' = type /\ unpred' = unpred /\ log' = log /\ stream' = stream
      /\ dparams' = dparams
  BY DEF DecodeElement, encVars
<1>1. /\ dec_data' = [dec_data EXCEPT ![n] = value]
      /\ buffer' = [buffer EXCEPT ![BufferAt(c, b, e)] = value]
      /\ read' = [read EXCEPT !.type = @ + 1,
                              !.unpred = IF entry.unpred THEN @ + 1 ELSE @]
      /\ dlog' = Append(dlog, {Made(n, pred)})
  BY DEF DecodeElement, Event, Made
<1>2. /\ c \in Configs /\ InLoops(c, b) /\ InBlocks(c, b) /\ ~AtEnd(c, b) /\ Held(c, buffer, b, e)
      /\ e \in Nat
  BY <1>0 DEF IInv, LoopInv, Looping, InBlocks, Here
<1>3. /\ AtElement(c, b, e) /\ n \in 0 .. Size(c) - 1
      /\ Pos(c, n) = Len(dlog) + 1 /\ Pos(c, n) \in 1 .. Len(log)
      /\ log[Len(dlog) + 1] = {Made(n, pred)}
      /\ entry.unpred <=> n \in c.hard
      /\ entry.unpred => Entry(stream.unpred, read.unpred + 1) = n
      /\ ~entry.unpred => entry.pred = pred /\ entry.cur = n
  BY <1>0, EntryIs
<1>4. value = n
  BY <1>3, Zenon
<1>5. /\ ~Encoding(pc) /\ ~Encoding(pc') /\ Encoded(c, pc, b, e) = 0 .. Size(c) - 1
      /\ Encoded(c, pc', b, elem') = 0 .. Size(c) - 1
      /\ Decoded(c, pc, b, e) = E /\ Decoded(c, pc', b, elem') = Coded(c, b, e + 1)
  BY <1>0 DEF Encoding, Encoded, Decoded, Here
<1>6. E \subseteq 0 .. Size(c) - 1 /\ n \notin E /\ Coded(c, b, e + 1) = E \cup {n}
  BY <1>3, <1>2, CodedNext DEF Coded
<1>7. LoopInv'
  <2>1. Held(c, buffer', b, e + 1)
    BY <1>1, <1>2, <1>3, <1>4, HeldWrite
  <2>2. e + 1 \in Nat /\ e + 1 <= Volume(c, b)
    BY <1>0, <1>2, VolumeIs
  <2> QED
    BY <1>0, <1>2, <2>1, <2>2 DEF LoopInv, Looping, Here
<1>8. ChosenInv' /\ SlotsInv'
  BY <1>0, Zenon DEF IInv, ChosenInv, SlotsInv
<1>9. ListsInv' /\ StreamInv'
  BY <1>0, <1>5, Zenon DEF IInv, ListsInv, Lists, StreamInv
<1>10. ReplayInv'
  <2>1. /\ dec_data \in [0 .. Size(c) - 1 -> Int] /\ \A m \in E : dec_data[m] = m
        /\ IsSeq(dlog) /\ Len(dlog) = Cardinality(E) /\ \A k \in 1 .. Len(dlog) : dlog[k] = log[k]
        /\ read = [indicator |-> BlockNo(c, b), params |-> 1 + Fits(indicator, BlockNo(c, b)),
                   type |-> Cardinality(E), unpred |-> Cardinality(E \cap c.hard)]
        /\ DOMAIN dparams = 0 .. reg_count /\ \A m \in 1 .. reg_count : dparams[m] = reg_types[m].cur
    BY <1>5 DEF IInv, ReplayInv, Replays
  <2>2. dec_data' \in [0 .. Size(c) - 1 -> Int] /\ \A m \in E \cup {n} : dec_data'[m] = m
    <3>1. n \in Int /\ dec_data' = [dec_data EXCEPT ![n] = n]
      <4>1. dec_data' = [dec_data EXCEPT ![n] = n]
        BY <1>1, <1>4, Zenon
      <4>2. n \in 0 .. Size(c) - 1
        BY <1>3, Zenon
      <4>3. n \in Int
        BY <4>2
      <4> QED
        BY <4>1, <4>3, Zenon
    <3>2. dec_data' \in [0 .. Size(c) - 1 -> Int]
      BY <2>1, <3>1
    <3>3. dec_data'[n] = n
      BY <1>3, <2>1, <3>1
    <3>4. ASSUME NEW m \in E PROVE dec_data'[m] = m
      <4>1. m \in 0 .. Size(c) - 1 /\ m # n /\ dec_data[m] = m
        BY <1>6, <2>1
      <4> QED
        BY <2>1, <3>1, <4>1
    <3> QED
      BY <3>2, <3>3, <3>4
  <2>3. /\ IsSeq(dlog') /\ Len(dlog') = Cardinality(E) + 1
        /\ \A k \in 1 .. Len(dlog') : dlog'[k] = log[k]
    <3>1. /\ Len(dlog) \in Nat /\ IsSeq(dlog') /\ Len(dlog') = Len(dlog) + 1
          /\ dlog'[Len(dlog) + 1] = {Made(n, pred)}
          /\ \A k \in 1 .. Len(dlog) : dlog'[k] = dlog[k]
      BY <1>1, <2>1, AppendIs
    <3>2. ASSUME NEW k \in 1 .. Len(dlog') PROVE dlog'[k] = log[k]
      <4>1. k \in 1 .. Len(dlog) \/ k = Len(dlog) + 1
        BY <3>1
      <4> QED
        BY <1>3, <2>1, <3>1, <4>1
    <3> QED
      BY <2>1, <3>1, <3>2
  <2>4. Cardinality(E \cup {n}) = Cardinality(E) + 1
    BY <1>2, <1>6, CountOn
  <2>5. Cardinality((E \cup {n}) \cap c.hard)
          = IF n \in c.hard THEN Cardinality(E \cap c.hard) + 1 ELSE Cardinality(E \cap c.hard)
    BY <1>2, <1>6, CountHard
  <2>6. read' = [indicator |-> BlockNo(c, b), params |-> 1 + Fits(indicator, BlockNo(c, b)),
                 type |-> Cardinality(E) + 1,
                 unpred |-> IF n \in c.hard THEN Cardinality(E \cap c.hard) + 1
                            ELSE Cardinality(E \cap c.hard)]
    BY <1>1, <1>3, <2>1
  <2>7. read' = [indicator |-> IF Encoding(pc') THEN 0 ELSE BlockNo(c, b),
                 params    |-> 1 + IF Encoding(pc') THEN 0 ELSE Fits(indicator, BlockNo(c, b)),
                 type      |-> Cardinality(E \cup {n}),
                 unpred    |-> Cardinality((E \cup {n}) \cap c.hard)]
    BY <1>5, <2>4, <2>5, <2>6
  <2>8. Decoded(c, pc', b, elem') = E \cup {n}
    BY <1>5, <1>6
  <2>9. Len(dlog') = Cardinality(E \cup {n})
    BY <2>3, <2>4
  <2>10. Replays(c, pc', b, elem', indicator, reg_count, reg_types, log, dparams, read',
                 dec_data', dlog')
    BY <2>1, <2>2, <2>3, <2>7, <2>8, <2>9, Zenon DEF Replays
  <2> QED
    BY <1>0, <2>10, Zenon DEF ReplayInv
<1>11. IInv'
  BY <1>7, <1>8, <1>9, <1>10 DEF IInv
<1>12. Len(dlog) < Len(log) /\ dlog' = Append(dlog, log[Len(dlog) + 1])
  <2>1. Len(dlog) \in Nat /\ Len(log) \in Nat
    BY LengthIs DEF IInv, ReplayInv, Replays, ListsInv, Lists, HaveElements
  <2> QED
    BY <1>1, <1>3, <2>1
<1> QED
  BY <1>11, <1>12

\* DecodeNextBlock keeps them.
LEMMA DecodeNextBlockIs == ASSUME IInv, DecodeNextBlock PROVE IInv'
<1> PICK c : c = cfg
  OBVIOUS
<1> PICK b : b = at
  OBVIOUS
<1> PICK ind : ind = indicator
  OBVIOUS
<1> PICK next : next = Advance(c, b)
  OBVIOUS
<1> PICK E : E = Coded(c, b, Volume(c, b))
  OBVIOUS
<1>0. /\ pc = "delement" /\ pc' = "dblock" /\ elem = Volume(c, b)
      /\ cfg' = c /\ at' = next /\ elem' = elem /\ indicator' = ind /\ reg_params' = reg_params
      /\ reg_count' = reg_count /\ reg_types' = reg_types /\ reg_unpred' = reg_unpred
      /\ type' = type /\ unpred' = unpred /\ log' = log /\ stream' = stream
      /\ dparams' = dparams /\ dec_data' = dec_data /\ dlog' = dlog
      /\ buffer' = IF LastOfLayer(c, b) THEN CopyBottom(c, buffer) ELSE buffer
      /\ read' = [read EXCEPT !.indicator = @ + 1,
                              !.params = ParamsRead(stream.indicator[read.indicator + 1])]
  BY DEF DecodeNextBlock, encVars
<1>1. /\ c \in Configs /\ InBlocks(c, b) /\ Held(c, buffer, b, Volume(c, b))
  BY <1>0 DEF IInv, LoopInv, Looping, InBlocks, Here
<1>2. InLoops(c, next) /\ Held(c, buffer', next, 0) /\ Coded(c, next, 0) = E
  BY <1>0, <1>1, HeldBlock
<1>3. /\ ~Encoding(pc) /\ ~Encoding(pc') /\ Encoded(c, pc, b, elem) = 0 .. Size(c) - 1
      /\ Encoded(c, pc', next, elem') = 0 .. Size(c) - 1
      /\ Decoded(c, pc, b, elem) = E /\ Decoded(c, pc', next, elem') = E
  BY <1>0, <1>2 DEF Encoding, Encoded, Decoded, Here
<1> PICK k \in Nat : k = BlockNo(c, b)
  BY <1>1, BlockNoIs
<1>4. BlockNo(c, next) = k + 1
  BY <1>1, BlockNoIs
<1>5. LoopInv'
  BY <1>0, <1>1, <1>2 DEF LoopInv, Looping, Here
<1>6. ChosenInv' /\ SlotsInv'
  BY <1>0 DEF IInv, ChosenInv, Chosen, SlotsInv, Slots
<1>7. ListsInv' /\ StreamInv'
  BY <1>0, <1>3, Zenon DEF IInv, ListsInv, Lists, StreamInv
<1>8. ReplayInv'
  <2>1. /\ dec_data \in [0 .. Size(c) - 1 -> Int] /\ \A m \in E : dec_data[m] = m
        /\ IsSeq(dlog) /\ Len(dlog) = Cardinality(E) /\ \A m \in 1 .. Len(dlog) : dlog[m] = log[m]
        /\ read = [indicator |-> k, params |-> 1 + Fits(ind, k),
                   type |-> Cardinality(E), unpred |-> Cardinality(E \cap c.hard)]
        /\ DOMAIN dparams = 0 .. reg_count /\ \A m \in 1 .. reg_count : dparams[m] = reg_types[m].cur
    BY <1>3 DEF IInv, ReplayInv, Replays
  <2>2. stream.indicator = ind
    BY <1>3 DEF IInv, StreamInv
  <2>3. ParamsRead(stream.indicator[read.indicator + 1]) = 1 + Fits(ind, k + 1)
    <3>1. Fits(ind, k) \in Nat
      BY FitsAre
    <3>2. stream.indicator[read.indicator + 1] = ind[k + 1] /\ read.params = 1 + Fits(ind, k)
      BY <2>1, <2>2
    <3>3. CASE ind[k + 1] = "regression"
      <4>1. Fits(ind, k + 1) = Fits(ind, k) + 1
        BY <3>3, FitsAre
      <4> QED
        BY <3>1, <3>2, <3>3, <4>1 DEF ParamsRead
    <3>4. CASE ind[k + 1] # "regression"
      <4>1. Fits(ind, k + 1) = Fits(ind, k)
        BY <3>4, FitsAre
      <4> QED
        BY <3>1, <3>2, <3>4, <4>1 DEF ParamsRead
    <3> QED
      BY <3>3, <3>4
  <2>4. read' = [indicator |-> k + 1, params |-> 1 + Fits(ind, k + 1),
                 type |-> Cardinality(E), unpred |-> Cardinality(E \cap c.hard)]
    BY <1>0, <2>1, <2>3
  <2> QED
    BY <1>0, <1>3, <1>4, <2>1, <2>4 DEF ReplayInv, Replays
<1> QED
  BY <1>5, <1>6, <1>7, <1>8 DEF IInv

\* The cell of an element is in the buffer.
LEMMA BufferIs ==
  ASSUME NEW c \in Configs, NEW b, NEW e, AtElement(c, b, e)
  PROVE  BufferAt(c, b, e) \in 0 .. BufferSize(c) - 1
<1> PICK x : x = Coordinate(c, b, e, 1)
  OBVIOUS
<1> PICK y : y = Coordinate(c, b, e, 2)
  OBVIOUS
<1> PICK z : z = Coordinate(c, b, e, 3)
  OBVIOUS
<1> PICK i : i = Place(c, b, e)[1] + Padding
  OBVIOUS
<1> PICK j : j = y + Padding
  OBVIOUS
<1> PICK k : k = z + Padding
  OBVIOUS
<1>1. BufferAt(c, b, e) = Cell(c, i, j, k) /\ InBuffer(c, i, j, k)
  BY PointersAre
<1> QED
  BY <1>1, CellIs

-----------------------------------------------------------------------------
(* The theorems.                                                           *)

\* What the invariants say is kept by every step.
LEMMA StepIs == ASSUME IInv, [Next]_vars PROVE IInv'
<1>1. CASE StartBlock
  BY <1>1, StartBlockIs
<1>2. CASE CodeElement
  BY <1>2, CodeElementIs
<1>3. CASE NextBlock
  BY <1>3, NextBlockIs
<1>4. CASE SaveAndLoad
  BY <1>4, SaveAndLoadIs
<1>5. CASE DecodeElement
  BY <1>5, DecodeElementIs
<1>6. CASE DecodeNextBlock
  BY <1>6, DecodeNextBlockIs
<1>7. CASE DecodeStartBlock \/ Return \/ UNCHANGED vars
  BY <1>7, PassingIs
<1> QED
  BY <1>1, <1>2, <1>3, <1>4, <1>5, <1>6, <1>7 DEF Next, Done

\* The pointers of the loops are at the blocks and elements they should be at, the buffer
\* holds the reconstruction of the elements coded that it has place for, compress_3d's
\* lists have the elements coded in the order of the loops, and decompress_3d is at the
\* place of every list where what was coded of its element is.
THEOREM InductiveInvariant == Spec => []IInv
<1>1. Init => IInv
  BY InitIs
<1>2. IInv /\ [Next]_vars => IInv'
  BY StepIs
<1> QED
  BY <1>1, <1>2, PTL DEF Spec

\* The pointers stay in the data and the buffer, whatever the shape and the block size;
\* the slots and lists in what is allocated; the decoder's cursors in the lists.
THEOREM AlwaysTypeOK == Spec => []TypeOK
<1>1. ASSUME IInv PROVE TypeOK
  <2> PICK c : c = cfg
    OBVIOUS
  <2> PICK b : b = at
    OBVIOUS
  <2> PICK E : E = Encoded(c, pc, b, elem)
    OBVIOUS
  <2>1. /\ c \in Configs /\ InLoops(c, b) /\ IsConfig(c)
        /\ pc \in {"block", "element", "dblock", "delement", "done"}
    BY <1>1, FastFrontendAssumption DEF IInv, LoopInv, Looping
  <2>2. /\ Blocks(c) \in Nat /\ (AtEnd(c, b) => BlockNo(c, b) = Blocks(c))
        /\ BlockNo(c, b) \in Nat /\ BlockNo(c, b) <= Blocks(c)
        /\ ~AtEnd(c, b) => BlockNo(c, b) < Blocks(c)
    <3>1. CASE AtEnd(c, b)
      BY <2>1, <3>1, BlockNoIs
    <3>2. CASE ~AtEnd(c, b)
      <4>1. InBlocks(c, b)
        BY <2>1, <3>2 DEF InBlocks
      <4>2. Blocks(c) \in Nat /\ BlockNo(c, b) \in Nat /\ BlockNo(c, b) < Blocks(c)
        BY <2>1, <4>1, BlockNoIs
      <4> QED
        BY <3>2, <4>2
    <3> QED
      BY <3>1, <3>2
  <2>3. IsSeq(indicator) /\ Len(indicator) \in Nat /\ Len(indicator) <= Blocks(c)
    <3>1. pc = "element" => ~AtEnd(c, b)
      BY <1>1 DEF IInv, LoopInv, Looping
    <3>2. /\ IsSeq(indicator)
          /\ Len(indicator) = IF pc = "block" THEN BlockNo(c, b)
                              ELSE IF pc = "element" THEN BlockNo(c, b) + 1 ELSE Blocks(c)
      BY <1>1 DEF IInv, ChosenInv, Chosen
    <3> QED
      BY <2>2, <3>1, <3>2
  <2>4. Fits(indicator, Len(indicator)) \in Nat /\ Fits(indicator, Len(indicator)) <= Len(indicator)
    BY <2>3, FitsAre
  <2>5. Len(reg_types) = Fits(indicator, Len(indicator))
    BY <1>1 DEF IInv, ListsInv, Lists, Coefficients
  <2>6. reg_count <= Len(indicator)
    <3>1. CASE pc = "element"
      <4>1. reg_count = Fits(indicator, Len(indicator) - 1)
        BY <1>1, <3>1 DEF IInv, SlotsInv, Slots
      <4>2. Len(indicator) = BlockNo(c, b) + 1
        BY <1>1, <3>1 DEF IInv, ChosenInv, Chosen
      <4>3. Len(indicator) - 1 \in 0 .. Len(indicator)
        BY <2>2, <4>2
      <4>4. Fits(indicator, Len(indicator) - 1) \in Nat
            /\ Fits(indicator, Len(indicator) - 1) <= Fits(indicator, Len(indicator))
        BY <2>3, <4>3, FitsAre
      <4> QED
        BY <2>3, <2>4, <4>1, <4>4
    <3>2. CASE pc # "element"
      <4>1. reg_count = Len(reg_types)
        BY <1>1, <3>2 DEF IInv, SlotsInv, Slots
      <4> QED
        BY <2>4, <2>5, <4>1
    <3> QED
      BY <3>1, <3>2
  <2>7. HaveElements(c, indicator, type, unpred, log, E)
    BY <1>1 DEF IInv, ListsInv, Lists
  <2>8. E \subseteq 0 .. Size(c) - 1 /\ Len(type) = Cardinality(E) /\ Len(type) <= Size(c)
    <3>1. E \subseteq 0 .. Size(c) - 1 /\ Len(type) = Cardinality(E)
      BY <2>7 DEF HaveElements
    <3> QED
      BY <2>1, <3>1, CountIs
  <2>9. pc \in {"element", "delement"} /\ elem < Volume(c, b) =>
          DataAt(c, b, elem) \in DOMAIN dec_data /\ BufferAt(c, b, elem) \in DOMAIN buffer
    <3> SUFFICES ASSUME pc \in {"element", "delement"}, elem < Volume(c, b)
                 PROVE  DataAt(c, b, elem) \in DOMAIN dec_data /\ BufferAt(c, b, elem) \in DOMAIN buffer
      OBVIOUS
    <3>1. AtElement(c, b, elem)
      BY <1>1, <2>1 DEF IInv, LoopInv, Looping, AtElement, InBlocks
    <3>2. DataAt(c, b, elem) \in 0 .. Size(c) - 1
      BY <2>1, <3>1, CodedNext
    <3>3. BufferAt(c, b, elem) \in 0 .. BufferSize(c) - 1
      BY <2>1, <3>1, BufferIs
    <3>4. DOMAIN dec_data = 0 .. Size(c) - 1 /\ DOMAIN buffer = 0 .. BufferSize(c) - 1
      BY <1>1 DEF IInv, ReplayInv, Replays, LoopInv, Looping, Held
    <3> QED
      BY <3>2, <3>3, <3>4
  <2>10. pc = "delement" => read.indicator < Len(stream.indicator)
    <3> SUFFICES ASSUME pc = "delement" PROVE read.indicator < Len(stream.indicator)
      OBVIOUS
    <3>1. ~Encoding(pc) /\ ~AtEnd(c, b) /\ Len(indicator) = Blocks(c)
      BY <1>1 DEF IInv, LoopInv, Looping, ChosenInv, Chosen, Encoding
    <3>2. read.indicator = BlockNo(c, b) /\ stream.indicator = indicator
      BY <1>1, <3>1 DEF IInv, ReplayInv, Replays, StreamInv
    <3> QED
      BY <2>2, <3>1, <3>2
  <2>11. stream # <<>> => /\ read.type <= Len(stream.type)
                          /\ read.params <= stream.reg_count + 1 /\ read.unpred <= Len(stream.unpred)
    <3> SUFFICES ASSUME stream # <<>>
                 PROVE  /\ read.type <= Len(stream.type)
                        /\ read.params <= stream.reg_count + 1 /\ read.unpred <= Len(stream.unpred)
      OBVIOUS
    <3>1. ~Encoding(pc) /\ pc # "element" /\ pc # "block"
      BY <1>1 DEF IInv, StreamInv, Encoding
    <3> PICK D : D = Decoded(c, pc, b, elem)
      OBVIOUS
    <3>2. E = 0 .. Size(c) - 1 /\ D \subseteq E
      BY <3>1 DEF Encoded, Decoded, Coded
    <3>3. /\ read.type = Cardinality(D) /\ read.unpred = Cardinality(D \cap c.hard)
          /\ read.params = 1 + Fits(indicator, BlockNo(c, b))
          /\ stream.type = type /\ stream.unpred = unpred /\ stream.reg_count = reg_count
      BY <1>1, <3>1 DEF IInv, ReplayInv, Replays, StreamInv
    <3>4. Len(unpred) = Cardinality(E \cap c.hard)
      BY <2>7 DEF HaveElements
    <3>5. Cardinality(D) <= Cardinality(E) /\ Cardinality(D \cap c.hard) <= Cardinality(E \cap c.hard)
      <4>1. E \cap c.hard \subseteq 0 .. Size(c) - 1 /\ D \cap c.hard \subseteq E \cap c.hard
        BY <2>8, <3>2
      <4> QED
        BY <2>1, <2>8, <3>2, <4>1, CountIs
    <3>6. reg_count = Len(reg_types) /\ Len(indicator) = Blocks(c)
      BY <1>1, <3>1 DEF IInv, SlotsInv, Slots, ChosenInv, Chosen
    <3>7. Fits(indicator, BlockNo(c, b)) \in Nat
          /\ Fits(indicator, BlockNo(c, b)) <= Fits(indicator, Len(indicator))
      <4>1. BlockNo(c, b) \in 0 .. Len(indicator)
        BY <2>2, <3>6
      <4> QED
        BY <2>3, <4>1, FitsAre
    <3>8. read.params <= stream.reg_count + 1
      BY <2>4, <2>5, <3>3, <3>6, <3>7
    <3> QED
      BY <2>8, <3>3, <3>4, <3>5, <3>8
  <2> QED
    BY <2>1, <2>3, <2>6, <2>8, <2>9, <2>10, <2>11 DEF TypeOK
<1> QED
  BY <1>1, InductiveInvariant, PTL

\* A Lorenzo prediction reads the neighbours it should, and zeros beyond the array, for
\* every shape and block size: the padding and the planes copied to the top suffice.
THEOREM AlwaysReadsNeighbours == Spec => []ReadsNeighbours
<1>1. ASSUME IInv PROVE ReadsNeighbours
  <2> PICK by : by = indicator[Len(indicator)]
    OBVIOUS
  <2> PICK n : n = DataAt(cfg, at, elem)
    OBVIOUS
  <2> SUFFICES ASSUME pc = "element", elem < Volume(cfg, at), by # "regression",
                      NEW t \in Terms(cfg, by)
               PROVE  Predict(cfg, buffer, at, elem, by, 0).cells[t] = Before(cfg, n, t)
    BY DEF ReadsNeighbours, Before
  <2>1. cfg \in Configs /\ AtElement(cfg, at, elem) /\ Held(cfg, buffer, at, elem)
    BY <1>1 DEF IInv, LoopInv, Looping, AtElement, InBlocks, Here
  <2>2. Predict(cfg, buffer, at, elem, by, 0) = Prediction(cfg, n, by, 0)
    BY <2>1, PredictIs
  <2> QED
    BY <2>2 DEF Prediction
<1> QED
  BY <1>1, InductiveInvariant, PTL

\* decompress_3d returns every element as it was reconstructed, for every shape, block
\* size, choice of predictors and set of what is unpredictable.
THEOREM AlwaysReconstructs == Spec => []Reconstructs
<1>1. ASSUME IInv PROVE Reconstructs
  <2> SUFFICES ASSUME pc = "done" PROVE \A n \in DOMAIN dec_data : dec_data[n] = n
    BY DEF Reconstructs
  <2>1. cfg \in Configs /\ InLoops(cfg, at) /\ AtEnd(cfg, at)
    BY <1>1 DEF IInv, LoopInv, Looping
  <2>2. Decoded(cfg, pc, at, elem) = 0 .. Size(cfg) - 1
    BY <2>1, CodedLast DEF Decoded, Encoding, Here
  <2> QED
    BY <1>1, <2>2 DEF IInv, ReplayInv, Replays
<1> QED
  BY <1>1, InductiveInvariant, PTL

\* And it uses every list up.
THEOREM AlwaysListsConsumed == Spec => []ListsConsumed
<1>1. ASSUME IInv PROVE ListsConsumed
  <2> SUFFICES ASSUME pc = "done"
               PROVE  read = [indicator |-> Len(stream.indicator), params |-> stream.reg_count + 1,
                              type |-> Len(stream.type), unpred |-> Len(stream.unpred)]
    BY DEF ListsConsumed
  <2> PICK E : E = 0 .. Size(cfg) - 1
    OBVIOUS
  <2>1. cfg \in Configs /\ InLoops(cfg, at) /\ AtEnd(cfg, at) /\ ~Encoding(pc)
    BY <1>1 DEF IInv, LoopInv, Looping, Encoding
  <2>2. Decoded(cfg, pc, at, elem) = E /\ Encoded(cfg, pc, at, elem) = E
    BY <2>1, CodedLast DEF Decoded, Encoded, Encoding, Here
  <2>3. BlockNo(cfg, at) = Blocks(cfg) /\ Blocks(cfg) \in Nat
    BY <2>1, BlockNoIs
  <2>4. IsSeq(indicator) /\ Len(indicator) = Blocks(cfg)
    BY <1>1 DEF IInv, ChosenInv, Chosen
  <2>5. /\ stream.indicator = indicator /\ stream.type = type /\ stream.unpred = unpred
        /\ stream.reg_count = reg_count
    BY <1>1, <2>1 DEF IInv, StreamInv
  <2>6. Len(type) = Cardinality(E) /\ Len(unpred) = Cardinality(E \cap cfg.hard)
    BY <1>1, <2>2 DEF IInv, ListsInv, Lists, HaveElements
  <2>7. reg_count = Fits(indicator, Len(indicator))
    BY <1>1 DEF IInv, SlotsInv, Slots, ListsInv, Lists, Coefficients
  <2>8. Fits(indicator, Len(indicator)) \in Nat
    BY <2>3, <2>4, FitsAre
  <2>9. read = [indicator |-> BlockNo(cfg, at), params |-> 1 + Fits(indicator, BlockNo(cfg, at)),
                type |-> Cardinality(E), unpred |-> Cardinality(E \cap cfg.hard)]
    BY <1>1, <2>1, <2>2 DEF IInv, ReplayInv, Replays
  <2>10. /\ BlockNo(cfg, at) = Len(stream.indicator)
         /\ 1 + Fits(indicator, BlockNo(cfg, at)) = stream.reg_count + 1
    BY <2>3, <2>4, <2>5, <2>7, <2>8
  <2> QED
    BY <2>5, <2>6, <2>9, <2>10
<1> QED
  BY <1>1, InductiveInvariant, PTL

\* compress_3d and decompress_3d implement PointOrder, for every shape and block size: no
\* element is coded twice, predictions read what is coded, and the decoder repeats it.
THEOREM RefinesOrder == Spec => FollowsOrder
<1>1. Init => Order!Init
  BY DEF Init, Order!Init
<1>2. ASSUME IInv, [Next]_vars PROVE Order!Next \/ UNCHANGED Order!poVars
  <2>1. CASE CodeElement
    <3>1. cfg' = cfg /\ dlog' = dlog
      BY <2>1 DEF CodeElement, decVars
    <3>2. Order!Known(log) = Happened(log)
      BY DEF Order!Known, Order!Coded, Happened
    <3>3. PICK event : /\ log' = Append(log, {event})
                       /\ event.at \in (0 .. Size(cfg) - 1) \ Happened(log)
                       /\ event.reads \subseteq Happened(log)
                       /\ event = [at |-> event.at, reads |-> event.reads]
      BY <1>2, <2>1, CodeElementIs
    <3>4. event \in [at : (0 .. Size(cfg) - 1) \ Order!Known(log), reads : SUBSET Order!Known(log)]
      BY <3>2, <3>3
    <3>5. Order!GoodBatch({event}, Order!Known(log))
      BY <3>4 DEF Order!GoodBatch
    <3>6. Len(log') = Len(log) + 1 /\ log'[Len(log) + 1] = {event}
      BY <1>2, <3>3, AppendIs DEF IInv, ListsInv, Lists, HaveElements
    <3>7. UNCHANGED <<0 .. (Size(cfg) - 1), dlog>>
      BY <3>1
    <3> QED
      BY <3>3, <3>5, <3>6, <3>7 DEF Order!Next, Order!Encode
  <2>2. CASE DecodeElement
    <3>1. cfg' = cfg /\ log' = log
      BY <2>2 DEF DecodeElement, encVars
    <3>2. Len(dlog) < Len(log) /\ dlog' = Append(dlog, log[Len(dlog) + 1])
      BY <1>2, <2>2, DecodeElementIs
    <3> QED
      BY <3>1, <3>2 DEF Order!Next, Order!Decode
  <2>3. CASE ~CodeElement /\ ~DecodeElement
    <3>1. cfg' = cfg /\ log' = log /\ dlog' = dlog
      BY <1>2, <2>3 DEF Next, StartBlock, NextBlock, SaveAndLoad, DecodeStartBlock,
           DecodeNextBlock, Return, Done, vars, encVars, decVars
    <3> QED
      BY <3>1 DEF Order!poVars
  <2> QED
    BY <2>1, <2>2, <2>3
<1> QED
  BY <1>1, <1>2, InductiveInvariant, PTL DEF Spec, FollowsOrder, Order!Spec

===============================================================================
