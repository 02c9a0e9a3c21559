---------------------------- MODULE BitWriterProofs ----------------------------
(***************************************************************************)
(* BitWriter is correct for every size of a byte and a word and every code *)
(* table.  The inductive invariant says where the cursor stands in bits    *)
(* (CursorInv); what is in the buffer follows write by write.              *)
(***************************************************************************)
EXTENDS BitWriter, TLAPS

LEMMA Distributes ==
  ASSUME NEW a \in Int, NEW b \in Int
  PROVE  (a + b) * ByteBits = a * ByteBits + b * ByteBits
BY BitAssumption, SMT

LEMMA DivMod ==
  ASSUME NEW n \in Nat
  PROVE  /\ n \div ByteBits \in Nat
         /\ n % ByteBits \in 0 .. ByteBits - 1
         /\ n = (n \div ByteBits) * ByteBits + (n % ByteBits)
BY BitAssumption, SMT

\* The bytes n bits touch, in bits.
LEMMA WholeBytes ==
  ASSUME NEW n \in Nat
  PROVE  /\ LackBits(n) \in 0 .. ByteBits - 1
         /\ ByteSize(n) \in Nat
         /\ ByteSize(n) = n \div ByteBits + IF LackBits(n) = 0 THEN 0 ELSE 1
         /\ ByteSize(n) * ByteBits = n + LackBits(n)
<1> DEFINE d == n \div ByteBits
           r == n % ByteBits
<1>1. d \in Nat /\ r \in 0 .. ByteBits - 1 /\ n = d * ByteBits + r
  BY DivMod
<1>2. (d + 1) * ByteBits = d * ByteBits + ByteBits
  BY <1>1, BitAssumption, SMT
<1>3. d * ByteBits \in Nat
  BY <1>1, BitAssumption, SMT
<1> QED
  BY <1>1, <1>2, <1>3, BitAssumption DEF LackBits, ByteSize

\* Order is kept by the size of a byte.
LEMMA Cancels ==
  ASSUME NEW a \in Int, NEW b \in Int, a * ByteBits < b * ByteBits
  PROVE  a < b
<1>1. SUFFICES ASSUME b <= a PROVE b * ByteBits <= a * ByteBits
  BY <1>1, BitAssumption, SMT
<1>2. (a - b) * ByteBits >= 0
  BY <1>1, BitAssumption, SMT
<1>3. a * ByteBits = (a - b) * ByteBits + b * ByteBits
  BY <1>1, BitAssumption, SMT
<1> QED
  BY <1>2, <1>3, BitAssumption, SMT

\* The number of bytes is the only one that fits.
LEMMA SizeUnique ==
  ASSUME NEW n \in Nat, NEW a \in Nat, NEW l \in 0 .. ByteBits - 1,
         a * ByteBits = n + l
  PROVE  ByteSize(n) = a
<1> DEFINE s == ByteSize(n)
<1>1. s \in Nat /\ s * ByteBits = n + LackBits(n) /\ LackBits(n) \in 0 .. ByteBits - 1
  BY WholeBytes
<1>2. (a + 1) * ByteBits = a * ByteBits + ByteBits /\ (s + 1) * ByteBits = s * ByteBits + ByteBits
  BY <1>1, BitAssumption, SMT
<1> HIDE DEF s
<1>3. s * ByteBits < (a + 1) * ByteBits /\ a * ByteBits < (s + 1) * ByteBits
  BY <1>1, <1>2, BitAssumption, SMT
<1>4. s < a + 1 /\ a < s + 1
  BY <1>1, <1>3, Cancels
<1> QED
  BY <1>1, <1>4 DEF s

\* A code fits in a word, and so do the bits its last byte lacks.
LEMMA WordFits ==
  ASSUME NEW n \in Nat, n <= WordBits
  PROVE  n + LackBits(n) <= WordBits
<1> DEFINE s == ByteSize(n)
<1>1. s \in Nat /\ s * ByteBits = n + LackBits(n) /\ LackBits(n) \in 0 .. ByteBits - 1
  BY WholeBytes
<1>2. (WordBytes + 1) * ByteBits = WordBits + ByteBits /\ WordBits \in Nat
  BY BitAssumption, SMT DEF WordBits
<1> HIDE DEF s
<1>3. s * ByteBits < (WordBytes + 1) * ByteBits
  BY <1>1, <1>2, BitAssumption, SMT
<1>4. s < WordBytes + 1
  BY <1>1, <1>3, Cancels, BitAssumption
<1>5. (WordBytes - s) * ByteBits >= 0 /\ WordBytes * ByteBits = (WordBytes - s) * ByteBits + s * ByteBits
  BY <1>1, <1>4, BitAssumption, SMT
<1> QED
  BY <1>1, <1>5, BitAssumption, SMT DEF WordBits

-----------------------------------------------------------------------------
(* What the two writes leave in the buffer.                                *)

Size == Capacity * ByteBits

LEMMA SizeNat == Size \in Nat /\ WordBits \in Nat /\ ByteBits <= WordBits
<1>1. (WordBytes - 1) * ByteBits >= 0
  BY BitAssumption, SMT
<1>2. WordBytes * ByteBits = (WordBytes - 1) * ByteBits + ByteBits
  BY BitAssumption, SMT
<1> QED
  BY <1>1, <1>2, BitAssumption, WriterAssumption, SMT DEF Size, WordBits

LEMMA WordBit ==
  ASSUME NEW code \in Seq(Bit)
  PROVE  Word(code) \in [1 .. WordBits -> Bit]
BY SizeNat DEF Word, Bit

LEMMA ShiftBit ==
  ASSUME NEW word \in [1 .. WordBits -> Bit], NEW n \in Nat
  PROVE  ShiftLeft(word, n) \in [1 .. WordBits -> Bit]
BY SizeNat DEF ShiftLeft, Bit

LEMMA Stored ==
  ASSUME NEW bytes \in [1 .. Size -> Bit], NEW p \in Nat, NEW q \in Nat, q = p * ByteBits,
         NEW word \in [1 .. WordBits -> Bit]
  PROVE  LET new == int64ToBytes_bigEndian(bytes, p, word)
         IN  /\ new \in [1 .. Size -> Bit]
             /\ \A k \in 1 .. Size : (k <= q \/ k > q + WordBits) => new[k] = bytes[k]
             /\ \A j \in 1 .. WordBits : q + j \in 1 .. Size => new[q + j] = word[j]
<1> DEFINE new == int64ToBytes_bigEndian(bytes, p, word)
<1>1. new = [k \in 1 .. Size |-> IF k - q \in 1 .. WordBits THEN word[k - q] ELSE bytes[k]]
  BY DEF int64ToBytes_bigEndian
<1>2. \A k \in 1 .. Size : (k <= q \/ k > q + WordBits) => k - q \notin 1 .. WordBits
  BY SizeNat
<1>3. \A j \in 1 .. WordBits : (q + j) - q = j
  BY SizeNat
<1>4. \A k \in 1 .. Size : k - q \in 1 .. WordBits => word[k - q] \in Bit
  OBVIOUS
<1>5. new \in [1 .. Size -> Bit]
  BY <1>1, <1>4
<1> HIDE DEF new
<1>6. \A k \in 1 .. Size : (k <= q \/ k > q + WordBits) => new[k] = bytes[k]
  BY <1>1, <1>2
<1>7. \A j \in 1 .. WordBits : q + j \in 1 .. Size => new[q + j] = word[j]
  BY <1>1, <1>3
<1> QED
  BY <1>5, <1>6, <1>7 DEF new

LEMMA Ored ==
  ASSUME NEW bytes \in [1 .. Size -> Bit], NEW p \in Nat, NEW n \in Nat,
         NEW lackBits \in 0 .. ByteBits - 1, n + lackBits = (p + 1) * ByteBits,
         NEW word \in [1 .. WordBits -> Bit]
  PROVE  LET new == OrTail(bytes, p, lackBits, word)
         IN  /\ new \in [1 .. Size -> Bit]
             /\ \A k \in 1 .. Size : (k <= n \/ k > n + lackBits) => new[k] = bytes[k]
             /\ \A j \in 1 .. lackBits :
                  (n + j \in 1 .. Size /\ bytes[n + j] = 0) => new[n + j] = word[j]
<1> DEFINE new == OrTail(bytes, p, lackBits, word)
           q   == (p + 1) * ByteBits
<1>0. q \in Int /\ lackBits \in Nat
  BY BitAssumption, SMT
<1>1. new = [k \in 1 .. Size |->
               IF k - (q - lackBits) \in 1 .. lackBits /\ word[k - (q - lackBits)] = 1 THEN 1 ELSE bytes[k]]
  BY DEF OrTail
<1>2. n + lackBits = q
  OBVIOUS
<1> HIDE DEF q
<1>3. q - lackBits = n
  BY <1>0, <1>2
<1>4. new = [k \in 1 .. Size |->
               IF k - n \in 1 .. lackBits /\ word[k - n] = 1 THEN 1 ELSE bytes[k]]
  BY <1>1, <1>3
<1>5. \A k \in 1 .. Size : (k <= n \/ k > n + lackBits) => k - n \notin 1 .. lackBits
  BY <1>0
<1>6. \A j \in 1 .. lackBits : (n + j) - n = j /\ j \in 1 .. WordBits
  BY <1>0, SizeNat, BitAssumption
<1>7. new \in [1 .. Size -> Bit]
  BY <1>4 DEF Bit
<1> HIDE DEF new
<1>8. \A k \in 1 .. Size : (k <= n \/ k > n + lackBits) => new[k] = bytes[k]
  BY <1>4, <1>5
<1>9. ASSUME NEW j \in 1 .. lackBits, n + j \in 1 .. Size, bytes[n + j] = 0
      PROVE  new[n + j] = word[j]
  <2>1. word[j] \in {0, 1} /\ (n + j) - n = j
    BY <1>6 DEF Bit
  <2> QED
    BY <1>4, <1>9, <2>1
<1> QED
  BY <1>7, <1>8, <1>9 DEF new

-----------------------------------------------------------------------------
(* One code.                                                               *)

\* The invariant without the cursor's arithmetic: bits in front, zeros behind.
Shows(bytes, bits, lackBits) ==
  /\ \A k \in 1 .. Len(bits) : bytes[k] = bits[k]
  /\ \A k \in 1 .. lackBits : bytes[Len(bits) + k] = 0

IInv == TypeOK /\ CursorInv /\ Written

\* A byte's bits are full or lack some: what the cursor says of the next one.
LEMMA NextCursor ==
  ASSUME NEW bits \in Nat, NEW p \in Nat, NEW n \in Nat, p * ByteBits = bits
  PROVE  /\ (p + n \div ByteBits) * ByteBits
               = bits + n + LackBits(n) - (IF LackBits(n) = 0 THEN 0 ELSE ByteBits)
         /\ ByteSize(n) = n \div ByteBits + IF LackBits(n) = 0 THEN 0 ELSE 1
<1> DEFINE d == n \div ByteBits
<1>1. d \in Nat
  BY DivMod
<1>2. /\ LackBits(n) \in 0 .. ByteBits - 1
      /\ ByteSize(n) = d + IF LackBits(n) = 0 THEN 0 ELSE 1
      /\ ByteSize(n) * ByteBits = n + LackBits(n)
  BY WholeBytes
<1> HIDE DEF d
<1>3. (d + 1) * ByteBits = d * ByteBits + ByteBits /\ (d + 0) * ByteBits = d * ByteBits
  BY <1>1, BitAssumption, SMT
<1>4. d * ByteBits = n + LackBits(n) - (IF LackBits(n) = 0 THEN 0 ELSE ByteBits)
  <2>1. CASE LackBits(n) = 0
    BY <1>1, <1>2, <1>3, <2>1, BitAssumption
  <2>2. CASE LackBits(n) # 0
    BY <1>1, <1>2, <1>3, <2>2, BitAssumption
  <2> QED
    BY <2>1, <2>2
<1> DEFINE D == d * ByteBits
<1>5. (p + d) * ByteBits = bits + D
  BY <1>1, Distributes
<1>6. D = n + LackBits(n) - (IF LackBits(n) = 0 THEN 0 ELSE ByteBits)
  BY <1>4
<1> HIDE DEF D
<1>7. bits + D = bits + n + LackBits(n) - (IF LackBits(n) = 0 THEN 0 ELSE ByteBits)
  BY <1>2, <1>6, BitAssumption
<1>8. (p + d) * ByteBits = bits + n + LackBits(n) - (IF LackBits(n) = 0 THEN 0 ELSE ByteBits)
  BY <1>5, <1>7
<1> QED
  BY <1>2, <1>8 DEF d

\* WriteCode keeps the invariant, in whichever of its branches.
LEMMA WriteOne ==
  ASSUME IInv, NEW code \in Codes,
         Len(written) + Len(code) + WordBits + ByteBits <= Capacity * ByteBits
  PROVE  LET x    == WriteCode(w, code)
             bits == written \o code
         IN  /\ x.bytes \in [1 .. Size -> Bit]
             /\ x.p \in Nat /\ x.lackBits \in 0 .. ByteBits - 1 /\ x.outSize \in Nat
             /\ x.p * ByteBits = Len(bits) + x.lackBits - (IF x.lackBits = 0 THEN 0 ELSE ByteBits)
             /\ x.outSize = x.p + IF x.lackBits = 0 THEN 0 ELSE 1
             /\ Len(bits) + x.lackBits <= Size
             /\ Shows(x.bytes, bits, x.lackBits)
<1> DEFINE n    == Len(code)
           N    == Len(written)
           x    == WriteCode(w, code)
           bits == written \o code
           word == Word(code)
           lack == w.lackBits
<1>1. /\ w.bytes \in [1 .. Size -> Bit] /\ w.p \in Nat /\ lack \in 0 .. ByteBits - 1
      /\ w.outSize \in Nat /\ written \in Seq(Bit) /\ N \in Nat
  BY DEF IInv, TypeOK, Size
<1>2. code \in Seq(Bit) /\ n \in Nat /\ n <= WordBits
  BY WriterAssumption
<1>3. /\ bits \in Seq(Bit) /\ Len(bits) = N + n
      /\ \A k \in 1 .. N : bits[k] = written[k]
      /\ \A k \in 1 .. n : bits[N + k] = code[k]
  BY <1>1, <1>2
<1>4. /\ word \in [1 .. WordBits -> Bit]
      /\ \A k \in 1 .. n : word[k] = code[k]
      /\ \A k \in 1 .. WordBits : k > n => word[k] = 0
  BY <1>2, WordBit, SizeNat DEF Word
<1>5. /\ w.p * ByteBits = N + lack - (IF lack = 0 THEN 0 ELSE ByteBits)
      /\ w.outSize = w.p + IF lack = 0 THEN 0 ELSE 1
  BY DEF IInv, CursorInv
<1>s. /\ \A k \in 1 .. N : w.bytes[k] = written[k]
      /\ \A k \in 1 .. lack : w.bytes[N + k] = 0
  BY DEF IInv, CursorInv, Written, Holds
<1>6. N + n + WordBits + ByteBits <= Size
  BY DEF Size
<1>7. Size \in Nat /\ WordBits \in Nat /\ ByteBits <= WordBits /\ ByteBits \in Nat \ {0}
  BY SizeNat, BitAssumption
<1> HIDE DEF n, N, bits, word, lack
<1>8. CASE lack = 0
  <2> DEFINE new == int64ToBytes_bigEndian(w.bytes, w.p, word)
  <2>1. x = [bytes |-> new, p |-> w.p + n \div ByteBits, lackBits |-> LackBits(n),
             outSize |-> w.outSize + ByteSize(n)]
    BY <1>8 DEF WriteCode, Append0, n, word, lack
  <2>2. N = w.p * ByteBits
    BY <1>1, <1>5, <1>8, <1>7
  <2>3. /\ new \in [1 .. Size -> Bit]
        /\ \A k \in 1 .. Size : (k <= N \/ k > N + WordBits) => new[k] = w.bytes[k]
        /\ \A j \in 1 .. WordBits : N + j \in 1 .. Size => new[N + j] = word[j]
    BY <1>1, <1>4, <2>2, Stored
  <2>4. LackBits(n) \in 0 .. ByteBits - 1 /\ n + LackBits(n) <= WordBits
    BY <1>2, WholeBytes, WordFits
  <2>d. ByteSize(n) \in Nat /\ n \div ByteBits \in Nat
    BY <1>2, WholeBytes, DivMod
  <2>5. /\ (w.p + n \div ByteBits) * ByteBits
               = N + n + LackBits(n) - (IF LackBits(n) = 0 THEN 0 ELSE ByteBits)
        /\ ByteSize(n) = n \div ByteBits + IF LackBits(n) = 0 THEN 0 ELSE 1
    BY <1>1, <1>2, <2>2, NextCursor
  <2> HIDE DEF new
  <2>6. ASSUME NEW k \in 1 .. N + n PROVE new[k] = bits[k]
    <3>1. CASE k <= N
      <4>1. k \in 1 .. N /\ k \in 1 .. Size
        BY <1>1, <1>2, <1>6, <1>7, <3>1
      <4> QED
        BY <1>3, <1>s, <2>3, <3>1, <4>1
    <3>2. CASE k > N
      <4>1. k - N \in 1 .. n /\ k - N \in 1 .. WordBits /\ k = N + (k - N) /\ k \in 1 .. Size
        BY <1>1, <1>2, <1>6, <1>7, <3>2
      <4>2. new[k] = word[k - N] /\ bits[k] = code[k - N]
        BY <1>3, <2>3, <4>1
      <4> QED
        BY <1>4, <4>1, <4>2
    <3> QED
      BY <1>1, <3>1, <3>2
  <2>7. ASSUME NEW k \in 1 .. LackBits(n) PROVE new[N + n + k] = 0
    <3>1. /\ N + n + k = N + (n + k) /\ N + (n + k) \in 1 .. Size
          /\ n + k \in 1 .. WordBits /\ n + k > n
      BY <1>1, <1>2, <1>6, <1>7, <2>4
    <3> QED
      BY <1>4, <2>3, <3>1
  <2>8. Shows(new, bits, LackBits(n))
    BY <1>3, <2>6, <2>7 DEF Shows
  <2>9. w.outSize + ByteSize(n) = (w.p + n \div ByteBits) + IF LackBits(n) = 0 THEN 0 ELSE 1
    <3>1. w.outSize = w.p
      BY <1>1, <1>5, <1>8
    <3> QED
      BY <1>1, <2>d, <2>5, <3>1
  <2>10. N + n + LackBits(n) <= Size
    BY <1>1, <1>2, <1>6, <1>7, <2>4
  <2>11. x.bytes = new /\ x.p = w.p + n \div ByteBits /\ x.lackBits = LackBits(n)
         /\ x.outSize = w.outSize + ByteSize(n)
    BY <2>1
  <2> HIDE DEF x
  <2>12. x.p \in Nat /\ x.outSize \in Nat
    BY <1>1, <2>d, <2>11
  <2> QED
    BY <1>3, <2>3, <2>4, <2>5, <2>8, <2>9, <2>10, <2>11, <2>12 DEF x, bits
<1>9. CASE lack # 0
  <2>1. (w.p + 1) * ByteBits = N + lack
    <3> DEFINE P == w.p * ByteBits
    <3>1. (w.p + 1) * ByteBits = P + ByteBits /\ P \in Int
      BY <1>1, BitAssumption, SMT
    <3>2. P = N + lack - ByteBits
      BY <1>5, <1>9
    <3> HIDE DEF P
    <3>3. P + ByteBits = N + lack
      BY <1>1, <1>7, <3>1, <3>2
    <3> QED
      BY <3>1, <3>3
  <2> DEFINE filled == OrTail(w.bytes, w.p, lack, word)
  <2>2. /\ filled \in [1 .. Size -> Bit]
        /\ \A k \in 1 .. Size : (k <= N \/ k > N + lack) => filled[k] = w.bytes[k]
        /\ \A j \in 1 .. lack : (N + j \in 1 .. Size /\ w.bytes[N + j] = 0) => filled[N + j] = word[j]
    <3>1. N + lack = (w.p + 1) * ByteBits
      BY <2>1
    <3>2. w.bytes \in [1 .. Size -> Bit] /\ w.p \in Nat /\ N \in Nat /\ lack \in 0 .. ByteBits - 1
      BY <1>1
    <3>3. word \in [1 .. WordBits -> Bit]
      BY <1>4
    <3> HIDE DEF filled
    <3> QED
      BY <3>1, <3>2, <3>3, Ored DEF filled
  <2>3. ASSUME NEW k \in 1 .. N PROVE filled[k] = bits[k]
    BY <1>1, <1>2, <1>3, <1>s, <1>6, <1>7, <2>2
  <2>4. ASSUME NEW j \in 1 .. lack PROVE filled[N + j] = word[j]
    <3>1. N + j \in 1 .. Size
      BY <1>1, <1>2, <1>6, <1>7
    <3>2. w.bytes[N + j] = 0
      BY <1>s
    <3> QED
      BY <2>2, <3>1, <3>2
  <2> HIDE DEF filled
  <2>5. CASE lack < n
    <3> DEFINE rest  == n - lack
               moved == ShiftLeft(word, lack)
               new   == int64ToBytes_bigEndian(filled, w.p + 1, moved)
    <3>1. x = [bytes |-> new, p |-> w.p + 1 + rest \div ByteBits, lackBits |-> LackBits(rest),
               outSize |-> w.outSize + ByteSize(rest)]
      BY <1>9, <2>5 DEF WriteCode, Spill, n, word, lack, filled
    <3>2. rest \in Nat /\ rest <= WordBits /\ w.p + 1 \in Nat /\ N + lack \in Nat
      BY <1>1, <1>2, <1>7, <2>5
    <3>3. /\ moved \in [1 .. WordBits -> Bit]
          /\ \A k \in 1 .. rest : moved[k] = code[lack + k]
          /\ \A k \in 1 .. WordBits : k > rest => moved[k] = 0
      <4>1. moved \in [1 .. WordBits -> Bit]
        BY <1>1, <1>4, ShiftBit
      <4>2. ASSUME NEW k \in 1 .. rest PROVE moved[k] = code[lack + k]
        <5>1. k \in 1 .. WordBits /\ k + lack \in 1 .. n /\ k + lack <= WordBits /\ k + lack = lack + k
          BY <1>1, <1>2, <1>7, <3>2
        <5> QED
          BY <1>4, <5>1 DEF ShiftLeft
      <4>3. ASSUME NEW k \in 1 .. WordBits, k > rest PROVE moved[k] = 0
        <5>1. k + lack > n /\ (k + lack <= WordBits => k + lack \in 1 .. WordBits)
          BY <1>1, <1>2, <1>7, <4>3
        <5> QED
          BY <1>4, <5>1 DEF ShiftLeft
      <4> QED
        BY <4>1, <4>2, <4>3
    <3>4. LackBits(rest) \in 0 .. ByteBits - 1 /\ rest + LackBits(rest) <= WordBits
      BY <3>2, WholeBytes, WordFits
    <3>d. ByteSize(rest) \in Nat /\ rest \div ByteBits \in Nat
      BY <3>2, WholeBytes, DivMod
    <3>5. /\ (w.p + 1 + rest \div ByteBits) * ByteBits
                 = N + lack + rest + LackBits(rest) - (IF LackBits(rest) = 0 THEN 0 ELSE ByteBits)
          /\ ByteSize(rest) = rest \div ByteBits + IF LackBits(rest) = 0 THEN 0 ELSE 1
      BY <2>1, <3>2, NextCursor
    <3>6. /\ new \in [1 .. Size -> Bit]
          /\ \A k \in 1 .. Size : (k <= N + lack \/ k > N + lack + WordBits) => new[k] = filled[k]
          /\ \A j \in 1 .. WordBits : N + lack + j \in 1 .. Size => new[N + lack + j] = moved[j]
      BY <2>1, <2>2, <3>2, <3>3, Stored
    <3>7. rest + lack = n
      BY <1>1, <1>2
    <3> HIDE DEF new, moved, rest
    <3>8. ASSUME NEW k \in 1 .. N + n PROVE new[k] = bits[k]
      <4>1. CASE k <= N
        BY <1>1, <1>2, <1>6, <1>7, <2>3, <3>6, <4>1
      <4>2. CASE k > N /\ k <= N + lack
        <5>1. k - N \in 1 .. lack /\ k - N \in 1 .. n /\ k = N + (k - N) /\ k \in 1 .. Size
          BY <1>1, <1>2, <1>6, <1>7, <2>5, <4>2
        <5>2. new[k] = filled[k]
          BY <3>6, <4>2, <5>1
        <5>3. filled[k] = word[k - N] /\ bits[k] = code[k - N]
          BY <1>3, <2>4, <5>1
        <5> QED
          BY <1>4, <5>1, <5>2, <5>3
      <4>3. CASE k > N + lack
        <5>1. /\ k - (N + lack) \in 1 .. rest /\ k - (N + lack) \in 1 .. WordBits
              /\ lack + (k - (N + lack)) \in 1 .. n /\ k \in 1 .. Size
              /\ k = N + (lack + (k - (N + lack))) /\ k = N + lack + (k - (N + lack))
          BY <1>1, <1>2, <1>6, <1>7, <3>2, <3>7, <4>3
        <5>2. new[k] = moved[k - (N + lack)]
          BY <3>6, <5>1
        <5>3. moved[k - (N + lack)] = code[lack + (k - (N + lack))]
          BY <3>3, <5>1
        <5>4. bits[k] = code[lack + (k - (N + lack))]
          BY <1>3, <5>1
        <5> QED
          BY <5>2, <5>3, <5>4
      <4> QED
        BY <1>1, <4>1, <4>2, <4>3
    <3>9. ASSUME NEW k \in 1 .. LackBits(rest) PROVE new[N + n + k] = 0
      <4>1. N + n + k = N + lack + (rest + k) /\ N + lack + (rest + k) \in 1 .. Size
        BY <1>1, <1>2, <1>6, <1>7, <3>2, <3>4, <3>7
      <4>2. rest + k \in 1 .. WordBits /\ rest + k > rest
        BY <1>7, <3>2, <3>4
      <4> QED
        BY <3>3, <3>6, <4>1, <4>2
    <3>10. Shows(new, bits, LackBits(rest))
      BY <1>3, <3>8, <3>9 DEF Shows
    <3>11. /\ w.outSize + ByteSize(rest)
                  = (w.p + 1 + rest \div ByteBits) + IF LackBits(rest) = 0 THEN 0 ELSE 1
           /\ w.outSize = w.p + 1
      <4>1. w.outSize = w.p + 1
        BY <1>1, <1>5, <1>9
      <4> QED
        BY <1>1, <3>d, <3>5, <4>1
    <3>12. N + n + LackBits(rest) <= Size /\ N + lack + rest = N + n
      <4> DEFINE behind == LackBits(rest)
      <4>1. N \in Nat /\ n \in Nat /\ lack \in 0 .. ByteBits - 1
        BY <1>1, <1>2
      <4>2. rest \in Nat /\ behind \in 0 .. ByteBits - 1 /\ rest + behind <= WordBits
        BY <3>2, <3>4
      <4> HIDE DEF behind
      <4>3. N + n + behind <= Size /\ N + lack + rest = N + n
        BY <1>6, <1>7, <3>7, <4>1, <4>2
      <4> QED
        BY <4>3 DEF behind
    <3>13. x.bytes = new /\ x.p = w.p + 1 + rest \div ByteBits /\ x.lackBits = LackBits(rest)
           /\ x.outSize = w.outSize + ByteSize(rest)
      BY <3>1
    <3> HIDE DEF x
    <3>14. x.p \in Nat /\ x.outSize \in Nat
      BY <1>1, <3>d, <3>13
    <3> QED
      BY <1>3, <3>4, <3>5, <3>6, <3>10, <3>11, <3>12, <3>13, <3>14 DEF x, bits
  <2>6. CASE ~(lack < n)
    <3>1. x = [bytes |-> filled, p |-> IF lack = n THEN w.p + 1 ELSE w.p, lackBits |-> lack - n,
               outSize |-> w.outSize]
      BY <1>9, <2>6 DEF WriteCode, Fit, n, word, lack, filled
    <3>2. ASSUME NEW k \in 1 .. N + n PROVE filled[k] = bits[k]
      <4>1. CASE k <= N
        BY <1>1, <2>3, <4>1
      <4>2. CASE k > N
        <5>1. k - N \in 1 .. n /\ k - N \in 1 .. lack /\ k = N + (k - N)
          BY <1>1, <1>2, <2>6, <4>2
        <5> QED
          BY <1>3, <1>4, <2>4, <5>1
      <4> QED
        BY <1>1, <4>1, <4>2
    <3>3. ASSUME NEW k \in 1 .. lack - n PROVE filled[N + n + k] = 0
      <4>1. n + k \in 1 .. lack /\ n + k \in 1 .. WordBits /\ n + k > n /\ N + n + k = N + (n + k)
        BY <1>1, <1>2, <1>7, <2>6
      <4> QED
        BY <1>4, <2>4, <4>1
    <3>4. Shows(filled, bits, lack - n)
      BY <1>3, <3>2, <3>3 DEF Shows
    <3>5. /\ (IF lack = n THEN w.p + 1 ELSE w.p) * ByteBits
                = N + n + (lack - n) - (IF lack - n = 0 THEN 0 ELSE ByteBits)
          /\ w.outSize = (IF lack = n THEN w.p + 1 ELSE w.p) + IF lack - n = 0 THEN 0 ELSE 1
      <4>1. N \in Nat /\ n \in Nat /\ lack \in 1 .. ByteBits - 1 /\ n <= lack /\ w.p \in Nat
        BY <1>1, <1>2, <1>7, <1>9, <2>6
      <4>2. w.p * ByteBits = N + lack - ByteBits /\ w.outSize = w.p + 1
        BY <1>5, <1>9
      <4>3. CASE lack = n
        BY <1>7, <2>1, <4>1, <4>2, <4>3
      <4>4. CASE lack # n
        <5>1. lack - n # 0 /\ N + n + (lack - n) = N + lack
          BY <1>7, <4>1, <4>4
        <5>2. (IF lack = n THEN w.p + 1 ELSE w.p) = w.p /\ (IF lack - n = 0 THEN 0 ELSE ByteBits) = ByteBits
              /\ (IF lack - n = 0 THEN 0 ELSE 1) = 1
          BY <4>4, <5>1
        <5>3. w.p * ByteBits = N + n + (lack - n) - ByteBits
          <6> DEFINE P == w.p * ByteBits
          <6>1. P = N + lack - ByteBits
            BY <4>2
          <6> HIDE DEF P
          <6>2. P = N + n + (lack - n) - ByteBits
            BY <1>7, <4>1, <6>1
          <6> QED
            BY <6>2 DEF P
        <5> QED
          BY <4>2, <5>2, <5>3
      <4> QED
        BY <4>3, <4>4
    <3>6. N + n + (lack - n) <= Size /\ lack - n \in 0 .. ByteBits - 1
      BY <1>1, <1>2, <1>6, <1>7, <2>6
    <3>7. x.bytes = filled /\ x.p = (IF lack = n THEN w.p + 1 ELSE w.p) /\ x.lackBits = lack - n
          /\ x.outSize = w.outSize
      BY <3>1
    <3> HIDE DEF x
    <3>8. x.p \in Nat /\ x.outSize \in Nat
      BY <1>1, <3>7
    <3> QED
      BY <1>3, <2>2, <3>4, <3>5, <3>6, <3>7, <3>8 DEF x, bits
  <2> QED
    BY <2>5, <2>6
<1> QED
  BY <1>8, <1>9

-----------------------------------------------------------------------------
(* The writer.                                                             *)

LEMMA Starts == Init => IInv
<1> SUFFICES ASSUME NEW garbage \in Bit,
                    w = Fresh([k \in 1 .. Capacity * ByteBits |-> garbage]), written = <<>>
             PROVE  IInv
  BY DEF Init
<1>1. ByteSize(0) = 0
  BY SizeUnique, BitAssumption
<1>2. Capacity * ByteBits \in Nat
  BY SizeNat DEF Size
<1> QED
  BY <1>1, <1>2, BitAssumption DEF IInv, TypeOK, CursorInv, Written, Holds, Fresh

LEMMA Keeps == IInv /\ [Next]_vars => IInv'
<1> SUFFICES ASSUME IInv, [Next]_vars PROVE IInv'
  OBVIOUS
<1>1. CASE UNCHANGED vars
  BY <1>1 DEF vars, IInv, TypeOK, CursorInv, Written, Holds
<1>2. CASE EncodeBin
  <2>1. PICK code \in Codes :
          /\ Len(written) + Len(code) + WordBits + ByteBits <= Capacity * ByteBits
          /\ w' = WriteCode(w, code)
          /\ written' = written \o code
    BY <1>2 DEF EncodeBin
  <2>2. /\ w'.bytes \in [1 .. Size -> Bit]
        /\ w'.p \in Nat /\ w'.lackBits \in 0 .. ByteBits - 1 /\ w'.outSize \in Nat
        /\ w'.p * ByteBits = Len(written') + w'.lackBits - (IF w'.lackBits = 0 THEN 0 ELSE ByteBits)
        /\ w'.outSize = w'.p + IF w'.lackBits = 0 THEN 0 ELSE 1
        /\ Len(written') + w'.lackBits <= Size
        /\ Shows(w'.bytes, written', w'.lackBits)
    BY <2>1, WriteOne
  <2>3. written' \in Seq(Bit) /\ Len(written') \in Nat
    BY <2>1, WriterAssumption DEF IInv, TypeOK
  <2>4. w'.outSize * ByteBits = Len(written') + w'.lackBits
    <3>1. (w'.p + 1) * ByteBits = w'.p * ByteBits + ByteBits
      BY <2>2, BitAssumption, SMT
    <3> QED
      BY <2>2, <2>3, <3>1, BitAssumption
  <2>5. w'.outSize = ByteSize(Len(written'))
    BY <2>2, <2>3, <2>4, SizeUnique
  <2> QED
    BY <2>2, <2>3, <2>5 DEF IInv, TypeOK, CursorInv, Written, Holds, Shows, Size
<1> QED
  BY <1>1, <1>2 DEF Next

\* The cursors stay in range whatever is written.
THEOREM TypeCorrect == Spec => []TypeOK
<1>1. IInv => TypeOK
  BY DEF IInv
<1> QED
  BY <1>1, Starts, Keeps, PTL DEF Spec

\* The cursor is at the byte of the next bit, and the rest of that byte is zero.
THEOREM CursorCorrect == Spec => []CursorInv
<1>1. IInv => CursorInv
  BY DEF IInv
<1> QED
  BY <1>1, Starts, Keeps, PTL DEF Spec

\* encode's output is the concatenation of the codes and its size is right, for
\* every code table and every size of bytes and words: no bit is lost at a byte's
\* or a word's border.
THEOREM OutputIsCodes == Spec => []Written
<1>1. IInv => Written
  BY DEF IInv
<1> QED
  BY <1>1, Starts, Keeps, PTL DEF Spec
=============================================================================
