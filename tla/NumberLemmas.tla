----------------------------- MODULE NumberLemmas -----------------------------
(***************************************************************************)
(* What the proofs about the components need.  Of numbers, what cannot be  *)
(* had from arithmetic alone: induction, which goes by the least natural   *)
(* number a claim fails for, maxima, that what is defined by recursion on  *)
(* the natural numbers is what its equation says, quotients, the blocks a  *)
(* length is cut into, and the points a stride apart.  Of sequences, of    *)
(* functions and of the logs of PointOrder, what they are after one more   *)
(* member, and joined.  Of batches of events, one after the other, when    *)
(* they code a set of points (Fills).                                      *)
(***************************************************************************)
EXTENDS Integers, SequencesExt, FiniteSetTheorems, WellFoundedInduction, TLAPS

\* The least number a property of natural numbers, given as a set, holds for.
LEMMA Least ==
  ASSUME NEW T \in SUBSET Nat, T # {}
  PROVE  \E x \in T : \A y \in T : x <= y
<1> DEFINE R == OpToRel(<, Nat)
<1>1. IsWellFoundedOn(R, Nat)
  BY NatLessThanWellFounded
<1>2. \A y \in T, x \in T : y < x => <<y, x>> \in R
  BY DEF OpToRel
<1> HIDE DEF R
<1>3. PICK x \in T : \A y \in T : ~(<<y, x>> \in R)
  BY <1>1, WFMin
<1>4. \A y \in T : ~(y < x)
  BY <1>2, <1>3, Zenon
<1>5. T \subseteq Int
  OBVIOUS
<1>6. \A y \in T : x <= y
  BY <1>4, <1>5
<1> QED
  BY <1>6

\* A family of numbers over an interval has a greatest one, and a least one.
LEMMA Greatest ==
  ASSUME NEW f, NEW a \in Int, NEW b \in Int, a <= b, \A i \in a .. b : f[i] \in Int
  PROVE  \E m \in a .. b : \A i \in a .. b : f[i] <= f[m]
<1> DEFINE Has(n) == \E m \in a .. a + n : \A i \in a .. a + n : f[i] <= f[m]
           T == {n \in 0 .. b - a : ~Has(n)}
<1>1. SUFFICES T = {}
  <2>1. b - a \in 0 .. b - a /\ a + (b - a) = b
    OBVIOUS
  <2>2. Has(b - a)
    BY <1>1, <2>1
  <2> QED
    BY <2>1, <2>2
<1>2. SUFFICES ASSUME T # {} PROVE FALSE
  OBVIOUS
<1>3. T \subseteq Nat
  OBVIOUS
<1>4. PICK n \in T : \A y \in T : n <= y
  BY <1>2, <1>3, Least
<1>5. n \in 0 .. b - a /\ ~Has(n)
  BY <1>4
<1>6. n # 0
  <2>1. Has(0)
    OBVIOUS
  <2> QED
    BY <1>5, <2>1
<1>7. Has(n - 1)
  <2>1. n - 1 \in 0 .. b - a /\ ~(n <= n - 1)
    BY <1>5, <1>6
  <2>2. n - 1 \notin T
    BY <1>4, <2>1
  <2> QED
    BY <2>1, <2>2
<1>8. PICK m \in a .. a + (n - 1) : \A i \in a .. a + (n - 1) : f[i] <= f[m]
  BY <1>7
<1>9. f[m] \in Int /\ f[a + n] \in Int
  BY <1>5, <1>8
<1>10. CASE f[a + n] <= f[m]
  <2>1. m \in a .. a + n /\ \A i \in a .. a + n : f[i] <= f[m]
    BY <1>5, <1>8, <1>10
  <2> QED
    BY <1>5, <2>1
<1>11. CASE f[m] <= f[a + n]
  <2>1. a + n \in a .. a + n /\ \A i \in a .. a + n : f[i] <= f[a + n]
    <3>1. n \in Nat /\ a + n \in a .. a + n
      BY <1>5
    <3>2. SUFFICES ASSUME NEW i \in a .. a + n PROVE f[i] <= f[a + n]
      BY <3>1
    <3>3. CASE i = a + n
      BY <1>9, <3>3
    <3>4. CASE i # a + n
      <4>1. i \in a .. a + (n - 1) /\ i \in a .. b
        BY <1>5, <3>1, <3>4
      <4>2. f[i] <= f[m] /\ f[i] \in Int
        BY <1>8, <4>1
      <4> QED
        BY <1>9, <1>11, <4>2
    <3> QED
      BY <3>3, <3>4
  <2> QED
    BY <1>5, <2>1
<1> QED
  BY <1>9, <1>10, <1>11

\* A function on an interval of integers has a smallest value.
LEMMA Smallest ==
  ASSUME NEW f, NEW a \in Int, NEW b \in Int, a <= b, \A i \in a .. b : f[i] \in Int
  PROVE  \E m \in a .. b : \A i \in a .. b : f[m] <= f[i]
<1> DEFINE g == [i \in a .. b |-> -f[i]]
<1>1. \A i \in a .. b : g[i] \in Int /\ g[i] = -f[i]
  OBVIOUS
<1> HIDE DEF g
<1>2. PICK m \in a .. b : \A i \in a .. b : g[i] <= g[m]
  BY <1>1, Greatest
<1>3. \A i \in a .. b : f[m] <= f[i]
  BY <1>1, <1>2
<1> QED
  BY <1>3

\* Max of a set is the member none is larger than.
LEMMA MaxIs ==
  ASSUME NEW S \in SUBSET Int, NEW m \in S, \A x \in S : x <= m
  PROVE  Max(S) = m
<1>1. m \in S /\ \A x \in S : m >= x
  OBVIOUS
<1>2. Max(S) \in S /\ \A x \in S : Max(S) >= x
  BY <1>1, Zenon DEF Max
<1>3. Max(S) >= m /\ m >= Max(S)
  BY <1>1, <1>2, Zenon
<1>4. m \in Int /\ S \subseteq Int
  OBVIOUS
<1>5. Max(S) \in Int
  BY <1>2, <1>4
<1> QED
  BY <1>3, <1>4, <1>5

\* Min of a set is the member none is smaller than.
LEMMA MinIs ==
  ASSUME NEW S \in SUBSET Int, NEW m \in S, \A x \in S : m <= x
  PROVE  Min(S) = m
<1>1. m \in S /\ \A x \in S : m <= x
  OBVIOUS
<1>2. Min(S) \in S /\ \A x \in S : Min(S) <= x
  BY <1>1, Zenon DEF Min
<1>3. Min(S) <= m /\ m <= Min(S)
  BY <1>1, <1>2, Zenon
<1>4. m \in Int /\ S \subseteq Int
  OBVIOUS
<1>5. Min(S) \in Int
  BY <1>2, <1>4
<1> QED
  BY <1>3, <1>4, <1>5

\* A bounded set of natural numbers has a greatest one.
LEMMA Largest ==
  ASSUME NEW b \in Nat, NEW T \in SUBSET (0 .. b), T # {}
  PROVE  \E x \in T : \A y \in T : y <= x
<1> DEFINE U == {b - x : x \in T}
<1>1. U \in SUBSET Nat /\ U # {}
  <2>1. ASSUME NEW u \in U PROVE u \in Nat
    OBVIOUS
  <2>2. PICK x : x \in T
    OBVIOUS
  <2>3. b - x \in U
    BY <2>2
  <2> QED
    BY <2>1, <2>3
<1>2. PICK u \in U : \A v \in U : u <= v
  BY <1>1, Least
<1>3. PICK x \in T : u = b - x
  OBVIOUS
<1>4. ASSUME NEW y \in T PROVE y <= x
  <2>1. b - y \in U
    OBVIOUS
  <2>2. b - x <= b - y /\ x \in Nat /\ y \in Nat
    BY <1>2, <1>3, <2>1
  <2> QED
    BY <2>2
<1> QED
  BY <1>4

\* Integer division, as a bound from both sides.
LEMMA QuotientOf ==
  ASSUME NEW x \in Nat, NEW n \in Nat \ {0}
  PROVE  /\ x \div n \in Nat
         /\ n * (x \div n) <= x
         /\ x < n * (x \div n) + n
BY SMT

\* The remainder of an integer division.
LEMMA RemainderOf ==
  ASSUME NEW x \in Nat, NEW n \in Nat \ {0}
  PROVE  /\ x % n = x - n * (x \div n)
         /\ x % n \in 0 .. n - 1
OBVIOUS

\* The larger and the smaller of two numbers.
LEMMA MaxOfTwo ==
  ASSUME NEW a \in Int, NEW b \in Int
  PROVE  Max({a, b}) = IF a >= b THEN a ELSE b
<1>1. CASE a >= b
  <2>1. {a, b} \in SUBSET Int /\ a \in {a, b} /\ \A x \in {a, b} : x <= a
    BY <1>1
  <2> QED
    BY <1>1, <2>1, MaxIs
<1>2. CASE ~(a >= b)
  <2>1. {a, b} \in SUBSET Int /\ b \in {a, b} /\ \A x \in {a, b} : x <= b
    BY <1>2
  <2> QED
    BY <1>2, <2>1, MaxIs
<1> QED
  BY <1>1, <1>2

\* The smaller of two.
LEMMA MinOfTwo ==
  ASSUME NEW a \in Int, NEW b \in Int
  PROVE  Min({a, b}) = IF a <= b THEN a ELSE b
<1>1. CASE a <= b
  <2>1. {a, b} \in SUBSET Int /\ a \in {a, b} /\ \A x \in {a, b} : a <= x
    BY <1>1
  <2> QED
    BY <1>1, <2>1, MinIs
<1>2. CASE ~(a <= b)
  <2>1. {a, b} \in SUBSET Int /\ b \in {a, b} /\ \A x \in {a, b} : b <= x
    BY <1>2
  <2> QED
    BY <1>2, <2>1, MinIs
<1> QED
  BY <1>1, <1>2

\* Recursion on the natural numbers: the equation has a solution.
LEMMA Recursion ==
  ASSUME NEW a \in Nat, NEW step \in [Nat -> [Nat -> Nat]]
  PROVE  \E f \in [Nat -> Nat] :
           \A n \in Nat : f[n] = IF n = 0 THEN a ELSE step[n][f[n - 1]]
<1> DEFINE Good(f, n) ==
             /\ f \in [0 .. n -> Nat]
             /\ \A i \in 0 .. n : f[i] = IF i = 0 THEN a ELSE step[i][f[i - 1]]
           T == {n \in Nat : ~\E f : Good(f, n)}
<1>1. T = {}
  <2>1. SUFFICES ASSUME T # {} PROVE FALSE
    OBVIOUS
  <2>2. PICK n \in T : \A y \in T : n <= y
    BY <2>1, Least
  <2>3. n \in Nat /\ ~\E f : Good(f, n)
    BY <2>2
  <2>4. n # 0
    <3>1. Good([i \in 0 .. 0 |-> a], 0)
      OBVIOUS
    <3> QED
      BY <2>3, <3>1
  <2>5. n - 1 \in Nat /\ ~(n <= n - 1)
    BY <2>3, <2>4
  <2>6. PICK f : Good(f, n - 1)
    BY <2>2, <2>5
  <2> DEFINE g == [i \in 0 .. n |-> IF i = n THEN step[n][f[n - 1]] ELSE f[i]]
  <2>7. \A i \in 0 .. n : i = n \/ i \in 0 .. n - 1
    BY <2>3
  <2>8. step[n][f[n - 1]] \in Nat
    <3>1. n - 1 \in 0 .. n - 1 /\ f[n - 1] \in Nat
      BY <2>5, <2>6
    <3> QED
      BY <2>3, <3>1
  <2>9. g \in [0 .. n -> Nat]
    BY <2>6, <2>7, <2>8
  <2>10. ASSUME NEW i \in 0 .. n
         PROVE  g[i] = IF i = 0 THEN a ELSE step[i][g[i - 1]]
    <3>1. i # 0 => i - 1 \in 0 .. n - 1 /\ i - 1 \in 0 .. n /\ i - 1 # n
      BY <2>3
    <3>2. i # 0 => g[i - 1] = f[i - 1]
      BY <3>1
    <3>3. i # n => g[i] = f[i] /\ f[i] = IF i = 0 THEN a ELSE step[i][f[i - 1]]
      BY <2>6, <2>7
    <3>4. i = n => g[i] = step[n][f[n - 1]] /\ i # 0
      BY <2>4
    <3> QED
      BY <3>2, <3>3, <3>4
  <2>11. Good(g, n)
    BY <2>9, <2>10
  <2> QED
    BY <2>3, <2>11
<1> DEFINE sol == [n \in Nat |-> CHOOSE f : Good(f, n)]
<1>2. ASSUME NEW n \in Nat PROVE Good(sol[n], n)
  <2>1. \E f : Good(f, n)
    BY <1>1
  <2>2. Good(CHOOSE f : Good(f, n), n)
    BY <2>1, Zenon
  <2>3. sol[n] = CHOOSE f : Good(f, n)
    BY Zenon
  <2> QED
    BY <2>2, <2>3, Zenon
<1> HIDE DEF sol
\* Two of them agree as far as both go.
<1>3. ASSUME NEW n \in Nat, NEW m \in Nat, m <= n
      PROVE  sol[n][m] = sol[m][m]
  <2> PICK p : p = sol[n]
    OBVIOUS
  <2> PICK q : q = sol[m]
    OBVIOUS
  <2>1. /\ \A i \in 0 .. n : p[i] = IF i = 0 THEN a ELSE step[i][p[i - 1]]
        /\ \A i \in 0 .. m : q[i] = IF i = 0 THEN a ELSE step[i][q[i - 1]]
    BY <1>2
  <2> DEFINE U == {i \in 0 .. m : p[i] # q[i]}
  <2>2. SUFFICES ASSUME U # {} PROVE FALSE
    <3>1. m \in 0 .. m
      OBVIOUS
    <3> QED
      BY <2>2, <3>1
  <2>3. U \subseteq Nat
    OBVIOUS
  <2>4. PICK i \in U : \A j \in U : i <= j
    BY <2>2, <2>3, Least
  <2>5. i \in 0 .. m /\ i \in 0 .. n /\ p[i] # q[i]
    BY <1>3, <2>4
  <2>6. i # 0
    BY <2>1, <2>5
  <2>7. i - 1 \in 0 .. m /\ ~(i <= i - 1)
    BY <2>5, <2>6
  <2>8. p[i - 1] = q[i - 1]
    BY <2>4, <2>7
  <2> QED
    BY <2>1, <2>5, <2>6, <2>8
<1> DEFINE h == [n \in Nat |-> sol[n][n]]
<1>4. h \in [Nat -> Nat]
  <2>1. ASSUME NEW n \in Nat PROVE sol[n][n] \in Nat
    <3> PICK p : p = sol[n]
      OBVIOUS
    <3>1. Good(p, n)
      BY <1>2, Zenon
    <3>2. n \in 0 .. n
      OBVIOUS
    <3> QED
      BY <3>1, <3>2
  <2> QED
    BY <2>1
<1>5. ASSUME NEW n \in Nat
      PROVE  h[n] = IF n = 0 THEN a ELSE step[n][h[n - 1]]
  <2>1. h[n] = IF n = 0 THEN a ELSE step[n][sol[n][n - 1]]
    <3> PICK p : p = sol[n]
      OBVIOUS
    <3>1. Good(p, n)
      BY <1>2, Zenon
    <3>2. n \in 0 .. n
      OBVIOUS
    <3>3. h[n] = p[n]
      OBVIOUS
    <3> QED
      BY <3>1, <3>2, <3>3
  <2>2. CASE n = 0
    BY <2>1, <2>2
  <2>3. CASE n # 0
    <3>1. n - 1 \in Nat /\ n - 1 <= n
      BY <2>3
    <3>2. sol[n][n - 1] = sol[n - 1][n - 1]
      BY <1>3, <3>1
    <3> QED
      BY <2>1, <2>3, <3>1, <3>2
  <2> QED
    BY <2>2, <2>3
<1> QED
  BY <1>4, <1>5

-----------------------------------------------------------------------------
(* Numbers by their digits, and the blocks a length is cut into.            *)

\* Less by one is less by a whole stride.
LEMMA OneStride ==
  ASSUME NEW a \in Nat, NEW b \in Nat, a < b, NEW s \in Nat
  PROVE  a * s + s <= b * s
<1>1. PICK k \in Nat : b = a + 1 + k
  <2>1. b - a - 1 \in Nat /\ b = a + 1 + (b - a - 1)
    OBVIOUS
  <2> QED
    BY <2>1
<1>2. b * s = a * s + s + k * s /\ k * s \in Nat /\ a * s \in Nat
  BY <1>1
<1> QED
  BY <1>2

\* One index less is one stride less.
LEMMA Products ==
  ASSUME NEW x \in Int, NEW y \in Nat
  PROVE  /\ y * x \in Int /\ 0 * x = 0
         /\ (y - 1) * x = y * x - x
         /\ (y + 1) * x = y * x + x
OBVIOUS

\* A digit and what is behind it.
LEMMA Digit ==
  ASSUME NEW a \in Nat, NEW m \in Nat \ {0}, NEW s \in Nat \ {0}, a < m, NEW r \in 0 .. s - 1
  PROVE  a * s + r \in 0 .. s * m - 1
<1>1. a * s + s <= m * s
  BY OneStride
<1>2. a * s \in Nat /\ m * s \in Nat /\ m * s = s * m
  OBVIOUS
<1> QED
  BY <1>1, <1>2

\* Quotient and remainder of a number given by them.
LEMMA QuotientFound ==
  ASSUME NEW q \in Nat, NEW s \in Nat \ {0}, NEW r \in 0 .. s - 1
  PROVE  (q * s + r) \div s = q /\ (q * s + r) % s = r
<1> PICK x : x = q * s + r
  OBVIOUS
<1>0. q * s \in Nat /\ x \in Nat
  OBVIOUS
<1> PICK y : y = x \div s
  OBVIOUS
<1>1. y \in Nat /\ s * y <= x /\ x < s * y + s
  BY <1>0, QuotientOf
<1>2. s * y = y * s /\ y * s \in Nat
  BY <1>1
<1>3. CASE y < q
  <2>1. y * s + s <= q * s
    BY <1>1, <1>3, OneStride
  <2> QED
    BY <1>0, <1>1, <1>2, <2>1
<1>4. CASE q < y
  <2>1. q * s + s <= y * s
    BY <1>1, <1>4, OneStride
  <2> QED
    BY <1>0, <1>1, <1>2, <2>1
<1>5. CASE y = q
  <2>1. x % s = x - s * y
    BY <1>0, RemainderOf
  <2> QED
    BY <1>0, <1>1, <1>2, <1>5, <2>1
<1> QED
  BY <1>1, <1>3, <1>4, <1>5

\* A digit is put behind those in front of it.
LEMMA NextDigit ==
  ASSUME NEW h \in Nat, NEW m \in Nat, NEW s \in Nat, NEW a \in Nat, NEW r \in Nat
  PROVE  /\ h * m + a \in Nat
         /\ h * (s * m) + (a * s + r) = (h * m + a) * s + r
<1>1. h * (s * m) = (h * m) * s /\ h * m \in Nat
  OBVIOUS
<1> PICK k \in Nat : k = h * m
  BY <1>1
<1>2. (k + a) * s = k * s + a * s /\ k * s \in Nat /\ a * s \in Nat /\ k + a \in Nat
  OBVIOUS
<1>3. k * s + (a * s + r) = (k * s + a * s) + r
  BY <1>2
<1> QED
  BY <1>1, <1>2, <1>3

\* o has the digit a of base m, with stride s, in front of r and behind h.
HasDigit(o, h, a, m, s, r) ==
  /\ h \in Nat /\ m \in Nat \ {0} /\ s \in Nat \ {0} /\ a \in 0 .. m - 1 /\ r \in 0 .. s - 1
  /\ o = h * (s * m) + (a * s + r)

\* So a digit is found again.
LEMMA DigitFound ==
  ASSUME NEW o, NEW h, NEW a, NEW m, NEW s, NEW r, HasDigit(o, h, a, m, s, r)
  PROVE  /\ h * m + a \in Nat
         /\ o = (h * m + a) * s + r
         /\ (o \div s) % m = a
<1>0. /\ h \in Nat /\ m \in Nat \ {0} /\ s \in Nat \ {0} /\ a \in 0 .. m - 1 /\ r \in 0 .. s - 1
      /\ o = h * (s * m) + (a * s + r)
  BY DEF HasDigit
<1>1. h * m + a \in Nat /\ h * (s * m) + (a * s + r) = (h * m + a) * s + r
  BY <1>0, NextDigit
<1>2. o = (h * m + a) * s + r
  BY <1>0, <1>1
<1>3. (h * m + a) % m = a
  BY <1>0, QuotientFound
<1> PICK q \in Nat : q = h * m + a
  BY <1>1
<1>4. (q * s + r) \div s = q
  BY <1>0, QuotientFound
<1>5. o \div s = q
  BY <1>2, <1>4
<1> QED
  BY <1>1, <1>2, <1>3, <1>5

\* How long the block b of a direction is: the last one has what is left.
Left(len, size, b) == IF b = (len - 1) \div size THEN len - b * size ELSE size

\* Along a direction, every block has elements, none has more than block_size, and none
\* goes beyond the end.
LEMMA LeftIs ==
  ASSUME NEW len \in Nat \ {0}, NEW size \in Nat \ {0}, NEW b \in Nat, b <= (len - 1) \div size
  PROVE  /\ (len - 1) \div size \in Nat
         /\ Left(len, size, b) \in 1 .. size
         /\ b * size + Left(len, size, b) <= len
         /\ len <= ((len - 1) \div size + 1) * size
<1> PICK m : m = (len - 1) \div size
  OBVIOUS
<1>1. m \in Nat /\ size * m <= len - 1 /\ len - 1 < size * m + size
  BY QuotientOf
<1>2. size * m = m * size /\ m * size \in Nat /\ b * size \in Nat
  BY <1>1
<1>3. len <= (m + 1) * size
  <2>1. (m + 1) * size = m * size + size
    BY <1>1, Products
  <2> QED
    BY <1>1, <1>2, <2>1
<1>4. CASE b = m
  <2>1. Left(len, size, b) = len - b * size
    BY <1>4 DEF Left
  <2> QED
    BY <1>1, <1>2, <1>3, <1>4, <2>1
<1>5. CASE b < m
  <2>1. Left(len, size, b) = size
    BY <1>1, <1>5 DEF Left
  <2>2. b * size + size <= m * size
    BY <1>1, <1>5, OneStride
  <2> QED
    BY <1>1, <1>2, <1>3, <2>1, <2>2
<1> QED
  BY <1>1, <1>4, <1>5

\* Every index is in a block, at one place.
LEMMA CutIndex ==
  ASSUME NEW len \in Nat \ {0}, NEW size \in Nat \ {0}, NEW x \in Nat, x < len
  PROVE  /\ x \div size \in Nat /\ x \div size <= (len - 1) \div size
         /\ x % size \in Nat /\ x % size < Left(len, size, x \div size)
         /\ x = (x \div size) * size + (x % size)
<1> PICK m : m = (len - 1) \div size
  OBVIOUS
<1> PICK b : b = x \div size
  OBVIOUS
<1> PICK l : l = x % size
  OBVIOUS
<1>1. m \in Nat /\ size * m <= len - 1 /\ len - 1 < size * m + size
  BY QuotientOf
<1>2. b \in Nat /\ size * b <= x /\ x < size * b + size /\ l = x - size * b
  BY QuotientOf, RemainderOf
<1>3. size * m = m * size /\ m * size \in Nat /\ size * b = b * size /\ b * size \in Nat
  BY <1>1, <1>2
<1>4. b <= m
  <2> SUFFICES ASSUME m < b PROVE FALSE
    BY <1>1, <1>2
  <2>1. m * size + size <= b * size
    BY <1>1, <1>2, OneStride
  <2> QED
    BY <1>1, <1>2, <1>3, <2>1
<1>5. l \in Nat /\ x = b * size + l /\ l < size
  BY <1>2, <1>3
<1>6. l < Left(len, size, b)
  BY <1>2, <1>3, <1>5 DEF Left
<1> QED
  BY <1>2, <1>4, <1>5, <1>6

\* l is a place in the block b of a direction.
InBlock(len, size, b, l) ==
  /\ len \in Nat \ {0} /\ size \in Nat \ {0}
  /\ b \in Nat /\ b <= (len - 1) \div size
  /\ l \in Nat /\ l < Left(len, size, b)

\* And what is at a place of a block is an index.
LEMMA JoinIndex ==
  ASSUME NEW len, NEW size, NEW b, NEW l, InBlock(len, size, b, l)
  PROVE  /\ b * size + l \in Nat /\ b * size + l < len
         /\ (b * size + l) \div size = b /\ (b * size + l) % size = l
<1>0. /\ len \in Nat \ {0} /\ size \in Nat \ {0}
      /\ b \in Nat /\ b <= (len - 1) \div size
      /\ l \in Nat /\ l < Left(len, size, b)
  BY DEF InBlock
<1> PICK e : e = Left(len, size, b)
  OBVIOUS
<1>1. e \in 1 .. size /\ b * size + e <= len
  BY <1>0, LeftIs
<1>2. l \in 0 .. size - 1
  BY <1>0, <1>1
<1>3. (b * size + l) \div size = b /\ (b * size + l) % size = l
  BY <1>0, <1>2, QuotientFound
<1>4. b * size \in Nat
  BY <1>0
<1> QED
  BY <1>0, <1>1, <1>3, <1>4

-----------------------------------------------------------------------------
(* Sequences and functions.                                                *)

\* A sequence of anything.
IsSeq(l) == l \in Seq({l[k] : k \in 1 .. Len(l)})

\* An appended sequence keeps its members.
LEMMA AppendIs ==
  ASSUME NEW l, IsSeq(l), NEW e
  PROVE  /\ Len(l) \in Nat
         /\ IsSeq(Append(l, e))
         /\ Len(Append(l, e)) = Len(l) + 1
         /\ Append(l, e)[Len(l) + 1] = e
         /\ \A k \in 1 .. Len(l) : Append(l, e)[k] = l[k]
<1> DEFINE S == {l[k] : k \in 1 .. Len(l)} \cup {e}
           a == Append(l, e)
<1>1. l \in Seq(S) /\ e \in S
  BY DEF IsSeq
<1> HIDE DEF S
<1>2. /\ Len(l) \in Nat /\ a \in Seq(S) /\ Len(a) = Len(l) + 1 /\ a[Len(l) + 1] = e
      /\ \A k \in 1 .. Len(l) : a[k] = l[k]
  BY <1>1
<1> HIDE DEF a
<1>3. IsSeq(a)
  <2>1. a \in [1 .. Len(a) -> {a[k] : k \in 1 .. Len(a)}] /\ Len(a) \in Nat
    BY <1>2
  <2> QED
    BY <2>1 DEF IsSeq
<1> QED
  BY <1>2, <1>3 DEF a

\* A length is a number.
LEMMA LengthIs == ASSUME NEW l, IsSeq(l) PROVE Len(l) \in Nat
BY DEF IsSeq

\* l is a beginning of longer.
Begins(l, longer) == Len(l) <= Len(longer) /\ \A i \in 1 .. Len(l) : longer[i] = l[i]

\* Appending begins with what was there.
LEMMA BeginsIs ==
  ASSUME NEW l, IsSeq(l)
  PROVE  Begins(l, l) /\ \A e : Begins(l, Append(l, e))
<1>1. ASSUME NEW e PROVE Begins(l, Append(l, e))
  BY AppendIs DEF Begins
<1> QED
  BY <1>1, LengthIs DEF Begins

\* A member of a sequence.
LEMMA MemberIs ==
  ASSUME NEW S, NEW l \in Seq(S), NEW n \in Nat, n < Len(l)
  PROVE  l[n + 1] \in S
OBVIOUS

\* A function changed in one place, if that is one of its places.
LEMMA ExceptIs ==
  ASSUME NEW D, NEW R, NEW f \in [D -> R], NEW x, NEW v, x \in D => v \in R
  PROVE  [f EXCEPT ![x] = v] \in [D -> R]
OBVIOUS
-----------------------------------------------------------------------------
(* Logs, sequences of batches of events.                                   *)

\* The places of the events of a log.
Happened(l) == UNION {{e.at : e \in l[k]} : k \in 1 .. Len(l)}

\* It is in some batch.
LEMMA HappenedHas ==
  ASSUME NEW l, NEW x
  PROVE  x \in Happened(l) <=> \E k \in 1 .. Len(l) : \E f \in l[k] : x = f.at
<1> DEFINE At(k) == {f.at : f \in l[k]}
<1>1. Happened(l) = UNION {At(k) : k \in 1 .. Len(l)}
  BY DEF Happened
<1>2. \A k : x \in At(k) <=> \E f \in l[k] : x = f.at
  OBVIOUS
<1> HIDE DEF At
<1>3. x \in UNION {At(k) : k \in 1 .. Len(l)} <=> \E k \in 1 .. Len(l) : x \in At(k)
  BY Zenon
<1> QED
  BY <1>1, <1>2, <1>3, Zenon

\* more is l and a batch of one element.
OneMore(l, more, e) ==
  /\ Len(l) \in Nat /\ Len(more) = Len(l) + 1
  /\ more[Len(l) + 1] = {e} /\ \A k \in 1 .. Len(l) : more[k] = l[k]

\* Its place is one more then.
LEMMA OneMoreHappened ==
  ASSUME NEW l, NEW more, NEW e, OneMore(l, more, e)
  PROVE  Happened(more) = Happened(l) \cup {e.at}
<1>1. /\ Len(l) \in Nat /\ Len(more) = Len(l) + 1
      /\ more[Len(l) + 1] = {e} /\ \A k \in 1 .. Len(l) : more[k] = l[k]
  BY DEF OneMore
<1>2. ASSUME NEW x PROVE x \in Happened(more) <=> x \in Happened(l) \/ x = e.at
  <2>1. x \in Happened(l) <=> \E k \in 1 .. Len(l) : \E f \in l[k] : x = f.at
    BY HappenedHas, Zenon
  <2>2. x \in Happened(more) <=> \E k \in 1 .. Len(more) : \E f \in more[k] : x = f.at
    BY HappenedHas, Zenon
  <2>3. \A k : k \in 1 .. Len(more) <=> k \in 1 .. Len(l) \/ k = Len(l) + 1
    BY <1>1
  <2>4. (\E k \in 1 .. Len(more) : \E f \in more[k] : x = f.at)
          <=> (\E k \in 1 .. Len(l) : \E f \in l[k] : x = f.at) \/ x = e.at
    BY <1>1, <2>3, Zenon
  <2> QED
    BY <2>1, <2>2, <2>4, Zenon
<1> QED
  BY <1>2

\* What a batch of one event adds.
LEMMA HappenedIs ==
  ASSUME NEW l, IsSeq(l), NEW e
  PROVE  /\ Happened(<<>>) = {}
         /\ Happened(Append(l, {e})) = Happened(l) \cup {e.at}
<1>1. OneMore(l, Append(l, {e}), e)
  BY AppendIs, LengthIs DEF OneMore
<1>2. Happened(<<>>) = {}
  BY DEF Happened
<1> QED
  BY <1>1, <1>2, OneMoreHappened


-----------------------------------------------------------------------------
(* Sums, odd numbers, sets of a few numbers.                               *)

\* A product of positive numbers is one.
LEMMA Positive ==
  ASSUME NEW x \in Nat \ {0}, NEW y \in Nat \ {0}
  PROVE  x * y \in Nat \ {0} /\ x * y >= y
<1>1. PICK k \in Nat : x = k + 1
  <2>1. x - 1 \in Nat /\ x = (x - 1) + 1
    OBVIOUS
  <2> QED
    BY <2>1
<1>2. x * y = k * y + y /\ k * y \in Nat
  BY <1>1, Products
<1> QED
  BY <1>2

\* A set of dimensions has a largest member.
LEMMA MaxDim ==
  ASSUME NEW n \in Nat, NEW S \in SUBSET (1 .. n), S # {}
  PROVE  Max(S) \in S /\ \A x \in S : x <= Max(S)
<1>1. PICK m \in S : \A y \in S : y <= m
  <2>1. S \in SUBSET (0 .. n)
    OBVIOUS
  <2> QED
    BY <2>1, Largest
<1>2. S \in SUBSET Int
  OBVIOUS
<1>3. Max(S) = m
  BY <1>1, <1>2, MaxIs
<1> QED
  BY <1>1, <1>3

\* The odd numbers are 1 or 3 modulo 4, two steps apart.
LEMMA Mod4 ==
  ASSUME NEW i \in Int
  PROVE  /\ (i - 1) % 4 = 0 <=> i % 4 = 1
         /\ (i - 5) % 4 = 0 <=> i % 4 = 1
         /\ (i - 3) % 4 = 0 <=> i % 4 = 3
         /\ i % 2 = 1 <=> i % 4 = 1 \/ i % 4 = 3
         /\ i % 2 \in {0, 1} /\ i % 4 \in 0 .. 3
         /\ i % 4 = 3 => (i + 2) % 4 = 1 /\ (i - 2) % 4 = 1
         /\ i % 2 = 1 => (i + 1) % 2 = 0 /\ (i + 3) % 2 = 0 /\ (i - 1) % 2 = 0 /\ (i - 3) % 2 = 0
  OBVIOUS

\* The odd points of a line.
OddsOf(n) == {i \in 1 .. n - 1 : i % 2 = 1}

\* The last number below n that is 3 modulo 4, if n is long enough.
LastAdj(n) == n - 1 - (n % 4)

\* It is the only one without another three steps on; and the last that is 1 modulo 4.
LEMMA LastAdjIs ==
  ASSUME NEW n \in Nat
  PROVE  /\ n % 4 # 3 /\ n > (n % 4) + 1 =>
              LastAdj(n) \in 1 .. n - 1 /\ LastAdj(n) % 4 = 3 /\ LastAdj(n) + 3 >= n
         /\ \A i \in 1 .. n - 1 : i % 4 = 3 /\ i + 3 >= n =>
              i = LastAdj(n) /\ n % 4 # 3 /\ n > (n % 4) + 1
         /\ \A i \in 1 .. n - 1 : i % 4 = 1 /\ i + 3 >= n /\ n > 4 =>
              i = n + 1 - (IF n % 4 = 0 THEN 4 ELSE n % 4) /\ n % 4 # 1
         /\ n > 4 /\ n % 4 # 1 =>
              \E i \in 1 .. n - 1 : i % 4 = 1 /\ i = n + 1 - (IF n % 4 = 0 THEN 4 ELSE n % 4)
<1>1. /\ n % 4 # 3 /\ n > (n % 4) + 1 =>
            LastAdj(n) \in 1 .. n - 1 /\ LastAdj(n) % 4 = 3 /\ LastAdj(n) + 3 >= n
      /\ n > 4 /\ n % 4 # 1 =>
            LET i == n + 1 - (IF n % 4 = 0 THEN 4 ELSE n % 4) IN i \in 1 .. n - 1 /\ i % 4 = 1
  BY DEF LastAdj
<1>2. ASSUME NEW i \in 1 .. n - 1, i + 3 >= n
      PROVE  /\ i % 4 = 3 => i = LastAdj(n) /\ n % 4 # 3 /\ n > (n % 4) + 1
             /\ i % 4 = 1 /\ n > 4 => i = n + 1 - (IF n % 4 = 0 THEN 4 ELSE n % 4) /\ n % 4 # 1
  BY <1>2 DEF LastAdj
<1> QED
  BY <1>1, <1>2

\* A sum modulo 4 by one of its parts,
LEMMA HalfArith ==
  ASSUME NEW w \in Int, NEW i \in Int, NEW r \in {1, 2, 3, 0}, w % 2 = r % 2, i % 2 = 1
  PROVE  (w + i) % 4 = (r + 1) % 4 <=> i % 4 = IF w % 4 = r THEN 1 ELSE 3
<1>1. w % 4 \in {0, 1, 2, 3} /\ (i % 4 = 1 \/ i % 4 = 3)
  OBVIOUS
<1>2. CASE r = 0
  BY <1>1, <1>2
<1>3. CASE r = 1
  BY <1>1, <1>3
<1>4. CASE r = 2
  BY <1>1, <1>4
<1>5. CASE r = 3
  BY <1>1, <1>5
<1> QED
  BY <1>2, <1>3, <1>4, <1>5

HalvesOf(r, q, m, h) ==
  /\ q = (r + 2) % 4 /\ m = (r + 1) % 4 /\ h = (q + 1) % 4
  /\ q \in {0, 1, 2, 3} /\ q % 2 = r % 2 /\ m # h
  /\ \A w \in Int, i \in Int : w % 2 = r % 2 /\ i % 2 = 1 => (w + i) % 4 = m \/ (w + i) % 4 = h
  /\ \A t \in Int : t % 4 = h => (t + 2) % 4 = m /\ (t + (-2)) % 4 = m

\* and the two classes of such sums, two apart.
LEMMA HalvesArith ==
  ASSUME NEW r \in {1, 2}
  PROVE  \E q, m, h : HalvesOf(r, q, m, h)
<1>1. CASE r = 1
  <2>1. HalvesOf(r, 3, 2, 0)
    BY <1>1 DEF HalvesOf
  <2> QED
    BY <2>1
<1>2. CASE r = 2
  <2>1. HalvesOf(r, 0, 3, 1)
    BY <1>2 DEF HalvesOf
  <2> QED
    BY <2>1
<1> QED
  BY <1>1, <1>2

\* Steps of a stride from a point of the grid of twice the stride.
LEMMA OddSteps ==
  ASSUME NEW s \in Nat \ {0}, NEW b \in Nat, b % (2 * s) = 0
  PROVE  /\ \A i \in Int : b + i * s \in Nat =>
              (b + i * s) % (2 * s) = IF i % 2 = 0 THEN 0 ELSE s
         /\ \A x \in Nat : x >= b /\ x % (2 * s) = s =>
              \E i \in Nat : x = b + i * s /\ i % 2 = 1
         /\ b % s = 0
<1> PICK t \in Nat \ {0} : t = 2 * s
  OBVIOUS
<1> PICK k \in Nat : b = k * t
  <2>1. b \div t \in Nat /\ b = (b \div t) * t
    <3>1. b % t = b - t * (b \div t) /\ b \div t \in Nat
      BY RemainderOf, QuotientOf
    <3> PICK q \in Nat : q = b \div t
      BY <3>1
    <3>2. b % t = 0
      OBVIOUS
    <3>3. b = t * q
      BY <3>1, <3>2
    <3>4. t * q = q * t
      OBVIOUS
    <3> QED
      BY <3>3, <3>4
  <2> QED
    BY <2>1
<1>0. s \in 0 .. t - 1 /\ 0 \in 0 .. t - 1
  OBVIOUS
<1>1. ASSUME NEW i \in Int, b + i * s \in Nat
      PROVE  (b + i * s) % t = IF i % 2 = 0 THEN 0 ELSE s
  <2> PICK j \in Int : i = 2 * j + (i % 2)
    <3>1. i = 2 * (i \div 2) + (i % 2) /\ i \div 2 \in Int
      OBVIOUS
    <3> QED
      BY <3>1
  <2> PICK r \in {0, 1} : r = i % 2
    OBVIOUS
  <2> PICK q \in Int : q = k + j
    OBVIOUS
  <2>1. b + i * s = q * t + r * s
    <3>1. i * s = j * t + r * s
      <4>1. (2 * j + r) * s = j * (2 * s) + r * s
        OBVIOUS
      <4> QED
        BY <4>1
    <3>2. q * t = k * t + j * t
      OBVIOUS
    <3> QED
      BY <3>1, <3>2
  <2>2. r * s \in 0 .. t - 1
    <3>1. r = 0 \/ r = 1
      OBVIOUS
    <3>2. 0 * s = 0 /\ 1 * s = s
      OBVIOUS
    <3> QED
      BY <3>1, <3>2, <1>0
  <2>3. q \in Nat
    <3> SUFFICES ASSUME q <= -1 PROVE FALSE
      OBVIOUS
    <3>1. PICK h \in Nat : q = -1 - h
      <4>1. -1 - q \in Nat /\ q = -1 - (-1 - q)
        OBVIOUS
      <4> QED
        BY <4>1
    <3>2. q * t = -t - h * t /\ h * t \in Nat
      BY <3>1
    <3> QED
      BY <1>1, <2>1, <2>2, <3>2
  <2>4. (q * t + r * s) % t = r * s
    <3>1. \A h \in Nat, g \in Nat \ {0} : \A z \in 0 .. g - 1 : (h * g + z) % g = z
      <4> SUFFICES ASSUME NEW h \in Nat, NEW g \in Nat \ {0}, NEW z \in 0 .. g - 1
                   PROVE  (h * g + z) % g = z
        BY Zenon
      <4>1. (h * g + z) \div g = h /\ (h * g + z) % g = z
        BY QuotientFound, Zenon
      <4> QED
        BY <4>1, Zenon
    <3>2. t \in Nat \ {0}
      OBVIOUS
    <3> QED
      BY <2>2, <2>3, <3>1, <3>2, Zenon
  <2>5. r * s = IF i % 2 = 0 THEN 0 ELSE s
    OBVIOUS
  <2> QED
    BY <2>1, <2>4, <2>5
<1>2. ASSUME NEW x \in Nat, x >= b, x % t = s
      PROVE  \E i \in Nat : x = b + i * s /\ i % 2 = 1
  <2>1. x % t = x - t * (x \div t) /\ x \div t \in Nat
    BY RemainderOf, QuotientOf
  <2> PICK q \in Nat : q = x \div t
    BY <2>1
  <2>2. x = q * t + s
    <3>1. t * q = q * t
      OBVIOUS
    <3>2. x - t * q = s
      BY <1>2, <2>1
    <3>3. t * q \in Nat
      OBVIOUS
    <3> QED
      BY <3>1, <3>2, <3>3
  <2>3. q >= k
    <3> SUFFICES ASSUME q < k PROVE FALSE
      OBVIOUS
    <3>1. q * t + t <= k * t
      BY OneStride
    <3>2. q * t \in Nat /\ k * t \in Nat
      OBVIOUS
    <3> QED
      BY <1>2, <2>2, <3>1, <3>2
  <2> PICK h \in Nat : h = q - k
    BY <2>3
  <2>4. q * t = k * t + h * t
    <3>1. q = k + h
      OBVIOUS
    <3>2. (k + h) * t = k * t + h * t
      OBVIOUS
    <3> QED
      BY <3>1, <3>2
  <2>5. h * t = (2 * h) * s
    <3>1. h * (2 * s) = (2 * h) * s
      OBVIOUS
    <3> QED
      BY <3>1
  <2>6. (2 * h + 1) * s = (2 * h) * s + s
    OBVIOUS
  <2>7. x = b + (2 * h + 1) * s
    <3>1. k * t \in Nat /\ (2 * h) * s \in Nat
      OBVIOUS
    <3> PICK u \in Nat : u = (2 * h) * s
      BY <3>1
    <3>2. q * t = b + u
      BY <2>4, <2>5
    <3>3. x = b + u + s
      BY <2>2, <3>2
    <3> QED
      BY <2>6, <3>3
  <2>8. 2 * h + 1 \in Nat /\ (2 * h + 1) % 2 = 1
    OBVIOUS
  <2> QED
    BY <2>7, <2>8
<1>3. b % s = 0
  <2>1. b = (2 * k) * s + 0
    <3>1. k * (2 * s) = (2 * k) * s
      OBVIOUS
    <3> QED
      BY <3>1
  <2>2. 2 * k \in Nat /\ 0 \in 0 .. s - 1
    OBVIOUS
  <2>3. ((2 * k) * s + 0) % s = 0
    BY <2>2, QuotientFound
  <2> QED
    BY <2>1, <2>3
<1> QED
  BY <1>1, <1>2, <1>3

\* The sum over a set of indices,
SumOver(x, S) == FoldFunctionOnSet(LAMBDA i, j : i + j, 0, x, S)

\* over one it is the member at this index,
LEMMA SumOne ==
  ASSUME NEW a, NEW x, x[a] \in Int
  PROVE  SumOver(x, {a}) = x[a]
<1> DEFINE F(f) == f = [s \in SUBSET {a} |-> IF s = {} THEN 0
                                             ELSE x[CHOOSE d \in s : TRUE] + f[s \ {CHOOSE d \in s : TRUE}]]
           iter == CHOOSE f : F(f)
           g == [s \in SUBSET {a} |-> IF s = {} THEN 0 ELSE x[a]]
<1>1. SumOver(x, {a}) = iter[{a}]
  BY Zenon DEF SumOver, FoldFunctionOnSet, MapThenFoldSet
<1>2. \A s \in SUBSET {a} : s = {} \/ s = {a}
  OBVIOUS
<1>3. g[{}] = 0 /\ g[{a}] = x[a]
  OBVIOUS
<1>4. F(g)
  <2> DEFINE h(s) == IF s = {} THEN 0 ELSE x[CHOOSE d \in s : TRUE] + g[s \ {CHOOSE d \in s : TRUE}]
  <2>1. ASSUME NEW s \in SUBSET {a} PROVE g[s] = h(s)
    <3>1. CASE s = {}
      BY <1>3, <3>1
    <3>2. CASE s = {a}
      <4>1. (CHOOSE d \in s : TRUE) = a
        BY <3>2
      <4>2. s \ {a} = {} /\ s # {}
        BY <3>2
      <4> HIDE DEF g
      <4>3. h(s) = x[a] + g[{}]
        BY <4>1, <4>2
      <4> QED
        BY <1>3, <3>2, <4>3
    <3> QED
      BY <1>2, <3>1, <3>2
  <2> HIDE DEF h
  <2>2. g = [s \in SUBSET {a} |-> h(s)]
    <3>1. g = [s \in SUBSET {a} |-> g[s]]
      OBVIOUS
    <3> HIDE DEF g
    <3> QED
      BY <2>1, <3>1
  <2> HIDE DEF g
  <2> QED
    BY <2>2, Zenon DEF h
<1> HIDE DEF F, g
<1>5. F(iter)
  BY <1>4
<1> HIDE DEF iter
<1>6. PICK f : f = iter
  OBVIOUS
<1>7. f = [s \in SUBSET {a} |-> IF s = {} THEN 0
                               ELSE x[CHOOSE d \in s : TRUE] + f[s \ {CHOOSE d \in s : TRUE}]]
  BY <1>5, <1>6 DEF F
<1>8. f[{}] = 0
  BY <1>7
<1>9. f[{a}] = x[a] + f[{}]
  <2>1. (CHOOSE d \in {a} : TRUE) = a
    OBVIOUS
  <2>2. {a} \ {a} = {} /\ {a} # {} /\ {a} \in SUBSET {a}
    OBVIOUS
  <2>3. f[{a}] = x[CHOOSE d \in {a} : TRUE] + f[{a} \ {CHOOSE d \in {a} : TRUE}]
    BY <1>7, <2>2
  <2> QED
    BY <2>1, <2>2, <2>3
<1> QED
  BY <1>1, <1>6, <1>8, <1>9

\* and over two the sum of both.
LEMMA SumTwo ==
  ASSUME NEW a, NEW b, a # b, NEW x, x[a] \in Int, x[b] \in Int
  PROVE  SumOver(x, {a, b}) = x[a] + x[b]
<1> DEFINE S == SUBSET {a, b}
           F(f) == f = [s \in S |-> IF s = {} THEN 0
                                    ELSE x[CHOOSE d \in s : TRUE] + f[s \ {CHOOSE d \in s : TRUE}]]
           iter == CHOOSE f : F(f)
           v(s) == IF s = {} THEN 0 ELSE IF s = {a} THEN x[a] ELSE IF s = {b} THEN x[b] ELSE x[a] + x[b]
           g == [s \in S |-> v(s)]
<1>1. SumOver(x, {a, b}) = iter[{a, b}]
  BY Zenon DEF SumOver, FoldFunctionOnSet, MapThenFoldSet
<1>2. \A s \in S : s = {} \/ s = {a} \/ s = {b} \/ s = {a, b}
  OBVIOUS
<1>3. {} \in S /\ {a} \in S /\ {b} \in S /\ {a, b} \in S
  OBVIOUS
<1>4. {a} # {} /\ {b} # {} /\ {a, b} # {} /\ {a} # {b} /\ {a, b} # {a} /\ {a, b} # {b}
  OBVIOUS
<1>5. v({}) = 0 /\ v({a}) = x[a] /\ v({b}) = x[b] /\ v({a, b}) = x[a] + x[b]
  BY <1>4
<1>6. /\ (CHOOSE d \in {a} : TRUE) = a /\ (CHOOSE d \in {b} : TRUE) = b
      /\ (CHOOSE d \in {a, b} : TRUE) \in {a, b}
  OBVIOUS
<1>7. {a} \ {a} = {} /\ {b} \ {b} = {} /\ {a, b} \ {a} = {b} /\ {a, b} \ {b} = {a}
  OBVIOUS
<1> HIDE DEF v, S
<1>8. F(g)
  <2> DEFINE h(s) == IF s = {} THEN 0 ELSE x[CHOOSE d \in s : TRUE] + g[s \ {CHOOSE d \in s : TRUE}]
  <2>0. g[{}] = 0 /\ g[{a}] = x[a] /\ g[{b}] = x[b] /\ g[{a, b}] = x[a] + x[b]
    BY <1>3, <1>5
  <2> HIDE DEF g
  <2>1. ASSUME NEW s \in S PROVE g[s] = h(s)
    <3>1. CASE s = {}
      BY <2>0, <3>1
    <3>2. CASE s = {a}
      <4>1. h(s) = x[a] + g[{}]
        BY <1>4, <1>6, <1>7, <3>2
      <4> QED
        BY <2>0, <3>2, <4>1
    <3>3. CASE s = {b}
      <4>1. h(s) = x[b] + g[{}]
        BY <1>4, <1>6, <1>7, <3>3
      <4> QED
        BY <2>0, <3>3, <4>1
    <3>4. CASE s = {a, b}
      <4> PICK d : d = CHOOSE e \in {a, b} : TRUE
        OBVIOUS
      <4>1. h(s) = x[d] + g[{a, b} \ {d}]
        BY <1>4, <3>4
      <4>2. CASE d = a
        BY <1>7, <2>0, <3>4, <4>1, <4>2
      <4>3. CASE d = b
        <5>1. h(s) = x[b] + x[a]
          BY <1>7, <2>0, <4>1, <4>3
        <5>2. x[b] + x[a] = x[a] + x[b]
          OBVIOUS
        <5> QED
          BY <2>0, <3>4, <5>1, <5>2
      <4> QED
        BY <1>6, <4>2, <4>3
    <3> QED
      BY <1>2, <3>1, <3>2, <3>3, <3>4
  <2> HIDE DEF h
  <2>2. g = [s \in S |-> h(s)]
    <3>1. g = [s \in S |-> g[s]]
      BY DEF g
    <3> QED
      BY <2>1, <3>1
  <2> QED
    BY <2>2, Zenon DEF h
<1> HIDE DEF F, g
<1>9. F(iter)
  BY <1>8
<1> HIDE DEF iter
<1>10. PICK f : f = iter
  OBVIOUS
<1>11. f = [s \in S |-> IF s = {} THEN 0
                       ELSE x[CHOOSE d \in s : TRUE] + f[s \ {CHOOSE d \in s : TRUE}]]
  BY <1>9, <1>10 DEF F
<1>12. f[{}] = 0
  BY <1>3, <1>11
<1>13. f[{a}] = x[a] /\ f[{b}] = x[b]
  <2>1. f[{a}] = x[a] + f[{}]
    BY <1>3, <1>4, <1>6, <1>7, <1>11
  <2>2. f[{b}] = x[b] + f[{}]
    BY <1>3, <1>4, <1>6, <1>7, <1>11
  <2> QED
    BY <1>12, <2>1, <2>2
<1>14. f[{a, b}] = x[a] + x[b]
  <2> PICK d : d = CHOOSE e \in {a, b} : TRUE
    OBVIOUS
  <2>1. f[{a, b}] = x[d] + f[{a, b} \ {d}]
    BY <1>3, <1>4, <1>11
  <2>2. CASE d = a
    BY <1>7, <1>13, <2>1, <2>2
  <2>3. CASE d = b
    <3>1. f[{a, b}] = x[b] + x[a]
      BY <1>7, <1>13, <2>1, <2>3
    <3>2. x[b] + x[a] = x[a] + x[b]
      OBVIOUS
    <3> QED
      BY <3>1, <3>2
  <2> QED
    BY <1>6, <2>2, <2>3
<1> QED
  BY <1>1, <1>10, <1>14

\* A set counted by the numbers up to m.
Counts(f, m, S) ==
  /\ m \in Nat /\ f = [i \in 1 .. m |-> f[i]]
  /\ \A i \in 1 .. m : f[i] \in S
  /\ \A x \in S : \E i \in 1 .. m : x = f[i]
  /\ \A i, j \in 1 .. m : f[i] = f[j] => i = j

\* A set counted that way has as many members.
LEMMA CountedBy ==
  ASSUME NEW S, NEW m, NEW f, Counts(f, m, S)
  PROVE  IsFiniteSet(S) /\ Cardinality(S) = m
<1> USE DEF Counts
<1>1. f \in Bijection(1 .. m, S)
  <2>1. f \in [1 .. m -> S]
    OBVIOUS
  <2>2. f \in Injection(1 .. m, S)
    BY <2>1 DEF Injection, IsInjective
  <2>3. f \in Surjection(1 .. m, S)
    BY <2>1 DEF Surjection
  <2> QED
    BY <2>2, <2>3 DEF Bijection
<1>2. IsFiniteSet(1 .. m) /\ Cardinality(1 .. m) = m
  <2>1. 1 \in Int /\ m \in Int
    OBVIOUS
  <2>2. IsFiniteSet(1 .. m) /\ Cardinality(1 .. m) = IF 1 > m THEN 0 ELSE m - 1 + 1
    BY <2>1, FS_Interval
  <2> QED
    BY <2>2
<1>3. ExistsBijection(1 .. m, S)
  BY <1>1 DEF ExistsBijection
<1> QED
  BY <1>2, <1>3, FS_Bijection

\* Two or three directions in ascending order.
Several(n, A) == n \in 1 .. 3 /\ A \in SUBSET (1 .. n) /\ A # {} /\ \A d : A # {d}

\* They are two or three numbers one after the other.
LEMMA Ascending ==
  ASSUME NEW n, NEW A, Several(n, A)
  PROVE  \/ \E a, b \in Nat : a < b /\ A = {a, b}
         \/ \E a, b, e \in Nat : a < b /\ b < e /\ A = {a, b, e}
<1>0. n \in 1 .. 3 /\ A \in SUBSET (1 .. n) /\ A # {} /\ \A d : A # {d}
  BY DEF Several
<1>1. A \subseteq {1, 2, 3}
  <2>1. \A d \in 1 .. n : d = 1 \/ d = 2 \/ d = 3
    BY <1>0
  <2> QED
    BY <1>0, <2>1
<1>2. A = {1, 2} \/ A = {1, 3} \/ A = {2, 3} \/ A = {1, 2, 3}
  <2>1. \A d : d \in A => d = 1 \/ d = 2 \/ d = 3
    BY <1>1
  <2>2. A # {} /\ A # {1} /\ A # {2} /\ A # {3}
    BY <1>0
  <2> QED
    BY <2>1, <2>2
<1>3. 1 < 2 /\ 2 < 3 /\ 1 < 3 /\ 1 \in Nat /\ 2 \in Nat /\ 3 \in Nat
  OBVIOUS
<1> QED
  BY <1>2, <1>3, Zenon

\* An order of three directions names three different ones.
LEMMA AllOfThree ==
  ASSUME NEW p, \A i, j \in 1 .. 3 : p[i] = p[j] => i = j
  PROVE  /\ p[1] # p[2] /\ p[2] # p[3] /\ p[1] # p[3]
         /\ \A d : (\E i \in 1 .. 3 : p[i] = d) <=> d = p[1] \/ d = p[2] \/ d = p[3]
<1>1. 1 \in 1 .. 3 /\ 2 \in 1 .. 3 /\ 3 \in 1 .. 3 /\ 1 # 2 /\ 2 # 3 /\ 1 # 3
  OBVIOUS
<1>2. \A i \in 1 .. 3 : i = 1 \/ i = 2 \/ i = 3
  OBVIOUS
<1>3. p[1] # p[2] /\ p[2] # p[3] /\ p[1] # p[3]
  BY <1>1, Zenon
<1> QED
  BY <1>1, <1>2, <1>3, Zenon

-----------------------------------------------------------------------------
(* Multiples of a step, and the points a stride apart on a line.           *)

\* The steps from a point on, which is left out if it is not the first of the array.
OnSteps(v, step) == v % step = 0

\* These are the multiples of the step,
LEMMA MultipleIs ==
  ASSUME NEW v \in Nat, NEW step \in Nat \ {0}
  PROVE  OnSteps(v, step) <=> \E q \in Nat : v = q * step
<1>1. ASSUME OnSteps(v, step) PROVE \E q \in Nat : v = q * step
  <2>1. v \div step \in Nat /\ v % step = v - step * (v \div step)
    BY QuotientOf, RemainderOf
  <2> PICK m \in Nat : m = v \div step
    BY <2>1
  <2>2. v % step = v - step * m
    BY <2>1
  <2>3. step * m = m * step /\ step * m \in Nat
    OBVIOUS
  <2>4. v = m * step
    BY <1>1, <2>2, <2>3 DEF OnSteps
  <2> QED
    BY <2>4
<1>2. ASSUME NEW q \in Nat, v = q * step PROVE OnSteps(v, step)
  <2>1. 0 \in 0 .. step - 1 /\ q * step + 0 = q * step
    OBVIOUS
  <2>2. (q * step + 0) % step = 0
    BY <2>1, QuotientFound
  <2> QED
    BY <1>2, <2>1, <2>2 DEF OnSteps
<1> QED
  BY <1>1, <1>2

\* which lie a step apart,
LEMMA MultiplesDiffer ==
  ASSUME NEW v \in Nat, NEW u \in Nat, NEW step \in Nat \ {0}, OnSteps(u, step), v >= u
  PROVE  /\ OnSteps(v, step) <=> OnSteps(v - u, step)
         /\ OnSteps(v, step) /\ v # u => v >= u + step
<1> PICK a \in Nat : u = a * step
  BY MultipleIs
<1> PICK x \in Nat : x = v - u
  OBVIOUS
<1>1. ASSUME OnSteps(v, step) PROVE OnSteps(x, step) /\ (v # u => v >= u + step)
  <2> PICK b \in Nat : v = b * step
    BY <1>1, MultipleIs
  <2>1. b >= a
    <3> SUFFICES ASSUME b < a PROVE FALSE
      OBVIOUS
    <3>1. b * step + step <= a * step
      BY OneStride
    <3>2. a * step \in Nat /\ b * step \in Nat
      OBVIOUS
    <3> QED
      BY <3>1, <3>2
  <2> PICK h \in Nat : h = b - a
    BY <2>1
  <2>2. b * step = a * step + h * step /\ h * step \in Nat
    <3>1. b = a + h
      OBVIOUS
    <3>2. (a + h) * step = a * step + h * step
      OBVIOUS
    <3> QED
      BY <3>1, <3>2
  <2>3. x = h * step
    BY <2>2
  <2>4. v # u => v >= u + step
    <3> SUFFICES ASSUME v # u PROVE v >= u + step
      OBVIOUS
    <3>1. h >= 1
      <4>1. h = 0 => h * step = 0
        OBVIOUS
      <4> QED
        BY <2>3, <4>1
    <3> PICK g \in Nat : h = g + 1
      <4>1. h - 1 \in Nat /\ h = (h - 1) + 1
        BY <3>1
      <4> QED
        BY <4>1
    <3>2. h * step = g * step + step /\ g * step \in Nat
      OBVIOUS
    <3> QED
      BY <2>3, <3>2
  <2> QED
    BY <2>3, <2>4, MultipleIs
<1>2. ASSUME OnSteps(x, step) PROVE OnSteps(v, step)
  <2> PICK b \in Nat : x = b * step
    BY <1>2, MultipleIs
  <2>1. v = (a + b) * step
    <3>1. (a + b) * step = a * step + b * step
      OBVIOUS
    <3> QED
      BY <3>1
  <2>2. a + b \in Nat
    OBVIOUS
  <2> QED
    BY <2>1, <2>2, MultipleIs
<1> QED
  BY <1>1, <1>2

\* A multiple of a multiple is one.
LEMMA MultipleOf ==
  ASSUME NEW v \in Nat, NEW m \in Nat \ {0}, NEW step \in Nat \ {0}, OnSteps(v, m), OnSteps(m, step)
  PROVE  OnSteps(v, step)
<1>1. PICK a \in Nat : v = a * m
  BY MultipleIs
<1>2. PICK b \in Nat : m = b * step
  BY MultipleIs
<1>3. v = (a * b) * step /\ a * b \in Nat
  <2>1. a * (b * step) = (a * b) * step
    OBVIOUS
  <2> QED
    BY <1>1, <1>2, <2>1
<1> QED
  BY <1>3, MultipleIs

\* The sum of two multiples of a step is one.
LEMMA SumOfMultiples ==
  ASSUME NEW u \in Nat, NEW v \in Nat, NEW step \in Nat \ {0}, OnSteps(u, step), OnSteps(v, step)
  PROVE  OnSteps(u + v, step)
<1>1. PICK a \in Nat : u = a * step
  BY MultipleIs
<1>2. PICK b \in Nat : v = b * step
  BY MultipleIs
<1>3. u + v = (a + b) * step /\ a + b \in Nat /\ u + v \in Nat
  <2>1. (a + b) * step = a * step + b * step
    OBVIOUS
  <2> QED
    BY <1>1, <1>2, <2>1
<1> QED
  BY <1>3, MultipleIs

\* The i-th point behind lo, and what the positions of a stretch of n points are.
Position(lo, s, i) == lo + s * i

OnEven(v, s) == v % (2 * s) = 0

OnOdd(v, s)  == v % (2 * s) = s

Stretch(lo, end, s, n) ==
  /\ n \in Nat /\ n >= 1
  /\ \A i \in Int : Position(lo, s, i) \in Int
  /\ \A i, h \in Int : Position(lo, s, i) + s * h = Position(lo, s, i + h)
  /\ \A i \in Int : i < n => Position(lo, s, i) <= end
  /\ \A i \in Int : i >= 0 => Position(lo, s, i) >= lo
  /\ \A i \in Int : i < 0 => Position(lo, s, i) < lo
  /\ \A i \in Int : i >= -2 => Position(lo, s, i) >= lo - 2 * s
  /\ \A i, h \in Int : Position(lo, s, i) = Position(lo, s, h) => i = h
  /\ \A i \in Int : Position(lo, s, i) >= 0 =>
       IF i % 2 = 0 THEN OnEven(Position(lo, s, i), s) ELSE OnOdd(Position(lo, s, i), s)
  /\ \A v \in Nat : v >= lo /\ v <= end /\ OnOdd(v, s) => \E i \in OddsOf(n) : v = Position(lo, s, i)
  /\ lo = 0 => n = (end \div s) + 1

\* The code's count of the points gives such a stretch.
LEMMA StretchIs ==
  ASSUME NEW lo \in Nat, NEW end \in Nat, lo <= end, NEW s \in Nat \ {0}, lo % (2 * s) = 0,
         NEW n, n = ((end - lo) \div s) + 1
  PROVE  Stretch(lo, end, s, n)
<1> PICK x \in Nat : x = end - lo
  OBVIOUS
<1> PICK m \in Nat : m = x \div s
  BY QuotientOf
<1>1. m * s <= x /\ x < m * s + s /\ m * s \in Nat
  <2>1. s * (x \div s) <= x /\ x < s * (x \div s) + s
    BY QuotientOf
  <2>2. s * m = m * s /\ m * s \in Nat
    OBVIOUS
  <2> QED
    BY <2>1, <2>2
<1>2. n = m + 1 /\ n \in Nat /\ n >= 1
  OBVIOUS
<1> DEFINE at(i) == Position(lo, s, i)
<1>3. \A i \in Int : at(i) \in Int /\ at(i) = lo + i * s /\ i * s \in Int /\ s * i = i * s
  BY DEF Position
<1>4. ASSUME NEW i \in Int, NEW h \in Int PROVE at(i) + s * h = at(i + h)
  BY DEF Position
\* Multiples of the stride.
<1>5. ASSUME NEW i \in Int, NEW h \in Int, i < h PROVE i * s + s <= h * s
  <2> PICK k \in Nat : h = i + 1 + k
    <3>1. h - i - 1 \in Nat /\ h = i + 1 + (h - i - 1)
      BY <1>5
    <3> QED
      BY <3>1
  <2>1. h * s = i * s + s + k * s /\ k * s \in Nat
    OBVIOUS
  <2> QED
    BY <1>3, <2>1
<1>6. ASSUME NEW i \in Int, i < n PROVE at(i) <= end
  <2>1. i * s <= m * s
    <3>1. CASE i = m
      BY <1>3, <3>1
    <3>2. CASE i < m
      <4>1. i * s + s <= m * s
        BY <1>5, <3>2
      <4> QED
        BY <1>1, <1>3, <4>1
    <3> QED
      BY <1>2, <1>6, <3>1, <3>2
  <2> PICK u \in Int : u = i * s
    BY <1>3
  <2>2. at(i) = lo + u /\ u <= x
    BY <1>1, <1>3, <2>1
  <2> QED
    BY <2>2
<1>7. 0 * s = 0 /\ (-2) * s = -(2 * s) /\ (-1) * s = -s
  OBVIOUS
<1>8. ASSUME NEW i \in Int, i >= 0 PROVE at(i) >= lo
  <2> PICK u \in Int : u = i * s
    BY <1>3
  <2>1. u >= 0
    BY <1>5, <1>7, <1>8
  <2> QED
    BY <1>3, <2>1
<1>9. ASSUME NEW i \in Int, i < 0 PROVE at(i) < lo
  <2> PICK u \in Int : u = i * s
    BY <1>3
  <2>1. u + s <= 0
    BY <1>5, <1>7, <1>9
  <2> QED
    BY <1>3, <2>1
<1>10. ASSUME NEW i \in Int, i >= -2 PROVE at(i) >= lo - 2 * s
  <2> PICK u \in Int : u = i * s
    BY <1>3
  <2>1. u >= -(2 * s)
    <3>1. CASE i = -2
      BY <1>7, <3>1
    <3>2. CASE i > -2
      <4>1. (-2) * s + s <= u
        BY <1>5, <3>2
      <4> QED
        BY <1>7, <4>1
    <3> QED
      BY <1>10, <3>1, <3>2
  <2> QED
    BY <1>3, <2>1
<1>11. ASSUME NEW i \in Int, NEW h \in Int, at(i) = at(h) PROVE i = h
  <2>1. CASE i < h
    <3>1. i * s + s <= h * s
      BY <1>5, <2>1
    <3> QED
      BY <1>3, <1>11, <3>1
  <2>2. CASE h < i
    <3>1. h * s + s <= i * s
      BY <1>5, <2>2
    <3> QED
      BY <1>3, <1>11, <3>1
  <2> QED
    BY <2>1, <2>2
<1>12. ASSUME NEW i \in Int, at(i) >= 0
       PROVE  IF i % 2 = 0 THEN OnEven(at(i), s) ELSE OnOdd(at(i), s)
  <2>1. (lo + i * s) % (2 * s) = IF i % 2 = 0 THEN 0 ELSE s
    <3>1. lo + i * s \in Nat
      BY <1>3, <1>12
    <3>2. \A h \in Int : lo + h * s \in Nat => (lo + h * s) % (2 * s) = IF h % 2 = 0 THEN 0 ELSE s
      BY OddSteps, Zenon
    <3> QED
      BY <3>1, <3>2, Zenon
  <2>2. at(i) % (2 * s) = IF i % 2 = 0 THEN 0 ELSE s
    BY <1>3, <2>1
  <2> HIDE DEF at
  <2> QED
    BY <2>2 DEF OnEven, OnOdd
<1>13. ASSUME NEW v \in Nat, v >= lo, v <= end, OnOdd(v, s)
       PROVE  \E i \in OddsOf(n) : v = at(i)
  <2>1. v % (2 * s) = s
    BY <1>13 DEF OnOdd
  <2>2. PICK i \in Nat : v = lo + i * s /\ i % 2 = 1
    <3>1. \A z \in Nat : z >= lo /\ z % (2 * s) = s => \E i \in Nat : z = lo + i * s /\ i % 2 = 1
      BY OddSteps, Zenon
    <3> HIDE DEF at
    <3> QED
      BY <1>13, <2>1, <3>1, Zenon
  <2>3. at(i) = v
    <3>1. i \in Int
      BY <2>2
    <3>2. at(i) = lo + i * s
      BY <1>3, <3>1
    <3> QED
      BY <2>2, <3>2
  <2>4. i < n
    <3> SUFFICES ASSUME ~(i < n) PROVE FALSE
      OBVIOUS
    <3>1. m < i
      BY <1>2
    <3>2. m * s + s <= i * s
      BY <1>5, <3>1
    <3> QED
      BY <1>1, <1>3, <1>13, <2>2, <3>2
  <2>5. i \in OddsOf(n)
    BY <1>2, <2>2, <2>4 DEF OddsOf
  <2> QED
    BY <2>3, <2>5
<1>14. lo = 0 => n = (end \div s) + 1
  OBVIOUS
<1> HIDE DEF at
<1>15. Stretch(lo, end, s, n)
  <2>1. /\ n \in Nat /\ n >= 1
        /\ \A i \in Int : at(i) \in Int
        /\ \A i, h \in Int : at(i) + s * h = at(i + h)
        /\ \A i \in Int : i < n => at(i) <= end
        /\ \A i \in Int : i >= 0 => at(i) >= lo
        /\ \A i \in Int : i < 0 => at(i) < lo
        /\ \A i \in Int : i >= -2 => at(i) >= lo - 2 * s
        /\ \A i, h \in Int : at(i) = at(h) => i = h
        /\ \A i \in Int : at(i) >= 0 => IF i % 2 = 0 THEN OnEven(at(i), s) ELSE OnOdd(at(i), s)
        /\ \A v \in Nat : v >= lo /\ v <= end /\ OnOdd(v, s) => \E i \in OddsOf(n) : v = at(i)
        /\ lo = 0 => n = (end \div s) + 1
    BY <1>2, <1>3, <1>4, <1>6, <1>8, <1>9, <1>10, <1>11, <1>12, <1>13, <1>14, Zenon
  <2> QED
    BY <2>1, Zenon DEF Stretch, at
<1> QED
  BY <1>15

OnGrid(v, s) == v % s = 0

OnStep(v, lo, step) == (v - lo) % step = 0

\* Points of the finer grid.
LEMMA GridPoints ==
  ASSUME NEW s \in Nat \ {0}, NEW v \in Nat
  PROVE  /\ OnEven(v, s) => ~OnOdd(v, s)
         /\ OnEven(v, s) \/ OnOdd(v, s) <=> OnGrid(v, s)
<1>1. OnEven(v, s) => ~OnOdd(v, s)
  BY DEF OnEven, OnOdd
<1>2. OnEven(v, s) => OnGrid(v, s)
  BY OddSteps DEF OnEven, OnGrid
<1>3. OnOdd(v, s) => OnGrid(v, s)
  <2> SUFFICES ASSUME v % (2 * s) = s PROVE v % s = 0
    BY DEF OnOdd, OnGrid
  <2> PICK b \in Nat : b = 0
    OBVIOUS
  <2>1. b % (2 * s) = 0
    OBVIOUS
  <2>2. PICK i \in Nat : v = b + i * s /\ i % 2 = 1
    <3>1. \A z \in Nat : z >= b /\ z % (2 * s) = s => \E i \in Nat : z = b + i * s /\ i % 2 = 1
      BY <2>1, OddSteps, Zenon
    <3> QED
      BY <3>1
  <2>3. (i * s + 0) % s = 0
    BY QuotientFound
  <2> QED
    BY <2>2, <2>3
<1>4. OnGrid(v, s) => OnEven(v, s) \/ OnOdd(v, s)
  <2> SUFFICES ASSUME v % s = 0 PROVE v % (2 * s) = 0 \/ v % (2 * s) = s
    BY DEF OnEven, OnOdd, OnGrid
  <2> PICK m \in Nat : v = m * s
    <3>1. v \div s \in Nat /\ v % s = v - s * (v \div s)
      BY QuotientOf, RemainderOf
    <3> PICK m \in Nat : m = v \div s
      BY <3>1
    <3>2. v % s = v - s * m
      BY <3>1
    <3>3. s * m = m * s /\ s * m \in Nat
      OBVIOUS
    <3>4. v = m * s
      BY <3>2, <3>3
    <3> QED
      BY <3>4
  <2> PICK b \in Nat : b = 0
    OBVIOUS
  <2>1. b % (2 * s) = 0
    OBVIOUS
  <2>2. (b + m * s) % (2 * s) = IF m % 2 = 0 THEN 0 ELSE s
    <3>1. b + m * s \in Nat
      OBVIOUS
    <3>2. \A i \in Int : b + i * s \in Nat => (b + i * s) % (2 * s) = IF i % 2 = 0 THEN 0 ELSE s
      BY <2>1, OddSteps, Zenon
    <3> QED
      BY <3>1, <3>2
  <2>3. v = b + m * s
    OBVIOUS
  <2> QED
    BY <2>2, <2>3
<1> QED
  BY <1>1, <1>2, <1>3, <1>4

\* The odd points behind lo, from the first of them on.
LEMMA OddSide ==
  ASSUME NEW s \in Nat \ {0}, NEW lo \in Nat, OnEven(lo, s), NEW end \in Nat, NEW v \in Nat
  PROVE  v \in lo + s .. end /\ OnStep(v, lo + s, 2 * s) <=> v \in lo .. end /\ OnOdd(v, s)
<1>0. lo % (2 * s) = 0
  BY DEF OnEven
<1>1. ASSUME v \in lo + s .. end, OnStep(v, lo + s, 2 * s) PROVE v \in lo .. end /\ OnOdd(v, s)
  <2> PICK x \in Nat : x = v - (lo + s)
    BY <1>1
  <2>1. x % (2 * s) = 0
    BY <1>1 DEF OnStep
  <2> PICK q \in Nat : x = q * (2 * s)
    <3> PICK t \in Nat \ {0} : t = 2 * s
      OBVIOUS
    <3>1. x \div t \in Nat /\ x % t = x - t * (x \div t)
      BY QuotientOf, RemainderOf
    <3> PICK m \in Nat : m = x \div t
      BY <3>1
    <3>2. x % t = x - t * m
      BY <3>1
    <3>3. t * m = m * t /\ t * m \in Nat
      OBVIOUS
    <3>4. x = m * t
      BY <2>1, <3>2, <3>3
    <3> QED
      BY <3>4
  <2> PICK i \in Nat : i = 2 * q + 1
    OBVIOUS
  <2>2. v = lo + i * s
    <3>1. (2 * q + 1) * s = q * (2 * s) + s
      OBVIOUS
    <3>2. v = lo + s + x
      OBVIOUS
    <3> QED
      BY <3>1, <3>2
  <2>3. i % 2 = 1
    OBVIOUS
  <2>4. v % (2 * s) = s
    <3>1. \A h \in Int : lo + h * s \in Nat => (lo + h * s) % (2 * s) = IF h % 2 = 0 THEN 0 ELSE s
      BY <1>0, OddSteps, Zenon
    <3>2. lo + i * s \in Nat
      BY <2>2
    <3>3. i \in Int
      OBVIOUS
    <3>4. (lo + i * s) % (2 * s) = IF i % 2 = 0 THEN 0 ELSE s
      BY <3>1, <3>2, <3>3, Zenon
    <3>5. ~(i % 2 = 0)
      BY <2>3
    <3>6. (lo + i * s) % (2 * s) = s
      BY <3>4, <3>5, Zenon
    <3> QED
      BY <2>2, <3>6, Zenon
  <2> QED
    BY <1>1, <2>4 DEF OnOdd
<1>2. ASSUME v \in lo .. end, OnOdd(v, s) PROVE v \in lo + s .. end /\ OnStep(v, lo + s, 2 * s)
  <2>1. v % (2 * s) = s /\ v >= lo
    BY <1>2 DEF OnOdd
  <2>2. PICK i \in Nat : v = lo + i * s /\ i % 2 = 1
    <3>1. \A z \in Nat : z >= lo /\ z % (2 * s) = s => \E i \in Nat : z = lo + i * s /\ i % 2 = 1
      BY <1>0, OddSteps, Zenon
    <3> QED
      BY <2>1, <3>1
  <2> PICK q \in Nat : i = 2 * q + 1
    <3>1. i \div 2 \in Nat /\ i = 2 * (i \div 2) + 1
      BY <2>2
    <3> QED
      BY <3>1
  <2>3. v = lo + s + q * (2 * s) /\ q * (2 * s) \in Nat
    <3>1. (2 * q + 1) * s = q * (2 * s) + s /\ q * (2 * s) \in Nat
      OBVIOUS
    <3> QED
      BY <2>2, <3>1
  <2>4. (v - (lo + s)) % (2 * s) = 0
    <3> PICK t \in Nat \ {0} : t = 2 * s
      OBVIOUS
    <3>0. 0 \in 0 .. t - 1
      OBVIOUS
    <3>1. (q * t + 0) % t = 0
      BY <3>0, QuotientFound
    <3>2. v - (lo + s) = q * t + 0
      BY <2>3
    <3> QED
      BY <3>1, <3>2
  <2> QED
    BY <1>2, <2>3, <2>4 DEF OnStep
<1> QED
  BY <1>1, <1>2

\* In the code the steps are 1, the stride, or twice the stride.
LEMMA CodeSteps ==
  ASSUME NEW s \in Nat \ {0}, NEW v \in Nat
  PROVE  /\ OnSteps(v, 1)
         /\ OnSteps(v, s) <=> OnGrid(v, s)
         /\ OnSteps(v, 2 * s) <=> OnEven(v, s)
<1>1. OnSteps(v, 1)
  <2>1. v = v * 1
    OBVIOUS
  <2> QED
    BY <2>1, MultipleIs
<1>2. (OnSteps(v, s) <=> OnGrid(v, s)) /\ (OnSteps(v, 2 * s) <=> OnEven(v, s))
  BY DEF OnSteps, OnGrid, OnEven
<1> QED
  BY <1>1, <1>2

\* A place of the sample: whole steps of twice the stride behind the block's first point.
LEMMA StepsBehind ==
  ASSUME NEW a \in Nat, NEW x \in Nat, NEW y \in Nat \ {0}, NEW s \in Nat \ {0}, OnEven(a, s)
  PROVE  (x \div y) * 2 * s + a \in Nat /\ OnEven((x \div y) * 2 * s + a, s)
<1> PICK q \in Nat : q = x \div y
  BY QuotientOf
<1> PICK t \in Nat \ {0} : t = 2 * s
  OBVIOUS
<1> PICK u \in Nat : u = q * t
  OBVIOUS
<1>1. q * 2 * s = u
  OBVIOUS
<1>2. OnSteps(a, t) /\ OnSteps(u, t)
  <2>1. OnSteps(a, t)
    BY CodeSteps
  <2> QED
    BY <2>1, MultipleIs
<1>3. u + a \in Nat /\ OnSteps(u + a, t)
  BY <1>2, SumOfMultiples
<1>4. OnEven(u + a, s)
  BY <1>3, CodeSteps
<1> QED
  BY <1>1, <1>3, <1>4

-----------------------------------------------------------------------------
(* Sequences by their members, joined, and in turns.                       *)

\* A sequence given by its members.
LEMMA ListIs ==
  ASSUME NEW n \in Nat, NEW l, l = [k \in 1 .. n |-> l[k]]
  PROVE  IsSeq(l) /\ Len(l) = n
<1>1. l \in [1 .. n -> {l[k] : k \in 1 .. n}]
  BY Zenon
<1>2. l \in Seq({l[k] : k \in 1 .. n}) /\ Len(l) = n
  BY <1>1
<1> QED
  BY <1>2 DEF IsSeq

\* A sequence of any kind of members.
LEMMA SeqIs ==
  ASSUME NEW S, NEW l \in Seq(S)
  PROVE  IsSeq(l)
<1>1. Len(l) \in Nat /\ l = [k \in 1 .. Len(l) |-> l[k]]
  OBVIOUS
<1> QED
  BY <1>1, ListIs

\* Joined sequences are a sequence, the members of the first before those of the second.
LEMMA JoinIs ==
  ASSUME NEW l, NEW m, IsSeq(l), IsSeq(m)
  PROVE  /\ IsSeq(l \o m)
         /\ Len(l \o m) = Len(l) + Len(m)
         /\ \A k \in 1 .. Len(l) : (l \o m)[k] = l[k]
         /\ \A k \in 1 .. Len(m) : (l \o m)[Len(l) + k] = m[k]
<1> DEFINE S == {l[k] : k \in 1 .. Len(l)} \cup {m[k] : k \in 1 .. Len(m)}
<1>1. l \in Seq({l[k] : k \in 1 .. Len(l)}) /\ m \in Seq({m[k] : k \in 1 .. Len(m)})
  BY Zenon DEF IsSeq
<1>2. l \in Seq(S) /\ m \in Seq(S)
  <2>1. /\ Len(l) \in Nat /\ l = [k \in 1 .. Len(l) |-> l[k]]
        /\ Len(m) \in Nat /\ m = [k \in 1 .. Len(m) |-> m[k]]
    BY <1>1
  <2>2. \A k \in 1 .. Len(l) : l[k] \in S
    BY Zenon
  <2>3. \A k \in 1 .. Len(m) : m[k] \in S
    BY Zenon
  <2> HIDE DEF S
  <2> QED
    BY <2>1, <2>2, <2>3
<1> HIDE DEF S
<1>3. /\ l \o m \in Seq(S)
      /\ Len(l \o m) = Len(l) + Len(m)
      /\ \A k \in 1 .. Len(l) : (l \o m)[k] = l[k]
      /\ \A k \in 1 .. Len(m) : (l \o m)[Len(l) + k] = m[k]
  BY <1>2
<1>4. IsSeq(l \o m)
  BY <1>3, SeqIs
<1> QED
  BY <1>3, <1>4

\* Two sequences are the same if their members are.
LEMMA SameSeq ==
  ASSUME NEW l, NEW m, IsSeq(l), IsSeq(m), Len(l) = Len(m), \A k \in 1 .. Len(l) : l[k] = m[k]
  PROVE  l = m
<1>1. l \in Seq({l[k] : k \in 1 .. Len(l)}) /\ m \in Seq({m[k] : k \in 1 .. Len(m)})
  BY Zenon DEF IsSeq
<1>2. l = [k \in 1 .. Len(l) |-> l[k]] /\ m = [k \in 1 .. Len(m) |-> m[k]]
  BY <1>1
<1> QED
  BY <1>2

\* Nothing joined.
LEMMA JoinNothing ==
  ASSUME NEW l, IsSeq(l)
  PROVE  IsSeq(<<>>) /\ l \o <<>> = l
<1>1. IsSeq(<<>>) /\ Len(<<>>) = 0
  BY DEF IsSeq
<1>2. /\ IsSeq(l \o <<>>) /\ Len(l \o <<>>) = Len(l) + 0
      /\ \A k \in 1 .. Len(l) : (l \o <<>>)[k] = l[k]
  BY <1>1, JoinIs
<1>3. Len(l) \in Nat
  BY LengthIs
<1>4. Len(l \o <<>>) = Len(l)
  BY <1>2, <1>3
<1>5. \A k \in 1 .. Len(l \o <<>>) : (l \o <<>>)[k] = l[k]
  BY <1>2, <1>4
<1> QED
  BY <1>1, <1>2, <1>4, <1>5, SameSeq

\* The sequences of a sequence joined one by one.
Joins(f, seqs) ==
  /\ f = [i \in 1 .. Len(seqs) |-> f[i]]
  /\ \A i \in 1 .. Len(seqs) : f[i] = IF i = 1 THEN seqs[i] ELSE f[i - 1] \o seqs[i]

\* FlattenSeq of a sequence that is not empty, as the last of the sequences joined so far.
LEMMA FlattenIs ==
  ASSUME NEW seqs, IsSeq(seqs), Len(seqs) > 0
  PROVE  \E f : Joins(f, seqs) /\ FlattenSeq(seqs) = f[Len(seqs)]
<1>0. Len(seqs) \in Nat
  BY LengthIs
<1> DEFINE n == Len(seqs)
           Up(f, m) == /\ f = [i \in 1 .. m |-> f[i]]
                       /\ \A i \in 1 .. m : f[i] = IF i = 1 THEN seqs[i] ELSE f[i - 1] \o seqs[i]
           T == {m \in 1 .. n : ~\E f : Up(f, m)}
<1>1. T = {}
  <2> SUFFICES ASSUME T # {} PROVE FALSE
    OBVIOUS
  <2>1. PICK m \in T : \A y \in T : m <= y
    <3>1. T \in SUBSET Nat
      BY <1>0
    <3> QED
      BY <3>1, Least
  <2>2. m # 1
    <3> DEFINE f == [i \in 1 .. 1 |-> seqs[1]]
    <3>1. Up(f, 1)
      OBVIOUS
    <3> QED
      BY <3>1
  <2>3. m - 1 \in 1 .. n /\ m - 1 \notin T /\ m \in Nat
    BY <1>0, <2>1, <2>2
  <2>4. PICK f : Up(f, m - 1)
    BY <2>3
  <2> DEFINE v == f[m - 1] \o seqs[m]
             g == [i \in 1 .. m |-> IF i = m THEN v ELSE f[i]]
  <2>5. Up(g, m)
    <3> HIDE DEF v
    <3>1. g = [i \in 1 .. m |-> g[i]]
      OBVIOUS
    <3>2. g[m] = v /\ \A i \in 1 .. m - 1 : g[i] = f[i]
      BY <2>1, <2>3
    <3> HIDE DEF g
    <3> USE DEF v
    <3>3. ASSUME NEW i \in 1 .. m
          PROVE  g[i] = IF i = 1 THEN seqs[i] ELSE g[i - 1] \o seqs[i]
      <4>1. CASE i = m
        <5>1. m - 1 \in 1 .. m - 1
          BY <2>2, <2>3
        <5> QED
          BY <2>2, <3>2, <4>1, <5>1
      <4>2. CASE i # m
        <5>1. i \in 1 .. m - 1 /\ (i = 1 \/ i - 1 \in 1 .. m - 1)
          BY <2>3, <4>2
        <5> QED
          BY <2>4, <3>2, <5>1
      <4> QED
        BY <4>1, <4>2
    <3> QED
      BY <3>1, <3>3
  <2> QED
    BY <2>1, <2>5
<1>2. n \in 1 .. n
  BY <1>0
<1>3. \E f : Up(f, n)
  BY <1>1, <1>2
<1> DEFINE flatten == CHOOSE f : f = [i \in 1 .. n |-> IF i = 1 THEN seqs[i] ELSE f[i - 1] \o seqs[i]]
<1>4. \E f : f = [i \in 1 .. n |-> IF i = 1 THEN seqs[i] ELSE f[i - 1] \o seqs[i]]
  <2>1. PICK f : Up(f, n)
    BY <1>3
  <2>2. f = [i \in 1 .. n |-> f[i]]
    BY <2>1, Zenon
  <2>3. \A i \in 1 .. n : f[i] = IF i = 1 THEN seqs[i] ELSE f[i - 1] \o seqs[i]
    BY <2>1
  <2>4. f = [i \in 1 .. n |-> IF i = 1 THEN seqs[i] ELSE f[i - 1] \o seqs[i]]
    BY <2>2, <2>3
  <2> QED
    BY <2>4
<1>5. flatten = [i \in 1 .. n |-> IF i = 1 THEN seqs[i] ELSE flatten[i - 1] \o seqs[i]]
  BY <1>4, Zenon
<1>6. FlattenSeq(seqs) = flatten[n]
  <2>1. Len(seqs) # 0
    OBVIOUS
  <2> QED
    BY <2>1, Zenon DEF FlattenSeq
<1> HIDE DEF flatten
<1>7. Joins(flatten, seqs)
  BY <1>5 DEF Joins
<1> QED
  BY <1>6, <1>7

\* Sequences joined are a sequence.
LEMMA FlattenSeqIs ==
  ASSUME NEW seqs, IsSeq(seqs), \A k \in 1 .. Len(seqs) : IsSeq(seqs[k])
  PROVE  IsSeq(FlattenSeq(seqs))
<1>0. Len(seqs) \in Nat
  BY LengthIs
<1>1. CASE Len(seqs) = 0
  BY <1>1 DEF FlattenSeq
<1>2. CASE Len(seqs) > 0
  <2>1. PICK f : Joins(f, seqs) /\ FlattenSeq(seqs) = f[Len(seqs)]
    BY <1>2, FlattenIs
  <2> DEFINE T == {i \in 1 .. Len(seqs) : ~IsSeq(f[i])}
  <2>2. SUFFICES ASSUME T # {} PROVE FALSE
    BY <1>0, <1>2, <2>1
  <2>3. PICK i \in T : \A y \in T : i <= y
    <3>1. T \in SUBSET Nat
      OBVIOUS
    <3> QED
      BY <3>1, <2>2, Least
  <2>4. i # 1
    BY <2>1 DEF Joins
  <2>5. i - 1 \in 1 .. Len(seqs) /\ i - 1 \notin T
    BY <1>0, <2>3, <2>4
  <2>6. IsSeq(f[i - 1]) /\ IsSeq(seqs[i]) /\ f[i] = f[i - 1] \o seqs[i]
    BY <2>1, <2>4, <2>5 DEF Joins
  <2>7. IsSeq(f[i - 1] \o seqs[i])
    BY <2>6, JoinIs
  <2> QED
    BY <2>6, <2>7
<1> QED
  BY <1>0, <1>1, <1>2

\* Sequences given member by member.
LEMMA ListsAre ==
  /\ \A a : IsSeq(<<a>>) /\ Len(<<a>>) = 1
  /\ \A a, b : IsSeq(<<a, b>>) /\ Len(<<a, b>>) = 2
  /\ \A a, b, c, d : IsSeq(<<a, b, c, d>>) /\ Len(<<a, b, c, d>>) = 4
  /\ \A a, b, c, d, e, f, g :
       IsSeq(<<a, b, c, d, e, f, g>>) /\ Len(<<a, b, c, d, e, f, g>>) = 7
  /\ IsSeq(<<>>) /\ Len(<<>>) = 0
<1>1. ASSUME NEW a PROVE IsSeq(<<a>>) /\ Len(<<a>>) = 1
  BY DEF IsSeq
<1>2. ASSUME NEW a, NEW b PROVE IsSeq(<<a, b>>) /\ Len(<<a, b>>) = 2
  BY DEF IsSeq
<1>3. ASSUME NEW a, NEW b, NEW c, NEW d PROVE IsSeq(<<a, b, c, d>>) /\ Len(<<a, b, c, d>>) = 4
  BY DEF IsSeq
<1>4. ASSUME NEW a, NEW b, NEW c, NEW d, NEW e, NEW f, NEW g
      PROVE  IsSeq(<<a, b, c, d, e, f, g>>) /\ Len(<<a, b, c, d, e, f, g>>) = 7
  BY DEF IsSeq
<1>5. IsSeq(<<>>) /\ Len(<<>>) = 0
  BY DEF IsSeq
<1> QED
  BY <1>1, <1>2, <1>3, <1>4, <1>5, Zenon

\* A list of the members of a set, each once.
ListsOnce(b, S) ==
  /\ IsSeq(b)
  /\ \A k \in 1 .. Len(b) : b[k] \in S
  /\ \A i \in S : \E k \in 1 .. Len(b) : b[k] = i
  /\ \A j, k \in 1 .. Len(b) : b[j] = b[k] => j = k

\* Two sequences of different members, one after the other, list the members of both.
LEMMA ListsJoin ==
  ASSUME NEW p, NEW q, NEW S, NEW T, ListsOnce(p, S), ListsOnce(q, T), \A i \in S : i \notin T
  PROVE  ListsOnce(p \o q, S \cup T)
<1> PICK r : r = p \o q
  OBVIOUS
<1> PICK m \in Nat : m = Len(p)
  BY LengthIs DEF ListsOnce
<1> PICK n \in Nat : n = Len(q)
  BY LengthIs DEF ListsOnce
<1>1. /\ IsSeq(r) /\ Len(r) = m + n
      /\ \A k \in 1 .. m : r[k] = p[k]
      /\ \A k \in 1 .. n : r[m + k] = q[k]
  BY JoinIs DEF ListsOnce
<1>2. ASSUME NEW k \in 1 .. m + n
      PROVE  \/ k \in 1 .. m /\ r[k] = p[k] /\ r[k] \in S
             \/ k - m \in 1 .. n /\ r[k] = q[k - m] /\ r[k] \in T
  <2>1. CASE k <= m
    BY <1>1, <2>1 DEF ListsOnce
  <2>2. CASE k > m
    <3>1. k - m \in 1 .. n /\ m + (k - m) = k
      BY <2>2
    <3> QED
      BY <1>1, <3>1 DEF ListsOnce
  <2> QED
    BY <2>1, <2>2
<1>3. ASSUME NEW i \in S \cup T
      PROVE  \E k \in 1 .. m + n : r[k] = i
  <2>1. CASE i \in S
    <3>1. PICK k \in 1 .. m : p[k] = i
      BY <2>1 DEF ListsOnce
    <3> QED
      BY <1>1, <3>1
  <2>2. CASE i \in T
    <3>1. PICK k \in 1 .. n : q[k] = i
      BY <2>2 DEF ListsOnce
    <3>2. m + k \in 1 .. m + n
      OBVIOUS
    <3> QED
      BY <1>1, <3>1, <3>2
  <2> QED
    BY <2>1, <2>2
<1>4. ASSUME NEW j \in 1 .. m + n, NEW k \in 1 .. m + n, r[j] = r[k]
      PROVE  j = k
  <2>1. CASE j \in 1 .. m /\ k \in 1 .. m /\ r[j] = p[j] /\ r[k] = p[k]
    BY <1>4, <2>1 DEF ListsOnce
  <2>2. CASE /\ j - m \in 1 .. n /\ k - m \in 1 .. n
             /\ r[j] = q[j - m] /\ r[k] = q[k - m]
    <3>1. j - m = k - m
      BY <1>4, <2>2 DEF ListsOnce
    <3> QED
      BY <3>1
  <2>3. ~(r[j] \in S /\ r[k] \in T) /\ ~(r[j] \in T /\ r[k] \in S)
    BY <1>4
  <2> QED
    BY <1>2, <2>1, <2>2, <2>3
<1>5. ListsOnce(r, S \cup T)
  <2>1. \A k \in 1 .. Len(r) : r[k] \in S \cup T
    BY <1>1, <1>2
  <2>2. \A i \in S \cup T : \E k \in 1 .. Len(r) : r[k] = i
    BY <1>1, <1>3
  <2>3. \A j, k \in 1 .. Len(r) : r[j] = r[k] => j = k
    BY <1>1, <1>4
  <2> QED
    BY <1>1, <2>1, <2>2, <2>3, Zenon DEF ListsOnce
<1> QED
  BY <1>5

\* The first member of a sequence taken over to the end of another.
LEMMA TakeOver ==
  ASSUME NEW l, NEW m, IsSeq(l), IsSeq(m), m # <<>>
  PROVE  /\ IsSeq(Tail(m)) /\ Len(m) \in Nat \ {0} /\ Len(Tail(m)) = Len(m) - 1
         /\ IsSeq(Append(l, Head(m))) /\ Head(m) = m[1]
         /\ Append(l, Head(m)) \o Tail(m) = l \o m
<1>1. m \in Seq({m[k] : k \in 1 .. Len(m)})
  BY Zenon DEF IsSeq
<1>2. /\ Len(m) \in Nat \ {0} /\ Len(Tail(m)) = Len(m) - 1 /\ Head(m) = m[1]
      /\ \A k \in 1 .. Len(m) - 1 : Tail(m)[k] = m[k + 1]
      /\ Tail(m) \in Seq({m[k] : k \in 1 .. Len(m)})
  BY <1>1
<1>3. IsSeq(Tail(m))
  BY <1>2, SeqIs
<1>4. /\ IsSeq(Append(l, Head(m))) /\ Len(Append(l, Head(m))) = Len(l) + 1 /\ Len(l) \in Nat
      /\ Append(l, Head(m))[Len(l) + 1] = m[1]
      /\ \A k \in 1 .. Len(l) : Append(l, Head(m))[k] = l[k]
  BY AppendIs, <1>2
<1> DEFINE a == Append(l, Head(m))
           t == Tail(m)
<1>5. /\ IsSeq(a \o t)
      /\ Len(a \o t) = Len(a) + Len(t)
      /\ \A k \in 1 .. Len(a) : (a \o t)[k] = a[k]
      /\ \A k \in 1 .. Len(t) : (a \o t)[Len(a) + k] = t[k]
  BY <1>3, <1>4, JoinIs
<1>6. /\ IsSeq(l \o m)
      /\ Len(l \o m) = Len(l) + Len(m)
      /\ \A k \in 1 .. Len(l) : (l \o m)[k] = l[k]
      /\ \A k \in 1 .. Len(m) : (l \o m)[Len(l) + k] = m[k]
  BY JoinIs
<1>7. Len(a \o t) = Len(l \o m)
  BY <1>2, <1>4, <1>5, <1>6
<1>8. ASSUME NEW k \in 1 .. Len(a \o t) PROVE (a \o t)[k] = (l \o m)[k]
  <2>1. CASE k \in 1 .. Len(l)
    <3>1. k \in 1 .. Len(a)
      BY <1>4, <2>1
    <3> QED
      BY <1>4, <1>5, <1>6, <2>1, <3>1
  <2>2. CASE k = Len(l) + 1
    <3>1. k \in 1 .. Len(a) /\ 1 \in 1 .. Len(m)
      BY <1>2, <1>4, <2>2
    <3> QED
      BY <1>4, <1>5, <1>6, <2>2, <3>1
  <2>3. CASE k > Len(l) + 1
    <3> DEFINE j == k - Len(l) - 1
    <3>1. /\ j \in 1 .. Len(t) /\ k = Len(a) + j
          /\ j \in 1 .. Len(m) - 1 /\ j + 1 \in 1 .. Len(m) /\ k = Len(l) + (j + 1)
      BY <1>2, <1>4, <1>5, <2>3
    <3>2. (a \o t)[k] = t[j]
      BY <1>5, <3>1
    <3>3. (l \o m)[k] = m[j + 1]
      BY <1>6, <3>1
    <3>4. t[j] = m[j + 1]
      BY <1>2, <3>1
    <3> QED
      BY <3>2, <3>3, <3>4
  <2> QED
    BY <1>2, <1>4, <1>5, <2>1, <2>2, <2>3
<1>9. a \o t = l \o m
  BY <1>5, <1>6, <1>7, <1>8, SameSeq
<1> QED
  BY <1>2, <1>3, <1>4, <1>9

\* The members of the rest of a sequence.
LEMMA TailIs ==
  ASSUME NEW m, IsSeq(m), m # <<>>
  PROVE  /\ IsSeq(Tail(m)) /\ Len(m) \in Nat \ {0} /\ Len(Tail(m)) = Len(m) - 1 /\ Head(m) = m[1]
         /\ \A k \in 1 .. Len(m) - 1 : Tail(m)[k] = m[k + 1]
<1>1. m \in Seq({m[k] : k \in 1 .. Len(m)})
  BY Zenon DEF IsSeq
<1>2. /\ Len(m) \in Nat \ {0} /\ Len(Tail(m)) = Len(m) - 1 /\ Head(m) = m[1]
      /\ \A k \in 1 .. Len(m) - 1 : Tail(m)[k] = m[k + 1]
  BY <1>1
<1> QED
  BY <1>2, TakeOver

\* The two directions after the first of an order of three.
LEMMA TailOfThree ==
  ASSUME NEW S, NEW l \in Seq(S), Len(l) = 3
  PROVE  Len(Tail(l)) = 2 /\ Tail(l)[1] = l[2] /\ Tail(l)[2] = l[3]
<1>0. l # <<>>
  OBVIOUS
<1>1. Len(Tail(l)) = Len(l) - 1 /\ \A k \in 1 .. Len(l) - 1 : Tail(l)[k] = l[k + 1]
  BY <1>0
<1>2. Len(l) - 1 = 2 /\ 1 \in 1 .. 2 /\ 2 \in 1 .. 2 /\ 1 + 1 = 2 /\ 2 + 1 = 3
  OBVIOUS
<1>3. Tail(l)[1] = l[1 + 1] /\ Tail(l)[2] = l[2 + 1]
  BY <1>1, <1>2, Zenon
<1> QED
  BY <1>1, <1>2, <1>3

\* What begins the beginning of a log begins the log.
LEMMA BeginsTransitive ==
  ASSUME NEW l, NEW m, NEW n, IsSeq(l), IsSeq(m), IsSeq(n), Begins(l, m), Begins(m, n)
  PROVE  Begins(l, n)
<1>1. Len(l) \in Nat /\ Len(m) \in Nat /\ Len(n) \in Nat
  BY LengthIs
<1> QED
  BY <1>1 DEF Begins

\* A decoded batch is the one compress has coded at this place.
LEMMA DecodesNext ==
  ASSUME NEW l, NEW done, NEW rest, IsSeq(l), IsSeq(done), IsSeq(rest), rest # <<>>,
         Begins(done \o rest, l)
  PROVE  Len(done) < Len(l) /\ Head(rest) = l[Len(done) + 1]
<1> PICK n \in Nat : n = Len(done)
  BY LengthIs
<1> PICK m \in Nat \ {0} : m = Len(rest)
  BY TailIs
<1> PICK j : j = done \o rest
  OBVIOUS
<1>1. Len(j) = n + m /\ \A k \in 1 .. m : j[n + k] = rest[k]
  BY JoinIs
<1>2. Head(rest) = rest[1]
  BY TailIs
<1>3. Len(l) \in Nat /\ n + m <= Len(l) /\ \A i \in 1 .. n + m : l[i] = j[i]
  BY <1>1, LengthIs DEF Begins
<1>4. 1 \in 1 .. m /\ n + 1 \in 1 .. n + m
  OBVIOUS
<1> QED
  BY <1>1, <1>2, <1>3, <1>4

\* All sets of directions but the empty one, each after its subsets.
Turns(S, N, F) ==
  /\ IsSeq(S) /\ N \in Nat /\ N = Len(S) /\ DOMAIN S = 1 .. N
  /\ \A k \in 1 .. N : S[k] \subseteq F /\ S[k] # {}
  /\ \A A \in SUBSET F : A # {} => \E k \in 1 .. N : S[k] = A
  /\ \A j, k \in 1 .. N : S[j] \subseteq S[k] /\ j # k => j < k

\* The code's turns for two directions are in such an order,
LEMMA TwoTurns ==
  ASSUME NEW a, NEW b, a # b, NEW S, S = << {a}, {b}, {a, b} >>, NEW F, F = {a, b}
  PROVE  Turns(S, 3, F)
<1>1. IsSeq(S) /\ Len(S) = 3 /\ 3 \in Nat
  BY DEF IsSeq
<1>2. DOMAIN S = 1 .. 3
  BY <1>1 DEF IsSeq
<1>3. S[1] = {a} /\ S[2] = {b} /\ S[3] = {a, b}
  OBVIOUS
<1>4. \A k \in 1 .. 3 : k = 1 \/ k = 2 \/ k = 3
  OBVIOUS
<1>5. \A k \in 1 .. 3 : S[k] \subseteq F /\ S[k] # {}
  BY <1>3, <1>4
<1>6. ASSUME NEW A \in SUBSET F, A # {} PROVE \E k \in 1 .. 3 : S[k] = A
  <2>1. A = {a} \/ A = {b} \/ A = {a, b}
    BY <1>6
  <2>2. 1 \in 1 .. 3 /\ 2 \in 1 .. 3 /\ 3 \in 1 .. 3
    OBVIOUS
  <2> QED
    BY <1>3, <2>1, <2>2
<1>7. ASSUME NEW j \in 1 .. 3, NEW k \in 1 .. 3, S[j] \subseteq S[k], j # k PROVE j < k
  <2>1. ~(S[1] \subseteq S[2]) /\ ~(S[2] \subseteq S[1]) /\ ~(S[3] \subseteq S[1]) /\ ~(S[3] \subseteq S[2])
    BY <1>3
  <2> QED
    BY <1>4, <1>7, <2>1
<1> QED
  BY <1>1, <1>2, <1>5, <1>6, <1>7, Zenon DEF Turns

Triple(a, b, e, S, F) ==
  /\ a # b /\ b # e /\ a # e /\ F = {a, b, e}
  /\ S = << {a}, {b}, {e}, {a, b}, {a, e}, {b, e}, {a, b, e} >>

\* and those for three.
LEMMA ThreeTurns ==
  ASSUME NEW a, NEW b, NEW e, NEW S, NEW F, Triple(a, b, e, S, F)
  PROVE  Turns(S, 7, F)
<1> USE DEF Triple
<1>1. IsSeq(S) /\ Len(S) = 7 /\ 7 \in Nat
  BY ListsAre
<1>2. DOMAIN S = 1 .. 7
  BY <1>1 DEF IsSeq
<1>3. /\ S[1] = {a} /\ S[2] = {b} /\ S[3] = {e} /\ S[4] = {a, b} /\ S[5] = {a, e}
      /\ S[6] = {b, e} /\ S[7] = {a, b, e}
  OBVIOUS
<1>4. \A k \in 1 .. 7 : k = 1 \/ k = 2 \/ k = 3 \/ k = 4 \/ k = 5 \/ k = 6 \/ k = 7
  OBVIOUS
<1>5. \A k \in 1 .. 7 : S[k] \subseteq F /\ S[k] # {}
  BY <1>3, <1>4
<1>6. ASSUME NEW A \in SUBSET F, A # {} PROVE \E k \in 1 .. 7 : S[k] = A
  <2>1. \/ A = {a} \/ A = {b} \/ A = {e} \/ A = {a, b} \/ A = {a, e} \/ A = {b, e}
        \/ A = {a, b, e}
    BY <1>6
  <2>2. 1 \in 1 .. 7 /\ 2 \in 1 .. 7 /\ 3 \in 1 .. 7 /\ 4 \in 1 .. 7 /\ 5 \in 1 .. 7 /\ 6 \in 1 .. 7 /\ 7 \in 1 .. 7
    OBVIOUS
  <2> QED
    BY <1>3, <2>1, <2>2
<1>7. ASSUME NEW j \in 1 .. 7, NEW k \in 1 .. 7, S[j] \subseteq S[k], j # k PROVE j < k
  <2>1. \A i \in 1 .. 7 : /\ a \in S[i] <=> i \in {1, 4, 5, 7}
                          /\ b \in S[i] <=> i \in {2, 4, 6, 7}
                          /\ e \in S[i] <=> i \in {3, 5, 6, 7}
    <3> SUFFICES ASSUME NEW i \in 1 .. 7
                 PROVE  /\ a \in S[i] <=> i \in {1, 4, 5, 7}
                        /\ b \in S[i] <=> i \in {2, 4, 6, 7}
                        /\ e \in S[i] <=> i \in {3, 5, 6, 7}
      OBVIOUS
    <3> QED
      BY <1>3, <1>4
  <2>2. /\ j \in {1, 4, 5, 7} => k \in {1, 4, 5, 7}
        /\ j \in {2, 4, 6, 7} => k \in {2, 4, 6, 7}
        /\ j \in {3, 5, 6, 7} => k \in {3, 5, 6, 7}
    BY <1>7, <2>1
  <2> QED
    BY <1>7, <2>2
<1> QED
  BY <1>1, <1>2, <1>5, <1>6, <1>7, Zenon DEF Turns

-----------------------------------------------------------------------------
(* Batches of events that code a set of points, each once, and read what is*)
(* known by then.                                                          *)

CodedAt(B, j, r) == \E f \in B[j] : f.at = r

\* The batches of B code the points of T, each once, and read points of K and those that
\* an earlier batch has coded.
Fills(B, K, T) ==
  /\ IsSeq(B)
  /\ \A k \in 1 .. Len(B) : \A e \in B[k] :
       /\ e = [at |-> e.at, reads |-> e.reads] /\ e.at \in T
       /\ \A r \in e.reads : r \in K \/ \E j \in 1 .. k - 1 : CodedAt(B, j, r)
  /\ \A q \in T : \E k \in 1 .. Len(B) : CodedAt(B, k, q)
  /\ \A j, k \in 1 .. Len(B) : \A e \in B[j], f \in B[k] : e.at = f.at => j = k /\ e = f

\* No batch fills no points,
LEMMA FillsNothing ==
  ASSUME NEW K, NEW T, T = {}
  PROVE  Fills(<<>>, K, T)
<1>1. IsSeq(<<>>) /\ Len(<<>>) = 0
  BY ListsAre
<1> QED
  BY <1>1 DEF Fills

\* More may be known.
LEMMA FillsMore ==
  ASSUME NEW B, NEW J, NEW K, NEW T, Fills(B, J, T), J \subseteq K
  PROVE  Fills(B, K, T)
BY Zenon DEF Fills

\* Batches fill a set when they code each of its points once and read what is known.
LEMMA FillsIs ==
  ASSUME NEW B, NEW K, NEW T, NEW N, IsSeq(B), Len(B) = N,
         \A k \in 1 .. N : \A e \in B[k] :
           /\ e = [at |-> e.at, reads |-> e.reads] /\ e.at \in T
           /\ \A r \in e.reads : r \in K \/ \E j \in 1 .. k - 1 : CodedAt(B, j, r),
         \A q \in T : \E k \in 1 .. N : CodedAt(B, k, q),
         \A j, k \in 1 .. N : \A e \in B[j], f \in B[k] : e.at = f.at => j = k /\ e = f
  PROVE  Fills(B, K, T)
BY Zenon DEF Fills

\* One pass after the other.
LEMMA FillsJoin ==
  ASSUME NEW A, NEW B, NEW K, NEW J, NEW S, NEW T, Fills(A, K, S), Fills(B, J, T),
         J \subseteq K \cup S, \A q \in S : q \notin T
  PROVE  Fills(A \o B, K, S \cup T)
<1> PICK C : C = A \o B
  OBVIOUS
<1>0. IsSeq(A) /\ IsSeq(B)
  BY DEF Fills
<1> PICK m \in Nat : m = Len(A)
  BY <1>0, LengthIs
<1> PICK n \in Nat : n = Len(B)
  BY <1>0, LengthIs
<1>1. /\ IsSeq(C) /\ Len(C) = m + n
      /\ \A k \in 1 .. m : C[k] = A[k]
      /\ \A k \in 1 .. n : C[m + k] = B[k]
  BY <1>0, JoinIs
<1>2. ASSUME NEW k \in 1 .. m + n
      PROVE  \/ k \in 1 .. m /\ C[k] = A[k]
             \/ k - m \in 1 .. n /\ C[k] = B[k - m]
  <2>1. CASE k <= m
    BY <1>1, <2>1
  <2>2. CASE k > m
    <3>1. k - m \in 1 .. n /\ m + (k - m) = k
      BY <2>2
    <3> QED
      BY <1>1, <3>1
  <2> QED
    BY <2>1, <2>2
<1>3. /\ \A k \in 1 .. m : \A r : CodedAt(A, k, r) => CodedAt(C, k, r)
      /\ \A k \in 1 .. n : \A r : CodedAt(B, k, r) => CodedAt(C, m + k, r)
  BY <1>1 DEF CodedAt
<1>4. /\ \A k \in 1 .. m : \A e \in A[k] : e.at \in S
      /\ \A k \in 1 .. n : \A e \in B[k] : e.at \in T
  BY DEF Fills
<1>5. ASSUME NEW k \in 1 .. m + n, NEW e \in C[k]
      PROVE  /\ e = [at |-> e.at, reads |-> e.reads] /\ e.at \in S \cup T
             /\ \A r \in e.reads : r \in K \/ \E j \in 1 .. k - 1 : CodedAt(C, j, r)
  <2>1. CASE k \in 1 .. m /\ C[k] = A[k]
    <3>1. /\ e = [at |-> e.at, reads |-> e.reads] /\ e.at \in S
          /\ \A r \in e.reads : r \in K \/ \E j \in 1 .. k - 1 : CodedAt(A, j, r)
      BY <2>1 DEF Fills
    <3>2. \A j \in 1 .. k - 1 : j \in 1 .. m
      BY <2>1
    <3> QED
      BY <1>3, <3>1, <3>2
  <2>2. CASE k - m \in 1 .. n /\ C[k] = B[k - m]
    <3> PICK h \in 1 .. n : h = k - m
      BY <2>2
    <3>1. e \in B[h]
      BY <2>2
    <3>2. /\ e = [at |-> e.at, reads |-> e.reads] /\ e.at \in T
          /\ \A r \in e.reads : r \in J \/ \E j \in 1 .. h - 1 : CodedAt(B, j, r)
      BY <3>1 DEF Fills
    <3>3. ASSUME NEW r \in e.reads PROVE r \in K \/ \E j \in 1 .. k - 1 : CodedAt(C, j, r)
      <4>1. CASE r \in K
        BY <4>1
      <4>2. CASE r \in S
        <5>1. PICK j \in 1 .. m : CodedAt(A, j, r)
          BY <4>2 DEF Fills
        <5>2. j \in 1 .. k - 1 /\ CodedAt(C, j, r)
          BY <1>3, <2>2, <5>1
        <5> QED
          BY <5>2
      <4>3. CASE \E j \in 1 .. h - 1 : CodedAt(B, j, r)
        <5>1. PICK j \in 1 .. h - 1 : CodedAt(B, j, r)
          BY <4>3
        <5>2. j \in 1 .. n /\ m + j \in 1 .. k - 1
          OBVIOUS
        <5>3. CodedAt(C, m + j, r)
          BY <1>3, <5>1, <5>2
        <5> QED
          BY <5>2, <5>3
      <4> QED
        BY <3>2, <4>1, <4>2, <4>3
    <3> QED
      BY <3>2, <3>3
  <2> QED
    BY <1>2, <2>1, <2>2
<1>6. ASSUME NEW q \in S \cup T PROVE \E k \in 1 .. m + n : CodedAt(C, k, q)
  <2>1. CASE q \in S
    <3>1. PICK k \in 1 .. m : CodedAt(A, k, q)
      BY <2>1 DEF Fills
    <3>2. k \in 1 .. m + n /\ CodedAt(C, k, q)
      BY <1>3, <3>1
    <3> QED
      BY <3>2
  <2>2. CASE q \in T
    <3>1. PICK k \in 1 .. n : CodedAt(B, k, q)
      BY <2>2 DEF Fills
    <3>2. m + k \in 1 .. m + n /\ CodedAt(C, m + k, q)
      BY <1>3, <3>1
    <3> QED
      BY <3>2
  <2> QED
    BY <2>1, <2>2
<1>7. ASSUME NEW j \in 1 .. m + n, NEW k \in 1 .. m + n, NEW e \in C[j], NEW f \in C[k], e.at = f.at
      PROVE  j = k /\ e = f
  <2>1. CASE j \in 1 .. m /\ k \in 1 .. m /\ C[j] = A[j] /\ C[k] = A[k]
    BY <1>7, <2>1 DEF Fills
  <2>2. CASE j - m \in 1 .. n /\ k - m \in 1 .. n /\ C[j] = B[j - m] /\ C[k] = B[k - m]
    <3>1. j - m = k - m /\ e = f
      BY <1>7, <2>2 DEF Fills
    <3> QED
      BY <3>1
  <2>3. CASE j \in 1 .. m /\ k - m \in 1 .. n /\ C[j] = A[j] /\ C[k] = B[k - m]
    <3>1. e.at \in S /\ f.at \in T
      BY <1>4, <2>3
    <3> QED
      BY <1>7, <3>1
  <2>4. CASE k \in 1 .. m /\ j - m \in 1 .. n /\ C[k] = A[k] /\ C[j] = B[j - m]
    <3>1. f.at \in S /\ e.at \in T
      BY <1>4, <2>4
    <3> QED
      BY <1>7, <3>1
  <2> QED
    BY <1>2, <2>1, <2>2, <2>3, <2>4
<1>8. Fills(C, K, S \cup T)
  BY <1>1, <1>5, <1>6, <1>7, Zenon DEF Fills
<1> QED
  BY <1>8

\* Several passes.
FillInTurn(seqs, n, K, T) ==
  /\ IsSeq(seqs) /\ n \in Nat /\ n = Len(seqs)
  /\ \A k \in 1 .. n : Fills(seqs[k], K \cup UNION {T[j] : j \in 1 .. k - 1}, T[k])
  /\ \A j, k \in 1 .. n : j # k => \A q \in T[j] : q \notin T[k]

\* and sequences that fill one part after the other fill the union of the parts, joined.
LEMMA FillsFlatten ==
  ASSUME NEW seqs, NEW n, NEW K, NEW T, FillInTurn(seqs, n, K, T)
  PROVE  Fills(FlattenSeq(seqs), K, UNION {T[k] : k \in 1 .. n})
<1>0. /\ IsSeq(seqs) /\ n \in Nat /\ n = Len(seqs)
      /\ \A k \in 1 .. n : Fills(seqs[k], K \cup UNION {T[j] : j \in 1 .. k - 1}, T[k])
      /\ \A j, k \in 1 .. n : j # k => \A q \in T[j] : q \notin T[k]
  BY DEF FillInTurn
<1> USE <1>0
<1> DEFINE U(k) == UNION {T[j] : j \in 1 .. k}
<1>1. CASE n = 0
  <2>1. FlattenSeq(seqs) = <<>>
    <3>1. Len(seqs) = 0
      BY <1>1
    <3> QED
      BY <3>1 DEF FlattenSeq
  <2>2. U(n) = {}
    BY <1>1
  <2> HIDE DEF U
  <2>3. Fills(<<>>, K, U(n))
    BY <2>2, FillsNothing
  <2> QED
    BY <2>1, <2>3 DEF U
<1>2. CASE n > 0
  <2>1. PICK f : Joins(f, seqs) /\ FlattenSeq(seqs) = f[n]
    BY <1>2, FlattenIs
  <2> DEFINE Bad == {i \in 1 .. n : ~Fills(f[i], K, U(i))}
  <2>2. SUFFICES ASSUME Bad # {} PROVE FALSE
    <3>1. CASE Bad = {}
      <4>1. n \in 1 .. n
        BY <1>2
      <4> HIDE DEF U
      <4>2. Fills(f[n], K, U(n))
        BY <3>1, <4>1
      <4> QED
        BY <2>1, <4>2 DEF U
    <3> QED
      BY <3>1
  <2>3. PICK i \in Bad : \A y \in Bad : i <= y
    <3>1. Bad \in SUBSET Nat
      OBVIOUS
    <3> QED
      BY <3>1, <2>2, Least
  <2>4. i \in 1 .. n /\ ~Fills(f[i], K, U(i))
    OBVIOUS
  <2>5. Fills(seqs[i], K \cup U(i - 1), T[i])
    BY <2>4
  <2>6. CASE i = 1
    <3>1. U(i - 1) = {} /\ U(i) = T[i]
      BY <2>6
    <3>2. f[i] = seqs[i]
      BY <2>1, <2>4, <2>6 DEF Joins
    <3>3. K \cup U(i - 1) = K
      BY <3>1
    <3> HIDE DEF U
    <3> QED
      BY <2>4, <2>5, <3>1, <3>2, <3>3
  <2>7. CASE i # 1
    <3>1. i - 1 \in 1 .. n /\ ~(i <= i - 1)
      BY <2>4, <2>7
    <3>2. Fills(f[i - 1], K, U(i - 1))
      <4> HIDE DEF U
      <4>1. i - 1 \notin Bad
        <5> HIDE DEF Bad
        <5> QED
          BY <2>3, <3>1
      <4> QED
        BY <3>1, <4>1
    <3>3. f[i] = f[i - 1] \o seqs[i]
      BY <2>1, <2>4, <2>7 DEF Joins
    <3>4. \A q \in U(i - 1) : q \notin T[i]
      BY <2>4
    <3>5. U(i) = U(i - 1) \cup T[i]
      <4>1. \A j : j \in 1 .. i <=> j \in 1 .. i - 1 \/ j = i
        BY <2>4
      <4> QED
        BY <4>1
    <3> HIDE DEF U, Bad
    <3>6. Fills(f[i - 1] \o seqs[i], K, U(i - 1) \cup T[i])
      BY <2>5, <3>2, <3>4, FillsJoin
    <3> QED
      BY <2>4, <3>3, <3>5, <3>6
  <2> QED
    BY <2>6, <2>7
<1> QED
  BY <1>1, <1>2

\* The points of a batch.
At(batch) == {e.at : e \in batch}

\* The first batch of those that fill T fills its own part of it, the others the rest.
FirstOf(B, K, T, b) == Fills(B, K, T) /\ B # <<>> /\ b = Head(B) /\ \A q \in T : q \notin K

PartOf(B, K, T, b) ==
  /\ \A e \in b : e = [at |-> e.at, reads |-> e.reads] /\ e.at \in T /\ e.reads \subseteq K
  /\ \A e, f \in b : e.at = f.at => e = f
  /\ At(b) \subseteq T
  /\ Fills(Tail(B), K \cup At(b), T \ At(b))

\* The first batch leaves the rest to be filled by the other batches.
LEMMA FillsTail ==
  ASSUME NEW B, NEW K, NEW T, NEW b, FirstOf(B, K, T, b)
  PROVE  PartOf(B, K, T, b)
<1>0. Fills(B, K, T) /\ B # <<>> /\ b = Head(B) /\ \A q \in T : q \notin K
  BY DEF FirstOf
<1> USE <1>0
<1> PICK R : R = Tail(B)
  OBVIOUS
<1> PICK n \in Nat : Len(B) = n + 1
  <2>1. Len(B) \in Nat \ {0}
    BY TailIs DEF Fills
  <2>2. Len(B) - 1 \in Nat /\ Len(B) = (Len(B) - 1) + 1
    BY <2>1
  <2> QED
    BY <2>2
<1>1. /\ IsSeq(B) /\ IsSeq(R) /\ Len(R) = n /\ b = B[1] /\ \A k \in 1 .. n : R[k] = B[k + 1]
  BY TailIs DEF Fills
<1>2. /\ \A k \in 1 .. n + 1 : \A e \in B[k] :
           /\ e = [at |-> e.at, reads |-> e.reads] /\ e.at \in T
           /\ \A r \in e.reads : r \in K \/ \E j \in 1 .. k - 1 : CodedAt(B, j, r)
      /\ \A q \in T : \E k \in 1 .. n + 1 : CodedAt(B, k, q)
      /\ \A j, k \in 1 .. n + 1 : \A e \in B[j], f \in B[k] : e.at = f.at => j = k /\ e = f
  BY DEF Fills
<1>3. 1 \in 1 .. n + 1 /\ \A k \in 1 .. n : k + 1 \in 1 .. n + 1 /\ k + 1 # 1
  OBVIOUS
<1>4. ASSUME NEW e \in b
      PROVE  e = [at |-> e.at, reads |-> e.reads] /\ e.at \in T /\ e.reads \subseteq K
  <2>1. /\ e = [at |-> e.at, reads |-> e.reads] /\ e.at \in T
        /\ \A r \in e.reads : r \in K \/ \E j \in 1 .. 1 - 1 : CodedAt(B, j, r)
    BY <1>1, <1>2, <1>3
  <2>2. \A j : j \notin 1 .. 1 - 1
    OBVIOUS
  <2> QED
    BY <2>1, <2>2
<1>5. \A e, f \in b : e.at = f.at => e = f
  BY <1>1, <1>2, <1>3
<1>6. At(b) \subseteq T
  BY <1>4 DEF At
<1>7. \A q : CodedAt(B, 1, q) <=> q \in At(b)
  BY <1>1 DEF CodedAt, At
<1>8. \A k \in 1 .. n : \A q : CodedAt(R, k, q) <=> CodedAt(B, k + 1, q)
  BY <1>1 DEF CodedAt
<1>9. ASSUME NEW k \in 1 .. n, NEW e \in R[k]
      PROVE  /\ e = [at |-> e.at, reads |-> e.reads] /\ e.at \in T \ At(b)
             /\ \A r \in e.reads : r \in K \cup At(b) \/ \E j \in 1 .. k - 1 : CodedAt(R, j, r)
  <2> PICK h \in 1 .. n + 1 : h = k + 1
    BY <1>3
  <2>1. e \in B[h]
    BY <1>1
  <2>2. /\ e = [at |-> e.at, reads |-> e.reads] /\ e.at \in T
        /\ \A r \in e.reads : r \in K \/ \E j \in 1 .. h - 1 : CodedAt(B, j, r)
    BY <1>2, <2>1
  <2>3. e.at \notin At(b)
    <3> SUFFICES ASSUME NEW f \in b, f.at = e.at PROVE FALSE
      BY DEF At
    <3>1. f \in B[1]
      BY <1>1
    <3>2. h = 1
      BY <1>2, <1>3, <2>1, <3>1
    <3> QED
      BY <3>2
  <2>4. ASSUME NEW r \in e.reads, r \notin K \cup At(b) PROVE \E j \in 1 .. k - 1 : CodedAt(R, j, r)
    <3>1. PICK j \in 1 .. h - 1 : CodedAt(B, j, r)
      BY <2>2, <2>4
    <3>2. j # 1
      BY <1>7, <2>4, <3>1
    <3> PICK i \in 1 .. k - 1 : j = i + 1
      <4>1. j - 1 \in 1 .. k - 1 /\ j = (j - 1) + 1
        BY <3>2
      <4> QED
        BY <4>1
    <3>3. i \in 1 .. n
      OBVIOUS
    <3>4. CodedAt(R, i, r)
      BY <1>8, <3>1, <3>3
    <3> QED
      BY <3>4
  <2> QED
    BY <2>2, <2>3, <2>4
<1>10. ASSUME NEW q \in T \ At(b) PROVE \E k \in 1 .. n : CodedAt(R, k, q)
  <2>1. PICK j \in 1 .. n + 1 : CodedAt(B, j, q)
    BY <1>2
  <2>2. j # 1
    BY <1>7, <2>1
  <2> PICK i \in 1 .. n : j = i + 1
    <3>1. j - 1 \in 1 .. n /\ j = (j - 1) + 1
      BY <2>2
    <3> QED
      BY <3>1
  <2> QED
    BY <1>8, <2>1
<1>11. ASSUME NEW j \in 1 .. n, NEW k \in 1 .. n, NEW e \in R[j], NEW f \in R[k], e.at = f.at
       PROVE  j = k /\ e = f
  <2> PICK x \in 1 .. n + 1 : x = j + 1
    BY <1>3
  <2> PICK y \in 1 .. n + 1 : y = k + 1
    BY <1>3
  <2>1. e \in B[x] /\ f \in B[y]
    BY <1>1
  <2>2. x = y /\ e = f
    BY <1>2, <1>11, <2>1
  <2> QED
    BY <2>2
<1>12. Fills(R, K \cup At(b), T \ At(b))
  BY <1>1, <1>9, <1>10, <1>11, Zenon DEF Fills
<1> QED
  BY <1>4, <1>5, <1>6, <1>12 DEF PartOf

\* Without batches there is nothing to fill.
LEMMA NothingFilled ==
  ASSUME NEW B, NEW K, NEW T, Fills(B, K, T), B = <<>>
  PROVE  T = {}
<1>1. Len(B) = 0
  BY ListsAre
<1>2. \A k : k \notin 1 .. 0
  OBVIOUS
<1> QED
  BY <1>1, <1>2 DEF Fills
=============================================================================
