---------------------------- MODULE UtilsProofs -----------------------------
(***************************************************************************)
(* Lemmas about the operators of Utils: powers of two, bits and rows, and  *)
(* sorted slices.  They hold for all numbers of rows and leaves below a    *)
(* bound N for which Powers(N) is assumed.                                 *)
(***************************************************************************)
EXTENDS Utils, WellFoundedInduction, FiniteSetTheorems, TLAPS

(***************************************************************************)
(* A set of natural numbers that is not empty has a least member.  An      *)
(* induction over a number is a proof by contradiction from the least      *)
(* number for which the claim fails.                                       *)
(***************************************************************************)
LEMMA Least ==
  ASSUME NEW T \in SUBSET Nat, T # {}
  PROVE  \E x \in T : \A y \in T : x <= y
<1>1. IsWellFoundedOn(OpToRel(<, Nat), Nat)
  BY NatLessThanWellFounded
<1>2. PICK x \in T : \A y \in T : ~ (<<y, x>> \in OpToRel(<, Nat))
  BY <1>1, WFMin, T \subseteq Nat, Zenon
<1>3. \A y \in T : ~ (y < x)
  BY <1>2 DEF OpToRel
<1> QED
  BY <1>3

(***************************************************************************)
(* 2^k is 1 when k is 0, where k is a variable of the proof.               *)
(***************************************************************************)
LEMMA PowerZero ==
  ASSUME NEW k, k = 0
  PROVE  2^k = 1
OBVIOUS

(***************************************************************************)
(* A power of two is a positive number.                                    *)
(***************************************************************************)
LEMMA PowerPositive ==
  ASSUME NEW N \in Nat, Powers(N), NEW k \in 0..(N + 1)
  PROVE  2^k \in Nat /\ 2^k >= 1
<1> DEFINE T == {j \in 0..(N + 1) : ~ (2^j \in Nat /\ 2^j >= 1)}
<1> SUFFICES ASSUME T # {} PROVE FALSE
  OBVIOUS
<1>1. PICK x \in T : \A y \in T : x <= y
  BY Least, T \subseteq Nat
<1>2. CASE x = 0
  BY <1>1, <1>2
<1>3. CASE x # 0
  <2>1. x - 1 \in 0..N /\ x - 1 \notin T
    BY <1>1, <1>3
  <2>2. 2^(x - 1) \in Nat /\ 2^(x - 1) >= 1 /\ 2^((x - 1) + 1) = 2 * 2^(x - 1)
    BY <2>1 DEF Powers
  <2>3. (x - 1) + 1 = x
    BY <1>1
  <2> QED
    BY <1>1, <2>2, <2>3
<1> QED
  BY <1>2, <1>3

(***************************************************************************)
(* A shift by a + b bits is a shift by a and a shift by b bits.            *)
(***************************************************************************)
LEMMA PowerSum ==
  ASSUME NEW N \in Nat, Powers(N), NEW a \in Nat, NEW b \in Nat, a + b <= N + 1
  PROVE  2^(a + b) = 2^a * 2^b
<1> DEFINE T == {j \in 0..b : ~ (2^(a + j) = 2^a * 2^j)}
<1> SUFFICES ASSUME T # {} PROVE FALSE
  OBVIOUS
<1>1. PICK x \in T : \A y \in T : x <= y
  BY Least, T \subseteq Nat
<1>0. 2^a \in Nat
  BY PowerPositive
<1>2. CASE x = 0
  BY <1>0, <1>1, <1>2
<1>3. CASE x # 0
  <2> DEFINE y == x - 1
  <2>1. y \in 0..N /\ y \notin T /\ y \in 0..b /\ a + y \in 0..N /\ y + 1 = x /\ (a + y) + 1 = a + x
    BY <1>1, <1>3
  <2>2. 2^(a + y) = 2^a * 2^y
    BY <2>1
  <2>3. 2^y \in Nat /\ 2^(y + 1) = 2 * 2^y /\ 2^(a + y) \in Nat /\ 2^((a + y) + 1) = 2 * 2^(a + y)
    BY <2>1 DEF Powers
  <2> HIDE DEF y
  <2>4. 2^(a + x) = 2^a * 2^x
    BY <1>0, <2>1, <2>2, <2>3
  <2> QED
    BY <1>1, <2>4
<1> QED
  BY <1>2, <1>3

(***************************************************************************)
(* Powers of two grow with the exponent, by a factor of two at least.      *)
(***************************************************************************)
LEMMA PowerMonotone ==
  ASSUME NEW N \in Nat, Powers(N), NEW a \in Nat, NEW b \in 0..(N + 1)
  PROVE  /\ a <= b => 2^a <= 2^b
         /\ a < b => 2 * 2^a <= 2^b
<1>1. ASSUME a <= b
      PROVE  2^a <= 2^b
  <2>1. b - a \in 0..(N + 1) /\ a \in 0..(N + 1) /\ a + (b - a) = b
    BY <1>1
  <2>2. 2^b = 2^a * 2^(b - a)
    BY <2>1, PowerSum
  <2>3. 2^a \in Nat /\ 2^(b - a) \in Nat /\ 2^(b - a) >= 1
    BY <2>1, PowerPositive
  <2> QED
    BY <2>2, <2>3
<1>2. ASSUME a < b
      PROVE  2 * 2^a <= 2^b
  <2>1. a \in 0..N /\ b - (a + 1) \in 0..(N + 1) /\ (a + 1) + (b - (a + 1)) = b
    BY <1>2
  <2>2. 2^b = 2^(a + 1) * 2^(b - (a + 1))
    BY <2>1, PowerSum
  <2>3. 2^(a + 1) \in Nat /\ 2^(b - (a + 1)) \in Nat /\ 2^(b - (a + 1)) >= 1 /\ 2^(a + 1) = 2 * 2^a
    BY <2>1, PowerPositive DEF Powers
  <2> QED
    BY <2>2, <2>3
<1> QED
  BY <1>1, <1>2

(***************************************************************************)
(* A number is less than the power of two it is the exponent of: a forest  *)
(* has fewer rows than leaves.                                             *)
(***************************************************************************)
LEMMA PowerBig ==
  ASSUME NEW N \in Nat, Powers(N), NEW k \in 0..(N + 1)
  PROVE  k < 2^k
<1> DEFINE T == {j \in 0..(N + 1) : ~ (j < 2^j)}
<1> SUFFICES ASSUME T # {} PROVE FALSE
  OBVIOUS
<1>1. PICK x \in T : \A y \in T : x <= y
  BY Least, T \subseteq Nat
<1>2. CASE x = 0
  BY <1>1, <1>2
<1>3. CASE x # 0
  <2> DEFINE y == x - 1
  <2>1. y \in 0..N /\ y \notin T /\ y + 1 = x
    BY <1>1, <1>3
  <2>2. 2^y \in Nat /\ y < 2^y /\ 2^(y + 1) = 2 * 2^y
    BY <2>1 DEF Powers
  <2> HIDE DEF y
  <2>3. x < 2^x
    BY <2>1, <2>2
  <2> QED
    BY <1>1, <2>3
<1> QED
  BY <1>2, <1>3

(***************************************************************************)
(* Quotient and remainder are the only pair with x = q * b + r and r < b.  *)
(***************************************************************************)
LEMMA DivideWhole ==
  ASSUME NEW b \in Nat, b > 0, NEW q \in Int, NEW r \in 0..(b - 1), NEW x \in Int,
         x = q * b + r
  PROVE  x \div b = q /\ x % b = r
OBVIOUS

(***************************************************************************)
(* Quotient and remainder of a natural number.                             *)
(***************************************************************************)
LEMMA Divided ==
  ASSUME NEW b \in Nat, b > 0, NEW x \in Nat
  PROVE  /\ x = (x \div b) * b + (x % b)
         /\ x % b \in 0..(b - 1)
         /\ x \div b \in Nat
OBVIOUS

(***************************************************************************)
(* The multiples of b up to x are those of the numbers up to x \div b.     *)
(***************************************************************************)
LEMMA Multiples ==
  ASSUME NEW b \in Nat, b > 0, NEW x \in Nat, NEW c \in Nat
  PROVE  c * b <= x <=> c <= x \div b
<1> DEFINE q == x \div b
           r == x % b
<1>1. x = q * b + r /\ r \in 0..(b - 1) /\ q \in Nat
  BY Divided
<1> HIDE DEF q, r
<1>2. ASSUME c <= q PROVE c * b <= x
  <2>1. c * b <= q * b
    BY <1>1, <1>2
  <2>2. c * b \in Nat /\ q * b \in Nat
    BY <1>1
  <2> QED
    BY <1>1, <2>1, <2>2
<1>3. ASSUME ~ (c <= q) PROVE ~ (c * b <= x)
  <2>1. (q + 1) * b <= c * b
    BY <1>1, <1>3
  <2>2. (q + 1) * b = q * b + b /\ c * b \in Nat /\ q * b \in Nat
    BY <1>1
  <2> QED
    BY <1>1, <2>1, <2>2
<1> QED
  BY <1>2, <1>3 DEF q

(***************************************************************************)
(* Shifting right twice is shifting right by both.                         *)
(***************************************************************************)
LEMMA DivideTwice ==
  ASSUME NEW a \in Nat, a > 0, NEW b \in Nat, b > 0, NEW x \in Nat
  PROVE  (x \div a) \div b = x \div (a * b)
<1> DEFINE q == x \div a
           r == x % a
           q2 == q \div b
           r2 == q % b
<1>1. x = q * a + r /\ r \in 0..(a - 1) /\ q \in Nat
  BY Divided
<1>2. q = q2 * b + r2 /\ r2 \in 0..(b - 1) /\ q2 \in Nat
  BY <1>1, Divided
<1> HIDE DEF q, r, q2, r2
<1>3. x = q2 * (a * b) + (r2 * a + r)
  BY <1>1, <1>2
<1>4. r2 * a + r \in 0..(a * b - 1)
  <2>1. r2 * a <= (b - 1) * a
    BY <1>2
  <2>2. (b - 1) * a = a * b - a
    BY <1>2
  <2>3. r2 * a \in Nat /\ a * b \in Nat
    BY <1>2
  <2> QED
    BY <1>1, <2>1, <2>2, <2>3
<1>5. a * b \in Nat /\ a * b > 0
  OBVIOUS
<1>6. x \div (a * b) = q2
  BY <1>2, <1>3, <1>4, <1>5, DivideWhole
<1> QED
  BY <1>6 DEF q2, q

(***************************************************************************)
(* A multiple of b does not show in the remainder.                         *)
(***************************************************************************)
LEMMA AddMultiple ==
  ASSUME NEW b \in Nat, b > 0, NEW c \in Int, NEW x \in Nat
  PROVE  (c * b + x) % b = x % b
<1> DEFINE q == x \div b
           m == x % b
           y == c * b + x
<1>1. x = q * b + m /\ m \in 0..(b - 1) /\ q \in Nat
  BY Divided
<1> HIDE DEF q, m
<1>2. y = (c + q) * b + m /\ y \in Int /\ c + q \in Int
  BY <1>1
<1> HIDE DEF y
<1>3. y % b = m
  BY <1>1, <1>2, DivideWhole
<1> QED
  BY <1>3 DEF y, m

(***************************************************************************)
(* Min, which is defined by CHOOSE, is the least member.                   *)
(***************************************************************************)
LEMMA MinOf ==
  ASSUME NEW S \in SUBSET Nat, S # {}
  PROVE  Min(S) \in S /\ \A y \in S : Min(S) <= y
<1>1. \E x \in S : \A y \in S : x <= y
  BY Least
<1> QED
  BY <1>1 DEF Min

(***************************************************************************)
(* Max, which is defined by CHOOSE, is the greatest member.                *)
(***************************************************************************)
LEMMA MaxOf ==
  ASSUME NEW S \in SUBSET Nat, NEW t \in S, \A y \in S : y <= t
  PROVE  Max(S) = t
<1>1. t >= t /\ \A y \in S : t >= y
  OBVIOUS
<1>2. Max(S) \in S /\ \A y \in S : Max(S) >= y
  BY <1>1 DEF Max
<1>3. Max(S) \in Nat /\ t \in Nat /\ Max(S) <= t /\ t <= Max(S)
  BY <1>2
<1> QED
  BY <1>3

(***************************************************************************)
(* Two sets with a one-to-one function from one onto the other have the    *)
(* same number of members.                                                 *)
(***************************************************************************)
LEMMA SameCount ==
  ASSUME NEW S, IsFiniteSet(S), NEW T, NEW f \in [S -> T],
         \A x, y \in S : f[x] = f[y] => x = y,
         \A t \in T : \E s \in S : f[s] = t
  PROVE  IsFiniteSet(T) /\ Cardinality(T) = Cardinality(S)
<1>1. f \in Bijection(S, T)
  BY DEF Bijection, Injection, Surjection, IsInjective
<1>2. ExistsBijection(S, T)
  BY <1>1 DEF ExistsBijection
<1> QED
  BY <1>2, FS_Bijection

(***************************************************************************)
(* treeRows(n) is the least number of rows of a perfect tree with room for *)
(* n leaves, and it is at most n.                                          *)
(***************************************************************************)
LEMMA TreeRows ==
  ASSUME NEW N \in Nat, Powers(N), NEW n \in 0..(N + 1)
  PROVE  /\ treeRows(n) \in 0..n
         /\ n <= 2^treeRows(n)
         /\ \A r \in 0..(N + 1) : n <= 2^r => treeRows(n) <= r
<1>1. CASE n = 0
  BY <1>1 DEF treeRows
<1>2. CASE n # 0
  <2> DEFINE S == {r \in 0..n : 2^r >= n}
  <2>1. 2^n \in Nat /\ n < 2^n
    BY PowerPositive, PowerBig
  <2>2. n \in S
    BY <2>1
  <2>3. Min(S) \in S /\ \A y \in S : Min(S) <= y
    BY <2>2, MinOf, S \subseteq Nat
  <2>4. treeRows(n) = Min(S)
    BY <1>2 DEF treeRows
  <2>5. ASSUME NEW r \in 0..(N + 1), n <= 2^r
        PROVE  treeRows(n) <= r
    <3>1. 2^r \in Nat
      BY PowerPositive
    <3>2. CASE r <= n
      BY <3>1, <3>2, <2>5, <2>3, <2>4
    <3>3. CASE r > n
      BY <3>3, <2>3, <2>4
    <3> QED
      BY <3>2, <3>3
  <2>6. 2^Min(S) \in Nat
    BY <2>3, PowerPositive
  <2> QED
    BY <2>3, <2>4, <2>5, <2>6
<1> QED
  BY <1>1, <1>2

(***************************************************************************)
(* What rootExistsOnRow looks at: a bit of x is what the shift to it has   *)
(* and the next shift has lost.                                            *)
(***************************************************************************)
LEMMA BitOf ==
  ASSUME NEW N \in Nat, Powers(N), NEW k \in 0..N, NEW x \in Nat
  PROVE  /\ x \div 2^k \in Nat
         /\ Bit(x, k) \in {0, 1}
         /\ x \div 2^k = 2 * (x \div 2^(k + 1)) + Bit(x, k)
<1>1. 2^k \in Nat /\ 2^k > 0 /\ 2^(k + 1) = 2 * 2^k
  BY PowerPositive DEF Powers
<1>2. x \div 2^k \in Nat
  BY <1>1, Divided
<1>3. (x \div 2^k) \div 2 = x \div (2^k * 2)
  BY <1>1, DivideTwice
<1>4. 2^k * 2 = 2^(k + 1)
  BY <1>1
<1> DEFINE q == x \div 2^k
<1>5. q \in Nat /\ q \div 2 = x \div 2^(k + 1) /\ Bit(x, k) = q % 2
  BY <1>2, <1>3, <1>4 DEF Bit
<1> HIDE DEF q
<1>6. q = 2 * (q \div 2) + (q % 2) /\ q % 2 \in {0, 1}
  BY <1>5
<1> QED
  BY <1>5, <1>6 DEF q

(***************************************************************************)
(* An index around bit level: the bits above, the bit, and the bits below  *)
(* it.  calcNextPosition takes the bit out, calcPrevPosition puts it in.   *)
(***************************************************************************)
LEMMA SplitIndex ==
  ASSUME NEW N \in Nat, Powers(N), NEW level \in 0..N, NEW i \in Nat
  PROVE  LET b == 2^level
             q == i \div 2^(level + 1)
             e == (i \div b) % 2
             m == i % b
         IN  /\ b \in Nat /\ b > 0 /\ 2^(level + 1) = 2 * b
             /\ q \in Nat /\ e \in {0, 1} /\ m \in 0..(b - 1)
             /\ i = (2 * q + e) * b + m
             /\ i \div b = 2 * q + e
             /\ (i \div b) \div 2 = q
<1> DEFINE b == 2^level
           d == i \div b
           q == i \div 2^(level + 1)
           e == d % 2
           m == i % b
<1>1. b \in Nat /\ b > 0 /\ 2^(level + 1) = 2 * b /\ 2 * b = b * 2
  BY PowerPositive DEF Powers
<1>2. i = d * b + m /\ m \in 0..(b - 1) /\ d \in Nat
  BY <1>1, Divided
<1>3. q = d \div 2
  <2>1. (i \div b) \div 2 = i \div (b * 2)
    BY <1>1, DivideTwice
  <2> QED
    BY <1>1, <2>1
<1>4. d = 2 * q + e /\ e \in {0, 1} /\ q \in Nat
  <2> HIDE DEF d
  <2> QED
    BY <1>2, <1>3
<1>5. i = (2 * q + e) * b + m /\ i \div b = 2 * q + e /\ (i \div b) \div 2 = q
  BY <1>2, <1>3, <1>4
<1> QED
  BY <1>1, <1>2, <1>4, <1>5

(***************************************************************************)
(* The test of detectOffset, the bits of a position up to bit t masked and *)
(* compared with 2^t, is a look at bit t.                                  *)
(***************************************************************************)
LEMMA LowHalf ==
  ASSUME NEW N \in Nat, Powers(N), NEW t \in 0..N, NEW x \in Nat
  PROVE  x % 2^(t + 1) < 2^t <=> Bit(x, t) = 0
<1> DEFINE b == 2^t
           q == x \div 2^(t + 1)
           e == (x \div b) % 2
           m == x % b
<1>1. /\ b \in Nat /\ b > 0 /\ 2^(t + 1) = 2 * b
      /\ q \in Nat /\ e \in {0, 1} /\ m \in 0..(b - 1)
      /\ x = (2 * q + e) * b + m
  BY SplitIndex
<1>2. Bit(x, t) = e
  BY DEF Bit
<1> HIDE DEF b, q, e, m
<1>3. x = q * (2 * b) + (e * b + m) /\ e * b + m \in 0..(2 * b - 1) /\ 2 * b \in Nat /\ 2 * b > 0
  <2>1. CASE e = 0
    BY <1>1, <2>1
  <2>2. CASE e = 1
    BY <1>1, <2>2
  <2> QED
    BY <1>1, <2>1, <2>2
<1>4. x % (2 * b) = e * b + m
  <2> DEFINE c == 2 * b
             w == e * b + m
  <2>1. c \in Nat /\ c > 0 /\ w \in 0..(c - 1) /\ x = q * c + w /\ q \in Int /\ x \in Int
    BY <1>1, <1>3
  <2> HIDE DEF c, w
  <2>2. x % c = w
    BY <2>1, DivideWhole
  <2> QED
    BY <2>2 DEF c, w
<1>5. e * b + m < b <=> e = 0
  BY <1>1
<1> QED
  BY <1>1, <1>2, <1>4, <1>5 DEF b

(***************************************************************************)
(* Ascending(S), which is defined by counting, is the finite set S as a    *)
(* strictly increasing sequence: the sorted slices of the code.            *)
(***************************************************************************)
LEMMA AscendingIs ==
  ASSUME NEW S \in SUBSET Int, IsFiniteSet(S)
  PROVE  LET s == Ascending(S)
             c == Cardinality(S)
         IN  /\ c \in Nat /\ DOMAIN s = 1..c
             /\ \A i \in 1..c : s[i] \in S
             /\ \A i, j \in 1..c : i < j => s[i] < s[j]
             /\ \A x \in S : \E i \in 1..c : s[i] = x
<1> DEFINE s == Ascending(S)
           c == Cardinality(S)
           below(x) == {y \in S : y < x}
           rank == [x \in S |-> Cardinality(below(x))]
<1>1. c \in Nat /\ DOMAIN s = 1..c
  BY FS_CardinalityType DEF Ascending
<1>2. ASSUME NEW x \in S
      PROVE  IsFiniteSet(below(x)) /\ rank[x] \in 0..(c - 1)
  <2>1. below(x) \in SUBSET S /\ x \notin below(x)
    OBVIOUS
  <2>2. IsFiniteSet(below(x)) /\ Cardinality(below(x)) <= c /\ (c = Cardinality(below(x)) => S = below(x))
    BY <2>1, FS_Subset
  <2>3. Cardinality(below(x)) \in Nat
    BY <2>2, FS_CardinalityType
  <2> QED
    BY <1>1, <2>1, <2>2, <2>3
<1>3. ASSUME NEW x \in S, NEW y \in S, x < y
      PROVE  rank[x] < rank[y]
  <2>0. x \in Int /\ y \in Int
    OBVIOUS
  <2>1. below(x) \in SUBSET below(y) /\ x \in below(y) /\ x \notin below(x)
    <3>1. \A z \in below(x) : z \in S /\ z \in Int /\ z < x
      OBVIOUS
    <3>2. \A z \in below(x) : z < y
      BY <1>3, <2>0, <3>1
    <3>3. x \in below(y) /\ x \notin below(x)
      BY <1>3, <2>0
    <3>4. \A z \in below(x) : z \in below(y)
      BY <3>1, <3>2
    <3> QED
      BY <3>3, <3>4
  <2>2. /\ Cardinality(below(x)) <= Cardinality(below(y))
        /\ (Cardinality(below(y)) = Cardinality(below(x)) => below(y) = below(x))
    BY <1>2, <2>1, FS_Subset
  <2>3. rank[x] \in Nat /\ rank[y] \in Nat
    <3>1. rank[x] \in 0..(c - 1) /\ rank[y] \in 0..(c - 1)
      BY <1>2
    <3> HIDE DEF rank
    <3> QED
      BY <1>1, <3>1
  <2> QED
    BY <2>1, <2>2, <2>3
<1>4. \A x, y \in S : rank[x] = rank[y] => x = y
  <2> SUFFICES ASSUME NEW x \in S, NEW y \in S, x # y PROVE rank[x] # rank[y]
    OBVIOUS
  <2>1. rank[x] \in Nat /\ rank[y] \in Nat
    <3>1. rank[x] \in 0..(c - 1) /\ rank[y] \in 0..(c - 1)
      BY <1>2
    <3> HIDE DEF rank
    <3> QED
      BY <1>1, <3>1
  <2>2. x < y \/ y < x
    OBVIOUS
  <2> HIDE DEF rank
  <2> QED
    BY <1>3, <2>1, <2>2
<1>5. \A k \in 0..(c - 1) : \E x \in S : rank[x] = k
  <2>1. IsFiniteSet(0..(c - 1)) /\ Cardinality(0..(c - 1)) = c
    <3> HIDE DEF c
    <3>1. 0 \in Int /\ c - 1 \in Int /\ (0 > c - 1 <=> c = 0) /\ (c - 1) - 0 + 1 = c
      BY <1>1
    <3> QED
      BY <1>1, <3>1, FS_Interval
  <2>2. rank \in [S -> 0..(c - 1)]
    <3>1. rank = [x \in S |-> rank[x]]
      OBVIOUS
    <3> HIDE DEF rank
    <3> QED
      BY <1>2, <3>1
  <2>3. rank \in Injection(S, 0..(c - 1))
    <3> HIDE DEF rank
    <3> QED
      BY <1>4, <2>2 DEF Injection, IsInjective
  <2>4. rank \in Surjection(S, 0..(c - 1))
    <3> HIDE DEF rank
    <3> QED
      BY <2>1, <2>3, FS_Injection
  <2> HIDE DEF rank
  <2> QED
    BY <2>4 DEF Surjection
<1>6. ASSUME NEW i \in 1..c
      PROVE  s[i] \in S /\ rank[s[i]] = i - 1
  <2>1. i - 1 \in 0..(c - 1)
    BY <1>1
  <2>2. PICK x \in S : rank[x] = i - 1
    BY <1>5, <2>1
  <2>3. s[i] = CHOOSE x2 \in S : Cardinality({y \in S : y < x2}) = i - 1
    BY DEF Ascending
  <2>4. s[i] \in S /\ Cardinality({y \in S : y < s[i]}) = i - 1
    BY <2>2, <2>3
  <2> QED
    BY <2>4
<1>7. ASSUME NEW i \in 1..c, NEW j \in 1..c, i < j
      PROVE  s[i] < s[j]
  <2>1. s[i] \in S /\ s[j] \in S /\ rank[s[i]] = i - 1 /\ rank[s[j]] = j - 1
    BY <1>6
  <2>3. s[i] \in Int /\ s[j] \in Int /\ i - 1 < j - 1 /\ i - 1 \in Int /\ j - 1 \in Int
    <3>1. s[i] \in Int /\ s[j] \in Int
      BY <2>1
    <3> HIDE DEF s, c
    <3> QED
      BY <1>1, <1>7, <3>1
  <2> HIDE DEF rank, s
  <2>2. ~ (s[j] < s[i]) /\ s[i] # s[j]
    <3>1. s[j] < s[i] => j - 1 < i - 1
      BY <1>3, <2>1
    <3> QED
      BY <2>1, <2>3, <3>1
  <2> QED
    BY <2>2, <2>3
<1>8. ASSUME NEW x \in S
      PROVE  \E i \in 1..c : s[i] = x
  <2>1. rank[x] + 1 \in 1..c /\ (rank[x] + 1) - 1 = rank[x]
    <3>1. rank[x] \in 0..(c - 1)
      BY <1>2
    <3> HIDE DEF rank, c
    <3> QED
      BY <1>1, <3>1
  <2>2. s[rank[x] + 1] \in S /\ rank[s[rank[x] + 1]] = rank[x]
    BY <1>6, <2>1
  <2> HIDE DEF rank, s
  <2> QED
    BY <1>4, <2>1, <2>2
<1> QED
  BY <1>1, <1>6, <1>7, <1>8

(***************************************************************************)
(* A strictly increasing sequence is Ascending of its members.             *)
(***************************************************************************)
LEMMA AscendingUnique ==
  ASSUME NEW S \in SUBSET Int, NEW m \in Nat, NEW t \in [1..m -> S],
         \A i, j \in 1..m : i < j => t[i] < t[j],
         \A x \in S : \E i \in 1..m : t[i] = x
  PROVE  /\ IsFiniteSet(S) /\ Cardinality(S) = m
         /\ Ascending(S) = t
<1>1. IsFiniteSet(1..m) /\ Cardinality(1..m) = m
  BY FS_Interval
<1>2. \A i \in 1..m : t[i] \in S /\ t[i] \in Int
  OBVIOUS
<1>3. \A i, j \in 1..m : t[i] = t[j] => i = j
  BY <1>2
<1>4. IsFiniteSet(S) /\ Cardinality(S) = m
  BY <1>1, <1>3, SameCount
<1>5. ASSUME NEW i \in 1..m
      PROVE  Cardinality({y \in S : y < t[i]}) = i - 1
  <2> DEFINE B == {y \in S : y < t[i]}
             g == [k \in 1..(i - 1) |-> t[k]]
  <2>1. IsFiniteSet(1..(i - 1)) /\ Cardinality(1..(i - 1)) = i - 1
    <3>1. 1 \in Int /\ i - 1 \in Int /\ (1 > i - 1 <=> i - 1 = 0) /\ (i - 1) - 1 + 1 = i - 1
      OBVIOUS
    <3> QED
      BY <3>1, FS_Interval
  <2>2. g \in [1..(i - 1) -> B]
    OBVIOUS
  <2>3. \A k, l \in 1..(i - 1) : g[k] = g[l] => k = l
    BY <1>3
  <2>4. ASSUME NEW y \in B PROVE \E k \in 1..(i - 1) : g[k] = y
    <3>1. PICK k \in 1..m : t[k] = y
      OBVIOUS
    <3>2. k < i
      <4>1. t[k] < t[i] /\ t[k] \in Int /\ t[i] \in Int
        BY <3>1
      <4>2. k # i /\ ~ (i < k)
        BY <4>1
      <4> QED
        BY <4>2
    <3> QED
      BY <3>1, <3>2
  <2> HIDE DEF g, B
  <2>5. Cardinality(B) = i - 1
    BY <2>1, <2>2, <2>3, <2>4, SameCount
  <2> QED
    BY <2>5 DEF B
<1>6. ASSUME NEW i \in 1..m
      PROVE  (CHOOSE x \in S : Cardinality({y \in S : y < x}) = i - 1) = t[i]
  <2> DEFINE z == CHOOSE x \in S : Cardinality({y \in S : y < x}) = i - 1
  <2>1. t[i] \in S /\ Cardinality({y \in S : y < t[i]}) = i - 1
    BY <1>5
  <2>2. z \in S /\ Cardinality({y \in S : y < z}) = i - 1
    BY <2>1
  <2> HIDE DEF z
  <2>3. PICK k \in 1..m : t[k] = z
    BY <2>2
  <2>4. k - 1 = i - 1
    BY <1>5, <2>2, <2>3
  <2>5. k = i
    BY <2>4
  <2> QED
    BY <2>3, <2>5 DEF z
<1> QED
  BY <1>4, <1>6 DEF Ascending

(***************************************************************************)
(* RootRows lists the rows that have a root, once each, highest first: the *)
(* order of Stump.Roots and of RootPositions.                              *)
(***************************************************************************)
LEMMA RootRowsIs ==
  ASSUME NEW N \in Nat, Powers(N), NEW n \in 0..N
  PROVE  LET s == RootRows(n)
             c == Len(s)
             S == {h \in 0..treeRows(n) : rootExistsOnRow(n, h)}
         IN  /\ IsFiniteSet(S) /\ c = Cardinality(S) /\ c \in Nat
             /\ DOMAIN s = 1..c
             /\ \A i \in 1..c : s[i] \in S
             /\ \A i, j \in 1..c : i < j => s[j] < s[i]
             /\ \A x \in S : \E i \in 1..c : s[i] = x
<1> DEFINE S == {h \in 0..treeRows(n) : rootExistsOnRow(n, h)}
           c == Cardinality(S)
           up == Ascending(S)
           s == RootRows(n)
<1>1. treeRows(n) \in 0..N
  BY TreeRows
<1>2. S \in SUBSET Int /\ IsFiniteSet(S)
  <2>1. IsFiniteSet(0..treeRows(n))
    BY <1>1, FS_Interval
  <2>2. S \in SUBSET (0..treeRows(n))
    OBVIOUS
  <2>3. S \in SUBSET Int
    BY <1>1
  <2> QED
    BY <2>1, <2>2, <2>3, FS_Subset
<1> HIDE DEF S
<1>3. /\ c \in Nat /\ DOMAIN up = 1..c
      /\ \A i \in 1..c : up[i] \in S
      /\ \A i, j \in 1..c : i < j => up[i] < up[j]
      /\ \A x \in S : \E i \in 1..c : up[i] = x
  BY <1>2, AscendingIs
<1>4. up \in Seq(S) /\ Len(up) = c
  <2>1. up = [i \in 1..c |-> up[i]]
    BY <1>3 DEF Ascending
  <2> HIDE DEF up, c
  <2> QED
    BY <1>3, <2>1
<1> HIDE DEF up, c
<1>5. s = [i \in 1..c |-> up[c + 1 - i]]
  BY <1>4 DEF RootRows, S, up
<1> HIDE DEF s
<1>6. \A i \in 1..c : c + 1 - i \in 1..c /\ s[i] = up[c + 1 - i] /\ s[i] \in S
  BY <1>3, <1>5
<1>7. s \in Seq(S) /\ Len(s) = c /\ DOMAIN s = 1..c
  <2>1. s = [i \in 1..c |-> s[i]]
    BY <1>5
  <2> QED
    BY <1>3, <1>6, <2>1
<1>8. \A i, j \in 1..c : i < j => s[j] < s[i]
  BY <1>3, <1>6
<1>9. \A x \in S : \E i \in 1..c : s[i] = x
  <2> TAKE x \in S
  <2>1. PICK i \in 1..c : up[i] = x
    BY <1>3
  <2>2. c + 1 - i \in 1..c /\ c + 1 - (c + 1 - i) = i
    BY <1>3
  <2> QED
    BY <1>6, <2>1, <2>2
<1> QED
  BY <1>2, <1>3, <1>6, <1>7, <1>8, <1>9 DEF S, c, s

(***************************************************************************)
(* The least member of a set of numbers, once it is known.                 *)
(***************************************************************************)
LEMMA MinIs ==
  ASSUME NEW S \in SUBSET Nat, NEW t \in S, \A y \in S : t <= y
  PROVE  Min(S) = t
<1>1. Min(S) \in S /\ \A y \in S : Min(S) <= y
  BY MinOf
<1>2. Min(S) <= t /\ t <= Min(S) /\ Min(S) \in Nat /\ t \in Nat
  BY <1>1
<1> QED
  BY <1>2

(***************************************************************************)
(* Two slices of the same length with the same elements are the same.      *)
(***************************************************************************)
LEMMA SeqsEqual ==
  ASSUME NEW A, NEW B, NEW s \in Seq(A), NEW t \in Seq(B), Len(s) = Len(t),
         \A i \in 1..Len(s) : s[i] = t[i]
  PROVE  s = t
OBVIOUS

(***************************************************************************)
(* A loop that is run m times: a step from a value of S[k - 1] leads to a  *)
(* value of S[k].                                                          *)
(***************************************************************************)
Steps(m, S, step) == \A k \in 1..m : \A x \in S[k - 1] : step[k][x] \in S[k]

Iteration(m, S, init, step, g) ==
  /\ DOMAIN g = 0..m /\ g[0] = init
  /\ g = [k \in 0..m |-> g[k]]
  /\ \A k \in 0..m : g[k] \in S[k]
  /\ \A k \in 1..m : g[k] = step[k][g[k - 1]]

(***************************************************************************)
(* The values of such a loop exist: the recursive functions that loops are *)
(* written as are defined.                                                 *)
(***************************************************************************)
LEMMA Iterated ==
  ASSUME NEW m \in Nat, NEW S, NEW init \in S[0], NEW step, Steps(m, S, step)
  PROVE  \E g : Iteration(m, S, init, step, g)
<1> USE DEF Steps, Iteration
<1> DEFINE Good(j, g) == /\ DOMAIN g = 0..j /\ g[0] = init
                         /\ g = [k \in 0..j |-> g[k]]
                         /\ \A k \in 0..j : g[k] \in S[k]
                         /\ \A k \in 1..j : g[k] = step[k][g[k - 1]]
           T == {j \in 0..m : ~ \E g : Good(j, g)}
<1> SUFFICES ASSUME T # {} PROVE FALSE
  OBVIOUS
<1>0. T \subseteq Nat
  OBVIOUS
<1>1. \A j \in T : j \in 0..m /\ ~ \E g : Good(j, g)
  OBVIOUS
<1>2. \A j \in 0..m : j \notin T => \E g : Good(j, g)
  OBVIOUS
<1> HIDE DEF T
<1>3. PICK j \in T : \A y \in T : j <= y
  BY <1>0, Least
<1>4. CASE j = 0
  <2> DEFINE g == [k \in 0..0 |-> init]
  <2>1. Good(0, g)
    OBVIOUS
  <2> HIDE DEF Good, g
  <2> QED
    BY <1>1, <1>3, <1>4, <2>1
<1>5. CASE j # 0
  <2>1. j \in 1..m /\ j - 1 \in 0..m /\ j - 1 \notin T
    BY <1>0, <1>1, <1>3, <1>5
  <2>2. PICK f : Good(j - 1, f)
    BY <1>2, <2>1
  <2> DEFINE g == [k \in 0..j |-> IF k = j THEN step[j][f[j - 1]] ELSE f[k]]
  <2>3. \A k \in 0..(j - 1) : g[k] = f[k] /\ f[k] \in S[k]
    BY <2>1, <2>2
  <2>4. g[j] = step[j][f[j - 1]] /\ f[j - 1] \in S[j - 1]
    BY <2>1, <2>2
  <2>5. g[j] \in S[j]
    BY <2>1, <2>4
  <2>6. DOMAIN g = 0..j /\ g = [k \in 0..j |-> g[k]]
    OBVIOUS
  <2>7. g[0] = init
    BY <2>1, <2>2, <2>3
  <2>8. \A k \in 0..j : g[k] \in S[k]
    <3> TAKE k \in 0..j
    <3>1. k = j \/ k \in 0..(j - 1)
      BY <2>1
    <3> HIDE DEF g
    <3> QED
      BY <2>3, <2>5, <3>1
  <2>9. \A k \in 1..j : g[k] = step[k][g[k - 1]]
    <3> TAKE k \in 1..j
    <3>1. k - 1 \in 0..(j - 1) /\ (k = j \/ k \in 1..(j - 1)) /\ k - 1 \in 0..m
      BY <2>1
    <3>2. g[k - 1] = f[k - 1]
      <4> HIDE DEF g
      <4> QED
        BY <2>3, <3>1
    <3>3. CASE k = j
      <4> HIDE DEF g
      <4> QED
        BY <2>4, <3>2, <3>3
    <3>4. CASE k \in 1..(j - 1)
      <4>1. k \in 0..(j - 1)
        BY <3>4
      <4> HIDE DEF g
      <4> QED
        BY <2>2, <2>3, <3>2, <3>4, <4>1
    <3> QED
      BY <3>1, <3>3, <3>4
  <2> HIDE DEF g
  <2>10. Good(j, g)
    BY <2>6, <2>7, <2>8, <2>9
  <2> HIDE DEF Good
  <2> QED
    BY <1>1, <1>3, <2>10
<1> QED
  BY <1>4, <1>5

(***************************************************************************)
(* What holds before a loop and is kept by every turn of it holds after    *)
(* every turn.                                                             *)
(***************************************************************************)
LEMMA Inductive ==
  ASSUME NEW m \in Nat, NEW S, NEW e, e[0] \in S[0],
         \A k \in 1..m : e[k - 1] \in S[k - 1] => e[k] \in S[k]
  PROVE  \A k \in 0..m : e[k] \in S[k]
<1> DEFINE T == {k \in 0..m : e[k] \notin S[k]}
<1> SUFFICES ASSUME T # {} PROVE FALSE
  OBVIOUS
<1>1. /\ T \subseteq Nat /\ T \subseteq 0..m
      /\ \A k \in 0..m : k \notin T => e[k] \in S[k]
      /\ \A k \in T : e[k] \notin S[k]
  OBVIOUS
<1> HIDE DEF T
<1>2. PICK k \in T : \A y \in T : k <= y
  BY <1>1, Least
<1>3. k \in 0..m /\ k # 0
  BY <1>1
<1>4. PICK j \in 0..m : k = j + 1 /\ k - 1 = j /\ j \notin T
  BY <1>1, <1>2, <1>3
<1>5. k \in 1..m
  BY <1>3
<1> QED
  BY <1>1, <1>2, <1>4, <1>5

=============================================================================
