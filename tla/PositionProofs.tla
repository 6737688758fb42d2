--------------------------- MODULE PositionProofs ---------------------------
(***************************************************************************)
(* The position arithmetic of utils.go agrees with the tree, for a forest  *)
(* of any number of leaves.                                                *)
(*                                                                         *)
(* A position is the ones that tell its row, a zero, and the index of the  *)
(* node on that row.  The lemmas give what each function of the code does  *)
(* to row and index, and conclude that it is what the tree does.           *)
(***************************************************************************)
EXTENDS Positions, UtilsProofs

(***************************************************************************)
(* The first position of a row; row height + 1 is the end of the           *)
(* numbering.                                                              *)
(***************************************************************************)
Start(row, height) == 2^(height + 1) - 2^(height + 1 - row)

(***************************************************************************)
(* Number, the tree's count of the nodes of the rows below and of those to *)
(* the left, has the closed form Start(row) + index.                       *)
(***************************************************************************)
LEMMA NumberIs ==
  ASSUME NEW N \in Nat, Powers(N), NEW height \in 0..N, NEW nd, nd.row \in 0..(height + 1)
  PROVE  Number(nd, height) = Start(nd.row, height) + nd.index
<1> DEFINE D == 0..(height + 1)
           f == [r \in D |-> Start(r, height)]
           Eqn(g) == g = [r \in D |-> IF r = 0 THEN 0 ELSE g[r - 1] + 2^(height - r + 1)]
<1>1. ASSUME NEW r \in D
      PROVE  f[r] = IF r = 0 THEN 0 ELSE f[r - 1] + 2^(height - r + 1)
  <2>1. 2^(height + 1) \in Nat
    BY PowerPositive
  <2>2. CASE r = 0
    BY <2>1, <2>2 DEF Start
  <2>3. CASE r # 0
    <3>1. r - 1 \in D /\ height + 1 - r \in 0..N /\ height - r + 1 = height + 1 - r
          /\ height + 1 - (r - 1) = (height + 1 - r) + 1
      BY <2>3
    <3>2. 2^((height + 1 - r) + 1) = 2 * 2^(height + 1 - r) /\ 2^(height + 1 - r) \in Nat
      BY <3>1 DEF Powers
    <3>3. f[r] = 2^(height + 1) - 2^(height + 1 - r)
      BY DEF Start
    <3>4. f[r - 1] = 2^(height + 1) - 2^((height + 1 - r) + 1)
      BY <3>1 DEF Start
    <3> HIDE DEF f
    <3> QED
      BY <2>1, <2>3, <3>1, <3>2, <3>3, <3>4
  <2> QED
    BY <2>2, <2>3
<1>2. Eqn(f)
  BY <1>1
<1>3. ASSUME NEW g, Eqn(g)
      PROVE  g = f
  <2> DEFINE T == {r \in D : g[r] # f[r]}
  <2>1. SUFFICES ASSUME T # {} PROVE FALSE
    BY <1>3
  <2>2. PICK x \in T : \A y \in T : x <= y
    BY <2>1, Least, T \subseteq Nat
  <2>3. g[x] = IF x = 0 THEN 0 ELSE g[x - 1] + 2^(height - x + 1)
    BY <1>3, <2>2
  <2>4. x # 0 => x - 1 \in D /\ x - 1 \notin T
    BY <2>2
  <2> QED
    BY <1>1, <2>2, <2>3, <2>4
<1> HIDE DEF f
<1>4. Number(nd, height) = f[nd.row] + nd.index
  BY <1>2, <1>3 DEF Number
<1> QED
  BY <1>4 DEF f

(***************************************************************************)
(* The powers of two that go with a row r of a forest of R rows; the first *)
(* position of the row has r ones followed by zeros.                       *)
(***************************************************************************)
LEMMA Place ==
  ASSUME NEW N \in Nat, Powers(N), NEW R \in 0..N, NEW r \in 0..R
  PROVE  /\ 2^(R - r) \in Nat /\ 2^(R - r) > 0
         /\ 2^(R + 1 - r) = 2 * 2^(R - r)
         /\ 2^(R + 1) = 2 * 2^R
         /\ 2^R \in Nat
         /\ 2^r \in Nat /\ 2^r > 0
         /\ 2^R = 2^r * 2^(R - r)
         /\ 2^(R + 1) = (2^r * 2) * 2^(R - r)
         /\ Start(r, R) \in Nat
         /\ Start(r, R) = (2^(r + 1) - 2) * 2^(R - r)
         /\ 2^(r + 1) = 2 * 2^r
<1>1. r \in 0..N /\ R - r \in 0..N /\ R + 1 - r = (R - r) + 1 /\ r + (R - r) = R
  OBVIOUS
<1>2. /\ 2^(R - r) \in Nat /\ 2^(R - r) > 0
      /\ 2^(R + 1 - r) = 2 * 2^(R - r)
      /\ 2^(R + 1) = 2 * 2^R
      /\ 2^R \in Nat
      /\ 2^r \in Nat /\ 2^r > 0
      /\ 2^(r + 1) = 2 * 2^r
  BY <1>1, PowerPositive DEF Powers
<1>3. 2^R = 2^r * 2^(R - r)
  BY <1>1, PowerSum
<1>4. 2^(R + 1) = (2^r * 2) * 2^(R - r)
  BY <1>2, <1>3
<1>5. Start(r, R) = (2^(r + 1) - 2) * 2^(R - r)
  BY <1>2, <1>4 DEF Start
<1>6. 2^(r + 1) - 2 \in Nat
  BY <1>2
<1>7. Start(r, R) \in Nat
  BY <1>2, <1>5, <1>6
<1> QED
  BY <1>2, <1>3, <1>4, <1>5, <1>7

(***************************************************************************)
(* detectRow, which counts the ones that a position starts with, finds the *)
(* row of every position.                                                  *)
(***************************************************************************)
LEMMA RowFound ==
  ASSUME NEW N \in Nat, Powers(N), NEW R \in 0..N, NEW r \in 0..R,
         NEW i \in 0..(2^(R - r) - 1)
  PROVE  detectRow(Start(r, R) + i, R) = r
<1> DEFINE pos == Start(r, R) + i
           S == {h \in 0..R : \A j \in 0..h : Bit(pos, R - j) = 1}
<1>1. /\ 2^(R - r) \in Nat /\ 2^(R - r) > 0 /\ 2^(R + 1) = 2 * 2^R /\ 2^R \in Nat
      /\ Start(r, R) = (2^(r + 1) - 2) * 2^(R - r) /\ 2^(r + 1) = 2 * 2^r /\ 2^r \in Nat
      /\ Start(r, R) = 2^(R + 1) - 2 * 2^(R - r)
  BY Place DEF Start
<1>2. i \in Nat /\ i < 2^(R - r)
  BY <1>1
<1>3. ASSUME NEW j \in 0..(r - 1)
      PROVE  Bit(pos, R - j) = 1
  <2>1. j \in 0..R /\ R - j \in 0..(N + 1) /\ R - r < R - j /\ R - r \in Nat
    OBVIOUS
  <2>2. 2 * 2^(R - r) <= 2^(R - j) /\ 2^(R - j) \in Nat /\ 2^(R - j) > 0
    BY <2>1, PowerMonotone, PowerPositive
  <2>3. 2^(R + 1) = (2^j * 2) * 2^(R - j) /\ 2^j \in Nat
    BY <2>1, Place
  <2> DEFINE q == 2^j * 2 - 1
             b == 2^(R - j)
             rem == (b - 2 * 2^(R - r)) + i
  <2>4. rem \in 0..(b - 1) /\ q \in Int /\ b \in Nat /\ b > 0
    BY <1>1, <1>2, <2>2, <2>3
  <2>5. pos = q * b + rem
    <3>1. pos = (2^(R + 1) - 2 * 2^(R - r)) + i
      BY <1>1
    <3>2. q * b = 2^(R + 1) - b
      BY <2>2, <2>3
    <3> HIDE DEF q, pos
    <3> QED
      BY <3>1, <3>2, <2>2, <1>1, <1>2
  <2>6. pos \in Int
    BY <1>1, <1>2
  <2> HIDE DEF rem, q, b, pos
  <2>7. pos \div b = q
    BY <2>4, <2>5, <2>6, DivideWhole
  <2>8. q % 2 = 1
    BY <2>3 DEF q
  <2> QED
    BY <2>7, <2>8 DEF Bit, b
<1>4. Bit(pos, R - r) = 0
  <2>1. 2^(r + 1) - 2 \in Int /\ pos \in Int /\ pos = (2^(r + 1) - 2) * 2^(R - r) + i
    BY <1>1, <1>2
  <2> HIDE DEF pos
  <2>2. pos \div 2^(R - r) = 2^(r + 1) - 2
    BY <1>1, <1>2, <2>1, DivideWhole
  <2>3. (2^(r + 1) - 2) % 2 = 0
    BY <1>1
  <2> QED
    BY <2>2, <2>3 DEF Bit
<1>5. S = 0..(r - 1)
  <2> HIDE DEF pos
  <2>1. ASSUME NEW h \in 0..(r - 1) PROVE h \in S
    BY <1>3
  <2>2. ASSUME NEW h \in S PROVE h \in 0..(r - 1)
    BY <1>4
  <2> QED
    BY <2>1, <2>2
<1>6. Cardinality(0..(r - 1)) = r
  BY FS_Interval
<1> QED
  BY <1>5, <1>6 DEF detectRow

(***************************************************************************)
(* No two nodes have the same position.                                    *)
(***************************************************************************)
LEMMA NumberInjective ==
  ASSUME NEW N \in Nat, Powers(N), NEW R \in 0..N,
         NEW r \in 0..R, NEW i \in 0..(2^(R - r) - 1),
         NEW r2 \in 0..R, NEW i2 \in 0..(2^(R - r2) - 1),
         Start(r, R) + i = Start(r2, R) + i2
  PROVE  r = r2 /\ i = i2
<1>1. r = detectRow(Start(r, R) + i, R) /\ r2 = detectRow(Start(r2, R) + i2, R)
  BY RowFound
<1>2. r = r2
  BY <1>1
<1>3. Start(r, R) \in Nat /\ 2^(R - r) \in Nat
  BY Place
<1> QED
  BY <1>2, <1>3

(***************************************************************************)
(* parentMany goes up rise rows: the index loses its low bits, the         *)
(* position keeps the ones it starts with and gets more of them.           *)
(***************************************************************************)
LEMMA ParentManyIs ==
  ASSUME NEW N \in Nat, Powers(N), NEW R \in 0..N, NEW r \in 0..R,
         NEW i \in 0..(2^(R - r) - 1), NEW rise \in 0..(R - r)
  PROVE  /\ parentMany(Start(r, R) + i, rise, R) = Start(r + rise, R) + (i \div 2^rise)
         /\ i \div 2^rise \in 0..(2^(R - (r + rise)) - 1)
<1> DEFINE k == rise
           a == 2^k
           q == i \div a
           m == i % a
<1>0. /\ k \in 0..(N + 1) /\ R - (r + k) \in 0..N /\ k + (R - (r + k)) = R - r
      /\ R - r \in 0..N /\ r + k \in 0..R
  OBVIOUS
<1>1. a \in Nat /\ a > 0 /\ 2^(R - r) = a * 2^(R - (r + k)) /\ 2^(R - (r + k)) \in Nat
  BY <1>0, PowerPositive, PowerSum
<1>2. i \in Nat /\ i < a * 2^(R - (r + k)) /\ 2^(R - r) \in Nat
  BY <1>0, <1>1, PowerPositive
<1>3. i = q * a + m /\ m \in 0..(a - 1) /\ q \in Nat
  BY <1>1, <1>2, Divided
<1>4. q < 2^(R - (r + k))
  <2> HIDE DEF q, m, a
  <2> QED
    BY <1>1, <1>2, <1>3
<1>5. CASE k = 0
  <2>1. a = 1 /\ q = i
    BY <1>5, <1>2
  <2>2. parentMany(Start(r, R) + i, k, R) = Start(r, R) + i
    BY <1>5 DEF parentMany
  <2> QED
    BY <1>5, <1>3, <1>4, <1>1, <2>1, <2>2
<1>6. CASE k > 0
  <2>1. R + 1 - k \in 0..(N + 1) /\ k + (R + 1 - k) = R + 1 /\ R + 1 - (r + k) \in 0..(N + 1)
        /\ k + (R + 1 - (r + k)) = R + 1 - r
    BY <1>6
  <2> DEFINE b == 2^(R + 1 - k)
             c == 2^(R + 1 - (r + k))
  <2>2. 2^(R + 1) = a * b /\ b \in Nat /\ 2^(R + 1 - r) = a * c /\ c \in Nat
    BY <2>1, PowerSum, PowerPositive
  <2>3. /\ Start(r, R) = a * b - a * c /\ Start(r + k, R) = a * b - c
        /\ parentMany(Start(r, R) + i, k, R) = ((Start(r, R) + i) \div a + a * b) - b
    <3>1. Start(r, R) = a * b - a * c /\ Start(r + k, R) = a * b - c
      BY <2>2 DEF Start
    <3> DEFINE x == Start(r, R) + i
    <3>2. x \in Int
      BY <2>2, <3>1, <1>1, <1>2
    <3> HIDE DEF x
    <3>3. parentMany(x, k, R) = x \div a + (2^(R + 1) - b)
      BY <1>6, <3>2 DEF parentMany
    <3>4. x \div a \in Int
      BY <1>1, <3>2
    <3> QED
      BY <1>1, <2>2, <3>1, <3>3, <3>4 DEF x
  <2> DEFINE x == Start(r, R) + i
             z == (b - c) + q
  <2> HIDE DEF q, m, a, b, c
  <2>4. x = z * a + m /\ x \in Int /\ z \in Int
    BY <2>2, <2>3, <1>1, <1>3
  <2>5. x \div a = z
    <3> HIDE DEF x, z
    <3> QED BY <1>1, <1>3, <2>4, DivideWhole
  <2>6. parentMany(Start(r, R) + i, k, R) = Start(r + k, R) + q
    BY <2>2, <2>3, <2>5, <1>1, <1>3
  <2> QED
    BY <2>6, <1>4, <1>3, <1>1 DEF q, a
<1> QED
  BY <1>5, <1>6

(***************************************************************************)
(* childMany goes down drop rows to the first descendant on that row, and  *)
(* the last descendant is as many places further as the row has.           *)
(***************************************************************************)
LEMMA ChildManyIs ==
  ASSUME NEW N \in Nat, Powers(N), NEW R \in 0..N, NEW r \in 0..R,
         NEW i \in 0..(2^(R - r) - 1), NEW drop \in 0..r
  PROVE  /\ childMany(Start(r, R) + i, drop, R) = Start(r - drop, R) + i * 2^drop
         /\ ((Start(r, R) + i + 1) * 2^drop - 1) % 2^(R + 1)
              = Start(r - drop, R) + ((i + 1) * 2^drop - 1)
<1> DEFINE d == 2^drop
           t == 2^(R + 1)
           b == 2^(R + 1 - r)
           x == (Start(r, R) + i) * d
           y == (Start(r, R) + i + 1) * d - 1
<1>0. /\ drop \in 0..(N + 1) /\ R + 1 - r \in 0..(N + 1) /\ drop + (R + 1 - r) = R + 1 - (r - drop)
      /\ R + 1 - (r - drop) \in 0..(N + 1) /\ R + 1 - (r - drop) <= R + 1
  OBVIOUS
<1>1. d \in Nat /\ d > 0 /\ t \in Nat /\ b \in Nat /\ 2^(R + 1 - (r - drop)) = d * b
  BY <1>0, PowerPositive, PowerSum
<1>2. d * b <= t
  BY <1>0, <1>1, PowerMonotone
<1>3. Start(r, R) = t - b /\ Start(r - drop, R) = t - d * b
  BY <1>1 DEF Start
<1>4. b = 2 * 2^(R - r) /\ 2^(R - r) \in Nat
  BY Place
<1>5. i \in Nat /\ i < b /\ i + 1 <= b
  BY <1>4
<1> DEFINE m == Start(r - drop, R) + i * d
           m2 == Start(r - drop, R) + ((i + 1) * d - 1)
<1>6. i * d \in Nat /\ i * d <= (b - 1) * d /\ (b - 1) * d = d * b - d /\ (i + 1) * d = i * d + d
  BY <1>1, <1>5
<1>7. m \in 0..(t - 1) /\ m2 \in 0..(t - 1)
  <2> HIDE DEF d, t, b
  <2> DEFINE id == i * d
             db == d * b
             id1 == (i + 1) * d
  <2>1. id \in Nat /\ id <= db - d /\ id1 = id + d /\ db \in Nat /\ db <= t
    BY <1>1, <1>2, <1>6
  <2> HIDE DEF id, db, id1
  <2>2. m = (t - db) + id /\ m2 = (t - db) + (id1 - 1)
    BY <1>3 DEF id, db, id1
  <2> QED
    BY <1>1, <2>1, <2>2
<1>8. x = (d - 1) * t + m /\ y = (d - 1) * t + m2
  <2> HIDE DEF d, t, b
  <2> QED
    BY <1>1, <1>3, <1>5
<1>9. x \in Int /\ y \in Int /\ d - 1 \in Int /\ t > 0
  BY <1>1, <1>3, <1>5, PowerPositive
<1> HIDE DEF d, t, b, x, y, m, m2
<1>10. x % t = m /\ y % t = m2
  BY <1>1, <1>7, <1>8, <1>9, DivideWhole
<1> QED
  BY <1>10 DEF d, t, x, y, m, m2, childMany

(***************************************************************************)
(* parent and leftChild are the steps up and down of a single row.         *)
(***************************************************************************)
LEMMA ParentIs ==
  ASSUME NEW N \in Nat, Powers(N), NEW R \in 0..N, NEW r \in 0..(R - 1),
         NEW i \in 0..(2^(R - r) - 1)
  PROVE  /\ parent(Start(r, R) + i, R) = Start(r + 1, R) + (i \div 2)
         /\ i \div 2 \in 0..(2^(R - (r + 1)) - 1)
         /\ leftChild(parent(Start(r, R) + i, R), R) = Start(r, R) + 2 * (i \div 2)
<1>1. r \in 0..R /\ r + 1 \in 0..R /\ 1 \in 0..(R - r) /\ 1 \in 0..(r + 1) /\ 2^1 = 2
  OBVIOUS
<1>2. /\ parentMany(Start(r, R) + i, 1, R) = Start(r + 1, R) + (i \div 2)
      /\ i \div 2 \in 0..(2^(R - (r + 1)) - 1)
  BY <1>1, ParentManyIs
<1>3. 2^(R + 1) = 2 * 2^R /\ 2^R \in Nat /\ Start(r, R) \in Nat /\ 2^(R - r) \in Nat
  BY <1>1, Place
<1> DEFINE x == Start(r, R) + i
<1>4. x \in Nat /\ i \in Nat
  BY <1>3
<1> HIDE DEF x
<1>5. parentMany(x, 1, R) = x \div 2 + (2^(R + 1) - 2^R)
  <2>1. R + 1 - 1 = R /\ ~ (1 > R) /\ 1 # 0
    OBVIOUS
  <2> QED
    BY <1>1, <2>1 DEF parentMany
<1>6. parent(x, R) = Start(r + 1, R) + (i \div 2)
  BY <1>2, <1>3, <1>4, <1>5 DEF parent, x
<1>7. childMany(Start(r + 1, R) + (i \div 2), 1, R) = Start((r + 1) - 1, R) + (i \div 2) * 2
  BY <1>1, <1>2, ChildManyIs
<1>8. Start(r + 1, R) \in Nat
  BY <1>1, Place
<1> DEFINE y == Start(r + 1, R) + (i \div 2)
<1>9. y \in Nat
  BY <1>4, <1>8
<1> HIDE DEF y
<1>10. leftChild(y, R) = childMany(y, 1, R)
  BY <1>1, <1>9 DEF leftChild, childMany
<1>11. Start((r + 1) - 1, R) + (i \div 2) * 2 = Start(r, R) + 2 * (i \div 2)
  <2>1. (r + 1) - 1 = r
    OBVIOUS
  <2> QED
    BY <1>4, <2>1
<1> QED
  BY <1>2, <1>6, <1>7, <1>10, <1>11 DEF x, y

(***************************************************************************)
(* leftSib, rightSib and sibling, on the last bit of a position, are those *)
(* of the index: every row starts at an even position.                     *)
(***************************************************************************)
LEMMA SiblingIs ==
  ASSUME NEW N \in Nat, Powers(N), NEW R \in 0..N, NEW r \in 0..R, NEW i \in Nat
  PROVE  LET pos == Start(r, R) + i IN
         /\ pos % 2 = i % 2
         /\ leftSib(pos) = Start(r, R) + 2 * (i \div 2)
         /\ rightSib(pos) = Start(r, R) + 2 * (i \div 2) + 1
         /\ sibling(pos) = Start(r, R) + (IF i % 2 = 0 THEN i + 1 ELSE i - 1)
<1>1. Start(r, R) = 2^(R + 1) - 2^(R + 1 - r) /\ 2^(R + 1) = 2 * 2^R /\ 2^R \in Nat
      /\ 2^(R + 1 - r) = 2 * 2^(R - r) /\ 2^(R - r) \in Nat
  BY Place DEF Start
<1> DEFINE h == 2^R - 2^(R - r)
<1>2. h \in Int /\ Start(r, R) = 2 * h
  BY <1>1
<1> HIDE DEF h
<1>3. (2 * h + i) % 2 = i % 2
  BY <1>2
<1> QED
  BY <1>2, <1>3 DEF leftSib, rightSib, sibling, isLeftNiece

(***************************************************************************)
(* A node of the forest of n leaves has a place in the perfect tree that   *)
(* the positions number.                                                   *)
(***************************************************************************)
LEMMA NodePlace ==
  ASSUME NEW N \in Nat, Powers(N), NEW n \in 0..N, NEW nd \in Nodes(n)
  PROVE  LET R == treeRows(n) IN
         /\ R \in 0..N /\ n > 0
         /\ nd.row \in 0..R
         /\ nd.index \in 0..(2^(R - nd.row) - 1)
         /\ nd.index \in 0..(n - 1)
         /\ (nd.index + 1) * 2^nd.row <= n
         /\ nd = Node(nd.row, nd.index)
         /\ Number(nd, R) = Start(nd.row, R) + nd.index
         /\ detectRow(Number(nd, R), R) = nd.row
<1> DEFINE R == treeRows(n)
           r == nd.row
           i == nd.index
<1>1. R \in 0..N /\ n <= 2^R
  BY TreeRows
<1>2. r \in 0..R /\ i \in 0..(n - 1) /\ (i + 1) * 2^r <= n /\ nd = Node(r, i)
  BY DEF Nodes, Node
<1> HIDE DEF r, i, R
<1>3. 2^R = 2^r * 2^(R - r) /\ 2^r \in Nat /\ 2^r > 0 /\ 2^(R - r) \in Nat
  BY <1>1, <1>2, Place
<1>4. i + 1 <= 2^(R - r)
  <2>1. (i + 1) * 2^r <= 2^r * 2^(R - r)
    BY <1>1, <1>2, <1>3
  <2> QED
    BY <1>2, <1>3, <2>1
<1>5. i \in 0..(2^(R - r) - 1) /\ n > 0
  BY <1>2, <1>3, <1>4
<1>6. Number(nd, R) = Start(r, R) + i
  BY <1>1, <1>2, NumberIs DEF r, i
<1>7. detectRow(Start(r, R) + i, R) = r
  BY <1>1, <1>2, <1>5, RowFound
<1> QED
  BY <1>1, <1>2, <1>5, <1>6, <1>7 DEF r, i, R

(***************************************************************************)
(* NodeOf is the inverse of Number.                                        *)
(***************************************************************************)
LEMMA NodeOfNumber ==
  ASSUME NEW N \in Nat, Powers(N), NEW n \in 0..N, NEW pos \in Numbers(n)
  PROVE  /\ NodeOf(pos, n) \in Nodes(n)
         /\ Number(NodeOf(pos, n), treeRows(n)) = pos
         /\ \A nd \in Nodes(n) : Number(nd, treeRows(n)) = pos => nd = NodeOf(pos, n)
<1>1. /\ NodeOf(pos, n) \in Nodes(n)
      /\ Number(NodeOf(pos, n), treeRows(n)) = pos
  BY DEF Numbers, NodeOf
<1>2. ASSUME NEW a \in Nodes(n), NEW b \in Nodes(n),
             Number(a, treeRows(n)) = Number(b, treeRows(n))
      PROVE  a = b
  <2>1. /\ treeRows(n) \in 0..N
        /\ a.row \in 0..treeRows(n) /\ a.index \in 0..(2^(treeRows(n) - a.row) - 1)
        /\ b.row \in 0..treeRows(n) /\ b.index \in 0..(2^(treeRows(n) - b.row) - 1)
        /\ Start(a.row, treeRows(n)) + a.index = Start(b.row, treeRows(n)) + b.index
        /\ a = Node(a.row, a.index) /\ b = Node(b.row, b.index)
    BY <1>2, NodePlace
  <2>2. a.row = b.row /\ a.index = b.index
    BY <2>1, NumberInjective
  <2> QED
    BY <2>1, <2>2
<1> QED
  BY <1>1, <1>2

(***************************************************************************)
(* The tree's roots, the nodes with nothing above them in the forest, are  *)
(* those that the bits of n tell; every other node has its parent and its  *)
(* sibling in the forest.                                                  *)
(***************************************************************************)
LEMMA RootIs ==
  ASSUME NEW N \in Nat, Powers(N), NEW n \in 0..N, NEW nd \in Nodes(n)
  PROVE  /\ IsRoot(nd, n) <=> /\ Bit(n, nd.row) = 1
                              /\ nd.index = 2 * (n \div 2^(nd.row + 1))
         /\ ~ IsRoot(nd, n) => /\ nd.row \in 0..(treeRows(n) - 1)
                               /\ Above(nd) \in Nodes(n)
                               /\ Beside(nd) \in Nodes(n)
<1> DEFINE R == treeRows(n)
           r == nd.row
           i == nd.index
           m == n \div 2^r
           a == i \div 2
<1>1. /\ R \in 0..N /\ r \in 0..R /\ i \in 0..(2^(R - r) - 1) /\ i \in 0..(n - 1)
      /\ (i + 1) * 2^r <= n
  BY NodePlace
<1> HIDE DEF R, r, i
<1>2. /\ r \in 0..N /\ 2^r \in Nat /\ 2^r > 0 /\ 2^(r + 1) \in Nat /\ 2^(r + 1) > 0
      /\ 2^(r + 1) = 2 * 2^r
  BY <1>1, PowerPositive DEF Powers
<1>3. m \in Nat /\ Bit(n, r) = m % 2 /\ n \div 2^(r + 1) = m \div 2
  <2>1. m \in Nat
    BY <1>2, Divided
  <2>2. m = 2 * (n \div 2^(r + 1)) + Bit(n, r) /\ Bit(n, r) \in {0, 1}
    BY <1>1, <1>2, BitOf
  <2>3. n \div 2^(r + 1) \in Nat
    BY <1>2, Divided
  <2> HIDE DEF m
  <2> QED
    BY <2>1, <2>2, <2>3
<1>4. i + 1 <= m
  BY <1>1, <1>2, Multiples
<1> HIDE DEF m
<1>5. a \in Nat /\ a <= i /\ i = 2 * a + (i % 2) /\ i % 2 \in {0, 1}
  BY <1>1
<1> HIDE DEF a
<1>6. r + 1 <= R <=> r # R
  BY <1>1
<1>7. (a + 1) * 2^(r + 1) <= n <=> a + 1 <= m \div 2
  BY <1>2, <1>3, <1>5, Multiples
<1>8. Above(nd) = Node(r + 1, a)
  BY DEF Above, r, i, a
<1>9. Above(nd) \in Nodes(n) <=> /\ r # R
                                 /\ (a + 1) * 2^(r + 1) <= n
  BY <1>1, <1>5, <1>6, <1>8 DEF Nodes, Node, R
<1>10. r = R => m = 1
  <2> SUFFICES ASSUME r = R PROVE m = 1
    OBVIOUS
  <2>1. n <= 2^R
    BY TreeRows DEF R
  <2>2. n <= 1 * 2^r /\ 0 <= n
    BY <1>2, <2>1
  <2>3. n < 2 * 2^r
    BY <1>2, <2>2
  <2>4. ~ (2 * 2^r <= n)
    BY <2>3, <1>2
  <2>5. ~ (2 <= m)
    BY <1>2, <2>4, Multiples DEF m
  <2> QED
    BY <1>1, <1>3, <1>4, <2>5
<1>11. Above(nd) \in Nodes(n) <=> a + 1 <= m \div 2
  BY <1>3, <1>5, <1>7, <1>9, <1>10
<1>12. IsRoot(nd, n) <=> ~ (a + 1 <= m \div 2)
  BY <1>11 DEF IsRoot
<1>13. ~ (a + 1 <= m \div 2) <=> m % 2 = 1 /\ i = 2 * (m \div 2)
  BY <1>1, <1>3, <1>4, <1>5
<1>14. ASSUME ~ IsRoot(nd, n)
       PROVE  r \in 0..(R - 1) /\ Above(nd) \in Nodes(n) /\ Beside(nd) \in Nodes(n)
  <2>1. r \in 0..(R - 1) /\ Above(nd) \in Nodes(n)
    BY <1>14, <1>11, <1>12, <1>9, <1>1
  <2> DEFINE j == IF i % 2 = 0 THEN i + 1 ELSE i - 1
  <2>2. Beside(nd) = Node(r, j)
    BY DEF Beside, r, i
  <2>3. j \in Nat /\ j + 1 <= m
    BY <1>14, <1>12, <1>5, <1>3, <1>1
  <2> HIDE DEF j
  <2>4. (j + 1) * 2^r <= n
    BY <2>3, <1>2, Multiples DEF m
  <2>5. j + 1 <= (j + 1) * 2^r
    BY <2>3, <1>2
  <2>6. j \in 0..(n - 1)
    BY <2>3, <2>4, <2>5, <1>2
  <2> QED
    BY <1>1, <2>1, <2>2, <2>4, <2>6 DEF Nodes, Node, R
<1> QED
  BY <1>3, <1>12, <1>13, <1>14 DEF r, i, R

(***************************************************************************)
(* rootPosition is the position of the root on a row, in a numbering of    *)
(* any height.                                                             *)
(***************************************************************************)
LEMMA RootPositionIs ==
  ASSUME NEW N \in Nat, Powers(N), NEW n \in 0..N, NEW R \in 0..N, NEW r \in 0..R, NEW i \in Nat
  PROVE  Start(r, R) + i = rootPosition(n, r, R) <=> i = 2 * (n \div 2^(r + 1))
<1>1. Start(r, R) \in Nat
  BY Place
<1>2. 2^(r + 1) \in Nat /\ 2^(r + 1) > 0
  BY PowerPositive
<1>3. n \div 2^(r + 1) \in Nat
  BY <1>2, Divided
<1>4. rootPosition(n, r, R) = 2 * (n \div 2^(r + 1)) + Start(r, R)
  BY DEF rootPosition, Start
<1> QED
  BY <1>1, <1>3, <1>4

(***************************************************************************)
(* On every position of the forest detectRow, parent, sibling, the         *)
(* children and isRootPosition agree with the tree.                        *)
(***************************************************************************)
LEMMA FamilyOfNode ==
  ASSUME NEW N \in Nat, Powers(N), NEW n \in 0..N, NEW pos \in Numbers(n)
  PROVE  FamilyIsOfTree(n, pos)
<1> DEFINE R == treeRows(n)
           nd == NodeOf(pos, n)
           r == nd.row
           i == nd.index
<1>1. nd \in Nodes(n) /\ Number(nd, R) = pos
  BY NodeOfNumber
<1> HIDE DEF nd
<1>2. /\ R \in 0..N /\ r \in 0..R /\ i \in 0..(2^(R - r) - 1)
      /\ pos = Start(r, R) + i /\ detectRow(pos, R) = r /\ i \in Nat /\ nd = Node(r, i)
  BY <1>1, NodePlace
<1>3. IsRoot(nd, n) <=> Bit(n, r) = 1 /\ i = 2 * (n \div 2^(r + 1))
  BY <1>1, RootIs
<1>4. isRootPosition(pos, n) <=> IsRoot(nd, n)
  <2>1. isRootPosition(pos, n) <=> Bit(n, r) = 1 /\ rootPosition(n, r, R) = pos
    BY <1>2 DEF isRootPosition, isRootPositionOnRow, rootExistsOnRow
  <2>2. pos = rootPosition(n, r, R) <=> i = 2 * (n \div 2^(r + 1))
    BY <1>2, RootPositionIs
  <2> QED
    BY <1>3, <2>1, <2>2
<1>5. ASSUME ~ IsRoot(nd, n)
      PROVE  /\ parent(pos, R) = Number(Above(nd), R)
             /\ sibling(pos) = Number(Beside(nd), R)
             /\ pos \in {leftChild(parent(pos, R), R), rightChild(parent(pos, R), R)}
             /\ {pos, sibling(pos)} = {leftSib(pos), rightSib(pos)}
  <2>1. r \in 0..(R - 1) /\ Above(nd) \in Nodes(n) /\ Beside(nd) \in Nodes(n)
    BY <1>1, <1>5, RootIs
  <2>2. /\ Number(Above(nd), R) = Start(r + 1, R) + (i \div 2)
        /\ Number(Beside(nd), R) = Start(r, R) + (IF i % 2 = 0 THEN i + 1 ELSE i - 1)
    <3>1. /\ Number(Above(nd), R) = Start(Above(nd).row, R) + Above(nd).index
          /\ Number(Beside(nd), R) = Start(Beside(nd).row, R) + Beside(nd).index
      BY <2>1, NodePlace
    <3> QED
      BY <3>1 DEF Above, Beside, Node
  <2>3. /\ parent(pos, R) = Start(r + 1, R) + (i \div 2)
        /\ leftChild(parent(pos, R), R) = Start(r, R) + 2 * (i \div 2)
    BY <1>2, <2>1, ParentIs
  <2>4. /\ leftSib(pos) = Start(r, R) + 2 * (i \div 2)
        /\ rightSib(pos) = Start(r, R) + 2 * (i \div 2) + 1
        /\ sibling(pos) = Start(r, R) + (IF i % 2 = 0 THEN i + 1 ELSE i - 1)
    BY <1>2, SiblingIs
  <2>5. rightChild(parent(pos, R), R) = Start(r, R) + 2 * (i \div 2) + 1
    BY <2>3 DEF rightChild
  <2>6. i = 2 * (i \div 2) + (i % 2) /\ i % 2 \in {0, 1} /\ i \div 2 \in Nat /\ Start(r, R) \in Nat
    <3>1. Start(r, R) \in Nat
      BY <1>2, Place
    <3> HIDE DEF i
    <3> QED
      BY <1>2, <3>1
  <2>7. CASE i % 2 = 0
    BY <1>2, <2>2, <2>3, <2>4, <2>5, <2>6, <2>7
  <2>8. CASE i % 2 = 1
    BY <1>2, <2>2, <2>3, <2>4, <2>5, <2>6, <2>8
  <2> QED
    BY <2>6, <2>7, <2>8
<1>6. ASSUME NEW rise \in 0..(R - r)
      PROVE  childMany(parentMany(pos, rise, R), rise, R)
               = Number(Node(r, (i \div 2^rise) * 2^rise), R)
  <2>1. /\ parentMany(pos, rise, R) = Start(r + rise, R) + (i \div 2^rise)
        /\ i \div 2^rise \in 0..(2^(R - (r + rise)) - 1)
    BY <1>2, ParentManyIs
  <2>2. r + rise \in 0..R /\ rise \in 0..(r + rise) /\ (r + rise) - rise = r
    BY <1>2
  <2>3. childMany(Start(r + rise, R) + (i \div 2^rise), rise, R)
          = Start((r + rise) - rise, R) + (i \div 2^rise) * 2^rise
    BY <1>2, <2>1, <2>2, ChildManyIs
  <2> DEFINE j == (i \div 2^rise) * 2^rise
             x == Node(r, j)
  <2>4. x.row = r /\ x.index = j
    BY DEF Node
  <2> HIDE DEF x
  <2>5. Number(x, R) = Start(r, R) + j
    BY <1>2, <2>4, NumberIs
  <2> QED
    BY <2>1, <2>2, <2>3, <2>5 DEF x
<1> QED
  BY <1>2, <1>4, <1>5, <1>6 DEF FamilyIsOfTree, nd

(***************************************************************************)
(* isAncestor is the tree's relation between a node and those below it.    *)
(***************************************************************************)
LEMMA AncestorOfNode ==
  ASSUME NEW N \in Nat, Powers(N), NEW n \in 0..N,
         NEW pos \in Numbers(n), NEW other \in Numbers(n)
  PROVE  AncestorIsOfTree(n, pos, other)
<1> DEFINE R == treeRows(n)
           nd == NodeOf(pos, n)
           nd2 == NodeOf(other, n)
           rise == nd2.row - nd.row
<1>1. nd \in Nodes(n) /\ Number(nd, R) = pos /\ nd2 \in Nodes(n) /\ Number(nd2, R) = other
  BY NodeOfNumber
<1> HIDE DEF nd, nd2
<1>2. /\ R \in 0..N
      /\ nd.row \in 0..R /\ nd.index \in 0..(2^(R - nd.row) - 1)
      /\ pos = Start(nd.row, R) + nd.index /\ detectRow(pos, R) = nd.row
      /\ nd2.row \in 0..R /\ nd2.index \in 0..(2^(R - nd2.row) - 1)
      /\ other = Start(nd2.row, R) + nd2.index /\ detectRow(other, R) = nd2.row
  BY <1>1, NodePlace
<1>3. isAncestor(other, pos, R) <=> /\ other # pos /\ rise \in 0..R
                                     /\ parentMany(pos, rise, R) = other
  BY <1>2 DEF isAncestor
<1>4. CASE rise <= 0
  <2>1. rise = 0 => parentMany(pos, rise, R) = pos
    <3>1. ~ (0 > R) /\ ~ (0 > 0)
      BY <1>2
    <3>2. parentMany(pos, 0, R) = pos
      BY <3>1 DEF parentMany
    <3> HIDE DEF rise
    <3> QED
      BY <3>2
  <2>2. ~ isAncestor(other, pos, R)
    BY <1>2, <1>3, <1>4, <2>1
  <2>3. ~ IsBelow(nd, nd2)
    BY <1>2, <1>4 DEF IsBelow
  <2> QED
    BY <2>2, <2>3 DEF AncestorIsOfTree, nd, nd2
<1>5. CASE rise > 0
  <2>1. rise \in 0..(R - nd.row) /\ rise \in 0..R /\ nd.row + rise = nd2.row /\ nd.row < nd2.row
        /\ nd.row # nd2.row
    BY <1>2, <1>5
  <2>2. parentMany(pos, rise, R) = Start(nd2.row, R) + (nd.index \div 2^rise)
        /\ nd.index \div 2^rise \in 0..(2^(R - nd2.row) - 1)
    <3> HIDE DEF rise, R
    <3>1. /\ parentMany(pos, rise, R) = Start(nd.row + rise, R) + (nd.index \div 2^rise)
          /\ nd.index \div 2^rise \in 0..(2^(R - (nd.row + rise)) - 1)
      BY <1>2, <2>1, ParentManyIs
    <3> QED
      BY <2>1, <3>1
  <2>3. Start(nd2.row, R) \in Nat /\ 2^(R - nd2.row) \in Nat
    BY <1>2, Place
  <2>4. parentMany(pos, rise, R) = other <=> nd.index \div 2^rise = nd2.index
    <3> DEFINE q == nd.index \div 2^rise
    <3>1. q \in Nat /\ nd2.index \in Nat
      BY <1>2, <2>2, <2>3
    <3> HIDE DEF q
    <3> QED
      BY <1>2, <2>2, <2>3, <3>1 DEF q
  <2>5. other # pos
    BY <1>2, <2>1
  <2> QED
    BY <1>3, <2>1, <2>4, <2>5 DEF AncestorIsOfTree, IsBelow, nd, nd2
<1>6. rise \in Int
  BY <1>2
<1> QED
  BY <1>4, <1>5, <1>6

(***************************************************************************)
(* Every number up to the top position is a position of some row.          *)
(***************************************************************************)
LEMMA PlaceExists ==
  ASSUME NEW N \in Nat, Powers(N), NEW R \in 0..N, NEW pos \in 0..(2^(R + 1) - 2)
  PROVE  \E r \in 0..R : \E i \in 0..(2^(R - r) - 1) : pos = Start(r, R) + i
<1> DEFINE T == {r \in 0..R : pos < Start(r + 1, R)}
<1>1. 2^(R + 1) \in Nat /\ 2^0 = 1
  BY PowerPositive
<1>2. pos \in Nat /\ pos <= 2^(R + 1) - 2
  BY <1>1
<1>3. Start(R + 1, R) = 2^(R + 1) - 1 /\ Start(0, R) = 0
  <2>1. R + 1 - (R + 1) = 0 /\ R + 1 - 0 = R + 1
    OBVIOUS
  <2>2. 2^(R + 1 - (R + 1)) = 1
    BY <2>1, PowerZero
  <2> QED
    BY <1>1, <2>1, <2>2 DEF Start
<1>4. R \in T
  BY <1>1, <1>2, <1>3
<1>5. PICK r \in T : \A y \in T : r <= y
  BY <1>4, Least, T \subseteq Nat
<1>6. /\ 2^(R - r) \in Nat /\ 2^(R + 1 - r) = 2 * 2^(R - r) /\ Start(r, R) \in Nat
  BY <1>5, Place
<1>7. Start(r + 1, R) = Start(r, R) + 2^(R - r)
  <2>1. R + 1 - (r + 1) = R - r
    BY <1>5
  <2> QED
    BY <1>1, <1>6, <2>1 DEF Start
<1>8. Start(r, R) <= pos
  <2>1. CASE r = 0
    BY <2>1, <1>2, <1>3
  <2>2. CASE r # 0
    <3>1. r - 1 \in 0..R /\ r - 1 \notin T /\ (r - 1) + 1 = r
      BY <1>5, <2>2
    <3> QED
      BY <1>2, <1>6, <3>1
  <2> QED
    BY <2>1, <2>2
<1>9. pos - Start(r, R) \in 0..(2^(R - r) - 1)
  BY <1>2, <1>5, <1>6, <1>7, <1>8
<1>10. pos = Start(r, R) + (pos - Start(r, R))
  BY <1>2, <1>6
<1> QED
  BY <1>5, <1>9, <1>10

(***************************************************************************)
(* inForest, which goes down to the last leaf below a position, accepts    *)
(* exactly the positions of the forest.                                    *)
(***************************************************************************)
LEMMA InForest ==
  ASSUME NEW N \in Nat, Powers(N), NEW n \in 0..N, NEW pos \in 0..(2^(treeRows(n) + 1))
  PROVE  inForest(pos, n, treeRows(n)) <=> pos \in Numbers(n)
<1> DEFINE R == treeRows(n)
           t == 2^(R + 1)
<1>1. R \in 0..N /\ n <= 2^R
  BY TreeRows
<1>2. t \in Nat /\ t = 2 * 2^R /\ 2^R \in Nat /\ 2^R > 0
  BY <1>1, PowerPositive DEF Powers
<1>3. pos \in Nat /\ pos <= t
  BY <1>2
<1>4. pos \in Numbers(n) <=> \E nd \in Nodes(n) : Number(nd, R) = pos
  BY DEF Numbers
<1>5. CASE pos > t - 2
  <2>1. ~ inForest(pos, n, R)
    BY <1>1, <1>2, <1>3, <1>5 DEF inForest
  <2>2. ASSUME NEW nd \in Nodes(n) PROVE Number(nd, R) # pos
    <3>1. /\ nd.row \in 0..R /\ nd.index \in 0..(2^(R - nd.row) - 1)
          /\ Number(nd, R) = Start(nd.row, R) + nd.index
      BY NodePlace
    <3>2. /\ 2^(R + 1 - nd.row) = 2 * 2^(R - nd.row) /\ 2^(R - nd.row) \in Nat
          /\ 2^(R - nd.row) > 0
      BY <1>1, <3>1, Place
    <3>3. Number(nd, R) <= t - 2
      BY <1>2, <3>1, <3>2 DEF Start
    <3>4. Number(nd, R) \in Int
      BY <1>2, <3>1, <3>2 DEF Start
    <3> QED
      BY <1>2, <1>3, <1>5, <3>3, <3>4
  <2> QED
    BY <1>4, <2>1, <2>2
<1>6. CASE pos <= t - 2
  <2>1. pos \in 0..(2^(R + 1) - 2)
    BY <1>2, <1>3, <1>6
  <2>0. PICK r \in 0..R : \E i \in 0..(2^(R - r) - 1) : pos = Start(r, R) + i
    BY <1>1, <2>1, PlaceExists
  <2>2. PICK i \in 0..(2^(R - r) - 1) : pos = Start(r, R) + i
    BY <2>0
  <2>3. detectRow(pos, R) = r
    BY <1>1, <2>2, RowFound
  <2>4. ((pos + 1) * 2^r - 1) % t = Start(r - r, R) + ((i + 1) * 2^r - 1)
    BY <1>1, <2>2, ChildManyIs
  <2>5. Start(r - r, R) = 0 /\ 2^r \in Nat /\ 2^r > 0 /\ 2^(R - r) \in Nat /\ i \in Nat
    <3>1. r - r = 0 /\ R + 1 - 0 = R + 1
      BY <1>1
    <3>2. 2^r \in Nat /\ 2^r > 0 /\ 2^(R - r) \in Nat
      BY <1>1, Place
    <3> QED
      BY <1>2, <3>1, <3>2 DEF Start
  <2>6. (i + 1) * 2^r \in Nat
    BY <2>5
  <2>7. ((pos + 1) * 2^r - 1) % t < n <=> (i + 1) * 2^r <= n
    <3> DEFINE x == (i + 1) * 2^r
    <3> HIDE DEF x
    <3> QED
      BY <2>4, <2>5, <2>6 DEF x
  <2>8. pos < n => (i + 1) * 2^r <= n
    <3> SUFFICES ASSUME pos < n PROVE (i + 1) * 2^r <= n
      OBVIOUS
    <3>1. r = 0
      <4> SUFFICES ASSUME r # 0 PROVE FALSE
        OBVIOUS
      <4>1. 2 * 2^(R - r) <= 2^R
        <5>1. R - r < R /\ R - r \in Nat /\ R \in 0..(N + 1)
          BY <1>1
        <5> QED
          BY <5>1, PowerMonotone
      <4>2. 2^(R + 1 - r) = 2 * 2^(R - r)
        BY <1>1, Place
      <4>3. Start(r, R) >= 2^R
        BY <1>2, <2>5, <4>1, <4>2 DEF Start
      <4>4. Start(r, R) \in Nat
        BY <1>1, Place
      <4> QED
        BY <1>1, <1>2, <2>2, <2>5, <4>3, <4>4
    <3>2. pos = i /\ (i + 1) * 2^r = i + 1
      BY <2>2, <2>5, <3>1
    <3> QED
      BY <1>3, <3>2
  <2>9. inForest(pos, n, R) <=> (i + 1) * 2^r <= n
    BY <1>2, <1>3, <1>6, <2>3, <2>7, <2>8 DEF inForest
  <2>10. ASSUME (i + 1) * 2^r <= n PROVE pos \in Numbers(n)
    <3>1. i + 1 <= (i + 1) * 2^r
      BY <2>5
    <3>2. i \in 0..(n - 1)
      BY <2>5, <2>6, <2>10, <3>1
    <3>3. Node(r, i) \in Nodes(n) /\ Node(r, i).row = r /\ Node(r, i).index = i
      BY <2>10, <3>2 DEF Nodes, Node
    <3>4. Number(Node(r, i), R) = Start(r, R) + i
      BY <1>1, <3>3, NodePlace
    <3> QED
      BY <1>4, <2>2, <3>3, <3>4
  <2>11. ASSUME pos \in Numbers(n) PROVE (i + 1) * 2^r <= n
    <3>1. PICK nd \in Nodes(n) : Number(nd, R) = pos
      BY <1>4, <2>11
    <3>2. /\ nd.row \in 0..R /\ nd.index \in 0..(2^(R - nd.row) - 1)
          /\ pos = Start(nd.row, R) + nd.index /\ (nd.index + 1) * 2^nd.row <= n
      BY <3>1, NodePlace
    <3>3. nd.row = r /\ nd.index = i
      BY <1>1, <2>2, <3>2, NumberInjective
    <3> QED
      BY <3>2, <3>3
  <2> QED
    BY <2>9, <2>10, <2>11
<1> QED
  BY <1>2, <1>3, <1>5, <1>6

(***************************************************************************)
(* The arithmetic of a deletion: calcNextPosition takes one bit out of the *)
(* index of a node at or below the sibling of the deleted one and goes up  *)
(* a row, and calcPrevPosition puts it back.                               *)
(***************************************************************************)
LEMMA MoveOfPlace ==
  ASSUME NEW N \in Nat, Powers(N), NEW R \in 0..N, NEW r \in 0..R, NEW r2 \in r..(R - 1),
         NEW i \in 0..(2^(R - r) - 1), NEW j \in 0..(2^(R - r2) - 1),
         i \div 2^(r2 - r) = IF j % 2 = 0 THEN j + 1 ELSE j - 1
  PROVE  LET pos   == Start(r, R) + i
             other == Start(r2, R) + j
             level == r2 - r
             k     == (i \div 2^(level + 1)) * 2^level + (i % 2^level)
         IN  /\ isAncestor(parent(other, R), pos, R)
             /\ calcNextPosition(pos, other, R) = Start(r + 1, R) + k
             /\ calcPrevPosition(Start(r + 1, R) + k, other, R) = pos
<1> DEFINE pos   == Start(r, R) + i
           other == Start(r2, R) + j
           level == r2 - r
           b == 2^level
           q == i \div 2^(level + 1)
           e == (i \div b) % 2
           m == i % b
           k == q * b + m
           u == 2^(R - level) - 2^((R - r) - level)
<1>0. /\ level \in 0..N /\ r2 \in 0..R /\ level + 1 \in 0..(R - r) /\ r + (level + 1) = r2 + 1
      /\ r + 1 \in 0..R /\ r2 + 1 \in 0..R /\ R - level \in 0..N /\ (R - r) - level \in 0..N
      /\ level + (R - level) = R /\ level + ((R - r) - level) = R - r /\ R - r \in 0..N
      /\ R - (r + 1) \in 0..N /\ R - r = (R - (r + 1)) + 1 /\ r \in 0..(R - 1) /\ r2 \in 0..(R - 1)
      /\ R \in 0..(N + 1)
  OBVIOUS
<1>1. /\ 2^(R - r) \in Nat /\ 2^(R - r2) \in Nat /\ 2^R \in Nat /\ 2^(R + 1) = 2 * 2^R
      /\ 2^(R - r) = 2 * 2^(R - (r + 1)) /\ 2^(R - (r + 1)) \in Nat
      /\ 2^(R + 1 - r) = 2 * 2^(R - r)
  BY <1>0, PowerPositive, Place DEF Powers
<1>2. i \in Nat /\ j \in Nat /\ i < 2^(R - r)
  BY <1>1
<1>3. /\ b \in Nat /\ b > 0 /\ 2^(level + 1) = 2 * b
      /\ q \in Nat /\ e \in {0, 1} /\ m \in 0..(b - 1)
      /\ i = (2 * q + e) * b + m
      /\ i \div b = 2 * q + e
      /\ (i \div b) \div 2 = q
  BY <1>0, <1>2, SplitIndex
<1>4. /\ 2^R = b * 2^(R - level) /\ 2^(R - r) = b * 2^((R - r) - level)
      /\ 2^(R - level) \in Nat /\ 2^((R - r) - level) \in Nat
  BY <1>0, PowerSum, PowerPositive
<1>5. 2^((R - r) - level) <= 2^(R - level) /\ u \in Nat
  BY <1>0, <1>4, PowerMonotone
<1>6. Start(r, R) = u * (2 * b) /\ Start(r + 1, R) = 2^R + u * b /\ 2^R - 2^(R - r) = u * b
  <2>1. 2^R - 2^(R - r) = u * b
    BY <1>3, <1>4
  <2>2. Start(r, R) = 2 * (2^R - 2^(R - r))
    BY <1>1 DEF Start
  <2>3. Start(r + 1, R) = 2^R + (2^R - 2^(R - r))
    <3>1. R + 1 - (r + 1) = R - r
      BY <1>0
    <3> QED
      BY <1>1, <3>1 DEF Start
  <2>4. 2 * (u * b) = u * (2 * b)
    BY <1>3, <1>5
  <2> QED
    BY <2>1, <2>2, <2>3, <2>4
<1>7. e = IF j % 2 = 0 THEN 1 ELSE 0
  BY <1>2, <1>3
<1>8. q = j \div 2
  BY <1>2, <1>3
<1> HIDE DEF b, q, e, m, u
<1>9. k \in 0..(2^(R - (r + 1)) - 1)
  <2> DEFINE w == 2^((R - (r + 1)) - level)
  <2>1. /\ (R - (r + 1)) - level \in 0..N /\ ((R - (r + 1)) - level) + 1 = (R - r) - level
        /\ level + ((R - (r + 1)) - level) = R - (r + 1)
    BY <1>0
  <2>2. w \in Nat /\ 2^((R - r) - level) = 2 * w /\ 2^(R - (r + 1)) = b * w
    BY <1>0, <2>1, PowerSum DEF Powers, b
  <2> HIDE DEF w
  <2>3. 2 * q + e < 2 * w
    BY <1>2, <1>3, <1>4, <2>2
  <2>4. q + 1 <= w
    BY <1>3, <2>2, <2>3
  <2>5. (q + 1) * b <= w * b
    BY <1>3, <2>2, <2>4
  <2>6. (q + 1) * b = q * b + b /\ w * b = b * w /\ q * b \in Nat /\ w * b \in Nat
    BY <1>3, <2>2
  <2>7. k \in Nat /\ k < b * w
    BY <1>3, <2>5, <2>6
  <2> QED
    BY <1>1, <2>2, <2>7
<1>10. /\ pos = (u + q) * (2 * b) + (e * b + m) /\ e * b + m \in 0..(2 * b - 1)
       /\ pos = (2 * (u + q) + e) * b + m /\ pos \in Int
  <2>1. e * b \in Nat /\ e * b <= b
    BY <1>3
  <2> QED
    BY <1>3, <1>5, <1>6, <2>1
<1>11. detectRow(pos, R) = r /\ detectRow(other, R) = r2 /\ detectRow(Start(r + 1, R) + k, R) = r + 1
  <2> HIDE DEF k
  <2> QED
    BY <1>0, <1>9, RowFound
<1>12. removeBit(pos, level) = (u + q) * b + m
  <2>1. u + q \in Int /\ 2 * b \in Nat /\ 2 * b > 0 /\ 2 * (u + q) + e \in Int
    BY <1>3, <1>5
  <2> HIDE DEF pos
  <2>2. pos \div (2 * b) = u + q
    BY <1>10, <2>1, DivideWhole
  <2>3. pos % b = m
    <3> DEFINE z == 2 * (u + q) + e
    <3>1. z \in Int /\ pos \in Int /\ pos = z * b + m /\ b \in Nat /\ b > 0 /\ m \in 0..(b - 1)
      BY <1>3, <1>10, <2>1
    <3> HIDE DEF z
    <3> QED
      BY <3>1, DivideWhole
  <2> HIDE DEF level
  <2> QED
    BY <1>3, <2>2, <2>3 DEF removeBit, b
<1>13. calcNextPosition(pos, other, R) = Start(r + 1, R) + k
  <2>1. ~ (r2 < r) /\ r < R
    BY <1>0
  <2>2. calcNextPosition(pos, other, R) = removeBit(pos, level) + 2^R
    <3> HIDE DEF pos, other
    <3> QED
      BY <1>11, <2>1 DEF calcNextPosition
  <2>3. (u + q) * b = u * b + q * b /\ u * b \in Nat /\ q * b \in Nat
    BY <1>3, <1>5
  <2> HIDE DEF pos
  <2> QED
    BY <1>1, <1>3, <1>6, <1>12, <2>2, <2>3
<1>14. (Start(r + 1, R) + k) % 2^R = (u + q) * b + m
  <2> DEFINE v == u * b + k
             x == Start(r + 1, R) + k
  <2>1. u * b \in Nat /\ v = (u + q) * b + m
    BY <1>3, <1>5
  <2> HIDE DEF k
  <2>2. v \in 0..(2^R - 1)
    BY <1>1, <1>6, <1>9, <2>1
  <2>3. x = 1 * 2^R + v /\ x \in Int /\ 2^R > 0
    BY <1>1, <1>6, <1>9, <2>1, <2>2
  <2> HIDE DEF v, x
  <2>4. x % 2^R = v
    BY <1>1, <2>2, <2>3, DivideWhole
  <2> QED
    BY <2>1, <2>4 DEF x
<1>15. calcPrevPosition(Start(r + 1, R) + k, other, R) = pos
  <2> DEFINE v == (u + q) * b + m
             x == Start(r + 1, R) + k
             bit == isLeftNiece(other)
  <2>1. v \in Int /\ u + q \in Int
    BY <1>3, <1>5
  <2>2. v \div b = u + q /\ v % b = m
    <3> HIDE DEF v
    <3>1. v = (u + q) * b + m
      BY DEF v
    <3> QED
      BY <1>3, <2>1, <3>1, DivideWhole
  <2>3. bit <=> j % 2 = 0
    <3>1. other % 2 = j % 2
      BY <1>0, <1>2, SiblingIs
    <3> QED
      BY <3>1 DEF isLeftNiece
  <2>4. (IF bit THEN b ELSE 0) = e * b
    <3> HIDE DEF bit
    <3> QED
      BY <1>3, <1>7, <2>3
  <2>5. calcPrevPosition(x, other, R) = addBit(v, level, bit)
    <3>1. r2 - ((r + 1) - 1) = level
      BY <1>0
    <3> HIDE DEF x, other, v
    <3> QED
      BY <1>11, <1>14, <3>1 DEF calcPrevPosition, x, v
  <2>6. addBit(v, level, bit) = ((u + q) * (2 * b) + e * b) + m
    <3>1. ~ (level < 0)
      BY <1>0
    <3> HIDE DEF v, bit, level
    <3> QED
      BY <1>3, <2>2, <2>4, <3>1 DEF addBit, b
  <2>7. (u + q) * (2 * b) \in Int /\ e * b \in Int /\ m \in Int
    BY <1>3, <1>5
  <2> HIDE DEF x, v
  <2> QED
    BY <1>10, <2>5, <2>6, <2>7 DEF x
<1>16. isAncestor(parent(other, R), pos, R)
  <2> DEFINE p == Start(r2 + 1, R) + q
  <2>1. parent(other, R) = p /\ q \in 0..(2^(R - (r2 + 1)) - 1)
    BY <1>0, <1>8, ParentIs
  <2>2. detectRow(p, R) = r2 + 1
    BY <1>0, <2>1, RowFound
  <2>3. parentMany(pos, level + 1, R) = p
    <3>1. parentMany(pos, level + 1, R) = Start(r + (level + 1), R) + (i \div 2^(level + 1))
      BY <1>0, ParentManyIs
    <3> QED
      BY <1>0, <3>1 DEF q
  <2>4. (r2 + 1) - r = level + 1 /\ level + 1 \in 0..R /\ r2 + 1 # r
    BY <1>0
  <2>5. p # pos
    <3> HIDE DEF p, pos
    <3> QED
      BY <1>11, <2>2, <2>4
  <2> HIDE DEF p, pos, level, other
  <2> QED
    BY <1>11, <2>1, <2>2, <2>3, <2>4, <2>5 DEF isAncestor
<1>17. k = (i \div 2^(level + 1)) * 2^level + (i % 2^level)
  BY DEF q, b, m
<1> HIDE DEF k
<1> QED
  BY <1>13, <1>15, <1>16, <1>17

(***************************************************************************)
(* The same for the nodes of the forest.                                   *)
(***************************************************************************)
LEMMA MoveOfNode ==
  ASSUME NEW N \in Nat, Powers(N), NEW n \in 0..N,
         NEW pos \in Numbers(n), NEW other \in Numbers(n)
  PROVE  MoveIsUndone(n, pos, other)
<1> DEFINE R == treeRows(n)
           nd == NodeOf(pos, n)
           nd2 == NodeOf(other, n)
           sib == Beside(nd2)
           r == nd.row
           i == nd.index
           r2 == nd2.row
           j == nd2.index
           level == r2 - r
           k == (i \div 2^(level + 1)) * 2^level + (i % 2^level)
           moved == Node(r + 1, k)
<1>1. nd \in Nodes(n) /\ Number(nd, R) = pos /\ nd2 \in Nodes(n) /\ Number(nd2, R) = other
  BY NodeOfNumber
<1> SUFFICES ASSUME ~ IsRoot(nd2, n), nd = sib \/ IsBelow(nd, sib)
             PROVE  /\ isAncestor(parent(other, R), pos, R)
                    /\ calcNextPosition(pos, other, R) = Number(moved, R)
                    /\ calcPrevPosition(Number(moved, R), other, R) = pos
  BY DEF MoveIsUndone
<1> HIDE DEF nd, nd2
<1>2. /\ R \in 0..N
      /\ r \in 0..R /\ i \in 0..(2^(R - r) - 1) /\ pos = Start(r, R) + i
      /\ r2 \in 0..R /\ j \in 0..(2^(R - r2) - 1) /\ other = Start(r2, R) + j
      /\ i \in Nat /\ j \in Nat
  BY <1>1, NodePlace
<1>3. r2 \in 0..(R - 1)
  BY <1>1, RootIs
<1>4. sib.row = r2 /\ sib.index = (IF j % 2 = 0 THEN j + 1 ELSE j - 1)
  BY DEF Beside, Node
<1> HIDE DEF sib
<1>5. r <= r2 /\ i \div 2^level = (IF j % 2 = 0 THEN j + 1 ELSE j - 1)
  <2>1. CASE nd = sib
    <3>1. r = r2 /\ level = 0 /\ i = (IF j % 2 = 0 THEN j + 1 ELSE j - 1)
      BY <1>2, <1>4, <2>1
    <3>2. 2^level = 1
      BY <3>1, PowerZero
    <3>3. i \div 1 = i
      BY <1>2
    <3> QED
      BY <1>2, <3>1, <3>2, <3>3
  <2>2. CASE IsBelow(nd, sib)
    BY <1>2, <1>4, <2>2 DEF IsBelow
  <2> QED
    BY <2>1, <2>2
<1>6. r2 \in r..(R - 1)
  BY <1>2, <1>3, <1>5
<1>7. /\ isAncestor(parent(other, R), pos, R)
      /\ calcNextPosition(pos, other, R) = Start(r + 1, R) + k
      /\ calcPrevPosition(Start(r + 1, R) + k, other, R) = pos
  BY <1>2, <1>5, <1>6, MoveOfPlace
<1>8. Number(moved, R) = Start(r + 1, R) + k
  <2>1. moved.row = r + 1 /\ moved.index = k /\ r + 1 \in 0..(R + 1)
    BY <1>2 DEF Node
  <2> HIDE DEF moved, k
  <2> QED
    BY <1>2, <2>1, NumberIs
<1> QED
  BY <1>7, <1>8

(***************************************************************************)
(* A set bit of n is a root, over the leaves that the higher bits leave    *)
(* free.                                                                   *)
(***************************************************************************)
LEMMA RootOnRow ==
  ASSUME NEW N \in Nat, Powers(N), NEW n \in 0..N, NEW u \in 0..treeRows(n), Bit(n, u) = 1
  PROVE  LET root == Node(u, 2 * (n \div 2^(u + 1)))
         IN  root \in Nodes(n) /\ IsRoot(root, n)
<1> DEFINE a == 2 * (n \div 2^(u + 1))
           root == Node(u, a)
<1>1. treeRows(n) \in 0..N
  BY TreeRows
<1>2. u \in 0..N /\ 2^u \in Nat /\ 2^u > 0 /\ 2^(u + 1) \in Nat /\ 2^(u + 1) > 0
  BY <1>1, PowerPositive
<1>3. n \div 2^u = a + 1 /\ n \div 2^(u + 1) \in Nat
  BY <1>2, BitOf, Divided
<1>4. a \in Nat
  BY <1>3
<1> HIDE DEF a
<1>5. (a + 1) * 2^u <= n
  BY <1>2, <1>3, <1>4, Multiples
<1>6. a + 1 <= (a + 1) * 2^u
  BY <1>2, <1>4
<1>7. a \in 0..(n - 1)
  BY <1>2, <1>4, <1>5, <1>6
<1>8. root \in Nodes(n) /\ root.row = u /\ root.index = a
  BY <1>5, <1>7 DEF Nodes, Node
<1> HIDE DEF root
<1>9. IsRoot(root, n)
  BY <1>8, RootIs DEF a
<1> QED
  BY <1>8, <1>9 DEF root, a

(***************************************************************************)
(* Every node has a root at or above it.                                   *)
(***************************************************************************)
LEMMA RootAbove ==
  ASSUME NEW N \in Nat, Powers(N), NEW n \in 0..N, NEW nd \in Nodes(n)
  PROVE  \E x \in Nodes(n) : IsRoot(x, n) /\ (x = nd \/ IsBelow(nd, x))
<1> DEFINE R == treeRows(n)
           r == nd.row
           i == nd.index
           up(h) == Node(r + h, i \div 2^h)
           H == {h \in 0..(R - r) : up((R - r) - h) \in Nodes(n)}
<1>1. R \in 0..N /\ r \in 0..R /\ i \in Nat /\ nd = Node(r, i)
  BY NodePlace
<1> HIDE DEF R, r, i
<1>2. up(0) = nd
  <2>1. 2^0 = 1 /\ r + 0 = r /\ i \div 1 = i
    BY <1>1
  <2> QED
    BY <1>1, <2>1
<1>3. R - r \in H
  <2>1. R - r \in 0..(R - r) /\ (R - r) - (R - r) = 0
    BY <1>1
  <2> QED
    BY <1>2, <2>1
<1>4. PICK g \in H : \A y \in H : g <= y
  BY <1>1, <1>3, Least, H \subseteq Nat
<1> DEFINE h == (R - r) - g
           x == up(h)
<1>5. h \in 0..(R - r) /\ x \in Nodes(n) /\ h \in 0..N /\ g \in 0..(R - r)
  BY <1>1, <1>4
<1>6. Above(x) = Node(r + h + 1, i \div 2^(h + 1))
  <2>1. 2^h \in Nat /\ 2^h > 0 /\ 2^(h + 1) = 2 * 2^h /\ 2 * 2^h = 2^h * 2
    BY <1>5, PowerPositive DEF Powers
  <2>2. (i \div 2^h) \div 2 = i \div (2^h * 2)
    BY <1>1, <2>1, DivideTwice
  <2> HIDE DEF h
  <2> QED
    BY <2>1, <2>2 DEF Above, Node
<1>7. Above(x) \notin Nodes(n)
  <2> SUFFICES ASSUME Above(x) \in Nodes(n) PROVE FALSE
    OBVIOUS
  <2>1. Above(x).row \in 0..R
    BY NodePlace DEF R
  <2>2. r + h + 1 \in 0..R
    BY <1>6, <2>1 DEF Node
  <2>3. g - 1 \in 0..(R - r) /\ (R - r) - (g - 1) = h + 1
    BY <1>1, <1>5, <2>2
  <2>4. up(h + 1) = Above(x)
    <3>1. r + (h + 1) = r + h + 1
      BY <1>1, <1>5
    <3> QED
      BY <1>6, <3>1
  <2>5. g - 1 \in H
    BY <2>3, <2>4
  <2> QED
    BY <1>4, <1>5, <2>5
<1>8. IsRoot(x, n)
  BY <1>5, <1>7 DEF IsRoot
<1>9. x = nd \/ IsBelow(nd, x)
  <2>1. CASE h = 0
    BY <1>2, <2>1
  <2>2. CASE h > 0
    <3>1. x.row = r + h /\ x.index = i \div 2^h
      BY DEF Node
    <3>2. (r + h) - r = h /\ r < r + h
      BY <1>1, <1>5, <2>2
    <3> HIDE DEF x, h
    <3>3. IsBelow(nd, x)
      BY <3>1, <3>2 DEF IsBelow, r, i
    <3> QED
      BY <3>3
  <2> QED
    BY <1>5, <2>1, <2>2
<1> QED
  BY <1>5, <1>8, <1>9

(***************************************************************************)
(* The root at or above a node is on the highest row that detectOffset's   *)
(* test finds.                                                             *)
(***************************************************************************)
LEMMA TreeOfNode ==
  ASSUME NEW N \in Nat, Powers(N), NEW n \in 0..N, NEW nd \in Nodes(n),
         NEW root \in Nodes(n), IsRoot(root, n), root = nd \/ IsBelow(nd, root)
  PROVE  LET R     == treeRows(n)
             pos   == Number(nd, R)
             trees == {t \in 0..R : /\ rootExistsOnRow(n, t)
                                    /\ (pos * 2^nd.row) % 2^(t + 1) < 2^t}
         IN  root.row \in trees /\ \A t \in trees : t <= root.row
<1> DEFINE R == treeRows(n)
           r == nd.row
           i == nd.index
           pos == Number(nd, R)
           L == i * 2^r
           T == root.row
<1>1. /\ R \in 0..N /\ r \in 0..R /\ i \in 0..(2^(R - r) - 1)
      /\ pos = Start(r, R) + i /\ i \in Nat /\ T \in 0..R
  BY NodePlace
<1>2. Bit(n, T) = 1 /\ root.index = 2 * (n \div 2^(T + 1))
  BY RootIs
<1>3. T >= r /\ i \div 2^(T - r) = root.index
  <2>1. CASE root = nd
    <3>1. T - r = 0 /\ T = r
      BY <1>1, <2>1
    <3>2. 2^(T - r) = 1
      BY <3>1, PowerZero
    <3>3. i \div 1 = i
      BY <1>1
    <3> QED
      BY <1>1, <2>1, <3>1, <3>2, <3>3
  <2>2. CASE IsBelow(nd, root)
    BY <1>1, <2>2 DEF IsBelow
  <2> QED
    BY <2>1, <2>2
<1> HIDE DEF R, r, i, pos, T
<1>4. /\ 2^r \in Nat /\ 2^r > 0 /\ 2^(T - r) \in Nat /\ 2^(T - r) > 0 /\ 2^T = 2^r * 2^(T - r)
      /\ T \in 0..N /\ 2^T \in Nat /\ 2^T > 0 /\ n \div 2^(T + 1) \in Nat
      /\ 2^(T + 1) = 2^T * 2 /\ 2^(T + 1) \in Nat /\ 2^(T + 1) > 0
  <2>1. r \in 0..(N + 1) /\ T - r \in 0..(N + 1) /\ r + (T - r) = T /\ T \in 0..N /\ T + 1 \in 0..(N + 1)
    BY <1>1, <1>3
  <2>2. /\ 2^r \in Nat /\ 2^r > 0 /\ 2^(T - r) \in Nat /\ 2^(T - r) > 0 /\ 2^T = 2^r * 2^(T - r)
        /\ 2^T \in Nat /\ 2^T > 0 /\ 2^(T + 1) = 2 * 2^T /\ 2^(T + 1) \in Nat /\ 2^(T + 1) > 0
    BY <2>1, PowerPositive, PowerSum DEF Powers
  <2>3. n \div 2^(T + 1) \in Nat
    BY <2>2, Divided
  <2> QED
    BY <2>1, <2>2, <2>3
<1>5. L \in Nat /\ L \div 2^T = 2 * (n \div 2^(T + 1))
  <2>1. L \in Nat /\ L = i * 2^r + 0 /\ 0 \in 0..(2^r - 1) /\ i \in Int /\ L \in Int
    BY <1>1, <1>4
  <2> HIDE DEF L
  <2>2. L \div 2^r = i
    BY <1>4, <2>1, DivideWhole
  <2>3. (L \div 2^r) \div 2^(T - r) = L \div (2^r * 2^(T - r))
    BY <1>4, <2>1, DivideTwice
  <2> QED
    BY <1>2, <1>3, <1>4, <2>1, <2>2, <2>3
<1> HIDE DEF L
<1>6. L \div 2^(T + 1) = n \div 2^(T + 1) /\ Bit(L, T) = 0
  <2> DEFINE z == n \div 2^(T + 1)
  <2>1. (L \div 2^T) \div 2 = L \div (2^T * 2)
    BY <1>4, <1>5, DivideTwice
  <2>2. z \in Nat /\ L \div 2^T = 2 * z
    BY <1>4, <1>5
  <2> HIDE DEF z
  <2>3. (2 * z) \div 2 = z /\ (2 * z) % 2 = 0
    BY <2>2
  <2> QED
    BY <1>4, <2>1, <2>2, <2>3 DEF z, Bit
<1>7. ASSUME NEW t \in 0..R
      PROVE  (pos * 2^r) % 2^(t + 1) = L % 2^(t + 1)
  <2> DEFINE b == 2^(t + 1)
             d == 2^(R - t)
             w == 2^(R + 1)
  <2>1. b \in Nat /\ b > 0 /\ d \in Nat /\ w = b * d /\ w \in Nat
    <3>1. t + 1 \in 0..(N + 1) /\ R - t \in 0..(N + 1) /\ (t + 1) + (R - t) = R + 1 /\ R + 1 \in 0..(N + 1)
      BY <1>1
    <3> QED
      BY <3>1, PowerPositive, PowerSum
  <2>2. Start(r, R) * 2^r = (2^r - 1) * w
    <3>1. (R + 1 - r) + r = R + 1 /\ R + 1 - r \in 0..(N + 1) /\ r \in Nat /\ R + 1 <= N + 1
      BY <1>1
    <3>2. w = 2^(R + 1 - r) * 2^r /\ 2^(R + 1 - r) \in Nat
      BY <3>1, PowerSum, PowerPositive
    <3>3. Start(r, R) = w - 2^(R + 1 - r)
      BY DEF Start
    <3> HIDE DEF w
    <3> QED
      BY <1>4, <2>1, <3>2, <3>3
  <2>3. Start(r, R) \in Nat
    BY <1>1, Place
  <2> DEFINE c == (2^r - 1) * d
  <2> HIDE DEF b, d, w
  <2>4. pos * 2^r = c * b + L /\ c \in Int
    <3>1. pos * 2^r = Start(r, R) * 2^r + L
      BY <1>1, <1>4, <2>3 DEF L
    <3>2. (2^r - 1) * w = c * b
      BY <1>4, <2>1
    <3> QED
      BY <1>4, <2>1, <2>2, <3>1, <3>2
  <2> HIDE DEF c
  <2>5. (c * b + L) % b = L % b
    BY <1>5, <2>1, <2>4, AddMultiple
  <2> QED
    BY <2>4, <2>5 DEF b
<1>8. ASSUME NEW t \in 0..R
      PROVE  (pos * 2^r) % 2^(t + 1) < 2^t <=> Bit(L, t) = 0
  <2>1. t \in 0..N
    BY <1>1
  <2> QED
    BY <1>5, <1>7, <2>1, LowHalf
<1>9. ASSUME NEW t \in 0..R, Bit(n, t) = 1, Bit(L, t) = 0
      PROVE  t <= T
  <2> SUFFICES ASSUME ~ (t <= T) PROVE FALSE
    OBVIOUS
  <2>1. t - (T + 1) \in 0..(N + 1) /\ (T + 1) + (t - (T + 1)) = t /\ T + 1 \in 0..(N + 1) /\ t <= N
    BY <1>1
  <2>2. 2^t = 2^(T + 1) * 2^(t - (T + 1)) /\ 2^(t - (T + 1)) \in Nat /\ 2^(t - (T + 1)) > 0
    BY <2>1, PowerSum, PowerPositive
  <2>3. /\ (L \div 2^(T + 1)) \div 2^(t - (T + 1)) = L \div (2^(T + 1) * 2^(t - (T + 1)))
        /\ (n \div 2^(T + 1)) \div 2^(t - (T + 1)) = n \div (2^(T + 1) * 2^(t - (T + 1)))
    BY <1>4, <1>5, <2>2, DivideTwice
  <2>4. L \div 2^t = n \div 2^t
    BY <1>6, <2>2, <2>3
  <2>5. Bit(L, t) = Bit(n, t)
    BY <2>4 DEF Bit
  <2> QED
    BY <1>9, <2>5
<1> QED
  BY <1>1, <1>2, <1>6, <1>8, <1>9 DEF rootExistsOnRow, R, r, pos, T

(***************************************************************************)
(* detectOffset counts the bigger trees, and the rows from the root down   *)
(* to the node.                                                            *)
(***************************************************************************)
LEMMA OffsetOfNode ==
  ASSUME NEW N \in Nat, Powers(N), NEW n \in 0..N, NEW pos \in Numbers(n)
  PROVE  OffsetIsOfTree(n, pos)
<1> DEFINE R == treeRows(n)
           nd == NodeOf(pos, n)
           root == CHOOSE x \in Nodes(n) : IsRoot(x, n) /\ (x = nd \/ IsBelow(nd, x))
           T == root.row
           trees == {t \in 0..R : /\ rootExistsOnRow(n, t)
                                  /\ (pos * 2^nd.row) % 2^(t + 1) < 2^t}
           higher == {u \in (T + 1)..R : rootExistsOnRow(n, u)}
           bigger == {x \in Nodes(n) : IsRoot(x, n) /\ x.row > T}
<1>1. nd \in Nodes(n) /\ Number(nd, R) = pos
  BY NodeOfNumber
<1> HIDE DEF nd
<1>2. root \in Nodes(n) /\ IsRoot(root, n) /\ (root = nd \/ IsBelow(nd, root))
  BY <1>1, RootAbove
<1> HIDE DEF root
<1>3. T \in trees /\ \A t \in trees : t <= T
  BY <1>1, <1>2, TreeOfNode
<1>4. R \in 0..N /\ T \in 0..R /\ detectRow(pos, R) = nd.row
  BY <1>1, <1>2, NodePlace
<1> HIDE DEF T
<1>5. Max(trees) = T /\ trees # {}
  <2>1. trees \in SUBSET Nat
    BY <1>4
  <2> HIDE DEF trees
  <2> QED
    BY <1>3, <2>1, MaxOf
<1>6. detectOffset(pos, n) = [tree |-> Cardinality(higher), branchLen |-> T - nd.row]
  BY <1>4, <1>5 DEF detectOffset
<1>7. Cardinality(bigger) = Cardinality(higher)
  <2> DEFINE f == [u \in higher |-> Node(u, 2 * (n \div 2^(u + 1)))]
  <2>1. IsFiniteSet(higher)
    <3>1. IsFiniteSet((T + 1)..R)
      BY <1>4, FS_Interval
    <3> QED
      BY <3>1, FS_Subset
  <2>2. ASSUME NEW u \in higher PROVE f[u] \in bigger /\ f[u].row = u
    <3>1. u \in 0..R /\ Bit(n, u) = 1 /\ u > T
      BY <1>4 DEF rootExistsOnRow
    <3>2. f[u] \in Nodes(n) /\ IsRoot(f[u], n)
      BY <3>1, RootOnRow
    <3>3. f[u].row = u
      BY DEF Node
    <3> HIDE DEF f
    <3> QED
      BY <3>1, <3>2, <3>3
  <2>3. f \in [higher -> bigger] /\ \A x, y \in higher : f[x] = f[y] => x = y
    <3>1. f = [u \in higher |-> f[u]]
      OBVIOUS
    <3> HIDE DEF f, bigger, higher
    <3> QED
      BY <2>2, <3>1
  <2>4. ASSUME NEW x \in bigger PROVE \E u \in higher : f[u] = x
    <3>1. /\ x.row \in 0..R /\ x = Node(x.row, x.index)
          /\ Bit(n, x.row) = 1 /\ x.index = 2 * (n \div 2^(x.row + 1))
      BY NodePlace, RootIs
    <3>2. x.row \in higher
      BY <1>4, <3>1 DEF rootExistsOnRow
    <3>3. f[x.row] = x
      BY <3>1, <3>2
    <3> QED
      BY <3>2, <3>3
  <2> HIDE DEF f, bigger, higher
  <2> QED
    BY <2>1, <2>3, <2>4, SameCount
<1>8. detectOffset(pos, n) = [tree |-> Cardinality(bigger), branchLen |-> T - nd.row]
  BY <1>6, <1>7
<1> QED
  BY <1>8 DEF OffsetIsOfTree, T, root, nd

(***************************************************************************)
(* translatePos keeps the row and the index.                               *)
(***************************************************************************)
LEMMA TranslatePlace ==
  ASSUME NEW N \in Nat, Powers(N), NEW R \in 0..N, NEW T \in 0..N, NEW r, r \in 0..R, r \in 0..T,
         NEW i \in 0..(2^(R - r) - 1)
  PROVE  translatePos(Start(r, R) + i, R, T) = Start(r, T) + i
<1>1. detectRow(Start(r, R) + i, R) = r
  BY RowFound
<1>2. /\ Start(r, R) \in Nat /\ 2^(R - r) \in Nat
      /\ Start(r, T) \in Nat
  BY Place
<1>3. startPositionAtRow(r, R) = Start(r, R) /\ startPositionAtRow(r, T) = Start(r, T)
  BY DEF startPositionAtRow, Start
<1>4. r = 0 => Start(r, R) = Start(r, T)
  <2>1. 2^(R + 1) \in Nat /\ 2^(T + 1) \in Nat
    BY PowerPositive
  <2>2. r = 0 => R + 1 - r = R + 1 /\ T + 1 - r = T + 1
    OBVIOUS
  <2> QED
    BY <2>1, <2>2 DEF Start
<1> HIDE DEF Start
<1> QED
  BY <1>1, <1>2, <1>3, <1>4 DEF translatePos

(***************************************************************************)
(* Translating a position to a taller numbering keeps its node, comes      *)
(* back, and keeps whether it is a root.                                   *)
(***************************************************************************)
LEMMA TranslationOfNode ==
  ASSUME NEW N \in Nat, Powers(N), NEW n \in 0..N, NEW pos \in Numbers(n),
         NEW total \in treeRows(n)..N
  PROVE  TranslationIsOfTree(n, pos, total)
<1> DEFINE R == treeRows(n)
           nd == NodeOf(pos, n)
           r == nd.row
           i == nd.index
           taller == translatePos(pos, R, total)
<1>1. nd \in Nodes(n) /\ Number(nd, R) = pos
  BY NodeOfNumber
<1>2. /\ R \in 0..N /\ r \in 0..R /\ i \in 0..(2^(R - r) - 1)
      /\ pos = Start(r, R) + i
      /\ detectRow(pos, R) = r
  BY <1>1, NodePlace
<1>3. total \in 0..N /\ r \in 0..total /\ total - r \in 0..N /\ R - r \in 0..N /\ R - r <= total - r
      /\ R - r \in 0..(total - r)
  BY <1>2
<1>4. taller = Start(r, total) + i
  BY <1>2, <1>3, TranslatePlace
<1>5. taller = Number(nd, total)
  <2>1. r \in 0..(total + 1)
    BY <1>3
  <2> QED
    BY <1>3, <1>4, <2>1, NumberIs
<1>6. 2^(R - r) \in Nat /\ 2^(total - r) \in Nat /\ 2^(R - r) <= 2^(total - r)
  BY <1>3, PowerPositive, PowerMonotone
<1>7. i \in 0..(2^(total - r) - 1)
  BY <1>2, <1>6
<1>8. translatePos(taller, total, R) = pos
  BY <1>2, <1>3, <1>4, <1>7, TranslatePlace
<1>9. R = total => taller = pos
  BY <1>2, <1>4
<1>10. (IF R = total THEN taller ELSE translatePos(taller, total, R)) = pos
  BY <1>8, <1>9
<1>11. FamilyIsOfTree(n, pos)
  BY FamilyOfNode
<1>12. isRootPosition(pos, n) <=> IsRoot(nd, n)
  BY <1>11 DEF FamilyIsOfTree
<1>13. isRootPositionOnRow(pos, n, r) <=> IsRoot(nd, n)
  BY <1>2, <1>12 DEF isRootPosition
<1> QED
  BY <1>5, <1>8, <1>10, <1>12, <1>13
     DEF TranslationIsOfTree, isRootPositionTotalRows, isRootPositionOnRowTotalRows

(***************************************************************************)
(* RootPositions of a taller numbering are the translated ones, and they   *)
(* are the tree's roots.                                                   *)
(***************************************************************************)
LEMMA RootsTranslated ==
  ASSUME NEW N \in Nat, Powers(N), NEW n \in 0..N, NEW total \in treeRows(n)..N
  PROVE  /\ RootPositions(n, total)
              = translatePositions(RootPositions(n, treeRows(n)), treeRows(n), total)
         /\ Range(RootPositions(n, total)) = {Number(r, total) : r \in {x \in Nodes(n) : IsRoot(x, n)}}
<1> DEFINE R == treeRows(n)
           s == RootRows(n)
           c == Len(s)
           root(h) == Node(h, 2 * (n \div 2^(h + 1)))
<1>1. R \in 0..N /\ total \in 0..N /\ R <= total
  BY TreeRows
<1>2. /\ c \in Nat /\ DOMAIN s = 1..c
      /\ \A k \in 1..c : s[k] \in 0..R /\ rootExistsOnRow(n, s[k])
      /\ \A h \in 0..R : rootExistsOnRow(n, h) => \E k \in 1..c : s[k] = h
  BY RootRowsIs
<1> HIDE DEF s, c
<1>3. ASSUME NEW h \in 0..R, rootExistsOnRow(n, h)
      PROVE  /\ root(h) \in Nodes(n) /\ IsRoot(root(h), n)
             /\ rootPosition(n, h, R) = Number(root(h), R)
             /\ rootPosition(n, h, total) = Number(root(h), total)
             /\ translatePos(rootPosition(n, h, R), R, total) = rootPosition(n, h, total)
  <2>1. Bit(n, h) = 1
    BY <1>3 DEF rootExistsOnRow
  <2>2. root(h) \in Nodes(n) /\ IsRoot(root(h), n)
    BY <2>1, RootOnRow
  <2>3. root(h).row = h /\ root(h).index = 2 * (n \div 2^(h + 1))
    BY DEF Node
  <2>4. h \in 0..total /\ h \in 0..(total + 1) /\ h \in 0..(R + 1)
    BY <1>1
  <2>5. root(h).index \in 0..(2^(R - h) - 1) /\ root(h).index \in Nat
    <3>1. root(h).index \in 0..(2^(R - h) - 1) /\ root(h).index \in 0..(n - 1)
      BY <2>2, <2>3, NodePlace
    <3> HIDE DEF root
    <3> QED
      BY <3>1
  <2>6. rootPosition(n, h, R) = Start(h, R) + root(h).index
    BY <1>1, <2>3, <2>5, RootPositionIs
  <2>7. rootPosition(n, h, total) = Start(h, total) + root(h).index
    BY <1>1, <2>3, <2>4, <2>5, RootPositionIs
  <2>8. Number(root(h), R) = Start(h, R) + root(h).index /\ Number(root(h), total) = Start(h, total) + root(h).index
    <3> HIDE DEF root
    <3> QED
      BY <1>1, <2>3, <2>4, NumberIs
  <2>9. translatePos(Start(h, R) + root(h).index, R, total) = Start(h, total) + root(h).index
    BY <1>1, <2>4, <2>5, TranslatePlace
  <2> QED
    BY <2>2, <2>6, <2>7, <2>8, <2>9
<1>4. /\ RootPositions(n, R) = [k \in 1..c |-> rootPosition(n, s[k], R)]
      /\ RootPositions(n, total) = [k \in 1..c |-> rootPosition(n, s[k], total)]
  BY DEF RootPositions, s, c
<1>5. RootPositions(n, total) = translatePositions(RootPositions(n, R), R, total)
  <2>1. \A k \in 1..c : translatePos(rootPosition(n, s[k], R), R, total) = rootPosition(n, s[k], total)
    BY <1>2, <1>3
  <2> HIDE DEF R
  <2> QED
    BY <1>4, <2>1 DEF translatePositions
<1>6. ASSUME NEW x \in Nodes(n), IsRoot(x, n)
      PROVE  x.row \in 0..R /\ rootExistsOnRow(n, x.row) /\ x = root(x.row)
  <2>1. x.row \in 0..R /\ x = Node(x.row, x.index)
    BY NodePlace
  <2>2. Bit(n, x.row) = 1 /\ x.index = 2 * (n \div 2^(x.row + 1))
    BY <1>6, RootIs
  <2> QED
    BY <2>1, <2>2 DEF rootExistsOnRow
<1>7. Range(RootPositions(n, total)) = {Number(r, total) : r \in {x \in Nodes(n) : IsRoot(x, n)}}
  <2> DEFINE A == {rootPosition(n, s[k], total) : k \in 1..c}
             B == {Number(r, total) : r \in {x \in Nodes(n) : IsRoot(x, n)}}
  <2>1. Range(RootPositions(n, total)) = A
    BY <1>4 DEF Range
  <2>2. ASSUME NEW k \in 1..c PROVE rootPosition(n, s[k], total) \in B
    <3>1. s[k] \in 0..R /\ rootExistsOnRow(n, s[k])
      BY <1>2
    <3>2. root(s[k]) \in Nodes(n) /\ IsRoot(root(s[k]), n) /\ rootPosition(n, s[k], total) = Number(root(s[k]), total)
      BY <1>3, <3>1
    <3> QED
      BY <3>2
  <2>3. ASSUME NEW x \in Nodes(n), IsRoot(x, n) PROVE Number(x, total) \in A
    <3>1. x.row \in 0..R /\ rootExistsOnRow(n, x.row) /\ x = root(x.row)
      BY <1>6, <2>3
    <3>2. PICK k \in 1..c : s[k] = x.row
      BY <1>2, <3>1
    <3>3. rootPosition(n, x.row, total) = Number(root(x.row), total)
      BY <1>3, <3>1
    <3> HIDE DEF root
    <3> QED
      BY <3>1, <3>2, <3>3
  <2> QED
    BY <2>1, <2>2, <2>3
<1> QED
  BY <1>5, <1>7

=============================================================================
