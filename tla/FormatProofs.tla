---------------------------- MODULE FormatProofs ----------------------------
(***************************************************************************)
(* Proofs about module Format, for words of up to eight hex digits, any    *)
(* value and a format of any length.                                       *)
(***************************************************************************)
EXTENDS Format, TLAPS, WellFoundedInduction, SequenceTheorems

\* Every non-empty set of naturals has a least element: an induction that fails
\* fails first somewhere.
LEMMA LeastNatural ==
  ASSUME NEW T \in SUBSET Nat, T # {}
  PROVE  \E n \in T : \A k \in T : n <= k
<1>1. PICK n \in T : \A k \in T : ~ (<<k, n>> \in OpToRel(<, Nat))
  BY WFMin, NatLessThanWellFounded, Zenon
<1>2. \A k \in T : ~ (k < n)
  BY <1>1, Zenon DEF OpToRel
<1> QED
  BY <1>2

-----------------------------------------------------------------------------
(* Quotients, remainders and powers. *)

\* A quotient and a remainder in one way.
LEMMA DivUnique ==
  ASSUME NEW n \in Nat \ {0}, NEW q \in Int, NEW p \in Int, NEW r \in 0 .. n - 1, NEW s \in 0 .. n - 1,
         q * n + r = p * n + s
  PROVE  q = p /\ r = s
<1>1. ASSUME NEW u \in Int, NEW v \in Int, u < v PROVE u * n + n <= v * n
  <2>1. PICK z \in Nat : v = u + 1 + z
    <3>1. v - u - 1 \in Nat /\ v = u + 1 + (v - u - 1)
      BY <1>1
    <3> QED
      BY <3>1
  <2>2. v * n = u * n + n + z * n /\ z * n \in Nat
    BY <2>1
  <2> QED
    BY <2>2
<1>2. q * n \in Int /\ p * n \in Int
  OBVIOUS
<1>3. ~(q < p)
  BY <1>1, <1>2
<1>4. ~(p < q)
  BY <1>1, <1>2
<1>5. q = p
  BY <1>3, <1>4
<1> QED
  BY <1>2, <1>5

LEMMA DivIs ==
  ASSUME NEW n \in Nat \ {0}, NEW q \in Nat, NEW r \in 0 .. n - 1, NEW a, a = q * n + r
  PROVE  a \div n = q /\ a % n = r
<1>1. PICK k \in Nat : k = a
  <2>1. q * n \in Nat
    OBVIOUS
  <2> QED
    BY <2>1
<1>2. k \div n \in Int /\ k % n \in 0 .. n - 1
  OBVIOUS
<1>3. k = (k \div n) * n + (k % n)
  OBVIOUS
<1>4. PICK u \in Int, v \in 0 .. n - 1 : u = k \div n /\ v = k % n /\ k = u * n + v
  BY <1>2, <1>3
<1>5. q * n + r = u * n + v
  BY <1>1, <1>4
<1>6. q = u /\ r = v
  BY <1>5, DivUnique
<1> QED
  BY <1>1, <1>4, <1>6

LEMMA DivOf ==
  ASSUME NEW a \in Nat, NEW n \in Nat \ {0}
  PROVE  \E q \in Nat, r \in 0 .. n - 1 : a = q * n + r /\ a \div n = q /\ a % n = r
<1>1. a \div n \in Nat /\ a % n \in 0 .. n - 1
  OBVIOUS
<1>2. a = (a \div n) * n + (a % n)
  OBVIOUS
<1> QED
  BY <1>1, <1>2

\* Dividing twice is dividing by the product.
LEMMA DivTwice ==
  ASSUME NEW a \in Nat, NEW n \in Nat \ {0}, NEW c \in Nat \ {0}
  PROVE  (a \div n) \div c = a \div (c * n)
<1>1. PICK q \in Nat, r \in 0 .. n - 1 : a = q * n + r /\ a \div n = q
  BY DivOf
<1>2. PICK u \in Nat, v \in 0 .. c - 1 : q = u * c + v /\ q \div c = u
  BY DivOf
<1>3. PICK m \in Nat \ {0} : m = c * n
  BY SMT
<1>4. PICK w \in Nat : w = v * n + r
  BY SMT
<1>5. v * n + n <= c * n
  <2>1. PICK z \in Nat : c = v + 1 + z
    <3>1. c - v - 1 \in Nat /\ c = v + 1 + (c - v - 1)
      OBVIOUS
    <3> QED
      BY <3>1
  <2>2. c * n = v * n + n + z * n /\ z * n \in Nat
    BY <2>1
  <2> QED
    BY <2>2
<1>6. w \in 0 .. m - 1
  BY <1>3, <1>4, <1>5
<1>7. a = u * m + w
  <2>1. a = (u * c + v) * n + r
    BY <1>1, <1>2
  <2>2. (u * c + v) * n = u * (c * n) + v * n
    OBVIOUS
  <2> QED
    BY <1>3, <1>4, <2>1, <2>2
<1>8. a \div m = u
  BY <1>6, <1>7, DivIs
<1> QED
  BY <1>1, <1>2, <1>3, <1>8

Ten(k) == 10 ^ k

LEMMA TenAre ==
  /\ Ten(0) = 1 /\ Ten(1) = 10 /\ Ten(2) = 100 /\ Ten(3) = 1000 /\ Ten(4) = 10000 /\ Ten(5) = 100000
  /\ Ten(6) = 1000000 /\ Ten(7) = 10000000 /\ Ten(8) = 100000000 /\ Ten(9) = 1000000000 /\ Ten(10) = 10000000000
  BY SMT DEF Ten

LEMMA TenTop == Ten(10) \in Nat
  BY TenAre, SMT

LEMMA TenGrow ==
  ASSUME NEW k \in 0 .. 10
  PROVE  /\ Ten(k) \in Nat \ {0}
         /\ k < 10 => Ten(k + 1) = 10 * Ten(k)
<1>1. CASE k = 0
  <2>1. Ten(k) = Ten(0) /\ Ten(k + 1) = Ten(1)
    BY <1>1
  <2> QED
    BY <1>1, <2>1, TenAre, SMT
<1>2. CASE k = 1
  <2>1. Ten(k) = Ten(1) /\ Ten(k + 1) = Ten(2)
    BY <1>2
  <2> QED
    BY <1>2, <2>1, TenAre, SMT
<1>3. CASE k = 2
  <2>1. Ten(k) = Ten(2) /\ Ten(k + 1) = Ten(3)
    BY <1>3
  <2> QED
    BY <1>3, <2>1, TenAre, SMT
<1>4. CASE k = 3
  <2>1. Ten(k) = Ten(3) /\ Ten(k + 1) = Ten(4)
    BY <1>4
  <2> QED
    BY <1>4, <2>1, TenAre, SMT
<1>5. CASE k = 4
  <2>1. Ten(k) = Ten(4) /\ Ten(k + 1) = Ten(5)
    BY <1>5
  <2> QED
    BY <1>5, <2>1, TenAre, SMT
<1>6. CASE k = 5
  <2>1. Ten(k) = Ten(5) /\ Ten(k + 1) = Ten(6)
    BY <1>6
  <2> QED
    BY <1>6, <2>1, TenAre, SMT
<1>7. CASE k = 6
  <2>1. Ten(k) = Ten(6) /\ Ten(k + 1) = Ten(7)
    BY <1>7
  <2> QED
    BY <1>7, <2>1, TenAre, SMT
<1>8. CASE k = 7
  <2>1. Ten(k) = Ten(7) /\ Ten(k + 1) = Ten(8)
    BY <1>8
  <2> QED
    BY <1>8, <2>1, TenAre, SMT
<1>9. CASE k = 8
  <2>1. Ten(k) = Ten(8) /\ Ten(k + 1) = Ten(9)
    BY <1>9
  <2> QED
    BY <1>9, <2>1, TenAre, SMT
<1>10. CASE k = 9
  <2>1. Ten(k) = Ten(9) /\ Ten(k + 1) = Ten(10)
    BY <1>10
  <2> QED
    BY <1>10, <2>1, TenAre, SMT
<1>11. CASE k = 10
  <2>1. Ten(k) = Ten(10)
    BY <1>11
  <2> QED
    BY <1>11, <2>1, TenAre, SMT
<1> QED
  BY <1>1, <1>2, <1>3, <1>4, <1>5, <1>6, <1>7, <1>8, <1>9, <1>10, <1>11

Sixteen(k) == 16 ^ k

LEMMA SixteenAre ==
  /\ Sixteen(0) = 1 /\ Sixteen(1) = 16 /\ Sixteen(2) = 256 /\ Sixteen(3) = 4096 /\ Sixteen(4) = 65536 /\ Sixteen(5) = 1048576
  /\ Sixteen(6) = 16777216 /\ Sixteen(7) = 268435456 /\ Sixteen(8) = 4294967296 /\ Sixteen(9) = 68719476736
  BY SMT DEF Sixteen

LEMMA SixteenGrow ==
  ASSUME NEW k \in 0 .. 9
  PROVE  /\ Sixteen(k) \in Nat \ {0}
         /\ k < 9 => Sixteen(k + 1) = 16 * Sixteen(k)
<1>1. CASE k = 0
  <2>1. Sixteen(k) = Sixteen(0) /\ Sixteen(k + 1) = Sixteen(1)
    BY <1>1
  <2> QED
    BY <1>1, <2>1, SixteenAre, SMT
<1>2. CASE k = 1
  <2>1. Sixteen(k) = Sixteen(1) /\ Sixteen(k + 1) = Sixteen(2)
    BY <1>2
  <2> QED
    BY <1>2, <2>1, SixteenAre, SMT
<1>3. CASE k = 2
  <2>1. Sixteen(k) = Sixteen(2) /\ Sixteen(k + 1) = Sixteen(3)
    BY <1>3
  <2> QED
    BY <1>3, <2>1, SixteenAre, SMT
<1>4. CASE k = 3
  <2>1. Sixteen(k) = Sixteen(3) /\ Sixteen(k + 1) = Sixteen(4)
    BY <1>4
  <2> QED
    BY <1>4, <2>1, SixteenAre, SMT
<1>5. CASE k = 4
  <2>1. Sixteen(k) = Sixteen(4) /\ Sixteen(k + 1) = Sixteen(5)
    BY <1>5
  <2> QED
    BY <1>5, <2>1, SixteenAre, SMT
<1>6. CASE k = 5
  <2>1. Sixteen(k) = Sixteen(5) /\ Sixteen(k + 1) = Sixteen(6)
    BY <1>6
  <2> QED
    BY <1>6, <2>1, SixteenAre, SMT
<1>7. CASE k = 6
  <2>1. Sixteen(k) = Sixteen(6) /\ Sixteen(k + 1) = Sixteen(7)
    BY <1>7
  <2> QED
    BY <1>7, <2>1, SixteenAre, SMT
<1>8. CASE k = 7
  <2>1. Sixteen(k) = Sixteen(7) /\ Sixteen(k + 1) = Sixteen(8)
    BY <1>8
  <2> QED
    BY <1>8, <2>1, SixteenAre, SMT
<1>9. CASE k = 8
  <2>1. Sixteen(k) = Sixteen(8) /\ Sixteen(k + 1) = Sixteen(9)
    BY <1>9
  <2> QED
    BY <1>9, <2>1, SixteenAre, SMT
<1>10. CASE k = 9
  <2>1. Sixteen(k) = Sixteen(9)
    BY <1>10
  <2> QED
    BY <1>10, <2>1, SixteenAre, SMT
<1> QED
  BY <1>1, <1>2, <1>3, <1>4, <1>5, <1>6, <1>7, <1>8, <1>9, <1>10

LEMMA TenOrder ==
  ASSUME NEW j \in 0 .. 10, NEW k \in 0 .. 10, j <= k
  PROVE  Ten(j) <= Ten(k)
<1> SUFFICES ASSUME ~(Ten(j) <= Ten(k)) PROVE FALSE
  OBVIOUS
<1>1. PICK T \in SUBSET Nat : T = {m \in 0 .. 10 : j <= m /\ ~(Ten(j) <= Ten(m))}
  <2>1. {m \in 0 .. 10 : j <= m /\ ~(Ten(j) <= Ten(m))} \in SUBSET Nat
    OBVIOUS
  <2> QED
    BY <2>1
<1>2. PICK m \in T : \A n \in T : m <= n
  <2>1. k \in T
    BY <1>1
  <2> QED
    BY <2>1, LeastNatural
<1>3. m \in 0 .. 10 /\ j <= m /\ ~(Ten(j) <= Ten(m))
  BY <1>1, <1>2
<1>4. Ten(j) \in Nat
  BY TenGrow
<1>5. m # j
  BY <1>3, <1>4
<1>6. PICK p \in 0 .. 10 : p = m - 1 /\ j <= p /\ p < 10 /\ p + 1 = m
  BY <1>3, <1>5
<1>7. Ten(p) \in Nat /\ Ten(m) = 10 * Ten(p)
  BY <1>6, TenGrow
<1>8. p \notin T
  BY <1>2, <1>6
<1>9. Ten(j) <= Ten(p)
  BY <1>1, <1>6, <1>8
<1> QED
  BY <1>3, <1>4, <1>7, <1>9

LEMMA SixteenOrder ==
  ASSUME NEW j \in 0 .. 9, NEW k \in 0 .. 9, j <= k
  PROVE  Sixteen(j) <= Sixteen(k)
<1> SUFFICES ASSUME ~(Sixteen(j) <= Sixteen(k)) PROVE FALSE
  OBVIOUS
<1>1. PICK T \in SUBSET Nat : T = {m \in 0 .. 9 : j <= m /\ ~(Sixteen(j) <= Sixteen(m))}
  <2>1. {m \in 0 .. 9 : j <= m /\ ~(Sixteen(j) <= Sixteen(m))} \in SUBSET Nat
    OBVIOUS
  <2> QED
    BY <2>1
<1>2. PICK m \in T : \A n \in T : m <= n
  <2>1. k \in T
    BY <1>1
  <2> QED
    BY <2>1, LeastNatural
<1>3. m \in 0 .. 9 /\ j <= m /\ ~(Sixteen(j) <= Sixteen(m))
  BY <1>1, <1>2
<1>4. Sixteen(j) \in Nat
  BY SixteenGrow
<1>5. m # j
  BY <1>3, <1>4
<1>6. PICK p \in 0 .. 9 : p = m - 1 /\ j <= p /\ p < 9 /\ p + 1 = m
  BY <1>3, <1>5
<1>7. Sixteen(p) \in Nat /\ Sixteen(m) = 16 * Sixteen(p)
  BY <1>6, SixteenGrow
<1>8. p \notin T
  BY <1>2, <1>6
<1>9. Sixteen(j) <= Sixteen(p)
  BY <1>1, <1>6, <1>8
<1> QED
  BY <1>3, <1>4, <1>7, <1>9

\* The number of digits is the power of the base a number is below.
LEMMA TenDigits ==
  ASSUME NEW n \in Nat \ {0}, NEW m \in 1 .. 10, Ten(m - 1) <= n, n < Ten(m)
  PROVE  Digits(n, 10) = m
<1>1. \A k \in 1 .. 10 : 10 ^ k = Ten(k) /\ 10 ^ (k - 1) = Ten(k - 1)
  BY Zenon DEF Ten
<1>2. m \in 1 .. 10 /\ m - 1 \in 0 .. 10 /\ m \in 0 .. 10
  BY SMT
<1>3. \E k \in 1 .. 10 : 10 ^ (k - 1) <= n /\ n < 10 ^ k
  BY <1>1, <1>2, Zenon
<1>4. n # 0
  OBVIOUS
<1>5. Digits(n, 10) \in 1 .. 10 /\ 10 ^ (Digits(n, 10) - 1) <= n /\ n < 10 ^ Digits(n, 10)
  BY <1>3, <1>4, Zenon DEF Digits
<1>6. PICK k \in 1 .. 10 : k = Digits(n, 10)
  BY <1>5, Zenon
<1>7. Ten(k - 1) <= n /\ n < Ten(k)
  BY <1>1, <1>5, <1>6, Zenon
<1>8. Ten(m) \in Nat /\ Ten(m - 1) \in Nat /\ k - 1 \in 0 .. 10 /\ Ten(k - 1) \in Nat
  BY <1>2, TenGrow
<1>9. ~(k > m)
  <2> SUFFICES ASSUME k > m PROVE FALSE
    OBVIOUS
  <2>1. m <= k - 1
    OBVIOUS
  <2>2. Ten(m) <= Ten(k - 1)
    BY <1>2, <1>8, <2>1, TenOrder
  <2> QED
    BY <1>7, <1>8, <2>2
<1>10. ~(k < m)
  <2> SUFFICES ASSUME k < m PROVE FALSE
    OBVIOUS
  <2>1. k <= m - 1 /\ k \in 0 .. 10
    BY SMT
  <2>2. Ten(k) <= Ten(m - 1) /\ Ten(k) \in Nat
    BY <1>2, <2>1, TenOrder, TenGrow
  <2> QED
    BY <1>7, <1>8, <2>2
<1> QED
  BY <1>6, <1>9, <1>10

LEMMA TenHasDigits ==
  ASSUME NEW n \in Nat \ {0}, n < Ten(10)
  PROVE  \E m \in 1 .. 10 : Ten(m - 1) <= n /\ n < Ten(m)
<1>1. PICK T \in SUBSET Nat : T = {m \in 0 .. 10 : n < Ten(m)}
  <2>1. {m \in 0 .. 10 : n < Ten(m)} \in SUBSET Nat
    OBVIOUS
  <2> QED
    BY <2>1
<1>2. PICK m \in T : \A k \in T : m <= k
  <2>1. 10 \in T
    BY <1>1
  <2> QED
    BY <2>1, LeastNatural
<1>3. m \in 0 .. 10 /\ n < Ten(m)
  BY <1>1, <1>2
<1>4. m # 0
  <2>1. Ten(0) = 1
    BY TenAre
  <2> QED
    BY <1>3, <2>1
<1>5. m \in 1 .. 10 /\ m - 1 \in 0 .. 10 /\ ~(m <= m - 1) /\ m - 1 \in 0 .. 10
  BY <1>3, <1>4
<1>6. ~(n < Ten(m - 1))
  BY <1>1, <1>2, <1>5
<1>7. Ten(m - 1) \in Nat
  BY <1>5, TenGrow
<1> QED
  BY <1>3, <1>5, <1>6, <1>7

\* The number of digits is the power of the base a number is below.
LEMMA SixteenDigits ==
  ASSUME NEW n \in Nat \ {0}, NEW m \in 1 .. 8, Sixteen(m - 1) <= n, n < Sixteen(m)
  PROVE  Digits(n, 16) = m
<1>1. \A k \in 1 .. 10 : 16 ^ k = Sixteen(k) /\ 16 ^ (k - 1) = Sixteen(k - 1)
  BY Zenon DEF Sixteen
<1>2. m \in 1 .. 10 /\ m - 1 \in 0 .. 9 /\ m \in 0 .. 9
  BY SMT
<1>3. \E k \in 1 .. 10 : 16 ^ (k - 1) <= n /\ n < 16 ^ k
  BY <1>1, <1>2, Zenon
<1>4. n # 0
  OBVIOUS
<1>5. Digits(n, 16) \in 1 .. 10 /\ 16 ^ (Digits(n, 16) - 1) <= n /\ n < 16 ^ Digits(n, 16)
  BY <1>3, <1>4, Zenon DEF Digits
<1>6. PICK k \in 1 .. 10 : k = Digits(n, 16)
  BY <1>5, Zenon
<1>7. Sixteen(k - 1) <= n /\ n < Sixteen(k)
  BY <1>1, <1>5, <1>6, Zenon
<1>8. Sixteen(m) \in Nat /\ Sixteen(m - 1) \in Nat /\ k - 1 \in 0 .. 9 /\ Sixteen(k - 1) \in Nat
  BY <1>2, SixteenGrow
<1>9. ~(k > m)
  <2> SUFFICES ASSUME k > m PROVE FALSE
    OBVIOUS
  <2>1. m <= k - 1
    OBVIOUS
  <2>2. Sixteen(m) <= Sixteen(k - 1)
    BY <1>2, <1>8, <2>1, SixteenOrder
  <2> QED
    BY <1>7, <1>8, <2>2
<1>10. ~(k < m)
  <2> SUFFICES ASSUME k < m PROVE FALSE
    OBVIOUS
  <2>1. k <= m - 1 /\ k \in 0 .. 9
    BY SMT
  <2>2. Sixteen(k) <= Sixteen(m - 1) /\ Sixteen(k) \in Nat
    BY <1>2, <2>1, SixteenOrder, SixteenGrow
  <2> QED
    BY <1>7, <1>8, <2>2
<1> QED
  BY <1>6, <1>9, <1>10

LEMMA SixteenHasDigits ==
  ASSUME NEW n \in Nat \ {0}, n < Sixteen(8)
  PROVE  \E m \in 1 .. 8 : Sixteen(m - 1) <= n /\ n < Sixteen(m)
<1>1. PICK T \in SUBSET Nat : T = {m \in 0 .. 8 : n < Sixteen(m)}
  <2>1. {m \in 0 .. 8 : n < Sixteen(m)} \in SUBSET Nat
    OBVIOUS
  <2> QED
    BY <2>1
<1>2. PICK m \in T : \A k \in T : m <= k
  <2>1. 8 \in T
    BY <1>1
  <2> QED
    BY <2>1, LeastNatural
<1>3. m \in 0 .. 8 /\ n < Sixteen(m)
  BY <1>1, <1>2
<1>4. m # 0
  <2>1. Sixteen(0) = 1
    BY SixteenAre
  <2> QED
    BY <1>3, <2>1
<1>5. m \in 1 .. 8 /\ m - 1 \in 0 .. 8 /\ ~(m <= m - 1) /\ m - 1 \in 0 .. 9
  BY <1>3, <1>4
<1>6. ~(n < Sixteen(m - 1))
  BY <1>1, <1>2, <1>5
<1>7. Sixteen(m - 1) \in Nat
  BY <1>5, SixteenGrow
<1> QED
  BY <1>3, <1>5, <1>6, <1>7

-----------------------------------------------------------------------------
(* Numbers in decimal. *)

DigitAt(n, k) == Zero + ((n \div Ten(k)) % 10)

LEMMA DigitIsInt ==
  ASSUME NEW n \in Nat, NEW k \in 0 .. 10
  PROVE  DigitAt(n, k) \in Int
<1>1. PICK t \in Nat \ {0} : t = Ten(k)
  BY TenGrow
<1>2. n \div t \in Nat
  BY SMT
<1>3. (n \div t) % 10 \in Int
  BY <1>2
<1> QED
  BY <1>1, <1>3 DEF DigitAt, Zero

LEMMA DecimalIs ==
  ASSUME NEW n \in Nat \ {0}, NEW m \in 1 .. 10, Digits(n, 10) = m
  PROVE  /\ Decimal(n) \in Seq(Int) /\ Len(Decimal(n)) = m
         /\ \A k \in 1 .. m : Decimal(n)[k] = DigitAt(n, m - k)
<1>1. PICK s : s = [k \in 1 .. m |-> DigitAt(n, m - k)]
  BY Zenon
<1>2. Decimal(n) = s
  BY <1>1, Zenon DEF Decimal, DigitAt, Ten
<1>3. \A k \in 1 .. m : DigitAt(n, m - k) \in Int
  <2>1. \A k \in 1 .. m : m - k \in 0 .. 10
    BY SMT
  <2> QED
    BY <2>1, DigitIsInt
<1>4. s \in Seq(Int) /\ Len(s) = m
  BY <1>1, <1>3
<1> QED
  BY <1>1, <1>2, <1>4

LEMMA DecimalZero == Decimal(0) = <<Zero>>
<1>1. Digits(0, 10) = 1
  BY Zenon DEF Digits
<1>2. Decimal(0) = [k \in 1 .. 1 |-> Zero + ((0 \div 10 ^ (1 - k)) % 10)]
  BY <1>1, Zenon DEF Decimal
<1>3. Zero + ((0 \div 10 ^ (1 - 1)) % 10) = Zero
  <2>1. 10 ^ (1 - 1) = 1
    BY SMT
  <2>2. (0 \div 1) % 10 = 0
    BY SMT
  <2> QED
    BY <2>1, <2>2 DEF Zero
<1>4. \A k \in 1 .. 1 : Zero + ((0 \div 10 ^ (1 - k)) % 10) = Zero
  <2>1. \A k \in 1 .. 1 : k = 1
    BY SMT
  <2> QED
    BY <1>3, <2>1, Zenon
<1>5. PICK s : s = [k \in 1 .. 1 |-> Zero + ((0 \div 10 ^ (1 - k)) % 10)]
  BY Zenon
<1>6. s = [k \in 1 .. 1 |-> Zero]
  BY <1>4, <1>5, Zenon
<1>7. s = <<Zero>>
  BY <1>6
<1> QED
  BY <1>2, <1>5, <1>7

\* Every number a word can hold has a decimal form.
LEMMA DecimalType ==
  ASSUME NEW n \in Nat, n < Ten(10)
  PROVE  Decimal(n) \in Seq(Int)
<1>1. CASE n = 0
  <2>1. <<Zero>> \in Seq(Int)
    BY DEF Zero
  <2> QED
    BY <1>1, <2>1, DecimalZero
<1>2. CASE n # 0
  <2>1. PICK m \in 1 .. 10 : Ten(m - 1) <= n /\ n < Ten(m)
    BY <1>2, TenHasDigits
  <2>2. Digits(n, 10) = m
    BY <1>2, <2>1, TenDigits
  <2> QED
    BY <1>2, <2>2, DecimalIs
<1> QED
  BY <1>1, <1>2

\* A number of one digit.
LEMMA DecimalSmall ==
  ASSUME NEW n \in 0 .. 9
  PROVE  Decimal(n) = <<Zero + n>>
<1>1. CASE n = 0
  <2>1. Zero + n = Zero
    BY <1>1 DEF Zero
  <2> QED
    BY <1>1, <2>1, DecimalZero
<1>2. CASE n # 0
  <2>1. Ten(1 - 1) <= n /\ n < Ten(1)
    <3>1. 1 - 1 = 0
      OBVIOUS
    <3> QED
      BY <1>2, <3>1, TenAre
  <2>2. Digits(n, 10) = 1
    BY <1>2, <2>1, TenDigits
  <2>3. PICK s \in Seq(Int) : s = Decimal(n)
    BY <1>2, <2>2, DecimalIs
  <2>4. Len(s) = 1 /\ s[1] = DigitAt(n, 1 - 1)
    BY <1>2, <2>2, <2>3, DecimalIs
  <2>5. DigitAt(n, 1 - 1) = Zero + n
    <3>1. Ten(1 - 1) = 1
      BY TenAre
    <3>2. (n \div 1) % 10 = n
      OBVIOUS
    <3> QED
      BY <3>1, <3>2, Zenon DEF DigitAt
  <2>6. s = <<s[1]>>
    BY <2>4
  <2> QED
    BY <2>3, <2>4, <2>5, <2>6
<1> QED
  BY <1>1, <1>2

\* A longer number is its tens followed by its last digit.
LEMMA DecimalGrows ==
  ASSUME NEW n \in Nat, n >= 10, n < Ten(10)
  PROVE  /\ n \div 10 \in Nat \ {0} /\ n \div 10 < Ten(10)
         /\ Decimal(n) = Append(Decimal(n \div 10), Zero + (n % 10))
<1>1. PICK h \in Nat, r \in 0 .. 10 - 1 : n = h * 10 + r /\ n \div 10 = h /\ n % 10 = r
  <2>1. 10 \in Nat \ {0}
    OBVIOUS
  <2> QED
    BY <2>1, DivOf
<1>2. h # 0 /\ h < n
  BY <1>1
<1>3. PICK m \in 1 .. 10 : Ten(m - 1) <= n /\ n < Ten(m)
  BY TenHasDigits
<1>4. m # 1
  <2>1. Ten(1) = 10
    BY TenAre
  <2> QED
    BY <1>3, <2>1
<1>5. PICK j \in 1 .. 9 : m = j + 1 /\ j = m - 1
  <2>1. m - 1 \in 1 .. 9 /\ m = (m - 1) + 1
    BY <1>4
  <2> QED
    BY <2>1
<1>6. PICK i \in 0 .. 8 : j = i + 1 /\ i = j - 1
  <2>1. j - 1 \in 0 .. 8 /\ j = (j - 1) + 1
    OBVIOUS
  <2> QED
    BY <2>1
<1>7. PICK t \in Nat \ {0} : t = Ten(i) /\ Ten(j) = 10 * t /\ Ten(m) = 10 * (10 * t)
  <2>1. i \in 0 .. 10 /\ i < 10 /\ j \in 0 .. 10 /\ j < 10
    OBVIOUS
  <2>2. Ten(i) \in Nat \ {0} /\ Ten(i + 1) = 10 * Ten(i) /\ Ten(j + 1) = 10 * Ten(j)
    BY <2>1, TenGrow
  <2> QED
    BY <1>5, <1>6, <2>2
<1>8. t <= h /\ h < 10 * t
  <2>1. 10 * t <= n /\ n < 10 * (10 * t)
    BY <1>3, <1>5, <1>7
  <2> QED
    BY <1>1, <2>1
<1>9. Digits(h, 10) = j
  <2>1. j \in 1 .. 10 /\ h \in Nat \ {0} /\ Ten(j - 1) <= h /\ h < Ten(j)
    BY <1>2, <1>6, <1>7, <1>8
  <2> QED
    BY <2>1, TenDigits
<1>10. Digits(n, 10) = m
  BY <1>3, TenDigits
<1>11. PICK s \in Seq(Int) : s = Decimal(n)
  BY <1>10, DecimalIs
<1>12. Len(s) = m /\ \A k \in 1 .. m : s[k] = DigitAt(n, m - k)
  <2>1. n \in Nat \ {0}
    OBVIOUS
  <2> QED
    BY <1>10, <1>11, <2>1, DecimalIs, Zenon
<1>13. j \in 1 .. 10 /\ h \in Nat \ {0}
  BY <1>2
<1>14. PICK u \in Seq(Int) : u = Decimal(h)
  BY <1>9, <1>13, DecimalIs
<1>15. Len(u) = j /\ \A k \in 1 .. j : u[k] = DigitAt(h, j - k)
  BY <1>9, <1>13, <1>14, DecimalIs
<1>16. ASSUME NEW k \in 1 .. j PROVE s[k] = u[k]
  <2>1. PICK p \in 0 .. 8 : p = j - k /\ m - k = p + 1
    <3>1. j - k \in 0 .. 8 /\ m - k = (j - k) + 1
      BY <1>5
    <3> QED
      BY <3>1
  <2>2. k \in 1 .. m
    BY <1>5
  <2>3. s[k] = DigitAt(n, p + 1) /\ u[k] = DigitAt(h, p)
    BY <1>12, <1>15, <2>1, <2>2
  <2>4. PICK w \in Nat \ {0} : w = Ten(p) /\ Ten(p + 1) = 10 * w
    <3>1. p \in 0 .. 10 /\ p < 10
      OBVIOUS
    <3> QED
      BY <3>1, TenGrow
  <2>5. (n \div 10) \div w = n \div (w * 10)
    <3>1. 10 \in Nat \ {0}
      OBVIOUS
    <3> QED
      BY <3>1, DivTwice
  <2>6. w * 10 = 10 * w
    OBVIOUS
  <2> QED
    BY <1>1, <2>3, <2>4, <2>5, <2>6, Zenon DEF DigitAt
<1>17. s[m] = Zero + r
  <2>1. m \in 1 .. m /\ m - m = 0
    OBVIOUS
  <2>2. s[m] = DigitAt(n, 0)
    BY <1>12, <2>1
  <2>3. Ten(0) = 1 /\ n \div 1 = n
    BY TenAre
  <2> QED
    BY <1>1, <2>2, <2>3, Zenon DEF DigitAt
<1>18. PICK d \in Int : d = Zero + r
  BY DEF Zero
<1>19. PICK v \in Seq(Int) : v = Append(u, d)
  BY AppendProperties, Zenon
<1>20. Len(v) = j + 1 /\ (\A k \in 1 .. j : v[k] = u[k]) /\ v[j + 1] = d
  <2>1. Len(v) = Len(u) + 1
    BY <1>19, AppendProperties, Zenon
  <2>2. ASSUME NEW y \in 1 .. Len(u) PROVE v[y] = u[y]
    BY <1>19, SMT
  <2>3. v[Len(u) + 1] = d
    BY <1>19, SMT
  <2> QED
    BY <1>15, <2>1, <2>2, <2>3, Zenon
<1>21. ASSUME NEW k \in 1 .. m PROVE s[k] = v[k]
  <2>1. CASE k = m
    BY <1>5, <1>17, <1>18, <1>20, <2>1
  <2>2. CASE k # m
    <3>1. k \in 1 .. j
      BY <1>5, <2>2
    <3> QED
      BY <1>16, <1>20, <3>1
  <2> QED
    BY <2>1, <2>2
<1>22. s = v
  <2>1. Len(s) = m /\ Len(v) = m
    BY <1>5, <1>12, <1>20
  <2> QED
    BY <1>21, <2>1, SeqEqual
<1>23. h < Ten(10)
  BY <1>2, TenAre
<1> QED
  BY <1>1, <1>11, <1>13, <1>14, <1>18, <1>19, <1>22, <1>23

-----------------------------------------------------------------------------
(* Sequences of characters. *)

LEMMA Join ==
  ASSUME NEW s \in Seq(Int), NEW t \in Seq(Int), NEW d \in Int
  PROVE  /\ s \o t \in Seq(Int) /\ <<d>> \in Seq(Int) /\ Append(s, d) \in Seq(Int)
         /\ Append(s, d) = s \o <<d>> /\ s \o <<>> = s /\ <<>> \o s = s /\ <<>> \in Seq(Int)
<1>1. <<d>> \in Seq(Int) /\ <<>> \in Seq(Int)
  OBVIOUS
<1>2. s \o t \in Seq(Int)
  BY ConcatProperties, Zenon
<1>3. Append(s, d) \in Seq(Int)
  BY AppendProperties, Zenon
<1>4. Append(s, d) = s \o <<d>>
  BY AppendIsConcat, Zenon
<1>5. s \o <<>> = s /\ <<>> \o s = s
  BY ConcatEmptySeq, Zenon
<1> QED
  BY <1>1, <1>2, <1>3, <1>4, <1>5, Zenon

LEMMA JoinThree ==
  ASSUME NEW s \in Seq(Int), NEW t \in Seq(Int), NEW u \in Seq(Int)
  PROVE  (s \o t) \o u = s \o (t \o u)
  BY ConcatAssociative

\* The same fact under a name, which the provers instantiate without rewriting.
Regroups(s, t, u) == (s \o t) \o u = s \o (t \o u)

LEMMA JoinRegroups == \A s, t, u \in Seq(Int) : Regroups(s, t, u)
  BY JoinThree, Zenon DEF Regroups

LEMMA ReverseIs ==
  ASSUME NEW s \in Seq(Int)
  PROVE  /\ Reverse(s) \in Seq(Int) /\ Len(Reverse(s)) = Len(s) /\ Len(s) \in Nat
         /\ \A k \in 1 .. Len(s) : Reverse(s)[k] = s[(Len(s) - k) + 1]
<1>1. PICK n \in Nat : n = Len(s)
  BY SMT
<1>2. \A k \in 1 .. n : (n - k) + 1 \in 1 .. n
  BY SMT
<1>3. \A k \in 1 .. n : s[(n - k) + 1] \in Int
  BY <1>1, <1>2
<1>4. PICK r : r = [k \in 1 .. n |-> s[(n - k) + 1]]
  BY Zenon
<1>5. Reverse(s) = r
  BY <1>1, <1>4, Zenon DEF Reverse
<1>6. r \in Seq(Int) /\ Len(r) = n
  BY <1>3, <1>4
<1> QED
  BY <1>1, <1>4, <1>5, <1>6

LEMMA ReverseEmpty == Reverse(<<>>) = <<>>
<1>1. <<>> \in Seq(Int) /\ Len(<<>>) = 0
  OBVIOUS
<1>2. Reverse(<<>>) \in Seq(Int) /\ Len(Reverse(<<>>)) = 0
  BY <1>1, ReverseIs
<1> QED
  BY <1>2

\* The last comes first.
LEMMA ReverseAppend ==
  ASSUME NEW s \in Seq(Int), NEW d \in Int
  PROVE  Reverse(Append(s, d)) = <<d>> \o Reverse(s)
<1>1. PICK n \in Nat : n = Len(s)
  BY SMT
<1>2. PICK a \in Seq(Int) : a = Append(s, d)
  BY AppendProperties, Zenon
<1>3. Len(a) = n + 1 /\ (\A k \in 1 .. n : a[k] = s[k]) /\ a[n + 1] = d
  BY <1>1, <1>2
<1>4. PICK r \in Seq(Int) : r = Reverse(a)
  BY ReverseIs
<1>5. Len(r) = n + 1 /\ \A k \in 1 .. n + 1 : r[k] = a[((n + 1) - k) + 1]
  <2>1. Len(r) = Len(a) /\ \A k \in 1 .. Len(a) : r[k] = a[(Len(a) - k) + 1]
    BY <1>4, ReverseIs, Zenon
  <2> QED
    BY <1>3, <2>1, Zenon
<1>6. PICK q \in Seq(Int) : q = Reverse(s)
  BY ReverseIs
<1>7. Len(q) = n /\ \A k \in 1 .. n : q[k] = s[(n - k) + 1]
  BY <1>1, <1>6, ReverseIs
<1>8. PICK c \in Seq(Int) : c = <<d>> /\ Len(c) = 1 /\ c[1] = d
  <2>1. <<d>> \in Seq(Int)
    OBVIOUS
  <2>2. Len(<<d>>) = 1 /\ <<d>>[1] = d
    OBVIOUS
  <2> QED
    BY <2>1, <2>2, Zenon
<1>9. PICK b \in Seq(Int) : b = c \o q
  BY ConcatProperties, Zenon
<1>12. Len(b) = Len(c) + Len(q) /\ \A i \in 1 .. Len(c) + Len(q) : b[i] = IF i <= Len(c) THEN c[i] ELSE q[i - Len(c)]
  BY <1>9, ConcatProperties, Zenon
<1>13. Len(b) = n + 1 /\ b[1] = d /\ \A k \in 1 .. n : b[k + 1] = q[k]
  BY <1>7, <1>8, <1>12
<1>10. ASSUME NEW k \in 1 .. n + 1 PROVE r[k] = b[k]
  <2>1. CASE k = 1
    <3>1. ((n + 1) - k) + 1 = n + 1
      BY <2>1
    <3> QED
      BY <1>3, <1>5, <1>13, <2>1, <3>1
  <2>2. CASE k # 1
    <3>1. PICK j \in 1 .. n : k = j + 1 /\ ((n + 1) - k) + 1 = (n - j) + 1
      <4>1. k - 1 \in 1 .. n /\ k = (k - 1) + 1 /\ ((n + 1) - k) + 1 = (n - (k - 1)) + 1
        BY <2>2
      <4> QED
        BY <4>1
    <3>2. (n - j) + 1 \in 1 .. n
      OBVIOUS
    <3>3. r[k] = a[(n - j) + 1] /\ a[(n - j) + 1] = s[(n - j) + 1]
      BY <1>3, <1>5, <3>1, <3>2
    <3>4. b[k] = q[j] /\ q[j] = s[(n - j) + 1]
      BY <1>7, <1>13, <3>1
    <3> QED
      BY <3>3, <3>4
  <2> QED
    BY <2>1, <2>2
<1>11. r = b
  <2>1. Len(r) = n + 1 /\ Len(b) = n + 1
    BY <1>5, <1>13
  <2> QED
    BY <1>10, <2>1, SeqEqual
<1> QED
  BY <1>2, <1>4, <1>6, <1>8, <1>9, <1>11, Zenon

LEMMA FrontLast ==
  ASSUME NEW f \in Seq(Int), f # <<>>
  PROVE  Front(f) \in Seq(Int) /\ Last(f) \in Int /\ f = Append(Front(f), Last(f))
<1>1. PICK n \in Nat \ {0} : n = Len(f)
  BY SMT
<1>2. PICK g : g = SubSeq(f, 1, n - 1)
  BY Zenon
<1>3. g \in Seq(Int) /\ Len(g) = n - 1 /\ \A k \in 1 .. n - 1 : g[k] = f[k]
  BY <1>1, <1>2
<1>4. f[n] \in Int
  BY <1>1
<1>5. f = Append(g, f[n])
  <2>0. PICK d \in Int : d = f[n]
    BY <1>4
  <2>1. PICK a \in Seq(Int) : a = Append(g, d)
    BY <1>3, AppendProperties, Zenon
  <2>5. Len(a) = Len(g) + 1 /\ a[Len(g) + 1] = d
    BY <1>3, <2>1
  <2>6. ASSUME NEW k \in 1 .. Len(g) PROVE a[k] = g[k]
    BY <1>3, <2>1, SMT
  <2>2. Len(a) = Len(g) + 1 /\ (\A k \in 1 .. Len(g) : a[k] = g[k]) /\ a[Len(g) + 1] = f[n]
    BY <2>0, <2>5, <2>6, Zenon
  <2>3. Len(a) = n /\ (\A k \in 1 .. n - 1 : a[k] = f[k]) /\ a[n] = f[n]
    BY <1>3, <2>2
  <2>4. \A k \in 1 .. n : a[k] = f[k]
    BY <2>3
  <2> QED
    BY <1>1, <2>0, <2>1, <2>3, <2>4, SeqEqual
<1> QED
  BY <1>1, <1>2, <1>3, <1>4, <1>5, Zenon DEF Front, Last

-----------------------------------------------------------------------------
(* print_uint and print_int. *)

\* Of goal, o is out, the digits of v come next unless they are all in frames, and
\* then what the frames hold.
Printing(o, v, b, f, goal) ==
  IF v = 0 /\ b # 1 THEN o \o Reverse(f) = goal ELSE (o \o Decimal(v)) \o Reverse(f) = goal

\* A digit goes into a frame.
LEMMA DigitKept ==
  ASSUME NEW o \in Seq(Int), NEW v \in Nat \ {0}, v < Ten(10), NEW b, NEW f \in Seq(Int), NEW goal,
         Printing(o, v, b, f, goal)
  PROVE  /\ v \div 10 \in Nat /\ v \div 10 < Ten(10) /\ Append(f, Zero + (v % 10)) \in Seq(Int)
         /\ Printing(o, v \div 10, 0, Append(f, Zero + (v % 10)), goal)
<1>1. (o \o Decimal(v)) \o Reverse(f) = goal
  BY Zenon DEF Printing
<1>2. PICK d \in Int : d = Zero + (v % 10)
  BY DEF Zero
<1>3. PICK r \in Seq(Int) : r = Reverse(f)
  BY ReverseIs
<1>4. Reverse(Append(f, d)) = <<d>> \o r /\ Append(f, d) \in Seq(Int) /\ <<d>> \in Seq(Int)
  BY <1>3, ReverseAppend, Join
<1>5. CASE v < 10
  <2>1. v \div 10 = 0 /\ v % 10 = v
    BY <1>5
  <2>2. Decimal(v) = <<d>>
    <3>1. v \in 0 .. 9
      BY <1>5
    <3>2. d = Zero + v
      BY <1>2, <2>1, Zenon
    <3> QED
      BY <3>1, <3>2, DecimalSmall, Zenon
  <2>3. o \o (<<d>> \o r) = (o \o <<d>>) \o r
    BY <1>4, JoinThree
  <2>4. o \o Reverse(Append(f, d)) = goal
    BY <1>1, <1>3, <1>4, <2>2, <2>3, Zenon
  <2>5. Printing(o, 0, 0, Append(f, d), goal)
    <3>1. 0 # 1
      OBVIOUS
    <3> QED
      BY <2>4, <3>1, Zenon DEF Printing
  <2>6. 0 < Ten(10) /\ 0 \in Nat
    BY TenAre
  <2> QED
    BY <1>2, <1>4, <2>1, <2>5, <2>6, Zenon
<1>6. CASE v >= 10
  <2>1. PICK h \in Nat \ {0} : h = v \div 10 /\ h < Ten(10) /\ Decimal(v) = Append(Decimal(h), d)
    BY <1>2, <1>6, DecimalGrows
  <2>2. PICK s \in Seq(Int) : s = Decimal(h)
    BY <2>1, DecimalType
  <2>3. Decimal(v) = s \o <<d>>
    BY <2>1, <2>2, AppendIsConcat, Zenon
  <2>4. (o \o (s \o <<d>>)) \o r = (o \o s) \o (<<d>> \o r)
    <3>1. (o \o s) \o <<d>> = o \o (s \o <<d>>)
      <4>1. Regroups(o, s, <<d>>)
        BY <1>4, JoinRegroups, Zenon
      <4> QED
        BY <4>1, Zenon DEF Regroups
    <3>2. o \o s \in Seq(Int)
      BY Join
    <3>3. ((o \o s) \o <<d>>) \o r = (o \o s) \o (<<d>> \o r)
      <4>1. Regroups(o \o s, <<d>>, r)
        BY <1>4, <3>2, JoinRegroups, Zenon
      <4> QED
        BY <4>1, Zenon DEF Regroups
    <3> QED
      BY <3>1, <3>3, Zenon
  <2>5. (o \o Decimal(h)) \o Reverse(Append(f, d)) = goal
    BY <1>1, <1>3, <1>4, <2>2, <2>3, <2>4, Zenon
  <2>6. h # 0
    BY <2>1
  <2>7. Printing(o, h, 0, Append(f, d), goal)
    BY <2>5, <2>6, Zenon DEF Printing
  <2>8. h \in Nat
    BY <2>1
  <2> QED
    BY <1>2, <1>4, <2>1, <2>7, <2>8, Zenon
<1> QED
  BY <1>5, <1>6

\* No digit is left: a lone zero is printed.
LEMMA DigitsEnd ==
  ASSUME NEW o \in Seq(Int), NEW b, NEW f \in Seq(Int), NEW goal, Printing(o, 0, b, f, goal)
  PROVE  /\ b = 1 => Append(o, Zero) \in Seq(Int) /\ Append(o, Zero) \o Reverse(f) = goal
         /\ b # 1 => o \o Reverse(f) = goal
<1>1. Zero \in Int
  BY DEF Zero
<1>2. Append(o, Zero) = o \o <<Zero>> /\ Append(o, Zero) \in Seq(Int)
  BY <1>1, Join
<1> QED
  BY <1>2, DecimalZero, Zenon DEF Printing

\* A caller prints the digit of its frame.
LEMMA FramePrinted ==
  ASSUME NEW o \in Seq(Int), NEW f \in Seq(Int), f # <<>>
  PROVE  /\ Append(o, Last(f)) \in Seq(Int) /\ Front(f) \in Seq(Int)
         /\ Append(o, Last(f)) \o Reverse(Front(f)) = o \o Reverse(f)
<1>1. PICK g \in Seq(Int), d \in Int : g = Front(f) /\ d = Last(f) /\ f = Append(g, d)
  BY FrontLast
<1>2. PICK r \in Seq(Int) : r = Reverse(g)
  BY ReverseIs
<1>3. Reverse(f) = <<d>> \o r
  BY <1>1, <1>2, ReverseAppend, Zenon
<1>4. Append(o, d) = o \o <<d>> /\ Append(o, d) \in Seq(Int) /\ <<d>> \in Seq(Int)
  BY Join
<1>5. (o \o <<d>>) \o r = o \o (<<d>> \o r)
  BY <1>4, JoinThree
<1> QED
  BY <1>1, <1>2, <1>3, <1>4, <1>5, Zenon

\* The first call of print_int for a negative number.
LEMMA NegativeKept ==
  ASSUME NEW o \in Seq(Int), NEW v \in Int, v < 0, -v < Ten(10), NEW goal, o \o SignedDecimal(v) = goal
  PROVE  /\ -1 * Quotient(v) \in Nat /\ -1 * Quotient(v) < Ten(10)
         /\ Append(o, Minus) \in Seq(Int) /\ Append(<<>>, Zero + Remainder(v)) \in Seq(Int)
         /\ Printing(Append(o, Minus), -1 * Quotient(v), 0, Append(<<>>, Zero + Remainder(v)), goal)
<1>1. PICK n \in Nat \ {0} : n = -v
  <2>1. -v \in Nat \ {0}
    OBVIOUS
  <2> QED
    BY <2>1
<1>2. PICK h \in Nat, r \in 0 .. 10 - 1 : n = h * 10 + r /\ n \div 10 = h /\ n % 10 = r
  <2>1. 10 \in Nat \ {0} /\ n \in Nat
    OBVIOUS
  <2> QED
    BY <2>1, DivOf
<1>3. Quotient(v) = -h
  BY <1>1, <1>2, Zenon DEF Quotient
<1>4. -1 * Quotient(v) = h
  BY <1>3
<1>5. Remainder(v) = -r
  <2>1. v - 10 * (-h) = -r
    BY <1>1, <1>2
  <2> QED
    BY <1>3, <2>1, Zenon DEF Remainder
<1>6. h < Ten(10)
  <2>1. h <= n
    BY <1>2
  <2>2. Ten(10) \in Nat
    BY TenTop
  <2> QED
    BY <1>1, <2>1, <2>2
<1>7. PICK d \in Int : d = Zero - r
  BY DEF Zero
<1>8. Zero + Remainder(v) = d
  BY <1>5, <1>7 DEF Zero
<1>9. PICK mid \in Seq(Int) : mid = IF v > -10 THEN <<>> ELSE Decimal(h)
  <2>1. Decimal(h) \in Seq(Int)
    BY <1>6, DecimalType
  <2>2. <<>> \in Seq(Int)
    OBVIOUS
  <2> QED
    BY <2>1, <2>2, Zenon
<1>10. SignedDecimal(v) = (<<Minus>> \o mid) \o <<d>>
  <2>1. ~(v >= 0)
    OBVIOUS
  <2> QED
    BY <1>1, <1>2, <1>7, <1>9, <2>1, Zenon DEF SignedDecimal
<1>11. Minus \in Int /\ <<Minus>> \in Seq(Int) /\ <<d>> \in Seq(Int) /\ <<>> \in Seq(Int)
  BY DEF Minus
<1>12. Append(o, Minus) = o \o <<Minus>> /\ Append(o, Minus) \in Seq(Int)
  BY <1>11, Join
<1>13. Append(<<>>, d) = <<d>>
  OBVIOUS
<1>14. Reverse(<<d>>) = <<d>>
  <2>1. Reverse(Append(<<>>, d)) = <<d>> \o Reverse(<<>>)
    BY <1>11, ReverseAppend
  <2>2. <<d>> \o <<>> = <<d>>
    BY <1>11, Join
  <2> QED
    BY <1>13, <2>1, <2>2, ReverseEmpty, Zenon
<1>15. o \o ((<<Minus>> \o mid) \o <<d>>) = ((o \o <<Minus>>) \o mid) \o <<d>>
  <2>1. <<Minus>> \o mid \in Seq(Int)
    BY <1>11, Join
  <2>2. (o \o (<<Minus>> \o mid)) \o <<d>> = o \o ((<<Minus>> \o mid) \o <<d>>)
    <3>1. Regroups(o, <<Minus>> \o mid, <<d>>)
      BY <1>11, <2>1, JoinRegroups, Zenon
    <3> QED
      BY <3>1, Zenon DEF Regroups
  <2>3. (o \o <<Minus>>) \o mid = o \o (<<Minus>> \o mid)
    <3>1. Regroups(o, <<Minus>>, mid)
      BY <1>11, JoinRegroups, Zenon
    <3> QED
      BY <3>1, Zenon DEF Regroups
  <2> QED
    BY <2>2, <2>3, Zenon
<1>16. (Append(o, Minus) \o mid) \o <<d>> = goal
  BY <1>10, <1>12, <1>15, Zenon
<1>17. Printing(Append(o, Minus), h, 0, <<d>>, goal)
  <2>0. 0 # 1
    OBVIOUS
  <2>1. CASE h = 0
    <3>1. v > -10
      BY <1>1, <1>2, <2>1
    <3>2. Append(o, Minus) \o <<>> = Append(o, Minus)
      BY <1>11, <1>12, Join
    <3> QED
      BY <1>9, <1>14, <1>16, <2>0, <2>1, <3>1, <3>2, Zenon DEF Printing
  <2>2. CASE h # 0
    <3>1. ~(v > -10)
      BY <1>1, <1>2, <2>2
    <3> QED
      BY <1>9, <1>14, <1>16, <2>2, <3>1, Zenon DEF Printing
  <2> QED
    BY <2>1, <2>2
<1> QED
  BY <1>4, <1>6, <1>8, <1>11, <1>12, <1>13, <1>17, Zenon

-----------------------------------------------------------------------------
(* Numbers in hex. *)

LEMMA SixteenAdd ==
  ASSUME NEW i \in 0 .. 9, NEW j \in 0 .. 9, i + j \in 0 .. 9
  PROVE  Sixteen(i + j) = Sixteen(i) * Sixteen(j)
<1> SUFFICES ASSUME Sixteen(i + j) # Sixteen(i) * Sixteen(j) PROVE FALSE
  OBVIOUS
<1>1. PICK T \in SUBSET Nat : T = {m \in 0 .. 9 : i + m \in 0 .. 9 /\ Sixteen(i + m) # Sixteen(i) * Sixteen(m)}
  <2>1. {m \in 0 .. 9 : i + m \in 0 .. 9 /\ Sixteen(i + m) # Sixteen(i) * Sixteen(m)} \in SUBSET Nat
    OBVIOUS
  <2> QED
    BY <2>1
<1>2. j \in T
  BY <1>1, Zenon
<1>3. PICK m \in T : \A k \in T : m <= k
  BY <1>2, LeastNatural, Zenon
<1>4. PICK g \in Nat \ {0} : g = Sixteen(i)
  BY SixteenGrow
<1>5. m \in 0 .. 9 /\ i + m \in 0 .. 9 /\ Sixteen(i + m) # g * Sixteen(m)
  BY <1>1, <1>3, <1>4, Zenon
<1>6. m # 0
  <2> SUFFICES ASSUME m = 0 PROVE FALSE
    OBVIOUS
  <2>1. i + 0 = i /\ g * 1 = g /\ Sixteen(0) = 1
    BY SixteenAre
  <2> QED
    BY <1>4, <1>5, <2>1, Zenon
<1>7. PICK l \in 0 .. 8 : m = l + 1 /\ l < m /\ i + l \in 0 .. 8 /\ i + m = (i + l) + 1
  <2>1. m - 1 \in 0 .. 8 /\ m = (m - 1) + 1 /\ m - 1 < m /\ i + (m - 1) \in 0 .. 8 /\ i + m = (i + (m - 1)) + 1
    BY <1>5, <1>6
  <2> QED
    BY <2>1
<1>8. l \in 0 .. 9 /\ i + l \in 0 .. 9 /\ ~(m <= l) /\ l < 9 /\ i + l < 9
  BY <1>5, <1>7
<1>9. Sixteen(i + l) = g * Sixteen(l)
  <2>1. l \notin T
    BY <1>3, <1>8
  <2> QED
    BY <1>1, <1>4, <1>8, <2>1, Zenon
<1>10. PICK t \in Nat \ {0} : t = Sixteen(l) /\ Sixteen(l + 1) = 16 * t
  BY <1>8, SixteenGrow
<1>11. Sixteen((i + l) + 1) = 16 * Sixteen(i + l)
  BY <1>8, SixteenGrow
<1>12. 16 * (g * t) = g * (16 * t)
  OBVIOUS
<1> QED
  BY <1>5, <1>7, <1>9, <1>10, <1>11, <1>12, Zenon

\* The word at iteration j of print_hex: its top digit and what the shift leaves.
LEMMA TopDigit ==
  ASSUME NEW a \in Nat, NEW q \in Nat \ {0}, NEW p \in Nat \ {0}
  PROVE  /\ ((a % (16 * q)) * p) \div (q * p) = (a \div q) % 16
         /\ (((a % (16 * q)) * p) * 16) % (16 * (q * p)) = (a % q) * (16 * p)
<1>1. PICK u \in Nat, f \in 0 .. q - 1 : a = u * q + f /\ a \div q = u /\ a % q = f
  BY DivOf
<1>2. PICK w \in Nat, c \in 0 .. 16 - 1 : u = w * 16 + c /\ u % 16 = c
  <2>1. 16 \in Nat \ {0}
    OBVIOUS
  <2> QED
    BY <2>1, DivOf
<1>3. PICK e \in Nat : e = c * q + f
  <2>1. c * q \in Nat
    OBVIOUS
  <2> QED
    BY <2>1
<1>4. PICK s \in Nat \ {0} : s = 16 * q
  BY SMT
<1>5. a % s = e
  <2>1. a = w * s + e
    <3>1. (w * 16 + c) * q = w * (16 * q) + c * q
      OBVIOUS
    <3> QED
      BY <1>1, <1>2, <1>3, <1>4, <3>1
  <2>2. e \in 0 .. s - 1
    <3>1. PICK b \in Nat : 15 = c + b
      <4>1. 15 - c \in Nat /\ 15 = c + (15 - c)
        OBVIOUS
      <4> QED
        BY <4>1
    <3>2. 15 * q = c * q + b * q /\ b * q \in Nat
      BY <3>1
    <3> QED
      BY <1>1, <1>3, <1>4, <3>2
  <2> QED
    BY <2>1, <2>2, DivIs
<1>6. PICK g \in Nat \ {0} : g = q * p
  <2>1. q * p \in Nat \ {0}
    OBVIOUS
  <2> QED
    BY <2>1
<1>7. PICK y \in 0 .. g - 1 : y = f * p
  <2>1. PICK b \in Nat : q = f + 1 + b
    <3>1. q - (f + 1) \in Nat /\ q = f + 1 + (q - (f + 1))
      OBVIOUS
    <3> QED
      BY <3>1
  <2>2. q * p = f * p + p + b * p /\ b * p \in Nat /\ f * p \in Nat
    BY <2>1
  <2>3. f * p \in 0 .. g - 1
    BY <1>6, <2>2
  <2> QED
    BY <2>3
<1>8. e * p = c * g + y
  <2>1. (c * q + f) * p = c * (q * p) + f * p
    OBVIOUS
  <2> QED
    BY <1>3, <1>6, <1>7, <2>1
<1>9. (e * p) \div g = c
  BY <1>8, DivIs
<1>10. ((e * p) * 16) % (16 * g) = f * (16 * p)
  <2>1. PICK h \in Nat \ {0} : h = 16 * g
    BY SMT
  <2>2. PICK z \in 0 .. h - 1 : z = 16 * y
    <3>1. 16 * y \in 0 .. h - 1
      BY <2>1
    <3> QED
      BY <3>1
  <2>3. (e * p) * 16 = c * h + z
    <3>1. (c * g + y) * 16 = c * (16 * g) + 16 * y
      OBVIOUS
    <3> QED
      BY <1>8, <2>1, <2>2, <3>1
  <2>4. ((e * p) * 16) % h = z
    BY <2>3, DivIs
  <2>5. 16 * (f * p) = f * (16 * p)
    OBVIOUS
  <2> QED
    BY <1>7, <2>1, <2>2, <2>4, <2>5
<1> QED
  BY <1>1, <1>2, <1>4, <1>5, <1>6, <1>9, <1>10, Zenon

LEMMA WordIs ==
  /\ NIBBLES \in 1 .. 8 /\ WORD = Sixteen(NIBBLES) /\ WORD \in Nat \ {0}
  /\ WORD < Ten(10) /\ WORD <= Sixteen(8)
<1>1. NIBBLES \in 1 .. 8
  BY FormatAssumption, Zenon
<1>2. WORD = Sixteen(NIBBLES)
  BY Zenon DEF WORD, Sixteen
<1>3. NIBBLES \in 0 .. 9 /\ 8 \in 0 .. 9 /\ NIBBLES <= 8
  BY <1>1
<1>4. Sixteen(NIBBLES) <= Sixteen(8)
  BY <1>3, SixteenOrder, Zenon
<1>5. Sixteen(NIBBLES) \in Nat \ {0}
  BY <1>3, SixteenGrow, Zenon
<1>6. Sixteen(8) = 4294967296 /\ Ten(10) = 10000000000
  BY SixteenAre, TenAre, SMT
<1>7. Sixteen(NIBBLES) < Ten(10)
  BY <1>4, <1>5, <1>6, SMT
<1> QED
  BY <1>1, <1>2, <1>4, <1>5, <1>7, SMT

\* The word that iteration j finds is q * p apart from its low digits.
LEMMA WordSplits ==
  ASSUME NEW j \in 0 .. NIBBLES - 1
  PROVE  \E q \in Nat \ {0}, p \in Nat \ {0} :
           /\ q = Sixteen((NIBBLES - 1) - j) /\ p = Sixteen(j)
           /\ Sixteen(NIBBLES - j) = 16 * q /\ Sixteen(j + 1) = 16 * p
           /\ WORD = 16 * (q * p) /\ WORD \div 16 = q * p
<1>1. NIBBLES \in 1 .. 8 /\ WORD = Sixteen(NIBBLES)
  BY WordIs
<1>2. PICK i \in 0 .. 7 : i = (NIBBLES - 1) - j /\ NIBBLES - j = i + 1 /\ NIBBLES = (i + j) + 1
  <2>1. (NIBBLES - 1) - j \in 0 .. 7 /\ NIBBLES - j = ((NIBBLES - 1) - j) + 1 /\ NIBBLES = (((NIBBLES - 1) - j) + j) + 1
    BY <1>1
  <2> QED
    BY <2>1
<1>3. i \in 0 .. 9 /\ j \in 0 .. 9 /\ i + j \in 0 .. 9 /\ i < 9 /\ j < 9 /\ i + j < 9
  BY <1>1, <1>2
<1>4. PICK q \in Nat \ {0}, p \in Nat \ {0} : q = Sixteen(i) /\ p = Sixteen(j)
  BY <1>3, SixteenGrow
<1>5. Sixteen(i + 1) = 16 * q /\ Sixteen(j + 1) = 16 * p
  BY <1>3, <1>4, SixteenGrow, Zenon
<1>6. Sixteen(i + j) = q * p
  BY <1>3, <1>4, SixteenAdd, Zenon
<1>7. WORD = 16 * (q * p)
  BY <1>1, <1>2, <1>3, <1>6, SixteenGrow, Zenon
<1>8. (16 * (q * p)) \div 16 = q * p
  <2>1. PICK g \in Nat : g = q * p
    BY SMT
  <2>2. g * 16 + 0 = 16 * g /\ 16 \in Nat \ {0} /\ 0 \in 0 .. 16 - 1
    OBVIOUS
  <2>3. (g * 16 + 0) \div 16 = g
    BY <2>2, DivIs
  <2> QED
    BY <2>1, <2>2, <2>3, Zenon
<1> QED
  BY <1>2, <1>4, <1>5, <1>7, <1>8, Zenon

\* A number that a power divides, every lower one divides.
LEMMA LowerDivides ==
  ASSUME NEW a \in Nat, NEW k \in 0 .. 9, NEW l \in 0 .. 9, l <= k, a % Sixteen(k) = 0
  PROVE  a % Sixteen(l) = 0
<1>1. PICK i \in 0 .. 9 : k = l + i
  <2>1. k - l \in 0 .. 9 /\ k = l + (k - l)
    OBVIOUS
  <2> QED
    BY <2>1
<1>2. PICK s \in Nat \ {0}, t \in Nat \ {0} : s = Sixteen(l) /\ t = Sixteen(i)
  BY SixteenGrow
<1>3. Sixteen(k) = s * t
  <2>1. l + i \in 0 .. 9
    BY <1>1, Zenon
  <2>2. Sixteen(l + i) = Sixteen(l) * Sixteen(i)
    BY <2>1, SixteenAdd, Zenon
  <2> QED
    BY <1>1, <1>2, <2>2, Zenon
<1>4. PICK g \in Nat \ {0} : g = s * t
  <2>1. s * t \in Nat \ {0}
    OBVIOUS
  <2> QED
    BY <2>1
<1>5. PICK q \in Nat, r \in 0 .. g - 1 : a = q * g + r /\ a \div g = q /\ a % g = r
  BY DivOf
<1>6. a = q * g
  BY <1>3, <1>4, <1>5
<1>7. PICK c \in Nat : c = q * t
  BY SMT
<1>8. a = c * s + 0
  <2>1. q * (s * t) = (q * t) * s
    OBVIOUS
  <2> QED
    BY <1>4, <1>6, <1>7, <2>1
<1>9. 0 \in 0 .. s - 1
  OBVIOUS
<1> QED
  BY <1>2, <1>8, <1>9, DivIs

LEMMA TrailingZerosAre ==
  ASSUME NEW a \in Nat \ {0}, NEW z \in 0 .. NIBBLES, a % Sixteen(z) = 0, a % Sixteen(z + 1) # 0
  PROVE  TrailingZeros(a) = z
<1>1. NIBBLES \in 1 .. 8
  BY WordIs
<1>2. PICK t : t = CHOOSE k \in 0 .. NIBBLES : a % 16 ^ k = 0 /\ a % 16 ^ (k + 1) # 0
  BY Zenon
<1>3. \E k \in 0 .. NIBBLES : a % 16 ^ k = 0 /\ a % 16 ^ (k + 1) # 0
  BY Zenon DEF Sixteen
<1>4. t \in 0 .. NIBBLES /\ a % 16 ^ t = 0 /\ a % 16 ^ (t + 1) # 0
  BY <1>2, <1>3, Zenon
<1>5. a % Sixteen(t) = 0 /\ a % Sixteen(t + 1) # 0
  BY <1>4, Zenon DEF Sixteen
<1>6. t \in 0 .. 9 /\ z \in 0 .. 9 /\ t + 1 \in 0 .. 9 /\ z + 1 \in 0 .. 9
  BY <1>1, <1>4
<1>7. ~(t < z)
  <2> SUFFICES ASSUME t < z PROVE FALSE
    OBVIOUS
  <2>1. t + 1 <= z
    BY <1>6
  <2> QED
    BY <1>5, <1>6, <2>1, LowerDivides
<1>8. ~(z < t)
  <2> SUFFICES ASSUME z < t PROVE FALSE
    OBVIOUS
  <2>1. z + 1 <= t
    BY <1>6
  <2> QED
    BY <1>5, <1>6, <2>1, LowerDivides
<1>9. t = z
  BY <1>6, <1>7, <1>8
<1>10. a # 0
  OBVIOUS
<1> QED
  BY <1>2, <1>9, <1>10, Zenon DEF TrailingZeros

\* The first l digits of a number that has m.
HexDigit(n, i) == HexChar((n \div Sixteen(i)) % 16)
HexPart(n, m, l) == [k \in 1 .. l |-> HexDigit(n, m - k)]

LEMMA HexCharIsInt ==
  ASSUME NEW d \in Nat
  PROVE  HexChar(d) \in Int
  BY DEF HexChar, Zero

LEMMA HexDigitIsInt ==
  ASSUME NEW n \in Nat, NEW i \in 0 .. 9
  PROVE  HexDigit(n, i) \in Int /\ (n \div Sixteen(i)) % 16 \in Nat
<1>1. PICK t \in Nat \ {0} : t = Sixteen(i)
  BY SixteenGrow
<1>2. (n \div t) % 16 \in Nat
  <2>1. PICK q \in Nat : q = n \div t
    BY DivOf
  <2>2. q % 16 \in Nat
    OBVIOUS
  <2> QED
    BY <2>1, <2>2, Zenon
<1>3. (n \div Sixteen(i)) % 16 \in Nat
  BY <1>1, <1>2, Zenon
<1> QED
  BY <1>3, HexCharIsInt, Zenon DEF HexDigit

LEMMA HexPartIs ==
  ASSUME NEW n \in Nat, NEW m \in 1 .. 8, NEW l \in 0 .. m
  PROVE  HexPart(n, m, l) \in Seq(Int) /\ Len(HexPart(n, m, l)) = l
<1>1. ASSUME NEW k \in 1 .. l PROVE HexDigit(n, m - k) \in Int
  <2>1. m - k \in 0 .. 9
    OBVIOUS
  <2> QED
    BY <2>1, HexDigitIsInt
<1>2. PICK s : s = [k \in 1 .. l |-> HexDigit(n, m - k)]
  BY Zenon
<1>3. s \in Seq(Int) /\ Len(s) = l
  BY <1>1, <1>2
<1> QED
  BY <1>2, <1>3, Zenon DEF HexPart

LEMMA HexPartStarts ==
  ASSUME NEW n \in Nat, NEW m \in 1 .. 8
  PROVE  HexPart(n, m, 0) = <<>>
<1>1. 0 \in 0 .. m
  OBVIOUS
<1>2. PICK s \in Seq(Int) : s = HexPart(n, m, 0) /\ Len(s) = 0
  BY <1>1, HexPartIs, Zenon
<1> QED
  BY <1>2

LEMMA HexPartGrows ==
  ASSUME NEW n \in Nat, NEW m \in 1 .. 8, NEW l \in 0 .. m - 1
  PROVE  HexPart(n, m, l + 1) = Append(HexPart(n, m, l), HexDigit(n, (m - l) - 1))
<1>1. l \in 0 .. m /\ l + 1 \in 0 .. m /\ (m - l) - 1 = m - (l + 1) /\ (m - l) - 1 \in 0 .. 9
  OBVIOUS
<1>2. PICK d \in Int : d = HexDigit(n, (m - l) - 1)
  BY <1>1, HexDigitIsInt
<1>3. PICK s \in Seq(Int) : s = HexPart(n, m, l) /\ Len(s) = l
  BY <1>1, HexPartIs, Zenon
<1>4. PICK u \in Seq(Int) : u = HexPart(n, m, l + 1) /\ Len(u) = l + 1
  BY <1>1, HexPartIs, Zenon
<1>5. \A k \in 1 .. l : s[k] = HexDigit(n, m - k)
  BY <1>3, Zenon DEF HexPart
<1>6. \A k \in 1 .. l + 1 : u[k] = HexDigit(n, m - k)
  BY <1>4, Zenon DEF HexPart
<1>7. PICK v \in Seq(Int) : v = Append(s, d)
  BY AppendProperties, Zenon
<1>8. Len(v) = l + 1 /\ (\A k \in 1 .. l : v[k] = s[k]) /\ v[l + 1] = d
  BY <1>3, <1>7
<1>9. ASSUME NEW k \in 1 .. l + 1 PROVE u[k] = v[k]
  <2>1. CASE k = l + 1
    BY <1>1, <1>2, <1>6, <1>8, <2>1
  <2>2. CASE k # l + 1
    <3>1. k \in 1 .. l
      BY <2>2
    <3> QED
      BY <1>5, <1>6, <1>8, <3>1
  <2> QED
    BY <2>1, <2>2
<1>10. u = v
  BY <1>4, <1>8, <1>9, SeqEqual
<1> QED
  BY <1>2, <1>3, <1>4, <1>7, <1>10, Zenon

LEMMA HexIs ==
  ASSUME NEW a
  PROVE  Hex(a) = <<Zero, 120>> \o HexPart(a, Digits(a, 16), Digits(a, 16) - TrailingZeros(a))
  BY Zenon DEF Hex, HexPart, HexDigit, Sixteen

LEMMA HexSize ==
  ASSUME NEW a \in Nat \ {0}, a < WORD
  PROVE  \E m \in 1 .. 8 : m = Digits(a, 16) /\ m <= NIBBLES /\ Sixteen(m - 1) <= a /\ a < Sixteen(m)
<1>1. NIBBLES \in 1 .. 8 /\ WORD = Sixteen(NIBBLES) /\ WORD \in Nat
  BY WordIs
<1>2. Sixteen(8) \in Nat /\ WORD <= Sixteen(8)
  BY WordIs, SixteenAre
<1>3. a < Sixteen(8)
  BY <1>1, <1>2
<1>4. PICK m \in 1 .. 8 : Sixteen(m - 1) <= a /\ a < Sixteen(m)
  BY <1>3, SixteenHasDigits
<1>5. Digits(a, 16) = m
  BY <1>4, SixteenDigits
<1>6. m <= NIBBLES
  <2> SUFFICES ASSUME ~(m <= NIBBLES) PROVE FALSE
    OBVIOUS
  <2>1. PICK i \in 0 .. 9 : i = m - 1 /\ NIBBLES <= i /\ NIBBLES \in 0 .. 9
    <3>1. m - 1 \in 0 .. 9 /\ NIBBLES <= m - 1 /\ NIBBLES \in 0 .. 9
      BY <1>1
    <3> QED
      BY <3>1
  <2>2. Sixteen(NIBBLES) <= Sixteen(i)
    BY <2>1, SixteenOrder, Zenon
  <2>3. Sixteen(i) \in Nat /\ Sixteen(i) <= a
    BY <1>4, <2>1, SixteenGrow
  <2> QED
    BY <1>1, <2>2, <2>3
<1> QED
  BY <1>4, <1>5, <1>6

\* j iterations are over: v is a without its first j digits, shifted up, and those
\* digits are printed behind head from the first that is not 0.
HexAt(o, v, b, a, head, j) ==
  /\ v = (a % Sixteen(NIBBLES - j)) * Sixteen(j)
  /\ j > 0 => v # 0
  /\ j <= NIBBLES - Digits(a, 16) => b = 1 /\ o = head
  /\ j > NIBBLES - Digits(a, 16) =>
       b = 0 /\ o = head \o HexPart(a, Digits(a, 16), j - (NIBBLES - Digits(a, 16)))

LEMMA HexBegins ==
  ASSUME NEW a \in 0 .. WORD - 1, NEW head
  PROVE  HexAt(head, a, 1, a, head, 0)
<1>1. NIBBLES \in 1 .. 8 /\ WORD = Sixteen(NIBBLES) /\ WORD \in Nat \ {0}
  BY WordIs
<1>2. (a % Sixteen(NIBBLES - 0)) * Sixteen(0) = a
  <2>1. NIBBLES - 0 = NIBBLES /\ Sixteen(0) = 1
    BY <1>1, SixteenAre
  <2>2. a = 0 * WORD + a /\ 0 \in Nat
    BY <1>1
  <2>3. a % WORD = a
    BY <1>1, <2>2, DivIs
  <2>4. a * 1 = a
    BY <1>1
  <2> QED
    BY <1>1, <2>1, <2>3, <2>4, Zenon
<1>3. 0 <= NIBBLES - Digits(a, 16) /\ ~(0 > NIBBLES - Digits(a, 16))
  <2>1. CASE a = 0
    <3>1. Digits(a, 16) = 1
      BY <2>1, Zenon DEF Digits
    <3> QED
      BY <1>1, <3>1
  <2>2. CASE a # 0
    <3>1. a \in Nat \ {0} /\ a < WORD
      BY <1>1, <2>2
    <3>2. PICK m \in 1 .. 8 : m = Digits(a, 16) /\ m <= NIBBLES
      BY <3>1, HexSize
    <3> QED
      BY <1>1, <3>2
  <2> QED
    BY <2>1, <2>2
<1>4. ~(0 > 0)
  OBVIOUS
<1> QED
  BY <1>2, <1>3, <1>4, Zenon DEF HexAt

\* The iteration of 0 prints its one digit.
LEMMA HexOfZero ==
  ASSUME NEW head \in Seq(Int), NEW o, NEW v, NEW b, NEW j \in 0 .. NIBBLES - 1, HexAt(o, v, b, 0, head, j)
  PROVE  /\ v = 0 /\ b = 1 /\ o = head /\ HexChar(0) \in Int
         /\ Hex(0) = <<Zero, 120>> \o <<HexChar(0)>>
<1>1. NIBBLES \in 1 .. 8
  BY WordIs
<1>2. v = (0 % Sixteen(NIBBLES - j)) * Sixteen(j) /\ (j > 0 => v # 0)
  BY Zenon DEF HexAt
<1>3. NIBBLES - j \in 0 .. 9 /\ j \in 0 .. 9
  BY <1>1
<1>4. v = 0
  <2>1. PICK s \in Nat \ {0}, t \in Nat \ {0} : s = Sixteen(NIBBLES - j) /\ t = Sixteen(j)
    BY <1>3, SixteenGrow
  <2>2. 0 % s = 0 /\ 0 * t = 0
    <3>1. 0 = 0 * s + 0 /\ 0 \in 0 .. s - 1 /\ 0 \in Nat
      OBVIOUS
    <3>2. 0 % s = 0
      BY <3>1, DivIs
    <3> QED
      BY <3>2
  <2> QED
    BY <1>2, <2>1, <2>2, Zenon
<1>5. j = 0
  BY <1>1, <1>2, <1>4
<1>6. Digits(0, 16) = 1 /\ TrailingZeros(0) = 0
  BY Zenon DEF Digits, TrailingZeros
<1>7. b = 1 /\ o = head
  <2>1. j <= NIBBLES - Digits(0, 16)
    BY <1>1, <1>5, <1>6
  <2> QED
    BY <2>1, Zenon DEF HexAt
<1>8. HexPart(0, 1, 1 - 0) = <<HexChar(0)>>
  <2>1. 1 \in 1 .. 8 /\ 0 \in 0 .. 1 - 1 /\ 0 + 1 = 1 - 0 /\ (1 - 0) - 1 = 0 /\ 0 \in Nat
    OBVIOUS
  <2>2. HexPart(0, 1, 1 - 0) = Append(<<>>, HexDigit(0, 0))
    BY <2>1, HexPartStarts, HexPartGrows, Zenon
  <2>3. HexDigit(0, 0) = HexChar(0)
    <3>1. Sixteen(0) = 1 /\ (0 \div 1) % 16 = 0
      BY SixteenAre
    <3> QED
      BY <3>1, Zenon DEF HexDigit
  <2>4. Append(<<>>, HexChar(0)) = <<HexChar(0)>>
    OBVIOUS
  <2> QED
    BY <2>2, <2>3, <2>4, Zenon
<1>9. HexChar(0) \in Int
  BY HexCharIsInt
<1> QED
  BY <1>4, <1>6, <1>7, <1>8, <1>9, HexIs, Zenon

\* What an iteration finds.
LEMMA HexDigitFound ==
  ASSUME NEW a \in Nat, NEW j \in 0 .. NIBBLES - 1, NEW v, v = (a % Sixteen(NIBBLES - j)) * Sixteen(j)
  PROVE  /\ v \div (WORD \div 16) = (a \div Sixteen((NIBBLES - 1) - j)) % 16
         /\ (v * 16) % WORD = (a % Sixteen(NIBBLES - (j + 1))) * Sixteen(j + 1)
<1>1. NIBBLES \in 1 .. 8
  BY WordIs
<1>2. NIBBLES - (j + 1) = (NIBBLES - 1) - j
  BY <1>1
<1>3. PICK q \in Nat \ {0}, p \in Nat \ {0} :
           /\ q = Sixteen((NIBBLES - 1) - j) /\ p = Sixteen(j)
           /\ Sixteen(NIBBLES - j) = 16 * q /\ Sixteen(j + 1) = 16 * p
           /\ WORD = 16 * (q * p) /\ WORD \div 16 = q * p
  BY WordSplits
<1>4. /\ ((a % (16 * q)) * p) \div (q * p) = (a \div q) % 16
      /\ (((a % (16 * q)) * p) * 16) % (16 * (q * p)) = (a % q) * (16 * p)
  BY TopDigit
<1>5. v = (a % (16 * q)) * p
  BY <1>3, Zenon
<1>6. v \div (WORD \div 16) = (a \div q) % 16
  BY <1>3, <1>4, <1>5, Zenon
<1>7. (v * 16) % WORD = (a % q) * (16 * p)
  BY <1>3, <1>4, <1>5, Zenon
<1> QED
  BY <1>2, <1>3, <1>6, <1>7, Zenon

LEMMA DivSmall ==
  ASSUME NEW n \in Nat \ {0}, NEW a \in 0 .. n - 1
  PROVE  a \div n = 0 /\ a % n = a
<1>1. a = 0 * n + a /\ 0 \in Nat
  OBVIOUS
<1> QED
  BY <1>1, DivIs

\* A leading zero is skipped.
LEMMA HexSkips ==
  ASSUME NEW a \in Nat \ {0}, a < WORD, NEW head, NEW o, NEW v, NEW b, NEW j \in 0 .. NIBBLES - 1,
         HexAt(o, v, b, a, head, j), j < NIBBLES - Digits(a, 16)
  PROVE  /\ v \div (WORD \div 16) = 0 /\ b = 1 /\ v # 0 /\ (v * 16) % WORD # 0
         /\ j + 1 \in 0 .. NIBBLES - 1 /\ HexAt(o, (v * 16) % WORD, b, a, head, j + 1)
<1>1. NIBBLES \in 1 .. 8
  BY WordIs
<1>2. PICK m \in 1 .. 8 : m = Digits(a, 16) /\ m <= NIBBLES /\ Sixteen(m - 1) <= a /\ a < Sixteen(m)
  BY HexSize
<1>3. PICK i \in 0 .. 9 : i = (NIBBLES - 1) - j /\ i = NIBBLES - (j + 1) /\ m <= i /\ NIBBLES - j = i + 1 /\ i < 9
  <2>1. /\ (NIBBLES - 1) - j \in 0 .. 9 /\ (NIBBLES - 1) - j = NIBBLES - (j + 1) /\ m <= (NIBBLES - 1) - j
        /\ NIBBLES - j = ((NIBBLES - 1) - j) + 1 /\ (NIBBLES - 1) - j < 9
    BY <1>1, <1>2
  <2> QED
    BY <2>1
<1>4. PICK q \in Nat \ {0} : q = Sixteen(i)
  BY SixteenGrow
<1>5. a < q
  <2>1. Sixteen(m) <= Sixteen(i) /\ Sixteen(m) \in Nat
    <3>1. m \in 0 .. 9
      OBVIOUS
    <3> QED
      BY <1>3, <3>1, SixteenOrder, SixteenGrow
  <2> QED
    BY <1>2, <1>4, <2>1
<1>6. a \div q = 0 /\ a % q = a
  <2>1. a \in 0 .. q - 1
    BY <1>5
  <2> QED
    BY <2>1, DivSmall, Zenon
<1>7. v = (a % Sixteen(NIBBLES - j)) * Sixteen(j)
  BY Zenon DEF HexAt
<1>8. /\ v \div (WORD \div 16) = (a \div Sixteen((NIBBLES - 1) - j)) % 16
      /\ (v * 16) % WORD = (a % Sixteen(NIBBLES - (j + 1))) * Sixteen(j + 1)
  <2>1. a \in Nat
    OBVIOUS
  <2> QED
    BY <1>7, <2>1, HexDigitFound, Zenon
<1>9. v \div (WORD \div 16) = 0
  <2>1. 0 % 16 = 0
    OBVIOUS
  <2> QED
    BY <1>3, <1>4, <1>6, <1>8, <2>1, Zenon
<1>10. PICK p \in Nat \ {0}, t \in Nat \ {0} : p = Sixteen(j) /\ t = Sixteen(j + 1)
  <2>1. j \in 0 .. 9 /\ j + 1 \in 0 .. 9
    BY <1>1
  <2> QED
    BY <2>1, SixteenGrow
<1>11. (v * 16) % WORD # 0
  <2>1. a * t # 0
    OBVIOUS
  <2> QED
    BY <1>3, <1>4, <1>6, <1>8, <1>10, <2>1, Zenon
<1>12. v # 0
  <2>1. Sixteen(i + 1) = 16 * q
    BY <1>3, <1>4, SixteenGrow
  <2>2. PICK g \in Nat \ {0} : g = 16 * q /\ a < g
    <3>1. 16 * q \in Nat \ {0} /\ a < 16 * q
      BY <1>5
    <3> QED
      BY <3>1
  <2>3. a % g = a
    <3>1. a \in 0 .. g - 1
      BY <2>2
    <3> QED
      BY <3>1, DivSmall, Zenon
  <2>4. a * p # 0
    OBVIOUS
  <2> QED
    BY <1>3, <1>7, <1>10, <2>1, <2>2, <2>3, <2>4, Zenon
<1>13. b = 1 /\ o = head
  <2>1. j <= NIBBLES - Digits(a, 16)
    BY <1>1, <1>2
  <2> QED
    BY <2>1, Zenon DEF HexAt
<1>14. j + 1 <= NIBBLES - Digits(a, 16) /\ ~(j + 1 > NIBBLES - Digits(a, 16)) /\ j + 1 \in 0 .. NIBBLES - 1
  BY <1>1, <1>2
<1>15. HexAt(o, (v * 16) % WORD, b, a, head, j + 1)
  BY <1>8, <1>11, <1>13, <1>14, Zenon DEF HexAt
<1> QED
  BY <1>9, <1>11, <1>12, <1>13, <1>14, <1>15, Zenon

\* What print_hex does when it does not skip: the last digit that is not 0 completes
\* the number.
HexPrinted(o, v, b, a, prefix, j) ==
  /\ o \in Seq(Int) /\ v \div (WORD \div 16) \in Nat /\ v # 0
  /\ ~(v \div (WORD \div 16) = 0 /\ b = 1)
  /\ (v * 16) % WORD = 0 => Append(o, HexChar(v \div (WORD \div 16))) = prefix \o Hex(a)
  /\ (v * 16) % WORD # 0 =>
       /\ j + 1 \in 0 .. NIBBLES - 1
       /\ HexAt(Append(o, HexChar(v \div (WORD \div 16))), (v * 16) % WORD, 0, a, prefix \o <<Zero, 120>>, j + 1)

LEMMA HexPrints ==
  ASSUME NEW a \in Nat \ {0}, a < WORD, NEW prefix \in Seq(Int), NEW o, NEW v, NEW b, NEW j \in 0 .. NIBBLES - 1,
         HexAt(o, v, b, a, prefix \o <<Zero, 120>>, j), ~(j < NIBBLES - Digits(a, 16))
  PROVE  HexPrinted(o, v, b, a, prefix, j)
<1>1. NIBBLES \in 1 .. 8
  BY WordIs
<1>2. PICK m \in 1 .. 8 : m = Digits(a, 16) /\ m <= NIBBLES /\ Sixteen(m - 1) <= a /\ a < Sixteen(m)
  BY HexSize
<1>3. PICK l \in 0 .. m - 1 : l = j - (NIBBLES - m) /\ (m - l) - 1 = (NIBBLES - 1) - j /\ l + 1 = (j + 1) - (NIBBLES - m)
  <2>1. ~(j < NIBBLES - m) /\ m <= NIBBLES
    BY <1>2
  <2>2. j - (NIBBLES - m) \in 0 .. m - 1
    BY <1>1, <2>1
  <2>3. (m - (j - (NIBBLES - m))) - 1 = (NIBBLES - 1) - j
    BY <1>1
  <2>4. (j - (NIBBLES - m)) + 1 = (j + 1) - (NIBBLES - m)
    BY <1>1
  <2> QED
    BY <2>2, <2>3, <2>4, Zenon
<1>4. PICK head \in Seq(Int) : head = prefix \o <<Zero, 120>>
  <2>1. <<Zero, 120>> \in Seq(Int)
    BY DEF Zero
  <2> QED
    BY <2>1, ConcatProperties, Zenon
<1>5. a \in Nat /\ l \in 0 .. m /\ l + 1 \in 0 .. m
  OBVIOUS
<1>6. PICK s \in Seq(Int) : s = HexPart(a, m, l)
  BY <1>5, HexPartIs, Zenon
<1>7. o = head \o s
  <2>1. CASE j > NIBBLES - m
    BY <1>2, <1>3, <1>4, <1>6, <2>1, Zenon DEF HexAt
  <2>2. CASE ~(j > NIBBLES - m)
    <3>1. j <= NIBBLES - m /\ l = 0
      BY <1>1, <1>3, <2>2
    <3>2. o = head
      BY <1>2, <1>4, <3>1, Zenon DEF HexAt
    <3>3. s = <<>>
      BY <1>5, <1>6, <3>1, HexPartStarts, Zenon
    <3>4. head \o <<>> = head
      BY Join
    <3> QED
      BY <3>2, <3>3, <3>4, Zenon
  <2> QED
    BY <2>1, <2>2
<1>8. v = (a % Sixteen(NIBBLES - j)) * Sixteen(j)
  BY Zenon DEF HexAt
<1>9. PICK i \in 0 .. 8 : i = (NIBBLES - 1) - j /\ i = NIBBLES - (j + 1) /\ NIBBLES - j = i + 1
  <2>1. /\ (NIBBLES - 1) - j \in 0 .. 8 /\ (NIBBLES - 1) - j = NIBBLES - (j + 1)
        /\ NIBBLES - j = ((NIBBLES - 1) - j) + 1
    BY <1>1
  <2> QED
    BY <2>1
<1>10. /\ v \div (WORD \div 16) = (a \div Sixteen(i)) % 16
       /\ (v * 16) % WORD = (a % Sixteen(i)) * Sixteen(j + 1)
  <2>1. /\ v \div (WORD \div 16) = (a \div Sixteen((NIBBLES - 1) - j)) % 16
        /\ (v * 16) % WORD = (a % Sixteen(NIBBLES - (j + 1))) * Sixteen(j + 1)
    BY <1>5, <1>8, HexDigitFound, Zenon
  <2> QED
    BY <1>9, <2>1, Zenon
<1>11. PICK c \in Nat : c = (a \div Sixteen(i)) % 16
  <2>1. i \in 0 .. 9
    OBVIOUS
  <2> QED
    BY <1>5, <2>1, HexDigitIsInt, Zenon
<1>12. PICK d \in Int : d = HexChar(c) /\ d = HexDigit(a, (m - l) - 1)
  <2>1. HexChar(c) \in Int
    BY HexCharIsInt
  <2>2. HexDigit(a, (m - l) - 1) = HexChar(c)
    BY <1>3, <1>9, <1>11, Zenon DEF HexDigit
  <2> QED
    BY <2>1, <2>2, Zenon
<1>13. Append(o, d) = head \o HexPart(a, m, l + 1)
  <2>1. HexPart(a, m, l + 1) = Append(s, d)
    BY <1>5, <1>6, <1>12, HexPartGrows, Zenon
  <2>2. Append(s, d) = s \o <<d>> /\ <<d>> \in Seq(Int)
    BY Join
  <2>3. o \in Seq(Int)
    BY <1>7, Join
  <2>4. Append(o, d) = o \o <<d>>
    BY <2>3, Join
  <2>5. (head \o s) \o <<d>> = head \o (s \o <<d>>)
    BY <2>2, JoinThree
  <2> QED
    BY <1>7, <2>1, <2>2, <2>4, <2>5, Zenon
<1>14. PICK q \in Nat \ {0}, t \in Nat \ {0} : q = Sixteen(i) /\ t = Sixteen(j + 1)
  <2>1. i \in 0 .. 9 /\ j + 1 \in 0 .. 9
    BY <1>1
  <2> QED
    BY <2>1, SixteenGrow
<1>15. v # 0
  <2>1. CASE j > 0
    BY <2>1, Zenon DEF HexAt
  <2>2. CASE j = 0
    <3>1. NIBBLES - j = NIBBLES /\ Sixteen(j) = 1 /\ WORD = Sixteen(NIBBLES) /\ WORD \in Nat \ {0}
      BY <1>1, <2>2, SixteenAre, WordIs
    <3>2. a \in 0 .. WORD - 1
      BY <3>1
    <3>3. a % WORD = a
      BY <3>1, <3>2, DivSmall, Zenon
    <3>4. a * 1 = a /\ a # 0
      OBVIOUS
    <3> QED
      BY <1>8, <3>1, <3>3, <3>4, Zenon
  <2> QED
    BY <2>1, <2>2
<1>16. ~(c = 0 /\ b = 1)
  <2> SUFFICES ASSUME c = 0, b = 1 PROVE FALSE
    OBVIOUS
  <2>1. ~(j > NIBBLES - m)
    <3>1. 1 # 0
      OBVIOUS
    <3> QED
      BY <1>2, <3>1, Zenon DEF HexAt
  <2>8. ~(j < NIBBLES - m) /\ m <= NIBBLES
    BY <1>2
  <2>9. j = NIBBLES - m
    BY <1>1, <2>1, <2>8
  <2>2. i = m - 1 /\ m = i + 1 /\ i \in 0 .. 9 /\ i < 9
    BY <1>1, <1>9, <2>9
  <2>3. q <= a /\ a < 16 * q
    BY <1>2, <1>14, <2>2, SixteenGrow
  <2>4. PICK u \in Nat, f \in 0 .. q - 1 : a = u * q + f /\ a \div q = u /\ a % q = f
    BY <1>5, DivOf
  <2>5. u # 0
    BY <2>3, <2>4
  <2>6. u < 16
    <3> SUFFICES ASSUME u >= 16 PROVE FALSE
      OBVIOUS
    <3>1. PICK w \in Nat : u = 16 + w
      <4>1. u - 16 \in Nat /\ u = 16 + (u - 16)
        OBVIOUS
      <4> QED
        BY <4>1
    <3>2. u * q = 16 * q + w * q /\ w * q \in Nat
      BY <3>1
    <3>3. PICK z \in Nat, y \in Nat : z = w * q /\ y = 16 * q
      BY <3>2
    <3>4. a = y + z + f
      BY <2>4, <3>2, <3>3
    <3>5. a < y
      BY <2>3, <3>3
    <3> QED
      BY <3>4, <3>5
  <2>7. u % 16 = u
    <3>1. u \in 0 .. 16 - 1 /\ 16 \in Nat \ {0}
      BY <2>6
    <3> QED
      BY <3>1, DivSmall, Zenon
  <2> QED
    BY <1>11, <1>14, <2>4, <2>5, <2>7, Zenon
<1>17. PICK e \in Nat : e = a % q
  <2>1. PICK u \in Nat, f \in 0 .. q - 1 : a = u * q + f /\ a \div q = u /\ a % q = f
    BY <1>5, DivOf
  <2>2. f \in Nat
    OBVIOUS
  <2> QED
    BY <2>1, <2>2, Zenon
<1>18. CASE (v * 16) % WORD = 0
  <2>1. e = 0
    <3>1. e * t = 0
      BY <1>10, <1>14, <1>17, <1>18, Zenon
    <3> QED
      BY <3>1
  <2>2. a % Sixteen(i) = 0
    BY <1>14, <1>17, <2>1, Zenon
  <2>3. a % Sixteen(i + 1) # 0
    <3> SUFFICES ASSUME a % Sixteen(i + 1) = 0 PROVE FALSE
      OBVIOUS
    <3>1. PICK p \in Nat : p = Sixteen(j)
      <4>1. j \in 0 .. 9
        BY <1>1
      <4> QED
        BY <4>1, SixteenGrow
    <3>2. 0 * p = 0
      OBVIOUS
    <3> QED
      BY <1>8, <1>9, <1>15, <3>1, <3>2, Zenon
  <2>4. i \in 0 .. NIBBLES
    BY <1>1, <1>9
  <2>5. TrailingZeros(a) = i
    BY <2>2, <2>3, <2>4, TrailingZerosAre
  <2>6. m - i = l + 1
    BY <1>1, <1>2, <1>3, <1>9
  <2>7. Hex(a) = <<Zero, 120>> \o HexPart(a, m, l + 1)
    BY <1>2, <2>5, <2>6, HexIs, Zenon
  <2>8. PICK g \in Seq(Int) : g = HexPart(a, m, l + 1)
    BY <1>5, HexPartIs, Zenon
  <2>9. PICK z \in Seq(Int) : z = <<Zero, 120>>
    <3>1. <<Zero, 120>> \in Seq(Int)
      BY DEF Zero
    <3> QED
      BY <3>1, Zenon
  <2>10. (prefix \o z) \o g = prefix \o (z \o g)
    <3>1. Regroups(prefix, z, g)
      BY JoinRegroups, Zenon
    <3> QED
      BY <3>1, Zenon DEF Regroups
  <2>11. Append(o, d) = prefix \o Hex(a)
    BY <1>4, <1>13, <2>7, <2>8, <2>9, <2>10, Zenon
  <2>12. o \in Seq(Int)
    BY <1>7, Join
  <2> QED
    BY <1>10, <1>11, <1>12, <1>15, <1>16, <1>18, <2>11, <2>12, Zenon DEF HexPrinted
<1>19. CASE (v * 16) % WORD # 0
  <2>1. j + 1 \in 0 .. NIBBLES - 1
    <3> SUFFICES ASSUME j = NIBBLES - 1 PROVE FALSE
      BY <1>1
    <3>1. i = 0
      BY <1>1, <1>9
    <3>2. q = 1
      BY <1>14, <3>1, SixteenAre
    <3>3. e = 0
      BY <1>17, <3>2
    <3>4. 0 * t = 0
      OBVIOUS
    <3> QED
      BY <1>10, <1>14, <1>17, <1>19, <3>3, <3>4, Zenon
  <2>2. ~(j + 1 <= NIBBLES - m)
    BY <1>1, <1>2
  <2>3. HexAt(Append(o, d), (v * 16) % WORD, 0, a, head, j + 1)
    BY <1>2, <1>3, <1>9, <1>10, <1>13, <1>19, <2>2, Zenon DEF HexAt
  <2>4. o \in Seq(Int)
    BY <1>7, Join
  <2> QED
    BY <1>4, <1>10, <1>11, <1>12, <1>15, <1>16, <1>19, <2>1, <2>3, <2>4, Zenon DEF HexPrinted
<1> QED
  BY <1>18, <1>19

-----------------------------------------------------------------------------
(* The format string. *)

\* Of a run of %s every other one starts a directive.
LEMMA DirectiveFirst ==
  ASSUME str \in Seq(Nat), Len(str) > 0
  PROVE  StartsDirective(1) <=> str[1] = Percent
<1>1. (1 - 1) % 2 = 0 /\ 1 \in 1 .. 1 /\ \A m \in 1 .. 1 : m = 1
  OBVIOUS
<1> QED
  BY <1>1, Zenon DEF StartsDirective

LEMMA DirectiveNext ==
  ASSUME str \in Seq(Nat), NEW k \in 1 .. Len(str) - 1
  PROVE  StartsDirective(k + 1) <=> str[k + 1] = Percent /\ ~StartsDirective(k)
<1>1. Len(str) \in Nat /\ k \in Nat \ {0}
  OBVIOUS
<1>2. ASSUME StartsDirective(k + 1), StartsDirective(k) PROVE FALSE
  <2>1. str[k] = Percent
    BY <1>2, Zenon DEF StartsDirective
  <2>2. PICK i \in 1 .. k : (k - i) % 2 = 0 /\ (\A m \in i .. k : str[m] = Percent) /\ (i = 1 \/ str[i - 1] # Percent)
    BY <1>2, Zenon DEF StartsDirective
  <2>3. PICK j \in 1 .. k + 1 : /\ ((k + 1) - j) % 2 = 0 /\ (\A m \in j .. k + 1 : str[m] = Percent)
                                /\ (j = 1 \/ str[j - 1] # Percent)
    BY <1>2, Zenon DEF StartsDirective
  <2>4. j # k + 1
    <3> SUFFICES ASSUME j = k + 1 PROVE FALSE
      OBVIOUS
    <3>1. j # 1 /\ j - 1 = k
      BY <1>1
    <3> QED
      BY <2>1, <2>3, <3>1, Zenon
  <2>5. ~(j < i)
    <3> SUFFICES ASSUME j < i PROVE FALSE
      OBVIOUS
    <3>1. i # 1 /\ i - 1 \in j .. k + 1
      BY <1>1
    <3> QED
      BY <2>2, <2>3, <3>1, Zenon
  <2>6. ~(i < j)
    <3> SUFFICES ASSUME i < j PROVE FALSE
      OBVIOUS
    <3>1. j # 1 /\ j - 1 \in i .. k
      BY <1>1, <2>4
    <3> QED
      BY <2>2, <2>3, <3>1, Zenon
  <2>7. i = j
    BY <1>1, <2>5, <2>6
  <2>8. PICK n \in Nat : n = k - i /\ (k + 1) - j = n + 1
    <3>1. k - i \in Nat /\ (k + 1) - j = (k - i) + 1
      BY <1>1, <2>7
    <3> QED
      BY <3>1
  <2>9. n % 2 = 0 /\ (n + 1) % 2 = 0
    BY <2>2, <2>3, <2>8, Zenon
  <2> QED
    BY <2>9
<1>3. ASSUME str[k + 1] = Percent, ~StartsDirective(k) PROVE StartsDirective(k + 1)
  <2>1. CASE str[k] # Percent
    <3>1. ((k + 1) - (k + 1)) % 2 = 0 /\ k + 1 \in 1 .. k + 1 /\ (k + 1) - 1 = k /\ \A m \in k + 1 .. k + 1 : m = k + 1
      BY <1>1
    <3> QED
      BY <1>3, <2>1, <3>1, Zenon DEF StartsDirective
  <2>2. CASE str[k] = Percent
    <3>1. PICK T \in SUBSET Nat : T = {i \in 1 .. k : \A m \in i .. k : str[m] = Percent}
      <4>1. {i \in 1 .. k : \A m \in i .. k : str[m] = Percent} \in SUBSET Nat
        OBVIOUS
      <4> QED
        BY <4>1
    <3>2. k \in T
      <4>1. k \in 1 .. k /\ \A m \in k .. k : m = k
        BY <1>1
      <4> QED
        BY <2>2, <3>1, <4>1, Zenon
    <3>3. PICK j \in T : \A i \in T : j <= i
      BY <3>2, LeastNatural, Zenon
    <3>4. j \in 1 .. k /\ \A m \in j .. k : str[m] = Percent
      BY <3>1, <3>3, Zenon
    <3>5. j = 1 \/ str[j - 1] # Percent
      <4> SUFFICES ASSUME j # 1, str[j - 1] = Percent PROVE FALSE
        OBVIOUS
      <4>1. j - 1 \in 1 .. k /\ ~(j <= j - 1) /\ \A m \in j - 1 .. k : m = j - 1 \/ m \in j .. k
        BY <1>1, <3>4
      <4>2. \A m \in j - 1 .. k : str[m] = Percent
        BY <3>4, <4>1, Zenon
      <4>3. j - 1 \in T
        BY <3>1, <4>1, <4>2, Zenon
      <4> QED
        BY <3>3, <4>1, <4>3, Zenon
    <3>6. (k - j) % 2 # 0
      BY <1>3, <2>2, <3>4, <3>5, Zenon DEF StartsDirective
    <3>7. ((k + 1) - j) % 2 = 0
      <4>1. PICK n \in Nat : n = k - j /\ (k + 1) - j = n + 1
        <5>1. k - j \in Nat /\ (k + 1) - j = (k - j) + 1
          BY <1>1, <3>4
        <5> QED
          BY <5>1
      <4>2. n % 2 # 0
        BY <3>6, <4>1, Zenon
      <4>3. (n + 1) % 2 = 0
        BY <4>2
      <4> QED
        BY <4>1, <4>3, Zenon
    <3>8. j \in 1 .. k + 1 /\ \A m \in j .. k + 1 : m = k + 1 \/ m \in j .. k
      BY <1>1, <3>4
    <3>9. \A m \in j .. k + 1 : str[m] = Percent
      BY <1>3, <3>4, <3>8, Zenon
    <3> QED
      BY <1>3, <3>5, <3>7, <3>8, <3>9, Zenon DEF StartsDirective
  <2> QED
    BY <2>1, <2>2
<1>4. StartsDirective(k + 1) => str[k + 1] = Percent
  BY Zenon DEF StartsDirective
<1> QED
  BY <1>2, <1>3, <1>4, Zenon

\* What a directive stands for is a sequence of characters.
LEMMA TrailingZerosExist ==
  ASSUME NEW a \in Nat \ {0}, NEW m \in 1 .. 8, m <= NIBBLES, a < Sixteen(m)
  PROVE  TrailingZeros(a) \in 0 .. m - 1
<1>1. NIBBLES \in 1 .. 8 /\ m \in 0 .. 9 /\ a \in Nat
  BY WordIs
<1>2. PICK T \in SUBSET Nat : T = {k \in 0 .. m : a % Sixteen(k) # 0}
  <2>1. {k \in 0 .. m : a % Sixteen(k) # 0} \in SUBSET Nat
    OBVIOUS
  <2> QED
    BY <2>1
<1>3. m \in T
  <2>1. PICK s \in Nat \ {0} : s = Sixteen(m)
    BY <1>1, SixteenGrow
  <2>2. a \in 0 .. s - 1
    BY <2>1
  <2>3. a % s = a /\ a # 0
    BY <2>2, DivSmall
  <2>4. m \in 0 .. m
    OBVIOUS
  <2> QED
    BY <1>2, <2>1, <2>3, <2>4, Zenon
<1>4. PICK t \in T : \A k \in T : t <= k
  BY <1>3, LeastNatural, Zenon
<1>5. t \in 0 .. m /\ a % Sixteen(t) # 0
  BY <1>2, <1>4, Zenon
<1>6. t # 0
  <2> SUFFICES ASSUME t = 0 PROVE FALSE
    OBVIOUS
  <2>1. Sixteen(0) = 1 /\ a % 1 = 0
    BY SixteenAre
  <2> QED
    BY <1>5, <2>1, Zenon
<1>7. PICK z \in 0 .. m - 1 : t = z + 1 /\ z \in 0 .. m /\ ~(t <= z) /\ z \in 0 .. NIBBLES
  <2>1. t - 1 \in 0 .. m - 1 /\ t = (t - 1) + 1 /\ t - 1 \in 0 .. m /\ ~(t <= t - 1) /\ t - 1 \in 0 .. NIBBLES
    BY <1>1, <1>5, <1>6
  <2> QED
    BY <2>1, Zenon
<1>8. a % Sixteen(z) = 0
  BY <1>2, <1>4, <1>7, Zenon
<1>9. TrailingZeros(a) = z
  BY <1>5, <1>7, <1>8, TrailingZerosAre, Zenon
<1> QED
  BY <1>9

LEMMA HexType ==
  ASSUME NEW a \in 0 .. WORD - 1
  PROVE  Hex(a) \in Seq(Int)
<1>1. WORD \in Nat \ {0}
  BY WordIs
<1>2. PICK m \in 1 .. 8 : m = Digits(a, 16) /\ TrailingZeros(a) \in 0 .. m - 1
  <2>1. CASE a = 0
    <3>1. Digits(a, 16) = 1 /\ TrailingZeros(a) = 0
      BY <2>1, Zenon DEF Digits, TrailingZeros
    <3>2. 1 \in 1 .. 8 /\ 0 \in 0 .. 1 - 1
      OBVIOUS
    <3> QED
      BY <3>1, <3>2, Zenon
  <2>2. CASE a # 0
    <3>1. a \in Nat \ {0} /\ a < WORD
      BY <1>1, <2>2
    <3>2. PICK m \in 1 .. 8 : m = Digits(a, 16) /\ m <= NIBBLES /\ a < Sixteen(m)
      BY <3>1, HexSize, Zenon
    <3>3. TrailingZeros(a) \in 0 .. m - 1
      BY <3>1, <3>2, TrailingZerosExist, Zenon
    <3> QED
      BY <3>2, <3>3, Zenon
  <2> QED
    BY <2>1, <2>2
<1>7. PICK z \in 0 .. m - 1 : z = TrailingZeros(a)
  BY <1>2, Zenon
<1>3. m - z \in 0 .. m /\ a \in Nat
  BY <1>1
<1>4. PICK s \in Seq(Int) : s = HexPart(a, m, m - z)
  BY <1>3, HexPartIs, Zenon
<1>5. <<Zero, 120>> \in Seq(Int)
  BY DEF Zero
<1>6. <<Zero, 120>> \o s \in Seq(Int)
  BY <1>5, ConcatProperties, Zenon
<1> QED
  BY <1>2, <1>4, <1>6, <1>7, HexIs, Zenon

LEMMA SignedRange ==
  ASSUME NEW a \in 0 .. WORD - 1
  PROVE  Signed(a) \in Int /\ Signed(a) < Ten(10) /\ -Signed(a) < Ten(10)
<1>1. WORD \in Nat \ {0} /\ WORD < Ten(10)
  BY WordIs
<1>2. Ten(10) \in Nat
  BY TenAre, SMT
<1>3. PICK w \in Nat, t \in Nat : w = WORD /\ t = Ten(10) /\ w < t
  BY <1>1, <1>2
<1>4. PICK n \in Int : n = Signed(a) /\ n = IF a >= w \div 2 THEN a - w ELSE a
  <2>1. a - w \in Int /\ a \in Int
    BY <1>3
  <2> QED
    BY <1>3, <2>1 DEF Signed
<1>5. n <= a /\ -n <= w
  BY <1>3, <1>4
<1> QED
  BY <1>3, <1>4, <1>5

LEMMA SignedType ==
  ASSUME NEW n \in Int, n < Ten(10), -n < Ten(10)
  PROVE  SignedDecimal(n) \in Seq(Int)
<1>1. CASE n >= 0
  <2>1. Decimal(n) \in Seq(Int)
    BY <1>1, DecimalType
  <2> QED
    BY <1>1, <2>1, Zenon DEF SignedDecimal
<1>2. CASE ~(n >= 0)
  <2>1. PICK a \in Nat : a = -n /\ a < Ten(10)
    <3>1. -n \in Nat
      BY <1>2
    <3> QED
      BY <3>1
  <2>2. PICK h \in Nat, r \in 0 .. 10 - 1 : a = h * 10 + r /\ a \div 10 = h /\ a % 10 = r
    <3>1. 10 \in Nat \ {0}
      OBVIOUS
    <3> QED
      BY <3>1, DivOf
  <2>3. h < Ten(10)
    <3>1. h <= a /\ Ten(10) \in Nat
      BY <2>2, TenAre
    <3> QED
      BY <2>1, <3>1
  <2>4. PICK mid \in Seq(Int) : mid = IF n > -10 THEN <<>> ELSE Decimal(h)
    <3>1. Decimal(h) \in Seq(Int) /\ <<>> \in Seq(Int)
      BY <2>3, DecimalType
    <3> QED
      BY <3>1, Zenon
  <2>5. PICK c \in Seq(Int), d \in Seq(Int) : c = <<Minus>> /\ d = <<Zero - r>>
    <3>1. Minus \in Int /\ Zero - r \in Int
      BY DEF Minus, Zero
    <3> QED
      BY <3>1, Join, Zenon
  <2>6. SignedDecimal(n) = (c \o mid) \o d
    BY <1>2, <2>1, <2>2, <2>4, <2>5, Zenon DEF SignedDecimal
  <2>7. c \o mid \in Seq(Int)
    BY Join
  <2>8. (c \o mid) \o d \in Seq(Int)
    BY <2>7, Join
  <2> QED
    BY <2>6, <2>8, Zenon
<1> QED
  BY <1>1, <1>2

LEMMA ShownType ==
  ASSUME arg \in 0 .. WORD - 1, NEW c
  PROVE  Shown(c) \in Seq(Int)
<1>1. PICK a \in Nat : a = arg /\ a < Ten(10) /\ a \in 0 .. WORD - 1
  <2>1. WORD \in Nat /\ WORD < Ten(10) /\ Ten(10) \in Nat
    BY WordIs, TenTop
  <2> QED
    BY <2>1
<1>2. SignedDecimal(Signed(a)) \in Seq(Int)
  BY <1>1, SignedRange, SignedType, Zenon
<1>3. Decimal(a) \in Seq(Int)
  BY <1>1, DecimalType
<1>4. Hex(a) \in Seq(Int)
  BY <1>1, HexType
<1>5. <<Percent>> \in Seq(Int) /\ <<a>> \in Seq(Int) /\ <<>> \in Seq(Int) /\ StringArg \in Seq(Int)
  BY DEF Percent, StringArg
<1>6. CASE c = Percent
  BY <1>5, <1>6 DEF Shown, Percent
<1>7. CASE c # Percent
  <2>2. CASE c = 99
    <3>1. Shown(c) = <<Byte(arg)>>
      BY <2>2 DEF Shown, Percent
    <3>2. Byte(arg) \in Int
      BY <1>1 DEF Byte
    <3> QED
      BY <3>1, <3>2
  <2>3. CASE c = 100
    BY <1>1, <1>2, <2>3 DEF Shown, Percent
  <2>4. CASE c = 117
    BY <1>1, <1>3, <2>4 DEF Shown, Percent
  <2>5. CASE c = 120
    BY <1>1, <1>4, <2>5 DEF Shown, Percent
  <2>6. CASE c = 115
    BY <1>5, <2>6 DEF Shown, Percent
  <2>7. CASE c \notin {99, 100, 117, 120, 115}
    BY <1>5, <1>7, <2>7, Zenon DEF Shown
  <2> QED
    BY <2>2, <2>3, <2>4, <2>5, <2>6, <2>7
<1> QED
  BY <1>6, <1>7

LEMMA PieceType ==
  ASSUME str \in Seq(Nat), arg \in 0 .. WORD - 1, NEW k \in 1 .. Len(str)
  PROVE  Piece(k) \in Seq(Int)
<1>1. <<>> \in Seq(Int)
  OBVIOUS
<1>2. <<str[k]>> \in Seq(Int)
  <2>1. str[k] \in Int
    OBVIOUS
  <2> QED
    BY <2>1
<1>3. Shown(str[k + 1]) \in Seq(Int)
  BY ShownType, Zenon
<1> QED
  BY <1>1, <1>2, <1>3, Zenon DEF Piece

-----------------------------------------------------------------------------
(* The text. *)

\* Recursion of FlattenSeq.
Flattens(f, q, n) == f = [i \in 1 .. n |-> IF i = 1 THEN q[i] ELSE f[i-1] \o q[i]]

Flattening(q, n) == CHOOSE f : Flattens(f, q, n)

LEMMA FlattenSeqIs ==
  ASSUME NEW q, NEW n, Len(q) = n, n # 0
  PROVE  FlattenSeq(q) = Flattening(q, n)[n]
  BY Zenon DEF FlattenSeq, Flattening, Flattens

LEMMA FlatteningExists ==
  ASSUME NEW q, NEW n \in Nat
  PROVE  \E f : Flattens(f, q, n)
<1> SUFFICES ASSUME ~ \E f : Flattens(f, q, n)
             PROVE  FALSE
  OBVIOUS
<1>1. PICK T \in SUBSET Nat : T = {m \in Nat : ~ \E f : Flattens(f, q, m)}
  <2>1. {m \in Nat : ~ \E f : Flattens(f, q, m)} \in SUBSET Nat
    OBVIOUS
  <2> QED
    BY <2>1
<1>2. n \in T
  BY <1>1
<1>3. PICK m \in T : \A k \in T : m <= k
  BY <1>2, LeastNatural
<1>4. m # 0
  <2>1. 1 .. 0 = {}
    OBVIOUS
  <2>2. PICK g : g = [i \in {} |-> {}]
    BY Zenon
  <2>3. g = [i \in {} |-> IF i = 1 THEN q[i] ELSE g[i-1] \o q[i]]
    BY <2>2
  <2>4. Flattens(g, q, 0)
    BY <2>1, <2>3, Zenon DEF Flattens
  <2> QED
    BY <1>1, <1>3, <2>4
<1>5. PICK p \in Nat : m = p + 1
  <2>1. m \in Nat /\ m - 1 \in Nat /\ m = (m - 1) + 1
    BY <1>1, <1>3, <1>4
  <2> QED
    BY <2>1
<1>6. PICK f : Flattens(f, q, p)
  <2>1. p \notin T
    BY <1>3, <1>5
  <2> QED
    BY <1>1, <2>1
<1>7. \A i \in 1 .. p : f[i] = IF i = 1 THEN q[i] ELSE f[i-1] \o q[i]
  BY <1>6, Zenon DEF Flattens
<1>8. PICK last : last = IF p + 1 = 1 THEN q[p + 1] ELSE f[p] \o q[p + 1]
  BY Zenon
<1>9. PICK g : g = [i \in 1 .. p + 1 |-> IF i = p + 1 THEN last ELSE f[i]]
  BY Zenon
<1>10. ASSUME NEW i \in 1 .. p + 1
       PROVE  g[i] = IF i = 1 THEN q[i] ELSE g[i-1] \o q[i]
  <2>1. CASE i = p + 1
    <3>1. g[i] = last
      BY <1>9, <2>1
    <3>2. CASE i = 1
      BY <1>8, <2>1, <3>1, <3>2, Zenon
    <3>3. CASE i # 1
      <4>1. i - 1 = p /\ p \in 1 .. p + 1 /\ p # p + 1
        BY <2>1, <3>3
      <4>2. g[p] = f[p]
        BY <1>9, <4>1, Zenon
      <4> QED
        BY <1>8, <2>1, <3>1, <3>3, <4>1, <4>2, Zenon
    <3> QED
      BY <3>2, <3>3
  <2>2. CASE i # p + 1
    <3>1. i \in 1 .. p
      BY <2>2
    <3>2. g[i] = f[i]
      BY <1>9, <2>2, Zenon
    <3>3. CASE i = 1
      BY <1>7, <3>1, <3>2, <3>3, Zenon
    <3>4. CASE i # 1
      <4>1. i - 1 \in 1 .. p + 1 /\ i - 1 # p + 1
        BY <3>1, <3>4
      <4>2. g[i - 1] = f[i - 1]
        BY <1>9, <4>1, Zenon
      <4> QED
        BY <1>7, <3>1, <3>2, <3>4, <4>2, Zenon
    <3> QED
      BY <3>3, <3>4
  <2> QED
    BY <2>1, <2>2
<1>11. g = [i \in 1 .. p + 1 |-> g[i]]
  BY <1>9, Zenon
<1>12. Flattens(g, q, p + 1)
  BY <1>10, <1>11, Zenon DEF Flattens
<1> QED
  BY <1>1, <1>3, <1>5, <1>12

\* What the first k characters of the format stand for.
Pieces == [k \in DOMAIN str |-> Piece(k)]
TextTo(k) == IF k = 0 THEN <<>> ELSE Flattening(Pieces, Len(str))[k]

LEMMA PiecesAre ==
  ASSUME str \in Seq(Nat), arg \in 0 .. WORD - 1
  PROVE  Pieces \in Seq(Seq(Int)) /\ Len(Pieces) = Len(str) /\ \A k \in 1 .. Len(str) : Pieces[k] = Piece(k)
<1>1. PICK n \in Nat : n = Len(str) /\ DOMAIN str = 1 .. n
  OBVIOUS
<1>2. PICK q : q = [k \in 1 .. n |-> Piece(k)]
  BY Zenon
<1>3. \A k \in 1 .. n : Piece(k) \in Seq(Int)
  BY <1>1, PieceType, Zenon
<1>4. q \in Seq(Seq(Int)) /\ Len(q) = n /\ \A k \in 1 .. n : q[k] = Piece(k)
  BY <1>2, <1>3
<1> QED
  BY <1>1, <1>2, <1>4, Zenon DEF Pieces

LEMMA TextGrows ==
  ASSUME str \in Seq(Nat), arg \in 0 .. WORD - 1, NEW k \in 1 .. Len(str)
  PROVE  TextTo(k) = TextTo(k - 1) \o Piece(k)
<1>1. PICK n \in Nat : n = Len(str)
  OBVIOUS
<1>2. PICK f : f = Flattening(Pieces, n) /\ Flattens(f, Pieces, n)
  BY FlatteningExists, Zenon DEF Flattening
<1>3. f[k] = IF k = 1 THEN Pieces[k] ELSE f[k-1] \o Pieces[k]
  BY <1>1, <1>2, Zenon DEF Flattens
<1>4. Pieces[k] = Piece(k) /\ Piece(k) \in Seq(Int)
  BY PiecesAre, PieceType, Zenon
<1>5. k # 0
  OBVIOUS
<1>6. TextTo(k) = f[k]
  BY <1>1, <1>2, <1>5, Zenon DEF TextTo
<1>7. CASE k = 1
  <2>1. TextTo(k - 1) = <<>>
    <3>1. k - 1 = 0
      BY <1>7
    <3> QED
      BY <3>1, Zenon DEF TextTo
  <2>2. <<>> \o Piece(k) = Piece(k)
    BY <1>4, ConcatEmptySeq, Zenon
  <2> QED
    BY <1>3, <1>4, <1>6, <1>7, <2>1, <2>2, Zenon
<1>8. CASE k # 1
  <2>1. k - 1 # 0
    BY <1>8
  <2>2. TextTo(k - 1) = f[k - 1]
    BY <1>1, <1>2, <2>1, Zenon DEF TextTo
  <2> QED
    BY <1>3, <1>4, <1>6, <1>8, <2>2, Zenon
<1> QED
  BY <1>7, <1>8

LEMMA TextIsAll ==
  ASSUME str \in Seq(Nat), arg \in 0 .. WORD - 1
  PROVE  FlattenSeq([k \in DOMAIN str |-> Piece(k)]) = TextTo(Len(str))
<1>1. PICK n \in Nat : n = Len(str)
  OBVIOUS
<1>2. PICK q \in Seq(Seq(Int)) : q = Pieces /\ Len(q) = n
  BY <1>1, PiecesAre, Zenon
<1>3. CASE n = 0
  <2>1. q = <<>>
    BY <1>2, <1>3
  <2>2. FlattenSeq(q) = <<>>
    BY <1>2, <1>3, <2>1, Zenon DEF FlattenSeq
  <2> QED
    BY <1>1, <1>2, <1>3, <2>2, Zenon DEF TextTo, Pieces
<1>4. CASE n # 0
  <2>1. FlattenSeq(q) = Flattening(q, n)[n]
    BY <1>2, <1>4, FlattenSeqIs, Zenon
  <2> QED
    BY <1>1, <1>2, <1>4, <2>1, Zenon DEF TextTo, Pieces
<1> QED
  BY <1>3, <1>4

LEMMA TextSame ==
  ASSUME str' = str, arg' = arg, NEW k
  PROVE  TextTo(k)' = TextTo(k) /\ StartsDirective(k)' = StartsDirective(k)
<1>1. \A c : Shown(c)' = Shown(c)
  BY Zenon DEF Shown
<1>2. \A i : StartsDirective(i)' = StartsDirective(i)
  BY Zenon DEF StartsDirective
<1>3. \A i : Piece(i)' = Piece(i)
  BY <1>1, <1>2, Zenon DEF Piece
<1>4. Pieces' = Pieces
  BY <1>3, Zenon DEF Pieces
<1> QED
  BY <1>2, <1>4, Zenon DEF TextTo

\* No directive goes on at character i.
Boundary(i) == i = 1 \/ ~StartsDirective(i - 1)

LEMMA DirectiveHere ==
  ASSUME str \in Seq(Nat), NEW k \in 1 .. Len(str), Boundary(k)
  PROVE  StartsDirective(k) <=> str[k] = Percent
<1>1. Len(str) \in Nat
  OBVIOUS
<1>2. CASE k = 1
  <2>1. Len(str) > 0
    BY <1>1
  <2> QED
    BY <1>2, <2>1, DirectiveFirst, Zenon
<1>3. CASE k # 1
  <2>1. PICK i \in 1 .. Len(str) - 1 : i = k - 1 /\ k = i + 1
    <3>1. k - 1 \in 1 .. Len(str) - 1 /\ k = (k - 1) + 1
      BY <1>1, <1>3
    <3> QED
      BY <3>1, Zenon
  <2>2. ~StartsDirective(i)
    BY <1>3, <2>1, Zenon DEF Boundary
  <2>3. StartsDirective(i + 1) <=> str[i + 1] = Percent /\ ~StartsDirective(i)
    BY DirectiveNext
  <2> QED
    BY <2>1, <2>2, <2>3, Zenon
<1> QED
  BY <1>2, <1>3

LEMMA PlainCharacter ==
  ASSUME str \in Seq(Nat), arg \in 0 .. WORD - 1, NEW k \in 1 .. Len(str), Boundary(k), str[k] # Percent,
         NEW o \in Seq(Int), o = TextTo(k - 1)
  PROVE  /\ Append(o, str[k]) \in Seq(Int) /\ Append(o, str[k]) = TextTo((k + 1) - 1)
         /\ k + 1 \in 1 .. Len(str) + 1 /\ Boundary(k + 1)
<1>1. Len(str) \in Nat /\ (k + 1) - 1 = k /\ k + 1 \in 1 .. Len(str) + 1
  OBVIOUS
<1>2. ~StartsDirective(k)
  BY DirectiveHere, Zenon
<1>3. ~(k > 1 /\ StartsDirective(k - 1))
  <2>1. k = 1 => ~(k > 1)
    OBVIOUS
  <2> QED
    BY <2>1, Zenon DEF Boundary
<1>4. Piece(k) = <<str[k]>>
  BY <1>2, <1>3, Zenon DEF Piece
<1>5. str[k] \in Int
  OBVIOUS
<1>6. Append(o, str[k]) = o \o <<str[k]>> /\ Append(o, str[k]) \in Seq(Int)
  BY <1>5, Join, Zenon
<1>7. TextTo(k) = TextTo(k - 1) \o Piece(k)
  BY TextGrows, Zenon
<1>8. Boundary(k + 1)
  BY <1>1, <1>2, Zenon DEF Boundary
<1> QED
  BY <1>1, <1>4, <1>6, <1>7, <1>8, Zenon

LEMMA Directive ==
  ASSUME str \in Seq(Nat), arg \in 0 .. WORD - 1, NEW k \in 1 .. Len(str), k # Len(str), Boundary(k),
         str[k] = Percent, NEW o \in Seq(Int), o = TextTo(k - 1)
  PROVE  /\ o \o Shown(str[k + 1]) = TextTo((k + 2) - 1) /\ o \o Shown(str[k + 1]) \in Seq(Int)
         /\ k + 2 \in 1 .. Len(str) + 1 /\ Boundary(k + 2)
<1>1. /\ Len(str) \in Nat /\ (k + 2) - 1 = k + 1 /\ k + 2 \in 1 .. Len(str) + 1 /\ (k + 1) - 1 = k
      /\ k \in 1 .. Len(str) - 1 /\ k + 1 \in 1 .. Len(str) /\ k + 1 > 1
  OBVIOUS
<1>2. StartsDirective(k)
  BY DirectiveHere, Zenon
<1>3. ~StartsDirective(k + 1)
  BY <1>1, <1>2, DirectiveNext, Zenon
<1>4. Piece(k) = Shown(str[k + 1])
  BY <1>2, Zenon DEF Piece
<1>5. Piece(k + 1) = <<>>
  BY <1>1, <1>2, <1>3, Zenon DEF Piece
<1>6. TextTo(k) = TextTo(k - 1) \o Piece(k)
  BY TextGrows, Zenon
<1>7. TextTo(k + 1) = TextTo((k + 1) - 1) \o Piece(k + 1)
  BY <1>1, TextGrows, Zenon
<1>8. PICK s \in Seq(Int) : s = Shown(str[k + 1])
  BY ShownType, Zenon
<1>9. o \o s \in Seq(Int)
  BY Join
<1>10. (o \o s) \o <<>> = o \o s
  BY <1>9, ConcatEmptySeq, Zenon
<1>11. Boundary(k + 2)
  BY <1>1, <1>3, Zenon DEF Boundary
<1> QED
  BY <1>1, <1>4, <1>5, <1>6, <1>7, <1>8, <1>9, <1>10, <1>11, Zenon

\* A lone % at the end stands for nothing.
LEMMA LonePercent ==
  ASSUME str \in Seq(Nat), arg \in 0 .. WORD - 1, NEW k \in 1 .. Len(str), k = Len(str), Boundary(k),
         str[k] = Percent, NEW o \in Seq(Int), o = TextTo(k - 1)
  PROVE  o = TextTo(Len(str)) /\ str # <<>> /\ StartsDirective(Len(str))
<1>1. str # <<>>
  OBVIOUS
<1>2. StartsDirective(k)
  BY DirectiveHere, Zenon
<1>3. Piece(k) = <<>>
  BY <1>2, Zenon DEF Piece
<1>4. TextTo(k) = TextTo(k - 1) \o Piece(k)
  BY TextGrows, Zenon
<1>5. o \o <<>> = o
  BY ConcatEmptySeq, Zenon
<1> QED
  BY <1>1, <1>2, <1>3, <1>4, <1>5, Zenon

-----------------------------------------------------------------------------
(* The invariant: what is out, and what each routine has yet to print, make up the
   text of the format up to at. *)

Goal == TextTo(at - 1)

FmtTypes ==
  /\ str \in Seq(Nat) /\ arg \in 0 .. WORD - 1
  /\ at \in 1 .. Len(str) + 1 /\ Boundary(at)
  /\ out \in Seq(Int) /\ frames \in Seq(Int)

Negative(o, v, f, goal) == v \in Int /\ v < 0 /\ -v < Ten(10) /\ f = <<>> /\ o \o SignedDecimal(v) = goal

Counting(o, v, b, f, goal) == v \in Nat /\ v < Ten(10) /\ Printing(o, v, b, f, goal)

HexGoes(o, v, b, a, goal) ==
  \E prefix \in Seq(Int), j \in 0 .. NIBBLES - 1 :
    HexAt(o, v, b, a, prefix \o <<Zero, 120>>, j) /\ prefix \o Hex(a) = goal

Phase ==
  \/ pc = "printf" /\ frames = <<>> /\ out = Goal
  \/ pc = "uint" /\ Counting(out, x, base, frames, Goal)
  \/ pc = "int" /\ (Counting(out, x, base, frames, Goal) \/ Negative(out, x, frames, Goal))
  \/ pc = "unwind" /\ out \o Reverse(frames) = Goal
  \/ pc = "hex" /\ frames = <<>> /\ HexGoes(out, x, base, arg, Goal)
  \/ pc = "returned" /\ out = TextTo(Len(str)) /\ (flushed <=> ~(str # <<>> /\ StartsDirective(Len(str))))

FmtInv == FmtTypes /\ Phase

LEMMA GoalSame ==
  ASSUME str' = str, arg' = arg
  PROVE  /\ \A i : TextTo(i)' = TextTo(i) /\ (Boundary(i)' <=> Boundary(i))
         /\ at' = at => Goal' = Goal
         /\ TextTo(Len(str))' = TextTo(Len(str)) /\ StartsDirective(Len(str))' = StartsDirective(Len(str))
<1>1. \A i : TextTo(i)' = TextTo(i)
  BY TextSame, Zenon
<1>2. \A i : StartsDirective(i)' = StartsDirective(i)
  BY TextSame, Zenon
<1>3. \A i : Boundary(i)' <=> Boundary(i)
  BY <1>2, Zenon DEF Boundary
<1>4. at' = at => Goal' = Goal
  BY <1>1, Zenon DEF Goal
<1>5. Len(str)' = Len(str)
  BY Zenon
<1> QED
  BY <1>1, <1>2, <1>3, <1>4, <1>5, Zenon

LEMMA GoalMoves ==
  ASSUME str' = str, arg' = arg, NEW k, at' = k
  PROVE  Goal' = TextTo(k - 1) /\ (Boundary(at)' <=> Boundary(k))
<1>1. \A i : Piece(i)' = Piece(i)
  <2>1. \A c : Shown(c)' = Shown(c)
    BY Zenon DEF Shown
  <2>2. \A i : StartsDirective(i)' = StartsDirective(i)
    BY Zenon DEF StartsDirective
  <2> QED
    BY <2>1, <2>2, Zenon DEF Piece
<1>2. Pieces' = Pieces
  BY <1>1, Zenon DEF Pieces
<1>3. Goal' = TextTo(k - 1)
  BY <1>2, Zenon DEF Goal, TextTo
<1>4. Boundary(at)' <=> Boundary(k)
  BY Zenon DEF Boundary, StartsDirective
<1> QED
  BY <1>3, <1>4

LEMMA FmtStarts == FmtInit => FmtInv
<1> SUFFICES ASSUME FmtInit PROVE FmtInv
  OBVIOUS
<1>1. PICK c \in Calls : str = c[1] /\ arg = c[2]
  BY Zenon DEF FmtInit
<1>2. str \in Seq(Nat) /\ arg \in 0 .. WORD - 1
  BY <1>1, FormatAssumption
<1>3. at = 1 /\ pc = "printf" /\ frames = <<>> /\ out = <<>>
  BY Zenon DEF FmtInit
<1>4. at \in 1 .. Len(str) + 1
  BY <1>2, <1>3
<1>5. <<>> \in Seq(Int)
  OBVIOUS
<1>6. FmtTypes
  BY <1>2, <1>3, <1>4, <1>5, Zenon DEF FmtTypes, Boundary
<1>7. Goal = <<>>
  <2>1. 1 - 1 = 0
    OBVIOUS
  <2> QED
    BY <1>3, <2>1, Zenon DEF Goal, TextTo
<1> QED
  BY <1>3, <1>6, <1>7, Zenon DEF FmtInv, Phase

\* printf_base returns.
LEMMA PrintfReturns ==
  ASSUME FmtInv, printf_base, at > Len(str) \/ (str[at] = Percent /\ at = Len(str))
  PROVE  FmtInv'
<1>1. /\ pc = "printf" /\ pc' = "returned" /\ flushed' = (at > Len(str))
      /\ at' = at /\ x' = x /\ base' = base /\ out' = out /\ str' = str /\ arg' = arg /\ frames' = frames
  BY Zenon DEF printf_base
<1>2. frames = <<>> /\ out = Goal
  BY <1>1 DEF FmtInv, Phase
<1>3. FmtTypes
  BY Zenon DEF FmtInv
<1>4. str \in Seq(Nat) /\ arg \in 0 .. WORD - 1 /\ out \in Seq(Int) /\ at \in 1 .. Len(str) + 1 /\ Boundary(at) /\ Len(str) \in Nat
  BY <1>3 DEF FmtTypes
<1>5. PICK k \in 1 .. Len(str) + 1 : k = at
  BY <1>4, Zenon
<1>6. out = TextTo(Len(str)) /\ (at > Len(str) <=> ~(str # <<>> /\ StartsDirective(Len(str))))
  <2>1. CASE k > Len(str)
    <3>1. k - 1 = Len(str)
      BY <1>4, <2>1
    <3>2. out = TextTo(Len(str))
      BY <1>2, <1>5, <3>1, Zenon DEF Goal
    <3>3. k = 1 => str = <<>>
      BY <1>4, <3>1
    <3>4. ~(str # <<>> /\ StartsDirective(Len(str)))
      BY <1>4, <1>5, <3>1, <3>3, Zenon DEF Boundary
    <3> QED
      BY <1>5, <2>1, <3>2, <3>4, Zenon
  <2>2. CASE ~(k > Len(str))
    <3>1. k \in 1 .. Len(str)
      BY <1>4, <2>2
    <3>2. str[k] = Percent /\ k = Len(str) /\ Boundary(k) /\ out = TextTo(k - 1)
      BY <1>2, <1>4, <1>5, <2>2, Zenon DEF Goal
    <3>3. out = TextTo(Len(str)) /\ str # <<>> /\ StartsDirective(Len(str))
      BY <1>4, <3>1, <3>2, LonePercent, Zenon
    <3> QED
      BY <1>5, <2>2, <3>3, Zenon
  <2> QED
    BY <2>1, <2>2
<1>7. FmtTypes'
  BY <1>1, <1>3, GoalSame, Zenon DEF FmtTypes
<1>8. /\ out' = TextTo(Len(str))'
      /\ flushed' <=> ~(str' # <<>> /\ StartsDirective(Len(str))')
  BY <1>1, <1>6, GoalSame, Zenon
<1> QED
  BY <1>1, <1>7, <1>8, Zenon DEF FmtInv, Phase

LEMMA PrintfPlain ==
  ASSUME FmtInv, printf_base, ~(at > Len(str)), str[at] # Percent
  PROVE  FmtInv'
<1>1. pc = "printf" /\ str' = str /\ arg' = arg /\ frames' = frames
  BY Zenon DEF printf_base
<1>2. pc' = pc /\ at' = at + 1 /\ out' = Append(out, str[at])
  BY Zenon DEF printf_base, putc
<1>3. frames = <<>> /\ out = Goal
  BY <1>1 DEF FmtInv, Phase
<1>4. FmtTypes
  BY Zenon DEF FmtInv
<1>5. str \in Seq(Nat) /\ arg \in 0 .. WORD - 1 /\ out \in Seq(Int) /\ at \in 1 .. Len(str) + 1 /\ Boundary(at) /\ Len(str) \in Nat
      /\ frames \in Seq(Int)
  BY <1>4 DEF FmtTypes
<1>6. PICK k \in 1 .. Len(str) : k = at
  BY <1>5
<1>7. /\ Append(out, str[k]) \in Seq(Int) /\ Append(out, str[k]) = TextTo((k + 1) - 1)
      /\ k + 1 \in 1 .. Len(str) + 1 /\ Boundary(k + 1)
  BY <1>3, <1>5, <1>6, PlainCharacter, Zenon DEF Goal
<1>8. Goal' = TextTo((k + 1) - 1) /\ (Boundary(at)' <=> Boundary(k + 1))
  BY <1>1, <1>2, <1>6, GoalMoves, Zenon
<1>9. FmtTypes'
  BY <1>1, <1>2, <1>5, <1>6, <1>7, <1>8, Zenon DEF FmtTypes
<1> QED
  BY <1>1, <1>2, <1>3, <1>6, <1>7, <1>8, <1>9, Zenon DEF FmtInv, Phase

LEMMA PrintfDirective ==
  ASSUME FmtInv, printf_base, ~(at > Len(str)), str[at] = Percent, at # Len(str)
  PROVE  FmtInv'
<1>1. pc = "printf" /\ str' = str /\ arg' = arg /\ frames' = frames
  BY Zenon DEF printf_base
<1>2. at' = at + 2 /\ printf_directive(str[at + 1])
  BY Zenon DEF printf_base, NextIndex
<1>3. frames = <<>> /\ out = Goal
  BY <1>1 DEF FmtInv, Phase
<1>4. FmtTypes
  BY Zenon DEF FmtInv
<1>5. str \in Seq(Nat) /\ arg \in 0 .. WORD - 1 /\ out \in Seq(Int) /\ at \in 1 .. Len(str) + 1 /\ Boundary(at) /\ Len(str) \in Nat
      /\ frames \in Seq(Int)
  BY <1>4 DEF FmtTypes
<1>6. PICK k \in 1 .. Len(str) : k = at
  BY <1>5
<1>7. PICK c : c = str[k + 1]
  BY Zenon
<1>8. /\ out \o Shown(c) = TextTo((k + 2) - 1) /\ out \o Shown(c) \in Seq(Int)
      /\ k + 2 \in 1 .. Len(str) + 1 /\ Boundary(k + 2)
  BY <1>3, <1>5, <1>6, <1>7, Directive, Zenon DEF Goal
<1>9. Goal' = TextTo((k + 2) - 1) /\ (Boundary(at)' <=> Boundary(k + 2))
  BY <1>1, <1>2, <1>6, GoalMoves, Zenon
<1>10. out \o Shown(c) = Goal'
  BY <1>8, <1>9, Zenon
<1>11. printf_directive(c)
  BY <1>2, <1>6, <1>7, Zenon
<1>12. ASSUME out' \in Seq(Int) PROVE FmtTypes'
  BY <1>1, <1>2, <1>5, <1>6, <1>8, <1>9, <1>12, Zenon DEF FmtTypes
<1>13. ASSUME out' = out \o Shown(c), pc' = pc PROVE FmtInv'
  <2>1. FmtTypes'
    BY <1>8, <1>12, <1>13, Zenon
  <2>2. Phase'
    BY <1>1, <1>3, <1>10, <1>13, Zenon DEF Phase
  <2> QED
    BY <2>1, <2>2 DEF FmtInv
<1>14. PICK a \in Nat : a = arg /\ a < Ten(10) /\ a \in 0 .. WORD - 1
  <2>1. WORD \in Nat /\ WORD < Ten(10) /\ Ten(10) \in Nat
    BY WordIs, TenTop
  <2> QED
    BY <1>5, <2>1
<1>15. CASE c = Percent
  <2>1. out' = Append(out, Percent) /\ pc' = pc /\ Shown(c) = <<Percent>>
    BY <1>11, <1>15 DEF printf_directive, putc, Shown, Percent
  <2>2. Percent \in Int
    BY DEF Percent
  <2>3. out' = out \o Shown(c)
    BY <1>5, <2>1, <2>2, AppendIsConcat, Zenon
  <2> QED
    BY <1>13, <2>1, <2>3
<1>16. CASE c = 99
  <2>1. out' = Append(out, Byte(arg)) /\ pc' = pc /\ Shown(c) = <<Byte(arg)>>
    BY <1>11, <1>16 DEF printf_directive, putc, Shown, Percent
  <2>2. Byte(arg) \in Int
    BY <1>14 DEF Byte
  <2>3. out' = out \o Shown(c)
    BY <1>5, <2>1, <2>2, AppendIsConcat, Zenon
  <2> QED
    BY <1>13, <2>1, <2>3
<1>17. CASE c = 115
  <2>1. out' = out \o StringArg /\ pc' = pc /\ Shown(c) = StringArg
    BY <1>11, <1>17 DEF printf_directive, putc, Shown, Percent
  <2> QED
    BY <1>13, <2>1
<1>18. CASE c = 100
  <2>1. pc' = "int" /\ x' = Signed(arg) /\ base' = 1 /\ out' = out /\ Shown(c) = SignedDecimal(Signed(arg))
    BY <1>11, <1>18 DEF printf_directive, putc, Shown, Percent
  <2>2. PICK v \in Int : v = Signed(arg) /\ v < Ten(10) /\ -v < Ten(10)
    BY <1>5, SignedRange, Zenon
  <2>3. FmtTypes'
    BY <1>5, <1>12, <2>1, Zenon
  <2>4. out \o SignedDecimal(v) = Goal'
    BY <1>10, <2>1, <2>2, Zenon
  <2>5. CASE v < 0
    <3>1. Negative(out', x', frames', Goal')
      BY <1>1, <1>3, <2>1, <2>2, <2>4, <2>5, Zenon DEF Negative
    <3>2. Phase'
      BY <2>1, <3>1, Zenon DEF Phase
    <3> QED
      BY <2>3, <3>2 DEF FmtInv
  <2>6. CASE ~(v < 0)
    <3>1. v \in Nat /\ v >= 0
      BY <2>6
    <3>2. PICK d \in Seq(Int) : d = Decimal(v)
      BY <2>2, <3>1, DecimalType, Zenon
    <3>3. out \o d = Goal'
      BY <2>4, <3>1, <3>2, Zenon DEF SignedDecimal
    <3>4. (out \o d) \o <<>> = out \o d
      <4>1. out \o d \in Seq(Int)
        BY <1>5, ConcatProperties, Zenon
      <4> QED
        BY <4>1, ConcatEmptySeq, Zenon
    <3>5. Printing(out, v, 1, <<>>, Goal')
      BY <3>2, <3>3, <3>4, ReverseEmpty, Zenon DEF Printing
    <3>6. Counting(out', x', base', frames', Goal')
      BY <1>1, <1>3, <2>1, <2>2, <3>1, <3>5, Zenon DEF Counting
    <3>7. Phase'
      BY <2>1, <3>6, Zenon DEF Phase
    <3> QED
      BY <2>3, <3>7 DEF FmtInv
  <2> QED
    BY <2>5, <2>6
<1>19. CASE c = 117
  <2>1. pc' = "uint" /\ x' = arg /\ base' = 1 /\ out' = out /\ Shown(c) = Decimal(arg)
    BY <1>11, <1>19 DEF printf_directive, putc, Shown, Percent
  <2>2. FmtTypes'
    BY <1>5, <1>12, <2>1, Zenon
  <2>3. PICK d \in Seq(Int) : d = Decimal(a)
    BY <1>14, DecimalType, Zenon
  <2>4. out \o d = Goal'
    BY <1>10, <1>14, <2>1, <2>3, Zenon
  <2>5. (out \o d) \o <<>> = out \o d
    <3>1. out \o d \in Seq(Int)
      BY <1>5, ConcatProperties, Zenon
    <3> QED
      BY <3>1, ConcatEmptySeq, Zenon
  <2>6. Printing(out, a, 1, <<>>, Goal')
    BY <2>3, <2>4, <2>5, ReverseEmpty, Zenon DEF Printing
  <2>7. Counting(out', x', base', frames', Goal')
    BY <1>1, <1>3, <1>14, <2>1, <2>6, Zenon DEF Counting
  <2>8. Phase'
    BY <2>1, <2>7, Zenon DEF Phase
  <2> QED
    BY <2>2, <2>8 DEF FmtInv
<1>20. CASE c = 120
  <2>1. pc' = "hex" /\ x' = arg /\ base' = 1 /\ out' = out \o <<Zero, 120>> /\ Shown(c) = Hex(arg)
    BY <1>11, <1>20 DEF printf_directive, putc, Shown, Percent
  <2>2. <<Zero, 120>> \in Seq(Int)
    BY DEF Zero
  <2>3. out' \in Seq(Int)
    BY <1>5, <2>1, <2>2, ConcatProperties, Zenon
  <2>4. FmtTypes'
    BY <1>12, <2>3, Zenon
  <2>5. HexAt(out', arg, 1, arg, out \o <<Zero, 120>>, 0)
    BY <1>5, <2>1, HexBegins, Zenon
  <2>6. 0 \in 0 .. NIBBLES - 1
    BY WordIs
  <2>7. HexGoes(out', x', base', arg', Goal')
    BY <1>1, <1>5, <1>10, <2>1, <2>5, <2>6, Zenon DEF HexGoes
  <2>8. Phase'
    BY <1>1, <1>3, <2>1, <2>7, Zenon DEF Phase
  <2> QED
    BY <2>4, <2>8 DEF FmtInv
<1>21. CASE c \notin {Percent, 99, 100, 120, 117, 115}
  <2>1. out' = out /\ pc' = pc /\ Shown(c) = <<>>
    BY <1>11, <1>21, Zenon DEF printf_directive, putc, Shown
  <2>2. out \o <<>> = out
    BY <1>5, ConcatEmptySeq, Zenon
  <2> QED
    BY <1>13, <2>1, <2>2
<1> QED
  BY <1>15, <1>16, <1>17, <1>18, <1>19, <1>20, <1>21, Zenon

\* The call that finds 0.
LEMMA DigitsDone ==
  ASSUME FmtInv, EndOfDigits, pc = "uint" \/ pc = "int", UNCHANGED <<str, arg, at, flushed>>
  PROVE  FmtInv'
<1>1. x = 0 /\ pc' = "unwind" /\ frames' = frames /\ str' = str /\ arg' = arg /\ at' = at
  BY Zenon DEF EndOfDigits
<1>2. FmtTypes
  BY Zenon DEF FmtInv
<1>3. str \in Seq(Nat) /\ out \in Seq(Int) /\ frames \in Seq(Int)
  BY <1>2, Zenon DEF FmtTypes
<1>4. Counting(out, x, base, frames, Goal)
  <2>1. ~(0 < 0)
    OBVIOUS
  <2>2. ~Negative(out, x, frames, Goal)
    BY <1>1, <2>1, Zenon DEF Negative
  <2> QED
    BY <2>2 DEF FmtInv, Phase
<1>5. Printing(out, 0, base, frames, Goal)
  BY <1>1, <1>4, Zenon DEF Counting
<1>6. PICK goal : goal = Goal /\ goal = Goal'
  BY <1>1, GoalSame, Zenon
<1>7. /\ base = 1 => Append(out, Zero) \in Seq(Int) /\ Append(out, Zero) \o Reverse(frames) = goal
      /\ base # 1 => out \o Reverse(frames) = goal
  BY <1>3, <1>5, <1>6, DigitsEnd, Zenon
<1>8. out' \in Seq(Int) /\ out' \o Reverse(frames) = goal
  BY <1>3, <1>7, Zenon DEF EndOfDigits, putc
<1>9. FmtTypes'
  BY <1>1, <1>2, <1>8, GoalSame, Zenon DEF FmtTypes
<1>10. Phase'
  BY <1>1, <1>6, <1>8, Zenon DEF Phase
<1> QED
  BY <1>9, <1>10 DEF FmtInv

\* A call that goes on, with what is left of the number.
LEMMA DigitsGoOn ==
  ASSUME FmtInv, NEW v \in Nat, v = x, x # 0, pc = "uint" \/ pc = "int", UNCHANGED <<str, arg, at, flushed>>,
         out' = out, pc' = pc, x' = v \div 10, frames' = Append(frames, Zero + (v % 10)), base' = 0
  PROVE  FmtInv'
<1>1. FmtTypes
  BY Zenon DEF FmtInv
<1>2. out \in Seq(Int) /\ frames \in Seq(Int)
  BY <1>1, Zenon DEF FmtTypes
<1>3. Counting(out, x, base, frames, Goal)
  <2>1. ~(v < 0)
    OBVIOUS
  <2>2. ~Negative(out, x, frames, Goal)
    BY <2>1, Zenon DEF Negative
  <2> QED
    BY <2>2 DEF FmtInv, Phase
<1>4. PICK goal : goal = Goal /\ goal = Goal'
  BY GoalSame, Zenon
<1>5. v \in Nat \ {0} /\ v < Ten(10) /\ Printing(out, v, base, frames, goal)
  <2>1. v # 0
    BY Zenon
  <2>2. v \in Nat \ {0}
    BY <2>1
  <2> QED
    BY <1>3, <1>4, <2>2, Zenon DEF Counting
<1>6. /\ v \div 10 \in Nat /\ v \div 10 < Ten(10) /\ Append(frames, Zero + (v % 10)) \in Seq(Int)
      /\ Printing(out, v \div 10, 0, Append(frames, Zero + (v % 10)), goal)
  BY <1>2, <1>5, DigitKept, Zenon
<1>7. FmtTypes'
  BY <1>1, <1>6, GoalSame, Zenon DEF FmtTypes
<1>8. Counting(out', x', base', frames', Goal')
  BY <1>4, <1>6, Zenon DEF Counting
<1>9. Phase'
  BY <1>8, Zenon DEF Phase
<1> QED
  BY <1>7, <1>9 DEF FmtInv

LEMMA UintKeeps ==
  ASSUME FmtInv, print_uint
  PROVE  FmtInv'
<1>1. pc = "uint" /\ UNCHANGED <<str, arg, at, flushed>>
  BY Zenon DEF print_uint
<1>2. CASE EndOfDigits
  BY <1>1, <1>2, DigitsDone, Zenon
<1>3. CASE /\ x # 0 /\ frames' = Append(frames, Zero + (x % 10)) /\ x' = x \div 10 /\ base' = 0
           /\ UNCHANGED <<pc, out>>
  <2>1. Counting(out, x, base, frames, Goal)
    BY <1>1 DEF FmtInv, Phase
  <2>2. PICK v \in Nat : v = x
    BY <2>1, Zenon DEF Counting
  <2>3. x' = v \div 10 /\ frames' = Append(frames, Zero + (v % 10)) /\ out' = out /\ pc' = pc
    BY <1>3, <2>2, Zenon
  <2> QED
    BY <1>1, <1>3, <2>2, <2>3, DigitsGoOn, Zenon
<1> QED
  BY <1>2, <1>3, Zenon DEF print_uint

LEMMA IntKeeps ==
  ASSUME FmtInv, print_int
  PROVE  FmtInv'
<1>1. pc = "int" /\ UNCHANGED <<str, arg, at, flushed>>
  BY Zenon DEF print_int
<1>2. CASE EndOfDigits
  BY <1>1, <1>2, DigitsDone, Zenon
<1>3. CASE ~EndOfDigits
  <2>1. /\ x # 0 /\ frames' = Append(frames, Zero + Remainder(x)) /\ base' = 0 /\ pc' = pc
        /\ x < 0 => out' = Append(out, Minus) /\ x' = -1 * Quotient(x)
        /\ ~(x < 0) => out' = out /\ x' = Quotient(x)
    BY <1>3, Zenon DEF print_int, putc
  <2>2. Counting(out, x, base, frames, Goal) \/ Negative(out, x, frames, Goal)
    BY <1>1 DEF FmtInv, Phase
  <2>3. CASE Counting(out, x, base, frames, Goal)
    <3>1. PICK v \in Nat : v = x
      BY <2>3, Zenon DEF Counting
    <3>2. PICK h \in Nat, r \in 0 .. 10 - 1 : v = h * 10 + r /\ v \div 10 = h /\ v % 10 = r
      <4>1. 10 \in Nat \ {0}
        OBVIOUS
      <4> QED
        BY <4>1, DivOf
    <3>3. ~(v < 0)
      OBVIOUS
    <3>4. Quotient(v) = h
      BY <3>2, <3>3, Zenon DEF Quotient
    <3>5. Remainder(v) = r
      <4>1. v - 10 * h = r
        BY <3>2
      <4> QED
        BY <3>4, <4>1, Zenon DEF Remainder
    <3>6. x' = v \div 10 /\ frames' = Append(frames, Zero + (v % 10)) /\ out' = out
      BY <2>1, <3>1, <3>2, <3>3, <3>4, <3>5, Zenon
    <3> QED
      BY <1>1, <2>1, <3>1, <3>6, DigitsGoOn, Zenon
  <2>4. CASE Negative(out, x, frames, Goal)
    <3>1. FmtTypes
      BY Zenon DEF FmtInv
    <3>2. out \in Seq(Int)
      BY <3>1, Zenon DEF FmtTypes
    <3>3. PICK goal : goal = Goal /\ goal = Goal'
      BY <1>1, GoalSame, Zenon
    <3>4. PICK v \in Int : v = x /\ v < 0 /\ -v < Ten(10) /\ frames = <<>> /\ out \o SignedDecimal(v) = goal
      BY <2>4, <3>3, Zenon DEF Negative
    <3>5. /\ -1 * Quotient(v) \in Nat /\ -1 * Quotient(v) < Ten(10)
          /\ Append(out, Minus) \in Seq(Int) /\ Append(<<>>, Zero + Remainder(v)) \in Seq(Int)
          /\ Printing(Append(out, Minus), -1 * Quotient(v), 0, Append(<<>>, Zero + Remainder(v)), goal)
      BY <3>2, <3>4, NegativeKept, Zenon
    <3>6. out' = Append(out, Minus) /\ x' = -1 * Quotient(v) /\ frames' = Append(<<>>, Zero + Remainder(v))
      BY <2>1, <3>4, Zenon
    <3>7. FmtTypes'
      BY <1>1, <3>1, <3>5, <3>6, GoalSame, Zenon DEF FmtTypes
    <3>8. Counting(out', x', base', frames', Goal')
      BY <2>1, <3>3, <3>5, <3>6, Zenon DEF Counting
    <3>9. Phase'
      BY <1>1, <2>1, <3>8, Zenon DEF Phase
    <3> QED
      BY <3>7, <3>9 DEF FmtInv
  <2> QED
    BY <2>2, <2>3, <2>4
<1> QED
  BY <1>2, <1>3

LEMMA UnwindKeeps ==
  ASSUME FmtInv, Unwind
  PROVE  FmtInv'
<1>1. pc = "unwind" /\ str' = str /\ arg' = arg /\ at' = at
  BY Zenon DEF Unwind
<1>2. FmtTypes
  BY Zenon DEF FmtInv
<1>3. out \in Seq(Int) /\ frames \in Seq(Int)
  BY <1>2, Zenon DEF FmtTypes
<1>4. PICK goal : goal = Goal /\ goal = Goal'
  BY <1>1, GoalSame, Zenon
<1>5. out \o Reverse(frames) = goal
  BY <1>1, <1>4 DEF FmtInv, Phase
<1>6. CASE frames = <<>>
  <2>1. pc' = "printf" /\ out' = out /\ frames' = frames
    BY <1>6, Zenon DEF Unwind
  <2>2. out \o <<>> = out
    BY <1>3, ConcatEmptySeq, Zenon
  <2>3. out = goal
    BY <1>5, <1>6, <2>2, ReverseEmpty, Zenon
  <2>4. FmtTypes'
    BY <1>1, <1>2, <2>1, GoalSame, Zenon DEF FmtTypes
  <2>5. Phase'
    BY <1>4, <1>6, <2>1, <2>3, Zenon DEF Phase
  <2> QED
    BY <2>4, <2>5 DEF FmtInv
<1>7. CASE frames # <<>>
  <2>1. pc' = pc /\ out' = Append(out, Last(frames)) /\ frames' = Front(frames)
    BY <1>7, Zenon DEF Unwind, putc
  <2>2. /\ Append(out, Last(frames)) \in Seq(Int) /\ Front(frames) \in Seq(Int)
        /\ Append(out, Last(frames)) \o Reverse(Front(frames)) = out \o Reverse(frames)
    BY <1>3, <1>7, FramePrinted, Zenon
  <2>3. out' \in Seq(Int) /\ frames' \in Seq(Int) /\ out' \o Reverse(frames') = goal
    BY <1>5, <2>1, <2>2, Zenon
  <2>4. FmtTypes'
    BY <1>1, <1>2, <2>3, GoalSame, Zenon DEF FmtTypes
  <2>5. Phase'
    BY <1>1, <1>4, <2>1, <2>3, Zenon DEF Phase
  <2> QED
    BY <2>4, <2>5 DEF FmtInv
<1> QED
  BY <1>6, <1>7

LEMMA HexKeeps ==
  ASSUME FmtInv, print_hex
  PROVE  FmtInv'
<1>1. pc = "hex" /\ str' = str /\ arg' = arg /\ at' = at /\ frames' = frames
  BY Zenon DEF print_hex
<1>2. PICK digit : digit = x \div (WORD \div 16)
  BY Zenon
<1>3. /\ digit = 0 /\ base = 1 /\ x # 0 => out' = out /\ base' = base
      /\ ~(digit = 0 /\ base = 1 /\ x # 0) => out' = Append(out, HexChar(digit)) /\ base' = 0
  BY <1>2, Zenon DEF print_hex, Skips, putc
<1>4. x' = (x * 16) % WORD /\ (x' = 0 => pc' = "printf") /\ (x' # 0 => pc' = "hex")
  BY Zenon DEF print_hex
<1>5. FmtTypes
  BY Zenon DEF FmtInv
<1>6. out \in Seq(Int) /\ arg \in 0 .. WORD - 1
  BY <1>5, Zenon DEF FmtTypes
<1>7. PICK goal : goal = Goal /\ goal = Goal'
  BY <1>1, GoalSame, Zenon
<1>8. frames = <<>> /\ HexGoes(out, x, base, arg, goal)
  BY <1>1, <1>7 DEF FmtInv, Phase
<1>9. PICK prefix \in Seq(Int), j \in 0 .. NIBBLES - 1 :
        HexAt(out, x, base, arg, prefix \o <<Zero, 120>>, j) /\ prefix \o Hex(arg) = goal
  BY <1>8, Zenon DEF HexGoes
<1>10. ASSUME out' \in Seq(Int), x' = 0 => out' = goal, x' # 0 => HexGoes(out', x', base', arg, goal)
       PROVE  FmtInv'
  <2>1. FmtTypes'
    BY <1>1, <1>5, <1>10, GoalSame, Zenon DEF FmtTypes
  <2>2. CASE x' = 0
    <3>1. Phase'
      BY <1>1, <1>4, <1>7, <1>8, <1>10, <2>2, Zenon DEF Phase
    <3> QED
      BY <2>1, <3>1 DEF FmtInv
  <2>3. CASE x' # 0
    <3>1. Phase'
      BY <1>1, <1>4, <1>7, <1>8, <1>10, <2>3, Zenon DEF Phase
    <3> QED
      BY <2>1, <3>1 DEF FmtInv
  <2> QED
    BY <2>2, <2>3
<1>11. PICK head \in Seq(Int), z \in Seq(Int) : head = prefix \o <<Zero, 120>> /\ z = <<Zero, 120>>
  <2>1. <<Zero, 120>> \in Seq(Int)
    BY DEF Zero
  <2>2. prefix \o <<Zero, 120>> \in Seq(Int)
    BY <2>1, ConcatProperties, Zenon
  <2> QED
    BY <2>1, <2>2, Zenon
<1>12. CASE arg = 0
  <2>1. HexAt(out, x, base, 0, head, j)
    BY <1>9, <1>11, <1>12, Zenon
  <2>2. x = 0 /\ base = 1 /\ out = head /\ HexChar(0) \in Int /\ Hex(0) = <<Zero, 120>> \o <<HexChar(0)>>
    BY <2>1, HexOfZero, Zenon
  <2>3. 0 \div (WORD \div 16) = 0 /\ (0 * 16) % WORD = 0
    <3>1. PICK w \in Nat \ {0} : w = WORD
      BY WordIs, Zenon
    <3>2. 0 * 16 = 0 /\ 0 \in 0 .. w - 1
      OBVIOUS
    <3>3. 0 % w = 0
      BY <3>2, DivSmall, Zenon
    <3>4. 0 \in 0 .. NIBBLES - 1
      BY WordIs
    <3>5. PICK g \in Nat \ {0} : g = WORD \div 16
      <4>1. PICK q \in Nat \ {0}, p \in Nat \ {0} : WORD \div 16 = q * p
        BY <3>4, WordSplits, Zenon
      <4>2. q * p \in Nat \ {0}
        OBVIOUS
      <4> QED
        BY <4>1, <4>2, Zenon
    <3>6. 0 \in 0 .. g - 1
      OBVIOUS
    <3>7. 0 \div g = 0
      BY <3>6, DivSmall, Zenon
    <3> QED
      BY <3>1, <3>2, <3>3, <3>5, <3>7, Zenon
  <2>4. x' = 0 /\ digit = 0
    BY <1>2, <1>4, <2>2, <2>3, Zenon
  <2>5. out' = Append(out, HexChar(0))
    BY <1>3, <2>2, <2>4, Zenon
  <2>6. PICK c \in Int : c = HexChar(0)
    BY <2>2, Zenon
  <2>7. Append(out, c) \in Seq(Int) /\ Append(out, c) = out \o <<c>> /\ <<c>> \in Seq(Int)
    BY <1>6, Join, Zenon
  <2>8. (prefix \o z) \o <<c>> = prefix \o (z \o <<c>>)
    BY <2>7, JoinThree, Zenon
  <2>9. out' = goal
    BY <1>9, <1>11, <1>12, <2>2, <2>5, <2>6, <2>7, <2>8, Zenon
  <2>10. out' \in Seq(Int)
    BY <2>5, <2>6, <2>7, Zenon
  <2> QED
    BY <1>10, <2>4, <2>9, <2>10, Zenon
<1>13. CASE arg # 0
  <2>1. PICK a \in Nat \ {0} : a = arg /\ a < WORD
    <3>1. WORD \in Nat
      BY WordIs
    <3>2. arg \in Nat \ {0} /\ arg < WORD
      BY <1>6, <1>13, <3>1
    <3> QED
      BY <3>2, Zenon
  <2>2. CASE j < NIBBLES - Digits(a, 16)
    <3>1. /\ x \div (WORD \div 16) = 0 /\ base = 1 /\ x # 0 /\ (x * 16) % WORD # 0
          /\ j + 1 \in 0 .. NIBBLES - 1 /\ HexAt(out, (x * 16) % WORD, base, a, head, j + 1)
      <4>1. HexAt(out, x, base, a, head, j)
        BY <1>9, <1>11, <2>1, Zenon
      <4> QED
        BY <2>1, <2>2, <4>1, HexSkips
    <3>2. out' = out /\ base' = base /\ x' # 0 /\ HexAt(out', x', base', arg, head, j + 1)
      BY <1>2, <1>3, <1>4, <2>1, <3>1, Zenon
    <3>3. HexGoes(out', x', base', arg, goal)
      BY <1>9, <1>11, <3>1, <3>2, Zenon DEF HexGoes
    <3> QED
      BY <1>6, <1>10, <3>2, <3>3, Zenon
  <2>3. CASE ~(j < NIBBLES - Digits(a, 16))
    <3>1. /\ out \in Seq(Int) /\ x \div (WORD \div 16) \in Nat /\ x # 0
          /\ ~(x \div (WORD \div 16) = 0 /\ base = 1)
          /\ (x * 16) % WORD = 0 => Append(out, HexChar(x \div (WORD \div 16))) = prefix \o Hex(a)
          /\ (x * 16) % WORD # 0 =>
               /\ j + 1 \in 0 .. NIBBLES - 1
               /\ HexAt(Append(out, HexChar(x \div (WORD \div 16))), (x * 16) % WORD, 0, a, prefix \o <<Zero, 120>>, j + 1)
      <4>1. HexAt(out, x, base, a, prefix \o <<Zero, 120>>, j)
        BY <1>9, <2>1, Zenon
      <4>2. HexPrinted(out, x, base, a, prefix, j)
        BY <2>1, <2>3, <4>1, HexPrints
      <4> QED
        BY <4>2, Zenon DEF HexPrinted
    <3>2. out' = Append(out, HexChar(x \div (WORD \div 16))) /\ base' = 0
      BY <1>2, <1>3, <3>1, Zenon
    <3>3. out' \in Seq(Int)
      BY <1>6, <3>1, <3>2, HexCharIsInt, AppendProperties, Zenon
    <3>4. x' = 0 => out' = goal
      BY <1>4, <1>9, <2>1, <3>1, <3>2, Zenon
    <3>5. x' # 0 => HexGoes(out', x', base', arg, goal)
      BY <1>4, <1>9, <2>1, <3>1, <3>2, Zenon DEF HexGoes
    <3> QED
      BY <1>10, <3>3, <3>4, <3>5, Zenon
  <2> QED
    BY <2>2, <2>3
<1> QED
  BY <1>12, <1>13

LEMMA FmtStutters ==
  ASSUME FmtInv, UNCHANGED fmtvars
  PROVE  FmtInv'
<1>1. /\ str' = str /\ arg' = arg /\ at' = at /\ pc' = pc /\ x' = x /\ base' = base /\ frames' = frames
      /\ out' = out /\ flushed' = flushed
  BY Zenon DEF fmtvars
<1>2. FmtTypes'
  BY <1>1, GoalSame, Zenon DEF FmtInv, FmtTypes
<1>3. Goal' = Goal /\ TextTo(Len(str))' = TextTo(Len(str)) /\ StartsDirective(Len(str))' = StartsDirective(Len(str))
  BY <1>1, GoalSame, Zenon
<1>4. Phase'
  BY <1>1, <1>3 DEF FmtInv, Phase
<1> QED
  BY <1>2, <1>4 DEF FmtInv

\* printf (io.c:13-114) prints what its format and argument say, for words of up to
\* eight hex digits, any argument and a format of any length.
THEOREM PrintfIsRight == FmtSpec => []PrintsFormat
<1>1. FmtInv /\ [FmtNext]_fmtvars => FmtInv'
  <2> SUFFICES ASSUME FmtInv, [FmtNext]_fmtvars PROVE FmtInv'
    OBVIOUS
  <2>1. CASE printf_base
    <3>1. CASE at > Len(str) \/ (str[at] = Percent /\ at = Len(str))
      BY <2>1, <3>1, PrintfReturns, Zenon
    <3>2. CASE ~(at > Len(str)) /\ str[at] # Percent
      BY <2>1, <3>2, PrintfPlain, Zenon
    <3>3. CASE ~(at > Len(str)) /\ str[at] = Percent /\ at # Len(str)
      BY <2>1, <3>3, PrintfDirective, Zenon
    <3> QED
      BY <3>1, <3>2, <3>3, Zenon
  <2>2. CASE UNCHANGED fmtvars
    BY <2>2, FmtStutters
  <2> QED
    BY <2>1, <2>2, UintKeeps, IntKeeps, UnwindKeeps, HexKeeps, Zenon DEF FmtNext
<1>2. FmtInv => PrintsFormat
  <2> SUFFICES ASSUME FmtInv, pc = "returned" PROVE PrintsFormat
    BY DEF PrintsFormat
  <2>1. str \in Seq(Nat) /\ arg \in 0 .. WORD - 1
    BY Zenon DEF FmtInv, FmtTypes
  <2>2. out = TextTo(Len(str)) /\ (flushed <=> ~(str # <<>> /\ StartsDirective(Len(str))))
    BY DEF FmtInv, Phase
  <2> QED
    BY <2>1, <2>2, TextIsAll, Zenon DEF PrintsFormat
<1> QED
  BY <1>1, <1>2, FmtStarts, PTL DEF FmtSpec
=============================================================================
