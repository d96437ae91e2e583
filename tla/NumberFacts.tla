---------------------------- MODULE NumberFacts ----------------------------
(***************************************************************************)
(* Facts about numbers that the proofs about the barrier, the channels and *)
(* the GVT need and the provers do not find: induction as a fact about     *)
(* sets of numbers (from the least element of a non-empty set), remainders *)
(* by a modulus that is not a literal, powers of two, numbers with their   *)
(* low bits cleared, and the sum of a function over a finite set.          *)
(***************************************************************************)
EXTENDS Integers, TLAPS, WellFoundedInduction, FiniteSetTheorems, FunctionTheorems

-----------------------------------------------------------------------------
(* Every non-empty set of natural numbers has a least element.             *)
LEMMA LeastElement ==
  ASSUME NEW T, T \subseteq Nat, T # {}
  PROVE  \E x \in T : \A y \in T : x <= y
<1> DEFINE R == {ss \in Nat \X Nat : ss[1] < ss[2]}
<1>1. IsWellFoundedOn(R, Nat)
  BY NatLessThanWellFounded DEF OpToRel
<1> HIDE DEF R
<1>2. PICK x \in T : \A y \in T : ~ (<<y, x>> \in R)
  BY <1>1, WFMin
<1>3. \A y \in T : ~ (y < x)
  BY <1>2 DEF R
<1> QED
  BY <1>3

(* A set of numbers that holds 0, and n + 1 with every n, holds them all.  *)
LEMMA Induction ==
  ASSUME NEW S, 0 \in S, \A n \in Nat : n \in S => n + 1 \in S
  PROVE  Nat \subseteq S
<1> DEFINE T == Nat \ S
<1> SUFFICES ASSUME T # {} PROVE FALSE
  OBVIOUS
<1>1. PICK x \in T : \A y \in T : x <= y
  <2>1. T \subseteq Nat
    OBVIOUS
  <2> HIDE DEF T
  <2> QED
    BY LeastElement, <2>1
<1>2. x # 0 /\ x - 1 \in Nat /\ x - 1 \in S
  BY <1>1
<1> QED
  BY <1>1, <1>2

-----------------------------------------------------------------------------
(* A power of two is the number of sets of so many elements.               *)
LEMMA PowerIsCardinality ==
  ASSUME NEW n \in Nat
  PROVE  /\ IsFiniteSet(SUBSET (1 .. n))
         /\ Cardinality(SUBSET (1 .. n)) = 2^n
<1>1. IsFiniteSet(1 .. n) /\ Cardinality(1 .. n) = n
  BY FS_Interval
<1> QED
  BY <1>1, FS_SUBSET

LEMMA PowerPositive == \A n \in Nat : 2^n \in Nat \ {0}
<1> SUFFICES ASSUME NEW n \in Nat PROVE 2^n \in Nat \ {0}
  OBVIOUS
<1>1. IsFiniteSet(SUBSET (1 .. n)) /\ Cardinality(SUBSET (1 .. n)) = 2^n
  BY PowerIsCardinality
<1>2. SUBSET (1 .. n) # {}
  OBVIOUS
<1>3. Cardinality(SUBSET (1 .. n)) \in Nat /\ Cardinality(SUBSET (1 .. n)) # 0
  BY <1>1, <1>2, FS_CardinalityType, FS_EmptySet
<1> QED
  BY <1>1, <1>3

LEMMA PowerZero == 2^0 = 1
  OBVIOUS

(* Half the sets of n + 1 elements hold the last of them.                  *)
LEMMA PowerDouble == \A n \in Nat : 2^(n + 1) = 2 * 2^n
<1> SUFFICES ASSUME NEW n \in Nat PROVE 2^(n + 1) = 2 * 2^n
 OBVIOUS
<1> DEFINE A == SUBSET (1 .. n)
           f == [T \in A |-> T \cup {n + 1}]
           B == {f[T] : T \in A}
<1>1. IsFiniteSet(A) /\ Cardinality(A) = 2^n
  <2>1. IsFiniteSet(1..n) /\ Cardinality(1..n) = n
    BY FS_Interval
  <2> QED BY <2>1, FS_SUBSET
<1>2. IsFiniteSet(SUBSET (1..n+1)) /\ Cardinality(SUBSET (1..n+1)) = 2^(n+1)
  <2>1. IsFiniteSet(1..n+1) /\ Cardinality(1..n+1) = n+1
    BY FS_Interval
  <2> QED BY <2>1, FS_SUBSET
<1>3. IsFiniteSet(B) /\ Cardinality(B) = 2^n
  <2>1. f \in Bijection(A, B)
    <3>1. f \in [A -> B] /\ \A b \in B : \E T \in A : f[T] = b
      OBVIOUS
    <3>2. ASSUME NEW T \in A, NEW U \in A, f[T] = f[U] PROVE T = U
      <4>1. \A V \in A : (n + 1) \notin V
        OBVIOUS
      <4>2. T \cup {n + 1} = U \cup {n + 1}
        BY <3>2
      <4>3. n + 1 \notin T /\ n + 1 \notin U
        BY <4>1
      <4>4. \A x : x \in T <=> x \in U
        BY <4>2, <4>3
      <4> HIDE DEF A
      <4> QED BY <4>4
    <3> HIDE DEF f, B, A
    <3> QED BY <3>1, <3>2 DEF Bijection, Injection, Surjection, IsInjective
  <2> QED BY <2>1, <1>1, FS_Bijection, Fun_IsBij DEF ExistsBijection
<1>4. SUBSET (1 .. n + 1) = A \cup B
  <2>1. ASSUME NEW U \in SUBSET (1 .. n + 1), n + 1 \in U PROVE U \in B
    <3>1. U \ {n + 1} \in A /\ U = (U \ {n + 1}) \cup {n + 1}
      BY <2>1
    <3> QED BY <3>1
  <2>2. ASSUME NEW U \in SUBSET (1 .. n + 1), n + 1 \notin U PROVE U \in A
    BY <2>2
  <2>3. ASSUME NEW U \in A PROVE U \in SUBSET (1 .. n + 1) /\ U \cup {n + 1} \in SUBSET (1 .. n + 1)
    OBVIOUS
  <2>4. ASSUME NEW U \in B PROVE U \in SUBSET (1 .. n + 1)
    <3>1. PICK T \in A : U = f[T]
      OBVIOUS
    <3>2. f[T] = T \cup {n + 1}
      BY <3>1
    <3> HIDE DEF A, f
    <3> QED
      BY <2>3, <3>1, <3>2
  <2> HIDE DEF A, B
  <2> QED BY <2>1, <2>2, <2>3, <2>4
<1>5. A \cap B = {}
  <2>1. \A T \in A : n + 1 \notin T
    OBVIOUS
  <2>2. \A U \in B : n + 1 \in U
    OBVIOUS
  <2> HIDE DEF A, B
  <2> QED BY <2>1, <2>2
<1> HIDE DEF A, B, f
<1>6. Cardinality(A \cup B) = Cardinality(A) + Cardinality(B) - Cardinality({})
  BY <1>1, <1>3, <1>5, FS_Union
<1>7. Cardinality(A) \in Nat
  BY <1>1, FS_CardinalityType
<1>8. Cardinality({}) = 0
  BY FS_EmptySet
<1>9. 2^(n + 1) = 2^n + 2^n - 0
  BY <1>1, <1>2, <1>3, <1>4, <1>6, <1>8
<1>10. 2^n \in Nat
  BY <1>1, <1>7
<1> QED BY <1>9, <1>10

LEMMA PowerMonotone == \A m, n \in Nat : m <= n => 2^m <= 2^n
<1> SUFFICES ASSUME NEW m \in Nat PROVE \A n \in Nat : m <= n => 2^m <= 2^n
  OBVIOUS
<1> DEFINE S == {d \in Nat : 2^m <= 2^(m + d)}
<1>1. 0 \in S
  BY PowerPositive
<1>2. ASSUME NEW d \in Nat, d \in S PROVE d + 1 \in S
  <2>1. 2^(m + d + 1) = 2 * 2^(m + d)
    BY PowerDouble
  <2>2. 2^(m + d) \in Nat /\ 2^m \in Nat /\ m + (d + 1) = m + d + 1
    BY PowerPositive
  <2> QED
    BY <1>2, <2>1, <2>2
<1>3. Nat \subseteq S
  <2> HIDE DEF S
  <2> QED
    BY <1>1, <1>2, Induction
<1>4. ASSUME NEW n \in Nat, m <= n PROVE 2^m <= 2^n
  <2>1. n - m \in S /\ m + (n - m) = n
    BY <1>3, <1>4
  <2> QED
    BY <2>1
<1> QED
  BY <1>4

LEMMA PowerSum == \A m, n \in Nat : 2^(m + n) = 2^m * 2^n
<1> SUFFICES ASSUME NEW m \in Nat PROVE \A n \in Nat : 2^(m + n) = 2^m * 2^n
  OBVIOUS
<1> DEFINE S == {n \in Nat : 2^(m + n) = 2^m * 2^n}
<1>1. 0 \in S
  BY PowerPositive, PowerZero
<1>2. ASSUME NEW n \in Nat, n \in S PROVE n + 1 \in S
  <2>1. 2^(m + n + 1) = 2 * 2^(m + n) /\ 2^(n + 1) = 2 * 2^n
    BY PowerDouble
  <2>2. 2^(m + n) \in Nat /\ 2^m \in Nat /\ 2^n \in Nat /\ m + (n + 1) = m + n + 1
    BY PowerPositive
  <2>3. 2^m * (2 * 2^n) = 2 * (2^m * 2^n)
    BY <2>2
  <2> QED
    BY <1>2, <2>1, <2>2, <2>3
<1>3. Nat \subseteq S
  <2> HIDE DEF S
  <2> QED
    BY <1>1, <1>2, Induction
<1> QED
  BY <1>3

-----------------------------------------------------------------------------
(* Quotient and remainder exist, and are the only ones.                    *)
LEMMA Division ==
  ASSUME NEW m \in Nat \ {0}, NEW x \in Int
  PROVE  /\ x % m \in 0 .. m - 1
         /\ x \div m \in Int
         /\ x = m * (x \div m) + (x % m)
  BY SMTT(10)

LEMMA RemainderUnique ==
  ASSUME NEW m \in Nat \ {0}, NEW q \in Int, NEW r \in 0 .. m - 1
  PROVE  (m * q + r) % m = r
<1> DEFINE x == m * q + r
           p == x \div m
           s == x % m
<1>1. x \in Int /\ p \in Int /\ s \in 0 .. m - 1 /\ m * q + r = m * p + s
  BY Division
<1> HIDE DEF p, s
<1>2. m * (q - p) = s - r
  BY <1>1
<1>3. CASE q - p >= 1
  <2>1. m * (q - p) >= m * 1
    BY <1>1, <1>3, SMTT(10)
  <2> QED
    BY <1>1, <1>2, <2>1
<1>4. CASE q - p <= -1
  <2>1. m * (p - q) >= m * 1
    BY <1>1, <1>4, SMTT(10)
  <2> QED
    BY <1>1, <1>2, <2>1
<1>5. CASE q = p
  BY <1>1, <1>2, <1>5 DEF s
<1> QED
  BY <1>1, <1>3, <1>4, <1>5

(* Adding a multiple of the modulus changes nothing.                       *)
LEMMA RemainderShift ==
  ASSUME NEW m \in Nat \ {0}, NEW x \in Int, NEW q \in Int
  PROVE  (x + m * q) % m = x % m
<1>1. x % m \in 0 .. m - 1 /\ x \div m \in Int /\ x = m * (x \div m) + (x % m)
  BY Division
<1>2. x + m * q = m * ((x \div m) + q) + (x % m) /\ (x \div m) + q \in Int
  BY <1>1
<1>3. (m * ((x \div m) + q) + (x % m)) % m = x % m
  BY <1>1, <1>2, RemainderUnique
<1> QED
  BY <1>2, <1>3

(* Remainders may be taken before an addition or after it.                 *)
LEMMA RemainderSum ==
  ASSUME NEW m \in Nat \ {0}, NEW x \in Int, NEW y \in Int
  PROVE  ((x % m) + y) % m = (x + y) % m
<1>1. x % m \in 0 .. m - 1 /\ x \div m \in Int /\ x = m * (x \div m) + (x % m)
  BY Division
<1>2. (x % m) + y \in Int /\ x + y = ((x % m) + y) + m * (x \div m)
  BY <1>1
<1> QED
  BY <1>1, <1>2, RemainderShift

LEMMA RemainderSmall ==
  ASSUME NEW m \in Nat \ {0}, NEW r \in 0 .. m - 1
  PROVE  r % m = r
<1>1. m * 0 + r = r
  OBVIOUS
<1> QED
  BY <1>1, RemainderUnique

(* One remainder determines its number in an interval as long as the       *)
(* modulus.                                                                *)
LEMMA RemainderCancel ==
  ASSUME NEW m \in Nat \ {0}, NEW x \in Int, NEW y \in Int,
         x % m = y % m, x - y < m, y - x < m
  PROVE  x = y
<1>1. /\ x % m \in 0 .. m - 1 /\ x \div m \in Int /\ x = m * (x \div m) + (x % m)
      /\ y % m \in 0 .. m - 1 /\ y \div m \in Int /\ y = m * (y \div m) + (y % m)
  BY Division
<1> DEFINE d == (x \div m) - (y \div m)
<1>2. d \in Int /\ x - y = m * d
  BY <1>1
<1> HIDE DEF d
<1>3. CASE d >= 1
  <2>1. m * d >= m * 1
    BY <1>2, <1>3, SMTT(10)
  <2> QED
    BY <1>2, <2>1
<1>4. CASE d <= -1
  <2>1. m * (-d) >= m * 1
    BY <1>2, <1>4, SMTT(10)
  <2> QED
    BY <1>2, <2>1
<1> QED
  BY <1>2, <1>3, <1>4

(* Both terms of a difference may be cut.                                  *)
LEMMA RemainderDifference ==
  ASSUME NEW m \in Nat \ {0}, NEW x \in Int, NEW y \in Int, NEW z \in Int
  PROVE  ((x % m) - (y % m) + z) % m = (x - y + z) % m
<1>1. /\ x % m \in Int /\ x \div m \in Int /\ x = m * (x \div m) + (x % m)
      /\ y % m \in Int /\ y \div m \in Int /\ y = m * (y \div m) + (y % m)
  BY Division
<1>2. PICK a \in Int, p \in Int, b \in Int, q \in Int :
        /\ a = x % m /\ p = x \div m /\ b = y % m /\ q = y \div m
        /\ x = m * p + a /\ y = m * q + b
  BY <1>1
<1>3. x = m * p + a /\ y = m * q + b
  BY <1>2
<1>4. PICK d \in Int, c \in Int : d = p - q /\ c = a - b + z
  OBVIOUS
<1>5. x - y + z = c + m * d
  BY <1>3, <1>4
<1>6. (c + m * d) % m = c % m
  BY RemainderShift
<1>7. (x - y + z) % m = c % m
  BY <1>5, <1>6
<1> QED
  BY <1>2, <1>4, <1>7

(* A remainder by a multiple of m has the same remainder by m.             *)
LEMMA RemainderTwice ==
  ASSUME NEW m \in Nat \ {0}, NEW n \in Nat \ {0}, NEW x \in Int
  PROVE  (x % (m * n)) % m = x % m
<1>1. PICK k \in Nat \ {0} : k = m * n
  OBVIOUS
<1>2. x % k \in Int /\ x \div k \in Int /\ x = k * (x \div k) + (x % k)
  BY Division
<1>3. PICK a \in Int, q \in Int : a = x % k /\ q = x \div k /\ x = k * q + a
  BY <1>2
<1>4. x = (m * n) * q + a
  BY <1>1, <1>3
<1>5. PICK r \in Int : r = n * q
  OBVIOUS
<1>6. (m * n) * q = m * r
  BY <1>5
<1>7. x = a + m * r
  <2>1. PICK u \in Int : u = m * r
    OBVIOUS
  <2> QED
    BY <1>4, <1>6, <2>1
<1>8. (a + m * r) % m = a % m
  BY RemainderShift
<1>9. x % m = a % m
  BY <1>7, <1>8
<1> QED
  BY <1>1, <1>3, <1>9

-----------------------------------------------------------------------------
(* q with its i low bits cleared.                                          *)
Floor(q, i) == q - (q % 2^i)

(* A power of two exceeds its exponent.                                    *)
LEMMA PowerExceeds == \A n \in Nat : n < 2^n
<1> DEFINE S == {n \in Nat : n < 2^n}
<1>1. 0 \in S
  BY PowerZero
<1>2. \A n \in Nat : n \in S => n + 1 \in S
  <2> SUFFICES ASSUME NEW n \in Nat, n < 2^n PROVE n + 1 < 2^(n + 1)
    BY DEF S
  <2>1. 2^(n + 1) = 2 * 2^n
    BY PowerDouble
  <2>2. 2^n \in Nat
    BY PowerPositive
  <2> DEFINE p == 2^n
             d == 2^(n + 1)
  <2>3. d = 2 * p /\ p \in Nat /\ n < p
    BY <2>1, <2>2
  <2> HIDE DEF p, d
  <2>4. n + 1 < d
    BY <2>3
  <2> QED
    BY <2>4 DEF d
<1> HIDE DEF S
<1>3. Nat \subseteq S
  BY <1>1, <1>2, Induction
<1> QED
  BY <1>3 DEF S

(* q with its low i bits cleared: the multiple of 2^i at or next below q.  *)
LEMMA FloorBounds ==
  ASSUME NEW q \in Nat, NEW i \in Nat
  PROVE  /\ Floor(q, i) \in Nat
         /\ Floor(q, i) <= q
         /\ q < Floor(q, i) + 2^i
         /\ Floor(q, i) % 2^i = 0
<1> DEFINE m == 2^i
<1>1. m \in Nat \ {0}
  BY PowerPositive
<1> DEFINE x == q \div m
           y == q % m
<1>2. y \in 0 .. m - 1 /\ x \in Int /\ q = m * x + y
  <2> HIDE DEF m
  <2> QED
    BY <1>1, Division
<1> HIDE DEF x, y
<1>3. q - y = m * x + 0
  <2> HIDE DEF m
  <2> QED
    BY <1>1, <1>2
<1>4. (m * x + 0) % m = 0
  <2> HIDE DEF m
  <2>1. 0 \in 0 .. m - 1
    BY <1>1
  <2> QED
    BY <1>1, <1>2, <2>1, RemainderUnique
<1>5. q - y \in Nat /\ q - y <= q /\ q < q - y + m
  <2> HIDE DEF m
  <2>1. m * x >= 0
    <3>1. x >= 0
      BY <1>1, <1>2
    <3> QED
      BY <1>1, <1>2, <3>1
  <2>2. PICK z \in Int : z = m * x
    BY <1>1, <1>2
  <2> QED
    BY <1>1, <1>2, <2>1, <2>2
<1> QED
  BY <1>3, <1>4, <1>5 DEF Floor, y

(* Two multiples of m that are less than m apart are equal.                *)
LEMMA FloorUnique ==
  ASSUME NEW q \in Nat, NEW i \in Nat, NEW a \in Nat,
         a % 2^i = 0, a <= q, q < a + 2^i
  PROVE  Floor(q, i) = a
<1> DEFINE m == 2^i
<1>1. m \in Nat \ {0} /\ a % m = 0 /\ a <= q /\ q < a + m
  BY PowerPositive
<1> DEFINE x == a \div m
<1> HIDE DEF m
<1>2. x \in Int /\ a = m * x + (a % m)
  BY <1>1, Division
<1> HIDE DEF x
<1>3. q - a \in 0 .. m - 1
  BY <1>1
<1>4. (m * x + (q - a)) % m = q - a
  BY <1>1, <1>2, <1>3, RemainderUnique
<1>5. m * x + (q - a) = q
  <2>1. PICK z \in Int : z = m * x
    BY <1>1, <1>2
  <2> QED
    BY <1>1, <1>2, <2>1
<1>6. q % m = q - a
  BY <1>4, <1>5
<1> QED
  BY <1>6 DEF Floor, m

(* A multiple of a power of two is one of the lower powers.                *)
LEMMA AlignedBelow ==
  ASSUME NEW a \in Nat, NEW j \in Nat, a % 2^j = 0, NEW i \in 0 .. j
  PROVE  a % 2^i = 0
<1>1. i \in Nat /\ j - i \in Nat /\ i + (j - i) = j
  OBVIOUS
<1>2. 2^j = 2^i * 2^(j - i)
  BY <1>1, PowerSum
<1> DEFINE m == 2^i
           n == 2^(j - i)
<1>3. m \in Nat \ {0} /\ n \in Nat \ {0}
  BY <1>1, PowerPositive
<1>4. a % (m * n) = 0
  BY <1>2
<1> HIDE DEF m, n
<1>5. (a % (m * n)) % m = a % m
  <2>1. a \in Int
    OBVIOUS
  <2> QED
    BY <1>3, <2>1, RemainderTwice
<1>6. 0 % m = 0
  BY <1>3, RemainderSmall
<1> QED
  BY <1>4, <1>5, <1>6 DEF m

(* A multiple of 2^i has no low bits to clear.                             *)
LEMMA AlignedFloor ==
  ASSUME NEW a \in Nat, NEW i \in Nat, a % 2^i = 0
  PROVE  Floor(a, i) = a
BY DEF Floor

(* The multiples of 2^i that are not above q are not above Floor(q, i).    *)
LEMMA FloorGreatest ==
  ASSUME NEW q \in Nat, NEW i \in Nat, NEW a \in Nat, a % 2^i = 0, a <= q
  PROVE  a <= Floor(q, i)
<1> DEFINE m == 2^i
           b == Floor(q, i)
<1>1. m \in Nat \ {0} /\ a % m = 0
  BY PowerPositive
<1>2. b \in Nat /\ b <= q /\ q < b + m /\ b % m = 0
  BY FloorBounds
<1> DEFINE x == a \div m
           y == b \div m
<1> HIDE DEF m, b
<1>3. x \in Int /\ y \in Int /\ a = m * x /\ b = m * y
  <2>1. x \in Int /\ a = m * x + (a % m)
    BY <1>1, Division
  <2>2. y \in Int /\ b = m * y + (b % m)
    BY <1>1, <1>2, Division
  <2> HIDE DEF x, y
  <2>3. m * x \in Int /\ m * y \in Int
    BY <1>1, <2>1, <2>2
  <2>4. a = m * x
    BY <2>1, <2>3, <1>1
  <2>5. b = m * y
    BY <2>2, <2>3, <1>2
  <2> QED
    BY <2>1, <2>2, <2>4, <2>5
<1> HIDE DEF x, y
<1>4. SUFFICES ASSUME a > b PROVE FALSE
  BY <1>2 DEF b
<1>5. x > y
  <2> SUFFICES ASSUME x <= y PROVE FALSE
    BY <1>3
  <2>1. m * x <= m * y
    BY <1>1, <1>3
  <2> QED
    BY <2>1, <1>3, <1>4, <1>2
<1>6. x >= y + 1
  BY <1>3, <1>5
<1>7. m * x >= m * y + m
  <2>1. m * x >= m * (y + 1)
    BY <1>1, <1>3, <1>6
  <2>2. m * (y + 1) = m * y + m
    BY <1>1, <1>3
  <2> QED
    BY <2>1, <2>2
<1> QED
  BY <1>1, <1>2, <1>3, <1>7

(* Clearing fewer bits first makes no difference.                          *)
LEMMA FloorTwice ==
  ASSUME NEW q \in Nat, NEW j \in Nat, NEW i \in 0 .. j
  PROVE  Floor(Floor(q, i), j) = Floor(q, j)
<1> DEFINE a == Floor(q, j)
           b == Floor(q, i)
<1>1. i \in Nat /\ 2^j \in Nat
  BY PowerPositive
<1>2. a \in Nat /\ a <= q /\ q < a + 2^j /\ a % 2^j = 0
  BY FloorBounds
<1>3. b \in Nat /\ b <= q
  BY <1>1, FloorBounds
<1> HIDE DEF a, b
<1>4. a % 2^i = 0
  BY <1>2, AlignedBelow
<1>5. a <= b
  BY <1>1, <1>2, <1>4, FloorGreatest DEF b
<1>6. b < a + 2^j
  BY <1>1, <1>2, <1>3
<1>7. Floor(b, j) = a
  BY <1>2, <1>3, <1>5, <1>6, FloorUnique
<1> QED
  BY <1>7 DEF a, b

(* Clearing no bit.                                                        *)
LEMMA FloorZero ==
  ASSUME NEW q \in Nat
  PROVE  Floor(q, 0) = q
<1>1. 2^0 = 1 /\ 0 \in Nat
  BY PowerZero
<1>2. Floor(q, 0) \in Nat /\ Floor(q, 0) <= q /\ q < Floor(q, 0) + 1
  BY <1>1, FloorBounds
<1> QED
  BY <1>2

(* A further bit cleared.                                                  *)
LEMMA FloorNext ==
  ASSUME NEW q \in Nat, NEW i \in Nat
  PROVE  Floor(q, i) \in {Floor(q, i + 1), Floor(q, i + 1) + 2^i}
<1> DEFINE a == Floor(q, i + 1)
           m == 2^i
           n == 2^(i + 1)
<1>1. i + 1 \in Nat /\ i \in 0 .. i + 1
  OBVIOUS
<1>2. m \in Nat \ {0} /\ n = 2 * m
  BY PowerPositive, PowerDouble
<1>3. a \in Nat /\ a <= q /\ q < a + n /\ a % n = 0
  BY <1>1, FloorBounds
<1>4. a % m = 0
  BY <1>1, <1>3, AlignedBelow
<1> HIDE DEF a, n
<1>5. CASE q < a + m
  BY <1>3, <1>4, <1>5, FloorUnique DEF a
<1>6. CASE q >= a + m
  <2>1. (a + m) % m = 0
    <3> HIDE DEF m
    <3>1. PICK u \in Int : u = 1
      OBVIOUS
    <3>2. (a + m * u) % m = a % m
      <4>1. a \in Int
        BY <1>3
      <4> QED
        BY <1>2, <4>1, RemainderShift
    <3>3. m * u = m
      BY <1>2, <3>1
    <3> QED
      BY <1>4, <3>2, <3>3
  <2>2. a + m \in Nat /\ a + m <= q /\ q < (a + m) + m
    <3> HIDE DEF m
    <3> QED
      BY <1>2, <1>3, <1>6
  <2>3. Floor(q, i) = a + m
    BY <2>1, <2>2, FloorUnique
  <2> QED
    BY <2>3 DEF a
<1> QED
  <2> HIDE DEF m
  <2> QED
    BY <1>2, <1>3, <1>5, <1>6

(* The lowest bit that is set.                                             *)
LEMMA LowestBit ==
  ASSUME NEW a \in Nat, NEW i \in Nat, a % 2^(i + 1) = 0
  PROVE  /\ a % 2^i = 0
         /\ (a + 2^i) % 2^i = 0
         /\ (a + 2^i) % 2^(i + 1) = 2^i
<1> DEFINE m == 2^i
           n == 2^(i + 1)
<1>1. i + 1 \in Nat /\ i \in 0 .. i + 1
  OBVIOUS
<1>2. m \in Nat \ {0} /\ n = 2 * m /\ n \in Nat \ {0}
  BY <1>1, PowerPositive, PowerDouble
<1>3. a % m = 0
  BY <1>1, AlignedBelow
<1>4. a % n = 0
  OBVIOUS
<1>7. a \in Int
  OBVIOUS
<1> HIDE DEF m, n
<1>5. (a + m) % m = 0
  <2>1. PICK u \in Int : u = 1
    OBVIOUS
  <2>2. (a + m * u) % m = a % m
    BY <1>2, <1>7, RemainderShift
  <2>3. m * u = m
    BY <1>2, <2>1
  <2> QED
    BY <1>3, <2>2, <2>3
<1>6. (a + m) % n = m
  <2> DEFINE x == a \div n
  <2>1. x \in Int /\ a = n * x + (a % n)
    BY <1>2, <1>7, Division
  <2> HIDE DEF x
  <2>2. m \in 0 .. n - 1
    BY <1>2
  <2>3. (n * x + m) % n = m
    BY <1>2, <2>1, <2>2, RemainderUnique
  <2>4. n * x \in Int
    BY <1>2, <2>1
  <2>5. a = n * x
    BY <1>4, <2>1, <2>4
  <2> QED
    BY <2>3, <2>5
<1> QED
  BY <1>3, <1>5, <1>6 DEF m, n

-----------------------------------------------------------------------------
(* The sum of a function of natural numbers over a finite set is the       *)
(* number of the units it is made of.                                      *)
Units(f, S) == UNION {{q} \X (0 .. f[q] - 1) : q \in S}

SumOf(f, S) == Cardinality(Units(f, S))

(* One member of S has as many units as its value.                         *)
LEMMA UnitsOfOne ==
  ASSUME NEW f, NEW q, f[q] \in Nat
  PROVE  /\ IsFiniteSet(Units(f, {q}))
         /\ Cardinality(Units(f, {q})) = f[q]
<1> DEFINE g == [i \in 0 .. f[q] - 1 |-> <<q, i>>]
<1>1. g \in Bijection(0 .. f[q] - 1, Units(f, {q}))
  <2>1. g \in [0 .. f[q] - 1 -> Units(f, {q})]
    BY DEF Units
  <2>2. \A u \in Units(f, {q}) : u[2] \in 0 .. f[q] - 1 /\ g[u[2]] = u
    BY DEF Units
  <2>3. g \in Surjection(0 .. f[q] - 1, Units(f, {q}))
    BY <2>1, <2>2 DEF Surjection
  <2>4. g \in Injection(0 .. f[q] - 1, Units(f, {q}))
    BY <2>1 DEF Injection, IsInjective
  <2> QED
    BY <2>3, <2>4 DEF Bijection
<1>2. \A n \in Nat : IsFiniteSet(0 .. n - 1) /\ Cardinality(0 .. n - 1) = n
  <2> TAKE n \in Nat
  <2>1. n - 1 \in Int /\ 0 \in Int
    OBVIOUS
  <2> QED
    BY <2>1, FS_Interval
<1>3. ExistsBijection(0 .. f[q] - 1, Units(f, {q}))
  BY <1>1 DEF ExistsBijection
<1> QED
  BY <1>2, <1>3, FS_Bijection

(* The units over a finite set are finitely many.                          *)
LEMMA UnitsFinite ==
  ASSUME NEW S, IsFiniteSet(S), NEW f, \A q \in S : f[q] \in Nat
  PROVE  IsFiniteSet(Units(f, S))
<1> DEFINE A == {Units(f, {q}) : q \in S}
           g == [q \in S |-> Units(f, {q})]
<1>1. g \in Surjection(S, A)
  BY DEF Surjection
<1>2. IsFiniteSet(A)
  BY <1>1, FS_Surjection
<1>3. \A U \in A : IsFiniteSet(U)
  BY UnitsOfOne
<1>4. Units(f, S) = UNION A
  BY DEF Units
<1> HIDE DEF A
<1> QED
  BY <1>2, <1>3, <1>4, FS_UNION

(* A sum is a number.                                                      *)
LEMMA SumType ==
  ASSUME NEW S, IsFiniteSet(S), NEW f, \A q \in S : f[q] \in Nat
  PROVE  SumOf(f, S) \in Nat
BY UnitsFinite, FS_CardinalityType DEF SumOf

(* The sum over no one.                                                    *)
LEMMA SumEmpty == ASSUME NEW f PROVE SumOf(f, {}) = 0
<1>1. Units(f, {}) = {}
  BY DEF Units
<1> QED
  BY <1>1, FS_EmptySet DEF SumOf

(* The sum over one.                                                       *)
LEMMA SumOne ==
  ASSUME NEW f, NEW q, f[q] \in Nat
  PROVE  SumOf(f, {q}) = f[q]
BY UnitsOfOne DEF SumOf

(* The sum over two disjoint sets.                                         *)
LEMMA SumUnion ==
  ASSUME NEW S, IsFiniteSet(S), NEW T, IsFiniteSet(T), S \cap T = {},
         NEW f, \A q \in S \cup T : f[q] \in Nat
  PROVE  SumOf(f, S \cup T) = SumOf(f, S) + SumOf(f, T)
<1>1. Units(f, S \cup T) = Units(f, S) \cup Units(f, T)
  BY DEF Units
<1>2. Units(f, S) \cap Units(f, T) = {}
  BY DEF Units
<1>3. IsFiniteSet(Units(f, S)) /\ IsFiniteSet(Units(f, T))
  BY UnitsFinite
<1>4. Cardinality(Units(f, S)) \in Nat /\ Cardinality(Units(f, T)) \in Nat
  BY <1>3, FS_CardinalityType
<1>5. Cardinality({}) = 0
  BY FS_EmptySet
<1> DEFINE A == Units(f, S)
           B == Units(f, T)
<1> HIDE DEF A, B
<1>6. Cardinality(A \cup B) = Cardinality(A) + Cardinality(B) - Cardinality(A \cap B)
  <2>1. IsFiniteSet(A) /\ IsFiniteSet(B)
    BY <1>3 DEF A, B
  <2> QED
    BY <2>1, FS_Union
<1>7. Cardinality(A \cup B) = Cardinality(A) + Cardinality(B)
  <2>1. A \cap B = {} /\ Cardinality(A) \in Nat /\ Cardinality(B) \in Nat
    BY <1>2, <1>4 DEF A, B
  <2>2. Cardinality(A \cap B) = 0
    BY <1>5, <2>1
  <2> QED
    BY <1>6, <2>1, <2>2
<1> QED
  BY <1>1, <1>7 DEF SumOf, A, B

(* Functions that agree on S have the same sum over it.                    *)
LEMMA SumAgree ==
  ASSUME NEW S, NEW f, NEW g, \A q \in S : f[q] = g[q]
  PROVE  SumOf(f, S) = SumOf(g, S)
<1>1. Units(f, S) = Units(g, S)
  BY DEF Units
<1> QED
  BY <1>1 DEF SumOf

(* A function that is nowhere greater has no greater sum.                  *)
LEMMA SumMonotone ==
  ASSUME NEW S, IsFiniteSet(S), NEW f, NEW g,
         \A q \in S : f[q] \in Nat /\ g[q] \in Nat /\ f[q] <= g[q]
  PROVE  SumOf(f, S) <= SumOf(g, S)
<1>1. Units(f, S) \subseteq Units(g, S)
  BY DEF Units
<1>2. IsFiniteSet(Units(g, S))
  BY UnitsFinite
<1> QED
  BY <1>1, <1>2, FS_Subset DEF SumOf

(* The sum of a constant.                                                  *)
LEMMA SumConstant ==
  ASSUME NEW S, IsFiniteSet(S), NEW c \in Nat, NEW f, \A q \in S : f[q] = c
  PROVE  SumOf(f, S) = Cardinality(S) * c
<1>1. Units(f, S) = S \X (0 .. c - 1)
  BY DEF Units
<1>2. IsFiniteSet(0 .. c - 1) /\ Cardinality(0 .. c - 1) = c
  BY FS_Interval
<1> QED
  BY <1>1, <1>2, FS_Product DEF SumOf

(* One value of the function grows.                                        *)
LEMMA SumChange ==
  ASSUME NEW S, IsFiniteSet(S), NEW f, NEW g, NEW r \in S, NEW d \in Int,
         \A q \in S : f[q] \in Nat /\ g[q] \in Nat,
         \A q \in S \ {r} : g[q] = f[q], g[r] = f[r] + d
  PROVE  SumOf(g, S) = SumOf(f, S) + d
<1> DEFINE R == S \ {r}
<1>1. IsFiniteSet(R) /\ IsFiniteSet({r})
  BY FS_Subset, FS_Singleton
<1>2. R \cup {r} = S /\ R \cap {r} = {}
  OBVIOUS
<1>3. SumOf(f, S) = SumOf(f, R) + f[r] /\ SumOf(f, R) \in Nat
  <2>1. SumOf(f, R \cup {r}) = SumOf(f, R) + SumOf(f, {r})
    <3> HIDE DEF R
    <3> QED
      BY <1>1, <1>2, SumUnion
  <2>2. SumOf(f, R) \in Nat
    BY <1>1, SumType
  <2> QED
    BY <2>1, <2>2, <1>2, SumOne
<1>4. SumOf(g, S) = SumOf(g, R) + g[r]
  <2>1. SumOf(g, R \cup {r}) = SumOf(g, R) + SumOf(g, {r})
    <3> HIDE DEF R
    <3> QED
      BY <1>1, <1>2, SumUnion
  <2> QED
    BY <2>1, <1>2, SumOne
<1>5. SumOf(g, R) = SumOf(f, R)
  BY SumAgree
<1> HIDE DEF R
<1>6. f[r] \in Nat /\ g[r] = f[r] + d
  OBVIOUS
<1> QED
  BY <1>3, <1>4, <1>5, <1>6
=============================================================================
