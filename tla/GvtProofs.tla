----------------------------- MODULE GvtProofs -----------------------------
(***************************************************************************)
(* Proofs about Gvt, for every number of ranks, of events and of epochs:   *)
(* a message finds its counter at its destination, no event is before a    *)
(* GVT, the reducibles of a collective are the sum over all the ranks, and *)
(* a result reaches each rank once.  All four follow from the invariant of *)
(* GvtInvariant, which every step keeps.  And Gvt implements GvtEpochs     *)
(* (the mapping is in GvtRefinement): every step of the code is a step of  *)
(* the protocol or leaves its state alone.                                 *)
(*                                                                         *)
(* The order: the two trees and what arrives in them; a contribution in    *)
(* the tree; the status of the ranks; the counters; the times; a call of   *)
(* rdxn_up as a whole (RisingPart); then each action, and the theorems;    *)
(* last the refinement, one lemma XMaps for each action X, and what it     *)
(* carries over from GvtEpochsProofs to the code.                          *)
(* Steps that change many variables are stated of parameters, with their   *)
(* hypotheses and their results each in one definition.                    *)
(***************************************************************************)
EXTENDS GvtRefinement

-----------------------------------------------------------------------------
(* Ranks are natural numbers below N.                                      *)
LEMMA RanksAreNumbers == N \in Nat \ {0} /\ Ranks \subseteq Nat /\ 0 \in Ranks /\ \A r \in Ranks : r < N
BY ConstantsAssumption DEF Ranks

(* There are N ranks.                                                      *)
LEMMA RanksFinite == IsFiniteSet(Ranks) /\ Cardinality(Ranks) = N
<1>1. N \in Nat \ {0} /\ 0 \in Int /\ N - 1 \in Int
  BY ConstantsAssumption
<1> QED
  BY <1>1, FS_Interval DEF Ranks

(* All the ranks are below rank 0.                                         *)
LEMMA SubtreeOfRoot == Subtree(0) = Ranks
<1> SUFFICES ASSUME NEW q \in Ranks PROVE Floor(q, N) = 0 /\ N \in 0 .. N
  BY DEF Subtree
<1>1. N \in Nat /\ q \in Nat /\ q < N /\ N < 2^N
  BY RanksAreNumbers, PowerExceeds
<1>2. 2^N \in Nat \ {0}
  BY <1>1, PowerPositive
<1>3. 0 % 2^N = 0
  <2> DEFINE m == 2^N
  <2>1. m \in Nat \ {0}
    BY <1>2
  <2> HIDE DEF m
  <2>2. 0 \in 0 .. m - 1
    BY <2>1
  <2>3. 0 % m = 0
    BY <2>1, <2>2, RemainderSmall
  <2> QED
    BY <2>3 DEF m
<1>4. 0 \in Nat /\ 0 <= q /\ q < 0 + 2^N
  BY <1>1, <1>2
<1> QED
  BY <1>1, <1>3, <1>4, FloorUnique

(* A rank is in its own subtree.                                           *)
LEMMA SubtreeHasRoot == \A r \in Ranks : r \in Subtree(r)
<1> SUFFICES ASSUME NEW r \in Ranks PROVE r \in Subtree(r)
  OBVIOUS
<1>1. Floor(r, 0) = r /\ 0 \in 0 .. N
  BY RanksAreNumbers, FloorZero
<1> QED
  BY <1>1 DEF Subtree

(* What holds of the kid r + 2^j.                                          *)
LEMMA KidLevel ==
  ASSUME NEW r \in Ranks, NEW k \in Kids(r)
  PROVE  \E j \in 0 .. N - 1 :
           /\ k = r + 2^j /\ k \in Ranks /\ r < k
           /\ r % 2^(j + 1) = 0 /\ k % 2^j = 0 /\ k % 2^(j + 1) = 2^j
           /\ 2^j \in Nat \ {0} /\ 2^(j + 1) = 2 * 2^j
<1>1. PICK j \in 0 .. N : k = r + 2^j /\ r % 2^(j + 1) = 0
  BY DEF Kids
<1>2. k \in Ranks /\ k < N /\ k \in Nat /\ r \in Nat /\ N \in Nat
  BY RanksAreNumbers DEF Kids
<1>3. j \in Nat
  BY <1>2
<1>4. 2^j \in Nat \ {0} /\ j < 2^j
  BY <1>3, PowerPositive, PowerExceeds
<1>5. j \in 0 .. N - 1 /\ r < k
  <2> DEFINE m == 2^j
  <2>1. m \in Nat \ {0} /\ j < m /\ k = r + m
    BY <1>1, <1>4
  <2> HIDE DEF m
  <2> QED
    BY <1>2, <1>3, <2>1
<1>6. r % 2^j = 0 /\ (r + 2^j) % 2^j = 0 /\ (r + 2^j) % 2^(j + 1) = 2^j
  BY <1>1, <1>2, <1>3, LowestBit
<1>7. 2^(j + 1) = 2 * 2^j
  BY <1>3, PowerDouble
<1> QED
  BY <1>1, <1>2, <1>4, <1>5, <1>6, <1>7

(* The subtree of the kid r + 2^j lies in the 2^j numbers that begin there.*)
LEMMA SubtreeBounds ==
  ASSUME NEW r \in Nat, NEW j \in Nat, NEW k \in Nat, k = r + 2^j, r % 2^(j + 1) = 0,
         NEW q \in Subtree(k)
  PROVE  k <= q /\ q < k + 2^j /\ Floor(q, j + 1) = r
<1>1. PICK i \in 0 .. N : Floor(q, i) = k
  BY DEF Subtree
<1>2. q \in Nat /\ i \in Nat
  BY RanksAreNumbers DEF Subtree
<1>3. k <= q /\ q < k + 2^i /\ k % 2^i = 0
  BY <1>1, <1>2, FloorBounds
<1>4. k % 2^(j + 1) = 2^j /\ 2^j \in Nat \ {0}
  BY LowestBit, PowerPositive
<1>5. i <= j
  <2> SUFFICES ASSUME j + 1 <= i PROVE FALSE
    BY <1>2
  <2>1. j + 1 \in 0 .. i
    BY <1>2
  <2>2. k % 2^(j + 1) = 0
    BY <1>2, <1>3, <2>1, AlignedBelow
  <2> QED
    BY <1>4, <2>2
<1>6. 2^i <= 2^j /\ 2^i \in Nat
  BY <1>2, <1>5, PowerMonotone, PowerPositive
<1>7. q < k + 2^j
  <2> DEFINE m == 2^i
             n == 2^j
  <2>1. m <= n /\ m \in Nat /\ n \in Nat /\ q < k + m
    BY <1>3, <1>4, <1>6
  <2> HIDE DEF m, n
  <2>2. q < k + n
    BY <1>2, <2>1
  <2> QED
    BY <2>2 DEF n
<1>8. r <= q /\ q < r + 2^(j + 1)
  <2> DEFINE m == 2^j
             n == 2^(j + 1)
  <2>1. m \in Nat /\ n = 2 * m /\ k = r + m /\ k <= q /\ q < k + m
    BY <1>3, <1>4, <1>7, PowerDouble
  <2> HIDE DEF m, n
  <2>2. r <= q /\ q < r + n
    BY <1>2, <2>1
  <2> QED
    BY <2>2 DEF n
<1>9. Floor(q, j + 1) = r
  BY <1>2, <1>8, FloorUnique
<1> QED
  BY <1>3, <1>7, <1>9

(* The subtree of a rank is the rank itself and the subtrees of its kids.  *)
LEMMA SubtreeSplits ==
  ASSUME NEW r \in Ranks
  PROVE  Subtree(r) = {r} \cup UNION {Subtree(k) : k \in Kids(r)}
<1>1. ASSUME NEW q \in Subtree(r), q # r
      PROVE  \E k \in Kids(r) : q \in Subtree(k)
  <2> DEFINE T == {i \in 0 .. N : Floor(q, i) = r}
  <2>1. q \in Ranks /\ T # {} /\ T \subseteq Nat
    BY DEF Subtree
  <2>2. PICK i \in T : \A h \in T : i <= h
    <3> HIDE DEF T
    <3> QED
      BY <2>1, LeastElement
  <2>3. q \in Nat /\ r \in Nat /\ q < N /\ N \in Nat
    BY <2>1, RanksAreNumbers
  <2>4. i \in 0 .. N /\ Floor(q, i) = r
    BY <2>2
  <2>5. i # 0
    BY <2>3, <2>4, FloorZero, <1>1
  <2>6. i - 1 \in Nat /\ i - 1 \in 0 .. N /\ (i - 1) + 1 = i
    BY <2>3, <2>4, <2>5
  <2>7. Floor(q, i - 1) # r
    <3>1. ~ (i <= i - 1)
      BY <2>6
    <3> QED
      BY <2>2, <2>6, <3>1
  <2>8. Floor(q, i - 1) \in {r, r + 2^(i - 1)}
    BY <2>3, <2>4, <2>6, FloorNext
  <2> DEFINE k == Floor(q, i - 1)
  <2>9. k = r + 2^(i - 1) /\ k <= q /\ k \in Nat
    BY <2>3, <2>6, <2>7, <2>8, FloorBounds
  <2>10. k \in Ranks
    <3> HIDE DEF k
    <3> QED
      BY <2>3, <2>9 DEF Ranks
  <2>11. r % 2^((i - 1) + 1) = 0
    BY <2>3, <2>4, <2>6, FloorBounds
  <2>12. k \in Kids(r)
    BY <2>6, <2>9, <2>10, <2>11 DEF Kids
  <2>13. q \in Subtree(k)
    BY <2>1, <2>6 DEF Subtree
  <2> QED
    BY <2>12, <2>13
<1>2. ASSUME NEW k \in Kids(r), NEW q \in Subtree(k)
      PROVE  q \in Subtree(r)
  <2>1. PICK j \in 0 .. N - 1 : /\ k = r + 2^j /\ k \in Ranks
                                /\ r % 2^(j + 1) = 0
    BY KidLevel
  <2>2. r \in Nat /\ j \in Nat /\ k \in Nat /\ j + 1 \in 0 .. N
    BY <2>1, RanksAreNumbers
  <2>3. Floor(q, j + 1) = r
    BY <2>1, <2>2, SubtreeBounds
  <2> QED
    BY <2>2, <2>3 DEF Subtree
<1>3. r \in Subtree(r)
  BY SubtreeHasRoot
<1> QED
  <2>1. Subtree(r) \subseteq {r} \cup UNION {Subtree(k) : k \in Kids(r)}
    BY <1>1
  <2>2. UNION {Subtree(k) : k \in Kids(r)} \subseteq Subtree(r)
    BY <1>2
  <2> QED
    BY <1>3, <2>1, <2>2

(* The subtrees of two kids have no rank in common.                        *)
LEMMA KidsAreApart ==
  ASSUME NEW r \in Ranks, NEW k1 \in Kids(r), NEW k2 \in Kids(r),
         NEW q \in Subtree(k1), q \in Subtree(k2)
  PROVE  k1 = k2
<1>1. PICK i \in 0 .. N - 1 : /\ k1 = r + 2^i /\ k1 \in Ranks
                              /\ r % 2^(i + 1) = 0
  BY KidLevel
<1>2. PICK j \in 0 .. N - 1 : /\ k2 = r + 2^j /\ k2 \in Ranks
                              /\ r % 2^(j + 1) = 0
  BY KidLevel
<1>3. r \in Nat /\ i \in Nat /\ j \in Nat /\ k1 \in Nat /\ k2 \in Nat /\ q \in Nat
  BY RanksAreNumbers, <1>1, <1>2 DEF Subtree
<1>4. k1 <= q /\ q < k1 + 2^i
  BY <1>1, <1>3, SubtreeBounds
<1>5. k2 <= q /\ q < k2 + 2^j
  BY <1>2, <1>3, SubtreeBounds
<1> DEFINE a == 2^i
           b == 2^j
<1>6. a \in Nat /\ b \in Nat
  BY <1>3, PowerPositive
<1>7. CASE i < j
  <2>1. 2^(i + 1) <= 2^j /\ 2^(i + 1) = 2 * 2^i
    BY <1>3, <1>7, PowerMonotone, PowerDouble
  <2>2. 2 * a <= b
    BY <2>1
  <2> HIDE DEF a, b
  <2>3. k1 = r + a /\ q < k1 + a /\ k2 = r + b
    BY <1>1, <1>2, <1>4 DEF a, b
  <2> QED
    BY <1>3, <1>5, <1>6, <2>2, <2>3
<1>8. CASE j < i
  <2>1. 2^(j + 1) <= 2^i /\ 2^(j + 1) = 2 * 2^j
    BY <1>3, <1>8, PowerMonotone, PowerDouble
  <2>2. 2 * b <= a
    BY <2>1
  <2> HIDE DEF a, b
  <2>3. k2 = r + b /\ q < k2 + b /\ k1 = r + a
    BY <1>1, <1>2, <1>5 DEF a, b
  <2> QED
    BY <1>3, <1>4, <1>6, <2>2, <2>3
<1> QED
  BY <1>1, <1>2, <1>3, <1>7, <1>8

(* A kid is above its parent in number, its subtree within its parent's.   *)
LEMMA KidSubtree ==
  ASSUME NEW r \in Ranks, NEW k \in Kids(r)
  PROVE  /\ k \in Ranks \ {0} /\ r < k
         /\ Subtree(k) \subseteq Subtree(r) /\ r \notin Subtree(k)
<1>1. PICK j \in 0 .. N - 1 : /\ k = r + 2^j /\ k \in Ranks /\ r < k
                              /\ r % 2^(j + 1) = 0
  BY KidLevel
<1>2. r \in Nat /\ j \in Nat /\ k \in Nat
  BY <1>1, RanksAreNumbers
<1>3. r \notin Subtree(k)
  <2> SUFFICES ASSUME r \in Subtree(k) PROVE FALSE
    OBVIOUS
  <2>1. k <= r
    BY <1>1, <1>2, SubtreeBounds
  <2> QED
    BY <1>1, <1>2, <2>1
<1> QED
  BY <1>1, <1>2, <1>3, SubtreeSplits

(* The subtree of a rank of a subtree is part of it.                       *)
LEMMA SubtreeNested ==
  ASSUME NEW x \in Ranks, NEW r \in Subtree(x)
  PROVE  Subtree(r) \subseteq Subtree(x)
<1> SUFFICES ASSUME NEW s \in Subtree(r) PROVE s \in Subtree(x)
  OBVIOUS
<1>1. PICK i \in 0 .. N : Floor(s, i) = r
  BY DEF Subtree
<1>2. PICK j \in 0 .. N : Floor(r, j) = x
  BY DEF Subtree
<1>3. s \in Ranks /\ s \in Nat /\ r \in Nat /\ x \in Nat /\ i \in Nat /\ j \in Nat
  BY RanksAreNumbers DEF Subtree
<1>4. CASE i <= j
  <2>1. i \in 0 .. j
    BY <1>3, <1>4
  <2>2. Floor(s, j) = x
    BY <1>1, <1>2, <1>3, <2>1, FloorTwice
  <2> QED
    BY <1>3, <2>2 DEF Subtree
<1>5. CASE j < i
  <2>1. j \in 0 .. i /\ r % 2^i = 0
    BY <1>1, <1>3, <1>5, FloorBounds
  <2>2. r % 2^j = 0
    BY <1>3, <2>1, AlignedBelow
  <2>3. x = r
    BY <1>2, <1>3, <2>2, AlignedFloor
  <2> QED
    BY <2>3
<1> QED
  BY <1>3, <1>4, <1>5

(* Every rank but the root is a kid of its parent, and of no other.        *)
LEMMA KidHasParent ==
  ASSUME NEW r \in Ranks, NEW k \in Kids(r)
  PROVE  Parent(k) = r
<1>1. PICK j \in 0 .. N - 1 : /\ k = r + 2^j /\ k \in Ranks
                              /\ k % 2^j = 0 /\ k % 2^(j + 1) = 2^j
                              /\ 2^j \in Nat \ {0}
  BY KidLevel
<1>2. r \in Nat /\ j \in Nat /\ k \in Nat /\ j \in 0 .. N
  BY <1>1, RanksAreNumbers
<1> DEFINE P(i) == k % 2^i = 0 /\ k % 2^(i + 1) # 0
<1>3. P(j)
  BY <1>1
<1>4. \A i \in 0 .. N : P(i) => i = j
  <2> SUFFICES ASSUME NEW i \in 0 .. N, P(i), i # j PROVE FALSE
    OBVIOUS
  <2>1. i \in Nat
    OBVIOUS
  <2>2. CASE i < j
    <3>1. i + 1 \in 0 .. j
      BY <1>2, <2>1, <2>2
    <3>2. k % 2^(i + 1) = 0
      BY <1>1, <1>2, <3>1, AlignedBelow
    <3> QED
      BY <3>2
  <2>3. CASE j < i
    <3>1. j + 1 \in 0 .. i
      BY <1>2, <2>1, <2>3
    <3>2. k % 2^(j + 1) = 0
      BY <1>2, <2>1, <3>1, AlignedBelow
    <3> QED
      BY <1>1, <3>2
  <2> QED
    BY <1>2, <2>1, <2>2, <2>3
<1>5. (CHOOSE i \in 0 .. N : P(i)) = j
  <2> HIDE DEF P
  <2> QED
    BY <1>2, <1>3, <1>4
<1>6. Parent(k) = k - 2^j
  BY <1>5 DEF Parent
<1> QED
  <2> DEFINE m == 2^j
  <2>1. m \in Nat /\ k = r + m /\ Parent(k) = k - m
    BY <1>1, <1>6
  <2> HIDE DEF m
  <2> QED
    BY <1>2, <2>1

(* Every rank but 0 is a kid of the rank that parent = me & (me-1) names.  *)
LEMMA ParentExists ==
  ASSUME NEW k \in Ranks \ {0}
  PROVE  Parent(k) \in Ranks /\ k \in Kids(Parent(k))
<1> DEFINE T == {i \in 0 .. N : Floor(k, i) # k}
<1>1. k \in Nat /\ N \in Nat /\ k < N /\ k # 0
  BY RanksAreNumbers
<1>2. T # {} /\ T \subseteq Nat
  <2>1. k \in Subtree(0)
    BY SubtreeOfRoot
  <2>2. PICK i \in 0 .. N : Floor(k, i) = 0
    BY <2>1 DEF Subtree
  <2>3. i \in T
    BY <2>2
  <2> QED
    BY <2>3
<1>3. PICK i \in T : \A h \in T : i <= h
  <2> HIDE DEF T
  <2> QED
    BY <1>2, LeastElement
<1>4. i \in 0 .. N /\ Floor(k, i) # k
  BY <1>3
<1>5. i # 0
  BY <1>1, <1>4, FloorZero
<1>6. i - 1 \in Nat /\ i - 1 \in 0 .. N /\ (i - 1) + 1 = i
  BY <1>1, <1>4, <1>5
<1>7. Floor(k, i - 1) = k
  <2>1. ~ (i <= i - 1)
    BY <1>6
  <2> QED
    BY <1>3, <1>6, <2>1
<1>8. Floor(k, i - 1) \in {Floor(k, i), Floor(k, i) + 2^(i - 1)}
  BY <1>1, <1>6, FloorNext
<1> DEFINE r == Floor(k, i)
<1>9. k = r + 2^(i - 1)
  BY <1>4, <1>7, <1>8
<1>10. r \in Nat /\ r <= k /\ r % 2^i = 0
  BY <1>1, <1>4, FloorBounds
<1>11. r \in Ranks
  <2> HIDE DEF r
  <2> QED
    BY <1>1, <1>10 DEF Ranks
<1>12. k \in Kids(r)
  BY <1>6, <1>9, <1>10 DEF Kids
<1>13. Parent(k) = r
  BY <1>11, <1>12, KidHasParent
<1> QED
  BY <1>11, <1>12, <1>13

(* Who has a rank below, but is not that rank, has its parent below.       *)
LEMMA ParentBelow ==
  ASSUME NEW r \in Ranks, NEW k \in Kids(r), NEW x \in Ranks, x # k, k \in Subtree(x)
  PROVE  r \in Subtree(x)
<1>1. PICK j \in 0 .. N - 1 : /\ k = r + 2^j /\ k \in Ranks
                              /\ r % 2^(j + 1) = 0 /\ k % 2^j = 0
                              /\ 2^j \in Nat \ {0} /\ 2^(j + 1) = 2 * 2^j
  BY KidLevel
<1>2. PICK i \in 0 .. N : Floor(k, i) = x
  BY DEF Subtree
<1>3. r \in Nat /\ j \in Nat /\ k \in Nat /\ x \in Nat /\ i \in Nat
  BY <1>1, RanksAreNumbers
<1>4. j < i
  <2> SUFFICES ASSUME i <= j PROVE FALSE
    BY <1>3
  <2>1. i \in 0 .. j
    BY <1>3
  <2>2. k % 2^i = 0
    BY <1>1, <1>3, <2>1, AlignedBelow
  <2> QED
    BY <1>2, <1>3, <2>2, AlignedFloor
<1>5. Floor(k, j + 1) = r
  <2> DEFINE m == 2^j
             n == 2^(j + 1)
  <2>1. m \in Nat \ {0} /\ n = 2 * m /\ k = r + m
    BY <1>1
  <2>2. r <= k /\ k < r + n
    <3> HIDE DEF m, n
    <3> QED
      BY <1>3, <2>1
  <2> QED
    BY <1>1, <1>3, <2>2, FloorUnique
<1>6. j + 1 \in 0 .. i
  BY <1>3, <1>4
<1>7. Floor(r, i) = x
  BY <1>2, <1>3, <1>5, <1>6, FloorTwice
<1> QED
  BY <1>7 DEF Subtree

(* rdxn_incoming counts the kids.                                          *)
LEMMA KidCountIsCardinality ==
  ASSUME NEW r \in Ranks
  PROVE  /\ IsFiniteSet(Kids(r)) /\ Kids(r) \subseteq Ranks
         /\ KidCount(r) = Cardinality(Kids(r)) /\ KidCount(r) \in Nat
<1> DEFINE I == {i \in 0 .. N : r % 2^(i + 1) = 0 /\ r + 2^i < N}
           f == [i \in I |-> r + 2^i]
<1>1. r \in Nat /\ N \in Nat
  BY RanksAreNumbers
<1>2. \A i \in I : f[i] \in Kids(r)
  <2> SUFFICES ASSUME NEW i \in I PROVE r + 2^i \in Kids(r)
    OBVIOUS
  <2>1. 2^i \in Nat
    BY PowerPositive
  <2>2. r + 2^i \in Ranks
    BY <1>1, <2>1 DEF Ranks
  <2> QED
    BY <2>2 DEF Kids
<1>3. \A k \in Kids(r) : \E i \in I : f[i] = k
  <2> SUFFICES ASSUME NEW k \in Kids(r) PROVE \E i \in I : r + 2^i = k
    OBVIOUS
  <2>1. PICK i \in 0 .. N : k = r + 2^i /\ r % 2^(i + 1) = 0
    BY DEF Kids
  <2>2. k < N
    BY RanksAreNumbers DEF Kids
  <2> QED
    BY <2>1, <2>2
<1>4. \A i, j \in I : f[i] = f[j] => i = j
  <2> SUFFICES ASSUME NEW i \in I, NEW j \in I, r + 2^i = r + 2^j, i < j PROVE FALSE
    OBVIOUS
  <2>1. i \in Nat /\ j \in Nat /\ i + 1 <= j
    OBVIOUS
  <2>2. 2^(i + 1) <= 2^j /\ 2^(i + 1) = 2 * 2^i /\ 2^i \in Nat \ {0} /\ 2^j \in Nat
    BY <2>1, PowerMonotone, PowerDouble, PowerPositive
  <2> DEFINE a == 2^i
             b == 2^j
  <2>3. 2 * a <= b /\ a \in Nat \ {0} /\ b \in Nat /\ r + a = r + b
    BY <2>2
  <2> HIDE DEF a, b
  <2> QED
    BY <1>1, <2>3
<1>5. f \in Bijection(I, Kids(r))
  <2>1. f \in [I -> Kids(r)]
    BY <1>2
  <2>2. f \in Surjection(I, Kids(r))
    BY <2>1, <1>3 DEF Surjection
  <2>3. f \in Injection(I, Kids(r))
    BY <2>1, <1>4 DEF Injection, IsInjective
  <2> QED
    BY <2>2, <2>3 DEF Bijection
<1>6. IsFiniteSet(I)
  <2>1. 0 \in Int /\ N \in Int
    BY <1>1
  <2>2. IsFiniteSet(0 .. N)
    BY <2>1, FS_Interval
  <2> QED
    BY <2>2, FS_Subset
<1>7. ExistsBijection(I, Kids(r))
  BY <1>5 DEF ExistsBijection
<1>8. KidCount(r) = Cardinality(I)
  BY DEF KidCount
<1> HIDE DEF I
<1>9. IsFiniteSet(Kids(r)) /\ Cardinality(Kids(r)) = Cardinality(I)
  BY <1>6, <1>7, FS_Bijection
<1>10. Cardinality(I) \in Nat
  BY <1>6, FS_CardinalityType
<1> QED
  BY <1>8, <1>9, <1>10 DEF Kids

-----------------------------------------------------------------------------
(* What rdxn_down sends from rank me for the ranks below u, given what it  *)
(* sends for less.                                                         *)
HalvesStep(me, q, g, x, s, u) ==
  LET mid == me + (u - me) \div 2
  IN  IF mid = me THEN {}
      ELSE {[dst |-> mid, toUb |-> Marked(u, q), gvt |-> g, rxs |-> x]} \cup s[mid]

(* The function that Halves builds, as a fact about it.                    *)
IsHalves(me, q, g, x, s) ==
  s = [u \in me + 1 .. N |-> HalvesStep(me, q, g, x, s, u)]

(* The middle of an interval lies in it, and at its start only when there  *)
(* is nothing to halve.                                                    *)
LEMMA MidBounds ==
  ASSUME NEW me \in Nat, NEW u \in Nat, me + 1 <= u
  PROVE  /\ me + (u - me) \div 2 \in me .. u - 1
         /\ me + (u - me) \div 2 = me <=> u = me + 1
  OBVIOUS

(* Such a function exists: the recursion of Halves goes to smaller         *)
(* intervals.                                                              *)
LEMMA HalvesExist ==
  ASSUME NEW me \in Nat, NEW q, NEW g, NEW x
  PROVE  \E s : IsHalves(me, q, g, x, s)
<1> DEFINE Upto(n, s) == s = [u \in me + 1 .. n |-> HalvesStep(me, q, g, x, s, u)]
           S == {n \in Nat : \E s : Upto(n, s)}
<1>1. 0 \in S
  <2> DEFINE s0 == [u \in me + 1 .. 0 |-> {}]
  <2>1. Upto(0, s0)
    OBVIOUS
  <2> QED
    BY <2>1
<1>2. ASSUME NEW n \in Nat, n \in S PROVE n + 1 \in S
  <2>1. PICK s : Upto(n, s)
    BY <1>2
  <2> DEFINE t == [u \in me + 1 .. n + 1 |->
                     IF u <= n THEN s[u] ELSE HalvesStep(me, q, g, x, s, u)]
  <2>2. \A u \in me + 1 .. n : t[u] = s[u]
    OBVIOUS
  <2>3. ASSUME NEW u \in me + 1 .. n + 1
        PROVE  HalvesStep(me, q, g, x, t, u) = HalvesStep(me, q, g, x, s, u)
    <3> DEFINE mid == me + (u - me) \div 2
    <3>1. mid = me \/ mid \in me + 1 .. n
      BY MidBounds
    <3> HIDE DEF t
    <3>2. mid = me \/ t[mid] = s[mid]
      BY <2>2, <3>1
    <3> QED
      BY <3>2 DEF HalvesStep
  <2>4. ASSUME NEW u \in me + 1 .. n + 1
        PROVE  t[u] = HalvesStep(me, q, g, x, t, u)
    <3>1. CASE u <= n
      <4>1. u \in me + 1 .. n
        BY <3>1
      <4>2. s[u] = HalvesStep(me, q, g, x, s, u)
        BY <2>1, <4>1
      <4> QED
        BY <2>2, <2>3, <4>1, <4>2
    <3>2. CASE ~ (u <= n)
      <4>1. t[u] = HalvesStep(me, q, g, x, s, u)
        BY <3>2
      <4> QED
        BY <2>3, <4>1
    <3> QED
      BY <3>1, <3>2
  <2>5. t = [u \in me + 1 .. n + 1 |-> t[u]]
    OBVIOUS
  <2>6. Upto(n + 1, t)
    <3> HIDE DEF t
    <3> QED
      BY <2>4, <2>5
  <2> HIDE DEF t
  <2>7. \E s1 : Upto(n + 1, s1)
    BY <2>6
  <2> HIDE DEF Upto
  <2> QED
    BY <2>7
<1> HIDE DEF S
<1>3. Nat \subseteq S
  BY <1>1, <1>2, Induction
<1>4. N \in S
  BY <1>3, RanksAreNumbers
<1> QED
  BY <1>4 DEF S, IsHalves

(* Halves is what the function is at ub.                                   *)
LEMMA HalvesIs ==
  ASSUME NEW me \in Nat, NEW ub \in me + 1 .. N, NEW q, NEW g, NEW x
  PROVE  \E s : IsHalves(me, q, g, x, s) /\ Halves(me, ub, q, g, x) = s[ub]
<1> DEFINE s0 == CHOOSE s : IsHalves(me, q, g, x, s)
<1>1. IsHalves(me, q, g, x, s0)
  BY HalvesExist
<1>2. Halves(me, ub, q, g, x) = s0[ub]
  BY DEF Halves, IsHalves, HalvesStep
<1> QED
  BY <1>1, <1>2

(* What the messages of rdxn_down carry, and that each rank between me and *)
(* ub is covered by exactly one of them.                                   *)
LEMMA MarkedAbove ==
  ASSUME NEW u \in Nat \ {0}, NEW q \in BOOLEAN
  PROVE  /\ Marked(u, q) \in Int
         /\ (Marked(u, q) < 0) = q
         /\ Marked(Marked(u, q), q) = u
BY DEF Marked

(* What the messages H for the ranks between me and u have to be.          *)
HalvesRight(me, u, q, g, x, H) ==
  /\ \A h \in H : /\ h \in [dst : Nat, toUb : Int, gvt : {g}, rxs : {x}]
                  /\ (h.toUb < 0) = q
                  /\ h.dst > me /\ h.dst < Above(h) /\ Above(h) \in Nat /\ Above(h) <= u
  /\ \A z \in me + 1 .. u - 1 : \E h \in H : z \in Covers(h)
  /\ \A h1, h2 \in H : Covers(h1) \cap Covers(h2) # {} => h1 = h2

(* The messages of rdxn_down cover each rank above me once.                *)
LEMMA HalvesAllRight ==
  ASSUME NEW me \in Nat, NEW ub \in me + 1 .. N, NEW q \in BOOLEAN, NEW g, NEW x
  PROVE  HalvesRight(me, ub, q, g, x, Halves(me, ub, q, g, x))
<1>1. PICK s : IsHalves(me, q, g, x, s) /\ Halves(me, ub, q, g, x) = s[ub]
  BY HalvesIs
<1>2. \A u \in me + 1 .. N : s[u] = HalvesStep(me, q, g, x, s, u)
  BY <1>1 DEF IsHalves
<1> DEFINE S == {n \in Nat : \A u \in me + 1 .. N : u <= n => HalvesRight(me, u, q, g, x, s[u])}
<1>3. 0 \in S
  OBVIOUS
<1>4. ASSUME NEW n \in Nat, n \in S PROVE n + 1 \in S
  <2> SUFFICES ASSUME NEW u \in me + 1 .. N, u = n + 1
               PROVE  HalvesRight(me, u, q, g, x, s[u])
    BY <1>4, RanksAreNumbers
  <2> DEFINE mid == me + (u - me) \div 2
  <2>1. mid \in me .. u - 1 /\ (mid = me <=> u = me + 1)
    BY MidBounds
  <2>2. CASE mid = me
    <3>1. s[u] = {}
      BY <1>2, <2>2 DEF HalvesStep
    <3>2. me + 1 .. u - 1 = {}
      BY <2>1, <2>2
    <3> QED
      BY <3>1, <3>2 DEF HalvesRight
  <2>3. CASE mid # me
    <3> DEFINE m == [dst |-> mid, toUb |-> Marked(u, q), gvt |-> g, rxs |-> x]
    <3>1. s[u] = {m} \cup s[mid]
      BY <1>2, <2>3 DEF HalvesStep
    <3>2. mid \in me + 1 .. N /\ mid <= n /\ mid < u /\ mid \in Nat
      BY <2>1, <2>3, RanksAreNumbers
    <3>3. HalvesRight(me, mid, q, g, x, s[mid])
      BY <1>4, <3>2
    <3>4. Marked(u, q) \in Int /\ (Marked(u, q) < 0) = q /\ Marked(Marked(u, q), q) = u
      BY MarkedAbove
    <3> HIDE DEF mid
    <3>5. /\ m \in [dst : Nat, toUb : Int, gvt : {g}, rxs : {x}]
          /\ (m.toUb < 0) = q /\ m.dst = mid /\ Above(m) = u
      BY <3>2, <3>4 DEF Above
    <3>6. m.dst > me /\ m.dst < Above(m) /\ Above(m) \in Nat /\ Above(m) <= u
      BY <3>2, <3>5
    <3> HIDE DEF m
    <3>7. Covers(m) = mid .. u - 1
      BY <3>5 DEF Covers
    <3>8. \A h \in s[mid] : /\ h \in [dst : Nat, toUb : Int, gvt : {g}, rxs : {x}]
                            /\ (h.toUb < 0) = q
                            /\ h.dst > me /\ h.dst < Above(h) /\ Above(h) \in Nat
                            /\ Above(h) <= mid
      BY <3>3 DEF HalvesRight
    <3>9. \A h \in s[mid] : Covers(h) \cap Covers(m) = {}
      <4> SUFFICES ASSUME NEW h \in s[mid], NEW z \in Covers(h), z \in mid .. u - 1
                   PROVE  FALSE
        BY <3>7
      <4>1. z <= Above(h) - 1
        BY DEF Covers
      <4>2. Above(h) \in Nat /\ Above(h) <= mid
        BY <3>8
      <4> QED
        BY <3>2, <4>1, <4>2
    <3>10. \A z \in me + 1 .. u - 1 : \E h \in s[u] : z \in Covers(h)
      <4> SUFFICES ASSUME NEW z \in me + 1 .. u - 1 PROVE \E h \in s[u] : z \in Covers(h)
        OBVIOUS
      <4>1. z \in me + 1 .. mid - 1 \/ z \in mid .. u - 1
        BY <3>2
      <4>2. CASE z \in mid .. u - 1
        BY <3>1, <3>7, <4>2
      <4>3. CASE z \in me + 1 .. mid - 1
        BY <3>1, <3>3, <4>3 DEF HalvesRight
      <4> QED
        BY <4>1, <4>2, <4>3
    <3>11. \A h1, h2 \in s[u] : Covers(h1) \cap Covers(h2) # {} => h1 = h2
      <4>1. \A h1, h2 \in s[mid] : Covers(h1) \cap Covers(h2) # {} => h1 = h2
        BY <3>3 DEF HalvesRight
      <4> QED
        BY <3>1, <3>9, <4>1
    <3>12. \A h \in s[u] : /\ h \in [dst : Nat, toUb : Int, gvt : {g}, rxs : {x}]
                          /\ (h.toUb < 0) = q
                          /\ h.dst > me /\ h.dst < Above(h) /\ Above(h) \in Nat
                          /\ Above(h) <= u
      <4>1. \A h \in s[mid] : Above(h) <= u
        BY <3>2, <3>8
      <4> QED
        BY <3>1, <3>5, <3>6, <3>8, <4>1
    <3> QED
      BY <3>10, <3>11, <3>12 DEF HalvesRight
  <2> QED
    BY <2>2, <2>3
<1> HIDE DEF S
<1>5. Nat \subseteq S
  BY <1>3, <1>4, Induction
<1>6. ub \in S /\ ub \in Nat
  BY <1>5
<1>7. HalvesRight(me, ub, q, g, x, s[ub])
  BY <1>6 DEF S
<1> QED
  BY <1>1, <1>7

-----------------------------------------------------------------------------
(* Where the messages of rdxn_up under way may come from.                  *)
SourcesOK(C, U) ==
  /\ U \subseteq Ranks \ {0}
  /\ \A u \in U : Subtree(u) \subseteq C /\ U \cap Subtree(u) = {u}

(* Rank 0 is below no other rank.                                          *)
LEMMA RootIsNotBelow == \A x \in Ranks \ {0} : 0 \notin Subtree(x)
<1> SUFFICES ASSUME NEW x \in Ranks \ {0}, NEW i \in 0 .. N, Floor(0, i) = x PROVE FALSE
  BY DEF Subtree
<1>1. 0 \in Nat /\ i \in Nat /\ x \in Nat
  BY RanksAreNumbers
<1>2. Floor(0, i) <= 0
  BY <1>1, FloorBounds
<1> QED
  BY <1>1, <1>2

(* What a rank waits for has arrived at none of the ranks above it.        *)
LEMMA NoneAbove ==
  ASSUME NEW C, NEW U, NEW me \in Ranks, Arrivals(C, U, me) # Whole(me),
         NEW x \in Ranks, me \in Subtree(x)
  PROVE  ~ Arrived(C, U, x)
<1> SUFFICES ASSUME Arrived(C, U, x) PROVE FALSE
  OBVIOUS
<1>1. Subtree(me) \subseteq Subtree(x)
  BY SubtreeNested
<1>2. \A k \in Kids(me) : Subtree(k) \subseteq Subtree(me)
  BY KidSubtree
<1>3. me \in C
  BY DEF Arrived
<1>4. ArrivedKids(C, U, me) = Kids(me)
  BY <1>1, <1>2 DEF Arrived, ArrivedKids
<1> QED
  BY <1>3, <1>4 DEF Arrivals, Whole

(* All parts have arrived at me: all below it have contributed.            *)
LEMMA AllBelow ==
  ASSUME NEW C, NEW U, NEW me \in Ranks, Arrivals(C, U, me) = Whole(me)
  PROVE  /\ Subtree(me) \subseteq C
         /\ U \cap Subtree(me) \subseteq {me}
         /\ Summed(C, U, me) = Subtree(me)
<1>1. me \notin Kids(me)
  BY KidSubtree, RanksAreNumbers
<1>2. me \in C /\ ArrivedKids(C, U, me) = Kids(me)
  BY <1>1 DEF Arrivals, Whole, ArrivedKids
<1>3. \A k \in Kids(me) : Arrived(C, U, k)
  BY <1>2 DEF ArrivedKids
<1>4. Subtree(me) = {me} \cup UNION {Subtree(k) : k \in Kids(me)}
  BY SubtreeSplits
<1> QED
  BY <1>2, <1>3, <1>4 DEF Arrived, Summed

(* A part of the sum of rank me arrives: its own, or that of a kid.        *)
Arrives(C, U, C1, U1, me, a, P) ==
  \/ a = me /\ me \notin C /\ C1 = C \cup {me} /\ U1 = U /\ P = {me}
  \/ a \in Kids(me) /\ a \in U /\ C1 = C /\ U1 = U \ {a} /\ P = Subtree(a)

(* What its arrival changes at me.                                         *)
ArrivedAt(C, U, C1, U1, me, a, P) ==
  /\ C1 \subseteq Ranks /\ P \subseteq C1 /\ P \subseteq Ranks
  /\ a \in Whole(me) \ Arrivals(C, U, me)
  /\ Arrivals(C1, U1, me) = Arrivals(C, U, me) \cup {a}
  /\ Summed(C1, U1, me) = Summed(C, U, me) \cup P
  /\ Summed(C, U, me) \cap P = {}
  /\ me \notin U1
  /\ \A u \in U1 : me \notin Subtree(u)

(* What the arrival of a part changes at me.                               *)
LEMMA ArrivalAt ==
  ASSUME NEW C, C \subseteq Ranks, NEW U, SourcesOK(C, U), NEW me \in Ranks,
         NEW C1, NEW U1, NEW a, NEW P, Arrives(C, U, C1, U1, me, a, P)
  PROVE  ArrivedAt(C, U, C1, U1, me, a, P)
<1>1. \A k \in Kids(me) : /\ k \in Ranks \ {0} /\ k # me
                          /\ Subtree(k) \subseteq Subtree(me) /\ me \notin Subtree(k)
  BY KidSubtree, RanksAreNumbers
<1>2. me \in Subtree(me)
  BY SubtreeHasRoot
<1>3. CASE a = me /\ me \notin C /\ C1 = C \cup {me} /\ U1 = U /\ P = {me}
  <2>1. \A k \in Kids(me) : Arrived(C1, U1, k) <=> Arrived(C, U, k)
    BY <1>1, <1>3 DEF Arrived
  <2>2. ArrivedKids(C1, U1, me) = ArrivedKids(C, U, me)
    BY <2>1 DEF ArrivedKids
  <2>3. a \in Whole(me) \ Arrivals(C, U, me)
    BY <1>1, <1>3 DEF Whole, Arrivals, ArrivedKids
  <2>4. Arrivals(C1, U1, me) = Arrivals(C, U, me) \cup {a}
    BY <2>2, <1>3 DEF Arrivals
  <2>5. Summed(C1, U1, me) = Summed(C, U, me) \cup P
    BY <2>2, <1>3 DEF Summed
  <2>6. Summed(C, U, me) \cap P = {}
    BY <1>1, <1>3 DEF Summed, ArrivedKids
  <2>7. \A u \in U1 : me \notin Subtree(u)
    BY <1>3 DEF SourcesOK
  <2>8. me \notin U1
    BY <1>2, <2>7
  <2> QED
    BY <1>3, <2>3, <2>4, <2>5, <2>6, <2>7, <2>8 DEF ArrivedAt
<1>4. CASE a \in Kids(me) /\ a \in U /\ C1 = C /\ U1 = U \ {a} /\ P = Subtree(a)
  <2>1. Subtree(a) \subseteq C /\ U \cap Subtree(a) = {a} /\ a \in Subtree(a)
    BY <1>4 DEF SourcesOK
  <2>2. \A k \in Kids(me) : k # a => Subtree(k) \cap Subtree(a) = {}
    BY <1>4, KidsAreApart
  <2>3. \A k \in Kids(me) : k # a => (Arrived(C1, U1, k) <=> Arrived(C, U, k))
    BY <1>4, <2>1, <2>2 DEF Arrived
  <2>4. Arrived(C1, U1, a) /\ ~ Arrived(C, U, a)
    BY <1>4, <2>1 DEF Arrived
  <2>5. ArrivedKids(C1, U1, me) = ArrivedKids(C, U, me) \cup {a} /\ a \notin ArrivedKids(C, U, me)
    BY <1>4, <2>3, <2>4 DEF ArrivedKids
  <2>6. a \in Whole(me) \ Arrivals(C, U, me)
    BY <1>1, <1>4, <2>5 DEF Whole, Arrivals
  <2>7. Arrivals(C1, U1, me) = Arrivals(C, U, me) \cup {a}
    BY <1>4, <2>5 DEF Arrivals
  <2>8. Summed(C1, U1, me) = Summed(C, U, me) \cup P
    BY <1>4, <2>5 DEF Summed
  <2>9. Summed(C, U, me) \cap P = {}
    <3>1. \A k \in ArrivedKids(C, U, me) : Subtree(k) \cap Subtree(a) = {}
      BY <2>2, <2>5 DEF ArrivedKids
    <3>2. me \notin Subtree(a)
      BY <1>1, <1>4
    <3> QED
      BY <1>4, <3>1, <3>2 DEF Summed
  <2>10. ASSUME NEW u \in U1 PROVE me \notin Subtree(u)
    <3>1. u \in U /\ u # a /\ U \cap Subtree(u) = {u} /\ u \in Ranks
      BY <1>4 DEF SourcesOK
    <3> SUFFICES ASSUME me \in Subtree(u) PROVE FALSE
      OBVIOUS
    <3>2. Subtree(me) \subseteq Subtree(u)
      BY <3>1, SubtreeNested
    <3>3. a \in Subtree(u)
      BY <1>1, <1>4, <2>1, <3>2
    <3> QED
      BY <1>4, <3>1, <3>3
  <2>11. me \notin U1
    BY <1>2, <2>10
  <2>12. P \subseteq Ranks
    BY <1>4 DEF Subtree
  <2> QED
    BY <1>4, <2>1, <2>6, <2>7, <2>8, <2>9, <2>10, <2>11, <2>12 DEF ArrivedAt
<1> QED
  BY <1>3, <1>4 DEF Arrives

(* Nothing changes for the sums of another rank, whether me passes its own *)
(* on or waits for more.                                                   *)
SentUp(C1, U1, me, U2) ==
  U2 = IF Arrivals(C1, U1, me) = Whole(me) /\ me # 0 THEN U1 \cup {me} ELSE U1

(* What it changes at the other ranks: nothing, even when me passes its    *)
(* sum on.                                                                 *)
Elsewhere(C, U, C1, U1, U2, me) ==
  /\ SourcesOK(C1, U2)
  /\ \A y \in Ranks \ {me} : /\ Arrivals(C1, U2, y) = Arrivals(C, U, y)
                             /\ Summed(C1, U2, y) = Summed(C, U, y)
  /\ Arrivals(C1, U2, me) = Arrivals(C1, U1, me)

(* Nothing changes at the other ranks, for the sum of me is then under     *)
(* way.                                                                    *)
LEMMA ArrivalElsewhere ==
  ASSUME NEW C, C \subseteq Ranks, NEW U, SourcesOK(C, U), NEW me \in Ranks,
         NEW C1, NEW U1, NEW a, NEW P, Arrives(C, U, C1, U1, me, a, P),
         NEW U2, SentUp(C1, U1, me, U2)
  PROVE  Elsewhere(C, U, C1, U1, U2, me)
<1>b. U2 = IF Arrivals(C1, U1, me) = Whole(me) /\ me # 0 THEN U1 \cup {me} ELSE U1
  BY DEF SentUp
<1> USE <1>b
<1>a. ArrivedAt(C, U, C1, U1, me, a, P)
  BY ArrivalAt
<1>0. /\ C1 \subseteq Ranks /\ P \subseteq C1 /\ P \subseteq Ranks
      /\ a \in Whole(me) \ Arrivals(C, U, me)
      /\ Arrivals(C1, U1, me) = Arrivals(C, U, me) \cup {a}
      /\ Summed(C1, U1, me) = Summed(C, U, me) \cup P
      /\ Summed(C, U, me) \cap P = {}
      /\ me \notin U1
      /\ \A u \in U1 : me \notin Subtree(u)
  BY <1>a DEF ArrivedAt
<1>1. /\ me \notin U1
      /\ \A u \in U1 : me \notin Subtree(u)
  BY <1>0
<1>2. U1 \subseteq U /\ C \subseteq C1 /\ C1 \subseteq C \cup {me}
  BY DEF Arrives
<1>3. ASSUME NEW u \in U2
      PROVE  u \in Ranks \ {0} /\ Subtree(u) \subseteq C1 /\ U2 \cap Subtree(u) = {u}
  <2>1. CASE u \in U1
    <3>1. u \in Ranks \ {0} /\ Subtree(u) \subseteq C /\ U \cap Subtree(u) = {u}
      BY <1>2, <2>1 DEF SourcesOK
    <3>2. me \notin Subtree(u)
      BY <1>1, <2>1
    <3> QED
      BY <1>2, <2>1, <3>1, <3>2
  <2>2. CASE u \notin U1
    <3>1. u = me /\ Arrivals(C1, U1, me) = Whole(me) /\ me # 0 /\ U2 = U1 \cup {me}
      BY <1>b, <2>2
    <3>2. Subtree(me) \subseteq C1 /\ U1 \cap Subtree(me) \subseteq {me}
      BY <3>1, AllBelow
    <3>3. me \in Subtree(me)
      BY SubtreeHasRoot
    <3> QED
      BY <1>1, <3>1, <3>2, <3>3
  <2> QED
    BY <2>1, <2>2
<1>4. SourcesOK(C1, U2)
  BY <1>3 DEF SourcesOK
<1>5. ASSUME NEW x \in Ranks \ {0}, me \in Subtree(x)
      PROVE  ~ Arrived(C, U, x) /\ ~ Arrived(C1, U2, x)
  <2>1. ~ Arrived(C, U, x)
    <3>1. a \notin Arrivals(C, U, me) /\ a \in Whole(me)
      BY <1>0
    <3>2. Arrivals(C, U, me) # Whole(me)
      BY <3>1
    <3> QED
      BY <1>5, <3>2, NoneAbove
  <2>2. ~ Arrived(C1, U2, x)
    <3>1. CASE Arrivals(C1, U1, me) = Whole(me)
      <4>1. me # 0
        BY <1>5, RootIsNotBelow
      <4>2. me \in U2
        BY <3>1, <4>1
      <4> QED
        BY <1>5, <4>2 DEF Arrived
    <3>2. CASE Arrivals(C1, U1, me) # Whole(me)
      <4>1. U2 = U1
        BY <3>2
      <4> QED
        BY <1>5, <3>2, <4>1, NoneAbove
    <3> QED
      BY <3>1, <3>2
  <2> QED
    BY <2>1, <2>2
<1>6. ASSUME NEW x \in Ranks \ {0}, me \notin Subtree(x), x # a
      PROVE  Arrived(C1, U2, x) <=> Arrived(C, U, x)
  <2>1. U2 \cap Subtree(x) = U1 \cap Subtree(x)
    BY <1>6
  <2>2. CASE C1 = C \cup {me} /\ U1 = U
    BY <1>6, <2>1, <2>2 DEF Arrived
  <2>3. CASE a \in Kids(me) /\ C1 = C /\ U1 = U \ {a}
    <3>1. a \notin Subtree(x)
      BY <1>6, <2>3, ParentBelow
    <3> QED
      BY <2>1, <2>3, <3>1 DEF Arrived
  <2> QED
    BY <2>2, <2>3 DEF Arrives
<1>7. ASSUME NEW y \in Ranks \ {me}
      PROVE  ArrivedKids(C1, U2, y) = ArrivedKids(C, U, y)
  <2>1. ASSUME NEW x \in Kids(y) PROVE Arrived(C1, U2, x) <=> Arrived(C, U, x)
    <3>1. x \in Ranks \ {0}
      BY KidSubtree
    <3>2. CASE me \in Subtree(x)
      BY <1>5, <3>1, <3>2
    <3>3. CASE me \notin Subtree(x)
      <4>1. x # a
        <5> SUFFICES ASSUME x = a PROVE FALSE
          OBVIOUS
        <5>1. a # me
          BY <3>1, <3>3, SubtreeHasRoot
        <5>2. a \in Kids(me)
          BY <5>1 DEF Arrives
        <5>3. Parent(a) = me /\ Parent(a) = y
          BY <5>2, KidHasParent
        <5> QED
          BY <5>3
      <4> QED
        BY <1>6, <3>1, <3>3, <4>1
    <3> QED
      BY <3>2, <3>3
  <2> QED
    BY <2>1 DEF ArrivedKids
<1>8. ArrivedKids(C1, U2, me) = ArrivedKids(C1, U1, me)
  <2>1. ASSUME NEW x \in Kids(me) PROVE Arrived(C1, U2, x) <=> Arrived(C1, U1, x)
    <3>1. me \notin Subtree(x)
      BY KidSubtree
    <3> QED
      BY <3>1 DEF Arrived
  <2> QED
    BY <2>1 DEF ArrivedKids
<1>9. \A y \in Ranks \ {me} : y \in C1 <=> y \in C
  BY <1>2
<1> QED
  BY <1>4, <1>7, <1>8, <1>9 DEF Arrivals, Summed, Elsewhere

-----------------------------------------------------------------------------
(* The types of what is summed.                                            *)
CountTypes(lv, ls, lr, rd) ==
  /\ lv \in [Ranks -> [0 .. 1 -> Time]]
  /\ ls \in [Ranks -> [0 .. 1 -> Nat]]
  /\ lr \in [Ranks -> [0 .. 2 -> Nat]]
  /\ rd \in [Ranks -> {0, 1}]

(* Times are natural numbers up to Inf.                                    *)
LEMMA TimesAreNumbers == Inf \in Nat /\ Time \subseteq Nat /\ (\A t \in Time : t <= Inf) /\ Inf \in Time
BY ConstantsAssumption DEF Time

(* Sets of ranks are finite.                                               *)
LEMMA RankSetFinite == \A S \in SUBSET Ranks : IsFiniteSet(S)
BY RanksFinite, FS_Subset

(* What is summed are numbers and times.                                   *)
LEMMA CountsAreNumbers ==
  ASSUME NEW lv, NEW ls, NEW lr, NEW rd, CountTypes(lv, ls, lr, rd), NEW q \in Ranks
  PROVE  /\ First(ls)[q] \in Nat /\ First(lr)[q] \in Nat /\ rd[q] \in Nat
         /\ lv[q][0] \in Time /\ lv[q][1] \in Time
         /\ First(ls)[q] = ls[q][0] /\ First(lr)[q] = lr[q][0]
BY DEF CountTypes, First

(* The sums over two disjoint sets of ranks add up, and the lesser time    *)
(* counts.                                                                 *)
LEMMA SumJoin ==
  ASSUME NEW lv, NEW ls, NEW lr, NEW rd, CountTypes(lv, ls, lr, rd),
         NEW S \in SUBSET Ranks, NEW P \in SUBSET Ranks, S \cap P = {},
         NEW v1 \in Time, NEW s1 \in Nat, NEW c1 \in Nat, NEW x1 \in Nat,
         IsSum(lv, ls, lr, rd, S, v1, s1, c1, x1),
         NEW v2 \in Time, NEW s2 \in Nat, NEW c2 \in Nat, NEW x2 \in Nat,
         IsSum(lv, ls, lr, rd, P, v2, s2, c2, x2)
  PROVE  IsSum(lv, ls, lr, rd, S \cup P, Least(v1, v2), s1 + s2, c1 + c2, x1 + x2)
<1>1. IsFiniteSet(S) /\ IsFiniteSet(P)
  BY RankSetFinite
<1>2. \A q \in S \cup P : First(ls)[q] \in Nat /\ First(lr)[q] \in Nat /\ rd[q] \in Nat
  BY CountsAreNumbers
<1>3. SumOf(First(ls), S \cup P) = SumOf(First(ls), S) + SumOf(First(ls), P)
  BY <1>1, <1>2, SumUnion
<1>4. SumOf(First(lr), S \cup P) = SumOf(First(lr), S) + SumOf(First(lr), P)
  BY <1>1, <1>2, SumUnion
<1>5. SumOf(rd, S \cup P) = SumOf(rd, S) + SumOf(rd, P)
  BY <1>1, <1>2, SumUnion
<1>6. SumOf(First(lr), S) \in Nat /\ SumOf(First(lr), P) \in Nat
  BY <1>1, <1>2, SumType
<1>7. ASSUME NEW q \in S \cup P PROVE Least(v1, v2) <= lv[q][0]
  <2>1. lv[q][0] \in Nat /\ v1 \in Nat /\ v2 \in Nat
    BY CountsAreNumbers, TimesAreNumbers
  <2>2. v1 <= lv[q][0] \/ v2 <= lv[q][0]
    BY DEF IsSum
  <2> QED
    BY <2>1, <2>2 DEF Least
<1>8. c1 + c2 <= SumOf(First(lr), S \cup P)
  BY <1>4, <1>6 DEF IsSum
<1> QED
  BY <1>3, <1>5, <1>7, <1>8 DEF IsSum

(* A rank waits for its own contribution and those of its kids.            *)
LEMMA WholeCount ==
  ASSUME NEW me \in Ranks
  PROVE  /\ IsFiniteSet(Whole(me))
         /\ Cardinality(Whole(me)) = 1 + KidCount(me)
         /\ KidCount(me) \in Nat
<1>1. IsFiniteSet(Kids(me)) /\ KidCount(me) = Cardinality(Kids(me)) /\ KidCount(me) \in Nat
  BY KidCountIsCardinality
<1>2. me \notin Kids(me)
  BY KidSubtree, RanksAreNumbers
<1>3. Whole(me) = Kids(me) \cup {me}
  BY DEF Whole
<1>4. IsFiniteSet(Kids(me) \cup {me}) /\ Cardinality(Kids(me) \cup {me}) = Cardinality(Kids(me)) + 1
  BY <1>1, <1>2, FS_AddElement
<1> QED
  BY <1>1, <1>3, <1>4

(* One more arrival, and whether it is the last.                           *)
LEMMA ArrivalCount ==
  ASSUME NEW me \in Ranks, NEW A \in SUBSET Whole(me), NEW a \in Whole(me) \ A
  PROVE  /\ Cardinality(A) \in Nat /\ Cardinality(A) <= KidCount(me)
         /\ Cardinality(A) = 0 <=> A = {}
         /\ Cardinality(A \cup {a}) = Cardinality(A) + 1
         /\ Cardinality(A \cup {a}) = 1 + KidCount(me) <=> A \cup {a} = Whole(me)
<1>1. IsFiniteSet(Whole(me)) /\ Cardinality(Whole(me)) = 1 + KidCount(me) /\ KidCount(me) \in Nat
  BY WholeCount
<1>2. IsFiniteSet(A)
  BY <1>1, FS_Subset
<1>3. Cardinality(A) \in Nat /\ (Cardinality(A) = 0 <=> A = {})
  BY <1>2, FS_CardinalityType, FS_EmptySet
<1>4. Cardinality(A \cup {a}) = Cardinality(A) + 1
  BY <1>2, FS_AddElement
<1> DEFINE B == A \cup {a}
<1>5. B \in SUBSET Whole(me)
  OBVIOUS
<1> HIDE DEF B
<1>6. Cardinality(B) <= Cardinality(Whole(me)) /\ (Cardinality(Whole(me)) = Cardinality(B) => Whole(me) = B)
  BY <1>1, <1>5, FS_Subset
<1>7. Cardinality(B) = Cardinality(A) + 1
  BY <1>4 DEF B
<1>8. Cardinality(B) = 1 + KidCount(me) <=> B = Whole(me)
  BY <1>1, <1>6
<1>9. Cardinality(A) <= KidCount(me)
  BY <1>1, <1>3, <1>6, <1>7
<1> QED
  BY <1>3, <1>7, <1>8, <1>9 DEF B

(* What Accumulate makes of the accumulators.                              *)
IsAccumulated(old, new, me, v, s, c, x) ==
  IF old.incoming = 0
  THEN new = [incoming |-> KidCount(me), gvtAcc |-> Least(Inf, v), gsend |-> s,
              grecv |-> c, rxsAcc |-> x]
  ELSE new = [incoming |-> old.incoming - 1, gvtAcc |-> Least(old.gvtAcc, v),
              gsend |-> old.gsend + s, grecv |-> old.grecv + c, rxsAcc |-> old.rxsAcc + x]

(* A part arrives at a rank: rdxn_incoming and the accumulators are again  *)
(* what NodeOK says.                                                       *)
LEMMA Accumulation ==
  ASSUME NEW lv, NEW ls, NEW lr, NEW rd, CountTypes(lv, ls, lr, rd),
         NEW C, C \subseteq Ranks, NEW U, SourcesOK(C, U), NEW me \in Ranks,
         NEW C1, NEW U1, NEW a, NEW P, Arrives(C, U, C1, U1, me, a, P),
         NEW old \in Sums, NEW new,
         old.incoming =
           IF Arrivals(C, U, me) = {} THEN 0 ELSE 1 + KidCount(me) - Cardinality(Arrivals(C, U, me)),
         old.incoming > 0 =>
           IsSum(lv, ls, lr, rd, Summed(C, U, me), old.gvtAcc, old.gsend, old.grecv, old.rxsAcc),
         NEW v \in Time, NEW s \in Nat, NEW c \in Nat, NEW x \in Nat,
         IsSum(lv, ls, lr, rd, P, v, s, c, x),
         IsAccumulated(old, new, me, v, s, c, x)
  PROVE  /\ new \in Sums
         /\ new.incoming = 1 + KidCount(me) - Cardinality(Arrivals(C1, U1, me))
         /\ new.incoming = 0 <=> Arrivals(C1, U1, me) = Whole(me)
         /\ Arrivals(C1, U1, me) # {}
         /\ IsSum(lv, ls, lr, rd, Summed(C1, U1, me), new.gvtAcc, new.gsend, new.grecv, new.rxsAcc)
<1> DEFINE A == Arrivals(C, U, me)
           S == Summed(C, U, me)
<1>a. ArrivedAt(C, U, C1, U1, me, a, P)
  BY ArrivalAt
<1>1. /\ C1 \subseteq Ranks /\ P \subseteq C1 /\ P \subseteq Ranks
      /\ a \in Whole(me) \ Arrivals(C, U, me)
      /\ Arrivals(C1, U1, me) = Arrivals(C, U, me) \cup {a}
      /\ Summed(C1, U1, me) = Summed(C, U, me) \cup P
      /\ Summed(C, U, me) \cap P = {}
      /\ me \notin U1
      /\ \A u \in U1 : me \notin Subtree(u)
  BY <1>a DEF ArrivedAt
<1>2. A \in SUBSET Whole(me)
  BY DEF Arrivals, Whole, ArrivedKids
<1>3. S \in SUBSET Ranks /\ P \in SUBSET Ranks
  BY <1>1 DEF Summed, Subtree
<1>4. a \in Whole(me) \ A
  BY <1>1
<1>5. KidCount(me) \in Nat
  BY WholeCount
<1>6. A = {} => S = {}
  BY DEF Arrivals, Summed
<1> HIDE DEF A, S
<1>7. /\ Cardinality(A) \in Nat /\ Cardinality(A) <= KidCount(me)
      /\ Cardinality(A) = 0 <=> A = {}
      /\ Cardinality(A \cup {a}) = Cardinality(A) + 1
      /\ Cardinality(A \cup {a}) = 1 + KidCount(me) <=> A \cup {a} = Whole(me)
  BY <1>2, <1>4, ArrivalCount
<1>8. old.incoming = IF A = {} THEN 0 ELSE 1 + KidCount(me) - Cardinality(A)
  BY DEF A
<1>9. old.incoming = 0 <=> A = {}
  BY <1>5, <1>7, <1>8
<1>10. Least(Inf, v) = v
  BY TimesAreNumbers DEF Least
<1>11. CASE A = {}
  <2>1. new = [incoming |-> KidCount(me), gvtAcc |-> v, gsend |-> s, grecv |-> c, rxsAcc |-> x]
    BY <1>9, <1>10, <1>11 DEF IsAccumulated
  <2>2. new \in Sums
    BY <1>5, <2>1 DEF Sums
  <2>3. new.incoming = 1 + KidCount(me) - Cardinality(A \cup {a})
    BY <1>5, <1>7, <1>11, <2>1
  <2>4. S \cup P = P
    BY <1>6, <1>11
  <2>5. IsSum(lv, ls, lr, rd, S \cup P, new.gvtAcc, new.gsend, new.grecv, new.rxsAcc)
    BY <2>1, <2>4
  <2> QED
    BY <1>1, <1>5, <1>7, <2>2, <2>3, <2>5 DEF A, S
<1>12. CASE A # {}
  <2>1. old.incoming # 0
    BY <1>9, <1>12
  <2>2. new = [incoming |-> old.incoming - 1, gvtAcc |-> Least(old.gvtAcc, v),
               gsend |-> old.gsend + s, grecv |-> old.grecv + c, rxsAcc |-> old.rxsAcc + x]
    BY <2>1 DEF IsAccumulated
  <2>3. /\ old.incoming \in Nat /\ old.gvtAcc \in Time /\ old.gsend \in Nat
        /\ old.grecv \in Nat /\ old.rxsAcc \in Nat
    BY DEF Sums
  <2>4. Least(old.gvtAcc, v) \in Time
    BY <2>3 DEF Least
  <2>5. new \in Sums
    BY <2>1, <2>2, <2>3, <2>4 DEF Sums
  <2>6. old.incoming = 1 + KidCount(me) - Cardinality(A)
    BY <1>8, <1>12
  <2>7. new.incoming = old.incoming - 1
    BY <2>2
  <2>8. new.incoming = 1 + KidCount(me) - Cardinality(A \cup {a})
    BY <1>5, <1>7, <2>6, <2>7
  <2>9. IsSum(lv, ls, lr, rd, S, old.gvtAcc, old.gsend, old.grecv, old.rxsAcc)
    BY <2>1, <2>3 DEF S
  <2>10. S \cap P = {}
    BY <1>1 DEF S
  <2>11. IsSum(lv, ls, lr, rd, S \cup P, Least(old.gvtAcc, v), old.gsend + s,
               old.grecv + c, old.rxsAcc + x)
    BY <1>3, <2>3, <2>9, <2>10, SumJoin
  <2>12. IsSum(lv, ls, lr, rd, S \cup P, new.gvtAcc, new.gsend, new.grecv, new.rxsAcc)
    BY <2>2, <2>11
  <2> QED
    BY <1>1, <1>5, <1>7, <2>5, <2>8, <2>12 DEF A, S
<1> QED
  BY <1>11, <1>12

-----------------------------------------------------------------------------
(* The message with the sums of rank me.                                   *)
UpMessage(me, n) ==
  [src |-> me, dst |-> Parent(me), lvt |-> n.gvtAcc,
   send |-> n.gsend, recv |-> n.grecv, rxs |-> n.rxsAcc]

(* The messages under way come from such ranks.                            *)
LEMMA SourcesAreOK ==
  ASSUME NEW C, NEW up, up \subseteq UpMessages, NEW lv, NEW ls, NEW lr, NEW rd,
         UpOK(C, up, lv, ls, lr, rd)
  PROVE  SourcesOK(C, Sources(up))
BY DEF UpOK, SourcesOK, Sources, UpMessages

(* UpOK of a subset of the messages for a larger set of contributors.      *)
LEMMA FewerUps ==
  ASSUME NEW C, NEW C1, C \subseteq C1, NEW up, NEW up1, up1 \subseteq up,
         NEW lv, NEW ls, NEW lr, NEW rd, UpOK(C, up, lv, ls, lr, rd)
  PROVE  UpOK(C1, up1, lv, ls, lr, rd)
<1> SUFFICES ASSUME NEW m \in up1
             PROVE  /\ m.dst = Parent(m.src)
                    /\ Subtree(m.src) \subseteq C1
                    /\ Sources(up1) \cap Subtree(m.src) = {m.src}
                    /\ \A n \in up1 : n.src = m.src => n = m
                    /\ IsSum(lv, ls, lr, rd, Subtree(m.src), m.lvt, m.send, m.recv, m.rxs)
  BY DEF UpOK
<1>1. m \in up
  OBVIOUS
<1>2. /\ m.dst = Parent(m.src)
      /\ Subtree(m.src) \subseteq C
      /\ Sources(up) \cap Subtree(m.src) = {m.src}
      /\ \A n \in up : n.src = m.src => n = m
      /\ IsSum(lv, ls, lr, rd, Subtree(m.src), m.lvt, m.send, m.recv, m.rxs)
  BY <1>1 DEF UpOK
<1>3. Sources(up1) \subseteq Sources(up) /\ m.src \in Sources(up1)
  BY DEF Sources
<1> QED
  BY <1>2, <1>3

(* A rank that has all its parts may pass them on.                         *)
LEMMA OneMoreUp ==
  ASSUME NEW C, NEW up1, up1 \subseteq UpMessages,
         NEW lv, NEW ls, NEW lr, NEW rd, UpOK(C, up1, lv, ls, lr, rd),
         NEW me \in Ranks \ {0}, NEW n \in Sums, me \notin Sources(up1),
         SourcesOK(C, Sources(up1) \cup {me}),
         IsSum(lv, ls, lr, rd, Subtree(me), n.gvtAcc, n.gsend, n.grecv, n.rxsAcc)
  PROVE  /\ UpOK(C, up1 \cup {UpMessage(me, n)}, lv, ls, lr, rd)
         /\ Sources(up1 \cup {UpMessage(me, n)}) = Sources(up1) \cup {me}
         /\ up1 \cup {UpMessage(me, n)} \subseteq UpMessages
<1> DEFINE w == UpMessage(me, n)
           up2 == up1 \cup {w}
<1>1. /\ w.src = me /\ w.dst = Parent(me) /\ w.lvt = n.gvtAcc
      /\ w.send = n.gsend /\ w.recv = n.grecv /\ w.rxs = n.rxsAcc
  BY DEF UpMessage
<1>2. Parent(me) \in Ranks
  BY ParentExists
<1>3. w \in UpMessages
  BY <1>2 DEF UpMessages, Sums, UpMessage
<1> HIDE DEF w
<1>4. Sources(up2) = Sources(up1) \cup {me}
  BY <1>1 DEF Sources
<1>5. ASSUME NEW m \in up2
      PROVE  /\ m.dst = Parent(m.src)
             /\ Subtree(m.src) \subseteq C
             /\ Sources(up2) \cap Subtree(m.src) = {m.src}
             /\ \A k \in up2 : k.src = m.src => k = m
             /\ IsSum(lv, ls, lr, rd, Subtree(m.src), m.lvt, m.send, m.recv, m.rxs)
  <2>1. m.src \in Sources(up2)
    BY DEF Sources
  <2>2. Subtree(m.src) \subseteq C /\ Sources(up2) \cap Subtree(m.src) = {m.src}
    BY <1>4, <2>1 DEF SourcesOK
  <2>3. \A k \in up1 : k.src \in Sources(up1)
    BY DEF Sources
  <2>4. CASE m \in up1
    <3>1. /\ m.dst = Parent(m.src)
          /\ \A k \in up1 : k.src = m.src => k = m
          /\ IsSum(lv, ls, lr, rd, Subtree(m.src), m.lvt, m.send, m.recv, m.rxs)
      BY <2>4 DEF UpOK
    <3>2. m.src # me
      BY <2>3, <2>4
    <3>3. \A k \in up2 : k.src = m.src => k = m
      BY <1>1, <3>1, <3>2
    <3> QED
      BY <2>2, <3>1, <3>3
  <2>5. CASE m = w
    <3>1. \A k \in up2 : k.src = m.src => k = m
      BY <1>1, <2>3, <2>5
    <3> QED
      BY <1>1, <2>2, <2>5, <3>1
  <2> QED
    BY <2>4, <2>5
<1>6. UpOK(C, up2, lv, ls, lr, rd)
  BY <1>5 DEF UpOK
<1> QED
  BY <1>3, <1>4, <1>6 DEF w

(* One call of rdxn_up, in the eyes of the whole tree.                     *)
Rises(lv, ls, lr, rd, C, rx, up, me, C1, up1, a, P, v, s, c, x, new, rx1) ==
  /\ CountTypes(lv, ls, lr, rd)
  /\ C \subseteq Ranks /\ up \subseteq UpMessages /\ rx \in [Ranks -> Sums]
  /\ TreeOK(C, rx, up, lv, ls, lr, rd)
  /\ me \in Ranks /\ up1 \subseteq up
  /\ Arrives(C, Sources(up), C1, Sources(up1), me, a, P)
  /\ v \in Time /\ s \in Nat /\ c \in Nat /\ x \in Nat
  /\ IsSum(lv, ls, lr, rd, P, v, s, c, x)
  /\ IsAccumulated(rx[me], new, me, v, s, c, x)
  /\ rx1 = [rx EXCEPT ![me] = new]

(* What a call of rdxn_up makes of the tree.                               *)
Risen(lv, ls, lr, rd, me, C1, up1, new, rx1) ==
  /\ rx1 \in [Ranks -> Sums] /\ new \in Sums
  /\ new.incoming > 0 => TreeOK(C1, rx1, up1, lv, ls, lr, rd)
  /\ new.incoming = 0 /\ me # 0 =>
       /\ TreeOK(C1, rx1, up1 \cup {UpMessage(me, new)}, lv, ls, lr, rd)
       /\ up1 \cup {UpMessage(me, new)} \subseteq UpMessages
  /\ new.incoming = 0 /\ me = 0 =>
       /\ C1 = Ranks /\ up1 = {}
       /\ IsSum(lv, ls, lr, rd, Ranks, new.gvtAcc, new.gsend, new.grecv, new.rxsAcc)
       /\ \A y \in Ranks : rx1[y].incoming = 0

(* A call of rdxn_up keeps TreeOK; at rank 0, when the last part has come, *)
(* it has the sums over all the ranks.                                     *)
LEMMA TreeStep ==
  ASSUME NEW lv, NEW ls, NEW lr, NEW rd, NEW C, NEW rx, NEW up, NEW me, NEW C1, NEW up1,
         NEW a, NEW P, NEW v, NEW s, NEW c, NEW x, NEW new, NEW rx1,
         Rises(lv, ls, lr, rd, C, rx, up, me, C1, up1, a, P, v, s, c, x, new, rx1)
  PROVE  Risen(lv, ls, lr, rd, me, C1, up1, new, rx1)
<1>0. /\ CountTypes(lv, ls, lr, rd)
      /\ C \subseteq Ranks /\ up \subseteq UpMessages /\ rx \in [Ranks -> Sums]
      /\ TreeOK(C, rx, up, lv, ls, lr, rd)
      /\ me \in Ranks /\ up1 \subseteq up
      /\ Arrives(C, Sources(up), C1, Sources(up1), me, a, P)
      /\ v \in Time /\ s \in Nat /\ c \in Nat /\ x \in Nat
      /\ IsSum(lv, ls, lr, rd, P, v, s, c, x)
      /\ IsAccumulated(rx[me], new, me, v, s, c, x)
  BY DEF Rises
<1> USE <1>0
<1> DEFINE U == Sources(up)
           U1 == Sources(up1)
           full == Arrivals(C1, U1, me) = Whole(me)
           U2 == IF full /\ me # 0 THEN U1 \cup {me} ELSE U1
           Sum(n, S) == IsSum(lv, ls, lr, rd, S, n.gvtAcc, n.gsend, n.grecv, n.rxsAcc)
<1>1. UpOK(C, up, lv, ls, lr, rd) /\ NodeOK(C, U, rx, lv, ls, lr, rd)
  BY DEF TreeOK
<1>2. SourcesOK(C, U)
  BY <1>1, SourcesAreOK
<1>3. Arrives(C, U, C1, U1, me, a, P)
  OBVIOUS
<1>4. rx[me] \in Sums
  OBVIOUS
<1>5. /\ rx[me].incoming =
           IF Arrivals(C, U, me) = {} THEN 0 ELSE 1 + KidCount(me) - Cardinality(Arrivals(C, U, me))
      /\ rx[me].incoming > 0 => Sum(rx[me], Summed(C, U, me))
  BY <1>1 DEF NodeOK
<1> HIDE DEF U, U1
<1>6. /\ new \in Sums
      /\ new.incoming = 1 + KidCount(me) - Cardinality(Arrivals(C1, U1, me))
      /\ new.incoming = 0 <=> Arrivals(C1, U1, me) = Whole(me)
      /\ Arrivals(C1, U1, me) # {}
      /\ Sum(new, Summed(C1, U1, me))
  BY <1>2, <1>3, <1>4, <1>5, Accumulation
<1>7. /\ SourcesOK(C1, U2)
      /\ \A y \in Ranks \ {me} : /\ Arrivals(C1, U2, y) = Arrivals(C, U, y)
                                 /\ Summed(C1, U2, y) = Summed(C, U, y)
      /\ Arrivals(C1, U2, me) = Arrivals(C1, U1, me)
  <2>1. SentUp(C1, U1, me, U2)
    BY DEF SentUp
  <2> HIDE DEF U2
  <2>2. Elsewhere(C, U, C1, U1, U2, me)
    BY <1>2, <1>3, <2>1, ArrivalElsewhere
  <2> QED
    BY <2>2 DEF Elsewhere
<1>8. \A y \in Ranks \ {me} : /\ Arrivals(C1, U2, y) = Arrivals(C, U, y)
                              /\ Summed(C1, U2, y) = Summed(C, U, y)
  BY <1>7
<1>9. Arrivals(C1, U2, me) = Arrivals(C1, U1, me)
  BY <1>7
<1>10. ArrivedAt(C, U, C1, U1, me, a, P)
  BY <1>2, <1>3, ArrivalAt
<1>11. me \notin U1
  BY <1>10 DEF ArrivedAt
<1>12. C \subseteq C1
  BY <1>3 DEF Arrives
<1>13. UpOK(C1, up1, lv, ls, lr, rd)
  BY <1>1, <1>12, FewerUps
<1>14. rx1 \in [Ranks -> Sums] /\ rx1[me] = new /\ \A y \in Ranks \ {me} : rx1[y] = rx[y]
  BY <1>6 DEF Rises
<1>15. new.incoming \in Nat
  BY <1>6 DEF Sums
<1>16. full => Subtree(me) \subseteq C1 /\ U1 \cap Subtree(me) \subseteq {me}
               /\ Summed(C1, U1, me) = Subtree(me)
  BY AllBelow
<1>17. ASSUME ~ (full /\ me = 0) PROVE NodeOK(C1, U2, rx1, lv, ls, lr, rd)
  <2> SUFFICES ASSUME NEW y \in Ranks
               PROVE  /\ rx1[y].incoming =
                           IF Arrivals(C1, U2, y) = {} THEN 0
                           ELSE 1 + KidCount(y) - Cardinality(Arrivals(C1, U2, y))
                      /\ rx1[y].incoming > 0 => Sum(rx1[y], Summed(C1, U2, y))
    BY DEF NodeOK
  <2>1. CASE y = me
    <3>1. rx1[me].incoming = IF Arrivals(C1, U2, me) = {} THEN 0
                             ELSE 1 + KidCount(me) - Cardinality(Arrivals(C1, U2, me))
      BY <1>6, <1>9, <1>14
    <3>2. CASE full
      <4>1. ~ (rx1[me].incoming > 0)
        BY <1>6, <1>14, <3>2
      <4> QED
        BY <2>1, <3>1, <4>1
    <3>3. CASE ~ full
      <4>1. U2 = U1
        BY <3>3
      <4>2. Sum(rx1[me], Summed(C1, U2, me))
        BY <1>6, <1>14, <4>1
      <4> QED
        BY <2>1, <3>1, <4>2
    <3> QED
      BY <3>2, <3>3
  <2>2. CASE y # me
    <3>1. rx1[y] = rx[y] /\ Arrivals(C1, U2, y) = Arrivals(C, U, y)
          /\ Summed(C1, U2, y) = Summed(C, U, y)
      BY <1>8, <1>14, <2>2
    <3>2. /\ rx[y].incoming =
               IF Arrivals(C, U, y) = {} THEN 0 ELSE 1 + KidCount(y) - Cardinality(Arrivals(C, U, y))
          /\ rx[y].incoming > 0 => Sum(rx[y], Summed(C, U, y))
      BY <1>1 DEF NodeOK
    <3> QED
      BY <3>1, <3>2
  <2> QED
    BY <2>1, <2>2
<1>18. ASSUME ~ full PROVE TreeOK(C1, rx1, up1, lv, ls, lr, rd)
  <2>1. U2 = U1
    BY <1>18
  <2>2. NodeOK(C1, U1, rx1, lv, ls, lr, rd)
    BY <1>17, <1>18, <2>1
  <2> QED
    BY <1>13, <2>2 DEF TreeOK, U1
<1>19. ASSUME full, me # 0
       PROVE  /\ TreeOK(C1, rx1, up1 \cup {UpMessage(me, new)}, lv, ls, lr, rd)
              /\ up1 \cup {UpMessage(me, new)} \subseteq UpMessages
  <2>1. U2 = U1 \cup {me}
    BY <1>19
  <2>2. NodeOK(C1, U2, rx1, lv, ls, lr, rd)
    BY <1>17, <1>19
  <2>3. Sum(new, Subtree(me))
    BY <1>6, <1>16, <1>19
  <2>4. SourcesOK(C1, Sources(up1) \cup {me}) /\ me \notin Sources(up1)
    BY <1>7, <1>11, <2>1 DEF U1
  <2>5. me \in Ranks \ {0} /\ up1 \subseteq UpMessages
    BY <1>19
  <2>6. /\ UpOK(C1, up1 \cup {UpMessage(me, new)}, lv, ls, lr, rd)
        /\ Sources(up1 \cup {UpMessage(me, new)}) = Sources(up1) \cup {me}
        /\ up1 \cup {UpMessage(me, new)} \subseteq UpMessages
    BY <1>6, <1>13, <2>3, <2>4, <2>5, OneMoreUp
  <2> QED
    BY <2>1, <2>2, <2>6 DEF TreeOK, U1
<1>20. ASSUME full, me = 0
       PROVE  /\ C1 = Ranks /\ up1 = {}
              /\ Sum(new, Ranks)
              /\ \A y \in Ranks : rx1[y].incoming = 0
  <2>1. Subtree(me) = Ranks
    BY <1>20, SubtreeOfRoot
  <2>2. C1 = Ranks
    BY <1>10, <1>16, <1>20, <2>1 DEF ArrivedAt
  <2>3. U1 = {}
    <3>1. U1 \subseteq Ranks
      BY <1>3, <1>2 DEF Arrives, SourcesOK
    <3> QED
      BY <1>11, <1>16, <1>20, <2>1, <3>1
  <2>4. up1 = {}
    BY <2>3 DEF U1, Sources
  <2>5. Sum(new, Ranks)
    BY <1>6, <1>16, <1>20, <2>1
  <2>6. ASSUME NEW y \in Ranks PROVE rx1[y].incoming = 0
    <3>1. CASE y = me
      BY <1>6, <1>14, <1>20, <3>1
    <3>2. CASE y # me
      <4>1. U2 = U1
        BY <1>20
      <4>2. Arrivals(C, U, y) = Arrivals(C1, U1, y)
        BY <1>8, <3>2, <4>1
      <4>3. Arrivals(C1, U1, y) = Whole(y)
        <5>1. \A k \in Kids(y) : Subtree(k) \subseteq Ranks
          BY DEF Subtree
        <5>2. ArrivedKids(C1, U1, y) = Kids(y)
          BY <2>2, <2>3, <5>1 DEF ArrivedKids, Arrived
        <5> QED
          BY <2>2, <5>2 DEF Arrivals, Whole
      <4>4. rx1[y] = rx[y]
        BY <1>14, <3>2
      <4>5. rx[y].incoming =
               IF Arrivals(C, U, y) = {} THEN 0 ELSE 1 + KidCount(y) - Cardinality(Arrivals(C, U, y))
        BY <1>1 DEF NodeOK
      <4>6. Cardinality(Whole(y)) = 1 + KidCount(y) /\ KidCount(y) \in Nat
        BY WholeCount
      <4>7. 1 + KidCount(y) - Cardinality(Arrivals(C, U, y)) = 0
        BY <4>2, <4>3, <4>6
      <4> QED
        BY <4>4, <4>5, <4>7
    <3> QED
      BY <3>1, <3>2
  <2> QED
    BY <2>2, <2>4, <2>5, <2>6
<1>21. new.incoming > 0 <=> ~ full
  BY <1>6, <1>15
<1> HIDE DEF full, U2, Sum
<1>22. new.incoming = 0 <=> full
  BY <1>15, <1>21
<1> QED
  BY <1>6, <1>14, <1>18, <1>19, <1>20, <1>21, <1>22 DEF Sum, Risen

-----------------------------------------------------------------------------
(* TreeOK is about the contributions only: what ranks outside C change,    *)
(* and messages that ranks in C receive, leave it true.                    *)
LEMMA TreeFrame ==
  ASSUME NEW lv, NEW ls, NEW lr, NEW rd, CountTypes(lv, ls, lr, rd),
         NEW lv1, NEW ls1, NEW lr1, NEW rd1, CountTypes(lv1, ls1, lr1, rd1),
         NEW C, C \subseteq Ranks, NEW up, up \subseteq UpMessages, NEW rx \in [Ranks -> Sums],
         TreeOK(C, rx, up, lv, ls, lr, rd),
         \A q \in C : /\ lv1[q][0] = lv[q][0] /\ ls1[q][0] = ls[q][0]
                      /\ lr[q][0] <= lr1[q][0] /\ rd1[q] = rd[q]
  PROVE  TreeOK(C, rx, up, lv1, ls1, lr1, rd1)
<1>1. ASSUME NEW S \in SUBSET C, NEW v, NEW s, NEW c \in Nat, NEW x,
             IsSum(lv, ls, lr, rd, S, v, s, c, x)
      PROVE  IsSum(lv1, ls1, lr1, rd1, S, v, s, c, x)
  <2>1. IsFiniteSet(S) /\ S \subseteq Ranks
    BY RankSetFinite
  <2>2. \A q \in S : /\ First(ls)[q] \in Nat /\ First(lr)[q] \in Nat
                     /\ First(ls)[q] = ls[q][0] /\ First(lr)[q] = lr[q][0]
    BY <2>1, CountsAreNumbers
  <2>3. \A q \in S : /\ First(ls1)[q] \in Nat /\ First(lr1)[q] \in Nat
                     /\ First(ls1)[q] = ls1[q][0] /\ First(lr1)[q] = lr1[q][0]
    BY <2>1, CountsAreNumbers
  <2>4. \A q \in S : First(ls1)[q] = First(ls)[q]
    BY <2>2, <2>3
  <2>5. SumOf(First(ls1), S) = SumOf(First(ls), S)
    BY <2>4, SumAgree
  <2>6. \A q \in S : First(lr)[q] \in Nat /\ First(lr1)[q] \in Nat /\ First(lr)[q] <= First(lr1)[q]
    BY <2>2, <2>3
  <2>7. SumOf(First(lr), S) <= SumOf(First(lr1), S)
    BY <2>1, <2>6, SumMonotone
  <2>8. SumOf(First(lr), S) \in Nat /\ SumOf(First(lr1), S) \in Nat
    BY <2>1, <2>6, SumType
  <2>9. SumOf(rd1, S) = SumOf(rd, S)
    BY SumAgree
  <2>10. c <= SumOf(First(lr1), S)
    BY <2>7, <2>8, <1>1 DEF IsSum
  <2> QED
    BY <2>5, <2>9, <2>10, <1>1 DEF IsSum
<1>2. UpOK(C, up, lv1, ls1, lr1, rd1)
  <2> SUFFICES ASSUME NEW m \in up
               PROVE  IsSum(lv1, ls1, lr1, rd1, Subtree(m.src), m.lvt, m.send, m.recv, m.rxs)
    BY DEF TreeOK, UpOK
  <2>1. Subtree(m.src) \subseteq C
        /\ IsSum(lv, ls, lr, rd, Subtree(m.src), m.lvt, m.send, m.recv, m.rxs)
    BY DEF TreeOK, UpOK
  <2>2. m.recv \in Nat
    BY DEF UpMessages
  <2> QED
    BY <1>1, <2>1, <2>2
<1>3. NodeOK(C, Sources(up), rx, lv1, ls1, lr1, rd1)
  <2> SUFFICES ASSUME NEW r \in Ranks, rx[r].incoming > 0
               PROVE  IsSum(lv1, ls1, lr1, rd1, Summed(C, Sources(up), r),
                            rx[r].gvtAcc, rx[r].gsend, rx[r].grecv, rx[r].rxsAcc)
    BY DEF TreeOK, NodeOK
  <2>1. IsSum(lv, ls, lr, rd, Summed(C, Sources(up), r),
              rx[r].gvtAcc, rx[r].gsend, rx[r].grecv, rx[r].rxsAcc)
    BY DEF TreeOK, NodeOK
  <2>2. Summed(C, Sources(up), r) \in SUBSET C
    BY DEF Summed, ArrivedKids, Arrived
  <2>3. rx[r].grecv \in Nat
    BY DEF Sums
  <2> QED
    BY <1>1, <2>1, <2>2, <2>3
<1> QED
  BY <1>2, <1>3 DEF TreeOK

(* Before the first contribution the tree is empty.                        *)
LEMMA TreeEmpty ==
  ASSUME NEW lv, NEW ls, NEW lr, NEW rd, NEW rx, \A y \in Ranks : rx[y].incoming = 0
  PROVE  TreeOK({}, rx, {}, lv, ls, lr, rd)
<1>1. ASSUME NEW r \in Ranks PROVE Arrivals({}, Sources({}), r) = {}
  <2>1. \A k \in Kids(r) : k \in Subtree(k)
    BY SubtreeHasRoot DEF Kids
  <2> QED
    BY <2>1 DEF Arrivals, ArrivedKids, Arrived
<1>2. NodeOK({}, Sources({}), rx, lv, ls, lr, rd)
  BY <1>1 DEF NodeOK
<1>3. UpOK({}, {}, lv, ls, lr, rd)
  BY DEF UpOK
<1> QED
  BY <1>2, <1>3 DEF TreeOK

-----------------------------------------------------------------------------
(* The types of what CollOK is about.                                      *)
StatusTypes(cs, ep, rd, dn) ==
  /\ cs \in [Ranks -> [0 .. 1 -> Status]]
  /\ ep \in [Ranks -> Epochs]
  /\ rd \in [Ranks -> {0, 1}]
  /\ dn \subseteq DownMessages

(* Epochs are numbers, and the next one wraps.                             *)
LEMMA EpochsAreNumbers ==
  /\ EpochMod \in Nat /\ EpochMod >= 8 /\ Epochs \subseteq Nat
  /\ \A e \in Epochs : /\ NextEpoch(e) \in Epochs
                       /\ NextEpoch(e) = IF e = EpochMod - 1 THEN 0 ELSE e + 1
<1>1. EpochMod \in Nat \ {0} /\ EpochMod \in Nat /\ EpochMod >= 8
  BY ConstantsAssumption
<1>2. ASSUME NEW e \in Epochs
      PROVE  NextEpoch(e) = IF e = EpochMod - 1 THEN 0 ELSE e + 1
  <2>1. e \in Nat /\ e <= EpochMod - 1
    BY <1>1 DEF Epochs
  <2>2. CASE e = EpochMod - 1
    <3>1. (EpochMod * 1 + 0) % EpochMod = 0
      <4>1. 1 \in Int /\ 0 \in 0 .. EpochMod - 1
        BY <1>1
      <4> QED
        BY <1>1, <4>1, RemainderUnique
    <3>2. EpochMod * 1 + 0 = e + 1
      BY <1>1, <2>2
    <3>3. (e + 1) % EpochMod = 0
      BY <3>1, <3>2
    <3> QED
      BY <2>2, <3>3 DEF NextEpoch
  <2>3. CASE e # EpochMod - 1
    <3>1. e + 1 \in 0 .. EpochMod - 1
      BY <1>1, <2>1, <2>3
    <3>2. (e + 1) % EpochMod = e + 1
      BY <1>1, <3>1, RemainderSmall
    <3> QED
      BY <2>3, <3>2 DEF NextEpoch
  <2> QED
    BY <2>2, <2>3
<1>3. ASSUME NEW e \in Epochs PROVE NextEpoch(e) \in Epochs
  <2>1. e \in Nat /\ e <= EpochMod - 1
    BY <1>1 DEF Epochs
  <2>2. NextEpoch(e) = IF e = EpochMod - 1 THEN 0 ELSE e + 1
    BY <1>2
  <2> QED
    BY <1>1, <2>1, <2>2 DEF Epochs
<1> QED
  BY <1>1, <1>2, <1>3 DEF Epochs

(* Rank r enters the open collective.                                      *)
Begun(cs, ep, rd, r, st, ep1, rd1) ==
  /\ cs[r][0] # "reducing" /\ cs[r][0] = cs[r][1]
  /\ st = [cs EXCEPT ![r] = [i \in 0 .. 1 |-> "reducing"]]
  /\ ep1 = IF cs[r][0] = "quiesced" THEN [ep EXCEPT ![r] = NextEpoch(@)] ELSE ep
  /\ rd1 = [rd EXCEPT ![r] = 1 - @]

(* The status of the ranks once r has joined the collective.               *)
Joined(cs, crx, ep, rd, dn, e, d, r, st, ep1, rd1) ==
  /\ StatusTypes(st, ep1, rd1, dn)
  /\ r \notin Contrib(cs, dn)
  /\ Contrib(st, dn) = Contrib(cs, dn) \cup {r}
  /\ ep1[r] = e /\ rd1[r] = d
  /\ \A q \in Ranks \ {r} : ep1[q] = ep[q] /\ rd1[q] = rd[q]
  /\ CollOK(st, crx, ep1, rd1, dn, e, d)

(* coll_begin: the rank was not in the open collective, and now is.        *)
LEMMA CollEnter ==
  ASSUME NEW cs, NEW crx, NEW ep, NEW rd, NEW dn, StatusTypes(cs, ep, rd, dn),
         NEW e \in Epochs, NEW d \in {0, 1}, CollOK(cs, crx, ep, rd, dn, e, d),
         NEW r \in Ranks, NEW st, NEW ep1, NEW rd1, Begun(cs, ep, rd, r, st, ep1, rd1)
  PROVE  Joined(cs, crx, ep, rd, dn, e, d, r, st, ep1, rd1)
<1>0. /\ cs[r][0] # "reducing" /\ cs[r][0] = cs[r][1]
      /\ st = [cs EXCEPT ![r] = [i \in 0 .. 1 |-> "reducing"]]
      /\ ep1 = IF cs[r][0] = "quiesced" THEN [ep EXCEPT ![r] = NextEpoch(@)] ELSE ep
      /\ rd1 = [rd EXCEPT ![r] = 1 - @]
  BY DEF Begun, Joined
<1> USE <1>0
<1>1. /\ Entering(ep[r], cs[r][1] = "quiesced") = e
      /\ rd[r] = 1 - d
  BY DEF CollOK
<1>2. NextEpoch(ep[r]) \in Epochs
  BY EpochsAreNumbers DEF StatusTypes
<1>3. ep1[r] = e /\ \A q \in Ranks \ {r} : ep1[q] = ep[q]
  BY <1>1 DEF Entering, StatusTypes
<1>4. rd1[r] = d /\ \A q \in Ranks \ {r} : rd1[q] = rd[q]
  BY <1>1 DEF StatusTypes
<1>5. /\ st[r] = [i \in 0 .. 1 |-> "reducing"]
      /\ \A q \in Ranks \ {r} : st[q] = cs[q]
  BY DEF StatusTypes
<1>6. st[r][0] = "reducing" /\ st[r][1] = "reducing"
  BY <1>5
<1>7. StatusTypes(st, ep1, rd1, dn)
  <2>1. [i \in 0 .. 1 |-> "reducing"] \in [0 .. 1 -> Status]
    BY DEF Status
  <2>2. st \in [Ranks -> [0 .. 1 -> Status]]
    BY <2>1 DEF StatusTypes
  <2>3. ep1 \in [Ranks -> Epochs]
    BY <1>2 DEF StatusTypes
  <2>4. rd1 \in [Ranks -> {0, 1}]
    <3>1. \A z \in {0, 1} : 1 - z \in {0, 1}
      OBVIOUS
    <3> QED
      BY <3>1 DEF StatusTypes
  <2> QED
    BY <2>2, <2>3, <2>4 DEF StatusTypes
<1>8. \A m \in dn : r \notin Covers(m)
  BY DEF CollOK
<1>9. Contrib(st, dn) = Contrib(cs, dn) \cup {r} /\ r \notin Contrib(cs, dn)
  BY <1>5, <1>6, <1>8 DEF Contrib
<1>10. \A m \in dn : \A q \in Covers(m) : q \in Ranks
  <2> SUFFICES ASSUME NEW m \in dn, NEW q \in Covers(m) PROVE q \in Ranks
    OBVIOUS
  <2>1. m.dst \in Ranks /\ m.dst < Above(m) /\ Above(m) <= N /\ m.toUb \in Int
    BY DEF CollOK, StatusTypes, DownMessages
  <2>2. Above(m) \in Int
    BY <2>1 DEF Above, Marked
  <2>3. m.dst \in Nat /\ N \in Nat
    BY <2>1, RanksAreNumbers
  <2> QED
    BY <2>1, <2>2, <2>3 DEF Covers, Ranks
<1>11. ASSUME NEW m \in dn
       PROVE  /\ m.dst < Above(m) /\ Above(m) <= N
              /\ m.rxs = N * (1 - d)
              /\ \A n \in dn : Covers(m) \cap Covers(n) # {} => m = n
              /\ \A q \in Covers(m) :
                   /\ st[q][0] = "reducing" /\ st[q][1] = "reducing"
                   /\ Entering(ep1[q], m.toUb < 0) = e
                   /\ rd1[q] = 1 - d
  <2>1. \A q \in Covers(m) : st[q] = cs[q] /\ ep1[q] = ep[q] /\ rd1[q] = rd[q]
    BY <1>3, <1>4, <1>5, <1>8, <1>10
  <2> QED
    BY <2>1 DEF CollOK
<1>12. \A q \in Contrib(st, dn) : st[q][0] = "reducing" /\ ep1[q] = e /\ rd1[q] = d
  <2> SUFFICES ASSUME NEW q \in Contrib(st, dn), q # r
               PROVE  st[q][0] = "reducing" /\ ep1[q] = e /\ rd1[q] = d
    BY <1>3, <1>4, <1>6
  <2>1. q \in Contrib(cs, dn) /\ q \in Ranks
    BY <1>9 DEF Contrib
  <2>2. cs[q][0] = "reducing" /\ ep[q] = e /\ rd[q] = d
    BY <2>1 DEF CollOK
  <2> QED
    BY <1>3, <1>4, <1>5, <2>1, <2>2
<1>13. ASSUME NEW q \in Ranks, st[q][1] # "reducing"
       PROVE  /\ st[q][0] \in {"reducing", st[q][1]}
              /\ Entering(ep1[q], st[q][1] = "quiesced") = e
              /\ rd1[q] = 1 - d
              /\ crx[q][1] = N * rd1[q]
  <2>1. q # r
    BY <1>6, <1>13
  <2>2. st[q] = cs[q] /\ ep1[q] = ep[q] /\ rd1[q] = rd[q]
    BY <1>3, <1>4, <1>5, <2>1
  <2> QED
    BY <1>13, <2>2 DEF CollOK
<1>14. CollOK(st, crx, ep1, rd1, dn, e, d)
  BY <1>11, <1>12, <1>13 DEF CollOK
<1> QED
  BY <1>3, <1>4, <1>7, <1>9, <1>14 DEF Joined

-----------------------------------------------------------------------------
(* A message of rdxn_down is meant for ranks, its destination among them.  *)
LEMMA CoversAreRanks ==
  ASSUME NEW m \in DownMessages, m.dst < Above(m), Above(m) <= N
  PROVE  Covers(m) \subseteq Ranks \ {0} /\ m.dst \in Covers(m)
<1>1. m.dst \in Ranks \ {0} /\ m.toUb \in Int
  BY DEF DownMessages
<1>2. Above(m) \in Int
  BY <1>1 DEF Above, Marked
<1>3. m.dst \in Nat /\ N \in Nat /\ m.dst # 0
  BY <1>1, RanksAreNumbers
<1> QED
  BY <1>2, <1>3 DEF Covers, Ranks

(* All the ranks have contributed: no result is on its way.                *)
LEMMA NoneOnItsWay ==
  ASSUME NEW cs, NEW crx, NEW ep, NEW rd, NEW dn, StatusTypes(cs, ep, rd, dn),
         NEW e, NEW d, CollOK(cs, crx, ep, rd, dn, e, d), Contrib(cs, dn) = Ranks
  PROVE  dn = {}
<1> SUFFICES ASSUME NEW m \in dn PROVE FALSE
  OBVIOUS
<1>1. m \in DownMessages /\ m.dst < Above(m) /\ Above(m) <= N
  BY DEF StatusTypes, CollOK
<1>2. m.dst \in Covers(m) /\ m.dst \in Ranks
  BY <1>1, CoversAreRanks
<1>3. m.dst \notin Contrib(cs, dn)
  BY <1>2 DEF Contrib
<1> QED
  BY <1>2, <1>3

(* The messages of rdxn_down are messages, and cover what they shall.      *)
HalvesCovers(me, ub, q, g, x, H) ==
  /\ H \subseteq DownMessages
  /\ \A h \in H : /\ (h.toUb < 0) = q /\ h.gvt = g /\ h.rxs = x
                  /\ h.dst < Above(h) /\ Above(h) <= N
                  /\ Covers(h) \subseteq me + 1 .. ub - 1
  /\ UNION {Covers(h) : h \in H} = me + 1 .. ub - 1
  /\ \A h1, h2 \in H : Covers(h1) \cap Covers(h2) # {} => h1 = h2

(* The messages of rdxn_down, as CollOK needs them.                        *)
LEMMA HalvesCover ==
  ASSUME NEW me \in Ranks, NEW ub \in me + 1 .. N, NEW q \in BOOLEAN,
         NEW g \in Time, NEW x \in Nat, NEW H, H = Halves(me, ub, q, g, x)
  PROVE  HalvesCovers(me, ub, q, g, x, H)
<1>1. me \in Nat /\ N \in Nat /\ ub \in Nat /\ ub <= N
  BY RanksAreNumbers
<1>2. HalvesRight(me, ub, q, g, x, H)
  BY <1>1, HalvesAllRight
<1>3. ASSUME NEW h \in H
      PROVE  /\ h \in DownMessages
             /\ (h.toUb < 0) = q /\ h.gvt = g /\ h.rxs = x
             /\ h.dst < Above(h) /\ Above(h) <= N
             /\ Covers(h) \subseteq me + 1 .. ub - 1
  <2>1. /\ h \in [dst : Nat, toUb : Int, gvt : {g}, rxs : {x}]
        /\ (h.toUb < 0) = q
        /\ h.dst > me /\ h.dst < Above(h) /\ Above(h) \in Nat /\ Above(h) <= ub
    BY <1>2 DEF HalvesRight
  <2>2. h.dst \in Nat /\ h.dst < N /\ h.dst # 0 /\ Above(h) <= N
    BY <1>1, <2>1
  <2>3. h.dst \in Ranks \ {0}
    BY <1>1, <2>2 DEF Ranks
  <2>4. h \in DownMessages
    BY <2>1, <2>3 DEF DownMessages
  <2>5. Covers(h) \subseteq me + 1 .. ub - 1
    BY <1>1, <2>1, <2>2 DEF Covers
  <2> QED
    BY <2>1, <2>2, <2>4, <2>5
<1>4. \A z \in me + 1 .. ub - 1 : \E h \in H : z \in Covers(h)
  BY <1>2 DEF HalvesRight
<1>5. \A h1, h2 \in H : Covers(h1) \cap Covers(h2) # {} => h1 = h2
  BY <1>2 DEF HalvesRight
<1> QED
  BY <1>3, <1>4, <1>5 DEF HalvesCovers

(* The root draws the result and sends it down.                            *)
Drawn(cs, crx, dn, q, g, x, cs1, crx1, dn1) ==
  /\ cs1 = [cs EXCEPT ![0][1] = IF q THEN "quiesced" ELSE "non_quiesced"]
  /\ crx1 = [crx EXCEPT ![0][1] = x]
  /\ dn1 = dn \cup Halves(0, N, q, g, x)

(* The next collective, open before anyone has begun it.                   *)
Opened(ep, rd, e, d, q, g, cs1, crx1, dn1) ==
  /\ StatusTypes(cs1, ep, rd, dn1)
  /\ crx1 \in [Ranks -> [0 .. 1 -> Nat]]
  /\ CollOK(cs1, crx1, ep, rd, dn1, Entering(e, q), 1 - d)
  /\ Contrib(cs1, dn1) = {}
  /\ \A m \in dn1 : m.gvt = g
  /\ \A r \in Ranks : ep[r] = e

(* The root has all the contributions, and draws the result.               *)
Draws(cs, crx, ep, rd, dn, e, d, q, g, x, cs1, crx1, dn1) ==
  /\ crx \in [Ranks -> [0 .. 1 -> Nat]] /\ StatusTypes(cs, ep, rd, dn)
  /\ e \in Epochs /\ d \in {0, 1} /\ CollOK(cs, crx, ep, rd, dn, e, d)
  /\ Contrib(cs, dn) = Ranks
  /\ q \in BOOLEAN /\ g \in Time /\ x \in Nat /\ x = N * d
  /\ Drawn(cs, crx, dn, q, g, x, cs1, crx1, dn1)

(* The result of the open collective opens the next one.                   *)
LEMMA CollConclude ==
  ASSUME NEW cs, NEW crx, NEW ep, NEW rd, NEW dn, NEW e, NEW d, NEW q, NEW g, NEW x,
         NEW cs1, NEW crx1, NEW dn1,
         Draws(cs, crx, ep, rd, dn, e, d, q, g, x, cs1, crx1, dn1)
  PROVE  Opened(ep, rd, e, d, q, g, cs1, crx1, dn1)
<1>0. /\ crx \in [Ranks -> [0 .. 1 -> Nat]] /\ StatusTypes(cs, ep, rd, dn)
      /\ e \in Epochs /\ d \in {0, 1} /\ CollOK(cs, crx, ep, rd, dn, e, d)
      /\ Contrib(cs, dn) = Ranks
      /\ q \in BOOLEAN /\ g \in Time /\ x \in Nat
      /\ Drawn(cs, crx, dn, q, g, x, cs1, crx1, dn1)
  BY DEF Draws
<1> USE <1>0
<1>1. dn = {}
  BY NoneOnItsWay
<1>2. N \in Nat \ {0} /\ 0 \in Ranks /\ \A r \in Ranks : r < N /\ r \in Nat
  BY RanksAreNumbers
<1>3. x \in Nat /\ x = N * d
  BY DEF Draws
<1>4. N \in 0 + 1 .. N
  BY <1>2
<1> DEFINE H == Halves(0, N, q, g, x)
<1>5. /\ H \subseteq DownMessages
      /\ \A h \in H : /\ (h.toUb < 0) = q /\ h.gvt = g /\ h.rxs = x
                      /\ h.dst < Above(h) /\ Above(h) <= N
                      /\ Covers(h) \subseteq 0 + 1 .. N - 1
      /\ UNION {Covers(h) : h \in H} = 0 + 1 .. N - 1
      /\ \A h1, h2 \in H : Covers(h1) \cap Covers(h2) # {} => h1 = h2
  <2>1. HalvesCovers(0, N, q, g, x, H)
    BY <1>2, <1>3, <1>4, HalvesCover
  <2> QED
    BY <2>1 DEF HalvesCovers
<1> HIDE DEF H
<1>6. dn1 = H
  BY <1>1 DEF H, Drawn
<1>7. 0 + 1 .. N - 1 = Ranks \ {0}
  BY <1>2 DEF Ranks
<1>8. \A r \in Ranks : cs[r][0] = "reducing" /\ cs[r][1] = "reducing" /\ ep[r] = e /\ rd[r] = d
  BY DEF CollOK, Contrib
<1>9. /\ cs1[0][0] = "reducing" /\ cs1[0][1] = IF q THEN "quiesced" ELSE "non_quiesced"
      /\ \A r \in Ranks \ {0} : cs1[r] = cs[r]
  BY <1>2, <1>8 DEF StatusTypes, Drawn
<1>10. crx1[0][1] = x /\ crx1 \in [Ranks -> [0 .. 1 -> Nat]]
  BY <1>2, <1>3 DEF Drawn
<1>11. StatusTypes(cs1, ep, rd, dn1)
  <2>1. cs1 \in [Ranks -> [0 .. 1 -> Status]]
    BY DEF StatusTypes, Status, Drawn
  <2> QED
    BY <1>5, <1>6, <2>1 DEF StatusTypes
<1>12. Contrib(cs1, dn1) = {}
  BY <1>5, <1>6, <1>7, <1>9 DEF Contrib
<1>13. 1 - (1 - d) = d
  OBVIOUS
<1>14. ASSUME NEW m \in dn1
       PROVE  /\ m.dst < Above(m) /\ Above(m) <= N
              /\ m.rxs = N * (1 - (1 - d))
              /\ \A n \in dn1 : Covers(m) \cap Covers(n) # {} => m = n
              /\ \A r \in Covers(m) :
                   /\ cs1[r][0] = "reducing" /\ cs1[r][1] = "reducing"
                   /\ Entering(ep[r], m.toUb < 0) = Entering(e, q)
                   /\ rd[r] = 1 - (1 - d)
  <2>1. m \in H /\ (m.toUb < 0) = q /\ m.rxs = x
    BY <1>5, <1>6
  <2>2. Covers(m) \subseteq Ranks \ {0}
    BY <1>5, <1>7, <2>1
  <2>3. \A r \in Covers(m) :
          /\ cs1[r][0] = "reducing" /\ cs1[r][1] = "reducing"
          /\ Entering(ep[r], m.toUb < 0) = Entering(e, q)
          /\ rd[r] = 1 - (1 - d)
    BY <1>8, <1>9, <1>13, <2>1, <2>2
  <2> QED
    BY <1>3, <1>5, <1>6, <1>13, <2>1, <2>3
<1>15. ASSUME NEW r \in Ranks, cs1[r][1] # "reducing"
       PROVE  /\ cs1[r][0] \in {"reducing", cs1[r][1]}
              /\ Entering(ep[r], cs1[r][1] = "quiesced") = Entering(e, q)
              /\ rd[r] = 1 - (1 - d)
              /\ crx1[r][1] = N * rd[r]
  <2>1. r = 0
    BY <1>8, <1>9, <1>15
  <2>2. (cs1[0][1] = "quiesced") = q
    BY <1>9
  <2>3. Entering(ep[r], cs1[r][1] = "quiesced") = Entering(e, q)
    BY <1>8, <2>1, <2>2
  <2> QED
    BY <1>3, <1>8, <1>9, <1>10, <1>13, <2>1, <2>3
<1>16. CollOK(cs1, crx1, ep, rd, dn1, Entering(e, q), 1 - d)
  BY <1>12, <1>14, <1>15 DEF CollOK
<1> QED
  BY <1>5, <1>6, <1>8, <1>10, <1>11, <1>12, <1>16 DEF Opened

(* The result reaches rank r and is sent on to the ranks it covers.        *)
LEMMA WithoutFirst ==
  ASSUME NEW a \in Nat, NEW b \in Int
  PROVE  a + 1 .. b - 1 = (a .. b - 1) \ {a}
<1>1. ASSUME NEW z \in Int PROVE z \in a + 1 .. b - 1 <=> z \in a .. b - 1 /\ z # a
  OBVIOUS
<1>2. (a + 1 .. b - 1) \subseteq Int /\ (a .. b - 1) \subseteq Int
  OBVIOUS
<1> QED
  BY <1>1, <1>2

(* Rank r has received the result m, and passes it on.                     *)
Forwarded(cs, crx, dn, m, r, q, cs1, crx1, dn1) ==
  /\ m \in dn /\ r = m.dst /\ q \in BOOLEAN /\ (q <=> m.toUb < 0)
  /\ cs1 = [cs EXCEPT ![r][1] = IF q THEN "quiesced" ELSE "non_quiesced"]
  /\ crx1 = [crx EXCEPT ![r][1] = m.rxs]
  /\ dn1 = (dn \ {m}) \cup Halves(r, Marked(m.toUb, q), q, m.gvt, m.rxs)

(* The status of the ranks then.                                           *)
Delivered(cs, ep, rd, dn, e, d, m, q, cs1, crx1, dn1) ==
  /\ StatusTypes(cs1, ep, rd, dn1)
  /\ crx1 \in [Ranks -> [0 .. 1 -> Nat]]
  /\ CollOK(cs1, crx1, ep, rd, dn1, e, d)
  /\ Contrib(cs1, dn1) = Contrib(cs, dn)
  /\ \A n \in dn1 : n \in dn \/ (n.gvt = m.gvt /\ (n.toUb < 0) = q)
  /\ UNION {Covers(n) : n \in dn1} = (UNION {Covers(n) : n \in dn}) \ {m.dst}

(* rdxn_down on a rank keeps CollOK: the messages it sends cover what the  *)
(* message covered, but itself.                                            *)
LEMMA CollDeliver ==
  ASSUME NEW cs, NEW crx \in [Ranks -> [0 .. 1 -> Nat]], NEW ep, NEW rd, NEW dn,
         StatusTypes(cs, ep, rd, dn),
         NEW e \in Epochs, NEW d \in {0, 1}, CollOK(cs, crx, ep, rd, dn, e, d),
         NEW m, NEW r, NEW q, NEW cs1, NEW crx1, NEW dn1,
         Forwarded(cs, crx, dn, m, r, q, cs1, crx1, dn1)
  PROVE  Delivered(cs, ep, rd, dn, e, d, m, q, cs1, crx1, dn1)
<1>0. /\ m \in dn /\ r = m.dst /\ q \in BOOLEAN /\ (q <=> m.toUb < 0)
      /\ cs1 = [cs EXCEPT ![r][1] = IF q THEN "quiesced" ELSE "non_quiesced"]
      /\ crx1 = [crx EXCEPT ![r][1] = m.rxs]
      /\ dn1 = (dn \ {m}) \cup Halves(r, Marked(m.toUb, q), q, m.gvt, m.rxs)
  BY DEF Forwarded, Delivered
<1> USE <1>0
<1>1. /\ m \in DownMessages /\ m.dst < Above(m) /\ Above(m) <= N
      /\ m.rxs = N * (1 - d)
      /\ \A n \in dn : Covers(m) \cap Covers(n) # {} => m = n
      /\ \A z \in Covers(m) : /\ cs[z][0] = "reducing" /\ cs[z][1] = "reducing"
                              /\ Entering(ep[z], m.toUb < 0) = e
                              /\ rd[z] = 1 - d
  BY DEF CollOK, StatusTypes
<1>2. Covers(m) \subseteq Ranks \ {0} /\ r \in Covers(m)
  BY <1>1, CoversAreRanks
<1>3. q \in BOOLEAN /\ m.gvt \in Time /\ m.rxs \in Nat /\ m.toUb \in Int
  BY <1>1 DEF DownMessages
<1>4. r \in Ranks /\ r \in Nat /\ N \in Nat
  BY <1>2, RanksAreNumbers
<1> DEFINE ub == Marked(m.toUb, q)
           H == Halves(r, ub, q, m.gvt, m.rxs)
<1>5. ub = Above(m) /\ ub \in Int
  <2>0. q <=> m.toUb < 0
    OBVIOUS
  <2>1. CASE q
    BY <1>3, <2>0, <2>1 DEF Above, Marked
  <2>2. CASE ~q
    BY <1>3, <2>0, <2>2 DEF Above, Marked
  <2> QED
    BY <1>3, <2>1, <2>2
<1>6. ub \in r + 1 .. N
  BY <1>1, <1>4, <1>5
<1>7. Covers(m) = r .. ub - 1
  BY <1>5 DEF Covers
<1> HIDE DEF ub
<1>8. /\ H \subseteq DownMessages
      /\ \A h \in H : /\ (h.toUb < 0) = q /\ h.gvt = m.gvt /\ h.rxs = m.rxs
                      /\ h.dst < Above(h) /\ Above(h) <= N
                      /\ Covers(h) \subseteq r + 1 .. ub - 1
      /\ UNION {Covers(h) : h \in H} = r + 1 .. ub - 1
      /\ \A h1, h2 \in H : Covers(h1) \cap Covers(h2) # {} => h1 = h2
  <2> DEFINE g == m.gvt  x == m.rxs
  <2>1. g \in Time /\ x \in Nat /\ H = Halves(r, ub, q, g, x)
    BY <1>3
  <2> HIDE DEF H, g, x
  <2>2. HalvesCovers(r, ub, q, g, x, H)
    BY <1>3, <1>4, <1>6, <2>1, HalvesCover
  <2> QED
    BY <2>2 DEF HalvesCovers, g, x
<1>9. dn1 = (dn \ {m}) \cup H
  BY DEF ub
<1> HIDE DEF H
<1>10. r + 1 .. ub - 1 = Covers(m) \ {r}
  BY <1>4, <1>5, <1>7, WithoutFirst
<1>11. /\ cs1[r][0] = "reducing" /\ cs1[r][1] = IF q THEN "quiesced" ELSE "non_quiesced"
       /\ \A z \in Ranks \ {r} : cs1[z] = cs[z]
  BY <1>1, <1>2, <1>4 DEF StatusTypes
<1>12. /\ crx1[r][1] = m.rxs /\ crx1 \in [Ranks -> [0 .. 1 -> Nat]]
       /\ \A z \in Ranks \ {r} : crx1[z] = crx[z]
  BY <1>3, <1>4
<1>13. StatusTypes(cs1, ep, rd, dn1)
  <2>1. cs1 \in [Ranks -> [0 .. 1 -> Status]]
    BY DEF StatusTypes, Status
  <2> QED
    BY <1>8, <1>9, <2>1 DEF StatusTypes
<1>14. \A n \in dn : n # m => Covers(n) \cap Covers(m) = {}
  BY <1>1
<1>15. UNION {Covers(n) : n \in dn1} = (UNION {Covers(n) : n \in dn}) \ {r}
  <2>1. \A n \in dn1 : Covers(n) \subseteq (UNION {Covers(k) : k \in dn}) \ {r}
    <3> SUFFICES ASSUME NEW n \in dn1
                 PROVE  Covers(n) \subseteq (UNION {Covers(k) : k \in dn}) \ {r}
      OBVIOUS
    <3>1. CASE n \in H
      BY <1>8, <1>10, <3>1
    <3>2. CASE n \in dn \ {m}
      BY <1>2, <1>14, <3>2
    <3> QED
      BY <1>9, <3>1, <3>2
  <2>2. ASSUME NEW k \in dn, NEW z \in Covers(k), z # r
        PROVE  \E n \in dn1 : z \in Covers(n)
    <3>1. CASE k = m
      <4>1. z \in UNION {Covers(h) : h \in H}
        BY <1>8, <1>10, <2>2, <3>1
      <4> QED
        BY <1>9, <4>1
    <3>2. CASE k # m
      BY <1>9, <3>2
    <3> QED
      BY <3>1, <3>2
  <2> QED
    BY <2>1, <2>2
<1>16. Contrib(cs1, dn1) = Contrib(cs, dn)
  <2>1. r \notin Contrib(cs1, dn1) /\ r \notin Contrib(cs, dn)
    BY <1>2, <1>11 DEF Contrib
  <2>2. ASSUME NEW z \in Ranks \ {r} PROVE z \in Contrib(cs1, dn1) <=> z \in Contrib(cs, dn)
    <3>1. z \in UNION {Covers(n) : n \in dn1} <=> z \in UNION {Covers(n) : n \in dn}
      BY <1>15
    <3>2. cs1[z] = cs[z]
      BY <1>11
    <3> QED
      BY <3>1, <3>2 DEF Contrib
  <2>3. Contrib(cs1, dn1) \subseteq Ranks /\ Contrib(cs, dn) \subseteq Ranks
    BY DEF Contrib
  <2> DEFINE A == Contrib(cs1, dn1)  B == Contrib(cs, dn)
  <2> HIDE DEF A, B
  <2>4. \A z : z \in A <=> z \in B
    BY <2>1, <2>2, <2>3 DEF A, B
  <2> QED
    BY <2>4 DEF A, B
<1>17. ASSUME NEW n \in dn1
       PROVE  /\ n.dst < Above(n) /\ Above(n) <= N
              /\ n.rxs = N * (1 - d)
              /\ \A k \in dn1 : Covers(n) \cap Covers(k) # {} => n = k
              /\ \A z \in Covers(n) :
                   /\ cs1[z][0] = "reducing" /\ cs1[z][1] = "reducing"
                   /\ Entering(ep[z], n.toUb < 0) = e
                   /\ rd[z] = 1 - d
  <2>1. CASE n \in H
    <3>1. Covers(n) \subseteq Covers(m) \ {r}
      BY <1>8, <1>10, <2>1
    <3>2. \A z \in Covers(n) : cs1[z] = cs[z]
      BY <1>2, <1>11, <3>1
    <3>3. \A k \in dn1 : Covers(n) \cap Covers(k) # {} => n = k
      <4> SUFFICES ASSUME NEW k \in dn1, Covers(n) \cap Covers(k) # {} PROVE n = k
        OBVIOUS
      <4>1. k \in H
        BY <1>9, <1>14, <3>1
      <4> QED
        BY <1>8, <2>1, <4>1
    <3>4. (n.toUb < 0) = (m.toUb < 0)
      BY <1>8, <2>1
    <3>5. n.dst < Above(n) /\ Above(n) <= N /\ n.rxs = N * (1 - d)
      BY <1>1, <1>8, <2>1
    <3> QED
      BY <1>1, <3>1, <3>2, <3>3, <3>4, <3>5
  <2>2. CASE n \in dn \ {m}
    <3>1. /\ n.dst < Above(n) /\ Above(n) <= N
          /\ n.rxs = N * (1 - d)
          /\ \A k \in dn : Covers(n) \cap Covers(k) # {} => n = k
          /\ \A z \in Covers(n) :
               /\ cs[z][0] = "reducing" /\ cs[z][1] = "reducing"
               /\ Entering(ep[z], n.toUb < 0) = e
               /\ rd[z] = 1 - d
      BY <2>2 DEF CollOK
    <3>2. n \in DownMessages
      BY <2>2 DEF StatusTypes
    <3>3. Covers(n) \subseteq Ranks
      BY <3>1, <3>2, CoversAreRanks
    <3>4. Covers(n) \cap Covers(m) = {}
      BY <1>14, <2>2
    <3>5. \A z \in Covers(n) : cs1[z] = cs[z]
      BY <1>2, <1>11, <3>3, <3>4
    <3>6. \A k \in dn1 : Covers(n) \cap Covers(k) # {} => n = k
      <4> SUFFICES ASSUME NEW k \in dn1, Covers(n) \cap Covers(k) # {} PROVE n = k
        OBVIOUS
      <4>1. k \notin H
        BY <1>8, <1>10, <3>4
      <4> QED
        BY <1>9, <3>1, <4>1
    <3> QED
      BY <3>1, <3>5, <3>6
  <2> QED
    BY <1>9, <2>1, <2>2
<1>18. \A z \in Contrib(cs1, dn1) : cs1[z][0] = "reducing" /\ ep[z] = e /\ rd[z] = d
  <2> SUFFICES ASSUME NEW z \in Contrib(cs1, dn1)
               PROVE  cs1[z][0] = "reducing" /\ ep[z] = e /\ rd[z] = d
    OBVIOUS
  <2>1. cs[z][0] = "reducing" /\ ep[z] = e /\ rd[z] = d /\ z \in Ranks
    BY <1>16 DEF CollOK, Contrib
  <2> QED
    BY <1>11, <2>1
<1>19. ASSUME NEW z \in Ranks, cs1[z][1] # "reducing"
       PROVE  /\ cs1[z][0] \in {"reducing", cs1[z][1]}
              /\ Entering(ep[z], cs1[z][1] = "quiesced") = e
              /\ rd[z] = 1 - d
              /\ crx1[z][1] = N * rd[z]
  <2>1. CASE z = r
    <3>1. cs1[r][1] = "quiesced" <=> q
      BY <1>3, <1>11
    <3>2. Entering(ep[r], cs1[r][1] = "quiesced") = e /\ rd[r] = 1 - d
      BY <1>1, <1>2, <3>1 DEF Entering
    <3> QED
      BY <1>1, <1>11, <1>12, <2>1, <3>2
  <2>2. CASE z # r
    <3>1. cs1[z] = cs[z] /\ crx1[z] = crx[z]
      BY <1>11, <1>12, <2>2
    <3> QED
      BY <1>19, <3>1 DEF CollOK
  <2> QED
    BY <2>1, <2>2
<1>20. CollOK(cs1, crx1, ep, rd, dn1, e, d)
  BY <1>17, <1>18, <1>19 DEF CollOK
<1>21. \A n \in dn1 : n \in dn \/ (n.gvt = m.gvt /\ (n.toUb < 0) = q)
  BY <1>8, <1>9
<1> QED
  BY <1>12, <1>13, <1>15, <1>16, <1>20, <1>21 DEF Delivered

(* Rank r sees the last result.                                            *)
Seen(cs, crx, r, cs1, crx1) ==
  /\ cs1 = [cs EXCEPT ![r][0] = cs[r][1]]
  /\ crx1 = [crx EXCEPT ![r][0] = crx[r][1]]

(* The status of the ranks when a client has seen the result.              *)
Unmoved(cs, ep, rd, dn, e, d, cs1, crx1) ==
  /\ StatusTypes(cs1, ep, rd, dn)
  /\ crx1 \in [Ranks -> [0 .. 1 -> Nat]]
  /\ CollOK(cs1, crx1, ep, rd, dn, e, d)
  /\ Contrib(cs1, dn) = Contrib(cs, dn)

(* advance() keeps CollOK: no one has begun who had not.                   *)
LEMMA CollAdvance ==
  ASSUME NEW cs, NEW crx \in [Ranks -> [0 .. 1 -> Nat]], NEW ep, NEW rd, NEW dn,
         StatusTypes(cs, ep, rd, dn),
         NEW e, NEW d, CollOK(cs, crx, ep, rd, dn, e, d), NEW r \in Ranks,
         NEW cs1, NEW crx1, Seen(cs, crx, r, cs1, crx1)
  PROVE  Unmoved(cs, ep, rd, dn, e, d, cs1, crx1)
<1>0. /\ cs1 = [cs EXCEPT ![r][0] = cs[r][1]]
      /\ crx1 = [crx EXCEPT ![r][0] = crx[r][1]]
  BY DEF Seen, Unmoved
<1> USE <1>0
<1>1. /\ \A z \in Ranks : cs1[z][1] = cs[z][1]
      /\ \A z \in Ranks : cs1[z][0] = IF z = r THEN cs[z][1] ELSE cs[z][0]
  BY DEF StatusTypes
<1>2. crx1 \in [Ranks -> [0 .. 1 -> Nat]] /\ \A z \in Ranks : crx1[z][1] = crx[z][1]
  OBVIOUS
<1>3. StatusTypes(cs1, ep, rd, dn)
  BY DEF StatusTypes
<1>4. Contrib(cs1, dn) = Contrib(cs, dn)
  BY <1>1 DEF Contrib
<1>5. ASSUME NEW m \in dn
      PROVE  /\ m.dst < Above(m) /\ Above(m) <= N
             /\ m.rxs = N * (1 - d)
             /\ \A n \in dn : Covers(m) \cap Covers(n) # {} => m = n
             /\ \A z \in Covers(m) :
                  /\ cs1[z][0] = "reducing" /\ cs1[z][1] = "reducing"
                  /\ Entering(ep[z], m.toUb < 0) = e
                  /\ rd[z] = 1 - d
  <2>1. m \in DownMessages /\ m.dst < Above(m) /\ Above(m) <= N
    BY DEF CollOK, StatusTypes
  <2>2. Covers(m) \subseteq Ranks
    BY <2>1, CoversAreRanks
  <2> QED
    BY <1>1, <2>2 DEF CollOK
<1>6. \A z \in Contrib(cs1, dn) : cs1[z][0] = "reducing" /\ ep[z] = e /\ rd[z] = d
  <2> SUFFICES ASSUME NEW z \in Contrib(cs1, dn)
               PROVE  cs1[z][0] = "reducing" /\ ep[z] = e /\ rd[z] = d
    OBVIOUS
  <2>1. z \in Ranks /\ cs[z][1] = "reducing"
    BY <1>4 DEF Contrib
  <2>2. cs[z][0] = "reducing" /\ ep[z] = e /\ rd[z] = d
    BY <1>4 DEF CollOK
  <2> QED
    BY <1>1, <2>1, <2>2
<1>7. ASSUME NEW z \in Ranks, cs1[z][1] # "reducing"
      PROVE  /\ cs1[z][0] \in {"reducing", cs1[z][1]}
             /\ Entering(ep[z], cs1[z][1] = "quiesced") = e
             /\ rd[z] = 1 - d
             /\ crx1[z][1] = N * rd[z]
  BY <1>1, <1>2, <1>7 DEF CollOK
<1>8. CollOK(cs1, crx1, ep, rd, dn, e, d)
  BY <1>5, <1>6, <1>7 DEF CollOK
<1> QED
  BY <1>2, <1>3, <1>4, <1>8 DEF Unmoved

-----------------------------------------------------------------------------
(* Every rank is in the epoch of the open collective or the one before.    *)
Near(ep, e) == \A q \in Ranks : ep[q] \in Epochs /\ (ep[q] = e \/ NextEpoch(ep[q]) = e)

(* Every rank is in the epoch of the open collective or in the one before. *)
LEMMA CollNear ==
  ASSUME NEW cs, NEW crx, NEW ep, NEW rd, NEW dn, StatusTypes(cs, ep, rd, dn),
         NEW e, NEW d, CollOK(cs, crx, ep, rd, dn, e, d)
  PROVE  Near(ep, e)
<1> SUFFICES ASSUME NEW q \in Ranks PROVE ep[q] \in Epochs /\ (ep[q] = e \/ NextEpoch(ep[q]) = e)
  BY DEF Near
<1>1. ep[q] \in Epochs
  BY DEF StatusTypes
<1>2. CASE q \in Contrib(cs, dn)
  BY <1>1, <1>2 DEF CollOK
<1>3. CASE cs[q][1] # "reducing"
  BY <1>1, <1>3 DEF CollOK, Entering
<1>4. CASE \E m \in dn : q \in Covers(m)
  BY <1>1, <1>4 DEF CollOK, Entering
<1> QED
  BY <1>2, <1>3, <1>4 DEF Contrib

(* Three epochs in a row differ, for there are at least eight.             *)
LEMMA EpochsDiffer ==
  ASSUME NEW a \in Epochs, NEW b \in Epochs
  PROVE  /\ NextEpoch(a) # a /\ NextEpoch(NextEpoch(a)) # a
         /\ NextEpoch(NextEpoch(a)) # NextEpoch(a)
         /\ NextEpoch(a) = NextEpoch(b) => a = b
<1>1. /\ NextEpoch(a) \in Epochs /\ NextEpoch(b) \in Epochs /\ NextEpoch(NextEpoch(a)) \in Epochs
      /\ NextEpoch(a) = IF a = EpochMod - 1 THEN 0 ELSE a + 1
      /\ NextEpoch(b) = IF b = EpochMod - 1 THEN 0 ELSE b + 1
      /\ NextEpoch(NextEpoch(a)) =
           IF NextEpoch(a) = EpochMod - 1 THEN 0 ELSE NextEpoch(a) + 1
  BY EpochsAreNumbers
<1>2. EpochMod \in Nat /\ EpochMod >= 8
  BY EpochsAreNumbers
<1> QED
  BY <1>1, <1>2 DEF Epochs

(* The index into the three counters, with numbers that wrap.              *)
LEMMA Window ==
  ASSUME NEW a \in Epochs, NEW e \in Epochs, a = e \/ NextEpoch(a) = e
  PROVE  /\ RecvIndex(e, a) = IF a = e THEN 0 ELSE 1
         /\ RecvIndex(NextEpoch(e), a) = IF a = e THEN 1 ELSE 2
<1> DEFINE h == EpochMod \div 2  n == NextEpoch(e)
<1>1. EpochMod \in Nat /\ EpochMod >= 8 /\ h \in Nat /\ h >= 4 /\ h <= EpochMod - 4
  BY EpochsAreNumbers
<1>2. n \in Epochs /\ n = IF e = EpochMod - 1 THEN 0 ELSE e + 1
  BY EpochsAreNumbers
<1>3. NextEpoch(a) = IF a = EpochMod - 1 THEN 0 ELSE a + 1
  BY EpochsAreNumbers
<1>4. \A u : ToInt(u) = IF u >= h THEN u - EpochMod ELSE u
  BY DEF ToInt
<1>5. a \in Nat /\ e \in Nat /\ n \in Nat /\ a < EpochMod /\ e < EpochMod
  BY <1>2, EpochsAreNumbers DEF Epochs
<1> HIDE DEF h, n
<1>6. RecvIndex(e, a) = IF a = e THEN 0 ELSE 1
  BY <1>1, <1>2, <1>3, <1>4, <1>5 DEF RecvIndex
<1>7. RecvIndex(n, a) = IF a = e THEN 1 ELSE 2
  BY <1>1, <1>2, <1>3, <1>4, <1>5 DEF RecvIndex
<1> QED
  BY <1>6, <1>7 DEF n

-----------------------------------------------------------------------------
(* Sets of events are finite.                                              *)
LEMMA EventSetFinite == \A S \in SUBSET Events : IsFiniteSet(S) /\ Cardinality(S) \in Nat
BY ConstantsAssumption, FS_Subset, FS_CardinalityType

(* The counters as functions of the rank: one grows by n at r.             *)
Numbers(f) == \A q \in Ranks : f[q] \in Nat

Grows(f, f1, r, n) == (\A q \in Ranks \ {r} : f1[q] = f[q]) /\ f1[r] = f[r] + n

(* Then the sum grows by n.                                                *)
LEMMA SumGrows ==
  ASSUME NEW f, NEW f1, Numbers(f), Numbers(f1), NEW r \in Ranks, NEW n \in Nat,
         Grows(f, f1, r, n)
  PROVE  /\ SumOf(f1, Ranks) = SumOf(f, Ranks) + n
         /\ SumOf(f, Ranks) \in Nat /\ SumOf(f1, Ranks) \in Nat
<1>1. \A q \in Ranks : f[q] \in Nat /\ f1[q] \in Nat
  BY DEF Numbers
<1>2. (\A q \in Ranks \ {r} : f1[q] = f[q]) /\ f1[r] = f[r] + n /\ n \in Int
  BY DEF Grows
<1>3. IsFiniteSet(Ranks)
  BY RanksFinite
<1>4. SumOf(f1, Ranks) = SumOf(f, Ranks) + n
  BY <1>1, <1>2, <1>3, SumChange
<1>5. SumOf(f, Ranks) \in Nat /\ SumOf(f1, Ranks) \in Nat
  BY <1>1, <1>3, SumType
<1> QED
  BY <1>4, <1>5

(* As many messages counted by f as by g and under way.                    *)
Balanced(f, g, U) == SumOf(f, Ranks) = SumOf(g, Ranks) + Cardinality(U)

(* The balance is kept when messages are sent,                             *)
LEMMA BalanceSent ==
  ASSUME NEW f, NEW f1, NEW g, Numbers(f), Numbers(f1), Numbers(g),
         NEW U \in SUBSET Events, NEW news \in SUBSET Events, U \cap news = {},
         Balanced(f, g, U), NEW r \in Ranks, Grows(f, f1, r, Cardinality(news))
  PROVE  Balanced(f1, g, U \cup news)
<1>1. /\ Cardinality(news) \in Nat /\ Cardinality(U) \in Nat
      /\ IsFiniteSet(U) /\ IsFiniteSet(news)
  BY EventSetFinite
<1>2. SumOf(f1, Ranks) = SumOf(f, Ranks) + Cardinality(news) /\ SumOf(f, Ranks) \in Nat
  BY <1>1, SumGrows
<1>3. Cardinality(U \cup news) = Cardinality(U) + Cardinality(news)
  <2>1. Cardinality(U \cup news) = Cardinality(U) + Cardinality(news) - Cardinality(U \cap news)
    BY <1>1, FS_Union
  <2>2. Cardinality(U \cap news) = 0
    BY FS_EmptySet
  <2> QED
    BY <1>1, <2>1, <2>2
<1>4. SumOf(g, Ranks) \in Nat
  BY RanksFinite, SumType DEF Numbers
<1> QED
  BY <1>1, <1>2, <1>3, <1>4 DEF Balanced

(* when one is received,                                                   *)
LEMMA BalanceReceived ==
  ASSUME NEW f, NEW g, NEW g1, Numbers(f), Numbers(g), Numbers(g1),
         NEW U \in SUBSET Events, NEW k \in U,
         Balanced(f, g, U), NEW r \in Ranks, Grows(g, g1, r, 1)
  PROVE  Balanced(f, g1, U \ {k})
<1>1. Cardinality(U) \in Nat /\ IsFiniteSet(U)
  BY EventSetFinite
<1>2. SumOf(g1, Ranks) = SumOf(g, Ranks) + 1 /\ SumOf(g, Ranks) \in Nat
  BY SumGrows
<1>3. Cardinality(U \ {k}) = Cardinality(U) - 1
  BY <1>1, FS_RemoveElement
<1>4. SumOf(f, Ranks) \in Nat
  BY RanksFinite, SumType DEF Numbers
<1> QED
  BY <1>1, <1>2, <1>3, <1>4 DEF Balanced

(* and when no counter changes.                                            *)
LEMMA BalanceSame ==
  ASSUME NEW f, NEW f1, NEW g, NEW g1, NEW U, Balanced(f, g, U),
         \A q \in Ranks : f1[q] = f[q] /\ g1[q] = g[q]
  PROVE  Balanced(f1, g1, U)
<1>1. SumOf(f, Ranks) = SumOf(f1, Ranks) /\ SumOf(g, Ranks) = SumOf(g1, Ranks)
  BY SumAgree
<1> QED
  BY <1>1 DEF Balanced

(* CountOK is two balances.                                                *)
LEMMA CountBalance ==
  ASSUME NEW ep, NEW ls, NEW lr, NEW ev, NEW e
  PROVE  CountOK(ep, ls, lr, ev, e) <=>
           /\ Balanced(Sent(ep, ls, e), Rcvd(ep, lr, e), UnderWay(ev, e))
           /\ Balanced(SentNext(ep, ls, e), RcvdNext(ep, lr, e), UnderWay(ev, NextEpoch(e)))
           /\ \A r \in Ranks : ep[r] = e => lr[r][2] = 0
BY DEF CountOK, Balanced

(* The types of what CountOK is about.                                     *)
MessageTypes(ep, ls, lr, ev) ==
  /\ ep \in [Ranks -> Epochs]
  /\ ls \in [Ranks -> [0 .. 1 -> Nat]] /\ lr \in [Ranks -> [0 .. 2 -> Nat]]
  /\ ev \in [Events -> EventStates]

(* The counters are numbers.                                               *)
LEMMA CountersAreNumbers ==
  ASSUME NEW ep, NEW ls, NEW lr, NEW ev, MessageTypes(ep, ls, lr, ev), NEW e
  PROVE  /\ \A q \in Ranks : /\ Sent(ep, ls, e)[q] \in Nat /\ SentNext(ep, ls, e)[q] \in Nat
                             /\ Rcvd(ep, lr, e)[q] \in Nat /\ RcvdNext(ep, lr, e)[q] \in Nat
         /\ \A q \in Ranks : /\ ls[q][0] \in Nat /\ ls[q][1] \in Nat
                             /\ lr[q][0] \in Nat /\ lr[q][1] \in Nat /\ lr[q][2] \in Nat
         /\ \A t : UnderWay(ev, t) \in SUBSET Events
<1>1. \A q \in Ranks : /\ ls[q][0] \in Nat /\ ls[q][1] \in Nat
                       /\ lr[q][0] \in Nat /\ lr[q][1] \in Nat /\ lr[q][2] \in Nat
  BY DEF MessageTypes
<1> QED
  BY <1>1 DEF Sent, SentNext, Rcvd, RcvdNext, UnderWay, InNetwork

-----------------------------------------------------------------------------
(* gvt::send of rank r: what it changes in the counters.                   *)
CountsSent(ep, ls, ev, r, news, ls1, ev1) ==
  /\ news \in SUBSET Events /\ \A k \in news : ev[k].place = "unused"
  /\ ls1 = [ls EXCEPT ![r][1] = @ + Cardinality(news)]
  /\ \A k \in news : ev1[k].place = "net" /\ ev1[k].tag = NextEpoch(ep[r])
  /\ \A k \in Events \ news : ev1[k] = ev[k]

(* gvt::send keeps CountOK.                                                *)
LEMMA CountSend ==
  ASSUME NEW ep, NEW ls, NEW lr, NEW ev, MessageTypes(ep, ls, lr, ev),
         NEW e \in Epochs, Near(ep, e), CountOK(ep, ls, lr, ev, e),
         NEW r \in Ranks, NEW news, NEW ls1, NEW ev1 \in [Events -> EventStates],
         CountsSent(ep, ls, ev, r, news, ls1, ev1)
  PROVE  ls1 \in [Ranks -> [0 .. 1 -> Nat]] /\ CountOK(ep, ls1, lr, ev1, e)
<1>0. /\ news \in SUBSET Events /\ \A k \in news : ev[k].place = "unused"
      /\ ls1 = [ls EXCEPT ![r][1] = @ + Cardinality(news)]
      /\ \A k \in news : ev1[k].place = "net" /\ ev1[k].tag = NextEpoch(ep[r])
      /\ \A k \in Events \ news : ev1[k] = ev[k]
  BY DEF CountsSent
<1> USE <1>0
<1>1. Cardinality(news) \in Nat
  BY EventSetFinite
<1>2. ls1 \in [Ranks -> [0 .. 1 -> Nat]]
  BY <1>1 DEF MessageTypes
<1>3. /\ ls1[r][0] = ls[r][0] /\ ls1[r][1] = ls[r][1] + Cardinality(news)
      /\ \A q \in Ranks \ {r} : ls1[q] = ls[q]
  BY DEF MessageTypes
<1>4. MessageTypes(ep, ls1, lr, ev1)
  BY <1>2 DEF MessageTypes
<1>5. /\ UnderWay(ev1, NextEpoch(ep[r])) = UnderWay(ev, NextEpoch(ep[r])) \cup news
      /\ \A t : UnderWay(ev, t) \cap news = {}
      /\ \A t : t # NextEpoch(ep[r]) => UnderWay(ev1, t) = UnderWay(ev, t)
  BY DEF UnderWay, InNetwork
<1>6. ep[r] \in Epochs /\ (ep[r] = e \/ NextEpoch(ep[r]) = e)
  BY DEF Near
<1>7. NextEpoch(e) # e
  BY EpochsDiffer
<1> DEFINE S == Sent(ep, ls, e)  S1 == Sent(ep, ls1, e)  R == Rcvd(ep, lr, e)
           T == SentNext(ep, ls, e)  T1 == SentNext(ep, ls1, e)  Q == RcvdNext(ep, lr, e)
<1>8. Numbers(S) /\ Numbers(S1) /\ Numbers(R) /\ Numbers(T) /\ Numbers(T1) /\ Numbers(Q)
  BY <1>4, CountersAreNumbers DEF Numbers
<1>9. /\ UnderWay(ev, e) \in SUBSET Events /\ UnderWay(ev, NextEpoch(e)) \in SUBSET Events
  BY CountersAreNumbers
<1>10. /\ Balanced(S, R, UnderWay(ev, e)) /\ Balanced(T, Q, UnderWay(ev, NextEpoch(e)))
       /\ \A q \in Ranks : ep[q] = e => lr[q][2] = 0
  BY CountBalance
<1>11. CASE ep[r] = e
  <2>1. /\ \A q \in Ranks : S1[q] = S[q]
        /\ Grows(T, T1, r, Cardinality(news))
    BY <1>3, <1>11 DEF Sent, SentNext, Grows
  <2> HIDE DEF S, S1, R, T, T1, Q
  <2>2. Balanced(S1, R, UnderWay(ev, e)) /\ UnderWay(ev1, e) = UnderWay(ev, e)
    BY <1>5, <1>7, <1>10, <1>11, <2>1, BalanceSame
  <2>3. Balanced(T1, Q, UnderWay(ev1, NextEpoch(e)))
    BY <1>5, <1>8, <1>9, <1>10, <1>11, <2>1, BalanceSent
  <2> QED
    BY <1>2, <1>10, <2>2, <2>3, CountBalance DEF S1, R, T1, Q
<1>12. CASE ep[r] # e /\ NextEpoch(ep[r]) = e
  <2>1. /\ \A q \in Ranks : T1[q] = T[q]
        /\ Grows(S, S1, r, Cardinality(news))
    BY <1>3, <1>12 DEF Sent, SentNext, Grows
  <2> HIDE DEF S, S1, R, T, T1, Q
  <2>2. /\ Balanced(T1, Q, UnderWay(ev, NextEpoch(e)))
        /\ UnderWay(ev1, NextEpoch(e)) = UnderWay(ev, NextEpoch(e))
    BY <1>5, <1>7, <1>10, <1>12, <2>1, BalanceSame
  <2>3. Balanced(S1, R, UnderWay(ev1, e))
    BY <1>5, <1>8, <1>9, <1>10, <1>12, <2>1, BalanceSent
  <2> QED
    BY <1>2, <1>10, <2>2, <2>3, CountBalance DEF S1, R, T1, Q
<1> QED
  BY <1>6, <1>11, <1>12

(* Message k is received by rank r: what it changes in the counters.       *)
CountsReceived(ep, lr, ev, r, k, lr1, ev1) ==
  /\ k \in InNetwork(ev)
  /\ LET i == RecvIndex(ev[k].tag, ep[r]) IN lr1 = [lr EXCEPT ![r][i] = @ + 1]
  /\ ev1[k].place # "net" /\ \A j \in Events \ {k} : ev1[j] = ev[j]

(* The receipt of a message keeps CountOK, in whichever epoch the receiver *)
(* is.                                                                     *)
LEMMA CountReceive ==
  ASSUME NEW ep, NEW ls, NEW lr, NEW ev, MessageTypes(ep, ls, lr, ev),
         NEW e \in Epochs, Near(ep, e), CountOK(ep, ls, lr, ev, e), TagOK(ev, e),
         NEW r \in Ranks, NEW k, NEW lr1, NEW ev1 \in [Events -> EventStates],
         CountsReceived(ep, lr, ev, r, k, lr1, ev1)
  PROVE  /\ lr1 \in [Ranks -> [0 .. 2 -> Nat]] /\ CountOK(ep, ls, lr1, ev1, e)
         /\ \A q \in Ranks : lr[q][0] <= lr1[q][0]
<1>0. /\ k \in InNetwork(ev)
      /\ lr1 = [lr EXCEPT ![r][RecvIndex(ev[k].tag, ep[r])] = @ + 1]
      /\ ev1[k].place # "net" /\ \A j \in Events \ {k} : ev1[j] = ev[j]
  BY DEF CountsReceived
<1> USE <1>0
<1> DEFINE i == RecvIndex(ev[k].tag, ep[r])
<1>1. ep[r] \in Epochs /\ (ep[r] = e \/ NextEpoch(ep[r]) = e)
  BY DEF Near
<1>2. ev[k].tag \in {e, NextEpoch(e)} /\ NextEpoch(e) # e /\ k \in Events
  BY EpochsDiffer DEF TagOK, InNetwork
<1>3. i = IF ev[k].tag = e THEN (IF ep[r] = e THEN 0 ELSE 1) ELSE (IF ep[r] = e THEN 1 ELSE 2)
  BY <1>1, <1>2, Window
<1>4. i \in 0 .. 2
  BY <1>3
<1> HIDE DEF RecvIndex
<1>5. \A q \in Ranks : lr[q] \in [0 .. 2 -> Nat] /\ lr[q][i] \in Nat
  BY <1>4 DEF MessageTypes
<1>6. /\ lr1[r][i] = lr[r][i] + 1 /\ \A j \in 0 .. 2 : j # i => lr1[r][j] = lr[r][j]
      /\ \A q \in Ranks \ {r} : lr1[q] = lr[q]
  BY <1>4, <1>5 DEF MessageTypes
<1>7. lr1 \in [Ranks -> [0 .. 2 -> Nat]]
  BY <1>4, <1>5 DEF MessageTypes
<1>8. \A q \in Ranks : lr[q][0] <= lr1[q][0]
  <2> SUFFICES ASSUME NEW q \in Ranks PROVE lr[q][0] <= lr1[q][0]
    OBVIOUS
  <2>1. lr[q][0] \in Nat
    BY DEF MessageTypes
  <2>2. lr1[q][0] = lr[q][0] \/ lr1[q][0] = lr[q][0] + 1
    BY <1>4, <1>6
  <2> QED
    BY <2>1, <2>2
<1>9. MessageTypes(ep, ls, lr1, ev1)
  BY <1>7 DEF MessageTypes
<1>10. /\ k \in UnderWay(ev, ev[k].tag)
       /\ UnderWay(ev1, ev[k].tag) = UnderWay(ev, ev[k].tag) \ {k}
       /\ \A t : t # ev[k].tag => UnderWay(ev1, t) = UnderWay(ev, t)
  BY DEF UnderWay, InNetwork
<1> DEFINE S == Sent(ep, ls, e)  R1 == Rcvd(ep, lr1, e)  R == Rcvd(ep, lr, e)
           T == SentNext(ep, ls, e)  Q1 == RcvdNext(ep, lr1, e)  Q == RcvdNext(ep, lr, e)
<1>11. Numbers(S) /\ Numbers(R1) /\ Numbers(R) /\ Numbers(T) /\ Numbers(Q1) /\ Numbers(Q)
  BY <1>9, CountersAreNumbers DEF Numbers
<1>12. /\ UnderWay(ev, e) \in SUBSET Events /\ UnderWay(ev, NextEpoch(e)) \in SUBSET Events
  BY CountersAreNumbers
<1>13. /\ Balanced(S, R, UnderWay(ev, e)) /\ Balanced(T, Q, UnderWay(ev, NextEpoch(e)))
       /\ \A q \in Ranks : ep[q] = e => lr[q][2] = 0
  BY CountBalance
<1>14. \A q \in Ranks : ep[q] = e => lr1[q][2] = 0
  <2> SUFFICES ASSUME NEW q \in Ranks, ep[q] = e PROVE lr1[q][2] = 0
    OBVIOUS
  <2>1. q = r => i # 2
    BY <1>3
  <2> QED
    BY <1>6, <1>13, <2>1
<1>15. CASE ev[k].tag = e
  <2>1. /\ \A q \in Ranks : Q1[q] = Q[q]
        /\ Grows(R, R1, r, 1)
    BY <1>3, <1>6, <1>15 DEF Rcvd, RcvdNext, Grows
  <2> HIDE DEF S, R1, R, T, Q1, Q
  <2>2. /\ Balanced(T, Q1, UnderWay(ev, NextEpoch(e)))
        /\ UnderWay(ev1, NextEpoch(e)) = UnderWay(ev, NextEpoch(e))
    BY <1>2, <1>10, <1>13, <1>15, <2>1, BalanceSame
  <2>3. Balanced(S, R1, UnderWay(ev1, e))
    BY <1>10, <1>11, <1>12, <1>13, <1>15, <2>1, BalanceReceived
  <2> QED
    BY <1>7, <1>8, <1>14, <2>2, <2>3, CountBalance DEF S, R1, T, Q1
<1>16. CASE ev[k].tag = NextEpoch(e)
  <2>1. /\ \A q \in Ranks : R1[q] = R[q]
        /\ Grows(Q, Q1, r, 1)
    BY <1>2, <1>3, <1>6, <1>16 DEF Rcvd, RcvdNext, Grows
  <2> HIDE DEF S, R1, R, T, Q1, Q
  <2>2. Balanced(S, R1, UnderWay(ev, e)) /\ UnderWay(ev1, e) = UnderWay(ev, e)
    BY <1>2, <1>10, <1>13, <1>16, <2>1, BalanceSame
  <2>3. Balanced(T, Q1, UnderWay(ev1, NextEpoch(e)))
    BY <1>10, <1>11, <1>12, <1>13, <1>16, <2>1, BalanceReceived
  <2> QED
    BY <1>7, <1>8, <1>14, <2>2, <2>3, CountBalance DEF S, R1, T, Q1
<1> QED
  BY <1>2, <1>15, <1>16

(* A rank enters the epoch of the open collective: coll_begin shifts.      *)
Shifted(ep, ls, lr, r, e, ep1, ls1, lr1) ==
  /\ ep[r] # e /\ NextEpoch(ep[r]) = e
  /\ ep1 = [ep EXCEPT ![r] = NextEpoch(@)]
  /\ ls1 = [ls EXCEPT ![r] = [i \in 0 .. 1 |-> IF i = 0 THEN @[1] ELSE 0]]
  /\ lr1 = [lr EXCEPT ![r] = [i \in 0 .. 2 |-> IF i < 2 THEN @[i + 1] ELSE 0]]

(* The shift of the counters at the change of epoch keeps CountOK.         *)
LEMMA CountEnter ==
  ASSUME NEW ep, NEW ls, NEW lr, NEW ev, MessageTypes(ep, ls, lr, ev),
         NEW e \in Epochs, CountOK(ep, ls, lr, ev, e),
         NEW r \in Ranks, NEW ep1, NEW ls1, NEW lr1,
         Shifted(ep, ls, lr, r, e, ep1, ls1, lr1)
  PROVE  MessageTypes(ep1, ls1, lr1, ev) /\ CountOK(ep1, ls1, lr1, ev, e)
<1>0. /\ ep[r] # e /\ NextEpoch(ep[r]) = e
      /\ ep1 = [ep EXCEPT ![r] = NextEpoch(@)]
      /\ ls1 = [ls EXCEPT ![r] = [i \in 0 .. 1 |-> IF i = 0 THEN @[1] ELSE 0]]
      /\ lr1 = [lr EXCEPT ![r] = [i \in 0 .. 2 |-> IF i < 2 THEN @[i + 1] ELSE 0]]
  BY DEF Shifted
<1> USE <1>0
<1>1. /\ ep1[r] = e /\ ls1[r][0] = ls[r][1] /\ ls1[r][1] = 0
      /\ lr1[r][0] = lr[r][1] /\ lr1[r][1] = lr[r][2] /\ lr1[r][2] = 0
      /\ \A q \in Ranks \ {r} : ep1[q] = ep[q] /\ ls1[q] = ls[q] /\ lr1[q] = lr[q]
  BY DEF MessageTypes
<1>2. MessageTypes(ep1, ls1, lr1, ev)
  <2>1. \A q \in Ranks : lr[q] \in [0 .. 2 -> Nat] /\ ls[q] \in [0 .. 1 -> Nat]
    BY DEF MessageTypes
  <2>2. [i \in 0 .. 1 |-> IF i = 0 THEN ls[r][1] ELSE 0] \in [0 .. 1 -> Nat]
    BY <2>1
  <2>3. [i \in 0 .. 2 |-> IF i < 2 THEN lr[r][i + 1] ELSE 0] \in [0 .. 2 -> Nat]
    BY <2>1
  <2> QED
    BY <2>2, <2>3 DEF MessageTypes
<1> DEFINE S == Sent(ep, ls, e)  S1 == Sent(ep1, ls1, e)
           R == Rcvd(ep, lr, e)  R1 == Rcvd(ep1, lr1, e)
           T == SentNext(ep, ls, e)  T1 == SentNext(ep1, ls1, e)
           Q == RcvdNext(ep, lr, e)  Q1 == RcvdNext(ep1, lr1, e)
<1>3. \A q \in Ranks : S1[q] = S[q] /\ R1[q] = R[q] /\ T1[q] = T[q] /\ Q1[q] = Q[q]
  BY <1>1 DEF Sent, SentNext, Rcvd, RcvdNext
<1>4. /\ Balanced(S, R, UnderWay(ev, e)) /\ Balanced(T, Q, UnderWay(ev, NextEpoch(e)))
      /\ \A q \in Ranks : ep[q] = e => lr[q][2] = 0
  BY CountBalance
<1>5. \A q \in Ranks : ep1[q] = e => lr1[q][2] = 0
  BY <1>1, <1>4
<1> HIDE DEF S, S1, R, R1, T, T1, Q, Q1
<1>6. Balanced(S1, R1, UnderWay(ev, e)) /\ Balanced(T1, Q1, UnderWay(ev, NextEpoch(e)))
  BY <1>3, <1>4, BalanceSame
<1> QED
  BY <1>2, <1>5, <1>6, CountBalance DEF S1, R1, T1, Q1

(* All the ranks have contributed to the collective of epoch e, and the    *)
(* sums agree: no message of that epoch is under way, and the counters may *)
(* be read as those of the next.                                           *)
LEMMA CountConclude ==
  ASSUME NEW ep, NEW ls, NEW lr, NEW ev, MessageTypes(ep, ls, lr, ev),
         NEW e \in Epochs, CountOK(ep, ls, lr, ev, e), TagOK(ev, e),
         \A q \in Ranks : ep[q] = e,
         SumOf(First(ls), Ranks) <= SumOf(First(lr), Ranks)
  PROVE  /\ UnderWay(ev, e) = {}
         /\ CountOK(ep, ls, lr, ev, NextEpoch(e))
         /\ TagOK(ev, NextEpoch(e))
<1> DEFINE S == Sent(ep, ls, e)  R == Rcvd(ep, lr, e)
           T == SentNext(ep, ls, e)  Q == RcvdNext(ep, lr, e)
           n == NextEpoch(e)
           S1 == Sent(ep, ls, n)  R1 == Rcvd(ep, lr, n)
           T1 == SentNext(ep, ls, n)  Q1 == RcvdNext(ep, lr, n)
<1>1. n \in Epochs /\ n # e /\ NextEpoch(n) # e /\ NextEpoch(n) # n
  BY EpochsDiffer, EpochsAreNumbers
<1>2. /\ Balanced(S, R, UnderWay(ev, e)) /\ Balanced(T, Q, UnderWay(ev, n))
      /\ \A q \in Ranks : ep[q] = e => lr[q][2] = 0
  BY CountBalance
<1>3. \A q \in Ranks : /\ S[q] = First(ls)[q] /\ R[q] = First(lr)[q]
                       /\ S1[q] = T[q] /\ R1[q] = Q[q]
                       /\ T1[q] = 0 /\ Q1[q] = 0
  BY <1>1, <1>2 DEF Sent, Rcvd, SentNext, RcvdNext, First
<1>4. \A q \in Ranks : S[q] \in Nat /\ R[q] \in Nat
  BY CountersAreNumbers
<1>5. UnderWay(ev, e) \in SUBSET Events
  BY CountersAreNumbers
<1> HIDE DEF S, R, T, Q, S1, R1, T1, Q1
<1>6. SumOf(S, Ranks) <= SumOf(R, Ranks) /\ SumOf(R, Ranks) \in Nat
  <2>1. SumOf(S, Ranks) = SumOf(First(ls), Ranks) /\ SumOf(R, Ranks) = SumOf(First(lr), Ranks)
    BY <1>3, SumAgree
  <2>2. SumOf(R, Ranks) \in Nat
    BY <1>4, RanksFinite, SumType
  <2> QED
    BY <2>1, <2>2
<1>7. IsFiniteSet(UnderWay(ev, e)) /\ Cardinality(UnderWay(ev, e)) \in Nat
  BY <1>5, EventSetFinite
<1>8. Cardinality(UnderWay(ev, e)) = 0
  BY <1>2, <1>6, <1>7 DEF Balanced
<1>9. UnderWay(ev, e) = {}
  BY <1>7, <1>8, FS_EmptySet
<1>10. Balanced(S1, R1, UnderWay(ev, n))
  BY <1>2, <1>3, BalanceSame
<1>11. UnderWay(ev, NextEpoch(n)) = {}
  BY <1>1 DEF UnderWay, TagOK, InNetwork
<1>12. Balanced(T1, Q1, UnderWay(ev, NextEpoch(n)))
  <2>1. SumOf(T1, Ranks) = N * 0 /\ SumOf(Q1, Ranks) = N * 0
    BY <1>3, RanksFinite, SumConstant
  <2>2. N * 0 = 0 /\ Cardinality({}) = 0
    BY RanksAreNumbers, FS_EmptySet
  <2> QED
    BY <1>11, <2>1, <2>2 DEF Balanced
<1>13. \A q \in Ranks : ep[q] = n => lr[q][2] = 0
  BY <1>1
<1>14. CountOK(ep, ls, lr, ev, n)
  BY <1>10, <1>12, <1>13, CountBalance DEF S1, R1, T1, Q1
<1>15. TagOK(ev, n)
  BY <1>9 DEF TagOK, UnderWay
<1> QED
  BY <1>9, <1>14, <1>15

-----------------------------------------------------------------------------
(* The types of what CoverOK is about.                                     *)
TimeTypes(ep, lv, ev) ==
  /\ ep \in [Ranks -> Epochs] /\ lv \in [Ranks -> [0 .. 1 -> Time]]
  /\ ev \in [Events -> EventStates]

(* The bounds and the times of events are numbers.                         *)
LEMMA LowsAreNumbers ==
  ASSUME NEW ep, NEW lv, NEW ev, TimeTypes(ep, lv, ev), NEW e
  PROVE  /\ \A r \in Ranks : Low(ep, lv, e, r) \in Nat /\ lv[r][0] \in Nat /\ lv[r][1] \in Nat
         /\ \A k \in Events : ev[k].t \in Nat /\ ev[k].rank \in Ranks /\ ev[k].src \in Ranks
<1>1. \A r \in Ranks : lv[r][0] \in Time /\ lv[r][1] \in Time
  BY DEF TimeTypes
<1>2. \A k \in Events : ev[k].t \in Time /\ ev[k].rank \in Ranks /\ ev[k].src \in Ranks
  BY DEF TimeTypes, EventStates
<1> QED
  BY <1>1, <1>2, TimesAreNumbers DEF Low

(* What covers the events goes on to do so when it only falls.             *)
LEMMA CoveredBelow ==
  ASSUME NEW ep, NEW lv, NEW ev, TimeTypes(ep, lv, ev),
         NEW ep1, NEW lv1, NEW ev1, TimeTypes(ep1, lv1, ev1), NEW e,
         \A r \in Ranks : Low(ep1, lv1, e, r) <= Low(ep, lv, e, r),
         NEW t \in Nat, NEW u \in Nat, t <= u, Covered(ep, lv, e, t)
  PROVE  Covered(ep1, lv1, e, u)
<1>1. PICK r \in Ranks : Low(ep, lv, e, r) <= t
  BY DEF Covered
<1>2. /\ Low(ep1, lv1, e, r) \in Nat /\ Low(ep, lv, e, r) \in Nat
      /\ Low(ep1, lv1, e, r) <= Low(ep, lv, e, r)
  BY LowsAreNumbers
<1>3. Low(ep1, lv1, e, r) <= u
  BY <1>1, <1>2
<1> QED
  BY <1>3 DEF Covered

(* An event p of rank r creates the events of news at time u or later, here*)
(* or, with the claim on lvt, in messages.                                 *)
Creates(ep, lv, ev, r, p, u, news, lv1, ev1) ==
  /\ p \in Events /\ ev[p].place = "local" /\ ev[p].rank = r
  /\ u \in Time /\ ev[p].t <= u /\ news \in SUBSET Events
  /\ lv1 = [lv EXCEPT ![r][1] = Least(@, u)]
  /\ \A k \in news : /\ ev1[k].t = u /\ ev1[k].place # "unused"
                     /\ ev1[k].place = "local" => ev1[k].rank = r
                     /\ ev1[k].place = "net" => ev1[k].src = r /\ ev1[k].tag = NextEpoch(ep[r])
  /\ \A k \in Events \ news : ev1[k] = ev[k]

(* gvt::send keeps CoverOK, for the claim it leaves on epoch_lvt_[1].      *)
LEMMA CoverCreate ==
  ASSUME NEW ep, NEW lv, NEW ev, TimeTypes(ep, lv, ev),
         NEW e \in Epochs, Near(ep, e), CoverOK(ep, lv, ev, e),
         NEW r \in Ranks, NEW p, NEW u, NEW news, NEW lv1, NEW ev1 \in [Events -> EventStates],
         Creates(ep, lv, ev, r, p, u, news, lv1, ev1)
  PROVE  /\ lv1 \in [Ranks -> [0 .. 1 -> Time]] /\ CoverOK(ep, lv1, ev1, e)
         /\ \A q \in Ranks : lv1[q][0] = lv[q][0]
<1>0. /\ p \in Events /\ ev[p].place = "local" /\ ev[p].rank = r
      /\ u \in Time /\ ev[p].t <= u /\ news \in SUBSET Events
      /\ lv1 = [lv EXCEPT ![r][1] = Least(@, u)]
      /\ \A k \in news : /\ ev1[k].t = u /\ ev1[k].place # "unused"
                         /\ ev1[k].place = "local" => ev1[k].rank = r
                         /\ ev1[k].place = "net" => ev1[k].src = r /\ ev1[k].tag = NextEpoch(ep[r])
      /\ \A k \in Events \ news : ev1[k] = ev[k]
  BY DEF Creates
<1> USE <1>0
<1>1. u \in Nat /\ \A q \in Ranks : lv[q][0] \in Time /\ lv[q][1] \in Time
  BY TimesAreNumbers DEF TimeTypes
<1>2. Least(lv[r][1], u) \in Time
  BY <1>1 DEF Least
<1>3. lv1 \in [Ranks -> [0 .. 1 -> Time]]
  BY <1>2 DEF TimeTypes
<1>4. TimeTypes(ep, lv1, ev1)
  BY <1>3 DEF TimeTypes
<1>5. /\ lv1[r][1] = Least(lv[r][1], u) /\ lv1[r][0] = lv[r][0]
      /\ \A q \in Ranks \ {r} : lv1[q] = lv[q]
  BY DEF TimeTypes
<1>6. \A q \in Ranks : /\ lv[q][0] \in Nat /\ lv[q][1] \in Nat
                       /\ lv1[q][0] \in Nat /\ lv1[q][1] \in Nat
  BY <1>4, LowsAreNumbers
<1>7. lv1[r][1] <= u /\ \A q \in Ranks : lv1[q][0] = lv[q][0] /\ lv1[q][1] <= lv[q][1]
  <2>1. lv1[r][1] <= u /\ lv1[r][1] <= lv[r][1]
    BY <1>1, <1>5, <1>6 DEF Least
  <2> QED
    BY <1>5, <1>6, <2>1
<1>8. \A q \in Ranks : Low(ep, lv1, e, q) <= Low(ep, lv, e, q)
  BY <1>6, <1>7 DEF Low
<1>9. \A t \in Nat, t1 \in Nat : t <= t1 /\ Covered(ep, lv, e, t) => Covered(ep, lv1, e, t1)
  BY <1>4, <1>8, CoveredBelow
<1>10. /\ \A k \in Events : ev[k].t \in Nat /\ ev[k].rank \in Ranks /\ ev[k].src \in Ranks
       /\ \A k \in Events : ev1[k].t \in Nat /\ ev1[k].rank \in Ranks /\ ev1[k].src \in Ranks
  BY <1>4, LowsAreNumbers
<1>11. Covered(ep, lv1, e, u)
  <2>1. CASE ep[r] = e
    <3>1. Covered(ep, lv, e, ev[p].t)
      BY <2>1 DEF CoverOK
    <3> QED
      BY <1>1, <1>9, <1>10, <3>1
  <2>2. CASE ep[r] # e
    <3>1. Low(ep, lv1, e, r) <= u
      BY <1>7, <2>2 DEF Low
    <3> QED
      BY <3>1 DEF Covered
  <2> QED
    BY <2>1, <2>2
<1>12. ep[r] \in Epochs /\ (ep[r] = e \/ NextEpoch(ep[r]) = e) /\ NextEpoch(e) # e
  BY EpochsDiffer DEF Near
<1>13. ASSUME NEW k \in Events
       PROVE  /\ ev1[k].place = "net" =>
                   /\ Covered(ep, lv1, e, ev1[k].t)
                   /\ ev1[k].tag = NextEpoch(e) => ep[ev1[k].src] = e /\ lv1[ev1[k].src][1] <= ev1[k].t
              /\ ev1[k].place = "local" /\ ep[ev1[k].rank] = e => Covered(ep, lv1, e, ev1[k].t)
  <2>1. CASE k \in news
    BY <1>7, <1>11, <1>12, <2>1
  <2>2. CASE k \notin news
    <3>1. ev1[k] = ev[k]
      BY <2>2
    <3>2. /\ ev[k].place = "net" =>
               /\ Covered(ep, lv, e, ev[k].t)
               /\ ev[k].tag = NextEpoch(e) => ep[ev[k].src] = e /\ lv[ev[k].src][1] <= ev[k].t
          /\ ev[k].place = "local" /\ ep[ev[k].rank] = e => Covered(ep, lv, e, ev[k].t)
      BY DEF CoverOK
    <3>3. Covered(ep, lv, e, ev[k].t) => Covered(ep, lv1, e, ev[k].t)
      <4>1. ev[k].t \in Nat /\ ev[k].t <= ev[k].t
        BY <1>10
      <4> QED
        BY <1>9, <4>1
    <3>4. lv[ev[k].src][1] <= ev[k].t => lv1[ev[k].src][1] <= ev[k].t
      <4>1. ev[k].src \in Ranks /\ ev[k].t \in Nat
        BY <1>10
      <4>2. lv1[ev[k].src][1] <= lv[ev[k].src][1] /\ lv1[ev[k].src][1] \in Nat /\ lv[ev[k].src][1] \in Nat
        BY <1>6, <1>7, <4>1
      <4> QED
        BY <4>1, <4>2
    <3> QED
      BY <3>1, <3>2, <3>3, <3>4
  <2> QED
    BY <2>1, <2>2
<1>14. CoverOK(ep, lv1, ev1, e)
  BY <1>13 DEF CoverOK
<1> QED
  BY <1>3, <1>7, <1>14

(* An event comes out of its message, or is done with, or is created here. *)
LEMMA CoverArrive ==
  ASSUME NEW ep, NEW lv, NEW ev, TimeTypes(ep, lv, ev), NEW e, CoverOK(ep, lv, ev, e),
         NEW p \in Events, ev[p].place = "net", NEW ev1,
         ev1[p].place = "local", ev1[p].t = ev[p].t,
         \A j \in Events \ {p} : ev1[j] = ev[j]
  PROVE  CoverOK(ep, lv, ev1, e)
BY DEF CoverOK

(* An event that is done with leaves CoverOK true.                         *)
LEMMA CoverLess ==
  ASSUME NEW ep, NEW lv, NEW ev, NEW e, CoverOK(ep, lv, ev, e),
         NEW p \in Events, NEW ev1, ev1[p].place = "unused",
         \A j \in Events \ {p} : ev1[j] = ev[j]
  PROVE  CoverOK(ep, lv, ev1, e)
BY DEF CoverOK

(* So does one created later than one that was there.                      *)
LEMMA CoverSpawn ==
  ASSUME NEW ep, NEW lv, NEW ev, TimeTypes(ep, lv, ev), NEW e, CoverOK(ep, lv, ev, e),
         NEW p \in Events, ev[p].place = "local",
         NEW k \in Events, NEW ev1, ev1[k].place = "local", ev1[k].rank = ev[p].rank,
         ev1[k].t \in Nat, ev[p].t <= ev1[k].t,
         \A j \in Events \ {k} : ev1[j] = ev[j]
  PROVE  CoverOK(ep, lv, ev1, e)
<1>1. \A q \in Ranks : Low(ep, lv, e, q) \in Nat
  BY LowsAreNumbers
<1>2. ev[p].t \in Nat /\ ev[p].rank \in Ranks
  BY LowsAreNumbers
<1>3. ep[ev[p].rank] = e => Covered(ep, lv, e, ev1[k].t)
  <2> HAVE ep[ev[p].rank] = e
  <2>1. Covered(ep, lv, e, ev[p].t)
    BY DEF CoverOK
  <2>2. PICK q \in Ranks : Low(ep, lv, e, q) <= ev[p].t
    BY <2>1 DEF Covered
  <2>3. Low(ep, lv, e, q) <= ev1[k].t
    BY <1>1, <1>2, <2>2
  <2> QED
    BY <2>3 DEF Covered
<1> QED
  BY <1>3 DEF CoverOK

(* A rank enters the epoch: its new lvt is below its own events, and below *)
(* the claim it had before.                                                *)
Entered(ep, lv, ep1, lv1, e, r, l) ==
  /\ ep1[r] = e /\ lv1[r][0] = Least(l, lv[r][1])
  /\ \A q \in Ranks \ {r} : ep1[q] = ep[q] /\ lv1[q] = lv[q]

(* l is not after the events that rank r has.                              *)
Since(ev, r, l) == \A k \in Events : ev[k].place = "local" /\ ev[k].rank = r => l <= ev[k].t

(* The rank enters the epoch with the lesser of its own events and its     *)
(* claim.                                                                  *)
LEMMA CoverEntered ==
  ASSUME NEW ep, NEW lv, NEW ev, TimeTypes(ep, lv, ev), NEW e, CoverOK(ep, lv, ev, e),
         NEW r \in Ranks, ep[r] # e, NEW l \in Time,
         Since(ev, r, l), NEW ep1, NEW lv1, TimeTypes(ep1, lv1, ev),
         Entered(ep, lv, ep1, lv1, e, r, l)
  PROVE  CoverOK(ep1, lv1, ev, e)
<1>1. /\ ep1[r] = e /\ lv1[r][0] = Least(l, lv[r][1])
      /\ \A q \in Ranks \ {r} : ep1[q] = ep[q] /\ lv1[q] = lv[q]
  BY DEF Entered
<1>2. l \in Nat /\ lv[r][1] \in Nat
  BY TimesAreNumbers, LowsAreNumbers
<1>4. TimeTypes(ep1, lv1, ev)
  OBVIOUS
<1>5. /\ \A q \in Ranks : Low(ep, lv, e, q) \in Nat /\ Low(ep1, lv1, e, q) \in Nat
      /\ \A k \in Events : ev[k].t \in Nat /\ ev[k].rank \in Ranks /\ ev[k].src \in Ranks
  BY <1>4, LowsAreNumbers
<1>6. Low(ep1, lv1, e, r) = Least(l, lv[r][1]) /\ Low(ep, lv, e, r) = lv[r][1]
  BY <1>1 DEF Low
<1>7. ASSUME NEW q \in Ranks PROVE Low(ep1, lv1, e, q) <= Low(ep, lv, e, q)
  <2>1. CASE q = r
    BY <1>2, <1>6, <2>1 DEF Least
  <2>2. CASE q # r
    <3>1. Low(ep1, lv1, e, q) = Low(ep, lv, e, q)
      BY <1>1, <2>2 DEF Low
    <3> QED
      BY <1>5, <3>1
  <2> QED
    BY <2>1, <2>2
<1>8. \A t \in Nat : Covered(ep, lv, e, t) => Covered(ep1, lv1, e, t)
  <2> SUFFICES ASSUME NEW t \in Nat, Covered(ep, lv, e, t) PROVE Covered(ep1, lv1, e, t)
    OBVIOUS
  <2>1. PICK q \in Ranks : Low(ep, lv, e, q) <= t
    BY DEF Covered
  <2>2. Low(ep1, lv1, e, q) <= t
    BY <1>5, <1>7, <2>1
  <2> QED
    BY <2>2 DEF Covered
<1>9. ASSUME NEW k \in Events
      PROVE  /\ ev[k].place = "net" =>
                  /\ Covered(ep1, lv1, e, ev[k].t)
                  /\ ev[k].tag = NextEpoch(e) => ep1[ev[k].src] = e /\ lv1[ev[k].src][1] <= ev[k].t
             /\ ev[k].place = "local" /\ ep1[ev[k].rank] = e => Covered(ep1, lv1, e, ev[k].t)
  <2>1. CASE ev[k].place = "net"
    BY <1>1, <1>5, <1>8, <2>1 DEF CoverOK
  <2>2. CASE ev[k].place = "local" /\ ev[k].rank # r
    BY <1>1, <1>5, <1>8, <2>2 DEF CoverOK
  <2>3. CASE ev[k].place = "local" /\ ev[k].rank = r
    <3>1. l <= ev[k].t /\ ev[k].t \in Nat
      BY <1>5, <2>3 DEF Since
    <3>2. Low(ep1, lv1, e, r) <= ev[k].t
      BY <1>2, <1>6, <3>1 DEF Least
    <3>3. Covered(ep1, lv1, e, ev[k].t)
      BY <3>2 DEF Covered
    <3> QED
      BY <2>3, <3>3
  <2> QED
    BY <2>1, <2>2, <2>3
<1> QED
  BY <1>9 DEF CoverOK

(* The same as coll_begin does it.                                         *)
Lowered(ep, lv, r, e, l, ep1, lv1) ==
  /\ ep[r] # e /\ NextEpoch(ep[r]) = e
  /\ ep1 = [ep EXCEPT ![r] = NextEpoch(@)]
  /\ lv1 = [lv EXCEPT ![r] = [i \in 0 .. 1 |-> IF i = 0 THEN Least(l, @[1]) ELSE Inf]]

(* The shift of epoch_lvt_ at the change of epoch keeps CoverOK.           *)
LEMMA CoverEnter ==
  ASSUME NEW ep, NEW lv, NEW ev, TimeTypes(ep, lv, ev), NEW e \in Epochs, CoverOK(ep, lv, ev, e),
         NEW r \in Ranks, NEW l \in Time, Since(ev, r, l), NEW ep1, NEW lv1,
         Lowered(ep, lv, r, e, l, ep1, lv1)
  PROVE  TimeTypes(ep1, lv1, ev) /\ CoverOK(ep1, lv1, ev, e)
<1>0. /\ ep[r] # e /\ NextEpoch(ep[r]) = e
      /\ ep1 = [ep EXCEPT ![r] = NextEpoch(@)]
      /\ lv1 = [lv EXCEPT ![r] = [i \in 0 .. 1 |-> IF i = 0 THEN Least(l, @[1]) ELSE Inf]]
  BY DEF Lowered
<1> USE <1>0
<1>1. /\ ep1[r] = e /\ lv1[r][0] = Least(l, lv[r][1])
      /\ \A q \in Ranks \ {r} : ep1[q] = ep[q] /\ lv1[q] = lv[q]
  BY DEF TimeTypes
<1>2. l \in Nat /\ lv[r][1] \in Nat /\ lv[r][1] \in Time /\ Inf \in Time
  <2>1. lv[r][1] \in Time
    BY DEF TimeTypes
  <2> QED
    BY <2>1, TimesAreNumbers
<1>3. Least(l, lv[r][1]) \in Time
  BY <1>2 DEF Least
<1>4. TimeTypes(ep1, lv1, ev)
  <2>1. [i \in 0 .. 1 |-> IF i = 0 THEN Least(l, lv[r][1]) ELSE Inf] \in [0 .. 1 -> Time]
    BY <1>2, <1>3
  <2>2. lv1 \in [Ranks -> [0 .. 1 -> Time]]
    BY <2>1 DEF TimeTypes
  <2>3. ep1 \in [Ranks -> Epochs]
    BY DEF TimeTypes
  <2> QED
    BY <2>2, <2>3 DEF TimeTypes
<1>5. Entered(ep, lv, ep1, lv1, e, r, l)
  BY <1>1 DEF Entered
<1>6. CoverOK(ep1, lv1, ev, e)
  BY <1>4, <1>5, CoverEntered
<1> QED
  BY <1>4, <1>6

(* All the ranks have contributed: the least of their lvt is a bound, and  *)
(* what is under way in the next epoch is covered by its senders.          *)
LEMMA CoverConclude ==
  ASSUME NEW ep, NEW lv, NEW ev, TimeTypes(ep, lv, ev), NEW e \in Epochs, CoverOK(ep, lv, ev, e),
         TagOK(ev, e), UnderWay(ev, e) = {}, \A q \in Ranks : ep[q] = e,
         NEW g \in Time, \A q \in Ranks : g <= lv[q][0]
  PROVE  NothingBefore(ev, g) /\ CoverOK(ep, lv, ev, NextEpoch(e))
<1>1. /\ \A q \in Ranks : Low(ep, lv, e, q) = lv[q][0] /\ lv[q][0] \in Nat
      /\ \A k \in Events : ev[k].t \in Nat /\ ev[k].rank \in Ranks /\ ev[k].src \in Ranks
      /\ g \in Nat
  BY LowsAreNumbers, TimesAreNumbers DEF Low
<1>2. \A t \in Nat : Covered(ep, lv, e, t) => g <= t
  <2> SUFFICES ASSUME NEW t \in Nat, Covered(ep, lv, e, t) PROVE g <= t
    OBVIOUS
  <2>1. PICK q \in Ranks : Low(ep, lv, e, q) <= t
    BY DEF Covered
  <2>2. g <= lv[q][0] /\ lv[q][0] <= t /\ lv[q][0] \in Nat
    BY <1>1, <2>1
  <2> QED
    BY <1>1, <2>2
<1>3. ASSUME NEW k \in Events, ev[k].place # "unused" PROVE g <= ev[k].t
  <2>1. ev[k].place \in {"local", "net"}
    BY <1>3 DEF TimeTypes, EventStates
  <2>2. Covered(ep, lv, e, ev[k].t)
    BY <1>1, <2>1 DEF CoverOK
  <2> QED
    BY <1>1, <1>2, <2>2
<1>4. NextEpoch(e) # e /\ NextEpoch(NextEpoch(e)) # NextEpoch(e)
  <2>1. NextEpoch(e) \in Epochs
    BY EpochsAreNumbers
  <2> QED
    BY <2>1, EpochsDiffer
<1>5. ASSUME NEW k \in Events, ev[k].place = "net"
      PROVE  Covered(ep, lv, NextEpoch(e), ev[k].t) /\ ev[k].tag # NextEpoch(NextEpoch(e))
  <2>1. ev[k].tag = NextEpoch(e)
    BY <1>5 DEF TagOK, UnderWay, InNetwork
  <2>2. lv[ev[k].src][1] <= ev[k].t /\ ev[k].src \in Ranks
    BY <1>1, <1>5, <2>1 DEF CoverOK
  <2>3. Low(ep, lv, NextEpoch(e), ev[k].src) = lv[ev[k].src][1]
    BY <1>4, <2>2 DEF Low
  <2>4. Low(ep, lv, NextEpoch(e), ev[k].src) <= ev[k].t
    BY <2>2, <2>3
  <2> QED
    BY <1>4, <2>1, <2>2, <2>4 DEF Covered
<1>6. \A k \in Events : ep[ev[k].rank] # NextEpoch(e)
  BY <1>1, <1>4
<1> QED
  BY <1>3, <1>5, <1>6 DEF NothingBefore, CoverOK

-----------------------------------------------------------------------------
(* The bounds the ranks have been told hold for what events create.        *)
LEMMA BoundLater ==
  ASSUME NEW ev, \A k \in Events : ev[k].t \in Nat, NEW ev1, \A k \in Events : ev1[k].t \in Nat,
         \A k \in Events : ev1[k].place # "unused" =>
           \E p \in Events : ev[p].place # "unused" /\ ev[p].t <= ev1[k].t,
         NEW g \in Nat, NothingBefore(ev, g)
  PROVE  NothingBefore(ev1, g)
<1> SUFFICES ASSUME NEW k \in Events, ev1[k].place # "unused" PROVE g <= ev1[k].t
  BY DEF NothingBefore
<1>1. PICK p \in Events : ev[p].place # "unused" /\ ev[p].t <= ev1[k].t
  OBVIOUS
<1>2. g <= ev[p].t /\ ev[p].t \in Nat /\ ev1[k].t \in Nat
  BY <1>1 DEF NothingBefore
<1> QED
  BY <1>1, <1>2

(* BoundOK is kept when every event comes from one not later.              *)
LEMMA BoundStep ==
  ASSUME NEW eg \in [Ranks -> [0 .. 1 -> Time]], NEW dn, dn \subseteq DownMessages,
         NEW ev \in [Events -> EventStates], NEW ev1 \in [Events -> EventStates],
         \A k \in Events : ev1[k].place # "unused" =>
           \E p \in Events : ev[p].place # "unused" /\ ev[p].t <= ev1[k].t,
         BoundOK(eg, dn, ev)
  PROVE  BoundOK(eg, dn, ev1)
<1>1. \A k \in Events : ev[k].t \in Nat /\ ev1[k].t \in Nat
  BY TimesAreNumbers DEF EventStates
<1>2. \A g \in Nat : NothingBefore(ev, g) => NothingBefore(ev1, g)
  BY <1>1, BoundLater
<1>3. /\ \A r \in Ranks : eg[r][1] \in Nat
      /\ \A m \in dn : m.gvt \in Nat
  <2>1. \A r \in Ranks : eg[r][1] \in Time
    OBVIOUS
  <2>2. \A m \in dn : m.gvt \in Time
    BY DEF DownMessages
  <2> QED
    BY <2>1, <2>2, TimesAreNumbers
<1> QED
  BY <1>2, <1>3 DEF BoundOK

-----------------------------------------------------------------------------
(* The invariant of the two states of a step, as a fact about their        *)
(* values.                                                                 *)
LEMMA InvNow ==
  Inv <=> AllOK(collStatus, collRxs, epochGvt, epoch, lvt, lsend, lrecv, rdxn, ups, downs, event, round)
BY DEF Inv

(* The invariant of the next state, as a fact about its values.            *)
LEMMA InvThen ==
  Inv' <=> AllOK(collStatus', collRxs', epochGvt', epoch', lvt', lsend', lrecv', rdxn', ups', downs', event', round')
BY DEF Inv, AllOK, Types, Round

-----------------------------------------------------------------------------
(* A rank is told the result g.                                            *)
Told(eg, r, q, g, eg1) == eg1 = IF q THEN [eg EXCEPT ![r][1] = g] ELSE eg

(* What a call of rdxn_up on rank me leaves, new being its accumulators.   *)
Outcome(st, crx, eg, rx, dn, up1, me, new, q, cs2, crx2, eg2, rx2, up2, dn2) ==
  /\ rx2 = [rx EXCEPT ![me] = new]
  /\ \/ /\ new.incoming > 0
        /\ up2 = up1 /\ cs2 = st /\ dn2 = dn /\ crx2 = crx /\ eg2 = eg
     \/ /\ new.incoming = 0 /\ me # 0
        /\ up2 = up1 \cup {UpMessage(me, new)}
        /\ cs2 = st /\ dn2 = dn /\ crx2 = crx /\ eg2 = eg
     \/ /\ new.incoming = 0 /\ me = 0
        /\ up2 = up1 /\ Drawn(st, crx, dn, q, new.gvtAcc, new.rxsAcc, cs2, crx2, dn2)
        /\ Told(eg, 0, q, new.gvtAcc, eg2)

(* The collective has ended at the root with the sums of all ranks: what   *)
(* the root draws from them opens the next one.                            *)
LEMMA Conclusion ==
  ASSUME NEW cs, NEW crx, NEW eg, NEW ep, NEW lv, NEW ls, NEW lr, NEW rx, NEW up, NEW dn,
         NEW ev, NEW rd, Types(cs, crx, eg, ep, lv, ls, lr, rx, up, dn, ev, rd),
         NEW e \in Epochs, NEW d \in {0, 1}, CollOK(cs, crx, ep, rd, dn, e, d),
         TagOK(ev, e), CountOK(ep, ls, lr, ev, e), CoverOK(ep, lv, ev, e),
         BoundOK(eg, dn, ev), Contrib(cs, dn) = Ranks,
         NEW g \in Time, NEW s \in Nat, NEW c \in Nat, NEW x \in Nat,
         IsSum(lv, ls, lr, rd, Ranks, g, s, c, x),
         NEW q \in BOOLEAN, q <=> s = c,
         NEW cs2, NEW crx2, NEW dn2, Drawn(cs, crx, dn, q, g, x, cs2, crx2, dn2),
         NEW eg2, Told(eg, 0, q, g, eg2),
         NEW rx2 \in [Ranks -> Sums], \A y \in Ranks : rx2[y].incoming = 0
  PROVE  AllOK(cs2, crx2, eg2, ep, lv, ls, lr, rx2, {}, dn2, ev, rd)
<1>1. StatusTypes(cs, ep, rd, dn) /\ crx \in [Ranks -> [0 .. 1 -> Nat]]
  BY DEF Types, StatusTypes
<1>2. /\ \A r \in Ranks : rd[r] = d /\ d \in Nat
      /\ \A r \in Ranks : ep[r] = e
  BY DEF CollOK
<1>3. x = N * d
  <2>1. d \in Nat /\ IsFiniteSet(Ranks) /\ Cardinality(Ranks) = N
    BY RanksFinite
  <2>2. SumOf(rd, Ranks) = Cardinality(Ranks) * d
    BY <1>2, <2>1, SumConstant
  <2> QED
    BY <2>1, <2>2 DEF IsSum
<1>4. /\ StatusTypes(cs2, ep, rd, dn2)
      /\ crx2 \in [Ranks -> [0 .. 1 -> Nat]]
      /\ CollOK(cs2, crx2, ep, rd, dn2, Entering(e, q), 1 - d)
      /\ Contrib(cs2, dn2) = {}
      /\ \A m \in dn2 : m.gvt = g
      /\ \A r \in Ranks : ep[r] = e
  <2>1. Draws(cs, crx, ep, rd, dn, e, d, q, g, x, cs2, crx2, dn2)
    BY <1>1, <1>3 DEF Draws
  <2>2. Opened(ep, rd, e, d, q, g, cs2, crx2, dn2)
    BY <2>1, CollConclude
  <2> QED
    BY <2>2 DEF Opened
<1>5. TreeOK(Contrib(cs2, dn2), rx2, {}, lv, ls, lr, rd)
  BY <1>4, TreeEmpty
<1>6. MessageTypes(ep, ls, lr, ev) /\ TimeTypes(ep, lv, ev)
  BY DEF Types, MessageTypes, TimeTypes
<1>7. 0 \in Ranks
  BY RanksAreNumbers
<1>8. Types(cs2, crx2, eg2, ep, lv, ls, lr, rx2, {}, dn2, ev, rd)
  <2>1. eg2 \in [Ranks -> [0 .. 1 -> Time]]
    BY DEF Types, Told
  <2>2. cs2 \in [Ranks -> [0 .. 1 -> Status]] /\ dn2 \subseteq DownMessages
    BY <1>4 DEF StatusTypes
  <2> QED
    BY <1>4, <2>1, <2>2 DEF Types
<1>9. Entering(e, q) \in Epochs /\ 1 - d \in {0, 1}
  BY EpochsAreNumbers DEF Entering
<1>10. CASE q
  <2>1. SumOf(First(ls), Ranks) <= SumOf(First(lr), Ranks)
    BY <1>10 DEF IsSum
  <2>2. /\ UnderWay(ev, e) = {}
        /\ CountOK(ep, ls, lr, ev, NextEpoch(e))
        /\ TagOK(ev, NextEpoch(e))
    BY <1>2, <1>6, <2>1, CountConclude
  <2>3. \A r \in Ranks : g <= lv[r][0]
    BY DEF IsSum
  <2>4. NothingBefore(ev, g) /\ CoverOK(ep, lv, ev, NextEpoch(e))
    BY <1>2, <1>6, <2>2, <2>3, CoverConclude
  <2>5. Entering(e, q) = NextEpoch(e)
    BY <1>10 DEF Entering
  <2>6. BoundOK(eg2, dn2, ev)
    <3>1. ASSUME NEW r \in Ranks PROVE eg2[r][1] = g \/ eg2[r][1] = eg[r][1]
      BY <1>7, <1>10 DEF Types, Told
    <3> QED
      BY <1>4, <2>4, <3>1 DEF BoundOK
  <2>7. Round(cs2, crx2, ep, lv, ls, lr, rx2, {}, dn2, ev, rd, Entering(e, q), 1 - d)
    BY <1>4, <1>5, <2>2, <2>4, <2>5 DEF Round
  <2> QED
    BY <1>8, <1>9, <2>6, <2>7 DEF AllOK
<1>11. CASE ~q
  <2>1. Entering(e, q) = e /\ eg2 = eg
    BY <1>11 DEF Entering, Told
  <2>2. BoundOK(eg2, dn2, ev)
    <3>1. \A m \in dn2 : ~ (m.toUb < 0)
      <4>1. dn = {}
        BY <1>1, NoneOnItsWay
      <4>2. N \in 0 + 1 .. N /\ 0 \in Ranks
        BY RanksAreNumbers
      <4>3. HalvesCovers(0, N, q, g, x, dn2)
        BY <4>1, <4>2, HalvesCover DEF Drawn
      <4> QED
        BY <1>11, <4>3 DEF HalvesCovers
    <3> QED
      BY <2>1, <3>1 DEF BoundOK
  <2>3. Round(cs2, crx2, ep, lv, ls, lr, rx2, {}, dn2, ev, rd, Entering(e, q), 1 - d)
    BY <1>4, <1>5, <2>1 DEF Round
  <2> QED
    BY <1>8, <1>9, <2>2, <2>3 DEF AllOK
<1> QED
  BY <1>10, <1>11

(* A call of rdxn_up in a round that has all but the tree in order keeps   *)
(* the whole invariant.                                                    *)
LEMMA Rising ==
  ASSUME NEW cs, NEW crx, NEW eg, NEW ep, NEW lv, NEW ls, NEW lr, NEW rx, NEW up, NEW dn,
         NEW ev, NEW rd, Types(cs, crx, eg, ep, lv, ls, lr, rx, up, dn, ev, rd),
         NEW e \in Epochs, NEW d \in {0, 1}, CollOK(cs, crx, ep, rd, dn, e, d),
         TagOK(ev, e), CountOK(ep, ls, lr, ev, e), CoverOK(ep, lv, ev, e),
         BoundOK(eg, dn, ev),
         NEW C, C \subseteq Ranks, TreeOK(C, rx, up, lv, ls, lr, rd),
         NEW me \in Ranks, NEW up1, up1 \subseteq up, NEW a, NEW P,
         Arrives(C, Sources(up), Contrib(cs, dn), Sources(up1), me, a, P),
         NEW v \in Time, NEW s \in Nat, NEW c \in Nat, NEW x \in Nat,
         IsSum(lv, ls, lr, rd, P, v, s, c, x),
         NEW new, IsAccumulated(rx[me], new, me, v, s, c, x),
         NEW q \in BOOLEAN, q <=> new.gsend = new.grecv,
         NEW cs2, NEW crx2, NEW eg2, NEW rx2, NEW up2, NEW dn2,
         Outcome(cs, crx, eg, rx, dn, up1, me, new, q, cs2, crx2, eg2, rx2, up2, dn2)
  PROVE  AllOK(cs2, crx2, eg2, ep, lv, ls, lr, rx2, up2, dn2, ev, rd)
<1>1. CountTypes(lv, ls, lr, rd) /\ up \subseteq UpMessages /\ rx \in [Ranks -> Sums]
  BY DEF Types, CountTypes
<1>2. rx2 = [rx EXCEPT ![me] = new]
  BY DEF Outcome
<1> DEFINE C1 == Contrib(cs, dn)
<1> HIDE DEF C1
<1>3. Arrives(C, Sources(up), C1, Sources(up1), me, a, P)
  BY DEF C1
<1>4. /\ rx2 \in [Ranks -> Sums] /\ new \in Sums
      /\ new.incoming > 0 => TreeOK(C1, rx2, up1, lv, ls, lr, rd)
      /\ new.incoming = 0 /\ me # 0 =>
           /\ TreeOK(C1, rx2, up1 \cup {UpMessage(me, new)}, lv, ls, lr, rd)
           /\ up1 \cup {UpMessage(me, new)} \subseteq UpMessages
      /\ new.incoming = 0 /\ me = 0 =>
           /\ C1 = Ranks /\ up1 = {}
           /\ IsSum(lv, ls, lr, rd, Ranks, new.gvtAcc, new.gsend, new.grecv, new.rxsAcc)
           /\ \A y \in Ranks : rx2[y].incoming = 0
  <2>1. Rises(lv, ls, lr, rd, C, rx, up, me, C1, up1, a, P, v, s, c, x, new, rx2)
    BY <1>1, <1>2, <1>3 DEF Rises
  <2>2. Risen(lv, ls, lr, rd, me, C1, up1, new, rx2)
    BY <2>1, TreeStep
  <2> QED
    BY <2>2 DEF Risen
<1>5. CASE /\ new.incoming > 0
           /\ up2 = up1 /\ cs2 = cs /\ dn2 = dn /\ crx2 = crx /\ eg2 = eg
  <2>1. Types(cs2, crx2, eg2, ep, lv, ls, lr, rx2, up2, dn2, ev, rd)
    BY <1>4, <1>5 DEF Types
  <2>2. Round(cs2, crx2, ep, lv, ls, lr, rx2, up2, dn2, ev, rd, e, d)
    BY <1>4, <1>5 DEF Round, C1
  <2> QED
    BY <1>5, <2>1, <2>2 DEF AllOK
<1>6. CASE /\ new.incoming = 0 /\ me # 0
           /\ up2 = up1 \cup {UpMessage(me, new)}
           /\ cs2 = cs /\ dn2 = dn /\ crx2 = crx /\ eg2 = eg
  <2>1. Types(cs2, crx2, eg2, ep, lv, ls, lr, rx2, up2, dn2, ev, rd)
    BY <1>4, <1>6 DEF Types
  <2>2. Round(cs2, crx2, ep, lv, ls, lr, rx2, up2, dn2, ev, rd, e, d)
    BY <1>4, <1>6 DEF Round, C1
  <2> QED
    BY <1>6, <2>1, <2>2 DEF AllOK
<1>7. CASE /\ new.incoming = 0 /\ me = 0
           /\ up2 = up1 /\ Drawn(cs, crx, dn, q, new.gvtAcc, new.rxsAcc, cs2, crx2, dn2)
           /\ Told(eg, 0, q, new.gvtAcc, eg2)
  <2> DEFINE g == new.gvtAcc  t == new.gsend  u == new.grecv  y == new.rxsAcc
  <2>1. g \in Time /\ t \in Nat /\ u \in Nat /\ y \in Nat
    BY <1>4 DEF Sums
  <2>2. IsSum(lv, ls, lr, rd, Ranks, g, t, u, y) /\ (q <=> t = u)
    BY <1>4, <1>7
  <2>3. Drawn(cs, crx, dn, q, g, y, cs2, crx2, dn2) /\ Told(eg, 0, q, g, eg2)
    BY <1>7
  <2>4. Contrib(cs, dn) = Ranks /\ up2 = {} /\ \A z \in Ranks : rx2[z].incoming = 0
    BY <1>4, <1>7 DEF C1
  <2>5. rx2 \in [Ranks -> Sums]
    BY <1>4
  <2> HIDE DEF g, t, u, y
  <2>6. AllOK(cs2, crx2, eg2, ep, lv, ls, lr, rx2, {}, dn2, ev, rd)
    BY <2>1, <2>2, <2>3, <2>4, <2>5, Conclusion
  <2> QED
    BY <2>4, <2>6
<1> QED
  BY <1>5, <1>6, <1>7 DEF Outcome

-----------------------------------------------------------------------------
(* The client's steps leave the reduction as it is.                        *)
ClientTypes(lv, ls, lr, ev) ==
  /\ lv \in [Ranks -> [0 .. 1 -> Time]]
  /\ ls \in [Ranks -> [0 .. 1 -> Nat]]
  /\ lr \in [Ranks -> [0 .. 2 -> Nat]]
  /\ ev \in [Events -> EventStates]

(* What is contributed already is not touched.                             *)
KeepsCounts(lv, ls, lr, lv1, ls1, lr1) ==
  \A q \in Ranks : lv1[q][0] = lv[q][0] /\ ls1[q][0] = ls[q][0] /\ lr[q][0] <= lr1[q][0]

(* Every event comes from one not later.                                   *)
ComeLater(ev, ev1) ==
  \A k \in Events : ev1[k].place # "unused" =>
    \E p \in Events : ev[p].place # "unused" /\ ev[p].t <= ev1[k].t

(* A step of the client that keeps TagOK, CountOK and CoverOK keeps the    *)
(* invariant.                                                              *)
LEMMA ClientStep ==
  ASSUME NEW cs, NEW crx, NEW eg, NEW ep, NEW lv, NEW ls, NEW lr, NEW rx, NEW up, NEW dn,
         NEW ev, NEW rd, Types(cs, crx, eg, ep, lv, ls, lr, rx, up, dn, ev, rd),
         NEW e \in Epochs, NEW d \in {0, 1},
         Round(cs, crx, ep, lv, ls, lr, rx, up, dn, ev, rd, e, d), BoundOK(eg, dn, ev),
         NEW lv1, NEW ls1, NEW lr1, NEW ev1, ClientTypes(lv1, ls1, lr1, ev1),
         KeepsCounts(lv, ls, lr, lv1, ls1, lr1), ComeLater(ev, ev1),
         TagOK(ev1, e), CountOK(ep, ls1, lr1, ev1, e), CoverOK(ep, lv1, ev1, e)
  PROVE  AllOK(cs, crx, eg, ep, lv1, ls1, lr1, rx, up, dn, ev1, rd)
<1>1. Types(cs, crx, eg, ep, lv1, ls1, lr1, rx, up, dn, ev1, rd)
  BY DEF Types, ClientTypes
<1>2. CountTypes(lv, ls, lr, rd) /\ CountTypes(lv1, ls1, lr1, rd)
  BY <1>1 DEF Types, CountTypes
<1> DEFINE C == Contrib(cs, dn)
<1>3. CollOK(cs, crx, ep, rd, dn, e, d) /\ TreeOK(C, rx, up, lv, ls, lr, rd)
  BY DEF Round
<1>4. C \subseteq Ranks /\ up \subseteq UpMessages /\ rx \in [Ranks -> Sums]
  BY DEF Types, Contrib
<1>5. \A q \in C : /\ lv1[q][0] = lv[q][0] /\ ls1[q][0] = ls[q][0]
                   /\ lr[q][0] <= lr1[q][0] /\ rd[q] = rd[q]
  BY <1>4 DEF KeepsCounts
<1> HIDE DEF C
<1>6. TreeOK(C, rx, up, lv1, ls1, lr1, rd)
  BY <1>2, <1>3, <1>4, <1>5, TreeFrame
<1>7. Round(cs, crx, ep, lv1, ls1, lr1, rx, up, dn, ev1, rd, e, d)
  BY <1>3, <1>6 DEF Round, C
<1>8. BoundOK(eg, dn, ev1)
  <2>1. /\ eg \in [Ranks -> [0 .. 1 -> Time]] /\ dn \subseteq DownMessages
        /\ ev \in [Events -> EventStates] /\ ev1 \in [Events -> EventStates]
    BY DEF Types, ClientTypes
  <2>2. \A k \in Events : ev1[k].place # "unused" =>
          \E p \in Events : ev[p].place # "unused" /\ ev[p].t <= ev1[k].t
    BY DEF ComeLater
  <2> QED
    BY <2>1, <2>2, BoundStep
<1> QED
  BY <1>1, <1>7, <1>8 DEF AllOK

-----------------------------------------------------------------------------
(* The events a step makes are of their type.                              *)
LEMMA EventsMade ==
  ASSUME NEW r \in Ranks, NEW t \in Time
  PROVE  /\ Local(r, t) \in EventStates
         /\ Local(r, t).place = "local" /\ Local(r, t).rank = r /\ Local(r, t).t = t
         /\ Unused \in EventStates /\ Unused.place = "unused"
         /\ \A tag \in Epochs, src \in Ranks :
              LET m == InNet(r, t, tag, src)
              IN  /\ m \in EventStates /\ m.place = "net" /\ m.rank = r /\ m.t = t
                  /\ m.tag = tag /\ m.src = src
<1>1. 0 \in Ranks /\ 0 \in Time /\ 0 \in Epochs
  BY RanksAreNumbers, TimesAreNumbers, EpochsAreNumbers DEF Time, Epochs
<1>2. Local(r, t) \in EventStates
      /\ Local(r, t).place = "local" /\ Local(r, t).rank = r /\ Local(r, t).t = t
  BY <1>1 DEF EventStates, Local
<1> QED
  BY <1>1, <1>2 DEF EventStates, Unused, InNet

(* The client is done with an event.                                       *)
LEMMA StepFinish ==
  ASSUME Inv, NEW r \in Ranks, NEW p \in Events, Finish(r, p)
  PROVE  Inv'
<1>1. PICK e \in Epochs, d \in {0, 1} :
        Round(collStatus, collRxs, epoch, lvt, lsend, lrecv, rdxn, ups, downs, event, round, e, d)
  BY InvNow DEF AllOK
<1>2. /\ Types(collStatus, collRxs, epochGvt, epoch, lvt, lsend, lrecv, rdxn, ups, downs, event, round)
      /\ BoundOK(epochGvt, downs, event)
  BY InvNow DEF AllOK
<1>3. /\ event[p].place = "local"
      /\ event' = [event EXCEPT ![p] = Unused]
      /\ UNCHANGED <<gvtVars, countVars, treeVars, round>>
  BY DEF Finish
<1>4. event \in [Events -> EventStates] /\ Unused \in EventStates /\ Unused.place = "unused"
  <2>1. 0 \in Ranks /\ 0 \in Time
    BY RanksAreNumbers, TimesAreNumbers DEF Time
  <2> QED
    BY <1>2, <2>1, EventsMade DEF Types
<1> DEFINE ev1 == event'
<1>5. /\ ev1 \in [Events -> EventStates] /\ ev1[p].place = "unused"
      /\ \A k \in Events \ {p} : ev1[k] = event[k]
  BY <1>3, <1>4
<1> HIDE DEF ev1
<1>6. /\ TagOK(event, e) /\ CountOK(epoch, lsend, lrecv, event, e) /\ CoverOK(epoch, lvt, event, e)
  BY <1>1 DEF Round
<1>7. \A k \in Events : /\ ev1[k].place = "net" <=> event[k].place = "net"
                        /\ ev1[k].place # "unused" => ev1[k] = event[k]
  BY <1>3, <1>5
<1>8. InNetwork(ev1) = InNetwork(event) /\ \A t : UnderWay(ev1, t) = UnderWay(event, t)
  BY <1>7 DEF InNetwork, UnderWay
<1>9. TagOK(ev1, e) /\ CountOK(epoch, lsend, lrecv, ev1, e)
  BY <1>6, <1>7, <1>8 DEF TagOK, CountOK, InNetwork
<1>10. CoverOK(epoch, lvt, ev1, e)
  BY <1>5, <1>6, CoverLess
<1>11. ComeLater(event, ev1)
  <2>1. \A k \in Events : event[k].t \in Nat
    BY <1>4, TimesAreNumbers DEF EventStates
  <2>2. \A k \in Events : event[k].t <= event[k].t
    BY <2>1
  <2> QED
    BY <1>7, <2>2 DEF ComeLater
<1>12. ClientTypes(lvt, lsend, lrecv, ev1)
  BY <1>2, <1>5 DEF ClientTypes, Types
<1>13. KeepsCounts(lvt, lsend, lrecv, lvt, lsend, lrecv)
  <2>1. \A q \in Ranks : lrecv[q][0] \in Nat
    BY <1>2 DEF Types
  <2> QED
    BY <2>1 DEF KeepsCounts
<1>14. AllOK(collStatus, collRxs, epochGvt, epoch, lvt, lsend, lrecv, rdxn, ups, downs, ev1, round)
  BY <1>1, <1>2, <1>9, <1>10, <1>11, <1>12, <1>13, ClientStep
<1> QED
  BY <1>3, <1>14, InvThen DEF ev1, gvtVars, countVars, treeVars

(* The parts of the invariant the client's steps use.                      *)
InvParts(e, d) ==
  /\ e \in Epochs /\ d \in {0, 1}
  /\ Types(collStatus, collRxs, epochGvt, epoch, lvt, lsend, lrecv, rdxn, ups, downs, event, round)
  /\ Round(collStatus, collRxs, epoch, lvt, lsend, lrecv, rdxn, ups, downs, event, round, e, d)
  /\ BoundOK(epochGvt, downs, event)
  /\ TagOK(event, e) /\ CountOK(epoch, lsend, lrecv, event, e) /\ CoverOK(epoch, lvt, event, e)
  /\ MessageTypes(epoch, lsend, lrecv, event) /\ TimeTypes(epoch, lvt, event)
  /\ Near(epoch, e) /\ NextEpoch(e) # e
  /\ \A k \in Events : event[k].t \in Nat

(* The invariant has these parts.                                          *)
LEMMA InvHasParts == Inv => \E e, d : InvParts(e, d)
<1> SUFFICES ASSUME Inv PROVE \E e, d : InvParts(e, d)
  OBVIOUS
<1>1. PICK e \in Epochs, d \in {0, 1} :
        Round(collStatus, collRxs, epoch, lvt, lsend, lrecv, rdxn, ups, downs, event, round, e, d)
  BY InvNow DEF AllOK
<1>2. /\ Types(collStatus, collRxs, epochGvt, epoch, lvt, lsend, lrecv, rdxn, ups, downs, event, round)
      /\ BoundOK(epochGvt, downs, event)
  BY InvNow DEF AllOK
<1>3. /\ CollOK(collStatus, collRxs, epoch, round, downs, e, d)
      /\ TagOK(event, e) /\ CountOK(epoch, lsend, lrecv, event, e) /\ CoverOK(epoch, lvt, event, e)
  BY <1>1 DEF Round
<1>4. /\ MessageTypes(epoch, lsend, lrecv, event) /\ TimeTypes(epoch, lvt, event)
      /\ StatusTypes(collStatus, epoch, round, downs)
  BY <1>2 DEF Types, MessageTypes, TimeTypes, StatusTypes
<1>5. Near(epoch, e) /\ NextEpoch(e) # e
  BY <1>3, <1>4, CollNear, EpochsDiffer
<1>6. \A k \in Events : event[k].t \in Nat
  BY <1>4, LowsAreNumbers
<1>7. InvParts(e, d)
  BY <1>1, <1>2, <1>3, <1>4, <1>5, <1>6 DEF InvParts
<1> QED
  BY <1>7

(* The client creates a local event.                                       *)
LEMMA StepSpawn ==
  ASSUME Inv, NEW r \in Ranks, Spawn(r)
  PROVE  Inv'
<1>1. PICK e, d : InvParts(e, d)
  BY InvHasParts
<1>2. PICK p \in Events, k \in UnusedEvents, t \in EventTime :
        /\ event[p].place = "local" /\ event[p].rank = r
        /\ t >= event[p].t + MinDelay
        /\ event' = [event EXCEPT ![k] = Local(r, t)]
        /\ UNCHANGED <<gvtVars, countVars, treeVars, round>>
  BY DEF Spawn
<1>3. t \in Time /\ t \in Nat /\ event[p].t \in Nat /\ event[p].t <= t
  <2>1. t \in Time /\ t \in Nat
    BY TimesAreNumbers DEF EventTime, Time
  <2>2. event[p].t \in Nat /\ MinDelay \in Nat
    BY <1>1, ConstantsAssumption DEF InvParts
  <2> QED
    BY <1>2, <2>1, <2>2
<1>4. /\ Local(r, t) \in EventStates
      /\ Local(r, t).place = "local" /\ Local(r, t).rank = r /\ Local(r, t).t = t
  BY <1>3, EventsMade
<1> DEFINE ev1 == event'
<1>5. /\ ev1 \in [Events -> EventStates] /\ k \in Events
      /\ ev1[k].place = "local" /\ ev1[k].rank = event[p].rank /\ ev1[k].t = t
      /\ \A j \in Events \ {k} : ev1[j] = event[j]
  BY <1>1, <1>2, <1>4 DEF InvParts, MessageTypes, UnusedEvents
<1> HIDE DEF ev1
<1>6. event[k].place = "unused"
  BY DEF UnusedEvents
<1>7. \A j \in Events : /\ ev1[j].place = "net" <=> event[j].place = "net"
                        /\ ev1[j].place = "net" => ev1[j] = event[j]
  BY <1>5, <1>6
<1>8. InNetwork(ev1) = InNetwork(event) /\ \A u : UnderWay(ev1, u) = UnderWay(event, u)
  BY <1>7 DEF InNetwork, UnderWay
<1>9. TagOK(ev1, e) /\ CountOK(epoch, lsend, lrecv, ev1, e)
  BY <1>1, <1>7, <1>8 DEF InvParts, TagOK, CountOK, InNetwork
<1>10. CoverOK(epoch, lvt, ev1, e)
  <2>1. TimeTypes(epoch, lvt, event) /\ CoverOK(epoch, lvt, event, e)
    BY <1>1 DEF InvParts
  <2>2. event[p].place = "local" /\ ev1[k].t \in Nat /\ event[p].t <= ev1[k].t
    BY <1>2, <1>3, <1>5
  <2> QED
    BY <1>5, <2>1, <2>2, CoverSpawn
<1>11. ComeLater(event, ev1)
  <2> SUFFICES ASSUME NEW j \in Events, ev1[j].place # "unused"
               PROVE  \E i \in Events : event[i].place # "unused" /\ event[i].t <= ev1[j].t
    BY DEF ComeLater
  <2>1. CASE j = k
    BY <1>2, <1>3, <1>5, <2>1
  <2>2. CASE j # k
    <3>1. ev1[j] = event[j] /\ event[j].t \in Nat
      BY <1>1, <1>5, <2>2 DEF InvParts
    <3>2. event[j].t <= ev1[j].t
      BY <3>1
    <3> QED
      BY <3>1, <3>2
  <2> QED
    BY <2>1, <2>2
<1>12. ClientTypes(lvt, lsend, lrecv, ev1)
  BY <1>1, <1>5 DEF InvParts, ClientTypes, Types
<1>13. KeepsCounts(lvt, lsend, lrecv, lvt, lsend, lrecv)
  <2>1. \A q \in Ranks : lrecv[q][0] \in Nat
    BY <1>1 DEF InvParts, Types
  <2> QED
    BY <2>1 DEF KeepsCounts
<1>14. AllOK(collStatus, collRxs, epochGvt, epoch, lvt, lsend, lrecv, rdxn, ups, downs, ev1, round)
  <2>1. /\ e \in Epochs /\ d \in {0, 1} /\ BoundOK(epochGvt, downs, event)
        /\ Types(collStatus, collRxs, epochGvt, epoch, lvt, lsend, lrecv, rdxn, ups, downs, event, round)
        /\ Round(collStatus, collRxs, epoch, lvt, lsend, lrecv, rdxn, ups, downs, event, round, e, d)
    BY <1>1 DEF InvParts
  <2> QED
    BY <1>9, <1>10, <1>11, <1>12, <1>13, <2>1, ClientStep
<1> QED
  BY <1>2, <1>14, InvThen DEF ev1, gvtVars, countVars, treeVars

(* A message is received.                                                  *)
LEMMA StepReceive ==
  ASSUME Inv, NEW r \in Ranks, Receive(r)
  PROVE  Inv'
<1>1. PICK e, d : InvParts(e, d)
  BY InvHasParts
<1>2. PICK k \in NetEvents :
        /\ event[k].rank = r
        /\ lrecv' = [lrecv EXCEPT ![r][RecvIndex(event[k].tag, epoch[r])] = @ + 1]
        /\ event' = [event EXCEPT ![k] = Local(r, @.t)]
        /\ UNCHANGED <<gvtVars, epoch, lvt, lsend, treeVars, round>>
  BY DEF Receive
<1>3. k \in Events /\ k \in InNetwork(event) /\ event[k].place = "net"
  BY DEF NetEvents, InNetwork
<1>4. event[k].t \in Time
  BY <1>1, <1>3 DEF InvParts, MessageTypes, EventStates
<1>5. LET l == Local(r, event[k].t)
      IN  l \in EventStates /\ l.place = "local" /\ l.rank = r /\ l.t = event[k].t
  BY <1>4, EventsMade
<1> DEFINE ev1 == event'  lr1 == lrecv'
<1>6. /\ ev1 \in [Events -> EventStates]
      /\ ev1[k].place = "local" /\ ev1[k].rank = r /\ ev1[k].t = event[k].t
      /\ \A j \in Events \ {k} : ev1[j] = event[j]
  BY <1>1, <1>2, <1>3, <1>5 DEF InvParts, MessageTypes
<1>7. CountsReceived(epoch, lrecv, event, r, k, lr1, ev1)
  <2>1. lr1 = [lrecv EXCEPT ![r][RecvIndex(event[k].tag, epoch[r])] = @ + 1]
    BY <1>2
  <2>2. ev1[k].place # "net"
    BY <1>6
  <2> HIDE DEF ev1, lr1
  <2> QED
    BY <1>3, <1>6, <2>1, <2>2 DEF CountsReceived
<1> HIDE DEF ev1, lr1
<1>8. /\ lr1 \in [Ranks -> [0 .. 2 -> Nat]] /\ CountOK(epoch, lsend, lr1, ev1, e)
      /\ \A q \in Ranks : lrecv[q][0] <= lr1[q][0]
  <2>1. /\ MessageTypes(epoch, lsend, lrecv, event) /\ e \in Epochs /\ Near(epoch, e)
        /\ CountOK(epoch, lsend, lrecv, event, e) /\ TagOK(event, e)
    BY <1>1 DEF InvParts
  <2>2. ev1 \in [Events -> EventStates]
    BY <1>6
  <2> QED
    BY <1>7, <2>1, <2>2, CountReceive
<1>9. TagOK(ev1, e)
  <2>1. \A j \in Events : ev1[j].place = "net" => ev1[j] = event[j]
    BY <1>6
  <2> QED
    BY <1>1, <2>1 DEF InvParts, TagOK, InNetwork
<1>10. CoverOK(epoch, lvt, ev1, e)
  <2>1. TimeTypes(epoch, lvt, event) /\ CoverOK(epoch, lvt, event, e)
    BY <1>1 DEF InvParts
  <2> QED
    BY <1>3, <1>6, <2>1, CoverArrive
<1>11. ComeLater(event, ev1)
  <2> SUFFICES ASSUME NEW j \in Events, ev1[j].place # "unused"
               PROVE  event[j].place # "unused" /\ event[j].t <= ev1[j].t
    BY DEF ComeLater
  <2>1. event[j].t \in Nat
    BY <1>1 DEF InvParts
  <2>2. event[j].place # "unused" /\ event[j].t = ev1[j].t
    BY <1>3, <1>6
  <2> QED
    BY <2>1, <2>2
<1>12. ClientTypes(lvt, lsend, lr1, ev1)
  BY <1>1, <1>6, <1>8 DEF InvParts, ClientTypes, Types
<1>13. KeepsCounts(lvt, lsend, lrecv, lvt, lsend, lr1)
  BY <1>8 DEF KeepsCounts
<1>14. AllOK(collStatus, collRxs, epochGvt, epoch, lvt, lsend, lr1, rdxn, ups, downs, ev1, round)
  <2>1. /\ e \in Epochs /\ d \in {0, 1} /\ BoundOK(epochGvt, downs, event)
        /\ Types(collStatus, collRxs, epochGvt, epoch, lvt, lsend, lrecv, rdxn, ups, downs, event, round)
        /\ Round(collStatus, collRxs, epoch, lvt, lsend, lrecv, rdxn, ups, downs, event, round, e, d)
    BY <1>1 DEF InvParts
  <2> QED
    BY <1>8, <1>9, <1>10, <1>11, <1>12, <1>13, <2>1, ClientStep
<1> QED
  BY <1>2, <1>14, InvThen DEF ev1, lr1, gvtVars, countVars, treeVars

(* gvt::send and gvt::bcast_procs.                                         *)
LEMMA StepSend ==
  ASSUME Inv, NEW r \in Ranks, SendSome(r)
  PROVE  Inv'
<1>1. PICK e, d : InvParts(e, d)
  BY InvHasParts
<1>2. PICK p \in Events, t \in EventTime, news \in SUBSET UnusedEvents :
        \E dst \in [news -> Ranks] : Send(r, p, news, dst, t)
  BY DEF SendSome
<1>3. PICK dst \in [news -> Ranks] : Send(r, p, news, dst, t)
  BY <1>2
<1>4. /\ event[p].place = "local" /\ event[p].rank = r
      /\ t >= event[p].t + MinDelay
      /\ lsend' = [lsend EXCEPT ![r][1] = @ + Cardinality(news)]
      /\ lvt' = [lvt EXCEPT ![r][1] = Least(@, t)]
      /\ event' = [k \in Events |-> IF k \in news THEN InNet(dst[k], t, NextEpoch(epoch[r]), r)
                                   ELSE event[k]]
      /\ UNCHANGED <<gvtVars, epoch, lrecv, treeVars, round>>
  BY <1>3 DEF Send, NextEpoch
<1>5. t \in Time /\ t \in Nat /\ event[p].t \in Nat /\ event[p].t <= t
  <2>1. t \in Time /\ t \in Nat
    BY TimesAreNumbers DEF EventTime, Time
  <2>2. event[p].t \in Nat /\ MinDelay \in Nat
    BY <1>1, ConstantsAssumption DEF InvParts
  <2> QED
    BY <1>4, <2>1, <2>2
<1>6. epoch[r] \in Epochs /\ NextEpoch(epoch[r]) \in Epochs
      /\ (epoch[r] = e \/ NextEpoch(epoch[r]) = e)
  BY <1>1, EpochsAreNumbers DEF InvParts, Near
<1>7. \A z \in Ranks :
        LET m == InNet(z, t, NextEpoch(epoch[r]), r)
        IN  /\ m \in EventStates /\ m.place = "net" /\ m.rank = z /\ m.t = t
            /\ m.tag = NextEpoch(epoch[r]) /\ m.src = r
  BY <1>5, <1>6, EventsMade
<1>8. /\ news \in SUBSET Events
      /\ \A k \in news : event[k].place = "unused" /\ dst[k] \in Ranks
      /\ event \in [Events -> EventStates]
  BY <1>1 DEF UnusedEvents, InvParts, MessageTypes
<1> DEFINE ev1 == event'  lv1 == lvt'  ls1 == lsend'
<1>9. \A k \in news : /\ ev1[k] \in EventStates /\ ev1[k].place = "net" /\ ev1[k].t = t
                      /\ ev1[k].tag = NextEpoch(epoch[r]) /\ ev1[k].src = r
  <2> SUFFICES ASSUME NEW k \in news
               PROVE  /\ ev1[k] \in EventStates /\ ev1[k].place = "net" /\ ev1[k].t = t
                      /\ ev1[k].tag = NextEpoch(epoch[r]) /\ ev1[k].src = r
    OBVIOUS
  <2>1. ev1[k] = InNet(dst[k], t, NextEpoch(epoch[r]), r) /\ dst[k] \in Ranks
    BY <1>4, <1>8
  <2> HIDE DEF ev1
  <2> QED
    BY <1>7, <2>1
<1>10. \A k \in Events \ news : ev1[k] = event[k]
  BY <1>4
<1>11. ev1 \in [Events -> EventStates]
  <2>1. \A k \in Events : ev1[k] \in EventStates
    BY <1>8, <1>9, <1>10
  <2>2. ev1 = [k \in Events |-> ev1[k]]
    BY <1>4
  <2> HIDE DEF ev1
  <2> QED
    BY <2>1, <2>2
<1>12. CountsSent(epoch, lsend, event, r, news, ls1, ev1)
  <2>1. ls1 = [lsend EXCEPT ![r][1] = @ + Cardinality(news)]
    BY <1>4
  <2> HIDE DEF ev1, ls1
  <2> QED
    BY <1>8, <1>9, <1>10, <2>1 DEF CountsSent
<1>13. Creates(epoch, lvt, event, r, p, t, news, lv1, ev1)
  <2>1. lv1 = [lvt EXCEPT ![r][1] = Least(@, t)]
    BY <1>4
  <2> HIDE DEF ev1, lv1
  <2> QED
    BY <1>4, <1>5, <1>8, <1>9, <1>10, <2>1 DEF Creates
<1> HIDE DEF ev1, lv1, ls1
<1>14. ls1 \in [Ranks -> [0 .. 1 -> Nat]] /\ CountOK(epoch, ls1, lrecv, ev1, e)
  <2>1. /\ MessageTypes(epoch, lsend, lrecv, event) /\ e \in Epochs /\ Near(epoch, e)
        /\ CountOK(epoch, lsend, lrecv, event, e)
    BY <1>1 DEF InvParts
  <2> QED
    BY <1>11, <1>12, <2>1, CountSend
<1>15. /\ lv1 \in [Ranks -> [0 .. 1 -> Time]] /\ CoverOK(epoch, lv1, ev1, e)
       /\ \A q \in Ranks : lv1[q][0] = lvt[q][0]
  <2>1. /\ TimeTypes(epoch, lvt, event) /\ e \in Epochs /\ Near(epoch, e)
        /\ CoverOK(epoch, lvt, event, e)
    BY <1>1 DEF InvParts
  <2> QED
    BY <1>11, <1>13, <2>1, CoverCreate
<1>16. TagOK(ev1, e)
  <2> SUFFICES ASSUME NEW k \in Events, ev1[k].place = "net"
               PROVE  ev1[k].tag \in {e, NextEpoch(e)}
    BY DEF TagOK, InNetwork
  <2>1. CASE k \in news
    BY <1>6, <1>9, <2>1
  <2>2. CASE k \notin news
    BY <1>1, <1>10, <2>2 DEF InvParts, TagOK, InNetwork
  <2> QED
    BY <2>1, <2>2
<1>17. ComeLater(event, ev1)
  <2> SUFFICES ASSUME NEW j \in Events, ev1[j].place # "unused"
               PROVE  \E i \in Events : event[i].place # "unused" /\ event[i].t <= ev1[j].t
    BY DEF ComeLater
  <2>1. CASE j \in news
    BY <1>4, <1>5, <1>9, <2>1
  <2>2. CASE j \notin news
    <3>1. ev1[j] = event[j] /\ event[j].t \in Nat
      BY <1>1, <1>10, <2>2 DEF InvParts
    <3>2. event[j].t <= ev1[j].t
      BY <3>1
    <3> QED
      BY <3>1, <3>2
  <2> QED
    BY <2>1, <2>2
<1>18. ClientTypes(lv1, ls1, lrecv, ev1)
  BY <1>1, <1>11, <1>14, <1>15 DEF InvParts, ClientTypes, Types
<1>19. KeepsCounts(lvt, lsend, lrecv, lv1, ls1, lrecv)
  <2>1. \A q \in Ranks : lrecv[q][0] \in Nat
    BY <1>1 DEF InvParts, Types
  <2>2. \A q \in Ranks : ls1[q][0] = lsend[q][0]
    BY <1>1, <1>12 DEF CountsSent, InvParts, MessageTypes
  <2> QED
    BY <1>15, <2>1, <2>2 DEF KeepsCounts
<1>20. AllOK(collStatus, collRxs, epochGvt, epoch, lv1, ls1, lrecv, rdxn, ups, downs, ev1, round)
  <2>1. /\ e \in Epochs /\ d \in {0, 1} /\ BoundOK(epochGvt, downs, event)
        /\ Types(collStatus, collRxs, epochGvt, epoch, lvt, lsend, lrecv, rdxn, ups, downs, event, round)
        /\ Round(collStatus, collRxs, epoch, lvt, lsend, lrecv, rdxn, ups, downs, event, round, e, d)
    BY <1>1 DEF InvParts
  <2> QED
    BY <1>14, <1>15, <1>16, <1>17, <1>18, <1>19, <2>1, ClientStep
<1> QED
  BY <1>4, <1>20, InvThen DEF ev1, lv1, ls1, gvtVars, countVars, treeVars

-----------------------------------------------------------------------------
(* advance().                                                              *)
LEMMA StepAdvance ==
  ASSUME Inv, NEW r \in Ranks, Advance(r)
  PROVE  Inv'
<1>1. PICK e, d : InvParts(e, d)
  BY InvHasParts
<1> DEFINE cs1 == collStatus'  crx1 == collRxs'  eg1 == epochGvt'
<1>2. /\ cs1 = [collStatus EXCEPT ![r][0] = collStatus[r][1]]
      /\ crx1 = [collRxs EXCEPT ![r][0] = collRxs[r][1]]
      /\ eg1 = [epochGvt EXCEPT ![r][0] = epochGvt[r][1]]
      /\ UNCHANGED <<countVars, treeVars, event, round>>
  BY DEF Advance
<1>3. Seen(collStatus, collRxs, r, cs1, crx1)
  BY <1>2 DEF Seen
<1>4. eg1 \in [Ranks -> [0 .. 1 -> Time]] /\ \A q \in Ranks : eg1[q][1] = epochGvt[q][1]
  BY <1>1, <1>2 DEF InvParts, Types
<1> HIDE DEF cs1, crx1, eg1
<1>5. Unmoved(collStatus, epoch, round, downs, e, d, cs1, crx1)
  <2>1. /\ collRxs \in [Ranks -> [0 .. 1 -> Nat]] /\ StatusTypes(collStatus, epoch, round, downs)
        /\ CollOK(collStatus, collRxs, epoch, round, downs, e, d)
    BY <1>1 DEF InvParts, Types, Round, StatusTypes
  <2> QED
    BY <1>3, <2>1, CollAdvance
<1>6. Types(cs1, crx1, eg1, epoch, lvt, lsend, lrecv, rdxn, ups, downs, event, round)
  BY <1>1, <1>4, <1>5 DEF InvParts, Types, Unmoved, StatusTypes
<1>7. Round(cs1, crx1, epoch, lvt, lsend, lrecv, rdxn, ups, downs, event, round, e, d)
  BY <1>1, <1>5 DEF InvParts, Round, Unmoved
<1>8. BoundOK(eg1, downs, event)
  BY <1>1, <1>4 DEF InvParts, BoundOK
<1>9. e \in Epochs /\ d \in {0, 1}
  BY <1>1 DEF InvParts
<1>10. AllOK(cs1, crx1, eg1, epoch, lvt, lsend, lrecv, rdxn, ups, downs, event, round)
  BY <1>6, <1>7, <1>8, <1>9 DEF AllOK
<1> QED
  BY <1>2, <1>10, InvThen DEF cs1, crx1, eg1, countVars, treeVars

(* A message m of rdxn_down in its handler: its rank has the result, and   *)
(* the ranks it covers are covered by those it sends.                      *)
Handled(e, d, r, m, q) ==
  /\ m \in downs /\ m \in DownMessages /\ m.dst = r /\ r \in Covers(m)
  /\ q \in BOOLEAN /\ (q <=> m.toUb < 0)
  /\ collStatus' = [collStatus EXCEPT ![r][1] = IF q THEN "quiesced" ELSE "non_quiesced"]
  /\ Told(epochGvt, r, q, m.gvt, epochGvt')
  /\ Delivered(collStatus, epoch, round, downs, e, d, m, q, collStatus', collRxs', downs')
  /\ UNCHANGED <<epoch, lvt, lsend, lrecv, rdxn, ups, event, round>>

(* The handler of rdxn_down does this.                                     *)
LEMMA DownHandled ==
  ASSUME NEW e, NEW d, InvParts(e, d), NEW r \in Ranks, RecvDown(r)
  PROVE  \E m, q : Handled(e, d, r, m, q)
<1>1. PICK m \in downs :
        /\ m.dst = r
        /\ downs' = (downs \ {m}) \cup Halves(r, Marked(m.toUb, m.toUb < 0), m.toUb < 0, m.gvt, m.rxs)
        /\ RdxnDown(r, collStatus, m.toUb < 0, m.gvt, m.rxs)
        /\ UNCHANGED <<countVars, rdxn, ups, event, round>>
  BY DEF RecvDown
<1> DEFINE cs1 == collStatus'  crx1 == collRxs'  eg1 == epochGvt'  dn1 == downs'
           q == m.toUb < 0  g == m.gvt
<1>2. m \in DownMessages /\ m.toUb \in Int
  BY DEF InvParts, Types, DownMessages
<1>3. /\ cs1 = [collStatus EXCEPT ![r][1] = IF q THEN "quiesced" ELSE "non_quiesced"]
      /\ crx1 = [collRxs EXCEPT ![r][1] = m.rxs]
      /\ dn1 = (downs \ {m}) \cup Halves(r, Marked(m.toUb, q), q, g, m.rxs)
      /\ eg1 = IF q THEN [epochGvt EXCEPT ![r][1] = g] ELSE epochGvt
  BY <1>1 DEF RdxnDown
<1>4. q \in BOOLEAN /\ (q <=> m.toUb < 0) /\ r = m.dst
  BY <1>1, <1>2
<1>5. Told(epochGvt, r, q, g, eg1)
  BY <1>3 DEF Told
<1> HIDE DEF cs1, crx1, eg1, dn1, q
<1>6. Forwarded(collStatus, collRxs, downs, m, r, q, cs1, crx1, dn1)
  BY <1>3, <1>4 DEF Forwarded
<1>7. /\ collRxs \in [Ranks -> [0 .. 1 -> Nat]] /\ StatusTypes(collStatus, epoch, round, downs)
      /\ e \in Epochs /\ d \in {0, 1}
      /\ CollOK(collStatus, collRxs, epoch, round, downs, e, d)
  BY DEF InvParts, Types, Round, StatusTypes
<1>8. Delivered(collStatus, epoch, round, downs, e, d, m, q, cs1, crx1, dn1)
  BY <1>6, <1>7, CollDeliver
<1>9. r \in Covers(m)
  BY <1>2, <1>4, <1>7, CoversAreRanks DEF CollOK
<1>10. Handled(e, d, r, m, q)
  BY <1>1, <1>2, <1>3, <1>4, <1>5, <1>8, <1>9 DEF Handled, cs1, crx1, eg1, dn1, countVars
<1> QED
  BY <1>10

(* rdxn_down in its message handler.                                       *)
LEMMA StepRecvDown ==
  ASSUME Inv, NEW r \in Ranks, RecvDown(r)
  PROVE  Inv'
<1>1. PICK e, d : InvParts(e, d)
  BY InvHasParts
<1>2. PICK m, q : Handled(e, d, r, m, q)
  BY <1>1, DownHandled
<1> DEFINE cs1 == collStatus'  crx1 == collRxs'  eg1 == epochGvt'  dn1 == downs'
           g == m.gvt
<1>3. g \in Time /\ m \in downs
  BY <1>2 DEF Handled, DownMessages
<1>4. Told(epochGvt, r, q, g, eg1)
  BY <1>2 DEF Handled
<1>5. q \in BOOLEAN /\ (q <=> m.toUb < 0)
  BY <1>2 DEF Handled
<1>6. Delivered(collStatus, epoch, round, downs, e, d, m, q, cs1, crx1, dn1)
  BY <1>2 DEF Handled
<1> HIDE DEF cs1, crx1, eg1, dn1
<1>7. eg1 \in [Ranks -> [0 .. 1 -> Time]]
      /\ \A z \in Ranks : eg1[z][1] = epochGvt[z][1] \/ (q /\ eg1[z][1] = g)
  BY <1>1, <1>3, <1>4 DEF InvParts, Types, Told
<1>8. Types(cs1, crx1, eg1, epoch, lvt, lsend, lrecv, rdxn, ups, dn1, event, round)
  BY <1>1, <1>6, <1>7 DEF InvParts, Types, Delivered, StatusTypes
<1>9. Round(cs1, crx1, epoch, lvt, lsend, lrecv, rdxn, ups, dn1, event, round, e, d)
  BY <1>1, <1>6 DEF InvParts, Round, Delivered
<1>10. BoundOK(eg1, dn1, event)
  <2>1. q => NothingBefore(event, g)
    BY <1>1, <1>3, <1>5 DEF InvParts, BoundOK
  <2>2. \A n \in dn1 : n \in downs \/ (n.gvt = g /\ (n.toUb < 0) = q)
    BY <1>6 DEF Delivered
  <2> HIDE DEF g
  <2>3. ASSUME NEW n \in dn1, n.toUb < 0 PROVE NothingBefore(event, n.gvt)
    <3>1. CASE n \in downs
      BY <1>1, <2>3, <3>1 DEF InvParts, BoundOK
    <3>2. CASE n.gvt = g /\ (n.toUb < 0) = q
      BY <2>1, <2>3, <3>2
    <3> QED
      BY <2>2, <3>1, <3>2
  <2>4. \A z \in Ranks : NothingBefore(event, eg1[z][1])
    BY <1>1, <1>7, <2>1 DEF InvParts, BoundOK
  <2> QED
    BY <2>3, <2>4 DEF BoundOK
<1>11. e \in Epochs /\ d \in {0, 1}
  BY <1>1 DEF InvParts
<1>12. AllOK(cs1, crx1, eg1, epoch, lvt, lsend, lrecv, rdxn, ups, dn1, event, round)
  BY <1>8, <1>9, <1>10, <1>11 DEF AllOK
<1> QED
  BY <1>2, <1>12, InvThen DEF cs1, crx1, eg1, dn1, Handled

-----------------------------------------------------------------------------
(* Accumulate in the form that the facts about the tree use.               *)
LEMMA AccumulateIs ==
  ASSUME NEW me \in Ranks, rdxn \in [Ranks -> Sums], NEW v, NEW s, NEW c, NEW x
  PROVE  /\ IsAccumulated(rdxn[me], Accumulate(me, v, s, c, x), me, v, s, c, x)
         /\ Accumulate(me, v, s, c, x).incoming \in Nat
<1>1. KidCount(me) \in Nat /\ rdxn[me].incoming \in Nat
  BY WholeCount DEF Sums
<1> HIDE DEF KidCount, Least
<1>2. CASE rdxn[me].incoming = 0
  BY <1>1, <1>2 DEF Accumulate, IsAccumulated
<1>3. CASE rdxn[me].incoming # 0
  BY <1>1, <1>3 DEF Accumulate, IsAccumulated
<1> QED
  BY <1>2, <1>3

(* The call of rdxn_up with what the rank has after it has entered.        *)
LEMMA RdxnUpOutcome ==
  ASSUME NEW me \in Ranks, rdxn \in [Ranks -> Sums], NEW st, NEW v, NEW s, NEW c, NEW x,
         NEW up1, RdxnUp(me, st, v, s, c, x, up1),
         NEW new, new = Accumulate(me, v, s, c, x), NEW q \in BOOLEAN, q <=> new.gsend = new.grecv
  PROVE  Outcome(st, collRxs, epochGvt, rdxn, downs, up1, me, new, q,
                 collStatus', collRxs', epochGvt', rdxn', ups', downs')
<1>1. new.incoming \in Nat
  BY AccumulateIs
<1>2. /\ rdxn' = [rdxn EXCEPT ![me] = new]
      /\ CASE new.incoming > 0 ->
                /\ ups' = up1 /\ collStatus' = st
                /\ UNCHANGED <<downs, collRxs, epochGvt>>
           [] new.incoming = 0 /\ me # 0 ->
                /\ ups' = up1 \cup {UpMessage(me, new)}
                /\ collStatus' = st
                /\ UNCHANGED <<downs, collRxs, epochGvt>>
           [] new.incoming = 0 /\ me = 0 ->
                /\ ups' = up1
                /\ downs' = downs \cup Halves(0, N, new.gsend = new.grecv, new.gvtAcc, new.rxsAcc)
                /\ RdxnDown(0, st, new.gsend = new.grecv, new.gvtAcc, new.rxsAcc)
  BY DEF RdxnUp, UpMessage
<1>3. CASE new.incoming > 0
  <2>1. ~ (new.incoming = 0)
    BY <1>1, <1>3
  <2>2. /\ ups' = up1 /\ collStatus' = st
        /\ UNCHANGED <<downs, collRxs, epochGvt>>
    BY <1>2, <1>3, <2>1
  <2> QED
    BY <1>2, <1>3, <2>2 DEF Outcome
<1>4. CASE new.incoming = 0 /\ me # 0
  <2>1. ~ (new.incoming > 0)
    BY <1>4
  <2>2. /\ ups' = up1 \cup {UpMessage(me, new)} /\ collStatus' = st
        /\ UNCHANGED <<downs, collRxs, epochGvt>>
    BY <1>2, <1>4, <2>1
  <2> HIDE DEF UpMessage
  <2> QED
    BY <1>2, <1>4, <2>2 DEF Outcome
<1>5. CASE new.incoming = 0 /\ me = 0
  <2>1. /\ ups' = up1
        /\ downs' = downs \cup Halves(0, N, new.gsend = new.grecv, new.gvtAcc, new.rxsAcc)
        /\ RdxnDown(0, st, new.gsend = new.grecv, new.gvtAcc, new.rxsAcc)
    BY <1>2, <1>5
  <2>2. (new.gsend = new.grecv) = q
    OBVIOUS
  <2>3. /\ downs' = downs \cup Halves(0, N, q, new.gvtAcc, new.rxsAcc)
        /\ RdxnDown(0, st, q, new.gvtAcc, new.rxsAcc)
    BY <2>1, <2>2
  <2>4. /\ Drawn(st, collRxs, downs, q, new.gvtAcc, new.rxsAcc, collStatus', collRxs', downs')
        /\ Told(epochGvt, 0, q, new.gvtAcc, epochGvt')
    BY <2>3 DEF RdxnDown, Drawn, Told
  <2> QED
    BY <1>2, <1>5, <2>1, <2>4 DEF Outcome
<1> QED
  BY <1>1, <1>3, <1>4, <1>5

-----------------------------------------------------------------------------
(* The lvt that a client passes is not after its events.                   *)
LEMMA LocalVtIsLeast ==
  ASSUME event \in [Events -> EventStates], NEW r \in Ranks
  PROVE  LocalVt(r) \in Time /\ Since(event, r, LocalVt(r))
<1>1. LocalTimes(r) \subseteq Time /\ Time \subseteq Nat /\ Inf \in Time
  BY TimesAreNumbers DEF LocalTimes, EventStates
<1>2. \A k \in Events : event[k].place = "local" /\ event[k].rank = r => event[k].t \in LocalTimes(r)
  BY DEF LocalTimes
<1>3. CASE LocalTimes(r) = {}
  BY <1>1, <1>2, <1>3 DEF LocalVt, Since
<1>4. CASE LocalTimes(r) # {}
  <2> DEFINE L == LocalTimes(r)
             l == CHOOSE t \in L : \A u \in L : t <= u
  <2>1. L \subseteq Nat /\ L # {}
    BY <1>1, <1>4
  <2> HIDE DEF L
  <2>2. \E t \in L : \A u \in L : t <= u
    BY <2>1, LeastElement
  <2>3. l \in L /\ \A u \in L : l <= u
    BY <2>2
  <2>4. LocalVt(r) = l
    BY <1>4 DEF LocalVt, L
  <2> HIDE DEF l
  <2> QED
    BY <1>1, <1>2, <2>3, <2>4 DEF Since, L
<1> QED
  BY <1>3, <1>4

-----------------------------------------------------------------------------
(* What a call of rdxn_up needs: the round with the contributions C that   *)
(* have been counted, and the part P that it brings.                       *)
Ready(cs, crx, eg, ep, lv, ls, lr, rx, up, dn, ev, rd, e, d, C) ==
  /\ Types(cs, crx, eg, ep, lv, ls, lr, rx, up, dn, ev, rd)
  /\ e \in Epochs /\ d \in {0, 1}
  /\ CollOK(cs, crx, ep, rd, dn, e, d)
  /\ TagOK(ev, e) /\ CountOK(ep, ls, lr, ev, e) /\ CoverOK(ep, lv, ev, e)
  /\ BoundOK(eg, dn, ev)
  /\ C \subseteq Ranks /\ TreeOK(C, rx, up, lv, ls, lr, rd)

(* What is brought: the sums over P of which a is the source.              *)
Brings(cs, dn, lv, ls, lr, rd, rx, up, up1, C, me, a, P, v, s, c, x, new, q) ==
  /\ me \in Ranks /\ up1 \subseteq up
  /\ Arrives(C, Sources(up), Contrib(cs, dn), Sources(up1), me, a, P)
  /\ v \in Time /\ s \in Nat /\ c \in Nat /\ x \in Nat
  /\ IsSum(lv, ls, lr, rd, P, v, s, c, x)
  /\ IsAccumulated(rx[me], new, me, v, s, c, x)
  /\ q \in BOOLEAN /\ (q <=> new.gsend = new.grecv)

(* The fact about a call of rdxn_up, with its hypotheses in two            *)
(* definitions.                                                            *)
LEMMA RisingPart ==
  ASSUME NEW cs, NEW crx, NEW eg, NEW ep, NEW lv, NEW ls, NEW lr, NEW rx, NEW up, NEW dn,
         NEW ev, NEW rd, NEW e, NEW d, NEW C,
         Ready(cs, crx, eg, ep, lv, ls, lr, rx, up, dn, ev, rd, e, d, C),
         NEW up1, NEW me, NEW a, NEW P, NEW v, NEW s, NEW c, NEW x, NEW new, NEW q,
         Brings(cs, dn, lv, ls, lr, rd, rx, up, up1, C, me, a, P, v, s, c, x, new, q),
         NEW cs2, NEW crx2, NEW eg2, NEW rx2, NEW up2, NEW dn2,
         Outcome(cs, crx, eg, rx, dn, up1, me, new, q, cs2, crx2, eg2, rx2, up2, dn2)
  PROVE  AllOK(cs2, crx2, eg2, ep, lv, ls, lr, rx2, up2, dn2, ev, rd)
<1>1. /\ Types(cs, crx, eg, ep, lv, ls, lr, rx, up, dn, ev, rd)
      /\ e \in Epochs /\ d \in {0, 1}
      /\ CollOK(cs, crx, ep, rd, dn, e, d)
      /\ TagOK(ev, e) /\ CountOK(ep, ls, lr, ev, e) /\ CoverOK(ep, lv, ev, e)
      /\ BoundOK(eg, dn, ev)
      /\ C \subseteq Ranks /\ TreeOK(C, rx, up, lv, ls, lr, rd)
  BY DEF Ready
<1>2. /\ me \in Ranks /\ up1 \subseteq up
      /\ Arrives(C, Sources(up), Contrib(cs, dn), Sources(up1), me, a, P)
      /\ v \in Time /\ s \in Nat /\ c \in Nat /\ x \in Nat
      /\ IsSum(lv, ls, lr, rd, P, v, s, c, x)
      /\ IsAccumulated(rx[me], new, me, v, s, c, x)
      /\ q \in BOOLEAN /\ (q <=> new.gsend = new.grecv)
  BY DEF Brings
<1> QED
  BY <1>1, <1>2, Rising

-----------------------------------------------------------------------------
(* The rank moves to the epoch of the collective, or is there already.     *)
Entry(ep, lv, ls, lr, ev, r, e, ep1, lv1, ls1, lr1) ==
  /\ MessageTypes(ep1, ls1, lr1, ev) /\ CountOK(ep1, ls1, lr1, ev, e)
  /\ TimeTypes(ep1, lv1, ev) /\ CoverOK(ep1, lv1, ev, e)
  /\ \A q \in Ranks \ {r} : lv1[q] = lv[q] /\ ls1[q] = ls[q] /\ lr1[q] = lr[q]

(* coll_begin calls rdxn_up with what rank r contributes, new being the    *)
(* accumulators of r after it.                                             *)
Reducing(r) == [collStatus EXCEPT ![r] = [i \in 0 .. 1 |-> "reducing"]]

Contributes(e, d, r, new, q) ==
  /\ r \notin Contrib(collStatus, downs)
  /\ Contrib(Reducing(r), downs) = Contrib(collStatus, downs) \cup {r}
  /\ Ready(Reducing(r), collRxs, epochGvt, epoch', lvt', lsend', lrecv', rdxn, ups, downs,
           event, round', e, d, Contrib(collStatus, downs))
  /\ Brings(Reducing(r), downs, lvt', lsend', lrecv', round', rdxn, ups, ups,
            Contrib(collStatus, downs), r, r, {r},
            lvt'[r][0], lsend'[r][0], lrecv'[r][0], round'[r], new, q)
  /\ Outcome(Reducing(r), collRxs, epochGvt, rdxn, downs, ups, r, new, q,
             collStatus', collRxs', epochGvt', rdxn', ups', downs')

(* coll_begin, with its own call of rdxn_up, does this.                    *)
LEMMA CollBeginContributes ==
  ASSUME Inv, NEW r \in Ranks, CollBegin(r)
  PROVE  \E e, d, new, q : Contributes(e, d, r, new, q)
<1>1. PICK e, d : InvParts(e, d)
  BY InvHasParts
<1> DEFINE moved == collStatus[r][0] = "quiesced"
           st == [collStatus EXCEPT ![r] = [i \in 0 .. 1 |-> "reducing"]]
           ep1 == epoch'  lv1 == lvt'  ls1 == lsend'  lr1 == lrecv'  rd1 == round'
           C == Contrib(collStatus, downs)
<1>2. /\ collStatus[r][0] # "reducing" /\ collStatus[r][0] = collStatus[r][1]
      /\ rd1 = [round EXCEPT ![r] = 1 - @]
      /\ RdxnUp(r, st, lv1[r][0], ls1[r][0], lr1[r][0], rd1[r], ups)
      /\ event' = event
  BY DEF CollBegin
<1>3. moved =>
        /\ ep1 = [epoch EXCEPT ![r] = NextEpoch(@)]
        /\ lv1 = [lvt EXCEPT ![r] = [i \in 0 .. 1 |->
                     IF i = 0 THEN Least(LocalVt(r), @[1]) ELSE Inf]]
        /\ ls1 = [lsend EXCEPT ![r] = [i \in 0 .. 1 |-> IF i = 0 THEN @[1] ELSE 0]]
        /\ lr1 = [lrecv EXCEPT ![r] = [i \in 0 .. 2 |-> IF i < 2 THEN @[i + 1] ELSE 0]]
  BY DEF CollBegin
<1>4. ~ moved => ep1 = epoch /\ lv1 = lvt /\ ls1 = lsend /\ lr1 = lrecv
  BY DEF CollBegin, countVars
<1>5. Begun(collStatus, epoch, round, r, st, ep1, rd1)
  BY <1>2, <1>3, <1>4 DEF Begun
<1>6. Joined(collStatus, collRxs, epoch, round, downs, e, d, r, st, ep1, rd1)
  <2>1. /\ StatusTypes(collStatus, epoch, round, downs) /\ e \in Epochs /\ d \in {0, 1}
        /\ CollOK(collStatus, collRxs, epoch, round, downs, e, d)
    BY <1>1 DEF InvParts, Types, Round, StatusTypes
  <2> HIDE DEF st, ep1, rd1
  <2> QED
    BY <1>5, <2>1, CollEnter
<1>7. Entry(epoch, lvt, lsend, lrecv, event, r, e, ep1, lv1, ls1, lr1)
  <2>1. /\ e \in Epochs /\ NextEpoch(e) # e
        /\ MessageTypes(epoch, lsend, lrecv, event) /\ CountOK(epoch, lsend, lrecv, event, e)
        /\ TimeTypes(epoch, lvt, event) /\ CoverOK(epoch, lvt, event, e)
    BY <1>1 DEF InvParts
  <2>2. CASE moved
    <3>1. NextEpoch(epoch[r]) = e
      BY <1>1, <1>2, <2>2 DEF InvParts, Round, CollOK, Entering
    <3>2. epoch[r] # e
      BY <2>1, <3>1
    <3>3. Shifted(epoch, lsend, lrecv, r, e, ep1, ls1, lr1)
      BY <1>3, <2>2, <3>1, <3>2 DEF Shifted
    <3>4. Lowered(epoch, lvt, r, e, LocalVt(r), ep1, lv1)
      BY <1>3, <2>2, <3>1, <3>2 DEF Lowered
    <3>5. LocalVt(r) \in Time /\ Since(event, r, LocalVt(r))
      BY <2>1, LocalVtIsLeast DEF MessageTypes
    <3>6. \A q \in Ranks \ {r} : lv1[q] = lvt[q] /\ ls1[q] = lsend[q] /\ lr1[q] = lrecv[q]
      BY <1>3, <2>1, <2>2 DEF MessageTypes, TimeTypes
    <3> HIDE DEF ep1, lv1, ls1, lr1
    <3>7. MessageTypes(ep1, ls1, lr1, event) /\ CountOK(ep1, ls1, lr1, event, e)
      BY <2>1, <3>3, CountEnter
    <3>8. TimeTypes(ep1, lv1, event) /\ CoverOK(ep1, lv1, event, e)
      BY <2>1, <3>4, <3>5, CoverEnter
    <3> QED
      BY <3>6, <3>7, <3>8 DEF Entry
  <2>3. CASE ~ moved
    BY <1>4, <2>1, <2>3 DEF Entry
  <2> QED
    BY <2>2, <2>3
<1> DEFINE v == lv1[r][0]  s == ls1[r][0]  c == lr1[r][0]  x == rd1[r]
           new == Accumulate(r, v, s, c, x)
           q == new.gsend = new.grecv
<1>8. RdxnUp(r, st, v, s, c, x, ups)
  BY <1>2
<1> HIDE DEF moved, st, ep1, lv1, ls1, lr1, rd1, C
<1>9. Types(st, collRxs, epochGvt, ep1, lv1, ls1, lr1, rdxn, ups, downs, event, rd1)
  <2>1. MessageTypes(ep1, ls1, lr1, event) /\ TimeTypes(ep1, lv1, event)
    BY <1>7 DEF Entry
  <2>2. StatusTypes(st, ep1, rd1, downs)
    BY <1>6 DEF Joined
  <2> QED
    BY <1>1, <2>1, <2>2 DEF InvParts, Types, MessageTypes, TimeTypes, StatusTypes
<1>10. C \subseteq Ranks /\ r \notin C /\ Contrib(st, downs) = C \cup {r}
  BY <1>6 DEF Joined, C, Contrib
<1>11. TreeOK(C, rdxn, ups, lv1, ls1, lr1, rd1)
  <2>1. CountTypes(lvt, lsend, lrecv, round) /\ CountTypes(lv1, ls1, lr1, rd1)
    BY <1>1, <1>9 DEF InvParts, Types, CountTypes
  <2>2. ups \subseteq UpMessages /\ rdxn \in [Ranks -> Sums]
        /\ TreeOK(C, rdxn, ups, lvt, lsend, lrecv, round)
    BY <1>1 DEF InvParts, Types, Round, C
  <2>3. \A z \in C : /\ lv1[z][0] = lvt[z][0] /\ ls1[z][0] = lsend[z][0]
                     /\ lrecv[z][0] <= lr1[z][0] /\ rd1[z] = round[z]
    <3> SUFFICES ASSUME NEW z \in C
                 PROVE  /\ lv1[z][0] = lvt[z][0] /\ ls1[z][0] = lsend[z][0]
                        /\ lrecv[z][0] <= lr1[z][0] /\ rd1[z] = round[z]
      OBVIOUS
    <3>1. z \in Ranks \ {r}
      BY <1>10
    <3>2. lv1[z] = lvt[z] /\ ls1[z] = lsend[z] /\ lr1[z] = lrecv[z]
      BY <1>7, <3>1 DEF Entry
    <3>3. rd1[z] = round[z]
      BY <1>6, <3>1 DEF Joined
    <3>4. lrecv[z][0] \in Nat
      BY <2>1, <3>1 DEF CountTypes
    <3>5. lrecv[z][0] <= lr1[z][0]
      BY <3>2, <3>4
    <3> QED
      BY <3>2, <3>3, <3>5
  <2> QED
    BY <1>10, <2>1, <2>2, <2>3, TreeFrame
<1>12. Ready(st, collRxs, epochGvt, ep1, lv1, ls1, lr1, rdxn, ups, downs, event, rd1, e, d, C)
  <2>1. /\ e \in Epochs /\ d \in {0, 1} /\ TagOK(event, e) /\ BoundOK(epochGvt, downs, event)
    BY <1>1 DEF InvParts
  <2>2. CollOK(st, collRxs, ep1, rd1, downs, e, d)
    BY <1>6 DEF Joined
  <2>3. CountOK(ep1, ls1, lr1, event, e) /\ CoverOK(ep1, lv1, event, e)
    BY <1>7 DEF Entry
  <2> QED
    BY <1>9, <1>10, <1>11, <2>1, <2>2, <2>3 DEF Ready
<1>13. v \in Time /\ s \in Nat /\ c \in Nat /\ x \in Nat
  BY <1>9 DEF Types
<1>14. rdxn \in [Ranks -> Sums]
  BY <1>1 DEF InvParts, Types
<1>15. IsSum(lv1, ls1, lr1, rd1, {r}, v, s, c, x)
  <2>1. SumOf(First(ls1), {r}) = s /\ SumOf(First(lr1), {r}) = c /\ SumOf(rd1, {r}) = x
    <3>1. First(ls1)[r] = s /\ First(lr1)[r] = c
      BY DEF First
    <3> QED
      BY <1>13, <3>1, SumOne
  <2>2. v <= v /\ c <= c
    <3>1. v \in Nat /\ c \in Nat
      BY <1>13, TimesAreNumbers
    <3> HIDE DEF v, c
    <3> QED
      BY <3>1
  <2> QED
    BY <2>1, <2>2 DEF IsSum
<1>16. IsAccumulated(rdxn[r], new, r, v, s, c, x)
  BY <1>14, AccumulateIs
<1>17. q \in BOOLEAN /\ (q <=> new.gsend = new.grecv)
  OBVIOUS
<1>18. Outcome(st, collRxs, epochGvt, rdxn, downs, ups, r, new, q,
               collStatus', collRxs', epochGvt', rdxn', ups', downs')
  <2>1. new = Accumulate(r, v, s, c, x)
    OBVIOUS
  <2> HIDE DEF new, q, v, s, c, x
  <2> QED
    BY <1>8, <1>14, <1>17, <2>1, RdxnUpOutcome
<1> HIDE DEF new, q, v, s, c, x
<1>19. Brings(st, downs, lv1, ls1, lr1, rd1, rdxn, ups, ups, C, r, r, {r}, v, s, c, x, new, q)
  <2>1. Arrives(C, Sources(ups), Contrib(st, downs), Sources(ups), r, r, {r})
    BY <1>10 DEF Arrives
  <2> QED
    BY <1>13, <1>15, <1>16, <1>17, <2>1 DEF Brings
<1>20. Contributes(e, d, r, new, q)
  BY <1>10, <1>12, <1>18, <1>19
  DEF Contributes, Reducing, st, ep1, lv1, ls1, lr1, rd1, C, v, s, c, x
<1> QED
  BY <1>20

(* coll_begin keeps the invariant.                                         *)
LEMMA StepCollBegin ==
  ASSUME Inv, NEW r \in Ranks, CollBegin(r)
  PROVE  Inv'
<1>1. PICK e, d, new, q : Contributes(e, d, r, new, q)
  BY CollBeginContributes
<1>2. event' = event
  BY DEF CollBegin
<1>3. AllOK(collStatus', collRxs', epochGvt', epoch', lvt', lsend', lrecv', rdxn', ups', downs',
            event, round')
  BY <1>1, RisingPart DEF Contributes
<1> QED
  BY <1>2, <1>3, InvThen

-----------------------------------------------------------------------------
(* The handler of rdxn_up adds the sums of message m to those of rank r,   *)
(* new being the accumulators of r after it.                               *)
Joins(e, d, r, m, new, q) ==
  /\ m \in ups /\ m \in UpMessages /\ \A n \in ups : n.src = m.src => n = m
  /\ Ready(collStatus, collRxs, epochGvt, epoch, lvt, lsend, lrecv, rdxn, ups, downs, event,
           round, e, d, Contrib(collStatus, downs))
  /\ Brings(collStatus, downs, lvt, lsend, lrecv, round, rdxn, ups, ups \ {m},
            Contrib(collStatus, downs), r, m.src, Subtree(m.src),
            m.lvt, m.send, m.recv, m.rxs, new, q)
  /\ Outcome(collStatus, collRxs, epochGvt, rdxn, downs, ups \ {m}, r, new, q,
             collStatus', collRxs', epochGvt', rdxn', ups', downs')
  /\ UNCHANGED <<epoch, lvt, lsend, lrecv, event, round>>

(* The handler of rdxn_up does this.                                       *)
LEMMA RecvUpJoins ==
  ASSUME NEW e, NEW d, InvParts(e, d), NEW r \in Ranks, RecvUp(r)
  PROVE  \E m, new, q : Joins(e, d, r, m, new, q)
<1>1. InvParts(e, d)
  OBVIOUS
<1>2. PICK m \in ups :
        /\ m.dst = r
        /\ RdxnUp(r, collStatus, m.lvt, m.send, m.recv, m.rxs, ups \ {m})
        /\ UNCHANGED <<countVars, event, round>>
  BY DEF RecvUp
<1> DEFINE C == Contrib(collStatus, downs)
           P == Subtree(m.src)
           up1 == ups \ {m}
           v == m.lvt  s == m.send  c == m.recv  x == m.rxs
           new == Accumulate(r, v, s, c, x)
           q == new.gsend = new.grecv
<1>3. /\ ups \subseteq UpMessages /\ rdxn \in [Ranks -> Sums]
      /\ CollOK(collStatus, collRxs, epoch, round, downs, e, d)
      /\ TreeOK(C, rdxn, ups, lvt, lsend, lrecv, round)
  BY <1>1 DEF InvParts, Types, Round
<1>4. m.src \in Ranks \ {0} /\ v \in Time /\ s \in Nat /\ c \in Nat /\ x \in Nat
  BY <1>3 DEF UpMessages
<1>5. UpOK(C, ups, lvt, lsend, lrecv, round)
  BY <1>3 DEF TreeOK
<1>6. /\ m.dst = Parent(m.src)
      /\ \A n \in ups : n.src = m.src => n = m
      /\ IsSum(lvt, lsend, lrecv, round, P, v, s, c, x)
  BY <1>5 DEF UpOK
<1>7. C \subseteq Ranks
  BY DEF Contrib
<1>8. Ready(collStatus, collRxs, epochGvt, epoch, lvt, lsend, lrecv, rdxn, ups, downs, event, round, e, d, C)
  BY <1>1, <1>3, <1>7 DEF InvParts, Ready
<1>9. m.src \in Kids(r) /\ m.src \in Sources(ups)
  BY <1>2, <1>4, <1>6, ParentExists DEF Sources
<1>10. Sources(up1) = Sources(ups) \ {m.src}
  BY <1>6 DEF Sources
<1>11. Arrives(C, Sources(ups), C, Sources(up1), r, m.src, P)
  <2> HIDE DEF C, up1
  <2> QED
    BY <1>9, <1>10 DEF Arrives
<1>12. IsAccumulated(rdxn[r], new, r, v, s, c, x)
  BY <1>3, AccumulateIs
<1>13. q \in BOOLEAN /\ (q <=> new.gsend = new.grecv) /\ new = Accumulate(r, v, s, c, x)
  OBVIOUS
<1>14. RdxnUp(r, collStatus, v, s, c, x, up1) /\ up1 \subseteq ups
  BY <1>2
<1> HIDE DEF new, q, v, s, c, x, up1, P
<1>15. Outcome(collStatus, collRxs, epochGvt, rdxn, downs, up1, r, new, q,
               collStatus', collRxs', epochGvt', rdxn', ups', downs')
  BY <1>3, <1>13, <1>14, RdxnUpOutcome
<1>16. Brings(collStatus, downs, lvt, lsend, lrecv, round, rdxn, ups, up1, C, r, m.src, P, v, s, c, x, new, q)
  BY <1>4, <1>6, <1>11, <1>12, <1>13, <1>14 DEF Brings
<1> HIDE DEF C
<1>17. m \in UpMessages
  BY <1>3
<1>18. Joins(e, d, r, m, new, q)
  BY <1>2, <1>6, <1>8, <1>15, <1>16, <1>17 DEF Joins, C, up1, P, v, s, c, x, countVars
<1> QED
  BY <1>18

(* rdxn_up in its message handler keeps the invariant.                     *)
LEMMA StepRecvUp ==
  ASSUME Inv, NEW r \in Ranks, RecvUp(r)
  PROVE  Inv'
<1>1. PICK e, d : InvParts(e, d)
  BY InvHasParts
<1>2. PICK m, new, q : Joins(e, d, r, m, new, q)
  BY <1>1, RecvUpJoins
<1>3. AllOK(collStatus', collRxs', epochGvt', epoch, lvt, lsend, lrecv, rdxn', ups', downs', event, round)
  BY <1>2, RisingPart DEF Joins
<1> QED
  BY <1>2, <1>3, InvThen DEF Joins

-----------------------------------------------------------------------------
(* The invariant holds at the start: the first collective is of round 1.   *)
LEMMA InvInit == Init => Inv
<1> SUFFICES ASSUME Init PROVE Inv
  OBVIOUS
<1>1. /\ N \in Nat \ {0} /\ 0 \in Ranks /\ 0 \in Time /\ 0 \in Epochs /\ 0 \in {0, 1}
      /\ Epochs \subseteq Nat /\ Time \subseteq Nat
  BY RanksAreNumbers, TimesAreNumbers, EpochsAreNumbers DEF Time, Epochs
<1>2. /\ collStatus = [r \in Ranks |-> [i \in 0 .. 1 |-> "non_quiesced"]]
      /\ collRxs = [r \in Ranks |-> [i \in 0 .. 1 |-> 0]]
      /\ epochGvt = [r \in Ranks |-> [i \in 0 .. 1 |-> 0]]
      /\ epoch = [r \in Ranks |-> 0]
      /\ lvt = [r \in Ranks |-> [i \in 0 .. 1 |-> 0]]
      /\ lsend = [r \in Ranks |-> [i \in 0 .. 1 |-> 0]]
      /\ lrecv = [r \in Ranks |-> [i \in 0 .. 2 |-> 0]]
      /\ rdxn = [r \in Ranks |-> [incoming |-> 0, gvtAcc |-> 0, gsend |-> 0,
                                  grecv |-> 0, rxsAcc |-> 0]]
      /\ ups = {} /\ downs = {}
      /\ event \in [Events -> {Unused} \cup {Local(r, 0) : r \in Ranks}]
      /\ round = [r \in Ranks |-> 0]
  BY DEF Init
<1>3. event \in [Events -> EventStates] /\ \A k \in Events : event[k].place # "net" /\ event[k].t = 0
  <2>1. \A r \in Ranks : /\ Local(r, 0) \in EventStates /\ Local(r, 0).place = "local" /\ Local(r, 0).t = 0
                         /\ Unused \in EventStates /\ Unused.place = "unused"
    BY <1>1, EventsMade
  <2>2. Unused.t = 0
    BY DEF Unused
  <2>3. ASSUME NEW k \in Events
        PROVE  event[k] \in EventStates /\ event[k].place # "net" /\ event[k].t = 0
    <3>1. event[k] = Unused \/ \E r \in Ranks : event[k] = Local(r, 0)
      BY <1>2
    <3> QED
      BY <1>1, <2>1, <2>2, <3>1
  <2> QED
    BY <1>2, <2>3
<1>4. Types(collStatus, collRxs, epochGvt, epoch, lvt, lsend, lrecv, rdxn, ups, downs, event, round)
  <2>1. collStatus \in [Ranks -> [0 .. 1 -> Status]]
    BY <1>2 DEF Status
  <2>2. collRxs \in [Ranks -> [0 .. 1 -> Nat]] /\ epochGvt \in [Ranks -> [0 .. 1 -> Time]]
    BY <1>1, <1>2
  <2>3. epoch \in [Ranks -> Epochs] /\ round \in [Ranks -> {0, 1}]
    BY <1>1, <1>2
  <2>4. lvt \in [Ranks -> [0 .. 1 -> Time]] /\ lsend \in [Ranks -> [0 .. 1 -> Nat]]
    BY <1>1, <1>2
  <2>5. lrecv \in [Ranks -> [0 .. 2 -> Nat]]
    BY <1>2
  <2>6. rdxn \in [Ranks -> Sums]
    BY <1>1, <1>2 DEF Sums
  <2>7. ups \subseteq UpMessages /\ downs \subseteq DownMessages
    BY <1>2
  <2> QED
    BY <1>3, <2>1, <2>2, <2>3, <2>4, <2>5, <2>6, <2>7 DEF Types
<1>5. CollOK(collStatus, collRxs, epoch, round, downs, 0, 1)
  <2>1. \A r \in Ranks : /\ collStatus[r][0] = "non_quiesced" /\ collStatus[r][1] = "non_quiesced"
                         /\ epoch[r] = 0 /\ round[r] = 0 /\ collRxs[r][1] = 0
    BY <1>2
  <2>2. Contrib(collStatus, downs) = {}
    BY <2>1 DEF Contrib
  <2>3. N * 0 = 0 /\ 1 - 1 = 0
    BY <1>1
  <2>4. ASSUME NEW r \in Ranks
        PROVE  /\ collStatus[r][0] \in {"reducing", collStatus[r][1]}
               /\ Entering(epoch[r], collStatus[r][1] = "quiesced") = 0
               /\ round[r] = 1 - 1
               /\ collRxs[r][1] = N * round[r]
    BY <2>1, <2>3 DEF Entering
  <2> QED
    BY <1>2, <2>2, <2>4 DEF CollOK
<1>6. TreeOK(Contrib(collStatus, downs), rdxn, ups, lvt, lsend, lrecv, round)
  <2>1. Contrib(collStatus, downs) = {}
    BY <1>2 DEF Contrib
  <2>2. \A y \in Ranks : rdxn[y].incoming = 0
    BY <1>2
  <2>3. TreeOK({}, rdxn, {}, lvt, lsend, lrecv, round)
    BY <2>2, TreeEmpty
  <2>4. ups = {}
    BY <1>2
  <2> QED
    BY <2>1, <2>3, <2>4
<1>7. InNetwork(event) = {} /\ \A t : UnderWay(event, t) = {}
  BY <1>3 DEF InNetwork, UnderWay
<1>8. TagOK(event, 0)
  BY <1>7 DEF TagOK
<1>9. CountOK(epoch, lsend, lrecv, event, 0)
  <2>1. /\ IsFiniteSet(Ranks) /\ Cardinality(Ranks) \in Nat /\ Cardinality({}) = 0
        /\ Cardinality(Ranks) * 0 = 0
    BY RanksFinite, FS_EmptySet, FS_CardinalityType
  <2>2. \A r \in Ranks : /\ Sent(epoch, lsend, 0)[r] = 0 /\ SentNext(epoch, lsend, 0)[r] = 0
                         /\ Rcvd(epoch, lrecv, 0)[r] = 0 /\ RcvdNext(epoch, lrecv, 0)[r] = 0
                         /\ lrecv[r][2] = 0
    BY <1>2 DEF Sent, SentNext, Rcvd, RcvdNext
  <2>3. /\ SumOf(Sent(epoch, lsend, 0), Ranks) = 0 /\ SumOf(SentNext(epoch, lsend, 0), Ranks) = 0
        /\ SumOf(Rcvd(epoch, lrecv, 0), Ranks) = 0 /\ SumOf(RcvdNext(epoch, lrecv, 0), Ranks) = 0
    BY <2>1, <2>2, SumConstant
  <2>4. Cardinality(UnderWay(event, 0)) = 0 /\ Cardinality(UnderWay(event, NextEpoch(0))) = 0
    BY <1>7, <2>1
  <2>5. \A r \in Ranks : lrecv[r][2] = 0
    BY <2>2
  <2> QED
    BY <2>3, <2>4, <2>5 DEF CountOK
<1>10. CoverOK(epoch, lvt, event, 0)
  <2>1. Low(epoch, lvt, 0, 0) = 0
    BY <1>1, <1>2 DEF Low
  <2>2. \A k \in Events : Covered(epoch, lvt, 0, event[k].t)
    BY <1>1, <1>3, <2>1 DEF Covered
  <2> QED
    BY <1>3, <2>2 DEF CoverOK
<1>11. BoundOK(epochGvt, downs, event)
  BY <1>2, <1>3 DEF BoundOK, NothingBefore
<1>12. Round(collStatus, collRxs, epoch, lvt, lsend, lrecv, rdxn, ups, downs, event, round, 0, 1)
  BY <1>5, <1>6, <1>8, <1>9, <1>10 DEF Round
<1>13. AllOK(collStatus, collRxs, epochGvt, epoch, lvt, lsend, lrecv, rdxn, ups, downs, event, round)
  BY <1>1, <1>4, <1>11, <1>12 DEF AllOK
<1> QED
  BY <1>13, InvNow

(* A step that changes nothing.                                            *)
LEMMA StepStutter == ASSUME Inv, UNCHANGED vars PROVE Inv'
BY InvNow, InvThen DEF vars, gvtVars, countVars, treeVars

(* Every step keeps the invariant.                                         *)
LEMMA InvNext == Inv /\ [Next]_vars => Inv'
<1> SUFFICES ASSUME Inv, [Next]_vars PROVE Inv'
  OBVIOUS
<1>1. CASE UNCHANGED vars
  BY <1>1, StepStutter
<1>2. ASSUME NEW r \in Ranks, RankStep(r) PROVE Inv'
  <2>1. CASE SendSome(r)
    BY <2>1, StepSend
  <2>2. CASE Receive(r)
    BY <2>2, StepReceive
  <2>3. CASE Spawn(r)
    BY <2>3, StepSpawn
  <2>4. CASE \E p \in Events : Finish(r, p)
    BY <2>4, StepFinish
  <2>5. CASE CollBegin(r)
    BY <2>5, StepCollBegin
  <2>6. CASE RecvUp(r)
    BY <2>6, StepRecvUp
  <2>7. CASE RecvDown(r)
    BY <2>7, StepRecvDown
  <2>8. CASE Advance(r)
    BY <2>8, StepAdvance
  <2> QED
    BY <1>2, <2>1, <2>2, <2>3, <2>4, <2>5, <2>6, <2>7, <2>8 DEF RankStep
<1> QED
  BY <1>1, <1>2 DEF Next

(* The invariant holds of every state of every execution.                  *)
THEOREM Invariance == Spec => []Inv
BY InvInit, InvNext, PTL DEF Spec

-----------------------------------------------------------------------------
(* The tag of a message is the epoch of the open collective or the next,   *)
(* and its receiver is in that epoch or the one before: 0, 1 or 2 apart.   *)
LEMMA InvTagInWindow == Inv => TagInWindow
<1> SUFFICES ASSUME Inv, NEW k \in NetEvents
             PROVE  RecvIndex(event[k].tag, epoch[event[k].rank]) \in 0 .. 2
  BY DEF TagInWindow
<1>1. PICK e, d : InvParts(e, d)
  BY InvHasParts
<1>2. k \in InNetwork(event) /\ event[k].rank \in Ranks /\ e \in Epochs
  BY <1>1 DEF NetEvents, InNetwork, InvParts, MessageTypes, EventStates
<1> DEFINE a == epoch[event[k].rank]
<1>3. event[k].tag \in {e, NextEpoch(e)} /\ a \in Epochs /\ (a = e \/ NextEpoch(a) = e)
  BY <1>1, <1>2 DEF InvParts, TagOK, Near
<1> HIDE DEF a
<1>4. RecvIndex(event[k].tag, a) \in 0 .. 2
  <2>1. RecvIndex(e, a) \in 0 .. 2 /\ RecvIndex(NextEpoch(e), a) \in 0 .. 2
    BY <1>2, <1>3, Window
  <2> QED
    BY <1>3, <2>1
<1> QED
  BY <1>4 DEF a

(* No event is before what a rank was told.                                *)
LEMMA InvGvtSafe == Inv => GvtSafe
BY DEF Inv, AllOK, BoundOK, NothingBefore, GvtSafe

(* A rank that has the result has the sum over the N ranks.                *)
LEMMA InvReduciblesExact == Inv => ReduciblesExact
BY DEF Inv, AllOK, Round, CollOK, ReduciblesExact

(* The messages of rdxn_down under way cover different ranks.              *)
LEMMA InvDownOnce == Inv => DownOnce
<1> SUFFICES ASSUME Inv PROVE DownOnce
  OBVIOUS
<1>1. PICK e, d : InvParts(e, d)
  BY InvHasParts
<1>2. /\ \A m \in downs : \A r \in Covers(m) : collStatus[r][1] = "reducing"
      /\ \A m, n \in downs : Covers(m) \cap Covers(n) # {} => m = n
  BY <1>1 DEF InvParts, Round, CollOK
<1> QED
  BY <1>2 DEF DownOnce, Covers, Above

(* 0 <= i && i < 3 in the lambda of gvt::send at its destination, although *)
(* the unsigned epoch_ wraps and ranks change epoch at different times.    *)
THEOREM EveryTagInWindow == Spec => []TagInWindow
BY Invariance, InvTagInWindow, PTL

(* epoch_gvt_ is never after an event of any rank or a message under way:  *)
(* what a client frees below the GVT it never needs again.                 *)
THEOREM EveryGvtSafe == Spec => []GvtSafe
BY Invariance, InvGvtSafe, PTL

(* coll_reducibles() of an ended collective is the sum of what all the     *)
(* ranks gave to that collective, through any tree and any order of        *)
(* messages.                                                               *)
THEOREM EverySumExact == Spec => []ReduciblesExact
BY Invariance, InvReduciblesExact, PTL

(* The broadcast by halving carries each result once to each rank, and to  *)
(* ranks that wait for it.                                                 *)
THEOREM EveryDownOnce == Spec => []DownOnce
BY Invariance, InvDownOnce, PTL

-----------------------------------------------------------------------------
(***************************************************************************)
(* Gvt implements GvtEpochs.  What the reduction tree holds is one set of  *)
(* partial sums (Parts): a call of rdxn_up that is not the last of its     *)
(* collective moves sums within the tree, so the totals of the set change  *)
(* by what the call brings (Gathering); the last leaves the set empty and  *)
(* the totals at the root.                                                 *)
(***************************************************************************)

(* Client steps that no message is part of add nothing to the history.     *)
LEMMA NoneBegins ==
  ASSUME HistoryOK, Remember, round' = round, ~ Concluded
  PROVE  quiesced' = quiesced /\ cepoch' = cepoch /\ counted' = counted
<1>1. \A q : ~ Began(q)
  BY DEF Began
<1> QED
  BY <1>1 DEF Remember

(* Nor do they send or receive any.                                        *)
LEMMA NoneMoves ==
  ASSUME HistoryOK, Remember,
         \A k \in Events : event'[k].place = "net" <=> event[k].place = "net"
  PROVE  nextId' = nextId /\ ident' = ident /\ sent' = sent /\ rcvd' = rcvd
<1> DEFINE newly == {k \in Events : event'[k].place = "net" /\ event[k].place # "net"}
           arrived == {k \in NetEvents : event'[k].place = "local"}
<1>1. newly = {} /\ arrived = {}
  BY DEF NetEvents
<1>2. /\ nextId' = IF newly = {} THEN nextId ELSE nextId + 1
      /\ ident' = [k \in Events |-> IF k \in newly THEN nextId ELSE ident[k]]
      /\ sent' = sent \cup {MessageOf(k)' : k \in newly}
      /\ rcvd' = rcvd \cup {MessageOf(k) : k \in arrived}
  BY DEF Remember
<1> HIDE DEF newly, arrived
<1>3. ident \in [Events -> Nat]
  BY DEF HistoryOK
<1>4. ident' = ident
  BY <1>1, <1>2, <1>3
<1> QED
  BY <1>1, <1>2, <1>4

(* The reduction and the history stay as they are.                         *)
LEMMA CollStays ==
  ASSUME UNCHANGED <<collStatus, epochGvt, rdxn, ups, downs>>,
         UNCHANGED <<quiesced, cepoch, counted>>
  PROVE  UNCHANGED Abs!collVars
         /\ UNCHANGED <<At(collStatus, 0), At(collStatus, 1), At(epochGvt, 0), At(epochGvt, 1)>>
BY DEF Abs!collVars, At, LvtOf, SendsOf, RecvsOf, Parts, Undelivered, Contrib

(* The events of a rank, one by one.                                       *)
LEMMA PendingIs ==
  \A r \in Ranks : \A t : t \in Pending[r] <=>
    \E k \in Events : event[k].place = "local" /\ event[k].rank = r /\ event[k].t = t
BY DEF Pending, LocalTimes

(* The same after the step.                                                *)
LEMMA PendingThen ==
  /\ DOMAIN Pending' = Ranks
  /\ Pending' = [r \in Ranks |-> Pending'[r]]
  /\ \A r \in Ranks : \A t : t \in Pending'[r] <=>
       \E k \in Events : event'[k].place = "local" /\ event'[k].rank = r /\ event'[k].t = t
BY DEF Pending, LocalTimes

(* The history when nothing but local events changes.                      *)
LEMMA HistoryKept ==
  ASSUME HistoryOK,
         nextId' = nextId /\ ident' = ident /\ sent' = sent /\ rcvd' = rcvd,
         \A k \in Events : event'[k].place = "net" <=> event[k].place = "net",
         \A k \in Events : event'[k].place = "net" => event'[k] = event[k]
  PROVE  HistoryOK'
<1>1. NetEvents' = NetEvents /\ \A k \in NetEvents : event'[k] = event[k]
  BY DEF NetEvents
<1>2. \A k \in NetEvents : MessageOf(k)' = MessageOf(k)
  BY <1>1 DEF MessageOf
<1> HIDE DEF MessageOf
<1>3. (\A k \in NetEvents : MessageOf(k) \in sent \ rcvd)'
  BY <1>1, <1>2 DEF HistoryOK
<1>4. (\A j, k \in NetEvents :
       ident[j] = ident[k] /\ event[j].rank = event[k].rank => j = k)'
  BY <1>1 DEF HistoryOK
<1> QED
  BY <1>3, <1>4 DEF HistoryOK

(* The protocol sees no change when each rank has the same event times.    *)
LEMMA PendingSame ==
  ASSUME \A q \in Ranks : \A u : u \in Pending'[q] <=> u \in Pending[q]
  PROVE  Pending' = Pending
<1>1. \A q \in Ranks : Pending'[q] = Pending[q]
  OBVIOUS
<1>2. Pending = [q \in Ranks |-> Pending[q]]
  BY DEF Pending
<1> QED
  BY <1>1, <1>2, PendingThen

(* It sees a change at one rank only.                                      *)
LEMMA PendingBut ==
  ASSUME NEW r \in Ranks, NEW S,
         \A q \in Ranks \ {r} : \A u : u \in Pending'[q] <=> u \in Pending[q],
         \A u : u \in Pending'[r] <=> u \in S
  PROVE  Pending' = [Pending EXCEPT ![r] = S]
<1>1. \A q \in Ranks \ {r} : Pending'[q] = Pending[q]
  OBVIOUS
<1>2. Pending'[r] = S
  OBVIOUS
<1>3. DOMAIN Pending = Ranks /\ Pending = [q \in Ranks |-> Pending[q]]
  BY DEF Pending
<1> QED
  BY <1>1, <1>2, <1>3, PendingThen

(* A step that changes local events only leaves the protocol's state alone, *)
(* but for the events.                                                     *)
LEMMA LocalStep ==
  ASSUME RefinementInv, Remember, Bounded,
         UNCHANGED <<gvtVars, countVars, treeVars, round>>,
         \A k \in Events : event'[k].place = "net" <=> event[k].place = "net",
         \A k \in Events : event'[k].place = "net" => event'[k] = event[k],
         \A k \in Events : event'[k].place # "unused" => event'[k].t \in EventTime
  PROVE  /\ HistoryOK' /\ ResultOK' /\ WithinBounds'
         /\ UNCHANGED <<Abs!rankVars, Abs!countVars, Abs!collVars, sent, rcvd, nextId>>
<1>1. HistoryOK /\ ResultOK /\ WithinBounds
  BY DEF RefinementInv
<1>2. /\ UNCHANGED <<collStatus, collRxs, epochGvt, epoch, lvt, lsend, lrecv>>
      /\ UNCHANGED <<rdxn, ups, downs, round>>
  BY DEF gvtVars, countVars, treeVars
<1>3. ~ Concluded
  BY <1>2 DEF Concluded, Began
<1>4. nextId' = nextId /\ ident' = ident /\ sent' = sent /\ rcvd' = rcvd
  BY <1>1, NoneMoves
<1>5. quiesced' = quiesced /\ cepoch' = cepoch /\ counted' = counted
  BY <1>1, <1>2, <1>3, NoneBegins
<1>6. UNCHANGED Abs!collVars
      /\ UNCHANGED <<At(collStatus, 0), At(collStatus, 1), At(epochGvt, 0), At(epochGvt, 1)>>
  BY <1>2, <1>5, CollStays
<1>7. HistoryOK'
  BY <1>1, <1>4, HistoryKept
<1>8. ResultOK'
  BY <1>1, <1>2, <1>5 DEF ResultOK
<1>9. WithinBounds'
  BY DEF WithinBounds, Bounded
<1>10. UNCHANGED <<At(lvt, 0), At(lvt, 1), At(lsend, 0), At(lsend, 1), At(lrecv, 0), At(lrecv, 1), At(lrecv, 2)>>
  BY <1>2 DEF At
<1> QED
  BY <1>2, <1>4, <1>6, <1>7, <1>8, <1>9, <1>10 DEF Abs!rankVars, Abs!countVars

(* Times of events, in the protocol's words.                               *)
LEMMA AbsTimes ==
  Abs!EventTime = EventTime /\ Abs!Time = Time
BY ConstantsAssumption DEF EventTime, Time, Abs!EventTime, Abs!Time

(* Done with an event: the protocol forgets its time, unless another event *)
(* of the rank has the same.                                               *)
LEMMA FinishMaps ==
  ASSUME RefinementInv, Remember, Bounded, NEW r \in Ranks, NEW p \in Events, Finish(r, p)
  PROVE  /\ HistoryOK' /\ ResultOK' /\ WithinBounds'
         /\ Abs!Next \/ UNCHANGED Abs!vars
<1>1. /\ event[p].place = "local" /\ event[p].rank = r
      /\ event' = [event EXCEPT ![p] = Unused]
      /\ UNCHANGED <<gvtVars, countVars, treeVars, round>>
  BY DEF Finish
<1>2. event \in [Events -> EventStates] /\ WithinBounds
  BY DEF RefinementInv, Inv, AllOK, Types
<1>3. event'[p].place = "unused" /\ \A k \in Events \ {p} : event'[k] = event[k]
  BY <1>1, <1>2 DEF Unused
<1>4. /\ HistoryOK' /\ ResultOK' /\ WithinBounds'
      /\ UNCHANGED <<Abs!rankVars, Abs!countVars, Abs!collVars, sent, rcvd, nextId>>
  <2>1. \A k \in Events : /\ event'[k].place = "net" <=> event[k].place = "net"
                          /\ event'[k].place = "net" => event'[k] = event[k]
                          /\ event'[k].place # "unused" => event'[k].t \in EventTime
    BY <1>1, <1>2, <1>3 DEF WithinBounds
  <2> QED
    BY <1>1, <2>1, LocalStep
<1> DEFINE t == event[p].t
<1>5. t \in Abs!EventTime
  BY <1>1, <1>2, AbsTimes DEF WithinBounds
<1>6. CASE \E k \in Events \ {p} : event[k].place = "local" /\ event[k].rank = r /\ event[k].t = t
  <2>1. \A q \in Ranks : \A u : u \in Pending'[q] <=> u \in Pending[q]
    BY <1>1, <1>3, <1>6, PendingIs, PendingThen
  <2>2. Pending' = Pending
    BY <2>1, PendingSame
  <2> QED
    BY <1>4, <2>2 DEF Abs!vars, Abs!clientVars
<1>7. CASE ~ \E k \in Events \ {p} : event[k].place = "local" /\ event[k].rank = r /\ event[k].t = t
  <2>1. \A q \in Ranks \ {r} : \A u : u \in Pending'[q] <=> u \in Pending[q]
    BY <1>1, <1>3, PendingIs, PendingThen
  <2>2. \A u : u \in Pending'[r] <=> u \in Pending[r] \ {t}
    BY <1>1, <1>3, <1>7, PendingIs, PendingThen
  <2>3. t \in Pending[r]
    BY <1>1, PendingIs
  <2> HIDE DEF t
  <2>4. Pending' = [Pending EXCEPT ![r] = @ \ {t}]
    BY <2>1, <2>2, PendingBut
  <2>5. Abs!Finish(r, t)
    BY <1>4, <2>3, <2>4 DEF Abs!Finish
  <2> QED
    BY <1>4, <1>5, <2>5 DEF Abs!Next
<1> QED
  BY <1>6, <1>7

(* A new local event.                                                      *)
LEMMA SpawnMaps ==
  ASSUME RefinementInv, Remember, Bounded, NEW r \in Ranks, Spawn(r)
  PROVE  /\ HistoryOK' /\ ResultOK' /\ WithinBounds'
         /\ Abs!Next
<1>1. PICK p \in Events, k \in UnusedEvents, t \in EventTime :
        /\ event[p].place = "local" /\ event[p].rank = r
        /\ t >= event[p].t + MinDelay
        /\ event' = [event EXCEPT ![k] = Local(r, t)]
        /\ UNCHANGED <<gvtVars, countVars, treeVars, round>>
  BY DEF Spawn
<1>2. event \in [Events -> EventStates] /\ WithinBounds
  BY DEF RefinementInv, Inv, AllOK, Types
<1>3. k \in Events /\ event[k].place = "unused"
  BY DEF UnusedEvents
<1>4. /\ event'[k].place = "local" /\ event'[k].rank = r /\ event'[k].t = t
      /\ \A j \in Events \ {k} : event'[j] = event[j]
  BY <1>1, <1>2, <1>3 DEF Local
<1>5. /\ HistoryOK' /\ ResultOK' /\ WithinBounds'
      /\ UNCHANGED <<Abs!rankVars, Abs!countVars, Abs!collVars, sent, rcvd, nextId>>
  <2>1. \A j \in Events : /\ event'[j].place = "net" <=> event[j].place = "net"
                          /\ event'[j].place = "net" => event'[j] = event[j]
                          /\ event'[j].place # "unused" => event'[j].t \in EventTime
    BY <1>2, <1>3, <1>4 DEF WithinBounds
  <2> QED
    BY <1>1, <2>1, LocalStep
<1>6. event[p].t \in Pending[r] /\ event[p].t <= t
  <2>1. event[p].t \in Pending[r]
    BY <1>1, PendingIs
  <2>2. event[p].t \in EventTime
    BY <1>1, <1>2 DEF WithinBounds
  <2>3. event[p].t \in Int /\ t \in Int /\ MinDelay \in Nat
    BY <2>2, ConstantsAssumption DEF EventTime
  <2> QED
    BY <1>1, <2>1, <2>3
<1>7. Pending' = [Pending EXCEPT ![r] = @ \cup {t}]
  <2>1. \A q \in Ranks \ {r} : \A u : u \in Pending'[q] <=> u \in Pending[q]
    BY <1>3, <1>4, PendingIs, PendingThen
  <2>2. \A u : u \in Pending'[r] <=> u \in Pending[r] \cup {t}
    BY <1>3, <1>4, PendingIs, PendingThen
  <2> QED
    BY <2>1, <2>2, PendingBut
<1>8. Abs!Spawn(r, t)
  BY <1>5, <1>6, <1>7 DEF Abs!Spawn
<1>9. t \in Abs!EventTime
  BY AbsTimes
<1> QED
  BY <1>5, <1>8, <1>9 DEF Abs!Next

(* Within the bounds no epoch number wraps, and the index of a message's   *)
(* counter is the plain difference.                                        *)
LEMMA NoWrap ==
  ASSUME RefinementConstants, RefinementInv
  PROVE  /\ \A r \in Ranks : NextEpoch(epoch[r]) = epoch[r] + 1 /\ epoch[r] \in Nat
         /\ \A k \in NetEvents :
              RecvIndex(event[k].tag, epoch[event[k].rank]) = event[k].tag - epoch[event[k].rank]
<1>1. PICK e, d : InvParts(e, d)
  BY InvHasParts DEF RefinementInv
<1>2. /\ e \in Epochs /\ Near(epoch, e) /\ TagOK(event, e)
      /\ event \in [Events -> EventStates]
  BY <1>1 DEF InvParts, Types
<1>3. MaxEpoch \in Nat /\ MaxEpoch + 2 < EpochMod /\ EpochMod \in Nat /\ EpochMod >= 8
  BY ConstantsAssumption DEF RefinementConstants
<1>4. ASSUME NEW r \in Ranks
      PROVE  /\ epoch[r] \in Nat /\ epoch[r] <= MaxEpoch
             /\ NextEpoch(epoch[r]) = epoch[r] + 1
             /\ e = epoch[r] \/ e = epoch[r] + 1
  <2>1. epoch[r] \in Epochs /\ epoch[r] <= MaxEpoch
    BY <1>2 DEF Near, RefinementInv, WithinBounds
  <2>2. epoch[r] \in Nat /\ epoch[r] # EpochMod - 1
    BY <1>3, <2>1 DEF Epochs
  <2>3. NextEpoch(epoch[r]) = epoch[r] + 1
    BY <2>1, <2>2, EpochsAreNumbers
  <2>4. epoch[r] = e \/ NextEpoch(epoch[r]) = e
    BY <1>2 DEF Near
  <2> QED
    BY <2>1, <2>2, <2>3, <2>4
<1>5. ASSUME NEW k \in NetEvents
      PROVE  RecvIndex(event[k].tag, epoch[event[k].rank]) = event[k].tag - epoch[event[k].rank]
  <2> DEFINE a == epoch[event[k].rank]  g == event[k].tag
  <2>1. k \in InNetwork(event) /\ event[k].rank \in Ranks
    BY <1>2 DEF NetEvents, InNetwork, EventStates
  <2>2. g \in {e, NextEpoch(e)}
    BY <1>2, <2>1 DEF TagOK
  <2>3. a \in Nat /\ a <= MaxEpoch /\ (e = a \/ e = a + 1)
    BY <1>4, <2>1
  <2>4. e # EpochMod - 1 /\ e \in Nat
    BY <1>3, <2>3
  <2>5. NextEpoch(e) = e + 1
    BY <1>2, <2>4, EpochsAreNumbers
  <2> HIDE DEF a, g
  <2>6. g \in Nat /\ g >= a /\ g - a \in 0 .. 2
    BY <2>2, <2>3, <2>4, <2>5
  <2>7. g - a < EpochMod \div 2
    BY <1>3, <2>6
  <2>8. ~ (g - a >= EpochMod \div 2)
    BY <1>3, <2>6, <2>7
  <2>9. RecvIndex(g, a) = g - a
    BY <2>6, <2>8 DEF RecvIndex, ToInt
  <2> QED
    BY <2>9 DEF a, g
<1> QED
  BY <1>4, <1>5

(* A message is received.                                                  *)
LEMMA ReceiveMaps ==
  ASSUME RefinementConstants, RefinementInv, Remember, Bounded, NEW r \in Ranks, Receive(r)
  PROVE  /\ HistoryOK' /\ ResultOK' /\ WithinBounds'
         /\ Abs!Next
<1>1. PICK k \in NetEvents :
        /\ event[k].rank = r
        /\ RecvIndex(event[k].tag, epoch[r]) \in 0 .. 2
        /\ lrecv' = [lrecv EXCEPT ![r][RecvIndex(event[k].tag, epoch[r])] = @ + 1]
        /\ event' = [event EXCEPT ![k] = Local(r, @.t)]
        /\ UNCHANGED <<gvtVars, epoch, lvt, lsend, treeVars, round>>
  BY DEF Receive
<1>2. /\ event \in [Events -> EventStates] /\ lrecv \in [Ranks -> [0 .. 2 -> Nat]]
      /\ HistoryOK /\ ResultOK /\ WithinBounds
  BY DEF RefinementInv, Inv, AllOK, Types
<1>3. k \in Events /\ event[k].place = "net"
  BY DEF NetEvents
<1>4. /\ event'[k].place = "local" /\ event'[k].rank = r /\ event'[k].t = event[k].t
      /\ \A j \in Events \ {k} : event'[j] = event[j]
  BY <1>1, <1>2, <1>3 DEF Local
<1> DEFINE m == MessageOf(k)
           i == event[k].tag - epoch[r]
<1>5. m.dst = r /\ m.tag = event[k].tag /\ m.t = event[k].t /\ m.id = ident[k]
  BY <1>1 DEF MessageOf
<1>6. i \in 0 .. 2 /\ lrecv' = [lrecv EXCEPT ![r][i] = @ + 1]
  BY <1>1, NoWrap
<1>7. /\ UNCHANGED <<collStatus, collRxs, epochGvt, epoch, lvt, lsend>>
      /\ UNCHANGED <<rdxn, ups, downs, round>>
  BY <1>1 DEF gvtVars, treeVars
<1>8. quiesced' = quiesced /\ cepoch' = cepoch /\ counted' = counted
  <2>1. ~ Concluded
    BY <1>7 DEF Concluded, Began
  <2> QED
    BY <1>2, <1>7, <2>1, NoneBegins
<1>9. UNCHANGED Abs!collVars
      /\ UNCHANGED <<At(collStatus, 0), At(collStatus, 1), At(epochGvt, 0), At(epochGvt, 1)>>
  BY <1>7, <1>8, CollStays
<1>10. nextId' = nextId /\ ident' = ident /\ sent' = sent /\ rcvd' = rcvd \cup {m}
  <2> DEFINE newly == {j \in Events : event'[j].place = "net" /\ event[j].place # "net"}
             arrived == {j \in NetEvents : event'[j].place = "local"}
  <2>1. newly = {}
    BY <1>3, <1>4
  <2>2. arrived = {k}
    BY <1>4 DEF NetEvents
  <2>3. /\ nextId' = IF newly = {} THEN nextId ELSE nextId + 1
        /\ ident' = [j \in Events |-> IF j \in newly THEN nextId ELSE ident[j]]
        /\ sent' = sent \cup {MessageOf(j)' : j \in newly}
        /\ rcvd' = rcvd \cup {MessageOf(j) : j \in arrived}
    BY DEF Remember
  <2> HIDE DEF newly, arrived
  <2>4. ident' = ident
    BY <1>2, <2>1, <2>3 DEF HistoryOK
  <2> QED
    BY <2>1, <2>2, <2>3, <2>4
<1>11. HistoryOK'
  <2>1. NetEvents' = NetEvents \ {k}
    BY <1>3, <1>4 DEF NetEvents
  <2>2. \A j \in NetEvents \ {k} : MessageOf(j)' = MessageOf(j)
    BY <1>4, <1>10 DEF MessageOf, NetEvents
  <2>3. \A j \in NetEvents \ {k} : MessageOf(j) # m
    <3> SUFFICES ASSUME NEW j \in NetEvents \ {k}, MessageOf(j) = m PROVE FALSE
      OBVIOUS
    <3>1. ident[j] = ident[k] /\ event[j].rank = event[k].rank
      BY DEF MessageOf
    <3> QED
      BY <1>2, <3>1 DEF HistoryOK
  <2>4. \A j \in NetEvents : MessageOf(j) \in sent \ rcvd
    BY <1>2 DEF HistoryOK
  <2> HIDE DEF m
  <2>5. (\A j \in NetEvents : MessageOf(j) \in sent \ rcvd)'
    BY <1>10, <2>1, <2>2, <2>3, <2>4
  <2>6. (\A j, l \in NetEvents :
           ident[j] = ident[l] /\ event[j].rank = event[l].rank => j = l)'
    BY <1>2, <1>4, <1>10, <2>1 DEF HistoryOK, NetEvents
  <2>7. m \in sent
    BY <2>4 DEF m
  <2> QED
    BY <1>2, <1>10, <2>5, <2>6, <2>7 DEF HistoryOK
<1>12. ResultOK'
  BY <1>2, <1>7, <1>8 DEF ResultOK
<1>13. WithinBounds'
  BY <1>2, <1>3, <1>4 DEF WithinBounds, Bounded
<1>14. UNCHANGED <<At(lvt, 0), At(lvt, 1), At(lsend, 0), At(lsend, 1)>>
  BY <1>7 DEF At
<1>15. \A c \in 0 .. 2 :
         At(lrecv', c) = IF i = c THEN [At(lrecv, c) EXCEPT ![r] = @ + 1] ELSE At(lrecv, c)
  <2> SUFFICES ASSUME NEW c \in 0 .. 2
               PROVE  At(lrecv', c) = IF i = c THEN [At(lrecv, c) EXCEPT ![r] = @ + 1]
                                               ELSE At(lrecv, c)
    OBVIOUS
  <2> HIDE DEF i
  <2>1. \A q \in Ranks : lrecv'[q][c] = IF q = r /\ i = c THEN lrecv[q][c] + 1 ELSE lrecv[q][c]
    BY <1>2, <1>6
  <2> QED
    BY <2>1 DEF At
<1>16. Pending' = [Pending EXCEPT ![r] = @ \cup {m.t}]
  <2> DEFINE t == m.t
  <2>1. t = event[k].t
    BY <1>5
  <2> HIDE DEF m, t
  <2>2. \A q \in Ranks \ {r} : \A u : u \in Pending'[q] <=> u \in Pending[q]
    BY <1>3, <1>4, PendingIs, PendingThen
  <2>3. \A u : u \in Pending'[r] <=> u \in Pending[r] \cup {t}
    BY <1>3, <1>4, <2>1, PendingIs, PendingThen
  <2> QED
    BY <2>2, <2>3, PendingBut DEF t
<1>17. m \in sent \ rcvd
  BY <1>2 DEF HistoryOK
<1> HIDE DEF m
<1>18. i = m.tag - epoch[m.dst]
  BY <1>5
<1> HIDE DEF i
<1>19. Abs!Receive(m)
  <2>1. /\ At(lrecv', 0) = IF i = 0 THEN [At(lrecv, 0) EXCEPT ![m.dst] = @ + 1] ELSE At(lrecv, 0)
        /\ At(lrecv', 1) = IF i = 1 THEN [At(lrecv, 1) EXCEPT ![m.dst] = @ + 1] ELSE At(lrecv, 1)
        /\ At(lrecv', 2) = IF i = 2 THEN [At(lrecv, 2) EXCEPT ![m.dst] = @ + 1] ELSE At(lrecv, 2)
    BY <1>5, <1>15
  <2>2. Pending' = [Pending EXCEPT ![m.dst] = @ \cup {m.t}]
    BY <1>5, <1>16
  <2>3. UNCHANGED Abs!rankVars
    BY <1>7, <1>9 DEF Abs!rankVars
  <2> QED
    BY <1>9, <1>10, <1>14, <1>18, <2>1, <2>2, <2>3 DEF Abs!Receive
<1> QED
  BY <1>11, <1>12, <1>13, <1>17, <1>19 DEF Abs!Next, Abs!InFlight

(* The protocol's module has its own name for the library's operator.      *)
LEMMA AbsCardinality == \A S : Abs!Cardinality(S) = Cardinality(S)
BY DEF Abs!Cardinality, Cardinality

(* A call of send or bcast_procs: one message to each destination.         *)
LEMMA SendMaps ==
  ASSUME RefinementConstants, RefinementInv, Remember, Bounded, NEW r \in Ranks, SendSome(r)
  PROVE  /\ HistoryOK' /\ ResultOK' /\ WithinBounds'
         /\ Abs!Next
<1>1. PICK p \in Events, t \in EventTime, news \in (SUBSET UnusedEvents) \ {{}} :
        \E dst \in [news -> Ranks] :
          /\ \A j, k \in news : dst[j] = dst[k] => j = k
          /\ Send(r, p, news, dst, t)
  BY DEF SendSome
<1>2. PICK dst \in [news -> Ranks] :
          /\ \A j, k \in news : dst[j] = dst[k] => j = k
          /\ Send(r, p, news, dst, t)
  BY <1>1
<1>3. /\ event \in [Events -> EventStates] /\ lsend \in [Ranks -> [0 .. 1 -> Nat]]
      /\ lvt \in [Ranks -> [0 .. 1 -> Time]]
      /\ HistoryOK /\ ResultOK /\ WithinBounds
  BY DEF RefinementInv, Inv, AllOK, Types
<1> DEFINE tag == epoch[r] + 1
<1>4. /\ event[p].place = "local" /\ event[p].rank = r
      /\ t >= event[p].t + MinDelay
      /\ lsend' = [lsend EXCEPT ![r][1] = @ + Cardinality(news)]
      /\ lvt' = [lvt EXCEPT ![r][1] = Least(@, t)]
      /\ event' = [k \in Events |-> IF k \in news THEN InNet(dst[k], t, tag, r) ELSE event[k]]
      /\ UNCHANGED <<gvtVars, epoch, lrecv, treeVars, round>>
  <2>1. NextEpoch(epoch[r]) = tag
    BY NoWrap
  <2> QED
    BY <1>2, <2>1 DEF Send, NextEpoch
<1>5. /\ news # {} /\ news \in SUBSET Events
      /\ \A k \in news : event[k].place = "unused" /\ dst[k] \in Ranks
  BY DEF UnusedEvents
<1>6. \A k \in news : /\ event'[k].place = "net" /\ event'[k].rank = dst[k] /\ event'[k].t = t
                      /\ event'[k].tag = tag /\ event'[k].src = r
  BY <1>4, <1>5 DEF InNet
<1>7. \A k \in Events \ news : event'[k] = event[k]
  BY <1>4
<1>8. /\ UNCHANGED <<collStatus, collRxs, epochGvt, epoch, lrecv>>
      /\ UNCHANGED <<rdxn, ups, downs, round>>
  BY <1>4 DEF gvtVars, treeVars
<1>9. quiesced' = quiesced /\ cepoch' = cepoch /\ counted' = counted
  <2>1. ~ Concluded
    BY <1>8 DEF Concluded, Began
  <2> QED
    BY <1>3, <1>8, <2>1, NoneBegins
<1>10. UNCHANGED Abs!collVars
       /\ UNCHANGED <<At(collStatus, 0), At(collStatus, 1), At(epochGvt, 0), At(epochGvt, 1)>>
  BY <1>8, <1>9, CollStays
<1> DEFINE D == {dst[k] : k \in news}
           new == {[id |-> nextId, src |-> r, dst |-> d, tag |-> tag, t |-> t] : d \in D}
<1>11. /\ nextId' = nextId + 1 /\ rcvd' = rcvd
       /\ \A k \in Events : ident'[k] = IF k \in news THEN nextId ELSE ident[k]
       /\ ident' \in [Events -> Nat]
       /\ sent' = sent \cup {MessageOf(k)' : k \in news}
  <2> DEFINE newly == {j \in Events : event'[j].place = "net" /\ event[j].place # "net"}
             arrived == {j \in NetEvents : event'[j].place = "local"}
  <2>1. newly = news
    BY <1>5, <1>6, <1>7
  <2>2. arrived = {}
    BY <1>5, <1>7 DEF NetEvents
  <2>3. /\ nextId' = IF newly = {} THEN nextId ELSE nextId + 1
        /\ ident' = [j \in Events |-> IF j \in newly THEN nextId ELSE ident[j]]
        /\ sent' = sent \cup {MessageOf(j)' : j \in newly}
        /\ rcvd' = rcvd \cup {MessageOf(j) : j \in arrived}
    BY DEF Remember
  <2> HIDE DEF newly, arrived
  <2>4. ident' \in [Events -> Nat]
    BY <1>3, <2>3 DEF HistoryOK
  <2> QED
    BY <1>5, <2>1, <2>2, <2>3, <2>4
<1>12. \A k \in news : MessageOf(k)' = [id |-> nextId, src |-> r, dst |-> dst[k], tag |-> tag, t |-> t]
  BY <1>5, <1>6, <1>11 DEF MessageOf
<1>13. sent' = sent \cup new
  <2>1. {MessageOf(k)' : k \in news} = {[id |-> nextId, src |-> r, dst |-> dst[k], tag |-> tag, t |-> t] : k \in news}
    BY <1>12
  <2>2. {[id |-> nextId, src |-> r, dst |-> dst[k], tag |-> tag, t |-> t] : k \in news} = new
    OBVIOUS
  <2> QED
    BY <1>11, <2>1, <2>2
<1>14. IsFiniteSet(news) /\ Cardinality(new) = Cardinality(news) /\ Cardinality(news) \in Nat
  <2>1. IsFiniteSet(news)
    BY <1>5, EventSetFinite
  <2> DEFINE f == [k \in news |-> [id |-> nextId, src |-> r, dst |-> dst[k], tag |-> tag, t |-> t]]
  <2>2. f \in [news -> new]
    OBVIOUS
  <2>3. \A m \in new : \E k \in news : f[k] = m
    OBVIOUS
  <2>4. \A j, k \in news : f[j] = f[k] => j = k
    <3>1. \A k \in news : f[k].dst = dst[k]
      OBVIOUS
    <3> HIDE DEF f
    <3> QED
      BY <1>2, <3>1
  <2> HIDE DEF f, new
  <2>5. f \in Bijection(news, new)
    BY <2>2, <2>3, <2>4 DEF Bijection, Injection, IsInjective, Surjection
  <2>6. ExistsBijection(news, new)
    BY <2>5 DEF ExistsBijection
  <2> QED
    BY <2>1, <2>6, FS_Bijection, FS_CardinalityType
<1>15. HistoryOK'
  <2>1. NetEvents' = NetEvents \cup news
    BY <1>5, <1>6, <1>7 DEF NetEvents
  <2>2. \A j \in NetEvents : j \notin news /\ event'[j] = event[j] /\ ident'[j] = ident[j]
    BY <1>5, <1>7, <1>11 DEF NetEvents
  <2>3. \A j \in NetEvents : MessageOf(j)' = MessageOf(j)
    BY <2>2 DEF MessageOf
  <2>4. nextId \in Nat /\ \A m \in sent \cup rcvd : m.dst \in Ranks /\ m.id \in Nat /\ m.id < nextId
    BY <1>3 DEF HistoryOK
  <2>5. \A j \in NetEvents : MessageOf(j) \in sent \ rcvd /\ ident[j] < nextId
    <3>1. \A j \in NetEvents : MessageOf(j) \in sent \ rcvd /\ MessageOf(j).id = ident[j]
      BY <1>3 DEF HistoryOK, MessageOf
    <3> QED
      BY <2>4, <3>1
  <2>6. \A m \in new : m.dst \in Ranks /\ m.id = nextId
    BY <1>5
  <2>7. \A k \in news : MessageOf(k)' \in new
    BY <1>12
  <2> HIDE DEF new
  <2>8. \A m \in new : m \notin rcvd
    <3> SUFFICES ASSUME NEW m \in new, m \in rcvd PROVE FALSE
      OBVIOUS
    <3>1. m.id < nextId /\ m.id = nextId
      BY <2>4, <2>6
    <3> QED
      BY <2>4, <3>1
  <2>9. (\A j \in NetEvents : MessageOf(j) \in sent \ rcvd)'
    <3>1. \A j \in NetEvents : MessageOf(j)' \in sent' \ rcvd'
      BY <1>11, <1>13, <2>3, <2>5
    <3>2. \A j \in news : MessageOf(j)' \in sent' \ rcvd'
      BY <1>11, <1>13, <2>7, <2>8
    <3> QED
      BY <2>1, <3>1, <3>2
  <2>10. (\A j, k \in NetEvents :
           ident[j] = ident[k] /\ event[j].rank = event[k].rank => j = k)'
    <3> SUFFICES ASSUME NEW j \in NetEvents \cup news, NEW k \in NetEvents \cup news,
                        ident'[j] = ident'[k], event'[j].rank = event'[k].rank
                 PROVE  j = k
      BY <2>1
    <3>1. \A l \in news : ident'[l] = nextId /\ event'[l].rank = dst[l]
      BY <1>5, <1>6, <1>11
    <3>2. CASE j \in news /\ k \in news
      BY <1>2, <3>1, <3>2
    <3>3. CASE j \in NetEvents /\ k \in NetEvents
      BY <1>3, <2>2, <3>3 DEF HistoryOK
    <3>4. \A l \in NetEvents : ident'[l] # nextId
      <4>1. \A l \in NetEvents : ident'[l] < nextId /\ ident'[l] \in Nat
        BY <1>11, <2>2, <2>5 DEF NetEvents
      <4> QED
        BY <2>4, <4>1
    <3> QED
      BY <3>1, <3>2, <3>3, <3>4
  <2>11. \A m \in sent' \cup rcvd' : m.dst \in Ranks /\ m.id \in Nat /\ m.id < nextId'
    <3>1. ASSUME NEW m \in sent \cup rcvd PROVE m.dst \in Ranks /\ m.id \in Nat /\ m.id < nextId'
      <4>1. m.dst \in Ranks /\ m.id \in Nat /\ m.id < nextId /\ nextId \in Nat /\ nextId' = nextId + 1
        BY <1>11, <2>4
      <4> QED
        BY <4>1
    <3>2. ASSUME NEW m \in new PROVE m.dst \in Ranks /\ m.id \in Nat /\ m.id < nextId'
      <4>1. m.dst \in Ranks /\ m.id = nextId /\ nextId \in Nat /\ nextId' = nextId + 1
        BY <1>11, <2>4, <2>6
      <4> QED
        BY <4>1
    <3> QED
      BY <1>11, <1>13, <3>1, <3>2
  <2> QED
    BY <1>11, <2>4, <2>9, <2>10, <2>11 DEF HistoryOK
<1>16. ResultOK'
  BY <1>3, <1>8, <1>9 DEF ResultOK
<1>17. WithinBounds'
  BY <1>3, <1>6, <1>7 DEF WithinBounds, Bounded
<1>18. UNCHANGED <<At(lvt, 0), At(lsend, 0), At(lrecv, 0), At(lrecv, 1), At(lrecv, 2)>>
  <2>1. \A q \in Ranks : lvt'[q][0] = lvt[q][0] /\ lsend'[q][0] = lsend[q][0]
    BY <1>3, <1>4
  <2> QED
    BY <1>8, <2>1 DEF At
<1> DEFINE n == Cardinality(news)
<1>19. At(lsend', 1) = [At(lsend, 1) EXCEPT ![r] = @ + Cardinality(new)]
  <2>1. \A q \in Ranks : lsend'[q][1] = IF q = r THEN lsend[q][1] + n ELSE lsend[q][1]
    <3>1. lsend' = [lsend EXCEPT ![r][1] = @ + n]
      BY <1>4
    <3> HIDE DEF n
    <3> QED
      BY <1>3, <3>1
  <2>2. Cardinality(new) = n
    BY <1>14
  <2> HIDE DEF n, new
  <2> QED
    BY <2>1, <2>2 DEF At
<1>20. At(lvt', 1) = [At(lvt, 1) EXCEPT ![r] = Abs!Least(@, t)]
  <2>1. \A q \in Ranks : lvt'[q][1] = IF q = r THEN Least(lvt[q][1], t) ELSE lvt[q][1]
    BY <1>3, <1>4
  <2>2. \A a : Abs!Least(a, t) = Least(a, t)
    BY DEF Least, Abs!Least
  <2> QED
    BY <2>1, <2>2 DEF At
<1>21. Pending' = Pending
  <2>1. \A q \in Ranks : \A u : u \in Pending'[q] <=> u \in Pending[q]
    BY <1>5, <1>6, <1>7, PendingIs, PendingThen
  <2> QED
    BY <2>1, PendingSame
<1>22. event[p].t \in Pending[r] /\ event[p].t <= t
  <2>1. event[p].t \in Pending[r]
    BY <1>4, PendingIs
  <2>2. event[p].t \in EventTime
    BY <1>3, <1>4 DEF WithinBounds
  <2>3. event[p].t \in Int /\ t \in Int /\ MinDelay \in Nat
    BY <2>2, ConstantsAssumption DEF EventTime
  <2> QED
    BY <1>4, <2>1, <2>3
<1>23. nextId < MaxCalls
  <2>1. nextId \in Nat /\ nextId + 1 <= MaxCalls /\ MaxCalls \in Nat
    BY <1>3, <1>11 DEF HistoryOK, Bounded, RefinementConstants
  <2> QED
    BY <2>1
<1>24. D \in (SUBSET Ranks) \ {{}}
  <2>1. \A k \in news : dst[k] \in Ranks
    BY <1>5
  <2>2. D \subseteq Ranks
    BY <2>1
  <2>3. D # {}
    <3>1. PICK k \in news : TRUE
      BY <1>5
    <3>2. dst[k] \in D
      BY <3>1
    <3> QED
      BY <3>2
  <2> HIDE DEF D
  <2> QED
    BY <2>2, <2>3
<1>25. Abs!Send(r, D, t)
  <2>1. new = {[id |-> nextId, src |-> r, dst |-> d, tag |-> epoch[r] + 1, t |-> t] : d \in D}
    OBVIOUS
  <2>2. UNCHANGED Abs!rankVars
    BY <1>8, <1>10 DEF Abs!rankVars
  <2> HIDE DEF D
  <2>3. /\ At(lsend', 1) = [At(lsend, 1) EXCEPT ![r] = @ + Cardinality(new)]
        /\ sent' = sent \cup new
        /\ UNCHANGED <<At(lvt, 0), At(lsend, 0), At(lrecv, 0), At(lrecv, 1), At(lrecv, 2),
                      Abs!collVars, Pending, rcvd>>
        /\ nextId' = nextId + 1
    BY <1>10, <1>11, <1>13, <1>18, <1>19, <1>21
  <2>4. At(lsend', 1) = [At(lsend, 1) EXCEPT ![r] = @ + Abs!Cardinality(new)]
    BY <2>3, AbsCardinality
  <2>5. \E y \in Pending[r] : y <= t
    BY <1>22
  <2> QED
    BY <1>20, <1>23, <2>2, <2>3, <2>4, <2>5 DEF Abs!Send
<1>26. t \in Abs!EventTime
  BY AbsTimes
<1> HIDE DEF D
<1> QED
  BY <1>15, <1>16, <1>17, <1>24, <1>25, <1>26 DEF Abs!Next

(* advance(): the client of rank r sees the last result.                   *)
LEMMA AdvanceMaps ==
  ASSUME RefinementInv, Remember, Bounded, NEW r \in Ranks, Advance(r)
  PROVE  /\ HistoryOK' /\ ResultOK' /\ WithinBounds'
         /\ Abs!Next
<1>1. /\ collStatus' = [collStatus EXCEPT ![r][0] = collStatus[r][1]]
      /\ epochGvt' = [epochGvt EXCEPT ![r][0] = epochGvt[r][1]]
      /\ UNCHANGED <<epoch, lvt, lsend, lrecv, rdxn, ups, downs, event, round>>
  BY DEF Advance, countVars, treeVars
<1>2. /\ collStatus \in [Ranks -> [0 .. 1 -> Status]] /\ epochGvt \in [Ranks -> [0 .. 1 -> Time]]
      /\ HistoryOK /\ ResultOK /\ WithinBounds
  BY DEF RefinementInv, Inv, AllOK, Types
<1>3. \A q \in Ranks : /\ collStatus'[q][1] = collStatus[q][1] /\ epochGvt'[q][1] = epochGvt[q][1]
                       /\ q # r => collStatus'[q][0] = collStatus[q][0] /\ epochGvt'[q][0] = epochGvt[q][0]
                       /\ q = r => collStatus'[q][0] = collStatus[q][1] /\ epochGvt'[q][0] = epochGvt[q][1]
  BY <1>1, <1>2
<1>4. 0 \in Ranks
  BY RanksAreNumbers
<1>5. nextId' = nextId /\ ident' = ident /\ sent' = sent /\ rcvd' = rcvd
  BY <1>1, <1>2, NoneMoves
<1>6. quiesced' = quiesced /\ cepoch' = cepoch /\ counted' = counted
  <2>1. ~ Concluded
    BY <1>1, <1>3, <1>4 DEF Concluded, Began
  <2> QED
    BY <1>1, <1>2, <2>1, NoneBegins
<1>7. HistoryOK'
  BY <1>1, <1>2, <1>5, HistoryKept
<1>8. ResultOK'
  BY <1>1, <1>2, <1>3, <1>4, <1>6 DEF ResultOK
<1>9. WithinBounds'
  BY <1>1, <1>2 DEF WithinBounds, Bounded
<1>10. /\ At(collStatus', 1) = At(collStatus, 1) /\ At(epochGvt', 1) = At(epochGvt, 1)
       /\ At(collStatus', 0) = [At(collStatus, 0) EXCEPT ![r] = At(collStatus, 1)[r]]
       /\ At(epochGvt', 0) = [At(epochGvt, 0) EXCEPT ![r] = At(epochGvt, 1)[r]]
  BY <1>3 DEF At
<1>11. Contrib(collStatus', downs') = Contrib(collStatus, downs)
  BY <1>1, <1>3 DEF Contrib
<1>12. UNCHANGED Abs!collVars
  BY <1>1, <1>3, <1>4, <1>6, <1>11 DEF Abs!collVars, LvtOf, SendsOf, RecvsOf, Parts, Undelivered
<1>13. UNCHANGED Abs!clientVars
  BY <1>1, <1>5 DEF Abs!clientVars, Pending, LocalTimes
<1>14. UNCHANGED Abs!countVars
  BY <1>1 DEF Abs!countVars, At
<1>15. Abs!Advance(r)
  BY <1>1, <1>10, <1>12, <1>13, <1>14 DEF Abs!Advance
<1> QED
  BY <1>7, <1>8, <1>9, <1>15 DEF Abs!Next

(* rdxn_down on a rank: the result is delivered to it.                     *)
LEMMA RecvDownMaps ==
  ASSUME RefinementInv, Remember, Bounded, NEW r \in Ranks, RecvDown(r)
  PROVE  /\ HistoryOK' /\ ResultOK' /\ WithinBounds'
         /\ Abs!Next
<1>1. PICK e, d : InvParts(e, d)
  BY InvHasParts DEF RefinementInv
<1>2. PICK m, q : Handled(e, d, r, m, q)
  BY <1>1, DownHandled
<1>3. /\ m \in downs /\ m \in DownMessages /\ m.dst = r /\ r \in Covers(m)
      /\ q \in BOOLEAN /\ (q <=> m.toUb < 0)
      /\ collStatus' = [collStatus EXCEPT ![r][1] = IF q THEN "quiesced" ELSE "non_quiesced"]
      /\ Told(epochGvt, r, q, m.gvt, epochGvt')
      /\ UNCHANGED <<epoch, lvt, lsend, lrecv, rdxn, ups, event, round>>
  BY <1>2 DEF Handled
<1>4. /\ Contrib(collStatus', downs') = Contrib(collStatus, downs)
      /\ \A n \in downs' : n \in downs \/ (n.gvt = m.gvt /\ (n.toUb < 0) = q)
      /\ UNION {Covers(n) : n \in downs'} = (UNION {Covers(n) : n \in downs}) \ {r}
  BY <1>2, <1>3 DEF Handled, Delivered
<1>5. /\ collStatus \in [Ranks -> [0 .. 1 -> Status]] /\ epochGvt \in [Ranks -> [0 .. 1 -> Time]]
      /\ HistoryOK /\ ResultOK /\ WithinBounds
  BY DEF RefinementInv, Inv, AllOK, Types
<1>6. r # 0 /\ 0 \in Ranks
  BY <1>3, RanksAreNumbers DEF DownMessages
<1>7. q = quiesced /\ (quiesced => m.gvt = epochGvt[0][1])
  <2>1. /\ quiesced \in BOOLEAN /\ (m.toUb < 0 <=> quiesced)
        /\ quiesced => m.gvt = epochGvt[0][1]
    BY <1>3, <1>5 DEF ResultOK
  <2>2. q <=> quiesced
    BY <1>3, <2>1
  <2> QED
    BY <1>3, <2>1, <2>2
<1>8. /\ \A z \in Ranks : collStatus'[z][0] = collStatus[z][0]
      /\ \A z \in Ranks \ {r} : collStatus'[z][1] = collStatus[z][1]
      /\ collStatus'[r][1] = Abs!Verdict(q)
  BY <1>3, <1>5 DEF Abs!Verdict
<1>9. /\ \A z \in Ranks : epochGvt'[z][0] = epochGvt[z][0]
      /\ \A z \in Ranks \ {r} : epochGvt'[z][1] = epochGvt[z][1]
      /\ epochGvt'[r][1] = IF q THEN epochGvt[0][1] ELSE epochGvt[r][1]
  BY <1>3, <1>5, <1>7 DEF Told
<1>10. nextId' = nextId /\ ident' = ident /\ sent' = sent /\ rcvd' = rcvd
  BY <1>3, <1>5, NoneMoves
<1>11. quiesced' = quiesced /\ cepoch' = cepoch /\ counted' = counted
  <2>1. ~ Concluded
    BY <1>3, <1>6, <1>8 DEF Concluded, Began
  <2> QED
    BY <1>3, <1>5, <2>1, NoneBegins
<1>12. HistoryOK'
  BY <1>3, <1>5, <1>10, HistoryKept
<1>13. ResultOK'
  <2>1. ASSUME NEW n \in downs'
        PROVE  (n.toUb < 0 <=> quiesced) /\ (quiesced => n.gvt = epochGvt[0][1])
    <3>1. CASE n \in downs
      BY <1>5, <3>1 DEF ResultOK
    <3>2. CASE n.gvt = m.gvt /\ (n.toUb < 0) = q
      <4>1. n.toUb < 0 <=> quiesced
        <5>1. (n.toUb < 0) = quiesced /\ quiesced \in BOOLEAN
          BY <1>5, <1>7, <3>2 DEF ResultOK
        <5>2. CASE quiesced = TRUE
          BY <5>1, <5>2
        <5>3. CASE quiesced = FALSE
          BY <5>1, <5>3
        <5> QED
          BY <5>1, <5>2, <5>3
      <4> QED
        BY <1>7, <3>2, <4>1
    <3> QED
      BY <1>4, <3>1, <3>2
  <2>2. epochGvt'[0][1] = epochGvt[0][1]
    BY <1>6, <1>9
  <2> QED
    BY <1>5, <1>11, <2>1, <2>2 DEF ResultOK
<1>14. WithinBounds'
  BY <1>3, <1>5 DEF WithinBounds, Bounded
<1>15. /\ At(collStatus', 0) = At(collStatus, 0) /\ At(epochGvt', 0) = At(epochGvt, 0)
       /\ At(collStatus', 1) = [At(collStatus, 1) EXCEPT ![r] = Abs!Verdict(quiesced)]
       /\ At(epochGvt', 1) = IF quiesced THEN [At(epochGvt, 1) EXCEPT ![r] = epochGvt[0][1]]
                                         ELSE At(epochGvt, 1)
  <2>1. \A z \in Ranks : collStatus'[z][1] = IF z = r THEN Abs!Verdict(quiesced) ELSE collStatus[z][1]
    BY <1>7, <1>8
  <2>2. CASE quiesced
    BY <1>7, <1>8, <1>9, <2>1, <2>2 DEF At
  <2>3. CASE ~ quiesced
    <3>1. \A z \in Ranks : epochGvt'[z][1] = epochGvt[z][1]
      BY <1>7, <1>9, <2>3
    <3> QED
      BY <1>8, <1>9, <2>1, <2>3, <3>1 DEF At
  <2> QED
    BY <2>2, <2>3
<1>16. Undelivered' = Undelivered \ {r} /\ r \in Undelivered
  BY <1>3, <1>4 DEF Undelivered
<1>17. /\ epochGvt'[0][1] = epochGvt[0][1]
       /\ LvtOf(Parts(rdxn', ups')) = LvtOf(Parts(rdxn, ups))
       /\ SendsOf(Parts(rdxn', ups')) = SendsOf(Parts(rdxn, ups))
       /\ RecvsOf(Parts(rdxn', ups')) = RecvsOf(Parts(rdxn, ups))
  BY <1>3, <1>6, <1>9
<1>18. UNCHANGED Abs!clientVars
  BY <1>3, <1>10 DEF Abs!clientVars, Pending, LocalTimes
<1>19. UNCHANGED Abs!countVars
  BY <1>3 DEF Abs!countVars, At
<1>20. Abs!Deliver(r)
  BY <1>3, <1>4, <1>11, <1>15, <1>16, <1>17, <1>18, <1>19 DEF Abs!Deliver
<1> QED
  BY <1>12, <1>13, <1>14, <1>20 DEF Abs!Next

-----------------------------------------------------------------------------
(* A finite set of partial sums.                                           *)
IsPart(p) == p.lvt \in Time /\ p.send \in Nat /\ p.recv \in Nat
PartSet(P) == IsFiniteSet(P) /\ \A p \in P : IsPart(p)

(* The protocol's accumulators that P stands for.                          *)
Totals(P, v, s, c) == LvtOf(P) = v /\ SendsOf(P) = s /\ RecvsOf(P) = c

(* The least time of the partial sums, Inf if there is none.               *)
LEMMA LvtOfIs ==
  ASSUME NEW P, PartSet(P)
  PROVE  /\ LvtOf(P) \in {Inf} \cup {p.lvt : p \in P} /\ LvtOf(P) \in Nat
         /\ LvtOf(P) <= Inf /\ \A p \in P : LvtOf(P) <= p.lvt
<1> DEFINE V == {Inf} \cup {p.lvt : p \in P}
<1>1. V \subseteq Nat /\ V # {}
  BY TimesAreNumbers DEF PartSet, IsPart
<1>2. \A v : (v <= Inf /\ \A p \in P : v <= p.lvt) <=> \A u \in V : v <= u
  OBVIOUS
<1> HIDE DEF V
<1>3. PICK v \in V : \A u \in V : v <= u
  BY <1>1, LeastElement
<1>4. \E w \in V : w <= Inf /\ \A p \in P : w <= p.lvt
  BY <1>2, <1>3
<1>5. LvtOf(P) = CHOOSE w \in V : w <= Inf /\ \A p \in P : w <= p.lvt
  BY DEF LvtOf, V
<1>6. LvtOf(P) \in V /\ LvtOf(P) <= Inf /\ \A p \in P : LvtOf(P) <= p.lvt
  BY <1>4, <1>5
<1> QED
  BY <1>1, <1>6 DEF V

(* No partial sum.                                                         *)
LEMMA NoParts == PartSet({}) /\ Totals({}, Inf, 0, 0)
<1>1. PartSet({})
  BY FS_EmptySet DEF PartSet
<1>2. LvtOf({}) = Inf
  BY <1>1, LvtOfIs
<1> QED
  BY <1>1, <1>2, SumEmpty DEF Totals, SendsOf, RecvsOf

(* One more partial sum.                                                   *)
LEMMA AddPart ==
  ASSUME NEW P, PartSet(P), NEW y, y \notin P, IsPart(y)
  PROVE  /\ PartSet(P \cup {y})
         /\ SendsOf(P) \in Nat /\ RecvsOf(P) \in Nat /\ LvtOf(P) \in Nat
         /\ Totals(P \cup {y}, Least(LvtOf(P), y.lvt), SendsOf(P) + y.send, RecvsOf(P) + y.recv)
<1> DEFINE R == P \cup {y}
<1>1. IsFiniteSet(P) /\ IsFiniteSet({y}) /\ P \cap {y} = {}
  BY FS_Singleton DEF PartSet
<1>2. PartSet(R)
  BY <1>1, FS_Union DEF PartSet
<1>3. SendsOf(R) = SendsOf(P) + y.send /\ SendsOf(P) \in Nat
  <2> DEFINE f == [p \in R |-> p.send]  g == [p \in P |-> p.send]
  <2>1. \A p \in R : f[p] \in Nat
    BY <1>2 DEF PartSet, IsPart
  <2>2. f[y] = y.send /\ \A p \in P : f[p] = g[p]
    OBVIOUS
  <2>3. SendsOf(R) = SumOf(f, R) /\ SendsOf(P) = SumOf(g, P)
    BY DEF SendsOf
  <2> HIDE DEF f, g
  <2>4. SumOf(f, P \cup {y}) = SumOf(f, P) + SumOf(f, {y})
    BY <1>1, <2>1, SumUnion
  <2>5. SumOf(f, {y}) = y.send
    BY <2>1, <2>2, SumOne
  <2>6. SumOf(f, P) = SumOf(g, P) /\ SumOf(f, P) \in Nat
    BY <1>1, <2>1, <2>2, SumAgree, SumType
  <2> QED
    BY <2>3, <2>4, <2>5, <2>6
<1>4. RecvsOf(R) = RecvsOf(P) + y.recv /\ RecvsOf(P) \in Nat
  <2> DEFINE f == [p \in R |-> p.recv]  g == [p \in P |-> p.recv]
  <2>1. \A p \in R : f[p] \in Nat
    BY <1>2 DEF PartSet, IsPart
  <2>2. f[y] = y.recv /\ \A p \in P : f[p] = g[p]
    OBVIOUS
  <2>3. RecvsOf(R) = SumOf(f, R) /\ RecvsOf(P) = SumOf(g, P)
    BY DEF RecvsOf
  <2> HIDE DEF f, g
  <2>4. SumOf(f, P \cup {y}) = SumOf(f, P) + SumOf(f, {y})
    BY <1>1, <2>1, SumUnion
  <2>5. SumOf(f, {y}) = y.recv
    BY <2>1, <2>2, SumOne
  <2>6. SumOf(f, P) = SumOf(g, P) /\ SumOf(f, P) \in Nat
    BY <1>1, <2>1, <2>2, SumAgree, SumType
  <2> QED
    BY <2>3, <2>4, <2>5, <2>6
<1>5. LvtOf(R) = Least(LvtOf(P), y.lvt)
  <2>1. /\ LvtOf(P) \in {Inf} \cup {p.lvt : p \in P} /\ LvtOf(P) \in Nat
        /\ LvtOf(P) <= Inf /\ \A p \in P : LvtOf(P) <= p.lvt
    BY LvtOfIs
  <2>2. /\ LvtOf(R) \in {Inf} \cup {p.lvt : p \in R} /\ LvtOf(R) \in Nat
        /\ LvtOf(R) <= Inf /\ \A p \in R : LvtOf(R) <= p.lvt
    BY <1>2, LvtOfIs
  <2> DEFINE a == LvtOf(P)  b == LvtOf(R)
  <2>3. a \in Nat /\ b \in Nat /\ y.lvt \in Nat /\ b <= y.lvt /\ Inf \in Nat
    BY <2>1, <2>2, TimesAreNumbers DEF IsPart
  <2>4. b <= a
    BY <2>1, <2>2
  <2>5. b = y.lvt \/ a <= b
    BY <2>1, <2>2
  <2> HIDE DEF a, b
  <2>6. b = Least(a, y.lvt)
    BY <2>3, <2>4, <2>5 DEF Least
  <2> QED
    BY <2>6 DEF a, b
<1> QED
  BY <1>2, <1>3, <1>4, <1>5, LvtOfIs DEF Totals

-----------------------------------------------------------------------------
(* The partial sums of the tree, without those of rank me.                 *)
Others(rx, up, me) ==
  {NodePart(rx, q) : q \in {z \in Ranks \ {me} : rx[z].incoming > 0}} \cup {UpPart(m) : m \in up}

(* They are finitely many, and each is where it says.                      *)
LEMMA OthersArePart ==
  ASSUME NEW rx \in [Ranks -> Sums], NEW up, up \subseteq UpMessages,
         \A m, n \in up : n.src = m.src => n = m, NEW me
  PROVE  /\ PartSet(Others(rx, up, me))
         /\ me \in Ranks => \A p \in Others(rx, up, me) : p.at # me
         /\ \A u \in Ranks \ Sources(up) : \A p \in Others(rx, up, me) : p.at # u + N
<1> DEFINE Q == {z \in Ranks \ {me} : rx[z].incoming > 0}
           A == {NodePart(rx, q) : q \in Q}
           B == {UpPart(m) : m \in up}
<1>1. IsFiniteSet(Q) /\ IsFiniteSet(Sources(up))
  <2>1. Sources(up) \subseteq Ranks
    BY DEF Sources, UpMessages
  <2> QED
    BY <2>1, RankSetFinite
<1>2. IsFiniteSet(A)
  <2> DEFINE f == [q \in Q |-> NodePart(rx, q)]
  <2>1. f \in Surjection(Q, A)
    BY DEF Surjection
  <2> QED
    BY <1>1, <2>1, FS_Surjection
<1>3. IsFiniteSet(B)
  <2> DEFINE f == [u \in Sources(up) |-> UpPart(CHOOSE m \in up : m.src = u)]
  <2>1. \A u \in Sources(up) : (CHOOSE m \in up : m.src = u) \in up
    BY DEF Sources
  <2>2. \A n \in up : n.src \in Sources(up) /\ (CHOOSE m \in up : m.src = n.src) = n
    BY DEF Sources
  <2>3. f \in [Sources(up) -> B]
    BY <2>1
  <2>4. \A p \in B : \E u \in Sources(up) : f[u] = p
    <3> SUFFICES ASSUME NEW n \in up PROVE \E u \in Sources(up) : f[u] = UpPart(n)
      OBVIOUS
    <3>1. f[n.src] = UpPart(n) /\ n.src \in Sources(up)
      BY <2>2
    <3> QED
      BY <3>1
  <2> HIDE DEF f, B
  <2>5. f \in Surjection(Sources(up), B)
    BY <2>3, <2>4 DEF Surjection
  <2> QED
    BY <1>1, <2>5, FS_Surjection
<1>4. \A q \in Q : IsPart(NodePart(rx, q)) /\ NodePart(rx, q).at = q /\ q \in Ranks \ {me}
  BY DEF NodePart, IsPart, Sums
<1>5. \A m \in up : IsPart(UpPart(m)) /\ UpPart(m).at = m.src + N /\ m.src \in Sources(up) /\ m.src \in Ranks
  BY DEF UpPart, IsPart, UpMessages, Sources
<1>6. N \in Nat \ {0} /\ \A r \in Ranks : r \in Nat /\ r < N
  BY RanksAreNumbers
<1>7. Others(rx, up, me) = A \cup B
  BY DEF Others
<1>8. IsFiniteSet(A \cup B)
  BY <1>2, <1>3, FS_Union
<1>9. \A p \in A : IsPart(p) /\ p.at \in Ranks \ {me}
  BY <1>4
<1>10. \A p \in B : IsPart(p) /\ \E u \in Ranks : u \in Sources(up) /\ p.at = u + N
  BY <1>5
<1> HIDE DEF A, B, Q
<1>11. PartSet(A \cup B)
  BY <1>8, <1>9, <1>10 DEF PartSet
<1>12. ASSUME me \in Ranks, NEW p \in A \cup B PROVE p.at # me
  BY <1>6, <1>9, <1>10, <1>12
<1>13. ASSUME NEW u \in Ranks \ Sources(up), NEW p \in A \cup B PROVE p.at # u + N
  BY <1>6, <1>9, <1>10
<1> QED
  BY <1>7, <1>11, <1>12, <1>13

(* The partial sums, with and without those of rank me.                    *)
LEMMA PartsSplit ==
  ASSUME NEW rx, NEW up, NEW me \in Ranks
  PROVE  Parts(rx, up) = IF rx[me].incoming > 0
                         THEN Others(rx, up, me) \cup {NodePart(rx, me)} ELSE Others(rx, up, me)
<1> DEFINE Q == {z \in Ranks : rx[z].incoming > 0}
           Q1 == {z \in Ranks \ {me} : rx[z].incoming > 0}
<1>1. CASE rx[me].incoming > 0
  <2>1. Q = Q1 \cup {me}
    BY <1>1
  <2>2. {NodePart(rx, q) : q \in Q} = {NodePart(rx, q) : q \in Q1} \cup {NodePart(rx, me)}
    BY <2>1
  <2> QED
    BY <1>1, <2>2 DEF Parts, Others
<1>2. CASE ~ (rx[me].incoming > 0)
  <2>1. Q = Q1
    BY <1>2
  <2> QED
    BY <1>2, <2>1 DEF Parts, Others
<1> QED
  BY <1>1, <1>2

(* Another message of rdxn_up is one more partial sum.                     *)
LEMMA PartsUp ==
  ASSUME NEW rx, NEW up, NEW m
  PROVE  /\ Parts(rx, up \cup {m}) = Parts(rx, up) \cup {UpPart(m)}
         /\ \A me : Others(rx, up \cup {m}, me) = Others(rx, up, me) \cup {UpPart(m)}
BY DEF Parts, Others

(* Only me's accumulators change.                                          *)
LEMMA OthersSame ==
  ASSUME NEW rx, NEW up, NEW me, NEW rx2, \A q \in Ranks \ {me} : rx2[q] = rx[q]
  PROVE  Others(rx2, up, me) = Others(rx, up, me)
<1>1. \A q \in Ranks \ {me} : rx2[q] = rx[q]
  OBVIOUS
<1>2. \A q \in Ranks \ {me} : NodePart(rx2, q) = NodePart(rx, q)
  BY <1>1 DEF NodePart
<1> DEFINE Q == {z \in Ranks \ {me} : rx[z].incoming > 0}
<1>3. Q = {z \in Ranks \ {me} : rx2[z].incoming > 0}
  BY <1>1
<1>4. {NodePart(rx2, q) : q \in Q} = {NodePart(rx, q) : q \in Q}
  BY <1>2
<1> QED
  BY <1>3, <1>4 DEF Others

(* The accumulators of the protocol after a call of rdxn_up on rank me     *)
(* that brings v, s and c: at the root, when it is the last, the root has  *)
(* them; else they are spread over the tree.                               *)
Gathers(rx, up1, new, v, s, c, rx2, up2, last) ==
  \E g, t, u \in Nat :
    /\ Totals(Parts(rx, up1), g, t, u)
    /\ ~ last => Totals(Parts(rx2, up2), Least(g, v), t + s, u + c)
    /\ last => /\ Totals(Parts(rx2, up2), Inf, 0, 0)
               /\ new.gvtAcc = Least(g, v) /\ new.gsend = t + s /\ new.grecv = u + c

(* A call of rdxn_up does this to the protocol's accumulators.             *)
LEMMA Gathering ==
  ASSUME NEW lv, NEW ls, NEW lr, NEW rd, NEW C, NEW rx, NEW up, NEW me, NEW C1, NEW up1,
         NEW a, NEW P, NEW v, NEW s, NEW c, NEW x, NEW new, NEW rx2, NEW up2, NEW last \in BOOLEAN,
         Rises(lv, ls, lr, rd, C, rx, up, me, C1, up1, a, P, v, s, c, x, new, rx2),
         last <=> new.incoming = 0 /\ me = 0,
         up2 = IF new.incoming = 0 /\ me # 0 THEN up1 \cup {UpMessage(me, new)} ELSE up1
  PROVE  Gathers(rx, up1, new, v, s, c, rx2, up2, last)
<1>1. /\ C \subseteq Ranks /\ up \subseteq UpMessages /\ rx \in [Ranks -> Sums]
      /\ TreeOK(C, rx, up, lv, ls, lr, rd)
      /\ me \in Ranks /\ up1 \subseteq up
      /\ Arrives(C, Sources(up), C1, Sources(up1), me, a, P)
      /\ v \in Time /\ s \in Nat /\ c \in Nat
      /\ IsAccumulated(rx[me], new, me, v, s, c, x)
      /\ rx2 = [rx EXCEPT ![me] = new]
  BY DEF Rises
<1>2. Risen(lv, ls, lr, rd, me, C1, up1, new, rx2)
  BY TreeStep
<1>3. UpOK(C, up, lv, ls, lr, rd) /\ \A m, n \in up1 : n.src = m.src => n = m
  BY <1>1 DEF TreeOK, UpOK
<1>4. me \notin Sources(up1)
  <2>1. SourcesOK(C, Sources(up))
    BY <1>1, <1>3, SourcesAreOK
  <2>2. ArrivedAt(C, Sources(up), C1, Sources(up1), me, a, P)
    BY <1>1, <2>1, ArrivalAt
  <2> QED
    BY <2>2 DEF ArrivedAt
<1> DEFINE R == Others(rx, up1, me)
           old == rx[me]
           x0 == NodePart(rx, me)
           x1 == NodePart(rx2, me)
           x2 == UpPart(UpMessage(me, new))
<1>5. /\ PartSet(R) /\ (\A p \in R : p.at # me) /\ (\A p \in R : p.at # me + N)
  BY <1>1, <1>3, <1>4, OthersArePart
<1>6. Others(rx2, up1, me) = R
  <2>1. \A q \in Ranks \ {me} : rx2[q] = rx[q]
    BY <1>1
  <2> QED
    BY <2>1, OthersSame
<1>7. new \in Sums /\ old \in Sums /\ rx2[me] = new
  BY <1>1, <1>2 DEF Risen
<1>8. /\ IsPart(x0) /\ x0 \notin R /\ x0.lvt = old.gvtAcc /\ x0.send = old.gsend /\ x0.recv = old.grecv
      /\ IsPart(x1) /\ x1 \notin R /\ x1.lvt = new.gvtAcc /\ x1.send = new.gsend /\ x1.recv = new.grecv
  <2>1. x0.at = me /\ x1.at = me
    BY DEF NodePart
  <2>2. x0 \notin R /\ x1 \notin R
    BY <1>5, <2>1
  <2> QED
    BY <1>7, <2>2 DEF NodePart, IsPart, Sums
<1>9. IsPart(x2) /\ x2 \notin R /\ x2.lvt = new.gvtAcc /\ x2.send = new.gsend /\ x2.recv = new.grecv
  <2>1. x2.at = me + N
    BY DEF UpPart, UpMessage
  <2>2. x2 \notin R
    BY <1>5, <2>1
  <2> QED
    BY <1>7, <2>2 DEF UpPart, UpMessage, IsPart, Sums
<1> HIDE DEF R, x0, x1, x2, old
<1>19. new.incoming = 0 => Parts(rx2, up1) = R
  <2>1. me \in Ranks
    BY <1>1
  <2>2. new.incoming = 0 => ~ (rx2[me].incoming > 0)
    BY <1>7
  <2> QED
    BY <1>6, <2>1, <2>2, PartsSplit
<1>10. PICK g, t, u \in Nat : Totals(R, g, t, u)
  BY <1>5, <1>8, AddPart DEF Totals
<1>11. \A y : y \notin R /\ IsPart(y) => Totals(R \cup {y}, Least(g, y.lvt), t + y.send, u + y.recv)
  BY <1>5, <1>10, AddPart DEF Totals
<1>12. /\ old.incoming \in Nat /\ old.gvtAcc \in Nat /\ old.gsend \in Nat /\ old.grecv \in Nat
       /\ new.incoming \in Nat /\ new.gvtAcc \in Nat /\ new.gsend \in Nat /\ new.grecv \in Nat
       /\ v \in Nat /\ v <= Inf /\ Inf \in Nat
  BY <1>1, <1>7, TimesAreNumbers DEF Sums
<1>13. g <= Inf
  BY <1>5, <1>10, LvtOfIs DEF Totals
<1>14. \E g0, t0, u0 \in Nat : /\ Totals(Parts(rx, up1), g0, t0, u0)
                               /\ Least(g, new.gvtAcc) = Least(g0, v)
                               /\ t + new.gsend = t0 + s /\ u + new.grecv = u0 + c
  <2>1. CASE old.incoming = 0
    <3>1. Parts(rx, up1) = R
      BY <1>1, <2>1, PartsSplit DEF R, old
    <3>2. new.gvtAcc = Least(Inf, v) /\ new.gsend = s /\ new.grecv = c
      BY <1>1, <2>1 DEF IsAccumulated, old
    <3>3. new.gvtAcc = v
      BY <1>12, <3>2 DEF Least
    <3>4. Totals(Parts(rx, up1), g, t, u)
      BY <1>10, <3>1
    <3> QED
      BY <3>2, <3>3, <3>4
  <2>2. CASE old.incoming # 0
    <3>1. old.incoming > 0
      BY <1>12, <2>2
    <3>2. Parts(rx, up1) = R \cup {x0}
      BY <1>1, <3>1, PartsSplit DEF R, old, x0
    <3>3. new.gvtAcc = Least(old.gvtAcc, v) /\ new.gsend = old.gsend + s /\ new.grecv = old.grecv + c
      BY <1>1, <2>2 DEF IsAccumulated, old
    <3>4. Totals(Parts(rx, up1), Least(g, old.gvtAcc), t + old.gsend, u + old.grecv)
      BY <1>8, <1>11, <3>2
    <3>5. Least(g, old.gvtAcc) \in Nat /\ t + old.gsend \in Nat /\ u + old.grecv \in Nat
      BY <1>12 DEF Least
    <3>6. Least(g, new.gvtAcc) = Least(Least(g, old.gvtAcc), v)
      BY <1>12, <3>3 DEF Least
    <3>7. t + new.gsend = (t + old.gsend) + s /\ u + new.grecv = (u + old.grecv) + c
      BY <1>1, <1>12, <3>3
    <3> QED
      BY <3>4, <3>5, <3>6, <3>7
  <2> QED
    BY <2>1, <2>2
<1>15. PICK g0, t0, u0 \in Nat : /\ Totals(Parts(rx, up1), g0, t0, u0)
                                 /\ Least(g, new.gvtAcc) = Least(g0, v)
                                 /\ t + new.gsend = t0 + s /\ u + new.grecv = u0 + c
  BY <1>14
<1>16. CASE new.incoming > 0
  <2>1. up2 = up1 /\ ~ last
    BY <1>12, <1>16
  <2>2. Parts(rx2, up2) = R \cup {x1}
    BY <1>1, <1>6, <1>7, <1>16, <2>1, PartsSplit DEF x1
  <2>3. Totals(Parts(rx2, up2), Least(g, new.gvtAcc), t + new.gsend, u + new.grecv)
    BY <1>8, <1>11, <2>2
  <2>4. Totals(Parts(rx2, up2), Least(g0, v), t0 + s, u0 + c)
    BY <1>15, <2>3
  <2> QED
    BY <1>15, <2>1, <2>4 DEF Gathers
<1>17. CASE new.incoming = 0 /\ me # 0
  <2>1. up2 = up1 \cup {UpMessage(me, new)} /\ ~ last
    BY <1>17
  <2>2. Parts(rx2, up1) = R
    BY <1>17, <1>19
  <2>3. Parts(rx2, up2) = R \cup {x2}
    BY <2>1, <2>2, PartsUp DEF x2
  <2>4. Totals(Parts(rx2, up2), Least(g, new.gvtAcc), t + new.gsend, u + new.grecv)
    BY <1>9, <1>11, <2>3
  <2>5. Totals(Parts(rx2, up2), Least(g0, v), t0 + s, u0 + c)
    BY <1>15, <2>4
  <2> QED
    BY <1>15, <2>1, <2>5 DEF Gathers
<1>18. CASE new.incoming = 0 /\ me = 0
  <2>1. up2 = up1 /\ last
    BY <1>18
  <2>2. up1 = {} /\ \A y \in Ranks : rx2[y].incoming = 0
    BY <1>2, <1>18 DEF Risen
  <2>3. Parts(rx2, up2) = {} /\ R = {}
    <3>1. {z \in Ranks \ {me} : rx2[z].incoming > 0} = {}
      BY <2>2
    <3>2. Others(rx2, up1, me) = {}
      BY <2>2, <3>1 DEF Others
    <3>3. Parts(rx2, up1) = R
      BY <1>18, <1>19
    <3> QED
      BY <1>6, <2>1, <3>2, <3>3
  <2>4. g = Inf /\ t = 0 /\ u = 0 /\ Totals(Parts(rx2, up2), Inf, 0, 0)
    BY <1>10, <2>3, NoParts DEF Totals
  <2>5. new.gvtAcc = Least(g, new.gvtAcc) /\ new.gsend = t + new.gsend /\ new.grecv = u + new.grecv
    <3>1. new.gvtAcc <= Inf
      BY <1>7, TimesAreNumbers DEF Sums
    <3> QED
      BY <1>12, <2>4, <3>1 DEF Least
  <2>6. new.gvtAcc = Least(g0, v) /\ new.gsend = t0 + s /\ new.grecv = u0 + c
    BY <1>15, <2>5
  <2> QED
    BY <1>15, <2>1, <2>4, <2>6 DEF Gathers
<1> QED
  BY <1>12, <1>16, <1>17, <1>18

(* What a call of rdxn_up on rank me leaves: the last one of a collective  *)
(* draws the result and sends it to all the other ranks.                   *)
Ends(cs, eg, dn, me, new, q, last, cs2, eg2, dn2) ==
  /\ ~ last => cs2 = cs /\ dn2 = dn /\ eg2 = eg
  /\ last => /\ me = 0 /\ new.gvtAcc \in Time
             /\ Contrib(cs, dn) = Ranks /\ dn = {}
             /\ cs2 = [cs EXCEPT ![0][1] = IF q THEN "quiesced" ELSE "non_quiesced"]
             /\ Told(eg, 0, q, new.gvtAcc, eg2)
             /\ Contrib(cs2, dn2) = {}
             /\ UNION {Covers(m) : m \in dn2} = Ranks \ {0}
             /\ \A m \in dn2 : m.gvt = new.gvtAcc /\ (m.toUb < 0 <=> q)

(* Every call of rdxn_up does one or the other.                            *)
LEMMA BringsEnds ==
  ASSUME NEW cs, NEW crx, NEW eg, NEW ep, NEW lv, NEW ls, NEW lr, NEW rx, NEW up, NEW dn,
         NEW ev, NEW rd, NEW e, NEW d, NEW C,
         Ready(cs, crx, eg, ep, lv, ls, lr, rx, up, dn, ev, rd, e, d, C),
         NEW up1, NEW me, NEW a, NEW P, NEW v, NEW s, NEW c, NEW x, NEW new, NEW q,
         Brings(cs, dn, lv, ls, lr, rd, rx, up, up1, C, me, a, P, v, s, c, x, new, q),
         NEW cs2, NEW crx2, NEW eg2, NEW rx2, NEW up2, NEW dn2,
         Outcome(cs, crx, eg, rx, dn, up1, me, new, q, cs2, crx2, eg2, rx2, up2, dn2)
  PROVE  \E last \in BOOLEAN : /\ Gathers(rx, up1, new, v, s, c, rx2, up2, last)
                               /\ Ends(cs, eg, dn, me, new, q, last, cs2, eg2, dn2)
<1>1. /\ Types(cs, crx, eg, ep, lv, ls, lr, rx, up, dn, ev, rd)
      /\ e \in Epochs /\ d \in {0, 1}
      /\ CollOK(cs, crx, ep, rd, dn, e, d)
      /\ C \subseteq Ranks /\ TreeOK(C, rx, up, lv, ls, lr, rd)
  BY DEF Ready
<1>2. /\ me \in Ranks /\ up1 \subseteq up
      /\ Arrives(C, Sources(up), Contrib(cs, dn), Sources(up1), me, a, P)
      /\ v \in Time /\ s \in Nat /\ c \in Nat /\ x \in Nat
      /\ IsSum(lv, ls, lr, rd, P, v, s, c, x)
      /\ IsAccumulated(rx[me], new, me, v, s, c, x)
      /\ q \in BOOLEAN /\ (q <=> new.gsend = new.grecv)
  BY DEF Brings
<1>3. rx2 = [rx EXCEPT ![me] = new]
  BY DEF Outcome
<1> DEFINE C1 == Contrib(cs, dn)
<1> HIDE DEF C1
<1>4. Arrives(C, Sources(up), C1, Sources(up1), me, a, P)
  BY <1>2 DEF C1
<1>5. Rises(lv, ls, lr, rd, C, rx, up, me, C1, up1, a, P, v, s, c, x, new, rx2)
  <2>1. CountTypes(lv, ls, lr, rd) /\ up \subseteq UpMessages /\ rx \in [Ranks -> Sums]
    BY <1>1 DEF Types, CountTypes
  <2> QED
    BY <1>1, <1>2, <1>3, <1>4, <2>1 DEF Rises
<1>6. Risen(lv, ls, lr, rd, me, C1, up1, new, rx2)
  BY <1>5, TreeStep
<1>7. new \in Sums /\ new.incoming \in Nat /\ new.gvtAcc \in Time /\ new.rxsAcc \in Nat
  BY <1>6 DEF Risen, Sums
<1>8. PICK last \in BOOLEAN : last <=> new.incoming = 0 /\ me = 0
  OBVIOUS
<1>9. up2 = IF new.incoming = 0 /\ me # 0 THEN up1 \cup {UpMessage(me, new)} ELSE up1
  <2>1. CASE new.incoming > 0
    <3>1. new.incoming # 0
      BY <1>7, <2>1
    <3> QED
      BY <3>1 DEF Outcome
  <2>2. CASE new.incoming = 0
    <3>1. ~ (new.incoming > 0)
      BY <1>7, <2>2
    <3> QED
      BY <2>2, <3>1 DEF Outcome
  <2> QED
    BY <1>7, <2>1, <2>2
<1>10. Gathers(rx, up1, new, v, s, c, rx2, up2, last)
  <2>1. last <=> new.incoming = 0 /\ me = 0
    BY <1>8
  <2> QED
    BY <1>5, <1>9, <2>1, Gathering
<1>11. CASE ~ last
  <2>1. cs2 = cs /\ dn2 = dn /\ eg2 = eg
    BY <1>8, <1>11 DEF Outcome
  <2> QED
    BY <1>10, <1>11, <2>1 DEF Ends
<1>12. CASE last
  <2>1. new.incoming = 0 /\ me = 0 /\ ~ (new.incoming > 0)
    BY <1>8, <1>12
  <2> DEFINE g == new.gvtAcc  y == new.rxsAcc
  <2>2. /\ Drawn(cs, crx, dn, q, g, y, cs2, crx2, dn2) /\ Told(eg, 0, q, g, eg2)
    BY <2>1 DEF Outcome
  <2>3. C1 = Ranks /\ IsSum(lv, ls, lr, rd, Ranks, g, new.gsend, new.grecv, y)
    BY <1>6, <2>1 DEF Risen
  <2>4. g \in Time /\ y \in Nat
    BY <1>7
  <2>5. StatusTypes(cs, ep, rd, dn) /\ crx \in [Ranks -> [0 .. 1 -> Nat]]
    BY <1>1 DEF Types, StatusTypes
  <2>6. Contrib(cs, dn) = Ranks
    BY <2>3 DEF C1
  <2> HIDE DEF g, y
  <2>7. dn = {}
    BY <1>1, <2>5, <2>6, NoneOnItsWay
  <2>8. y = N * d
    <3>1. \A r \in Ranks : rd[r] = d
      BY <1>1, <2>6 DEF CollOK
    <3>2. d \in Nat /\ IsFiniteSet(Ranks) /\ Cardinality(Ranks) = N
      BY <1>1, RanksFinite
    <3>3. SumOf(rd, Ranks) = Cardinality(Ranks) * d
      BY <3>1, <3>2, SumConstant
    <3> QED
      BY <2>3, <3>2, <3>3 DEF IsSum
  <2>9. Opened(ep, rd, e, d, q, g, cs2, crx2, dn2)
    <3>1. Draws(cs, crx, ep, rd, dn, e, d, q, g, y, cs2, crx2, dn2)
      BY <1>1, <1>2, <2>2, <2>4, <2>5, <2>6, <2>8 DEF Draws
    <3> QED
      BY <3>1, CollConclude
  <2>10. HalvesCovers(0, N, q, g, y, dn2)
    <3>1. N \in 0 + 1 .. N /\ 0 \in Ranks
      BY RanksAreNumbers
    <3> QED
      BY <1>2, <2>2, <2>4, <2>7, <3>1, HalvesCover DEF Drawn
  <2>11. UNION {Covers(m) : m \in dn2} = Ranks \ {0}
    <3>1. 0 + 1 .. N - 1 = Ranks \ {0}
      BY RanksAreNumbers DEF Ranks
    <3> QED
      BY <2>10, <3>1 DEF HalvesCovers
  <2>12. \A m \in dn2 : m.gvt = g /\ (m.toUb < 0 <=> q)
    <3>1. \A m \in dn2 : (m.toUb < 0) = q /\ m.gvt = g
      BY <2>10 DEF HalvesCovers
    <3>2. q \in BOOLEAN
      BY <1>2
    <3>3. CASE q = TRUE
      BY <3>1, <3>3
    <3>4. CASE q = FALSE
      BY <3>1, <3>4
    <3> QED
      BY <3>2, <3>3, <3>4
  <2>13. /\ Contrib(cs2, dn2) = {}
         /\ cs2 = [cs EXCEPT ![0][1] = IF q THEN "quiesced" ELSE "non_quiesced"]
    BY <2>2, <2>9 DEF Opened, Drawn
  <2>14. Ends(cs, eg, dn, me, new, q, last, cs2, eg2, dn2)
    BY <1>12, <2>1, <2>2, <2>4, <2>6, <2>7, <2>11, <2>12, <2>13 DEF Ends, g
  <2> QED
    BY <1>10, <2>14
<1> QED
  BY <1>11, <1>12

(* All the partial sums of the tree.                                       *)
LEMMA PartsArePart ==
  ASSUME NEW rx \in [Ranks -> Sums], NEW up, up \subseteq UpMessages,
         \A m, n \in up : n.src = m.src => n = m
  PROVE  /\ PartSet(Parts(rx, up))
         /\ \A u \in Ranks \ Sources(up) : \A p \in Parts(rx, up) : p.at # u + N
<1>1. N \notin Ranks
  BY RanksAreNumbers
<1>2. Ranks \ {N} = Ranks
  BY <1>1
<1>3. Others(rx, up, N) = Parts(rx, up)
  BY <1>2 DEF Others, Parts
<1>4. /\ PartSet(Others(rx, up, N))
      /\ \A u \in Ranks \ Sources(up) : \A p \in Others(rx, up, N) : p.at # u + N
  BY OthersArePart
<1> QED
  BY <1>3, <1>4

(* The result is drawn: the collective of the protocol concludes.          *)
LEMMA ConclusionMaps ==
  ASSUME Remember, Concluded, 0 \in Ranks, NEW st \in [Ranks -> [0 .. 1 -> Status]],
         epochGvt \in [Ranks -> [0 .. 1 -> Time]], NEW new, NEW q \in BOOLEAN, NEW r,
         Ends(st, epochGvt, downs, r, new, q, TRUE, collStatus', epochGvt', downs'),
         Totals(Parts(rdxn', ups'), Inf, 0, 0)
  PROVE  Abs!Conclude(q, new.gvtAcc) /\ ResultOK'
<1> DEFINE g == new.gvtAcc
<1>1. /\ collStatus' = [st EXCEPT ![0][1] = IF q THEN "quiesced" ELSE "non_quiesced"]
      /\ Told(epochGvt, 0, q, g, epochGvt')
      /\ Contrib(collStatus', downs') = {}
      /\ UNION {Covers(m) : m \in downs'} = Ranks \ {0}
      /\ \A m \in downs' : m.gvt = g /\ (m.toUb < 0 <=> q)
  BY DEF Ends
<1> HIDE DEF g
<1>2. collStatus'[0][1] = IF q THEN "quiesced" ELSE "non_quiesced"
  BY <1>1
<1>3. quiesced' = q
  <2>1. quiesced' = (collStatus'[0][1] = "quiesced")
    BY DEF Remember
  <2>2. CASE q = TRUE
    BY <1>2, <2>1, <2>2
  <2>3. CASE q = FALSE
    BY <1>2, <2>1, <2>3
  <2> QED
    BY <2>2, <2>3
<1>4. cepoch' = (IF q THEN cepoch + 1 ELSE cepoch) /\ counted' = {}
  BY <1>3 DEF Remember
<1>5. /\ \A z \in Ranks : epochGvt'[z][1] = IF z = 0 /\ q THEN g ELSE epochGvt[z][1]
  BY <1>1 DEF Told
<1>6. At(epochGvt', 1) = IF q THEN [At(epochGvt, 1) EXCEPT ![0] = g] ELSE At(epochGvt, 1)
  BY <1>5 DEF At
<1>7. epochGvt'[0][1] = IF q THEN g ELSE epochGvt[0][1]
  BY <1>5
<1>8. LvtOf(Parts(rdxn', ups')) = Inf /\ SendsOf(Parts(rdxn', ups')) = 0 /\ RecvsOf(Parts(rdxn', ups')) = 0
  BY DEF Totals
<1>9. Undelivered' = Ranks \ {0}
  BY <1>1 DEF Undelivered
<1>10. Abs!Conclude(q, g)
  BY <1>1, <1>3, <1>4, <1>6, <1>7, <1>8, <1>9 DEF Abs!Conclude
<1>11. ResultOK'
  <2>1. \A m \in downs' : (m.toUb < 0 <=> quiesced') /\ (quiesced' => m.gvt = epochGvt'[0][1])
    BY <1>1, <1>3, <1>7
  <2>2. quiesced' \in BOOLEAN
    BY <1>3
  <2> QED
    BY <2>1, <2>2 DEF ResultOK
<1> QED
  BY <1>10, <1>11 DEF g

(* rdxn_up in its message handler: partial sums move within the tree, or   *)
(* the root has them all.                                                  *)
LEMMA RecvUpMaps ==
  ASSUME RefinementInv, Remember, Bounded, NEW r \in Ranks, RecvUp(r)
  PROVE  /\ HistoryOK' /\ ResultOK' /\ WithinBounds'
         /\ Abs!Next \/ UNCHANGED Abs!vars
<1>1. PICK e, d : InvParts(e, d)
  BY InvHasParts DEF RefinementInv
<1>2. PICK m, new, q : Joins(e, d, r, m, new, q)
  BY <1>1, RecvUpJoins
<1> DEFINE C == Contrib(collStatus, downs)
           up1 == ups \ {m}
           P == Subtree(m.src)
<1>3. /\ m \in ups /\ m \in UpMessages /\ (\A n \in ups : n.src = m.src => n = m)
      /\ Ready(collStatus, collRxs, epochGvt, epoch, lvt, lsend, lrecv, rdxn, ups, downs, event,
               round, e, d, C)
      /\ Brings(collStatus, downs, lvt, lsend, lrecv, round, rdxn, ups, up1, C, r, m.src, P,
                m.lvt, m.send, m.recv, m.rxs, new, q)
      /\ Outcome(collStatus, collRxs, epochGvt, rdxn, downs, up1, r, new, q,
                 collStatus', collRxs', epochGvt', rdxn', ups', downs')
      /\ UNCHANGED <<epoch, lvt, lsend, lrecv, event, round>>
  BY <1>2 DEF Joins
<1>4. /\ collStatus \in [Ranks -> [0 .. 1 -> Status]] /\ epochGvt \in [Ranks -> [0 .. 1 -> Time]]
      /\ ups \subseteq UpMessages /\ rdxn \in [Ranks -> Sums]
      /\ \A n, l \in ups : l.src = n.src => l = n
      /\ HistoryOK /\ ResultOK /\ WithinBounds /\ 0 \in Ranks
  <2>1. UpOK(C, ups, lvt, lsend, lrecv, round)
    BY <1>1 DEF InvParts, Round, TreeOK
  <2> QED
    BY <2>1, RanksAreNumbers DEF RefinementInv, Inv, AllOK, Types, UpOK
<1> HIDE DEF C, up1, P
<1>5. PICK last \in BOOLEAN :
        /\ Gathers(rdxn, up1, new, m.lvt, m.send, m.recv, rdxn', ups', last)
        /\ Ends(collStatus, epochGvt, downs, r, new, q, last, collStatus', epochGvt', downs')
  BY <1>3, BringsEnds
<1>6. PICK g, t, u \in Nat :
        /\ Totals(Parts(rdxn, up1), g, t, u)
        /\ ~ last => Totals(Parts(rdxn', ups'), Least(g, m.lvt), t + m.send, u + m.recv)
        /\ last => /\ Totals(Parts(rdxn', ups'), Inf, 0, 0)
                   /\ new.gvtAcc = Least(g, m.lvt) /\ new.gsend = t + m.send /\ new.grecv = u + m.recv
  BY <1>5 DEF Gathers
<1>7. Totals(Parts(rdxn, ups), Least(g, m.lvt), t + m.send, u + m.recv)
  <2>1. up1 \subseteq UpMessages /\ (\A n, l \in up1 : l.src = n.src => l = n)
        /\ ups = up1 \cup {m} /\ m.src \in Ranks \ Sources(up1)
    BY <1>3, <1>4 DEF up1, Sources, UpMessages
  <2>2. PartSet(Parts(rdxn, up1)) /\ \A p \in Parts(rdxn, up1) : p.at # m.src + N
    BY <1>4, <2>1, PartsArePart
  <2>3. UpPart(m) \notin Parts(rdxn, up1) /\ IsPart(UpPart(m))
        /\ UpPart(m).lvt = m.lvt /\ UpPart(m).send = m.send /\ UpPart(m).recv = m.recv
    BY <1>3, <2>2 DEF UpPart, IsPart, UpMessages
  <2>4. Parts(rdxn, ups) = Parts(rdxn, up1) \cup {UpPart(m)}
    BY <2>1, PartsUp
  <2>5. /\ LvtOf(Parts(rdxn, up1)) = g /\ SendsOf(Parts(rdxn, up1)) = t /\ RecvsOf(Parts(rdxn, up1)) = u
    BY <1>6 DEF Totals
  <2> QED
    BY <2>2, <2>3, <2>4, <2>5, AddPart
<1>8. nextId' = nextId /\ ident' = ident /\ sent' = sent /\ rcvd' = rcvd
  BY <1>3, <1>4, NoneMoves
<1>9. HistoryOK'
  BY <1>3, <1>4, <1>8, HistoryKept
<1>10. WithinBounds'
  BY <1>3, <1>4 DEF WithinBounds, Bounded
<1>11. UNCHANGED Abs!clientVars
  BY <1>3, <1>8 DEF Abs!clientVars, Pending, LocalTimes
<1>12. UNCHANGED Abs!countVars
  BY <1>3 DEF Abs!countVars, At
<1>13. ~ Began(0)
  BY <1>3 DEF Began
<1>14. CASE ~ last
  <2>1. collStatus' = collStatus /\ downs' = downs /\ epochGvt' = epochGvt
    BY <1>5, <1>14 DEF Ends
  <2>2. ~ Concluded
    BY <1>13, <2>1 DEF Concluded
  <2>3. quiesced' = quiesced /\ cepoch' = cepoch /\ counted' = counted
    BY <1>3, <1>4, <2>2, NoneBegins
  <2>4. ResultOK'
    BY <1>4, <2>1, <2>3 DEF ResultOK
  <2>5. /\ LvtOf(Parts(rdxn', ups')) = LvtOf(Parts(rdxn, ups))
        /\ SendsOf(Parts(rdxn', ups')) = SendsOf(Parts(rdxn, ups))
        /\ RecvsOf(Parts(rdxn', ups')) = RecvsOf(Parts(rdxn, ups))
    BY <1>6, <1>7, <1>14 DEF Totals
  <2>6. UNCHANGED Abs!rankVars
    BY <1>3, <2>1 DEF Abs!rankVars, At
  <2>7. Contrib(collStatus', downs') = Contrib(collStatus, downs) /\ Undelivered' = Undelivered
        /\ epochGvt'[0][1] = epochGvt[0][1]
    BY <2>1 DEF Undelivered
  <2>8. UNCHANGED Abs!collVars
    BY <2>3, <2>5, <2>7 DEF Abs!collVars
  <2> QED
    BY <1>9, <1>10, <1>11, <1>12, <2>4, <2>6, <2>8 DEF Abs!vars
<1>15. CASE last
  <2>1. last = TRUE
    BY <1>15
  <2>2. /\ Contrib(collStatus, downs) = Ranks
        /\ collStatus' = [collStatus EXCEPT ![0][1] = IF q THEN "quiesced" ELSE "non_quiesced"]
        /\ Told(epochGvt, 0, q, new.gvtAcc, epochGvt')
    BY <1>5, <1>15 DEF Ends
  <2>3. collStatus'[0][1] = IF q THEN "quiesced" ELSE "non_quiesced"
    BY <1>4, <2>2
  <2>4. Concluded
    BY <1>4, <2>2, <2>3 DEF Concluded, Contrib
  <2>5. q \in BOOLEAN /\ (q <=> new.gsend = new.grecv)
    BY <1>3 DEF Brings
  <2>6. Abs!Conclude(q, new.gvtAcc) /\ ResultOK'
    <3>1. Ends(collStatus, epochGvt, downs, r, new, q, TRUE, collStatus', epochGvt', downs')
      BY <1>5, <2>1
    <3>2. Totals(Parts(rdxn', ups'), Inf, 0, 0)
      BY <1>6, <1>15
    <3> QED
      BY <1>4, <2>4, <2>5, <3>1, <3>2, ConclusionMaps
  <2>7. /\ LvtOf(Parts(rdxn, ups)) = new.gvtAcc
        /\ (SendsOf(Parts(rdxn, ups)) = RecvsOf(Parts(rdxn, ups))) = q
    <3>1. LvtOf(Parts(rdxn, ups)) = new.gvtAcc
          /\ SendsOf(Parts(rdxn, ups)) = new.gsend /\ RecvsOf(Parts(rdxn, ups)) = new.grecv
      BY <1>6, <1>7, <1>15 DEF Totals
    <3> QED
      BY <2>5, <3>1
  <2>8. Abs!Conclude(SendsOf(Parts(rdxn, ups)) = RecvsOf(Parts(rdxn, ups)), LvtOf(Parts(rdxn, ups)))
    BY <2>6, <2>7
  <2>9. /\ At(collStatus', 0) = At(collStatus, 0) /\ At(epochGvt', 0) = At(epochGvt, 0)
        /\ At(collStatus', 1) = [At(collStatus, 1) EXCEPT ![0] =
              Abs!Verdict(SendsOf(Parts(rdxn, ups)) = RecvsOf(Parts(rdxn, ups)))]
    <3>1. \A z \in Ranks : /\ collStatus'[z][0] = collStatus[z][0]
                           /\ epochGvt'[z][0] = epochGvt[z][0]
                           /\ collStatus'[z][1] = IF z = 0 THEN Abs!Verdict(q) ELSE collStatus[z][1]
      BY <1>4, <2>2 DEF Told, Abs!Verdict
    <3>2. At(collStatus', 1) = [At(collStatus, 1) EXCEPT ![0] = Abs!Verdict(q)]
      BY <1>4, <3>1 DEF At
    <3>3. At(collStatus', 0) = At(collStatus, 0) /\ At(epochGvt', 0) = At(epochGvt, 0)
      BY <3>1 DEF At
    <3> QED
      BY <2>7, <3>2, <3>3
  <2>10. Abs!Complete
    BY <1>3, <1>11, <1>12, <2>2, <2>8, <2>9 DEF Abs!Complete
  <2> QED
    BY <1>9, <1>10, <2>6, <2>10 DEF Abs!Next
<1> QED
  BY <1>14, <1>15

(* A rank that begins passes its earliest event and, if its epoch has      *)
(* quiesced, moves to the next with its counters shifted.                  *)
LEMMA EntersEpoch ==
  ASSUME RefinementConstants, RefinementInv, Bounded, NEW r \in Ranks, CollBegin(r)
  PROVE  /\ LocalVt(r) \in Time /\ Abs!IsLvt(r, LocalVt(r))
         /\ Abs!EnterEpoch(r, LocalVt(r))
<1>1. /\ event \in [Events -> EventStates] /\ epoch \in [Ranks -> Epochs]
      /\ lvt \in [Ranks -> [0 .. 1 -> Time]] /\ lsend \in [Ranks -> [0 .. 1 -> Nat]]
      /\ lrecv \in [Ranks -> [0 .. 2 -> Nat]] /\ collStatus \in [Ranks -> [0 .. 1 -> Status]]
  BY DEF RefinementInv, Inv, AllOK, Types
<1> DEFINE l == LocalVt(r)  L == LocalTimes(r)
<1>2. Pending[r] = L
  BY DEF Pending
<1>3. l \in Time /\ (l = Inf \/ l \in L) /\ \A p \in L : l <= p
  <2>1. L \subseteq Nat
    BY <1>1, TimesAreNumbers DEF LocalTimes, EventStates
  <2>2. l \in Time
    BY <1>1, LocalVtIsLeast
  <2>3. l = IF L = {} THEN Inf ELSE CHOOSE t \in L : \A u \in L : t <= u
    BY DEF LocalVt
  <2> HIDE DEF l, L
  <2>4. CASE L = {}
    BY <2>2, <2>3, <2>4
  <2>5. CASE L # {}
    <3>1. \E t \in L : \A u \in L : t <= u
      BY <2>1, <2>5, LeastElement
    <3> QED
      BY <2>2, <2>3, <2>5, <3>1
  <2> QED
    BY <2>4, <2>5
<1>4. Abs!IsLvt(r, l)
  BY <1>2, <1>3 DEF Abs!IsLvt
<1>5. CASE collStatus[r][0] = "quiesced"
  <2>1. /\ epoch' = [epoch EXCEPT ![r] = NextEpoch(@)]
        /\ lvt' = [lvt EXCEPT ![r] = [i \in 0 .. 1 |-> IF i = 0 THEN Least(l, @[1]) ELSE Inf]]
        /\ lsend' = [lsend EXCEPT ![r] = [i \in 0 .. 1 |-> IF i = 0 THEN @[1] ELSE 0]]
        /\ lrecv' = [lrecv EXCEPT ![r] = [i \in 0 .. 2 |-> IF i < 2 THEN @[i + 1] ELSE 0]]
    BY <1>5 DEF CollBegin
  <2> HIDE DEF l
  <2>2. \A z \in Ranks \ {r} : lvt'[z] = lvt[z] /\ lsend'[z] = lsend[z] /\ lrecv'[z] = lrecv[z]
    BY <1>1, <2>1
  <2>3. lvt'[r][0] = Least(l, lvt[r][1]) /\ lvt'[r][1] = Inf
    BY <1>1, <2>1
  <2>4. lsend'[r][0] = lsend[r][1] /\ lsend'[r][1] = 0
    BY <1>1, <2>1
  <2>5. lrecv'[r][0] = lrecv[r][1] /\ lrecv'[r][1] = lrecv[r][2] /\ lrecv'[r][2] = 0
    BY <1>1, <2>1
  <2>6. epoch' = [epoch EXCEPT ![r] = @ + 1] /\ epoch[r] < MaxEpoch
    <3>1. NextEpoch(epoch[r]) = epoch[r] + 1 /\ epoch[r] \in Nat
      BY NoWrap
    <3>2. epoch'[r] = epoch[r] + 1 /\ epoch'[r] <= MaxEpoch
      BY <1>1, <2>1, <3>1 DEF Bounded
    <3>3. MaxEpoch \in Nat
      BY DEF RefinementConstants
    <3> QED
      BY <2>1, <3>1, <3>2, <3>3
  <2>7. Abs!Least(l, lvt[r][1]) = Least(l, lvt[r][1])
    BY DEF Least, Abs!Least
  <2>8. /\ At(lvt', 0) = [At(lvt, 0) EXCEPT ![r] = Abs!Least(l, At(lvt, 1)[r])]
        /\ At(lvt', 1) = [At(lvt, 1) EXCEPT ![r] = Inf]
    BY <2>2, <2>3, <2>7 DEF At
  <2>9. /\ At(lsend', 0) = [At(lsend, 0) EXCEPT ![r] = At(lsend, 1)[r]]
        /\ At(lsend', 1) = [At(lsend, 1) EXCEPT ![r] = 0]
    BY <2>2, <2>4 DEF At
  <2>10. /\ At(lrecv', 0) = [At(lrecv, 0) EXCEPT ![r] = At(lrecv, 1)[r]]
         /\ At(lrecv', 1) = [At(lrecv, 1) EXCEPT ![r] = At(lrecv, 2)[r]]
         /\ At(lrecv', 2) = [At(lrecv, 2) EXCEPT ![r] = 0]
    BY <2>2, <2>5 DEF At
  <2>11. At(collStatus, 0)[r] = "quiesced"
    BY <1>5 DEF At
  <2>12. Abs!EnterEpoch(r, l)
    BY <2>6, <2>8, <2>9, <2>10, <2>11 DEF Abs!EnterEpoch
  <2> QED
    BY <1>3, <1>4, <2>12 DEF l
<1>6. CASE collStatus[r][0] # "quiesced"
  <2>1. UNCHANGED <<epoch, lvt, lsend, lrecv>>
    BY <1>6 DEF CollBegin, countVars
  <2>2. At(collStatus, 0)[r] # "quiesced"
    BY <1>6 DEF At
  <2>3. UNCHANGED Abs!countVars
    BY <2>1 DEF Abs!countVars, At
  <2> HIDE DEF l
  <2>4. Abs!EnterEpoch(r, l)
    BY <2>1, <2>2, <2>3 DEF Abs!EnterEpoch
  <2> QED
    BY <1>3, <1>4, <2>4 DEF l
<1> QED
  BY <1>5, <1>6

(* coll_begin: the rank contributes and, if it is the root and the others  *)
(* all have, ends the collective.                                          *)
LEMMA CollBeginMaps ==
  ASSUME RefinementConstants, RefinementInv, Remember, Bounded, NEW r \in Ranks, CollBegin(r)
  PROVE  /\ HistoryOK' /\ ResultOK' /\ WithinBounds'
         /\ Abs!Next
<1>1. PICK e, d, new, q : Contributes(e, d, r, new, q)
  BY CollBeginContributes DEF RefinementInv
<1> DEFINE C == Contrib(collStatus, downs)
           st == Reducing(r)
           v == lvt'[r][0]  s == lsend'[r][0]  c == lrecv'[r][0]  l == LocalVt(r)
<1>2. /\ r \notin C /\ Contrib(st, downs) = C \cup {r}
      /\ Ready(st, collRxs, epochGvt, epoch', lvt', lsend', lrecv', rdxn, ups, downs,
               event, round', e, d, C)
      /\ Brings(st, downs, lvt', lsend', lrecv', round', rdxn, ups, ups, C, r, r, {r},
                v, s, c, round'[r], new, q)
      /\ Outcome(st, collRxs, epochGvt, rdxn, downs, ups, r, new, q,
                 collStatus', collRxs', epochGvt', rdxn', ups', downs')
  BY <1>1 DEF Contributes
<1>3. /\ collStatus \in [Ranks -> [0 .. 1 -> Status]] /\ epochGvt \in [Ranks -> [0 .. 1 -> Time]]
      /\ round \in [Ranks -> {0, 1}]
      /\ HistoryOK /\ ResultOK /\ WithinBounds /\ 0 \in Ranks
  BY RanksAreNumbers DEF RefinementInv, Inv, AllOK, Types
<1>4. /\ collStatus[r][0] # "reducing" /\ collStatus[r][0] = collStatus[r][1]
      /\ round' = [round EXCEPT ![r] = 1 - @] /\ event' = event
  BY DEF CollBegin
<1>5. l \in Time /\ Abs!IsLvt(r, l) /\ Abs!EnterEpoch(r, l)
  BY EntersEpoch
<1>6. /\ st \in [Ranks -> [0 .. 1 -> Status]]
      /\ \A z \in Ranks \ {r} : st[z] = collStatus[z]
      /\ st[r][0] = "reducing" /\ st[r][1] = "reducing"
  BY <1>3 DEF Reducing, Status
<1>7. Began(r) /\ \A z \in Ranks \ {r} : ~ Began(z)
  <2>1. round'[r] = 1 - round[r] /\ round[r] \in {0, 1}
    BY <1>3, <1>4
  <2>2. \A z \in Ranks \ {r} : round'[z] = round[z]
    BY <1>3, <1>4
  <2> QED
    BY <2>1, <2>2 DEF Began
<1> HIDE DEF C, st, v, s, c, l
<1>8. PICK last \in BOOLEAN :
        /\ Gathers(rdxn, ups, new, v, s, c, rdxn', ups', last)
        /\ Ends(st, epochGvt, downs, r, new, q, last, collStatus', epochGvt', downs')
  BY <1>2, BringsEnds
<1>9. PICK g, t, u \in Nat :
        /\ Totals(Parts(rdxn, ups), g, t, u)
        /\ ~ last => Totals(Parts(rdxn', ups'), Least(g, v), t + s, u + c)
        /\ last => /\ Totals(Parts(rdxn', ups'), Inf, 0, 0)
                   /\ new.gvtAcc = Least(g, v) /\ new.gsend = t + s /\ new.grecv = u + c
  BY <1>8 DEF Gathers
<1>10. LvtOf(Parts(rdxn, ups)) = g /\ SendsOf(Parts(rdxn, ups)) = t /\ RecvsOf(Parts(rdxn, ups)) = u
  BY <1>9 DEF Totals
<1>11. At(lvt', 0)[r] = v /\ At(lsend', 0)[r] = s /\ At(lrecv', 0)[r] = c
  BY DEF At, v, s, c
<1>12. Abs!Least(g, v) = Least(g, v)
  BY DEF Least, Abs!Least
<1>13. nextId' = nextId /\ ident' = ident /\ sent' = sent /\ rcvd' = rcvd
  BY <1>3, <1>4, NoneMoves
<1>14. HistoryOK'
  BY <1>3, <1>4, <1>13, HistoryKept
<1>15. WithinBounds'
  BY <1>3, <1>4 DEF WithinBounds, Bounded
<1>16. UNCHANGED Abs!clientVars
  BY <1>4, <1>13 DEF Abs!clientVars, Pending, LocalTimes
<1>17. l \in Abs!Time
  BY <1>5, AbsTimes
<1>18. At(collStatus, 0)[r] # "reducing" /\ At(collStatus, 0)[r] = At(collStatus, 1)[r]
  BY <1>4 DEF At
<1>19. CASE ~ last
  <2>1. collStatus' = st /\ downs' = downs /\ epochGvt' = epochGvt
    BY <1>8, <1>19 DEF Ends
  <2>2. ~ Concluded
    <3>1. CASE r = 0
      BY <1>6, <2>1, <3>1 DEF Concluded
    <3>2. CASE r # 0
      BY <1>3, <1>6, <1>7, <2>1, <3>2 DEF Concluded
    <3> QED
      BY <3>1, <3>2
  <2>3. /\ quiesced' = quiesced /\ cepoch' = cepoch
        /\ counted' = counted \cup {m \in rcvd : Began(m.dst) /\ m.tag = epoch'[m.dst]}
    BY <2>2 DEF Remember
  <2>4. counted' = counted \cup Abs!RcvdBy(r, epoch'[r])
    <3>1. \A m \in rcvd : Began(m.dst) <=> m.dst = r
      BY <1>3, <1>7 DEF HistoryOK
    <3>2. {m \in rcvd : Began(m.dst) /\ m.tag = epoch'[m.dst]} = Abs!RcvdBy(r, epoch'[r])
      BY <3>1 DEF Abs!RcvdBy
    <3> QED
      BY <2>3, <3>2
  <2>5. ResultOK'
    BY <1>3, <2>1, <2>3 DEF ResultOK
  <2>6. /\ At(collStatus', 0) = [At(collStatus, 0) EXCEPT ![r] = "reducing"]
        /\ At(collStatus', 1) = [At(collStatus, 1) EXCEPT ![r] = "reducing"]
    BY <1>6, <2>1 DEF At
  <2>7. Contrib(collStatus', downs') = Contrib(collStatus, downs) \cup {r}
    BY <1>2, <2>1 DEF C
  <2>8. /\ LvtOf(Parts(rdxn', ups')) = Abs!Least(LvtOf(Parts(rdxn, ups)), At(lvt', 0)[r])
        /\ SendsOf(Parts(rdxn', ups')) = SendsOf(Parts(rdxn, ups)) + At(lsend', 0)[r]
        /\ RecvsOf(Parts(rdxn', ups')) = RecvsOf(Parts(rdxn, ups)) + At(lrecv', 0)[r]
    BY <1>9, <1>10, <1>11, <1>12, <1>19 DEF Totals
  <2>9. /\ UNCHANGED <<At(epochGvt, 0), At(epochGvt, 1), Undelivered>>
        /\ epochGvt'[0][1] = epochGvt[0][1]
    BY <2>1 DEF At, Undelivered
  <2>10. Abs!CollBegin(r, l)
    BY <1>5, <1>16, <1>18, <2>3, <2>4, <2>6, <2>7, <2>8, <2>9 DEF Abs!CollBegin
  <2> QED
    BY <1>14, <1>15, <1>17, <2>5, <2>10 DEF Abs!Next
<1>20. CASE last
  <2>1. last = TRUE
    BY <1>20
  <2>2. /\ r = 0 /\ Contrib(st, downs) = Ranks
        /\ collStatus' = [st EXCEPT ![0][1] = IF q THEN "quiesced" ELSE "non_quiesced"]
        /\ Told(epochGvt, 0, q, new.gvtAcc, epochGvt')
    BY <1>8, <1>20 DEF Ends
  <2>3. collStatus'[0][1] = IF q THEN "quiesced" ELSE "non_quiesced"
    BY <1>3, <1>6, <2>2
  <2>4. Concluded
    BY <1>7, <2>2, <2>3 DEF Concluded
  <2>5. q \in BOOLEAN /\ (q <=> new.gsend = new.grecv)
    BY <1>2 DEF Brings
  <2>6. Abs!Conclude(q, new.gvtAcc) /\ ResultOK'
    <3>1. Ends(st, epochGvt, downs, r, new, q, TRUE, collStatus', epochGvt', downs')
      BY <1>8, <2>1
    <3>2. Totals(Parts(rdxn', ups'), Inf, 0, 0)
      BY <1>9, <1>20
    <3> QED
      BY <1>3, <1>6, <2>4, <2>5, <3>1, <3>2, ConclusionMaps
  <2>7. new.gvtAcc = Abs!Least(LvtOf(Parts(rdxn, ups)), At(lvt', 0)[0])
    BY <1>9, <1>10, <1>11, <1>12, <1>20, <2>2
  <2> DEFINE same == SendsOf(Parts(rdxn, ups)) + At(lsend', 0)[0]
                       = RecvsOf(Parts(rdxn, ups)) + At(lrecv', 0)[0]
  <2>8. same = q
    <3>1. new.gsend = SendsOf(Parts(rdxn, ups)) + At(lsend', 0)[0]
          /\ new.grecv = RecvsOf(Parts(rdxn, ups)) + At(lrecv', 0)[0]
      BY <1>9, <1>10, <1>11, <1>20, <2>2
    <3> QED
      BY <2>5, <3>1
  <2>9. Abs!Conclude(same, Abs!Least(LvtOf(Parts(rdxn, ups)), At(lvt', 0)[0]))
    <3> HIDE DEF same
    <3> QED
      BY <2>6, <2>7, <2>8
  <2>10. /\ At(collStatus', 0) = [At(collStatus, 0) EXCEPT ![0] = "reducing"]
         /\ At(epochGvt', 0) = At(epochGvt, 0)
         /\ At(collStatus', 1) = [At(collStatus, 1) EXCEPT ![0] = Abs!Verdict(same)]
    <3> HIDE DEF same
    <3>1. \A z \in Ranks : /\ epochGvt'[z][0] = epochGvt[z][0]
                           /\ collStatus'[z][0] = IF z = 0 THEN "reducing" ELSE collStatus[z][0]
                           /\ collStatus'[z][1] = IF z = 0 THEN Abs!Verdict(q) ELSE collStatus[z][1]
      BY <1>3, <1>6, <2>2 DEF Told, Abs!Verdict
    <3>2. At(collStatus', 1) = [At(collStatus, 1) EXCEPT ![0] = Abs!Verdict(q)]
          /\ At(collStatus', 0) = [At(collStatus, 0) EXCEPT ![0] = "reducing"]
      BY <1>3, <3>1 DEF At
    <3>3. At(epochGvt', 0) = At(epochGvt, 0)
      BY <3>1 DEF At
    <3> QED
      BY <2>8, <3>2, <3>3
  <2>11. Contrib(collStatus, downs) = Ranks \ {0}
    <3>1. C \subseteq Ranks
      BY DEF C, Contrib
    <3> QED
      BY <1>2, <2>2, <3>1 DEF C
  <2>12. /\ Abs!IsLvt(0, l) /\ Abs!EnterEpoch(0, l)
         /\ At(collStatus, 0)[0] # "reducing" /\ At(collStatus, 0)[0] = At(collStatus, 1)[0]
    BY <1>5, <1>18, <2>2
  <2>13. Abs!CollBeginLast(l)
    BY <1>16, <2>9, <2>10, <2>11, <2>12 DEF Abs!CollBeginLast
  <2> QED
    BY <1>14, <1>15, <1>17, <2>6, <2>13 DEF Abs!Next
<1> QED
  BY <1>19, <1>20

(* The initial states are initial states of the protocol.                  *)
LEMMA InitMaps ==
  ASSUME RefinementConstants, RInit
  PROVE  RefinementInv /\ Abs!Init
<1>1. /\ collStatus = [r \in Ranks |-> [i \in 0 .. 1 |-> "non_quiesced"]]
      /\ epochGvt = [r \in Ranks |-> [i \in 0 .. 1 |-> 0]]
      /\ epoch = [r \in Ranks |-> 0]
      /\ lvt = [r \in Ranks |-> [i \in 0 .. 1 |-> 0]]
      /\ lsend = [r \in Ranks |-> [i \in 0 .. 1 |-> 0]]
      /\ lrecv = [r \in Ranks |-> [i \in 0 .. 2 |-> 0]]
      /\ ups = {} /\ downs = {}
  BY DEF RInit, Init
<1>2. \A r \in Ranks : rdxn[r].incoming = 0
  BY DEF RInit, Init
<1>3. event \in [Events -> {Unused} \cup {Local(r, 0) : r \in Ranks}]
  BY DEF RInit, Init
<1>4. \A k \in Events : event[k].place # "net" /\ event[k].t = 0
  BY <1>3 DEF Unused, Local
<1>5. /\ ident = [k \in Events |-> 0] /\ nextId = 0
      /\ sent = {} /\ rcvd = {} /\ cepoch = 0 /\ counted = {} /\ quiesced = FALSE
  BY DEF RInit
<1>6. 0 \in Ranks /\ 0 \in EventTime
  BY RanksAreNumbers, ConstantsAssumption DEF EventTime
<1>7. Inv
  BY InvInit DEF RInit
<1>8. HistoryOK
  <2>1. NetEvents = {}
    BY <1>4 DEF NetEvents
  <2> QED
    BY <1>5, <2>1 DEF HistoryOK
<1>9. ResultOK
  BY <1>1, <1>5 DEF ResultOK
<1>10. WithinBounds
  BY <1>1, <1>4, <1>6 DEF WithinBounds, RefinementConstants
<1>11. /\ At(collStatus, 0) = [r \in Ranks |-> "non_quiesced"]
       /\ At(collStatus, 1) = [r \in Ranks |-> "non_quiesced"]
       /\ At(epochGvt, 0) = [r \in Ranks |-> 0] /\ At(epochGvt, 1) = [r \in Ranks |-> 0]
       /\ At(lvt, 0) = [r \in Ranks |-> 0] /\ At(lvt, 1) = [r \in Ranks |-> 0]
       /\ At(lsend, 0) = [r \in Ranks |-> 0] /\ At(lsend, 1) = [r \in Ranks |-> 0]
       /\ At(lrecv, 0) = [r \in Ranks |-> 0] /\ At(lrecv, 1) = [r \in Ranks |-> 0]
       /\ At(lrecv, 2) = [r \in Ranks |-> 0]
  BY <1>1 DEF At
<1>12. Contrib(collStatus, downs) = {} /\ Undelivered = {} /\ epochGvt[0][1] = 0
  BY <1>1, <1>6 DEF Contrib, Undelivered
<1>13. LvtOf(Parts(rdxn, ups)) = Inf /\ SendsOf(Parts(rdxn, ups)) = 0 /\ RecvsOf(Parts(rdxn, ups)) = 0
  <2>1. {q \in Ranks : rdxn[q].incoming > 0} = {}
    BY <1>2
  <2>2. Parts(rdxn, ups) = {}
    BY <1>1, <2>1 DEF Parts
  <2> QED
    BY <2>2, NoParts DEF Totals
<1>14. Pending \in [Ranks -> SUBSET {t \in Abs!EventTime : 0 <= t}]
  <2>1. ASSUME NEW r \in Ranks PROVE LocalTimes(r) \in SUBSET {t \in Abs!EventTime : 0 <= t}
    <3>1. LocalTimes(r) \subseteq {0}
      BY <1>4 DEF LocalTimes
    <3>2. 0 \in Abs!EventTime /\ 0 <= 0
      BY <1>6, AbsTimes
    <3> QED
      BY <3>1, <3>2
  <2> QED
    BY <2>1 DEF Pending
<1>15. Abs!Init
  BY <1>1, <1>5, <1>11, <1>12, <1>13, <1>14 DEF Abs!Init
<1> QED
  BY <1>7, <1>8, <1>9, <1>10, <1>15 DEF RefinementInv

(* Every step of the code is a step of the protocol, or leaves it alone.   *)
LEMMA StepMaps ==
  ASSUME RefinementConstants, RefinementInv, [RNext]_<<vars, history>>
  PROVE  RefinementInv' /\ [Abs!Next]_(Abs!vars)
<1>1. CASE RNext
  <2>1. Next /\ Remember /\ Bounded
    BY <1>1 DEF RNext
  <2>2. Inv'
    BY <2>1, InvNext DEF RefinementInv
  <2>3. PICK r \in Ranks : RankStep(r)
    BY <2>1 DEF Next
  <2>4. HistoryOK' /\ ResultOK' /\ WithinBounds' /\ (Abs!Next \/ UNCHANGED Abs!vars)
    <3>1. CASE SendSome(r)
      BY <2>1, <3>1, SendMaps
    <3>2. CASE Receive(r)
      BY <2>1, <3>2, ReceiveMaps
    <3>3. CASE Spawn(r)
      BY <2>1, <3>3, SpawnMaps
    <3>4. CASE \E p \in Events : Finish(r, p)
      BY <2>1, <3>4, FinishMaps
    <3>5. CASE CollBegin(r)
      BY <2>1, <3>5, CollBeginMaps
    <3>6. CASE RecvUp(r)
      BY <2>1, <3>6, RecvUpMaps
    <3>7. CASE RecvDown(r)
      BY <2>1, <3>7, RecvDownMaps
    <3>8. CASE Advance(r)
      BY <2>1, <3>8, AdvanceMaps
    <3> QED
      BY <2>3, <3>1, <3>2, <3>3, <3>4, <3>5, <3>6, <3>7, <3>8 DEF RankStep
  <2> QED
    BY <2>2, <2>4 DEF RefinementInv
<1>2. CASE UNCHANGED <<vars, history>>
  <2>1. /\ UNCHANGED <<collStatus, collRxs, epochGvt, epoch, lvt, lsend, lrecv, rdxn, ups, downs>>
        /\ UNCHANGED <<event, round>>
        /\ UNCHANGED <<ident, nextId, sent, rcvd, cepoch, counted, quiesced>>
    BY <1>2 DEF vars, history, gvtVars, countVars, treeVars
  <2>2. Inv'
    BY <1>2, StepStutter DEF RefinementInv
  <2>3. HistoryOK'
    BY <2>1, HistoryKept DEF RefinementInv
  <2>4. ResultOK' /\ WithinBounds'
    BY <2>1 DEF RefinementInv, ResultOK, WithinBounds
  <2>5. UNCHANGED Abs!collVars
        /\ UNCHANGED <<At(collStatus, 0), At(collStatus, 1), At(epochGvt, 0), At(epochGvt, 1)>>
    BY <2>1, CollStays
  <2>6. UNCHANGED <<Abs!countVars, Abs!clientVars, epoch>>
    BY <2>1 DEF Abs!countVars, Abs!clientVars, At, Pending, LocalTimes
  <2> QED
    BY <2>2, <2>3, <2>4, <2>5, <2>6 DEF RefinementInv, Abs!vars, Abs!rankVars
<1> QED
  BY <1>1, <1>2

(* The code implements the protocol: the reduction tree of rdxn_up, with   *)
(* the sums and messages of overlapping rounds, acts as one collective     *)
(* that ends at once, rdxn_down delivers its result once to each rank, and *)
(* gvt::send, coll_begin and advance() do what the protocol says.          *)
THEOREM GvtImplementsEpochs ==
  RefinementConstants => (RSpec => ImplementsEpochs)
<1> SUFFICES ASSUME RefinementConstants PROVE RSpec => ImplementsEpochs
  OBVIOUS
<1>1. RInit => RefinementInv /\ Abs!Init
  BY InitMaps
<1>2. RefinementInv /\ [RNext]_<<vars, history>> => RefinementInv' /\ [Abs!Next]_(Abs!vars)
  BY StepMaps
<1> QED
  BY <1>1, <1>2, PTL DEF RSpec, ImplementsEpochs, Abs!Spec

-----------------------------------------------------------------------------
(* What the protocol's proofs say of the code, through the refinement.     *)

(* The code's constants are constants of the protocol: rank 0 is a rank    *)
(* and the ranks are finitely many.                                        *)
LEMMA AbsConstants == RefinementConstants => Abs!ConstantsAssumption
<1>1. Abs!IsFiniteSet(Ranks)
  BY RanksFinite DEF Abs!IsFiniteSet, IsFiniteSet
<1>2. 0 \in Ranks /\ Inf \in Nat /\ 0 \in 0 .. Inf
  BY RanksAreNumbers, ConstantsAssumption
<1> QED
  BY <1>1, <1>2 DEF Abs!ConstantsAssumption, RefinementConstants

(* The two stages of epoch_gvt on a rank of the code never decrease: the   *)
(* assertion of rdxn_down, epoch_gvt_[1] <= gvt, never fails.              *)
THEOREM CodeGvtMonotone ==
  RefinementConstants => (RSpec => Abs!GvtMonotone)
<1> SUFFICES ASSUME RefinementConstants PROVE RSpec => Abs!GvtMonotone
  OBVIOUS
<1>1. Abs!ConstantsAssumption
  BY AbsConstants
<1>2. Abs!Spec => Abs!GvtMonotone
  BY <1>1, Abs!GvtMonotonicity DEF Abs!ConstantsAssumption
<1>3. RSpec => Abs!Spec
  BY GvtImplementsEpochs DEF ImplementsEpochs
<1> QED
  BY <1>2, <1>3

(* The code keeps the contract of gvt.hxx that the engine relies on: the   *)
(* service GvtService, which only promises a bound below everything that   *)
(* is pending or under way.                                                *)
THEOREM CodeKeepsContract ==
  RefinementConstants => (RSpec => Abs!ImplementsService)
<1> SUFFICES ASSUME RefinementConstants PROVE RSpec => Abs!ImplementsService
  OBVIOUS
<1>1. Abs!ConstantsAssumption
  BY AbsConstants
<1>2. Abs!Spec => Abs!ImplementsService
  BY <1>1, Abs!Contract DEF Abs!ConstantsAssumption
<1>3. RSpec => Abs!Spec
  BY GvtImplementsEpochs DEF ImplementsEpochs
<1> QED
  BY <1>2, <1>3

(* A rank of the code that is told "quiesced" knows that every message of  *)
(* its epoch's tag or an older one has been received everywhere: the sums  *)
(* of the tree are never equal by accident.                                *)
THEOREM CodeQuiescedMeansReceived ==
  RefinementConstants => (RSpec => []Abs!QuiescedMeansReceived)
<1> SUFFICES ASSUME RefinementConstants PROVE RSpec => []Abs!QuiescedMeansReceived
  OBVIOUS
<1>1. Abs!ConstantsAssumption
  BY AbsConstants
<1>2. Abs!Spec => []Abs!QuiescedMeansReceived
  BY <1>1, Abs!QuiescenceMeansReceived DEF Abs!ConstantsAssumption
<1>3. RSpec => Abs!Spec
  BY GvtImplementsEpochs DEF ImplementsEpochs
<1> QED
  BY <1>2, <1>3
=============================================================================
