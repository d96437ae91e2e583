------------------------- MODULE SpscChannelProofs -------------------------
(***************************************************************************)
(* Proofs about SpscChannel, for every width of slot and of recv_bump and  *)
(* every number of messages: the reader is never lapped, credits return    *)
(* only for what has been executed, and no stale message is seen or freed. *)
(*                                                                         *)
(* The argument takes the wall as a number w that does not wrap.  Writer   *)
(* and reader never meet but in slots, so the invariant says what the      *)
(* slots tell of the three histories sent, notified and received           *)
(* (Numbers).  How far w may go is a matter of the build:                  *)
(*   sym    what the acknowledgements in flight cover has been executed    *)
(*          (Acked);                                                       *)
(*   asym   the epochs are all the writer has.  The reader may lag behind  *)
(*          it by so many of them (Lag); what was published that many      *)
(*          epochs ago has been executed (Credits);                        *)
(*   epoch  the lists that no thread is at are empty (Rings).              *)
(* Lag and Rings rest on what an epoch barrier promises: the end of one    *)
(* shows that everyone has begun it (Turns).                               *)
(***************************************************************************)
EXTENDS SpscChannel, NumberFacts

-----------------------------------------------------------------------------
(* Counters that wrap, with remainder and powers as operators whose facts  *)
(* are all that is used of them.                                           *)
Cut(n, x) == x % n
Modulus == 2^CounterBits
Half == 2^(CounterBits - 1)

(* Both terms of a difference may be cut, and the first of a sum.          *)
LEMMA CutDifference ==
  ASSUME NEW n \in Nat \ {0}, NEW x \in Int, NEW y \in Int, NEW z \in Int
  PROVE  Cut(n, Cut(n, x) - Cut(n, y) + z) = Cut(n, x - y + z)
  BY RemainderDifference DEF Cut

LEMMA CutSum ==
  ASSUME NEW n \in Nat \ {0}, NEW x \in Int, NEW y \in Int
  PROVE  Cut(n, Cut(n, x) + y) = Cut(n, x + y)
  BY RemainderSum DEF Cut

LEMMA CutFacts ==
  ASSUME NEW n \in Nat \ {0}
  PROVE  /\ \A x \in Int : Cut(n, x) \in 0 .. n - 1
         /\ \A x \in 0 .. n - 1 : Cut(n, x) = x
         /\ \A x, y, z \in Int : Cut(n, Cut(n, x) - Cut(n, y) + z) = Cut(n, x - y + z)
         /\ \A x, y \in Int : Cut(n, Cut(n, x) + y) = Cut(n, x + y)
         /\ \A x \in Int : Cut(n, x + n) = Cut(n, x)
<1>1. ASSUME NEW x \in Int PROVE Cut(n, x) \in 0 .. n - 1
  BY Division DEF Cut
<1>2. ASSUME NEW x \in 0 .. n - 1 PROVE Cut(n, x) = x
  BY RemainderSmall DEF Cut
<1>3. ASSUME NEW x \in Int, NEW y \in Int, NEW z \in Int
      PROVE  Cut(n, Cut(n, x) - Cut(n, y) + z) = Cut(n, x - y + z)
  BY RemainderDifference DEF Cut
<1>4. ASSUME NEW x \in Int, NEW y \in Int PROVE Cut(n, Cut(n, x) + y) = Cut(n, x + y)
  BY RemainderSum DEF Cut
<1>5. ASSUME NEW x \in Int PROVE Cut(n, x + n) = Cut(n, x)
  <2>1. (x + n * 1) % n = x % n
    <3>1. 1 \in Int
      OBVIOUS
    <3> QED
      BY <3>1, RemainderShift
  <2>2. n * 1 = n
    OBVIOUS
  <2> QED
    BY <2>1, <2>2 DEF Cut
<1> QED
  BY <1>1, <1>2, <1>3, <1>4, <1>5

(* A slot counts up to a quarter of what recv_bump counts at most, and a   *)
(* full slot divides a full recv_bump.                                     *)
LEMMA ModulusFacts ==
  ASSUME NEW b \in Builds
  PROVE  /\ Modulus \in Nat \ {0} /\ Half \in Nat /\ Modulus = Half + Half
         /\ 2^b.bits \in Nat /\ 2^b.bits >= 2 /\ 2^b.bits + MaxAhead <= Half
         /\ MaxAhead \in Nat /\ MaxAhead + 2 <= Half
         /\ \A x \in Int : Cut(2^b.bits, Cut(Modulus, x)) = Cut(2^b.bits, x)
<1> DEFINE m == b.bits
           Quarter == 2^(CounterBits - 2)
<1>1. m \in 1 .. CounterBits - 2 /\ CounterBits \in Nat
  BY ConstantsAssumption
<1> HIDE DEF m
<1>2. /\ m \in Nat /\ m - 1 \in Nat /\ CounterBits - 2 \in Nat /\ CounterBits - 1 \in Nat
      /\ (CounterBits - 2) + 1 = CounterBits - 1 /\ (CounterBits - 1) + 1 = CounterBits
      /\ m <= CounterBits - 2 /\ 1 <= m /\ CounterBits - m \in Nat
      /\ m + (CounterBits - m) = CounterBits /\ 0 + 1 = 1 /\ 1 \in Nat /\ 0 \in Nat
  BY <1>1
<1>3. Half = 2 * Quarter /\ Modulus = 2 * Half /\ Quarter \in Nat \ {0}
  BY <1>2, PowerDouble, PowerPositive DEF Half, Modulus
<1>4. 2^m \in Nat \ {0} /\ 2^m <= Quarter
  BY <1>2, PowerMonotone, PowerPositive
<1>5. 2 <= 2^m
  <2>1. 2^(0 + 1) = 2 * 2^0
    BY PowerDouble
  <2>2. 2^1 = 2
    BY <2>1, PowerZero
  <2>3. 2^1 <= 2^m
    BY <1>2, PowerMonotone
  <2> QED
    BY <2>2, <2>3
<1>6. MaxAhead \in Nat /\ MaxAhead <= Quarter
  <2>1. MaxAhead \in 0 .. Quarter
    BY ConstantsAssumption
  <2> HIDE DEF Quarter
  <2> QED
    BY <1>3, <2>1
<1>7. Modulus = 2^m * 2^(CounterBits - m) /\ 2^(CounterBits - m) \in Nat \ {0}
  <2>1. 2^(m + (CounterBits - m)) = 2^m * 2^(CounterBits - m)
    BY <1>2, PowerSum
  <2> QED
    BY <1>2, <2>1, PowerPositive DEF Modulus
<1>8. ASSUME NEW x \in Int PROVE Cut(2^m, Cut(Modulus, x)) = Cut(2^m, x)
  <2>1. PICK k \in Nat \ {0} : Modulus = 2^m * k
    BY <1>7
  <2>2. (x % (2^m * k)) % 2^m = x % 2^m
    BY <1>4, RemainderTwice
  <2> QED
    BY <2>1, <2>2 DEF Cut
<1> HIDE DEF Quarter
<1>9. PICK f \in Nat : f = 2^m
  BY <1>4
<1>10. /\ Modulus \in Nat \ {0} /\ Half \in Nat /\ Modulus = Half + Half
       /\ f >= 2 /\ f + MaxAhead <= Half /\ MaxAhead + 2 <= Half
  BY <1>3, <1>4, <1>5, <1>6, <1>9
<1> QED
  BY <1>6, <1>8, <1>9, <1>10 DEF m

(* The comparisons are right about numbers that are near to each other.    *)
LEMMA Comparisons ==
  ASSUME Builds # {}, NEW a \in Int, NEW b \in Int
  PROVE  /\ b - a - 1 < Half /\ a - b + 1 <= Half => (Less(U32(a), U32(b)) <=> a < b)
         /\ b - a < Half /\ a - b <= Half => (LessEq(U32(a), U32(b)) <=> a <= b)
<1>1. PICK build0 \in Builds : TRUE
  OBVIOUS
<1>2. Modulus \in Nat \ {0} /\ Half \in Nat /\ Modulus = Half + Half
  BY <1>1, ModulusFacts
<1>3. \A x : U32(x) = Cut(Modulus, x)
  BY DEF U32, Cut, Modulus
<1>4. ASSUME NEW d \in Int, d < Half, -d <= Half
      PROVE  Cut(Modulus, d) < Half <=> 0 <= d
  <2>1. CASE 0 <= d
    <3>1. d \in 0 .. Modulus - 1
      BY <1>2, <1>4, <2>1
    <3> QED
      BY <1>2, <1>4, <2>1, <3>1, CutFacts
  <2>2. CASE d < 0
    <3>1. d + Modulus \in 0 .. Modulus - 1 /\ d + Modulus >= Half
      BY <1>2, <1>4, <2>2
    <3>2. Cut(Modulus, d + Modulus) = Cut(Modulus, d)
      BY <1>2, CutFacts
    <3>3. Cut(Modulus, d + Modulus) = d + Modulus
      BY <1>2, <3>1, CutFacts
    <3> QED
      BY <1>2, <2>2, <3>1, <3>2, <3>3
  <2> QED
    BY <2>1, <2>2
<1>5. Less(U32(a), U32(b)) <=> Cut(Modulus, b - a - 1) < Half
  <2>1. Cut(Modulus, Cut(Modulus, b) - Cut(Modulus, a) + (-1)) = Cut(Modulus, b - a + (-1))
    <3>1. PICK z \in Int : z = -1
      OBVIOUS
    <3>2. Cut(Modulus, Cut(Modulus, b) - Cut(Modulus, a) + z) = Cut(Modulus, b - a + z)
      BY <1>2, CutDifference
    <3> QED
      BY <3>1, <3>2
  <2>2. Cut(Modulus, a) \in Int /\ Cut(Modulus, b) \in Int
    BY <1>2, CutFacts
  <2>3. Cut(Modulus, b) - Cut(Modulus, a) + (-1) = Cut(Modulus, b) - Cut(Modulus, a) - 1
        /\ b - a + (-1) = b - a - 1
    BY <2>2
  <2> QED
    BY <1>3, <2>1, <2>3 DEF Less, Half
<1>6. LessEq(U32(a), U32(b)) <=> Cut(Modulus, b - a) < Half
  <2>1. Cut(Modulus, Cut(Modulus, b) - Cut(Modulus, a) + 0) = Cut(Modulus, b - a + 0)
    <3>1. PICK z \in Int : z = 0
      OBVIOUS
    <3>2. Cut(Modulus, Cut(Modulus, b) - Cut(Modulus, a) + z) = Cut(Modulus, b - a + z)
      BY <1>2, CutDifference
    <3> QED
      BY <3>1, <3>2
  <2>2. Cut(Modulus, a) \in Int /\ Cut(Modulus, b) \in Int
    BY <1>2, CutFacts
  <2>3. Cut(Modulus, b) - Cut(Modulus, a) + 0 = Cut(Modulus, b) - Cut(Modulus, a)
        /\ b - a + 0 = b - a
    BY <2>2
  <2> QED
    BY <1>3, <2>1, <2>3 DEF LessEq, Half
<1>7. ASSUME b - a - 1 < Half, a - b + 1 <= Half PROVE Less(U32(a), U32(b)) <=> a < b
  <2>1. b - a - 1 \in Int /\ -(b - a - 1) <= Half /\ (0 <= b - a - 1 <=> a < b)
    BY <1>2, <1>7
  <2> QED
    BY <1>4, <1>5, <1>7, <2>1
<1>8. ASSUME b - a < Half, a - b <= Half PROVE LessEq(U32(a), U32(b)) <=> a <= b
  <2>1. b - a \in Int /\ -(b - a) <= Half /\ (0 <= b - a <=> a <= b)
    BY <1>2, <1>8
  <2> QED
    BY <1>4, <1>6, <1>8, <2>1
<1> QED
  BY <1>7, <1>8

(* recv_bump and the wall are cut anew at each sum and difference.         *)
LEMMA WrapType ==
  ASSUME Builds # {}, NEW x \in Int
  PROVE  U32(x) \in Nat
<1>1. Modulus \in Nat \ {0}
  BY ModulusFacts
<1>2. U32(x) = Cut(Modulus, x)
  BY DEF U32, Cut, Modulus
<1>3. Cut(Modulus, x) \in 0 .. Modulus - 1
  BY <1>1, CutFacts
<1> QED
  BY <1>1, <1>2, <1>3

LEMMA Wrap ==
  ASSUME Builds # {}, NEW x \in Int, NEW y \in Int
  PROVE  U32(U32(x) + y) = U32(x + y)
<1>1. Modulus \in Nat \ {0}
  BY ModulusFacts
<1>2. \A v : U32(v) = Cut(Modulus, v)
  BY DEF U32, Cut, Modulus
<1>3. Cut(Modulus, Cut(Modulus, x) + y) = Cut(Modulus, x + y)
  BY <1>1, CutFacts
<1> QED
  BY <1>2, <1>3

LEMMA Distance ==
  ASSUME Builds # {}, NEW x \in Int, NEW y \in Int, NEW z \in Int, x - y + z \in 0 .. Half
  PROVE  U32(U32(x) - U32(y) + z) = x - y + z
<1>1. Modulus \in Nat \ {0} /\ Half \in Nat /\ Modulus = Half + Half /\ MaxAhead \in Nat
      /\ MaxAhead + 2 <= Half
  BY ModulusFacts
<1>2. \A v : U32(v) = Cut(Modulus, v)
  BY DEF U32, Cut, Modulus
<1>3. Cut(Modulus, Cut(Modulus, x) - Cut(Modulus, y) + z) = Cut(Modulus, x - y + z)
  BY <1>1, CutDifference
<1>4. x - y + z \in 0 .. Modulus - 1
  BY <1>1
<1>5. Cut(Modulus, x - y + z) = x - y + z
  BY <1>1, <1>4, CutFacts
<1> QED
  BY <1>2, <1>3, <1>5

LEMMA Distance0 ==
  ASSUME Builds # {}, NEW x \in Int, NEW y \in Int, x - y \in 0 .. Half
  PROVE  U32(U32(x) - U32(y)) = x - y
<1>1. PICK z \in Int : z = 0
  OBVIOUS
<1>2. x - y + z \in 0 .. Half
  BY <1>1
<1>3. U32(U32(x) - U32(y) + z) = x - y + z
  BY <1>2, Distance
<1>4. U32(x) \in Nat /\ U32(y) \in Nat
  BY WrapType
<1>5. U32(x) - U32(y) + z = U32(x) - U32(y) /\ x - y + z = x - y
  BY <1>1, <1>4
<1> QED
  BY <1>3, <1>5

(* A slot that tells the number p, cut twice, tells p cut once.            *)
LEMMA SlotOf ==
  ASSUME NEW b \in Builds, NEW p \in Int
  PROVE  U32(p) % 2^b.bits = Cut(2^b.bits, p)
<1>1. Cut(2^b.bits, Cut(Modulus, p)) = Cut(2^b.bits, p)
  BY ModulusFacts
<1> QED
  BY <1>1 DEF U32, Cut, Modulus


(* What the writer reckons with recv_bump and the wall when a credits      *)
(* return: s messages sent, n published, r executed, w the wall.           *)
LEMMA Reckoning ==
  ASSUME NEW b \in Builds, NEW s \in Int, NEW n \in Int, NEW r \in Int, NEW w \in Int,
         NEW a \in Nat, s - n <= MaxAhead, n = (IF s < w THEN s ELSE w - 1), r <= n,
         w + a <= r + 2^b.bits
  PROVE  /\ U32(U32(w) + a) = U32(w + a)
         /\ U32(U32(w) + a - 1) = U32(w + a - 1)
         /\ LessEq(U32(w + a - 1), U32(s)) <=> w + a - 1 <= s
         /\ LessEq(U32(w), U32(s)) <=> w <= s
         /\ LessEq(U32(w + a), U32(s)) <=> w + a <= s
         /\ U32(U32(s) - U32(s)) = 0
         /\ w + a - 1 <= s => U32(U32(s) - U32(w + a - 1)) = s - (w + a - 1)
         /\ w + a <= s => U32(U32(s) - U32(w + a)) = s - (w + a)
         /\ s < w + a => U32(U32(w + a) - 1 - U32(s)) = w + a - 1 - s
<1>1. PICK f \in Nat : f = 2^b.bits
  BY ModulusFacts
<1>2. f >= 2 /\ f + MaxAhead <= Half /\ Half \in Nat /\ MaxAhead \in Nat
  BY <1>1, ModulusFacts
<1>3. PICK c \in Int, d \in Int : c = w + a /\ d = w + a - 1
  OBVIOUS
<1>4. w + a <= r + f
  BY <1>1
<1>5. /\ s - d < Half /\ d - s <= Half
      /\ s - w < Half /\ w - s <= Half
      /\ s - c < Half /\ c - s <= Half
  BY <1>2, <1>3, <1>4
<1>6. U32(U32(w) + a) = U32(c) /\ U32(U32(w) + a - 1) = U32(d)
  <2>1. PICK e \in Int : e = a - 1
    OBVIOUS
  <2>2. U32(w) \in Nat
    BY WrapType
  <2>3. U32(U32(w) + a) = U32(w + a) /\ U32(U32(w) + e) = U32(w + e)
    <3>1. a \in Int
      OBVIOUS
    <3>2. U32(U32(w) + a) = U32(w + a)
      BY <3>1, Wrap
    <3>3. U32(U32(w) + e) = U32(w + e)
      BY Wrap
    <3> QED
      BY <3>2, <3>3
  <2>4. U32(w) + a - 1 = U32(w) + e /\ w + e = d
    BY <1>3, <2>1, <2>2
  <2> QED
    BY <1>3, <2>3, <2>4
<1>7. /\ LessEq(U32(d), U32(s)) <=> d <= s
      /\ LessEq(U32(w), U32(s)) <=> w <= s
      /\ LessEq(U32(c), U32(s)) <=> c <= s
  BY <1>5, Comparisons
<1>8. U32(U32(s) - U32(s)) = 0
  <2>1. s - s \in 0 .. Half /\ s - s = 0
    BY <1>2
  <2> QED
    BY <2>1, Distance0
<1>9. ASSUME d <= s PROVE U32(U32(s) - U32(d)) = s - d
  <2>1. s - d \in 0 .. Half
    BY <1>2, <1>5, <1>9
  <2> QED
    BY <2>1, Distance0
<1>10. ASSUME c <= s PROVE U32(U32(s) - U32(c)) = s - c
  <2>1. s - c \in 0 .. Half
    BY <1>2, <1>5, <1>10
  <2> QED
    BY <2>1, Distance0
<1>11. ASSUME s < c PROVE U32(U32(c) - 1 - U32(s)) = c - 1 - s
  <2>1. PICK z \in Int : z = -1
    OBVIOUS
  <2>2. c - s + z \in 0 .. Half
    BY <1>2, <1>5, <1>11, <2>1
  <2>3. U32(U32(c) - U32(s) + z) = c - s + z
    BY <2>2, Distance
  <2>4. U32(c) \in Nat /\ U32(s) \in Nat
    BY WrapType
  <2>5. U32(c) - U32(s) + z = U32(c) - 1 - U32(s) /\ c - s + z = c - 1 - s
    BY <2>1, <2>4
  <2> QED
    BY <2>3, <2>5
<1> QED
  BY <1>3, <1>6, <1>7, <1>8, <1>9, <1>10, <1>11

-----------------------------------------------------------------------------
TypeOK ==
  /\ build \in Builds /\ Reader \in Threads
  /\ pc \in [Threads -> {"user", "again", "reclaim", "receive", "ack", "end"}]
  /\ look \in 0 .. 3
  /\ epoch3 \in [Threads -> Lists] /\ began \in [Threads -> BOOLEAN]
  /\ recvBump = U32(sent) /\ wall \in Nat
  /\ ackBump[1] \in Nat /\ ackBump[2] \in Nat /\ ackBump[3] \in Nat /\ ackBump[4] \in Nat
  /\ slot \in 0 .. Full - 1 /\ shadow \in 0 .. Full - 1
  /\ ackSlot \in 0 .. Full - 1 /\ ackShadow \in 0 .. Full - 1
  /\ ackHead \in Nat /\ tailList \in Lists
  /\ linked \in [Lists -> Nat] /\ live \in [Lists -> Nat] /\ seen \in [Lists -> Nat]
  /\ sent \in Nat /\ notified \in Int /\ received \in Int

(* Where the threads are in their turns: a thread that has ended a barrier *)
(* begins the next at the end of progress(), and one that is ahead of the  *)
(* other has begun no further barrier than the one the other is to end.    *)
Turns ==
  /\ \A t \in Threads : /\ pc[t] \in {"user", "again"} => began[t]
                        /\ pc[t] = "reclaim" => t = Writer
                        /\ pc[t] \in {"receive", "ack"} => t = Reader
  /\ epoch3[Writer] = Inc3(epoch3[Reader]) => began[Reader]
  /\ epoch3[Reader] = Inc3(epoch3[Writer]) => began[Writer]

(* In this epoch of its own, has the writer reclaimed, the reader received?*)
Reclaimed == began[Writer] \/ pc[Writer] # "reclaim"
Done == began[Reader] \/ pc[Reader] \notin {"reclaim", "receive"}

(* Epochs whose messages the reader may still not have executed.           *)
Ahead == IF epoch3[Reader] = Inc3(epoch3[Writer]) THEN -1
         ELSE IF epoch3[Writer] = Inc3(epoch3[Reader]) THEN 1 ELSE 0
Lag == (IF Reclaimed THEN 1 ELSE 0) + (IF Done THEN 0 ELSE 1) + Ahead

(* The messages that were published n epochs of the writer ago, all that   *)
(* are published counting as the present: each credit stands for one.      *)
Published(w, n) == w - Full + ackBump[1] + (IF n < 3 THEN ackBump[2] ELSE 0)
                   + (IF n < 2 THEN ackBump[3] ELSE 0) + (IF n < 1 THEN ackBump[4] ELSE 0)

(* With w the wall as a number that does not wrap: all that the writer may *)
(* publish it has, and the slots are the numbers cut off.                  *)
Numbers(w) ==
  /\ wall = U32(w) /\ slot = Cut(Full, notified) /\ shadow = Cut(Full, received)
  /\ notified = IF sent < w THEN sent ELSE w - 1
  /\ sent - notified <= MaxAhead
  /\ received <= notified /\ w <= received + Full

(* sym: what the reader has acknowledged it has executed.                  *)
Acked(w) == build.kind = "sym" =>
  /\ w = Full + ackHead /\ ackShadow = Cut(Full, ackHead)
  /\ ackHead + Cut(Full, ackSlot - ackShadow) <= received

(* asym: what was published as many epochs ago as the reader can lag       *)
(* behind it has executed.                                                 *)
Credits(w) == build.kind = "asym" =>
  /\ Published(w, 0) <= w - 1
  /\ Published(w, 0) <= notified
  /\ Published(w, Lag) <= received

Balanced(w) == Numbers(w) /\ Acked(w) /\ Credits(w)

(* epoch: no list is longer to the reader than to the writer, but for the  *)
(* one that has been emptied and that the writer is about to begin.        *)
Rings ==
  /\ notified <= sent
  /\ \A e \in Lists : seen[e] <= live[e]
  /\ received + (live[0] - seen[0]) + (live[1] - seen[1]) + (live[2] - seen[2]) <= sent
  /\ Reclaimed => tailList = epoch3[Writer] /\ live[tailList] = linked[tailList]
  /\ ~ Reclaimed => Inc3(tailList) = epoch3[Writer] /\ live[epoch3[Writer]] = 0
  /\ Done /\ epoch3[Writer] # Inc3(epoch3[Reader]) => live[Inc3(epoch3[Reader])] = 0
  /\ epoch3[Reader] = Inc3(epoch3[Writer]) => live[epoch3[Reader]] = 0

Inv ==
  /\ TypeOK
  /\ Turns
  /\ build.kind = "epoch" => Rings
  /\ build.kind # "epoch" => \E w \in Int : Balanced(w)

-----------------------------------------------------------------------------
LEMMA FullFacts ==
  ASSUME build \in Builds
  PROVE  /\ Builds # {}
         /\ Full \in Nat /\ Full >= 2 /\ Full + MaxAhead <= Half
         /\ Half \in Nat /\ MaxAhead \in Nat
         /\ \A p \in Int : Signal(U32(p)) = Cut(Full, p)
         /\ \A x : Signal(x) = Cut(Full, x)
         /\ build.kind \in {"asym", "sym", "epoch"}
<1>1. /\ 2^build.bits \in Nat /\ 2^build.bits >= 2 /\ 2^build.bits + MaxAhead <= Half
      /\ Half \in Nat /\ MaxAhead \in Nat
  BY ModulusFacts
<1>2. \A p \in Int : Signal(U32(p)) = Cut(Full, p)
  BY SlotOf DEF Signal, Full
<1>3. \A x : Signal(x) = Cut(Full, x)
  BY DEF Signal, Cut
<1>4. build.kind \in {"asym", "sym", "epoch"}
  BY ConstantsAssumption
<1> QED
  BY <1>1, <1>2, <1>3, <1>4 DEF Full

(* Credits return: the wall moves from w to w + a, and what it held back   *)
(* is published.                                                           *)
LEMMA BacklogPublished ==
  ASSUME TypeOK, NEW w \in Int, Numbers(w), NEW a \in Nat, w + a <= received + Full,
         PublishBacklog(a), wall' = U32(wall + a), UNCHANGED <<build, sent, received, shadow>>
  PROVE  Numbers(w + a)' /\ notified' >= notified
<1>1. /\ Builds # {} /\ Full \in Nat /\ Full >= 2 /\ Full + MaxAhead <= Half /\ Half \in Nat /\ MaxAhead \in Nat
      /\ \A p \in Int : Signal(U32(p)) = Cut(Full, p)
  BY FullFacts DEF TypeOK
<1>2. /\ wall = U32(w) /\ slot = Cut(Full, notified) /\ shadow = Cut(Full, received)
      /\ notified = (IF sent < w THEN sent ELSE w - 1)
      /\ sent - notified <= MaxAhead /\ received <= notified /\ w <= received + Full
  BY DEF Numbers
<1>3. sent \in Int /\ notified \in Int /\ received \in Int /\ recvBump = U32(sent) /\ build \in Builds
  BY DEF TypeOK
<1>4. /\ U32(U32(w) + a) = U32(w + a)
      /\ U32(U32(w) + a - 1) = U32(w + a - 1)
      /\ LessEq(U32(w + a - 1), U32(sent)) <=> w + a - 1 <= sent
      /\ LessEq(U32(w), U32(sent)) <=> w <= sent
      /\ U32(U32(sent) - U32(sent)) = 0
      /\ w + a - 1 <= sent => U32(U32(sent) - U32(w + a - 1)) = sent - (w + a - 1)
  <2>1. w + a <= received + 2^build.bits
    BY DEF Full
  <2> QED
    BY <1>2, <1>3, <2>1, Reckoning
<1>5. Full' = Full
  BY DEF Full
<1>6. CASE w + a - 1 <= sent
  <2>1. Publish(U32(w + a - 1), sent, recvBump)
    BY <1>2, <1>3, <1>4, <1>6 DEF PublishBacklog
  <2>2. slot' = Cut(Full, w + a - 1)
    BY <1>1, <2>1 DEF Publish
  <2>3. notified' = w + a - 1
    BY <1>3, <1>4, <1>6, <2>1 DEF Publish
  <2>4. notified' = (IF sent < w + a THEN sent ELSE (w + a) - 1) /\ sent - notified' <= MaxAhead
        /\ notified' >= notified
    BY <1>1, <1>2, <1>3, <1>6, <2>3
  <2> QED
    BY <1>2, <1>3, <1>4, <1>5, <2>2, <2>3, <2>4 DEF Numbers
<1>7. CASE sent < w + a - 1 /\ w <= sent
  <2>1. Publish(recvBump, sent, recvBump)
    BY <1>2, <1>3, <1>4, <1>7 DEF PublishBacklog
  <2>2. slot' = Cut(Full, sent)
    BY <1>1, <1>3, <2>1 DEF Publish
  <2>3. notified' = sent
    BY <1>3, <1>4, <2>1 DEF Publish
  <2>4. notified' = (IF sent < w + a THEN sent ELSE (w + a) - 1) /\ sent - notified' <= MaxAhead
        /\ notified' >= notified
    BY <1>1, <1>2, <1>3, <1>7, <2>3
  <2> QED
    BY <1>2, <1>3, <1>4, <1>5, <2>2, <2>3, <2>4 DEF Numbers
<1>8. CASE sent < w + a - 1 /\ sent < w
  <2>1. PublishNothing
    BY <1>2, <1>3, <1>4, <1>8 DEF PublishBacklog
  <2>2. slot' = Cut(Full, notified') /\ notified' = sent
    BY <1>2, <1>3, <1>8, <2>1 DEF PublishNothing
  <2>4. notified' = (IF sent < w + a THEN sent ELSE (w + a) - 1) /\ sent - notified' <= MaxAhead
        /\ notified' >= notified
    BY <1>1, <1>2, <1>3, <1>8, <2>2
  <2> QED
    BY <1>2, <1>3, <1>4, <1>5, <2>2, <2>4 DEF Numbers
<1> QED
  BY <1>3, <1>6, <1>7, <1>8

-----------------------------------------------------------------------------
LEMMA SignalType ==
  ASSUME build \in Builds, NEW x \in Int
  PROVE  Signal(x) \in 0 .. Full - 1 /\ Signal(x) \in Nat
<1>1. Full \in Nat \ {0} /\ Signal(x) = Cut(Full, x)
  BY FullFacts
<1>2. Cut(Full, x) \in 0 .. Full - 1
  BY <1>1, CutFacts
<1> QED
  BY <1>1, <1>2

LEMMA PublishType ==
  ASSUME build \in Builds, NEW p \in Nat, NEW s \in Int, NEW b \in Nat, Publish(p, s, b)
  PROVE  slot' \in 0 .. Full - 1 /\ notified' \in Int
<1>1. Signal(p) \in 0 .. Full - 1
  BY SignalType
<1>2. b - p \in Int
  OBVIOUS
<1>3. U32(b - p) \in Nat
  BY <1>2, WrapType
<1> QED
  BY <1>1, <1>3 DEF Publish

LEMMA PublishBacklogType ==
  ASSUME TypeOK, NEW a \in Nat, PublishBacklog(a)
  PROVE  slot' \in 0 .. Full - 1 /\ notified' \in Int
<1>1. build \in Builds /\ sent \in Int /\ wall \in Nat /\ slot \in 0 .. Full - 1 /\ notified \in Int
      /\ recvBump = U32(sent)
  BY DEF TypeOK
<1>2. wall + a - 1 \in Int
  BY <1>1
<1>3. U32(wall + a - 1) \in Nat /\ recvBump \in Nat
  BY <1>1, <1>2, WrapType
<1>4. CASE Publish(U32(wall + a - 1), sent, recvBump)
  BY <1>1, <1>3, <1>4, PublishType
<1>5. CASE Publish(recvBump, sent, recvBump)
  BY <1>1, <1>3, <1>5, PublishType
<1>6. CASE PublishNothing
  BY <1>1, <1>6 DEF PublishNothing
<1> QED
  BY <1>4, <1>5, <1>6 DEF PublishBacklog

LEMMA Typed ==
  ASSUME TypeOK, [Next]_vars
  PROVE  TypeOK'
<1>0. /\ build \in Builds /\ Reader \in Threads
      /\ pc \in [Threads -> {"user", "again", "reclaim", "receive", "ack", "end"}]
      /\ look \in 0 .. 3
      /\ epoch3 \in [Threads -> Lists] /\ began \in [Threads -> BOOLEAN]
      /\ recvBump = U32(sent) /\ wall \in Nat
      /\ ackBump[1] \in Nat /\ ackBump[2] \in Nat /\ ackBump[3] \in Nat /\ ackBump[4] \in Nat
      /\ slot \in 0 .. Full - 1 /\ shadow \in 0 .. Full - 1
      /\ ackSlot \in 0 .. Full - 1 /\ ackShadow \in 0 .. Full - 1
      /\ ackHead \in Nat /\ tailList \in Lists
      /\ linked \in [Lists -> Nat] /\ live \in [Lists -> Nat] /\ seen \in [Lists -> Nat]
      /\ sent \in Nat /\ notified \in Int /\ received \in Int
  BY DEF TypeOK
<1>1. recvBump \in Nat /\ Full \in Nat
  BY <1>0, WrapType, FullFacts
<1>2. build' = build
  BY DEF Next, vars, Send, Announce, Reclaim, Receive, Ack, ProgressBegin, ProgressEnd
<1>3. Full' = Full
  BY <1>2 DEF Full
<1>4. CASE Send
  <2> DEFINE bump == U32(recvBump + 1)
  <2>1. sent' = sent + 1 /\ recvBump' = bump
    BY <1>4 DEF Send
  <2>2. recvBump' = U32(sent') /\ bump \in Nat
    <3>1. U32(U32(sent) + 1) = U32(sent + 1)
      <4>1. 1 \in Int /\ sent \in Int /\ Builds # {}
        BY <1>0
      <4> QED
        BY <4>1, Wrap
    <3>2. sent + 1 \in Int /\ Builds # {}
      BY <1>0
    <3>3. U32(sent + 1) \in Nat
      BY <3>2, WrapType
    <3> QED
      BY <1>0, <2>1, <3>1, <3>3
  <2>3. slot' \in 0 .. Full - 1 /\ notified' \in Int
    <3>1. CASE PublishNothing
      BY <1>0, <3>1 DEF PublishNothing
    <3>2. CASE Publish(bump, sent + 1, bump)
      <4>1. sent + 1 \in Int
        BY <1>0
      <4> HIDE DEF bump
      <4> QED
        BY <1>0, <2>2, <3>2, <4>1, PublishType
    <3> QED
      BY <1>4, <3>1, <3>2 DEF Send
  <2>4. linked' \in [Lists -> Nat] /\ live' \in [Lists -> Nat]
    <3>1. CASE UNCHANGED <<linked, live>>
      BY <1>0, <3>1
    <3>2. CASE /\ linked' = [linked EXCEPT ![tailList] = @ + 1]
               /\ live' = [live EXCEPT ![epoch3[Writer]] = linked[tailList] + 1]
      <4>1. PICK k \in Nat : k = linked[tailList] + 1
        BY <1>0
      <4>2. linked' = [linked EXCEPT ![tailList] = k] /\ live' = [live EXCEPT ![epoch3[Writer]] = k]
        BY <3>2, <4>1
      <4> QED
        BY <1>0, <4>1, <4>2
    <3> QED
      BY <1>4, <3>1, <3>2 DEF Send
  <2>5. sent' \in Nat
    BY <1>0, <2>1
  <2> QED
    BY <1>0, <1>2, <1>3, <1>4, <2>2, <2>3, <2>4, <2>5 DEF TypeOK, Send, threadVars
<1>5. CASE Announce
  <2>1. slot' \in 0 .. Full - 1 /\ notified' \in Int
    <3>1. sent \in Int /\ Publish(recvBump, sent, recvBump)
      BY <1>0, <1>5 DEF Announce
    <3> QED
      BY <1>0, <1>1, <3>1, PublishType
  <2> QED
    BY <1>0, <1>2, <1>3, <1>5, <2>1 DEF TypeOK, Announce, threadVars, creditVars, listVars
<1>6. CASE Reclaim
  <2>0. pc' \in [Threads -> {"user", "again", "reclaim", "receive", "ack", "end"}]
    BY <1>0, <1>6 DEF Reclaim, AfterReclaim
  <2>1. CASE ReclaimSym
    <3> DEFINE acks == Signal(ackSlot - ackShadow)
    <3>1. ackSlot - ackShadow \in Int
      BY <1>0, <1>1
    <3>2. acks \in Nat
      BY <1>0, <3>1, SignalType
    <3> HIDE DEF acks
    <3>3. slot' \in 0 .. Full - 1 /\ notified' \in Int
      <4>1. CASE PublishNothing
        BY <1>0, <4>1 DEF PublishNothing
      <4>2. CASE PublishBacklog(acks)
        BY <3>2, <4>2, PublishBacklogType
      <4> QED
        BY <2>1, <4>1, <4>2 DEF ReclaimSym, acks
    <3>4. wall' \in Nat
      <4>1. wall + acks \in Int /\ Builds # {}
        BY <1>0, <3>2
      <4>2. U32(wall + acks) \in Nat
        BY <4>1, WrapType
      <4> QED
        BY <2>1, <4>2 DEF ReclaimSym, acks
    <3>5. ackHead' \in Nat /\ ackShadow' = ackSlot
      BY <1>0, <2>1, <3>2 DEF ReclaimSym, acks
    <3> QED
      BY <1>0, <1>2, <1>3, <1>6, <2>0, <2>1, <3>3, <3>4, <3>5 DEF TypeOK, Reclaim, ReclaimSym
  <2>2. CASE ReclaimAsym
    <3> DEFINE acks == ackBump[1]
               newWall == U32(wall + acks)
               unused == IF LessEq(newWall, recvBump) THEN 0 ELSE U32(newWall - 1 - recvBump)
               new == Signal(Full - 1 - Held - unused)
    <3>1. slot' \in 0 .. Full - 1 /\ notified' \in Int
      BY <1>0, <2>2, PublishBacklogType DEF ReclaimAsym
    <3>2. newWall \in Nat
      <4>1. wall + acks \in Int /\ Builds # {}
        BY <1>0
      <4> QED
        BY <4>1, WrapType
    <3>3. unused \in Nat
      <4>1. newWall - 1 - recvBump \in Int /\ Builds # {}
        BY <1>0, <1>1, <3>2
      <4> HIDE DEF newWall
      <4> QED
        BY <4>1, WrapType
    <3>4. new \in Nat
      <4>1. Full - 1 - Held - unused \in Int
        <5> HIDE DEF unused
        <5> QED
          BY <1>0, <1>1, <3>3 DEF Held
      <4> HIDE DEF unused
      <4> QED
        BY <1>0, <4>1, SignalType
    <3>5. wall' = newWall /\ ackBump' = <<ackBump[2], ackBump[3], ackBump[4], new>>
      BY <2>2 DEF ReclaimAsym, AfterEpoch
    <3> HIDE DEF new, newWall
    <3>6. ackBump'[1] \in Nat /\ ackBump'[2] \in Nat /\ ackBump'[3] \in Nat /\ ackBump'[4] \in Nat
      BY <1>0, <3>4, <3>5
    <3> QED
      BY <1>0, <1>2, <1>3, <1>6, <2>0, <2>2, <3>1, <3>2, <3>5, <3>6 DEF TypeOK, Reclaim, ReclaimAsym
  <2>3. CASE ReclaimEpoch
    <3>1. tailList' \in Lists /\ linked' \in [Lists -> Nat]
      BY <1>0, <2>3 DEF ReclaimEpoch, Writer, Threads
    <3> QED
      BY <1>0, <1>2, <1>3, <1>6, <2>0, <2>3, <3>1
         DEF TypeOK, Reclaim, ReclaimEpoch, PublishNothing, creditVars
  <2>4. CASE PublishNothing /\ UNCHANGED <<creditVars, backlogged, tailList, linked>>
    BY <1>0, <1>2, <1>3, <1>6, <2>0, <2>4 DEF TypeOK, Reclaim, PublishNothing, creditVars
  <2> QED
    BY <1>6, <2>1, <2>2, <2>3, <2>4 DEF Reclaim
<1>7. CASE Receive
  <2>1. CASE ReceiveCounted
    <3> DEFINE n == Signal(slot - shadow)
    <3>1. n \in Nat
      BY <1>0, <1>1, SignalType
    <3>2. received' \in Int
      <4> HIDE DEF n
      <4> QED
        BY <1>0, <2>1, <3>1 DEF ReceiveCounted, n
    <3>3. pc' \in [Threads -> {"user", "again", "reclaim", "receive", "ack", "end"}]
      BY <1>0, <2>1 DEF ReceiveCounted
    <3> QED
      BY <1>0, <1>2, <1>3, <1>7, <2>1, <3>2, <3>3 DEF TypeOK, Receive, ReceiveCounted, creditVars
  <2>2. CASE LookNot
    BY <1>0, <1>2, <1>3, <1>7, <2>2 DEF TypeOK, Receive, LookNot, creditVars
  <2>3. CASE Look
    <3>1. live[look] - seen[look] \in Int /\ look + 1 \in 0 .. 3
      BY <1>0, <2>3 DEF Look, Lists
    <3>2. received' \in Int /\ seen' \in [Lists -> Nat] /\ shadow' \in 0 .. Full - 1
      <4>1. shadow + (live[look] - seen[look]) \in Int
        BY <1>0, <1>1, <3>1
      <4>2. shadow' \in 0 .. Full - 1
        BY <1>0, <2>3, <4>1, SignalType DEF Look
      <4>3. seen' \in [Lists -> Nat]
        BY <1>0, <2>3 DEF Look
      <4>4. received' \in Int
        BY <1>0, <2>3, <3>1 DEF Look
      <4> QED
        BY <4>2, <4>3, <4>4
    <3> QED
      BY <1>0, <1>2, <1>3, <1>7, <2>3, <3>1, <3>2 DEF TypeOK, Receive, Look, creditVars
  <2>4. CASE Empty
    <3>1. live' \in [Lists -> Nat] /\ seen' \in [Lists -> Nat] /\ look' \in 0 .. 3
      BY <1>0, <2>4 DEF Empty
    <3>2. pc' \in [Threads -> {"user", "again", "reclaim", "receive", "ack", "end"}]
      BY <1>0, <2>4 DEF Empty
    <3> QED
      BY <1>0, <1>2, <1>3, <1>7, <2>4, <3>1, <3>2 DEF TypeOK, Receive, Empty, creditVars
  <2> QED
    BY <1>7, <2>1, <2>2, <2>3, <2>4 DEF Receive
<1>8. CASE Ack
  BY <1>0, <1>2, <1>3, <1>8 DEF TypeOK, Ack, creditVars, listVars
<1>9. ASSUME NEW t \in Threads, ProgressBegin(t) PROVE TypeOK'
  <2>1. epoch3' \in [Threads -> Lists]
    BY <1>0, <1>9 DEF ProgressBegin, Inc3, Lists
  <2>2. began' \in [Threads -> BOOLEAN]
    BY <1>0, <1>9 DEF ProgressBegin
  <2>3. pc' \in [Threads -> {"user", "again", "reclaim", "receive", "ack", "end"}]
    BY <1>0, <1>9 DEF ProgressBegin, AfterBegin, AfterReclaim
  <2> QED
    BY <1>0, <1>2, <1>3, <1>9, <2>1, <2>2, <2>3 DEF TypeOK, ProgressBegin, creditVars, listVars
<1>10. ASSUME NEW t \in Threads, ProgressEnd(t) PROVE TypeOK'
  <2>1. pc' \in [Threads -> {"user", "again", "reclaim", "receive", "ack", "end"}]
    BY <1>0, <1>10 DEF ProgressEnd
  <2>2. began' \in [Threads -> BOOLEAN]
    BY <1>0, <1>10 DEF ProgressEnd
  <2> QED
    BY <1>0, <1>2, <1>3, <1>10, <2>1, <2>2 DEF TypeOK, ProgressEnd, creditVars, listVars
<1>11. CASE UNCHANGED vars
  BY <1>0, <1>2, <1>3, <1>11 DEF TypeOK, vars, threadVars, creditVars, listVars
<1> QED
  BY <1>4, <1>5, <1>6, <1>7, <1>8, <1>9, <1>10, <1>11 DEF Next

-----------------------------------------------------------------------------
LEMMA Inc3Facts == Inc3(0) = 1 /\ Inc3(1) = 2 /\ Inc3(2) = 0
  BY DEF Inc3

LEMMA EveryoneBeganMeans ==
  ASSUME NEW t \in Threads, EpochBarrier!EveryoneBegan(t)
  PROVE  began[t] /\ \A u \in Threads : \/ epoch3[u] = epoch3[t] /\ began[u]
                                        \/ epoch3[u] = Inc3(epoch3[t])
  BY DEF EpochBarrier!EveryoneBegan, EpochBarrier!After, Inc3

LEMMA TurnsKept ==
  ASSUME TypeOK, Turns, [Next]_vars
  PROVE  Turns'
<1>0. /\ Reader \in {0, 1} /\ epoch3 \in [{0, 1} -> {0, 1, 2}] /\ began \in [{0, 1} -> BOOLEAN]
      /\ pc \in [{0, 1} -> {"user", "again", "reclaim", "receive", "ack", "end"}]
      /\ Writer = 0 /\ Threads = {0, 1}
  BY DEF TypeOK, Threads, Lists, Writer
<1>1. ASSUME NEW t \in Threads, ProgressBegin(t) PROVE Turns'
  <2>1. /\ Reader' = Reader /\ pc[t] \in {"user", "again"} /\ began[t]
        /\ pc' = [pc EXCEPT ![t] = IF t = Writer THEN "reclaim"
                                   ELSE IF t = Reader THEN "receive" ELSE "end"]
    BY <1>0, <1>1 DEF ProgressBegin, At, Turns, AfterBegin, AfterReclaim
  <2>2. \A u \in {0, 1} : /\ pc'[u] \in {"user", "again"} => u # t /\ began[u]
                          /\ pc'[u] = "reclaim" => u = Writer
                          /\ pc'[u] \in {"receive", "ack"} => u = Reader
    BY <1>0, <2>1 DEF Turns
  <2>3. CASE EpochBarrier!EveryoneBegan(t)
    <3>1. epoch3' = [epoch3 EXCEPT ![t] = Inc3(@)] /\ began' = [began EXCEPT ![t] = FALSE]
      BY <1>1, <2>3 DEF ProgressBegin
    <3>2. \A u \in Threads : \/ epoch3[u] = epoch3[t] /\ began[u]
                             \/ epoch3[u] = Inc3(epoch3[t])
      BY <2>3, EveryoneBeganMeans
    <3>3. \A u \in {0, 1} : u # t => epoch3'[u] = epoch3[u] /\ (began'[u] <=> began[u])
      BY <1>0, <3>1
    <3>4. epoch3'[t] = Inc3(epoch3[t])
      BY <1>0, <3>1
    <3>5. \A u \in {0, 1} : u # t /\ epoch3'[t] = Inc3(epoch3'[u]) => began'[u]
      BY <1>0, <3>2, <3>3, <3>4, Inc3Facts
    <3>6. \A u \in {0, 1} : u # t => epoch3'[u] # Inc3(epoch3'[t])
      BY <1>0, <3>2, <3>3, <3>4, Inc3Facts
    <3>7. epoch3'[t] # Inc3(epoch3'[t])
      BY <1>0, <3>4, Inc3Facts
    <3>8. \A u \in {0, 1} : epoch3'[u] \in {0, 1, 2} /\ epoch3'[u] # Inc3(epoch3'[u])
      BY <1>0, <3>3, <3>4, Inc3Facts
    <3> QED
      BY <1>0, <2>1, <2>2, <3>3, <3>5, <3>6, <3>8 DEF Turns
  <2>4. CASE ~ EpochBarrier!EveryoneBegan(t)
    <3>1. epoch3' = epoch3 /\ began' = began
      BY <1>1, <2>4 DEF ProgressBegin
    <3> QED
      BY <1>0, <2>1, <2>2, <3>1 DEF Turns
  <2> QED
    BY <2>3, <2>4
<1>2. ASSUME NEW t \in Threads, ProgressEnd(t) PROVE Turns'
  <2>1. /\ Reader' = Reader /\ epoch3' = epoch3
        /\ pc' = [pc EXCEPT ![t] = IF t = Writer /\ backlogged THEN "again" ELSE "user"]
        /\ began' = [began EXCEPT ![t] = TRUE]
    BY <1>2 DEF ProgressEnd
  <2>2. \A u \in {0, 1} : (u # t => (began'[u] <=> began[u]) /\ pc'[u] = pc[u]) /\ (u = t => began'[u])
    BY <1>0, <2>1
  <2>3. pc'[t] \in {"again", "user"}
    BY <1>0, <2>1
  <2> QED
    BY <1>0, <2>1, <2>2, <2>3 DEF Turns
<1>3. CASE Send
  BY <1>0, <1>3 DEF Turns, Send, threadVars
<1>4. CASE Announce
  BY <1>0, <1>4 DEF Turns, Announce, threadVars
<1>5. CASE Reclaim
  <2>1. /\ Reader' = Reader /\ epoch3' = epoch3 /\ began' = began /\ pc[Writer] = "reclaim"
        /\ pc' = [pc EXCEPT ![Writer] = IF Writer = Reader THEN "receive" ELSE "end"]
    BY <1>5 DEF Reclaim, AfterReclaim
  <2> QED
    BY <1>0, <2>1 DEF Turns
<1>6. CASE Receive
  <2>1. /\ Reader' = Reader /\ epoch3' = epoch3 /\ began' = began /\ pc[Reader] = "receive"
        /\ \/ pc' = pc
           \/ pc' = [pc EXCEPT ![Reader] = "ack"]
           \/ pc' = [pc EXCEPT ![Reader] = "end"]
    BY <1>6 DEF Receive, At, ReceiveCounted, LookNot, Look, Empty
  <2> QED
    BY <1>0, <2>1 DEF Turns
<1>7. CASE Ack
  BY <1>0, <1>7 DEF Turns, Ack
<1>8. CASE UNCHANGED vars
  BY <1>0, <1>8 DEF Turns, vars, threadVars
<1> QED
  BY <1>1, <1>2, <1>3, <1>4, <1>5, <1>6, <1>7, <1>8 DEF Next

(* A thread that ends a barrier is one epoch further on and has that       *)
(* epoch's work before it: the reader may lag behind no further for it.    *)
LEMMA LagOfProgress ==
  ASSUME TypeOK, Turns, NEW t \in Threads, ProgressBegin(t) \/ ProgressEnd(t)
  PROVE  Lag' = Lag
<1>0. /\ Reader \in {0, 1} /\ epoch3 \in [{0, 1} -> {0, 1, 2}] /\ began \in [{0, 1} -> BOOLEAN]
      /\ pc \in [{0, 1} -> {"user", "again", "reclaim", "receive", "ack", "end"}]
      /\ Writer = 0 /\ t \in {0, 1} /\ 0 \in {0, 1}
  BY DEF TypeOK, Threads, Lists, Writer
<1>1. CASE ProgressBegin(t)
  <2>1. /\ Reader' = Reader /\ pc[t] \in {"user", "again"} /\ began[t]
        /\ pc' = [pc EXCEPT ![t] = IF t = Writer THEN "reclaim"
                                   ELSE IF t = Reader THEN "receive" ELSE "end"]
    BY <1>0, <1>1 DEF ProgressBegin, At, Turns, AfterBegin, AfterReclaim, Threads
  <2>2. CASE EpochBarrier!EveryoneBegan(t)
    <3>1. epoch3' = [epoch3 EXCEPT ![t] = Inc3(@)] /\ began' = [began EXCEPT ![t] = FALSE]
      BY <1>1, <2>2 DEF ProgressBegin
    <3>2. \A u \in {0, 1} : \/ epoch3[u] = epoch3[t] /\ began[u]
                            \/ epoch3[u] = Inc3(epoch3[t])
      BY <2>2, EveryoneBeganMeans DEF Threads
    <3>3. \A u \in {0, 1} : u # t => epoch3'[u] = epoch3[u] /\ (began'[u] <=> began[u]) /\ pc'[u] = pc[u]
      BY <1>0, <2>1, <3>1
    <3>4. /\ epoch3'[t] = Inc3(epoch3[t]) /\ ~ began'[t]
          /\ pc'[t] = (IF t = Writer THEN "reclaim" ELSE IF t = Reader THEN "receive" ELSE "end")
      BY <1>0, <2>1, <3>1
    <3>5. CASE t = Writer
      <4>1. Reclaimed /\ ~ Reclaimed'
        BY <1>0, <2>1, <3>4, <3>5 DEF Reclaimed
      <4>2. CASE Reader = Writer
        <5>1. Done /\ ~ Done' /\ Ahead = 0 /\ Ahead' = 0
          BY <1>0, <2>1, <3>4, <3>5, <4>2, Inc3Facts DEF Done, Ahead
        <5> QED
          BY <4>1, <5>1 DEF Lag
      <4>3. CASE Reader # Writer
        <5>1. Done <=> Done'
          BY <1>0, <2>1, <3>3, <3>5, <4>3 DEF Done
        <5>2. Ahead \in {-1, 0} /\ Ahead' = Ahead + 1
          BY <1>0, <2>1, <3>2, <3>3, <3>4, <3>5, <4>3, Inc3Facts DEF Ahead
        <5> QED
          BY <4>1, <5>1, <5>2 DEF Lag
      <4> QED
        BY <4>2, <4>3
    <3>6. CASE t # Writer /\ t = Reader
      <4>1. Done /\ ~ Done'
        BY <1>0, <2>1, <3>4, <3>6 DEF Done
      <4>2. Reclaimed <=> Reclaimed'
        BY <1>0, <3>3, <3>6 DEF Reclaimed
      <4>3. Ahead \in {0, 1} /\ Ahead' = Ahead - 1
        BY <1>0, <2>1, <3>2, <3>3, <3>4, <3>6, Inc3Facts DEF Ahead
      <4> QED
        BY <4>1, <4>2, <4>3 DEF Lag
    <3>7. CASE t # Writer /\ t # Reader
      <4>1. Reclaimed <=> Reclaimed'
        BY <1>0, <3>3, <3>7 DEF Reclaimed
      <4>2. Done <=> Done'
        BY <1>0, <2>1, <3>3, <3>7 DEF Done
      <4>3. Ahead' = Ahead
        BY <1>0, <2>1, <3>3, <3>7 DEF Ahead
      <4> QED
        BY <4>1, <4>2, <4>3 DEF Lag
    <3> QED
      BY <3>5, <3>6, <3>7
  <2>3. CASE ~ EpochBarrier!EveryoneBegan(t)
    <3>1. epoch3' = epoch3 /\ began' = began
      BY <1>1, <2>3 DEF ProgressBegin
    <3>2. /\ Reclaimed <=> Reclaimed'
          /\ Done <=> Done'
      BY <1>0, <2>1, <3>1 DEF Reclaimed, Done
    <3>3. Ahead' = Ahead
      BY <2>1, <3>1 DEF Ahead
    <3> QED
      BY <3>2, <3>3 DEF Lag
  <2> QED
    BY <2>2, <2>3
<1>2. CASE ProgressEnd(t)
  <2>1. /\ Reader' = Reader /\ epoch3' = epoch3 /\ pc[t] = "end"
        /\ pc' = [pc EXCEPT ![t] = IF t = Writer /\ backlogged THEN "again" ELSE "user"]
        /\ began' = [began EXCEPT ![t] = TRUE]
    BY <1>2 DEF ProgressEnd, At
  <2>2. \A u \in {0, 1} : (u # t => (began'[u] <=> began[u]) /\ pc'[u] = pc[u]) /\ (u = t => began'[u])
    BY <1>0, <2>1
  <2>3. /\ Reclaimed <=> Reclaimed'
        /\ Done <=> Done'
    BY <1>0, <2>1, <2>2 DEF Reclaimed, Done
  <2>4. Ahead' = Ahead
    BY <2>1 DEF Ahead
  <2> QED
    BY <2>3, <2>4 DEF Lag
<1> QED
  BY <1>1, <1>2

LEMMA LagOfReclaim ==
  ASSUME TypeOK, Turns, Reclaim
  PROVE  Lag' = IF began[Writer] THEN Lag ELSE Lag + 1
<1>0. /\ Reader \in {0, 1} /\ epoch3 \in [{0, 1} -> {0, 1, 2}] /\ began \in [{0, 1} -> BOOLEAN]
      /\ pc \in [{0, 1} -> {"user", "again", "reclaim", "receive", "ack", "end"}]
      /\ Writer = 0 /\ 0 \in {0, 1}
  BY DEF TypeOK, Threads, Lists, Writer
<1>1. /\ Reader' = Reader /\ epoch3' = epoch3 /\ began' = began /\ pc[Writer] = "reclaim"
      /\ pc' = [pc EXCEPT ![Writer] = IF Writer = Reader THEN "receive" ELSE "end"]
  BY DEF Reclaim, AfterReclaim
<1>2. Done <=> Done'
  BY <1>0, <1>1 DEF Done
<1>3. Ahead' = Ahead /\ Ahead \in Int
  BY <1>1 DEF Ahead
<1>4. (Reclaimed <=> began[Writer]) /\ Reclaimed'
  BY <1>0, <1>1 DEF Reclaimed
<1> QED
  BY <1>2, <1>3, <1>4 DEF Lag

LEMMA LagOfAck ==
  ASSUME TypeOK, Ack
  PROVE  Lag' = Lag
<1>0. /\ Reader \in {0, 1} /\ began \in [{0, 1} -> BOOLEAN]
      /\ pc \in [{0, 1} -> {"user", "again", "reclaim", "receive", "ack", "end"}]
      /\ Writer = 0 /\ 0 \in {0, 1}
  BY DEF TypeOK, Threads, Writer
<1>1. /\ Reader' = Reader /\ epoch3' = epoch3 /\ began' = began /\ pc[Reader] = "ack"
      /\ pc' = [pc EXCEPT ![Reader] = "end"]
  BY DEF Ack
<1>2. /\ Done <=> Done'
      /\ Reclaimed <=> Reclaimed'
  BY <1>0, <1>1 DEF Done, Reclaimed
<1>3. Ahead' = Ahead
  BY <1>1 DEF Ahead
<1> QED
  BY <1>2, <1>3 DEF Lag

LEMMA LagType == ASSUME TypeOK PROVE Lag \in -1 .. 3
  BY DEF Lag, Ahead

-----------------------------------------------------------------------------
(* Balanced is kept, in the builds that have a wall.                       *)
LEMMA BalancedAfterSend ==
  ASSUME TypeOK, build.kind # "epoch", NEW w \in Int, Balanced(w), Send
  PROVE  Balanced(w)'
<1>0. /\ build \in Builds /\ sent \in Nat /\ notified \in Int /\ received \in Int
      /\ recvBump = U32(sent) /\ 1 \in Int
  BY DEF TypeOK
<1>1. /\ Builds # {} /\ Full \in Nat /\ Full >= 2 /\ Full + MaxAhead <= Half /\ Half \in Nat
      /\ MaxAhead \in Nat
      /\ \A p \in Int : Signal(U32(p)) = Cut(Full, p)
  BY <1>0, FullFacts
<1>2. /\ wall = U32(w) /\ slot = Cut(Full, notified) /\ shadow = Cut(Full, received)
      /\ notified = (IF sent < w THEN sent ELSE w - 1)
      /\ sent - notified <= MaxAhead /\ received <= notified /\ w <= received + Full
  BY DEF Balanced, Numbers
<1>3. sent - notified < MaxAhead /\ sent' = sent + 1
  BY DEF Send
<1>4. UNCHANGED <<build, Reader, pc, began, epoch3, wall, ackBump, ackSlot, ackShadow, ackHead, shadow, received>>
  BY DEF Send, threadVars
<1>5. Full' = Full /\ Lag' = Lag
  BY <1>4 DEF Full, Lag, Ahead, Reclaimed, Done
<1>6. PICK s \in Int : s = sent + 1
  BY <1>0
<1>7. U32(recvBump + 1) = U32(s)
  <2>1. U32(U32(sent) + 1) = U32(sent + 1)
    BY <1>0, <1>1, Wrap
  <2> QED
    BY <1>0, <1>6, <2>1
<1>8. Less(U32(s), U32(w)) <=> s < w
  <2>1. w - s - 1 < Half /\ s - w + 1 <= Half
    BY <1>0, <1>1, <1>2, <1>3, <1>6
  <2> QED
    BY <1>1, <2>1, Comparisons
<1>9. CASE s < w
  <2>1. Publish(U32(s), s, U32(s))
    BY <1>2, <1>3, <1>6, <1>7, <1>8, <1>9 DEF Send, Within
  <2>2. U32(s) - U32(s) = 0
    <3>1. U32(s) \in Nat
      BY <1>1, WrapType
    <3> QED
      BY <3>1
  <2>3. U32(0) = 0
    <3>1. s - s \in 0 .. Half /\ s - s = 0
      BY <1>1
    <3> QED
      BY <1>1, <2>2, <3>1, Distance0
  <2>4. slot' = Cut(Full, s) /\ notified' = s
    BY <1>1, <2>1, <2>2, <2>3 DEF Publish
  <2>5. notified' = (IF s < w THEN s ELSE w - 1) /\ s - notified' <= MaxAhead /\ received <= notified'
        /\ notified' >= notified
    BY <1>0, <1>1, <1>2, <1>6, <1>9, <2>4
  <2>6. Numbers(w)'
    BY <1>2, <1>3, <1>4, <1>5, <1>6, <2>4, <2>5 DEF Numbers
  <2>7. Acked(w)'
    BY <1>4, <1>5 DEF Balanced, Acked
  <2>8. Credits(w)'
    <3>1. ASSUME build.kind = "asym"
          PROVE  Published(w, 0) <= w - 1 /\ Published(w, 0) <= notified /\ Published(w, Lag) <= received
      BY <3>1 DEF Balanced, Credits
    <3>2. Published(w, 0)' = Published(w, 0) /\ Published(w, Lag)' = Published(w, Lag)
      BY <1>4, <1>5 DEF Published
    <3>3. Published(w, 0) \in Int
      BY <1>1 DEF Published, TypeOK
    <3>4. Published(w, 0) <= notified => Published(w, 0) <= notified'
      BY <1>0, <2>4, <2>5, <3>3
    <3> QED
      BY <1>4, <3>1, <3>2, <3>4 DEF Credits
  <2> QED
    BY <2>6, <2>7, <2>8 DEF Balanced
<1>10. CASE ~ (s < w)
  <2>1. PublishNothing
    BY <1>2, <1>7, <1>8, <1>10 DEF Send, Within
  <2>2. slot' = slot /\ notified' = notified
    BY <2>1 DEF PublishNothing
  <2>3. notified = (IF s < w THEN s ELSE w - 1) /\ s - notified <= MaxAhead
    BY <1>0, <1>1, <1>2, <1>3, <1>6, <1>10
  <2>4. Numbers(w)'
    BY <1>2, <1>3, <1>4, <1>5, <1>6, <2>2, <2>3 DEF Numbers
  <2>5. Acked(w)'
    BY <1>4, <1>5 DEF Balanced, Acked
  <2>6. Credits(w)'
    <3>1. Published(w, 0)' = Published(w, 0) /\ Published(w, Lag)' = Published(w, Lag)
      BY <1>4, <1>5 DEF Published
    <3> QED
      BY <1>4, <2>2, <3>1 DEF Balanced, Credits
  <2> QED
    BY <2>4, <2>5, <2>6 DEF Balanced
<1> QED
  BY <1>9, <1>10

LEMMA BalancedAfterReclaimSym ==
  ASSUME TypeOK, NEW w \in Int, Balanced(w), build.kind = "sym", ReclaimSym,
         UNCHANGED <<build, ackSlot, shadow, sent, received>>
  PROVE  \E v \in Int : Balanced(v)'
<1>0. /\ build \in Builds /\ sent \in Nat /\ notified \in Int /\ received \in Int
      /\ ackSlot \in 0 .. Full - 1 /\ ackShadow \in 0 .. Full - 1 /\ ackHead \in Nat
  BY DEF TypeOK
<1>1. /\ Builds # {} /\ Full \in Nat \ {0} /\ \A x : Signal(x) = Cut(Full, x)
  BY <1>0, FullFacts
<1>2. w = Full + ackHead /\ ackShadow = Cut(Full, ackHead)
      /\ ackHead + Cut(Full, ackSlot - ackShadow) <= received
  BY DEF Balanced, Acked
<1>3. ackSlot \in Int /\ ackShadow \in Int /\ ackSlot - ackShadow \in Int
  BY <1>0, <1>1
<1>4. PICK a \in Nat : a = Cut(Full, ackSlot - ackShadow)
  <2>1. Cut(Full, ackSlot - ackShadow) \in 0 .. Full - 1
    BY <1>1, <1>3, CutFacts
  <2> QED
    BY <1>1, <2>1
<1>5. w + a <= received + Full
  BY <1>0, <1>1, <1>2, <1>4
<1>6. /\ wall' = U32(wall + a) /\ ackShadow' = ackSlot /\ ackHead' = ackHead + a
      /\ IF a = 0 THEN PublishNothing ELSE PublishBacklog(a)
  BY <1>1, <1>4 DEF ReclaimSym
<1>7. Full' = Full
  BY DEF Full
<1>8. Numbers(w + a)'
  <2>1. CASE a = 0
    <3>1. wall' = wall
      <4>1. U32(U32(w) + a) = U32(w + a) /\ wall = U32(w)
        <5>1. a \in Int
          OBVIOUS
        <5> QED
          BY <1>1, <5>1, Wrap DEF Balanced, Numbers
      <4> QED
        BY <1>6, <2>1, <4>1
    <3>2. w + a = w
      BY <2>1
    <3>3. slot' = slot /\ notified' = notified
      BY <1>6, <2>1 DEF PublishNothing
    <3> QED
      BY <1>7, <3>1, <3>2, <3>3 DEF Balanced, Numbers
  <2>2. CASE a # 0
    BY <1>5, <1>6, <2>2, BacklogPublished DEF Balanced
  <2> QED
    BY <2>1, <2>2
<1>9. ackSlot = Cut(Full, ackHead + a)
  <2>1. Cut(Full, Cut(Full, ackHead) + a) = Cut(Full, ackHead + a)
    <3>1. ackHead \in Int /\ a \in Int
      BY <1>0
    <3> QED
      BY <1>1, <3>1, CutSum
  <2>2. PICK d \in Int : d = ackSlot - ackShadow
    BY <1>3
  <2>3. Cut(Full, Cut(Full, d) + ackShadow) = Cut(Full, d + ackShadow)
    BY <1>1, <1>3, CutSum
  <2>4. d + ackShadow = ackSlot /\ Cut(Full, d) + ackShadow = Cut(Full, ackHead) + a
    BY <1>2, <1>3, <1>4, <2>2
  <2>5. Cut(Full, ackSlot) = ackSlot
    BY <1>0, <1>1, CutFacts
  <2> QED
    BY <2>1, <2>3, <2>4, <2>5
<1>10. Acked(w + a)'
  <2>1. ackSlot' - ackShadow' = 0 /\ Cut(Full, 0) = 0
    <3>1. 0 \in 0 .. Full - 1
      BY <1>1
    <3> QED
      BY <1>1, <1>3, <1>6, <3>1, CutFacts
  <2>2. w + a = Full + (ackHead + a) /\ (ackHead + a) + 0 <= received
    BY <1>0, <1>1, <1>2, <1>4
  <2> QED
    BY <1>6, <1>7, <1>9, <2>1, <2>2 DEF Acked
<1>11. Credits(w + a)'
  BY DEF Credits
<1> QED
  BY <1>8, <1>10, <1>11 DEF Balanced

LEMMA BalancedAfterReclaimAsym ==
  ASSUME TypeOK, Turns, NEW w \in Int, Balanced(w), build.kind = "asym", ReclaimAsym,
         ~ began[Writer], Reclaim
  PROVE  \E v \in Int : Balanced(v)'
<1>0. /\ build \in Builds /\ sent \in Nat /\ notified \in Int /\ received \in Int
      /\ recvBump = U32(sent)
  BY DEF TypeOK
<1>1. /\ Builds # {} /\ Full \in Nat /\ Full >= 2 /\ Full + MaxAhead <= Half
      /\ Half \in Nat /\ MaxAhead \in Nat /\ \A x : Signal(x) = Cut(Full, x)
  BY <1>0, FullFacts
<1>2. UNCHANGED <<build, sent, received, shadow>>
  BY DEF Reclaim
<1>3. Full' = Full /\ Lag' = Lag + 1
  BY <1>2, LagOfReclaim DEF Full
<1>a. PICK b1 \in Nat, b2 \in Nat, b3 \in Nat, b4 \in Nat :
        b1 = ackBump[1] /\ b2 = ackBump[2] /\ b3 = ackBump[3] /\ b4 = ackBump[4]
  BY DEF TypeOK
<1>b. PICK F \in Nat, n \in Int, r \in Int, s \in Int :
        F = Full /\ n = notified /\ r = received /\ s = sent
  BY <1>0, <1>1
<1>c. PICK L \in 0 .. 2 : L = Lag
  <2>1. ~ Reclaimed
    BY DEF Reclaim, Reclaimed
  <2>2. epoch3[Reader] # Inc3(epoch3[Writer])
    BY DEF Turns
  <2> QED
    BY <2>1, <2>2 DEF Lag, Ahead
<1>4. /\ b1 = ackBump[1] /\ b2 = ackBump[2] /\ b3 = ackBump[3] /\ b4 = ackBump[4]
      /\ F = Full /\ n = notified /\ r = received /\ s = sent /\ L = Lag
  BY <1>a, <1>b, <1>c
<1>5. /\ n = (IF s < w THEN s ELSE w - 1) /\ s - n <= MaxAhead /\ r <= n /\ w <= r + F
      /\ wall = U32(w)
  BY <1>4 DEF Balanced, Numbers
<1>6. PICK p0 \in Int, p \in Int :
        /\ p0 = w - F + b1 + b2 + b3 + b4
        /\ p = w - F + b1 + (IF L < 3 THEN b2 ELSE 0) + (IF L < 2 THEN b3 ELSE 0) + (IF L < 1 THEN b4 ELSE 0)
  OBVIOUS
<1>7. p0 = Published(w, 0) /\ p = Published(w, Lag)
  BY <1>4, <1>6 DEF Published
<1>8. p0 <= w - 1 /\ p0 <= n /\ p <= r
  BY <1>4, <1>7 DEF Balanced, Credits
<1>9. w + b1 <= r + F
  BY <1>6, <1>8
<1>10. /\ U32(U32(w) + b1) = U32(w + b1)
       /\ LessEq(U32(w + b1), U32(s)) <=> w + b1 <= s
       /\ s < w + b1 => U32(U32(w + b1) - 1 - U32(s)) = w + b1 - 1 - s
  <2>1. w + b1 <= r + 2^build.bits /\ build \in Builds
    BY <1>0, <1>4, <1>9 DEF Full
  <2>2. n = (IF s < w THEN s ELSE w - 1) /\ s - n <= MaxAhead /\ r <= n
    BY <1>5
  <2>3. /\ U32(U32(w) + b1) = U32(w + b1)
        /\ U32(U32(w) + b1 - 1) = U32(w + b1 - 1)
        /\ LessEq(U32(w + b1 - 1), U32(s)) <=> w + b1 - 1 <= s
        /\ LessEq(U32(w), U32(s)) <=> w <= s
        /\ LessEq(U32(w + b1), U32(s)) <=> w + b1 <= s
        /\ U32(U32(s) - U32(s)) = 0
        /\ w + b1 - 1 <= s => U32(U32(s) - U32(w + b1 - 1)) = s - (w + b1 - 1)
        /\ w + b1 <= s => U32(U32(s) - U32(w + b1)) = s - (w + b1)
        /\ s < w + b1 => U32(U32(w + b1) - 1 - U32(s)) = w + b1 - 1 - s
    BY <2>1, <2>2, Reckoning
  <2> QED
    BY <2>3
<1>11. PublishBacklog(b1) /\ wall' = U32(wall + b1)
  BY <1>4 DEF ReclaimAsym
<1>12. Numbers(w + b1)' /\ notified' >= notified
  <2>1. w + b1 <= received + Full
    BY <1>4, <1>9
  <2> QED
    BY <1>2, <1>11, <2>1, BacklogPublished DEF Balanced
<1>13. PICK m \in Int : m = notified' /\ m = (IF s < w + b1 THEN s ELSE w + b1 - 1)
  <2>1. notified' = (IF sent < w + b1 THEN sent ELSE w + b1 - 1)
    BY <1>2, <1>12 DEF Numbers
  <2>2. (IF s < w + b1 THEN s ELSE w + b1 - 1) \in Int
    OBVIOUS
  <2> QED
    BY <1>4, <2>1, <2>2
<1>14. PICK new \in Int : new = m - p0
  OBVIOUS
<1>15. new \in 0 .. F - 1
  BY <1>5, <1>6, <1>8, <1>9, <1>13, <1>14
<1>16. ackBump' = <<b2, b3, b4, new>>
  <2> DEFINE unused == IF LessEq(U32(wall + b1), recvBump) THEN 0
                       ELSE U32(U32(wall + b1) - 1 - recvBump)
  <2>1. ackBump' = <<b2, b3, b4, Signal(Full - 1 - Held - unused)>>
    BY <1>4 DEF ReclaimAsym, AfterEpoch
  <2>2. unused = w + b1 - 1 - m
    <3>1. unused = (IF w + b1 <= s THEN 0 ELSE w + b1 - 1 - s)
      BY <1>0, <1>4, <1>5, <1>10
    <3> HIDE DEF unused
    <3> QED
      BY <1>13, <3>1
  <2>3. Full - 1 - Held - unused = new
    <3>1. Held = b2 + b3 + b4
      BY <1>4 DEF Held
    <3> HIDE DEF unused
    <3>2. Full - 1 - Held - unused = F - 1 - (b2 + b3 + b4) - (w + b1 - 1 - m)
      BY <1>4, <2>2, <3>1
    <3>3. F - 1 - (b2 + b3 + b4) - (w + b1 - 1 - m) = new
      BY <1>6, <1>14
    <3> QED
      BY <3>2, <3>3
  <2>4. Cut(Full, new) = new
    <3>1. Full \in Nat \ {0} /\ new \in 0 .. Full - 1
      BY <1>1, <1>4, <1>15
    <3> QED
      BY <3>1, CutFacts
  <2> HIDE DEF unused
  <2> QED
    BY <1>1, <2>1, <2>3, <2>4
<1>17. ackBump'[1] = b2 /\ ackBump'[2] = b3 /\ ackBump'[3] = b4 /\ ackBump'[4] = new
  BY <1>16
<1>18. /\ (w + b1) - F + b2 + b3 + b4 + new = m
       /\ (w + b1) - F + b2 + (IF L + 1 < 3 THEN b3 ELSE 0) + (IF L + 1 < 2 THEN b4 ELSE 0)
             + (IF L + 1 < 1 THEN new ELSE 0) <= r
  <2>1. (w + b1) - F + b2 + b3 + b4 + new = m
    BY <1>6, <1>14
  <2>2. CASE L = 0
    BY <1>6, <1>8, <2>1, <2>2
  <2>3. CASE L = 1
    BY <1>6, <1>8, <2>1, <2>3
  <2>4. CASE L = 2
    BY <1>6, <1>8, <2>1, <2>4
  <2> QED
    BY <2>2, <2>3, <2>4
<1>19. Credits(w + b1)'
  <2>1. Published(w + b1, 0)' = (w + b1) - F + b2 + b3 + b4 + new
    BY <1>3, <1>4, <1>17 DEF Published
  <2>2. Published(w + b1, Lag)' = (w + b1) - F + b2 + (IF L + 1 < 3 THEN b3 ELSE 0)
          + (IF L + 1 < 2 THEN b4 ELSE 0) + (IF L + 1 < 1 THEN new ELSE 0)
    BY <1>3, <1>4, <1>17 DEF Published
  <2>3. m <= (w + b1) - 1
    BY <1>13
  <2>4. Published(w + b1, 0)' <= (w + b1) - 1 /\ Published(w + b1, 0)' <= notified'
        /\ Published(w + b1, Lag)' <= received'
    BY <1>2, <1>4, <1>13, <1>18, <2>1, <2>2, <2>3
  <2> QED
    BY <2>4 DEF Credits
<1>20. Acked(w + b1)'
  BY <1>2 DEF Acked
<1>21. w + b1 \in Int
  OBVIOUS
<1> QED
  BY <1>12, <1>19, <1>20, <1>21 DEF Balanced

(* A step that moves nothing of the credits and the slots.                 *)
LEMMA BalancedAside ==
  ASSUME NEW w \in Int, Balanced(w), UNCHANGED <<build, creditVars, ackSlot, slot, shadow, sent, notified, received>>,
         Lag' = Lag \/ build.kind # "asym"
  PROVE  Balanced(w)'
<1>1. Full' = Full
  BY DEF Full
<1>2. Numbers(w)'
  BY <1>1 DEF Balanced, Numbers, creditVars
<1>3. Acked(w)'
  BY <1>1 DEF Balanced, Acked, creditVars
<1>4. Credits(w)'
  <2>1. CASE build.kind # "asym"
    BY <2>1 DEF Credits
  <2>2. CASE build.kind = "asym"
    <3>1. Published(w, 0)' = Published(w, 0) /\ Published(w, Lag)' = Published(w, Lag)
      BY <1>1, <2>2 DEF Published, creditVars
    <3> QED
      BY <3>1 DEF Balanced, Credits
  <2> QED
    BY <2>1, <2>2
<1> QED
  BY <1>2, <1>3, <1>4 DEF Balanced

LEMMA BalancedAfterReclaim ==
  ASSUME TypeOK, Turns, build.kind # "epoch", NEW w \in Int, Balanced(w), Reclaim
  PROVE  \E v \in Int : Balanced(v)'
<1>1. UNCHANGED <<build, ackSlot, shadow, sent, received>>
  BY DEF Reclaim
<1>2. CASE build.kind = "sym" /\ ReclaimSym
  BY <1>1, <1>2, BalancedAfterReclaimSym
<1>3. CASE build.kind = "asym" /\ bumped(Writer) /\ ReclaimAsym
  BY <1>3, BalancedAfterReclaimAsym DEF bumped
<1>4. CASE /\ build.kind # "sym" /\ ~ bumped(Writer)
           /\ PublishNothing
           /\ UNCHANGED <<creditVars, backlogged, tailList, linked>>
  <2>1. Lag' = Lag
    BY <1>4, LagOfReclaim DEF bumped
  <2>2. UNCHANGED <<slot, notified>>
    BY <1>4 DEF PublishNothing
  <2> QED
    BY <1>1, <1>4, <2>1, <2>2, BalancedAside
<1> QED
  BY <1>2, <1>3, <1>4 DEF Reclaim

(* What the slot tells beyond the shadow is what is published and new.     *)
LEMMA NewIsPublished ==
  ASSUME TypeOK, NEW w \in Int, Balanced(w)
  PROVE  Signal(slot - shadow) = notified - received
<1>0. /\ build \in Builds /\ sent \in Nat /\ notified \in Int /\ received \in Int
  BY DEF TypeOK
<1>1. /\ Full \in Nat \ {0} /\ \A x : Signal(x) = Cut(Full, x)
  BY <1>0, FullFacts
<1>2. /\ slot = Cut(Full, notified) /\ shadow = Cut(Full, received)
      /\ notified = (IF sent < w THEN sent ELSE w - 1)
      /\ received <= notified /\ w <= received + Full
  BY DEF Balanced, Numbers
<1>3. PICK z \in Int : z = 0
  OBVIOUS
<1>4. Cut(Full, Cut(Full, notified) - Cut(Full, received) + z) = Cut(Full, notified - received + z)
  BY <1>0, <1>1, CutDifference
<1>5. slot \in Int /\ shadow \in Int
  BY <1>1 DEF TypeOK
<1>6. slot - shadow + z = slot - shadow /\ notified - received + z = notified - received
  BY <1>0, <1>3, <1>5
<1>7. notified - received \in 0 .. Full - 1
  BY <1>0, <1>1, <1>2
<1>8. Cut(Full, notified - received) = notified - received
  BY <1>1, <1>7, CutFacts
<1> QED
  BY <1>1, <1>2, <1>4, <1>6, <1>8

LEMMA BalancedAfterReceive ==
  ASSUME TypeOK, Turns, build.kind # "epoch", NEW w \in Int, Balanced(w), Receive
  PROVE  Balanced(w)'
<1>0. /\ build \in Builds /\ sent \in Nat /\ notified \in Int /\ received \in Int
  BY DEF TypeOK
<1>1. /\ Full \in Nat \ {0} /\ \A x : Signal(x) = Cut(Full, x)
  BY <1>0, FullFacts
<1>2. /\ wall = U32(w) /\ slot = Cut(Full, notified) /\ shadow = Cut(Full, received)
      /\ notified = (IF sent < w THEN sent ELSE w - 1)
      /\ sent - notified <= MaxAhead /\ received <= notified /\ w <= received + Full
  BY DEF Balanced, Numbers
<1>3. UNCHANGED <<build, Reader, creditVars, slot, sent, notified>>
  BY DEF Receive
<1>4. ReceiveCounted
  BY DEF Receive, LookNot, Look, Empty
<1>5. Full' = Full
  BY <1>3 DEF Full
<1>6. Signal(slot - shadow) = notified - received
  BY NewIsPublished
<1>7. received' = notified /\ shadow' = slot
  <2>1. received' = received + (notified - received)
    BY <1>4, <1>6 DEF ReceiveCounted
  <2> QED
    BY <1>0, <1>4, <2>1 DEF ReceiveCounted
<1>8. Numbers(w)'
  <2>1. w <= notified + Full /\ notified <= notified
    BY <1>0, <1>1, <1>2
  <2> QED
    BY <1>2, <1>3, <1>5, <1>7, <2>1 DEF Numbers, creditVars
<1>9. Acked(w)'
  <2>1. ackSlot' = ackSlot
    BY <1>4 DEF ReceiveCounted
  <2>2. ASSUME build.kind = "sym"
        PROVE  /\ w = Full + ackHead /\ ackShadow = Cut(Full, ackHead)
               /\ ackHead + Cut(Full, ackSlot - ackShadow) <= notified
    <3>1. w = Full + ackHead /\ ackShadow = Cut(Full, ackHead)
          /\ ackHead + Cut(Full, ackSlot - ackShadow) <= received
      BY <2>2 DEF Balanced, Acked
    <3>2. ackSlot - ackShadow \in Int /\ ackHead \in Int
      BY <1>1 DEF TypeOK
    <3>3. Cut(Full, ackSlot - ackShadow) \in 0 .. Full - 1
      BY <1>1, <3>2, CutFacts
    <3>4. PICK c \in Int : c = Cut(Full, ackSlot - ackShadow)
      BY <1>1, <3>3
    <3>5. ackHead + c <= notified
      BY <1>0, <1>2, <3>1, <3>2, <3>4
    <3> QED
      BY <3>1, <3>4, <3>5
  <2> QED
    BY <1>3, <1>5, <1>7, <2>1, <2>2 DEF Acked, creditVars
<1>10. Credits(w)'
  <2>1. ASSUME build.kind = "asym"
        PROVE  Published(w, 0) <= w - 1 /\ Published(w, 0) <= notified
    BY <2>1 DEF Balanced, Credits
  <2>2. Published(w, 0)' = Published(w, 0)
    BY <1>3, <1>5 DEF Published, creditVars
  <2>3. Published(w, Lag)' <= Published(w, 0)'
    <3>1. /\ ackBump'[1] \in Nat /\ ackBump'[2] \in Nat /\ ackBump'[3] \in Nat /\ ackBump'[4] \in Nat
          /\ Full' \in Nat
      BY <1>1, <1>3, <1>5 DEF TypeOK, creditVars
    <3>2. Lag' \in Int
      BY DEF Lag, Ahead
    <3> QED
      BY <3>1, <3>2 DEF Published
  <2>4. Published(w, 0)' \in Int /\ Published(w, Lag)' \in Int
    <3>1. /\ ackBump'[1] \in Nat /\ ackBump'[2] \in Nat /\ ackBump'[3] \in Nat /\ ackBump'[4] \in Nat
          /\ Full' \in Nat
      BY <1>1, <1>3, <1>5 DEF TypeOK, creditVars
    <3>2. Lag' \in Int
      BY DEF Lag, Ahead
    <3> QED
      BY <3>1, <3>2 DEF Published
  <2>5. build.kind = "asym" => Published(w, Lag)' <= notified
    BY <1>0, <2>1, <2>2, <2>3, <2>4
  <2> QED
    BY <1>3, <1>7, <2>1, <2>2, <2>5 DEF Credits
<1> QED
  BY <1>8, <1>9, <1>10 DEF Balanced

LEMMA BalancedAfterAck ==
  ASSUME TypeOK, Turns, build.kind = "sym", NEW w \in Int, Balanced(w), Ack
  PROVE  Balanced(w)'
<1>0. /\ build \in Builds /\ sent \in Nat /\ notified \in Int /\ received \in Int /\ ackHead \in Int
  BY DEF TypeOK
<1>1. Full \in Nat \ {0}
  BY <1>0, FullFacts
<1>2. /\ wall = U32(w) /\ slot = Cut(Full, notified) /\ shadow = Cut(Full, received)
      /\ notified = (IF sent < w THEN sent ELSE w - 1)
      /\ sent - notified <= MaxAhead /\ received <= notified /\ w <= received + Full
  BY DEF Balanced, Numbers
<1>3. UNCHANGED <<build, Reader, creditVars, slot, shadow, sent, notified, received>> /\ ackSlot' = shadow
  BY DEF Ack
<1>4. Full' = Full
  BY <1>3 DEF Full
<1>5. w = Full + ackHead /\ ackShadow = Cut(Full, ackHead)
      /\ ackHead + Cut(Full, ackSlot - ackShadow) <= received
  BY DEF Balanced, Acked
<1>6. received - ackHead \in 0 .. Full - 1
  <2>1. ackSlot - ackShadow \in Int
    BY <1>1 DEF TypeOK
  <2>2. Cut(Full, ackSlot - ackShadow) \in 0 .. Full - 1
    BY <1>1, <2>1, CutFacts
  <2>3. PICK c \in Nat : c = Cut(Full, ackSlot - ackShadow)
    BY <1>1, <2>2
  <2>4. ackHead + c <= received
    BY <1>5, <2>3
  <2> QED
    BY <1>0, <1>1, <1>2, <1>5, <2>4
<1>7. Cut(Full, shadow - ackShadow) = received - ackHead
  <2>1. PICK z \in Int : z = 0
    OBVIOUS
  <2>2. Cut(Full, Cut(Full, received) - Cut(Full, ackHead) + z) = Cut(Full, received - ackHead + z)
    <3>1. received \in Int /\ ackHead \in Int /\ Full \in Nat \ {0}
      BY <1>0, <1>1
    <3> QED
      BY <3>1, CutDifference
  <2>3. shadow \in Int /\ ackShadow \in Int
    BY <1>1 DEF TypeOK
  <2>4. shadow - ackShadow + z = shadow - ackShadow /\ received - ackHead + z = received - ackHead
    BY <1>0, <2>1, <2>3
  <2>5. Cut(Full, received - ackHead) = received - ackHead
    BY <1>1, <1>6, CutFacts
  <2> QED
    BY <1>2, <1>5, <2>2, <2>4, <2>5
<1>8. Numbers(w)'
  BY <1>2, <1>3, <1>4 DEF Numbers, creditVars
<1>9. Acked(w)'
  <2>1. ackHead + (received - ackHead) <= received
    BY <1>0
  <2> QED
    BY <1>3, <1>4, <1>5, <1>7, <2>1 DEF Acked, creditVars
<1>10. Credits(w)'
  BY <1>3 DEF Credits
<1> QED
  BY <1>8, <1>9, <1>10 DEF Balanced

LEMMA BalancedKept ==
  ASSUME TypeOK, Turns, build.kind # "epoch", NEW w \in Int, Balanced(w), [Next]_vars
  PROVE  \E v \in Int : Balanced(v)'
<1>1. CASE Send
  BY <1>1, BalancedAfterSend
<1>2. CASE Announce
  BY <1>2 DEF Announce, Announced
<1>3. CASE Reclaim
  BY <1>3, BalancedAfterReclaim
<1>4. CASE Receive
  BY <1>4, BalancedAfterReceive
<1>5. CASE Ack
  <2>1. CASE build.kind = "sym"
    BY <1>5, <2>1, BalancedAfterAck
  <2>2. CASE build.kind = "asym"
    <3>1. UNCHANGED <<build, creditVars, slot, shadow, sent, notified, received>>
      BY <1>5 DEF Ack
    <3>2. Full' = Full
      BY <3>1 DEF Full
    <3>3. Numbers(w)'
      BY <3>1, <3>2 DEF Balanced, Numbers, creditVars
    <3>4. Acked(w)'
      BY <2>2, <3>1 DEF Acked
    <3>5. Published(w, 0)' = Published(w, 0) /\ Published(w, Lag)' = Published(w, Lag)
      <4>1. Lag' = Lag
        BY <1>5, LagOfAck
      <4> QED
        BY <3>1, <3>2, <4>1 DEF Published, creditVars
    <3>6. Credits(w)'
      BY <3>1, <3>5 DEF Balanced, Credits
    <3> QED
      BY <3>3, <3>4, <3>6 DEF Balanced
  <2> QED
    BY <2>1, <2>2, FullFacts DEF TypeOK
<1>6. ASSUME NEW t \in Threads, ProgressBegin(t) \/ ProgressEnd(t) PROVE Balanced(w)'
  <2>1. Lag' = Lag
    BY <1>6, LagOfProgress
  <2>2. UNCHANGED <<build, creditVars, ackSlot, slot, shadow, sent, notified, received>>
    BY <1>6 DEF ProgressBegin, ProgressEnd
  <2> QED
    BY <2>1, <2>2, BalancedAside
<1>7. CASE UNCHANGED vars
  <2>1. Lag' = Lag
    BY <1>7 DEF vars, threadVars, Lag, Ahead, Reclaimed, Done
  <2> QED
    BY <1>7, <2>1, BalancedAside DEF vars
<1> QED
  BY <1>1, <1>2, <1>3, <1>4, <1>5, <1>6, <1>7 DEF Next

-----------------------------------------------------------------------------
(* Rings is kept, in the build with lists.                                 *)
LEMMA RingsAfterSend ==
  ASSUME TypeOK, Turns, build.kind = "epoch", Rings, Send
  PROVE  Rings'
<1>0. /\ epoch3 \in [{0, 1} -> {0, 1, 2}] /\ Reader \in {0, 1} /\ Writer = 0 /\ 0 \in {0, 1}
      /\ linked \in [{0, 1, 2} -> Nat] /\ live \in [{0, 1, 2} -> Nat] /\ seen \in [{0, 1, 2} -> Nat]
      /\ sent \in Nat /\ notified \in Int /\ received \in Int /\ tailList \in {0, 1, 2} /\ Lists = {0, 1, 2}
  BY DEF TypeOK, Threads, Writer, Lists
<1>1. /\ pc[Writer] \in {"user", "end"} /\ sent' = sent + 1
      /\ linked' = [linked EXCEPT ![tailList] = @ + 1]
      /\ live' = [live EXCEPT ![epoch3[Writer]] = linked[tailList] + 1]
      /\ UNCHANGED <<slot, notified, pc, epoch3, began, Reader, tailList, seen, received>>
  BY DEF Send, PublishNothing, threadVars, At
<1>2. Reclaimed
  BY <1>1 DEF Reclaimed
<1>3. (Reclaimed <=> Reclaimed') /\ (Done <=> Done')
  BY <1>1 DEF Reclaimed, Done
<1>4. tailList = epoch3[Writer] /\ live[tailList] = linked[tailList]
  BY <1>2 DEF Rings
<1>5. PICK k \in {0, 1, 2} : k = tailList
  BY <1>0
<1>6. /\ \A e \in {0, 1, 2} : live'[e] = IF e = k THEN live[e] + 1 ELSE live[e]
      /\ linked'[k] = linked[k] + 1
  <2>1. live' = [live EXCEPT ![k] = live[k] + 1] /\ linked' = [linked EXCEPT ![k] = linked[k] + 1]
    BY <1>1, <1>4, <1>5
  <2> QED
    BY <1>0, <2>1
<1>7. \A e \in Lists : seen'[e] <= live'[e]
  <2>1. \A e \in {0, 1, 2} : live[e] \in Nat /\ seen[e] \in Nat /\ seen[e] <= live[e]
    BY <1>0 DEF Rings
  <2>2. \A e \in {0, 1, 2} : live'[e] \in Int /\ live[e] <= live'[e]
    BY <1>6, <2>1
  <2> QED
    BY <1>0, <1>1, <2>1, <2>2
<1>8. received' + (live'[0] - seen'[0]) + (live'[1] - seen'[1]) + (live'[2] - seen'[2]) <= sent'
  <2>1. received + (live[0] - seen[0]) + (live[1] - seen[1]) + (live[2] - seen[2]) <= sent
    BY DEF Rings
  <2>2. PICK l0 \in Int, l1 \in Int, l2 \in Int : l0 = live[0] /\ l1 = live[1] /\ l2 = live[2]
    BY <1>0
  <2>3. live'[0] + live'[1] + live'[2] = l0 + l1 + l2 + 1 /\ live'[0] \in Int /\ live'[1] \in Int /\ live'[2] \in Int
    BY <1>6, <2>2
  <2>4. seen[0] \in Int /\ seen[1] \in Int /\ seen[2] \in Int
    BY <1>0
  <2> QED
    BY <1>0, <1>1, <2>1, <2>2, <2>3, <2>4
<1>9. notified' <= sent'
  BY <1>0, <1>1 DEF Rings
<1>10. tailList' = epoch3'[Writer] /\ live'[tailList'] = linked'[tailList']
  BY <1>1, <1>4, <1>5, <1>6
<1>11. Done' /\ epoch3'[Writer] # Inc3(epoch3'[Reader]) => live'[Inc3(epoch3'[Reader])] = 0
  <2>1. Inc3(epoch3[Reader]) \in {0, 1, 2}
    BY <1>0, Inc3Facts
  <2> QED
    BY <1>1, <1>3, <1>4, <1>5, <1>6, <2>1 DEF Rings
<1>12. epoch3'[Reader'] = Inc3(epoch3'[Writer]) => live'[epoch3'[Reader']] = 0
  <2>1. epoch3[Reader] \in {0, 1, 2} /\ Inc3(epoch3[Writer]) # epoch3[Writer]
    BY <1>0, Inc3Facts
  <2> QED
    BY <1>1, <1>4, <1>5, <1>6, <2>1 DEF Rings
<1> QED
  BY <1>1, <1>2, <1>3, <1>7, <1>8, <1>9, <1>10, <1>11, <1>12 DEF Rings

LEMMA RingsAfterReceive ==
  ASSUME TypeOK, Turns, build.kind = "epoch", Rings, Receive
  PROVE  Rings'
<1>0. /\ epoch3 \in [{0, 1} -> {0, 1, 2}] /\ began \in [{0, 1} -> BOOLEAN]
      /\ Reader \in {0, 1} /\ Writer = 0 /\ 0 \in {0, 1}
      /\ pc \in [{0, 1} -> {"user", "again", "reclaim", "receive", "ack", "end"}]
      /\ linked \in [{0, 1, 2} -> Nat] /\ live \in [{0, 1, 2} -> Nat] /\ seen \in [{0, 1, 2} -> Nat]
      /\ sent \in Nat /\ notified \in Int /\ received \in Int /\ tailList \in {0, 1, 2} /\ Lists = {0, 1, 2}
  BY DEF TypeOK, Threads, Writer, Lists
<1>1. pc[Reader] = "receive" /\ UNCHANGED <<Reader, epoch3, began, tailList, linked, sent, notified>>
  BY DEF Receive, At
<1>2. \A e \in {0, 1, 2} : live[e] \in Nat /\ seen[e] \in Nat /\ seen[e] <= live[e]
  BY <1>0 DEF Rings
<1>3. received + (live[0] - seen[0]) + (live[1] - seen[1]) + (live[2] - seen[2]) <= sent
  BY DEF Rings
<1>4. CASE LookNot
  <2>1. began[Reader]
    BY <1>4 DEF LookNot, Worthwhile, bumped
  <2>2. pc' = [pc EXCEPT ![Reader] = "end"] /\ UNCHANGED <<live, seen, received>>
    BY <1>4 DEF LookNot
  <2>3. (Reclaimed <=> Reclaimed') /\ (Done <=> Done')
    BY <1>0, <1>1, <2>1, <2>2 DEF Reclaimed, Done
  <2> QED
    BY <1>1, <2>2, <2>3 DEF Rings
<1>5. CASE Look
  <2>1. PICK k \in {0, 1, 2} : k = look
    BY <1>0, <1>5 DEF Look
  <2>2. /\ UNCHANGED <<pc, live>> /\ received' = received + (live[k] - seen[k])
        /\ seen' = [seen EXCEPT ![k] = live[k]]
    BY <1>5, <2>1 DEF Look
  <2>3. (Reclaimed <=> Reclaimed') /\ (Done <=> Done')
    BY <1>1, <2>2 DEF Reclaimed, Done
  <2>4. \A e \in {0, 1, 2} : seen'[e] = IF e = k THEN live[e] ELSE seen[e]
    BY <1>0, <2>2
  <2>5. \A e \in Lists : seen'[e] <= live'[e]
    BY <1>0, <1>2, <2>2, <2>4
  <2>6. received' + (live'[0] - seen'[0]) + (live'[1] - seen'[1]) + (live'[2] - seen'[2]) <= sent'
    <3>1. /\ live[0] \in Int /\ live[1] \in Int /\ live[2] \in Int
          /\ seen[0] \in Int /\ seen[1] \in Int /\ seen[2] \in Int
      BY <1>2
    <3>2. CASE k = 0
      BY <1>0, <1>1, <1>3, <2>2, <2>4, <3>1, <3>2
    <3>3. CASE k = 1
      BY <1>0, <1>1, <1>3, <2>2, <2>4, <3>1, <3>3
    <3>4. CASE k = 2
      BY <1>0, <1>1, <1>3, <2>2, <2>4, <3>1, <3>4
    <3> QED
      BY <3>2, <3>3, <3>4
  <2> QED
    BY <1>1, <2>2, <2>3, <2>5, <2>6 DEF Rings
<1>6. CASE Empty
  <2>0. pc' = [pc EXCEPT ![Reader] = "end"] /\ received' = received
    BY <1>6 DEF Empty
  <2>1. (Reclaimed <=> Reclaimed') /\ Done'
    BY <1>0, <1>1, <2>0 DEF Reclaimed, Done
  <2>2. CASE began[Reader]
    <3>1. \A e \in {0, 1, 2} : live'[e] = live[e] /\ seen'[e] = seen[e]
      BY <1>0, <1>6, <2>2 DEF Empty, bumped
    <3>2. Done
      BY <2>2 DEF Done
    <3>3. Inc3(epoch3[Reader]) \in {0, 1, 2} /\ epoch3[Reader] \in {0, 1, 2} /\ epoch3[Writer] \in {0, 1, 2}
      BY <1>0, Inc3Facts
    <3> QED
      BY <1>0, <1>1, <2>0, <2>1, <3>1, <3>2, <3>3 DEF Rings
  <2>3. CASE ~ began[Reader]
    <3>1. PICK k \in {0, 1, 2} : k = Inc3(epoch3[Reader])
      BY <1>0, Inc3Facts
    <3>2. \A e \in {0, 1, 2} : /\ live'[e] = IF e = k THEN 0 ELSE live[e]
                               /\ seen'[e] = IF e = k THEN 0 ELSE seen[e]
      BY <1>0, <1>6, <2>3, <3>1 DEF Empty, bumped, QuiescedList
    <3>3. k # epoch3[Writer]
      BY <2>3, <3>1 DEF Turns
    <3>4. \A e \in Lists : seen'[e] <= live'[e]
      BY <1>0, <1>2, <3>2
    <3>5. received' + (live'[0] - seen'[0]) + (live'[1] - seen'[1]) + (live'[2] - seen'[2]) <= sent'
      <4>1. /\ live[0] \in Int /\ live[1] \in Int /\ live[2] \in Int
            /\ seen[0] \in Int /\ seen[1] \in Int /\ seen[2] \in Int
            /\ seen[0] <= live[0] /\ seen[1] <= live[1] /\ seen[2] <= live[2]
        BY <1>2
      <4>2. CASE k = 0
        BY <1>0, <1>1, <1>3, <2>0, <3>2, <4>1, <4>2
      <4>3. CASE k = 1
        BY <1>0, <1>1, <1>3, <2>0, <3>2, <4>1, <4>3
      <4>4. CASE k = 2
        BY <1>0, <1>1, <1>3, <2>0, <3>2, <4>1, <4>4
      <4> QED
        BY <4>2, <4>3, <4>4
    <3>6. epoch3[Reader] \in {0, 1, 2} /\ epoch3[Writer] \in {0, 1, 2}
      BY <1>0
    <3>7. Reclaimed' => tailList' = epoch3'[Writer] /\ live'[tailList'] = linked'[tailList']
      BY <1>0, <1>1, <2>1, <3>2, <3>3 DEF Rings
    <3>8. ~ Reclaimed' => Inc3(tailList') = epoch3'[Writer] /\ live'[epoch3'[Writer]] = 0
      BY <1>0, <1>1, <2>1, <3>2, <3>6 DEF Rings
    <3>9. live'[Inc3(epoch3'[Reader'])] = 0
      BY <1>1, <3>1, <3>2
    <3>10. epoch3'[Reader'] = Inc3(epoch3'[Writer]) => live'[epoch3'[Reader']] = 0
      BY <1>0, <1>1, <3>2, <3>6 DEF Rings
    <3> QED
      BY <1>1, <2>1, <3>4, <3>5, <3>7, <3>8, <3>9, <3>10 DEF Rings
  <2> QED
    BY <2>2, <2>3
<1> QED
  BY <1>4, <1>5, <1>6 DEF Receive, ReceiveCounted

LEMMA RingsAfterProgress ==
  ASSUME TypeOK, Turns, Rings, NEW t \in Threads, ProgressBegin(t) \/ ProgressEnd(t)
  PROVE  Rings'
<1>0. /\ Reader \in {0, 1} /\ epoch3 \in [{0, 1} -> {0, 1, 2}] /\ began \in [{0, 1} -> BOOLEAN]
      /\ pc \in [{0, 1} -> {"user", "again", "reclaim", "receive", "ack", "end"}]
      /\ Writer = 0 /\ t \in {0, 1} /\ 0 \in {0, 1}
  BY DEF TypeOK, Threads, Lists, Writer
<1>1. UNCHANGED <<Reader, tailList, linked, live, seen, sent, notified, received>>
  BY DEF ProgressBegin, ProgressEnd, listVars
<1>2. (\A e \in Lists : seen'[e] <= live'[e]) /\ notified' <= sent'
      /\ received' + (live'[0] - seen'[0]) + (live'[1] - seen'[1]) + (live'[2] - seen'[2]) <= sent'
  BY <1>1 DEF Rings
<1>3. /\ Reclaimed => tailList = epoch3[Writer] /\ live[tailList] = linked[tailList]
      /\ ~ Reclaimed => Inc3(tailList) = epoch3[Writer] /\ live[epoch3[Writer]] = 0
      /\ Done /\ epoch3[Writer] # Inc3(epoch3[Reader]) => live[Inc3(epoch3[Reader])] = 0
      /\ epoch3[Reader] = Inc3(epoch3[Writer]) => live[epoch3[Reader]] = 0
  BY DEF Rings
<1>4. CASE epoch3' = epoch3 /\ (Reclaimed <=> Reclaimed') /\ (Done <=> Done')
  BY <1>1, <1>2, <1>3, <1>4 DEF Rings
<1>5. CASE ProgressBegin(t)
  <2>1. /\ pc[t] \in {"user", "again"} /\ began[t]
        /\ pc' = [pc EXCEPT ![t] = IF t = Writer THEN "reclaim"
                                   ELSE IF t = Reader THEN "receive" ELSE "end"]
    BY <1>0, <1>5 DEF ProgressBegin, At, Turns, AfterBegin, AfterReclaim, Threads
  <2>2. CASE EpochBarrier!EveryoneBegan(t)
    <3>1. epoch3' = [epoch3 EXCEPT ![t] = Inc3(@)] /\ began' = [began EXCEPT ![t] = FALSE]
      BY <1>5, <2>2 DEF ProgressBegin
    <3>2. \A u \in {0, 1} : \/ epoch3[u] = epoch3[t] /\ began[u]
                            \/ epoch3[u] = Inc3(epoch3[t])
      BY <2>2, EveryoneBeganMeans DEF Threads
    <3>3. \A u \in {0, 1} : u # t => epoch3'[u] = epoch3[u] /\ (began'[u] <=> began[u]) /\ pc'[u] = pc[u]
      BY <1>0, <2>1, <3>1
    <3>4. /\ epoch3'[t] = Inc3(epoch3[t]) /\ ~ began'[t]
          /\ pc'[t] = (IF t = Writer THEN "reclaim" ELSE IF t = Reader THEN "receive" ELSE "end")
      BY <1>0, <2>1, <3>1
    <3>5. CASE t = Writer
      <4>1. Reclaimed /\ ~ Reclaimed'
        BY <1>0, <2>1, <3>4, <3>5 DEF Reclaimed
      <4>2. Inc3(tailList) = epoch3'[Writer]
        BY <1>3, <3>4, <3>5, <4>1
      <4>3. live[epoch3'[Writer]] = 0
        <5>1. CASE epoch3[Reader] = epoch3[Writer] /\ began[Reader]
          <6>1. Done /\ epoch3[Writer] # Inc3(epoch3[Reader])
            BY <1>0, <5>1, Inc3Facts DEF Done
          <6> QED
            BY <1>3, <3>4, <3>5, <5>1, <6>1
        <5>2. CASE epoch3[Reader] = Inc3(epoch3[Writer])
          BY <1>3, <3>4, <3>5, <5>2
        <5> QED
          BY <1>0, <3>2, <3>5, <5>1, <5>2
      <4>4. Done' /\ epoch3'[Writer] # Inc3(epoch3'[Reader]) => live[Inc3(epoch3'[Reader])] = 0
        <5>1. CASE Reader = Writer
          BY <1>0, <1>1, <3>4, <3>5, <5>1 DEF Done
        <5>2. CASE Reader # Writer
          <6>1. (Done <=> Done') /\ epoch3'[Reader] = epoch3[Reader]
            BY <1>0, <1>1, <3>3, <3>5, <5>2 DEF Done
          <6>2. epoch3[Reader] = epoch3[Writer] => epoch3'[Writer] = Inc3(epoch3'[Reader])
            BY <3>4, <3>5, <6>1
          <6>3. epoch3[Reader] = Inc3(epoch3[Writer]) => epoch3[Writer] # Inc3(epoch3[Reader])
            BY <1>0, Inc3Facts
          <6> QED
            BY <1>0, <1>3, <3>2, <3>5, <6>1, <6>2, <6>3
        <5> QED
          BY <5>1, <5>2
      <4>5. epoch3'[Reader] # Inc3(epoch3'[Writer])
        <5>1. \A e \in {0, 1, 2} : e # Inc3(e) /\ e # Inc3(Inc3(e)) /\ Inc3(e) \in {0, 1, 2}
          BY Inc3Facts
        <5> QED
          BY <1>0, <3>2, <3>3, <3>4, <3>5, <5>1
      <4> QED
        BY <1>1, <1>2, <4>1, <4>2, <4>3, <4>4, <4>5 DEF Rings
    <3>6. CASE t # Writer /\ t = Reader
      <4>1. ~ Done'
        BY <1>0, <1>1, <3>4, <3>6 DEF Done
      <4>2. (Reclaimed <=> Reclaimed') /\ epoch3'[Writer] = epoch3[Writer]
        BY <1>0, <3>3, <3>6 DEF Reclaimed
      <4>3. epoch3'[Reader] = Inc3(epoch3'[Writer]) => live[epoch3'[Reader]] = 0
        <5>1. CASE epoch3[Writer] = epoch3[Reader]
          <6>1. Done /\ epoch3[Writer] # Inc3(epoch3[Reader])
            BY <1>0, <2>1, <3>6, <5>1, Inc3Facts DEF Done
          <6> QED
            BY <1>3, <3>4, <3>6, <6>1
        <5>2. CASE epoch3[Writer] = Inc3(epoch3[Reader])
          <6>1. epoch3'[Reader] # Inc3(epoch3'[Writer])
            BY <1>0, <3>4, <3>6, <4>2, <5>2, Inc3Facts
          <6> QED
            BY <6>1
        <5> QED
          BY <1>0, <3>2, <3>6, <5>1, <5>2
      <4> QED
        BY <1>1, <1>2, <1>3, <4>1, <4>2, <4>3 DEF Rings
    <3>7. CASE t # Writer /\ t # Reader
      <4>1. (Reclaimed <=> Reclaimed') /\ epoch3'[Writer] = epoch3[Writer] /\ epoch3'[Reader] = epoch3[Reader]
        BY <1>0, <3>3, <3>7 DEF Reclaimed
      <4>2. Done <=> Done'
        BY <1>0, <1>1, <3>3, <3>7 DEF Done
      <4> QED
        BY <1>1, <1>2, <1>3, <4>1, <4>2 DEF Rings
    <3> QED
      BY <3>5, <3>6, <3>7
  <2>3. CASE ~ EpochBarrier!EveryoneBegan(t)
    <3>1. epoch3' = epoch3 /\ began' = began
      BY <1>5, <2>3 DEF ProgressBegin
    <3>2. /\ Reclaimed <=> Reclaimed'
          /\ Done <=> Done'
      BY <1>0, <1>1, <2>1, <3>1 DEF Reclaimed, Done
    <3> QED
      BY <1>4, <3>1, <3>2
  <2> QED
    BY <2>2, <2>3
<1>6. CASE ProgressEnd(t)
  <2>1. /\ epoch3' = epoch3 /\ pc[t] = "end"
        /\ pc' = [pc EXCEPT ![t] = IF t = Writer /\ backlogged THEN "again" ELSE "user"]
        /\ began' = [began EXCEPT ![t] = TRUE]
    BY <1>6 DEF ProgressEnd, At
  <2>2. \A u \in {0, 1} : (u # t => (began'[u] <=> began[u]) /\ pc'[u] = pc[u]) /\ (u = t => began'[u])
    BY <1>0, <2>1
  <2>3. /\ Reclaimed <=> Reclaimed'
        /\ Done <=> Done'
    BY <1>0, <1>1, <2>1, <2>2 DEF Reclaimed, Done
  <2> QED
    BY <1>4, <2>1, <2>3
<1> QED
  BY <1>5, <1>6

LEMMA RingsKept ==
  ASSUME TypeOK, Turns, build.kind = "epoch", Rings, [Next]_vars
  PROVE  Rings'
<1>0. /\ Reader \in {0, 1} /\ epoch3 \in [{0, 1} -> {0, 1, 2}] /\ began \in [{0, 1} -> BOOLEAN]
      /\ pc \in [{0, 1} -> {"user", "again", "reclaim", "receive", "ack", "end"}]
      /\ Writer = 0 /\ 0 \in {0, 1} /\ sent \in Nat /\ build \in Builds /\ recvBump = U32(sent)
      /\ linked \in [{0, 1, 2} -> Nat]
  BY DEF TypeOK, Threads, Lists, Writer
<1>1. CASE Send
  BY <1>1, RingsAfterSend
<1>2. CASE Announce
  <2>1. notified' = sent - U32(recvBump - recvBump)
    BY <1>2 DEF Announce, Publish
  <2>2. Builds # {} /\ Half \in Nat
    BY <1>0, FullFacts
  <2>3. recvBump - recvBump = 0 /\ sent - sent = 0 /\ 0 \in 0 .. Half
    <3>1. recvBump \in Nat
      BY <1>0, <2>2, WrapType
    <3> QED
      BY <1>0, <2>2, <3>1
  <2>4. U32(recvBump - recvBump) = 0
    <3>1. sent \in Int /\ sent - sent \in 0 .. Half
      BY <1>0, <2>3
    <3>2. U32(U32(sent) - U32(sent)) = sent - sent
      BY <2>2, <3>1, Distance0
    <3> QED
      BY <1>0, <2>3, <3>2
  <2>5. notified' <= sent
    BY <1>0, <2>1, <2>4
  <2>6. UNCHANGED <<Reader, pc, epoch3, began, tailList, linked, live, seen, sent, received>>
    BY <1>2 DEF Announce, threadVars, listVars
  <2>7. (Reclaimed <=> Reclaimed') /\ (Done <=> Done')
    BY <2>6 DEF Reclaimed, Done
  <2> QED
    BY <2>5, <2>6, <2>7 DEF Rings
<1>3. CASE Reclaim
  <2>1. /\ pc[Writer] = "reclaim" /\ UNCHANGED <<Reader, epoch3, began, live, seen, sent, received>>
        /\ pc' = [pc EXCEPT ![Writer] = IF Writer = Reader THEN "receive" ELSE "end"]
    BY <1>3 DEF Reclaim, AfterReclaim
  <2>2. Done <=> Done'
    BY <1>0, <2>1 DEF Done
  <2>3. (Reclaimed <=> began[Writer]) /\ Reclaimed'
    BY <1>0, <2>1 DEF Reclaimed
  <2>4. CASE ~ began[Writer]
    <3>1. ReclaimEpoch
      BY <1>3, <2>4 DEF Reclaim, bumped
    <3>2. tailList' = epoch3[Writer] /\ linked' = [linked EXCEPT ![epoch3[Writer]] = 0] /\ notified' = notified
      BY <3>1 DEF ReclaimEpoch, PublishNothing
    <3>3. live[epoch3[Writer]] = 0
      BY <2>3, <2>4 DEF Rings
    <3>4. linked'[epoch3[Writer]] = 0
      BY <1>0, <3>2
    <3> QED
      BY <2>1, <2>2, <2>3, <3>2, <3>3, <3>4 DEF Rings
  <2>5. CASE began[Writer]
    <3>1. UNCHANGED <<tailList, linked, notified>>
      BY <1>3, <2>5 DEF Reclaim, bumped, PublishNothing
    <3> QED
      BY <2>1, <2>2, <2>3, <2>5, <3>1 DEF Rings
  <2> QED
    BY <2>4, <2>5
<1>4. CASE Receive
  BY <1>4, RingsAfterReceive
<1>5. CASE Ack
  <2>1. /\ UNCHANGED <<Reader, epoch3, began, tailList, linked, live, seen, sent, notified, received>>
        /\ pc[Reader] = "ack" /\ pc' = [pc EXCEPT ![Reader] = "end"]
    BY <1>5 DEF Ack, listVars
  <2>2. (Reclaimed <=> Reclaimed') /\ (Done <=> Done')
    BY <1>0, <2>1 DEF Reclaimed, Done
  <2> QED
    BY <2>1, <2>2 DEF Rings
<1>6. ASSUME NEW t \in Threads, ProgressBegin(t) \/ ProgressEnd(t) PROVE Rings'
  BY <1>6, RingsAfterProgress
<1>7. CASE UNCHANGED vars
  BY <1>7 DEF vars, threadVars, listVars, Rings, Reclaimed, Done
<1> QED
  BY <1>1, <1>2, <1>3, <1>4, <1>5, <1>6, <1>7 DEF Next

-----------------------------------------------------------------------------
LEMMA InvInit == Init => Inv
<1> SUFFICES ASSUME Init PROVE Inv
  OBVIOUS
<1>1. build \in Builds
  BY DEF Init
<1>2. /\ Builds # {} /\ Full \in Nat \ {0} /\ Full >= 2 /\ Full + MaxAhead <= Half
      /\ Half \in Nat /\ MaxAhead \in Nat
  BY <1>1, FullFacts
<1>3. U32(0) = 0
  <2>1. 0 - 0 = 0 /\ 0 \in 0 .. Half /\ 0 \in Int
    BY <1>2
  <2>2. U32(U32(0) - U32(0)) = 0 - 0
    BY <1>2, <2>1, Distance0
  <2>3. U32(0) \in Nat
    BY <1>2, <2>1, WrapType
  <2>4. U32(0) - U32(0) = 0
    BY <2>3
  <2> QED
    BY <2>1, <2>2, <2>4
<1>4. U32(Full) = Full
  <2>1. Full - 0 = Full /\ Full \in 0 .. Half /\ 0 \in Int /\ Full \in Int
    BY <1>2
  <2>2. U32(U32(Full) - U32(0)) = Full - 0
    BY <1>2, <2>1, Distance0
  <2>3. U32(Full) \in Nat /\ U32(U32(Full) + 0) = U32(Full + 0)
    BY <1>2, <2>1, WrapType, Wrap
  <2>4. U32(Full) - U32(0) = U32(Full) /\ U32(Full) + 0 = U32(Full) /\ Full + 0 = Full
    BY <1>2, <1>3, <2>3
  <2>5. U32(U32(Full)) = Full
    BY <2>1, <2>2, <2>4
  <2> QED
    BY <2>3, <2>4, <2>5
<1>5. Cut(Full, 0) = 0
  <2>1. 0 \in 0 .. Full - 1
    BY <1>2
  <2> QED
    BY <1>2, <2>1, CutFacts
<1>6. TypeOK
  BY <1>1, <1>2, <1>3 DEF Init, TypeOK, Lists
<1>7. Turns
  BY Inc3Facts DEF Init, Turns, Threads, Writer
<1>8. Reclaimed /\ Done /\ epoch3[Reader] = 0 /\ epoch3[Writer] = 0
  BY DEF Init, Reclaimed, Done, Threads, Writer
<1>9. Rings
  BY <1>8, Inc3Facts DEF Init, Rings, Lists
<1>10. Balanced(Full)
  <2>1. Numbers(Full)
    BY <1>2, <1>4, <1>5 DEF Init, Numbers
  <2>2. Acked(Full)
    BY <1>2, <1>5 DEF Init, Acked
  <2>3. Credits(Full)
    <3>1. Lag = 1
      BY <1>8, Inc3Facts DEF Lag, Ahead
    <3>2. Published(Full, 0) = 0 /\ Published(Full, Lag) = 0
      BY <1>2, <3>1 DEF Init, Published
    <3> QED
      BY <1>2, <3>2 DEF Init, Credits
  <2> QED
    BY <2>1, <2>2, <2>3 DEF Balanced
<1> QED
  BY <1>2, <1>6, <1>7, <1>9, <1>10 DEF Inv

LEMMA InvNext == Inv /\ [Next]_vars => Inv'
<1> SUFFICES ASSUME Inv, [Next]_vars PROVE Inv'
  OBVIOUS
<1>1. TypeOK /\ Turns
  BY DEF Inv
<1>2. build' = build
  BY DEF Next, vars, Send, Announce, Reclaim, Receive, Ack, ProgressBegin, ProgressEnd
<1>3. TypeOK' /\ Turns'
  BY <1>1, Typed, TurnsKept
<1>4. build.kind = "epoch" => Rings'
  BY <1>1, RingsKept DEF Inv
<1>5. build.kind # "epoch" => \E w \in Int : Balanced(w)'
  <2>1. ASSUME build.kind # "epoch" PROVE \E w \in Int : Balanced(w)'
    <3>1. PICK w \in Int : Balanced(w)
      BY <2>1 DEF Inv
    <3> QED
      BY <1>1, <2>1, <3>1, BalancedKept
  <2> QED
    BY <2>1
<1> QED
  BY <1>2, <1>3, <1>4, <1>5 DEF Inv

(* The invariant holds for as long as writer and reader run.               *)
THEOREM Invariance == Spec => []Inv
  BY InvInit, InvNext, PTL DEF Spec

-----------------------------------------------------------------------------
(* What the slot shows the reader as new is exactly what has been          *)
(* published and not executed, however often slot and recv_bump have gone  *)
(* round: signal_slots::reap never counts too few or too many.             *)
THEOREM NeverLapsTheReader == Spec => []NeverLapped
<1>1. Inv => NeverLapped
  <2> SUFFICES ASSUME Inv PROVE NeverLapped
    OBVIOUS
  <2>1. TypeOK
    BY DEF Inv
  <2>2. CASE build.kind = "epoch"
    <3>1. Rings
      BY <2>2 DEF Inv
    <3>2. \A e \in {0, 1, 2} : live[e] \in Nat /\ seen[e] \in Nat /\ seen[e] <= live[e]
      BY <2>1, <3>1 DEF TypeOK, Rings, Lists
    <3>3. received + (live[0] - seen[0]) + (live[1] - seen[1]) + (live[2] - seen[2]) <= sent
          /\ notified <= sent /\ received \in Int /\ sent \in Int
      BY <2>1, <3>1 DEF TypeOK, Rings
    <3>4. received <= sent
      BY <3>2, <3>3
    <3> QED
      BY <2>2, <3>3, <3>4 DEF NeverLapped
  <2>3. CASE build.kind # "epoch"
    <3>1. PICK w \in Int : Balanced(w)
      BY <2>3 DEF Inv
    <3>2. Signal(slot - shadow) = notified - received
      BY <2>1, <3>1, NewIsPublished
    <3>3. /\ sent \in Nat /\ notified \in Int /\ received \in Int
          /\ notified = (IF sent < w THEN sent ELSE w - 1) /\ received <= notified
      BY <2>1, <3>1 DEF TypeOK, Balanced, Numbers
    <3>4. received <= sent /\ notified <= sent
      BY <3>3
    <3> QED
      BY <3>2, <3>3, <3>4 DEF NeverLapped
  <2> QED
    BY <2>2, <2>3
<1> QED
  BY <1>1, Invariance, PTL

(* reclaim moves the wall only for messages that the reader has executed,  *)
(* although in the asym build it infers that from epochs alone; and the    *)
(* assertion of reclaim on recv_bump_wall holds.                           *)
THEOREM CreditsAreEarned == Spec => []CreditsEarned
<1>1. Inv => CreditsEarned
  <2> SUFFICES ASSUME Inv, build.kind # "epoch" PROVE CreditsEarned
    BY DEF CreditsEarned
  <2>1. TypeOK
    BY DEF Inv
  <2>2. PICK w \in Int : Balanced(w)
    BY DEF Inv
  <2>3. /\ wall = U32(w) /\ notified = (IF sent < w THEN sent ELSE w - 1)
        /\ sent - notified <= MaxAhead /\ received <= notified /\ w <= received + Full
        /\ recvBump = U32(sent) /\ sent \in Int /\ notified \in Int /\ received \in Int
        /\ build \in Builds
    BY <2>1, <2>2 DEF TypeOK, Balanced, Numbers
  <2>4. /\ Builds # {} /\ Full \in Nat /\ Full >= 2 /\ Full + MaxAhead <= Half
        /\ Half \in Nat /\ MaxAhead \in Nat
    BY <2>3, FullFacts
  <2>5. Wall = w
    <3>1. Less(U32(sent), U32(w)) <=> sent < w
      <4>1. w - sent - 1 < Half /\ sent - w + 1 <= Half
        BY <2>3, <2>4
      <4> QED
        BY <2>3, <2>4, <4>1, Comparisons
    <3>2. CASE sent < w
      <4>1. w - sent \in 0 .. Half
        BY <2>3, <2>4, <3>2
      <4>2. U32(U32(w) - U32(sent)) = w - sent
        BY <2>3, <2>4, <4>1, Distance0
      <4>3. Wall = sent + (w - sent)
        BY <2>3, <3>1, <3>2, <4>2 DEF Wall
      <4> QED
        BY <2>3, <4>3
    <3>3. CASE ~ (sent < w)
      <4>1. sent - w \in 0 .. Half
        BY <2>3, <2>4, <3>3
      <4>2. U32(U32(sent) - U32(w)) = sent - w
        BY <2>3, <2>4, <4>1, Distance0
      <4>3. Wall = sent - (sent - w)
        BY <2>3, <3>1, <3>3, <4>2 DEF Wall
      <4> QED
        BY <2>3, <4>3
    <3> QED
      BY <3>2, <3>3
  <2>6. ASSUME build.kind = "asym" PROVE ackBump[1] + Held <= Full - 1
    <3>1. Published(w, 0) <= w - 1
      BY <2>2, <2>6 DEF Balanced, Credits
    <3>2. w - Full + ackBump[1] + ackBump[2] + ackBump[3] + ackBump[4] <= w - 1
      BY <3>1 DEF Published
    <3>3. ackBump[1] \in Int /\ ackBump[2] \in Int /\ ackBump[3] \in Int /\ ackBump[4] \in Int
      BY <2>1 DEF TypeOK
    <3> QED
      BY <2>4, <3>2, <3>3 DEF Held
  <2>7. LessEq(U32(wall - Full), recvBump)
    <3>1. PICK x \in Int, y \in Int : x = w - Full /\ y = -Full
      BY <2>4
    <3>2. U32(U32(w) + y) = U32(w + y)
      BY <2>4, Wrap
    <3>3. U32(w) \in Nat
      BY <2>4, WrapType
    <3>4. wall - Full = U32(w) + y /\ w + y = x
      BY <2>3, <2>4, <3>1, <3>3
    <3>5. sent - x < Half /\ x - sent <= Half /\ x <= sent
      BY <2>3, <2>4, <3>1
    <3>6. LessEq(U32(x), U32(sent)) <=> x <= sent
      BY <2>3, <2>4, <3>5, Comparisons
    <3> QED
      BY <2>3, <3>2, <3>4, <3>5, <3>6
  <2> QED
    BY <2>3, <2>5, <2>6, <2>7 DEF CreditsEarned
<1> QED
  BY <1>1, Invariance, PTL

(* reclaim frees no message that the reader stands on, and the reader sees *)
(* in a list nothing that the writer has not linked since it began it.     *)
THEOREM NoMessageIsStale == Spec => []NoStaleMessage
<1>1. Inv => NoStaleMessage
  <2> SUFFICES ASSUME Inv PROVE NoStaleMessage
    OBVIOUS
  <2>1. TypeOK
    BY DEF Inv
  <2>2. ASSUME build.kind = "sym" PROVE ackHead <= received
    <3>1. PICK w \in Int : Balanced(w)
      BY <2>2 DEF Inv
    <3>2. ackHead + Cut(Full, ackSlot - ackShadow) <= received
      BY <2>2, <3>1 DEF Balanced, Acked
    <3>3. Full \in Nat \ {0}
      BY <2>1, FullFacts DEF TypeOK
    <3>4. ackSlot - ackShadow \in Int /\ ackHead \in Int /\ received \in Int
      BY <2>1, <3>3 DEF TypeOK
    <3>5. Cut(Full, ackSlot - ackShadow) \in 0 .. Full - 1
      BY <3>3, <3>4, CutFacts
    <3>6. PICK c \in Nat : c = Cut(Full, ackSlot - ackShadow)
      BY <3>3, <3>5
    <3> QED
      BY <3>2, <3>4, <3>6
  <2>3. ASSUME build.kind = "epoch"
        PROVE  /\ \A e \in Lists : seen[e] <= live[e]
               /\ tailList = epoch3[Writer] => live[tailList] = linked[tailList]
    <3>1. Rings
      BY <2>3 DEF Inv
    <3>2. tailList \in {0, 1, 2}
      BY <2>1 DEF TypeOK, Lists
    <3>3. Inc3(tailList) # tailList
      BY <3>2, Inc3Facts
    <3> QED
      BY <3>1, <3>3 DEF Rings
  <2> QED
    BY <2>2, <2>3 DEF NoStaleMessage
<1> QED
  BY <1>1, Invariance, PTL
=============================================================================
