------------------------ MODULE MpscChannelProofs ------------------------
(***************************************************************************)
(* Proofs about MpscChannel for any number of threads, any choice of       *)
(* builds, any number of messages and any number of arena epochs from      *)
(* three on: NoFreedMessage and InOrder hold always.  The invariant is     *)
(* about each rail as one sequence of messages that only grows, although   *)
(* its links are stored in any order and its memory is used again.         *)
(***************************************************************************)
EXTENDS MpscChannel, NumberFacts, SequenceTheorems

-----------------------------------------------------------------------------
(* A rail as a sequence that only grows.  A witness w of a rail holds its  *)
(* messages by their number, item, and four places in it: lo, behind which *)
(* nothing has been given back; at, how far the reader has executed; cut,  *)
(* how far it will read in this receive; and end, the last message.  The   *)
(* message at lo is followed from the link base, and the one at cut from   *)
(* head, which is not its own link if the list has been moved.             *)
Witnesses ==
  [item : [Nat -> Msgs], lo : Nat, at : Nat, cut : Nat, end : Nat, base : Links, head : Links]

(* The link by which place n is reached, the one followed from there, and  *)
(* whether its message is still held.                                      *)
ReachedBy(w, n) == IF n = w.lo THEN w.base ELSE LinkOf(w.item[n])
Leaves(w, n) == IF n = w.cut THEN w.head ELSE ReachedBy(w, n)
Held(w, n) == n \in w.lo .. w.end /\ (n = w.lo => w.base = LinkOf(w.item[n]))

Ordered(w) == w.lo <= w.at /\ w.at <= w.cut /\ w.cut <= w.end

(* Thread u is about to link a message up on rail r of channel t.          *)
Sends(u, t, r) == pending[u] # NoSend /\ u % build.rails = r /\ stamp[pending[u].msg].to = t
Gap(w, n, u) == /\ link[Leaves(w, n)] = Null
                /\ pending[u] = [old |-> Leaves(w, n), msg |-> w.item[n + 1]]

(* Behind the reader every link is stored; ahead of it, stored or a gap of *)
(* the writer that is to store it. The last one is null.                   *)
LinksOK(t, r, w) ==
  /\ \A n \in w.lo .. w.at - 1 : link[Leaves(w, n)] = w.item[n + 1]
  /\ \A n \in w.at .. w.end - 1 : link[Leaves(w, n)] = w.item[n + 1] \/ \E u \in Threads : Gap(w, n, u)
  /\ link[Leaves(w, w.end)] = Null
  /\ \A u \in Threads : Sends(u, t, r) => \E n \in w.at .. w.end - 1 : Gap(w, n, u)

By(w, n) == stamp[w.item[n]].by
No(w, n) == stamp[w.item[n]].no

(* What is held was sent on this rail, in order, and beyond the reader are *)
(* all the messages it has not executed.                                   *)
StampsOK(t, r, w) ==
  /\ \A n \in Nat : Held(w, n) =>
       /\ stamp[w.item[n]] # Freed /\ stamp[w.item[n]].to = t
       /\ By(w, n) \in Threads /\ By(w, n) % build.rails = r
       /\ No(w, n) \in 1 .. sent[By(w, n)][t]
  /\ \A m, n \in Nat : Held(w, m) /\ Held(w, n) /\ m < n /\ By(w, m) = By(w, n) => No(w, m) < No(w, n)
  /\ \A n \in w.at + 1 .. w.end : No(w, n) > got[t][By(w, n)]
  /\ \A u \in Threads : u % build.rails = r =>
       /\ got[t][u] <= sent[u][t]
       /\ \A k \in got[t][u] + 1 .. sent[u][t] :
          \E n \in w.at + 1 .. w.end : By(w, n) = u /\ No(w, n) = k

(* In the epoch build, while t reads what was sent before it moved the     *)
(* list.                                                                   *)
Reading(t) == pc[t] \in {"take", "give"}
Moved(t) == Rehead(t) /\ Reading(t)
BaseHead(t, r) == HeadLink(t, r, IF began[t] THEN epoch[t] % 2 ELSE 1 - (epoch[t] % 2))

(* Where the variables of the reader and the tail point to.                *)
PlacesOK(t, r, w) ==
  /\ headp[t][r] = w.head /\ tailp[t][r] = Leaves(w, w.end)
  /\ w.base \in {LinkOf(w.item[w.lo]), BaseHead(t, r)}
  /\ w.head = IF Moved(t) THEN NextHead(t, r) ELSE ReachedBy(w, w.cut)
  /\ pc[t] = "take" => /\ from[t][r] = ReachedBy(w, w.at)
                       /\ IF build.late THEN given[t][r] = w.base ELSE w.lo = w.at
  /\ pc[t] = "give" => w.at = w.cut /\ given[t][r] = w.base
  /\ IF Reading(t) THEN upto[t][r] = ReachedBy(w, w.cut) ELSE w.lo = w.cut
  /\ build.kind = "asym" =>
       owner[t][r] = IF w.base = LinkOf(w.item[w.lo]) THEN w.item[w.lo] ELSE Null

(* How far u is ahead of t.                                                *)
After(e) == EpochBarrier!After(e)
Lead(u, t) == IF epoch[u] = epoch[t] THEN 0 ELSE IF epoch[u] = After(epoch[t]) THEN 1 ELSE -1

(* epoch: a held message has aged by one epoch more than its writer is     *)
(* ahead of the reader, or by two while the reader ends its own.           *)
AgesOK(t, w) ==
  build.kind = "epoch" => \A n \in Nat : Held(w, n) =>
     age[w.item[n]] <= Lead(By(w, n), t)
                       + IF bumped(t) /\ (Reading(t) => n <= w.cut) THEN 2 ELSE 1

RailOK(t, r, w) ==
  /\ Ordered(w) /\ LinksOK(t, r, w) /\ StampsOK(t, r, w) /\ PlacesOK(t, r, w) /\ AgesOK(t, w)

(* Every variable has its type.                                            *)
TypeOK ==
  /\ build \in Builds
  /\ pc \in [Threads -> {"user", "reclaim", "receive", "take", "give"}]
  /\ link \in [Links -> Msgs \cup {Null, Mark}]
  /\ {tailp, headp} \subseteq [Threads -> [Rails -> Links]]
  /\ {from, upto, given} \subseteq [Threads -> [Rails -> Links \cup {<<>>}]]
  /\ owner \in [Threads -> [Rails -> Msgs \cup {Null}]]
  /\ pending \in [Threads -> [old : Links, msg : Msgs] \cup {NoSend}]
  /\ sentNext \in [SentLinks -> Msgs \cup {Null}]
  /\ {sentTail, scan} \subseteq [Threads -> SentLinks] /\ keeps \in [Threads -> Nat]
  /\ epoch \in [Threads -> 0 .. 3] /\ began \in [Threads -> BOOLEAN]
  /\ age \in [Msgs -> Nat]
  /\ stamp \in [Msgs -> [by : Threads, to : Threads, no : Nat \ {0}] \cup {Freed}]
  /\ {sent, got} \subseteq [Threads -> [Threads -> Nat]]

(* Free memory is clear, and what a writer is about to link up is not      *)
(* free.                                                                   *)
MemoryOK ==
  /\ \A m \in Msgs \ live : link[LinkOf(m)] = Null /\ age[m] = 0
  /\ \A u \in Threads : pending[u] # NoSend =>
       pending[u].msg \in live /\ stamp[pending[u].msg].by = u

(* No thread is further than an epoch from another.                        *)
EpochsOK ==
  /\ \A t \in Threads :
       /\ bumped(t) => build.kind = "epoch" /\ pc[t] \in {"receive", "take", "give"}
       /\ build.kind # "epoch" => epoch[t] = 0
       /\ pc[t] = "reclaim" => build.kind = "sym"
       /\ pc[t] = "give" => build.late
  /\ \A t, u \in Threads : \/ epoch[t] = epoch[u]
                           \/ epoch[t] = After(epoch[u]) /\ began[u]
                           \/ epoch[u] = After(epoch[t]) /\ began[t]

RailsOK == \A t \in Threads, r \in Rails : \E w \in Witnesses : RailOK(t, r, w)

IInv == TypeOK /\ MemoryOK /\ EpochsOK /\ RailsOK

-----------------------------------------------------------------------------
(* What the constants are.                                                 *)
LEMMA BuildFacts ==
  ASSUME TypeOK
  PROVE  /\ build.rails \in Nat \ {0} /\ build.late \in BOOLEAN
         /\ build.kind \in {"sym", "asym", "epoch"}
         /\ Rails = 0 .. build.rails - 1 /\ Rails \subseteq Nat
         /\ MaxLive \in Nat \ {0} /\ MsgEpochs \in Nat /\ MsgEpochs >= 3
         /\ Threads \subseteq Nat
         /\ \A t \in Threads : t % build.rails \in Rails
<1>1. build \in Builds
  BY DEF TypeOK
<1>2. /\ build.rails \in Nat \ {0} /\ build.late \in BOOLEAN
      /\ build.kind \in {"sym", "asym", "epoch"}
  BY <1>1, ConstantsAssumption
<1>3. /\ MaxLive \in Nat \ {0} /\ MsgEpochs \in Nat /\ MsgEpochs >= 3
  BY ConstantsAssumption
<1>4. Threads \subseteq Nat
  <2>1. IsFiniteSet(Threads) /\ Threads = 0 .. Cardinality(Threads) - 1
    BY ConstantsAssumption
  <2>2. Cardinality(Threads) \in Nat
    BY <2>1, FS_CardinalityType
  <2> DEFINE n == Cardinality(Threads) - 1
  <2>3. n \in Int /\ Threads = 0 .. n
    BY <2>1, <2>2
  <2> HIDE DEF n
  <2> QED
    BY <2>3
<1>5. Rails = 0 .. build.rails - 1 /\ Rails \subseteq Nat
  BY <1>2 DEF Rails
<1>6. ASSUME NEW t \in Threads PROVE t % build.rails \in Rails
  <2>1. t \in Int
    BY <1>4
  <2> DEFINE n == build.rails
  <2>2. n \in Nat \ {0}
    BY <1>2
  <2> HIDE DEF n
  <2>3. t % n \in 0 .. n - 1
    BY <2>1, <2>2, Division
  <2> QED
    BY <2>3, <1>5 DEF n
<1> QED
  BY <1>2, <1>3, <1>4, <1>5, <1>6

(* Links of messages and heads are all different.                          *)
LEMMA LinkFacts ==
  /\ \A m, k : LinkOf(m) = LinkOf(k) => m = k
  /\ \A m, t, r, i : LinkOf(m) # HeadLink(t, r, i)
  /\ \A t, r, i, u, q, j : HeadLink(t, r, i) = HeadLink(u, q, j) => t = u /\ r = q /\ i = j
  /\ \A m : LinkOf(m) # <<>> /\ m = LinkOf(m)[1] /\ Len(LinkOf(m)) = 1
  /\ \A t, r, i : HeadLink(t, r, i) # <<>> /\ Len(HeadLink(t, r, i)) = 3 /\ HeadLink(t, r, i)[3] = i
<1>1. \A m, k : LinkOf(m) = LinkOf(k) => m = k
  BY DEF LinkOf
<1>2. \A m, t, r, i : LinkOf(m) # HeadLink(t, r, i)
  BY DEF LinkOf, HeadLink
<1>3. \A t, r, i, u, q, j : HeadLink(t, r, i) = HeadLink(u, q, j) => t = u /\ r = q /\ i = j
  BY DEF HeadLink
<1>4. \A m : LinkOf(m) # <<>> /\ m = LinkOf(m)[1] /\ Len(LinkOf(m)) = 1
  BY DEF LinkOf
<1>5. \A t, r, i : HeadLink(t, r, i) # <<>> /\ Len(HeadLink(t, r, i)) = 3 /\ HeadLink(t, r, i)[3] = i
  BY DEF HeadLink
<1> QED
  BY <1>1, <1>2, <1>3, <1>4, <1>5

(* A link is a message's, or one of the two heads of a rail.               *)
LEMMA LinksAre ==
  /\ \A m \in Msgs : LinkOf(m) \in Links
  /\ \A t \in Threads, r \in Rails : HeadLink(t, r, 0) \in Links /\ HeadLink(t, r, 1) \in Links
  /\ \A l \in Links : \/ \E m \in Msgs : l = LinkOf(m)
                      \/ \E t \in Threads, r \in Rails : l = HeadLink(t, r, 0) \/ l = HeadLink(t, r, 1)
BY DEF Links, LinkOf, HeadLink

(* A message is not null or a mark.                                        *)
LEMMA MsgsAre ==
  ASSUME TypeOK
  PROVE  /\ Msgs \subseteq Nat \ {0} /\ Null \notin Msgs /\ Mark \notin Msgs /\ Null # Mark
         /\ \A l : [old |-> l, msg |-> Null].msg = Null
         /\ NoSend.msg = Null
<1>1. MaxLive \in Nat
  BY BuildFacts
<1> QED
  BY <1>1 DEF Msgs, Null, Mark, NoSend

-----------------------------------------------------------------------------
(* Epochs modulo 4, and the parity of one.                                 *)
LEMMA EpochIs ==
  ASSUME TypeOK, NEW t \in Threads
  PROVE  /\ epoch[t] \in 0 .. 3 /\ epoch[t] % 2 \in {0, 1}
         /\ began[t] \in BOOLEAN
<1>1. epoch[t] \in 0 .. 3 /\ began[t] \in BOOLEAN
  BY DEF TypeOK
<1>2. \A e \in 0 .. 3 : e % 2 \in {0, 1}
  OBVIOUS
<1> QED
  BY <1>1, <1>2

(* The next epoch modulo 4 has the other parity.                           *)
LEMMA AfterIs == \A e \in 0 .. 3 : /\ After(e) = IF e = 3 THEN 0 ELSE e + 1
                                   /\ After(e) % 2 = 1 - (e % 2)
BY DEF After, EpochBarrier!After

(* The types of what a witness says.                                       *)
LEMMA WitnessFacts ==
  ASSUME NEW w \in Witnesses
  PROVE  /\ w.lo \in Nat /\ w.at \in Nat /\ w.cut \in Nat /\ w.end \in Nat
         /\ \A n \in Nat : w.item[n] \in Msgs
         /\ w.base \in Links /\ w.head \in Links
         /\ \A n \in Nat : ReachedBy(w, n) \in Links /\ Leaves(w, n) \in Links
         /\ \A n : Held(w, n) => n \in Nat
<1>1. /\ w.lo \in Nat /\ w.at \in Nat /\ w.cut \in Nat /\ w.end \in Nat
      /\ w.item \in [Nat -> Msgs] /\ w.base \in Links /\ w.head \in Links
  BY DEF Witnesses
<1>2. \A n \in Nat : w.item[n] \in Msgs
  BY <1>1
<1>3. \A n \in Nat : ReachedBy(w, n) \in Links /\ Leaves(w, n) \in Links
  BY <1>1, <1>2, LinksAre DEF ReachedBy, Leaves
<1>4. \A n : Held(w, n) => n \in Nat
  BY <1>1 DEF Held
<1> QED
  BY <1>1, <1>2, <1>3, <1>4

(* Which links lead on: the heads of the rail, and those of held messages. *)
LEMMA LeavesAre ==
  ASSUME TypeOK, NEW t \in Threads, NEW r \in Rails, NEW w \in Witnesses,
         Ordered(w), PlacesOK(t, r, w)
  PROVE  /\ \A n \in w.lo .. w.end :
              \/ Leaves(w, n) = LinkOf(w.item[n]) /\ Held(w, n)
              \/ Leaves(w, n) = HeadLink(t, r, 0) \/ Leaves(w, n) = HeadLink(t, r, 1)
         /\ \A n \in w.lo .. w.cut :
              \/ ReachedBy(w, n) = LinkOf(w.item[n]) /\ Held(w, n)
              \/ n = w.lo /\ ReachedBy(w, n) = BaseHead(t, r)
<1>0. /\ w.lo \in Nat /\ w.at \in Nat /\ w.cut \in Nat /\ w.end \in Nat
      /\ w.lo <= w.cut /\ w.cut <= w.end
  BY WitnessFacts DEF Ordered
<1>1. /\ w.base \in {LinkOf(w.item[w.lo]), BaseHead(t, r)}
      /\ w.head \in {NextHead(t, r), ReachedBy(w, w.cut)}
  BY DEF PlacesOK
<1>2. epoch[t] % 2 \in {0, 1}
  BY EpochIs
<1>3. /\ BaseHead(t, r) \in {HeadLink(t, r, 0), HeadLink(t, r, 1)}
      /\ NextHead(t, r) \in {HeadLink(t, r, 0), HeadLink(t, r, 1)}
  BY <1>2 DEF BaseHead, NextHead
<1>4. ASSUME NEW n \in w.lo .. w.end
      PROVE  \/ ReachedBy(w, n) = LinkOf(w.item[n]) /\ Held(w, n)
             \/ n = w.lo /\ ReachedBy(w, n) = BaseHead(t, r)
  BY <1>0, <1>1 DEF ReachedBy, Held
<1>5. ASSUME NEW n \in w.lo .. w.end
      PROVE  \/ Leaves(w, n) = LinkOf(w.item[n]) /\ Held(w, n)
             \/ Leaves(w, n) = HeadLink(t, r, 0) \/ Leaves(w, n) = HeadLink(t, r, 1)
  BY <1>0, <1>1, <1>3, <1>4 DEF Leaves
<1> QED
  BY <1>0, <1>4, <1>5

(* A held message is on one rail, and there at one place.                  *)
LEMMA HeldOnce ==
  ASSUME TypeOK,
         NEW t \in Threads, NEW r \in Rails, NEW w \in Witnesses, StampsOK(t, r, w),
         NEW u \in Threads, NEW q \in Rails, NEW v \in Witnesses, StampsOK(u, q, v),
         NEW m \in Nat, NEW n \in Nat, Held(w, m), Held(v, n), w.item[m] = v.item[n]
  PROVE  t = u /\ r = q
BY DEF StampsOK, By, No

(* ... and so a message stands at one place of a rail.                     *)
LEMMA HeldHere ==
  ASSUME TypeOK,
         NEW t \in Threads, NEW r \in Rails, NEW w \in Witnesses, StampsOK(t, r, w),
         NEW m \in Nat, NEW n \in Nat, Held(w, m), Held(w, n), w.item[m] = w.item[n]
  PROVE  m = n
<1>1. stamp \in [Msgs -> [by : Threads, to : Threads, no : Nat \ {0}] \cup {Freed}]
  BY DEF TypeOK
<1>2. w.item[n] \in Msgs
  BY WitnessFacts
<1>3. By(w, m) = By(w, n) /\ No(w, m) = No(w, n)
  BY DEF By, No
<1>4. stamp[w.item[n]] # Freed
  BY DEF StampsOK
<1>5. stamp[w.item[n]] \in [by : Threads, to : Threads, no : Nat \ {0}]
  BY <1>1, <1>2, <1>4
<1>6. No(w, n) \in Nat
  BY <1>5 DEF No
<1>7. ~ (No(w, n) < No(w, n))
  BY <1>6
<1>8. ~ (m < n) /\ ~ (n < m)
  BY <1>3, <1>7 DEF StampsOK
<1> QED
  BY <1>8

-----------------------------------------------------------------------------
(* Two rails have no link in common, and a rail has each at one place.     *)
LEMMA LeavesApart ==
  ASSUME TypeOK,
         NEW t \in Threads, NEW r \in Rails, NEW w \in Witnesses,
         Ordered(w), StampsOK(t, r, w), PlacesOK(t, r, w),
         NEW u \in Threads, NEW q \in Rails, NEW v \in Witnesses,
         Ordered(v), StampsOK(u, q, v), PlacesOK(u, q, v),
         NEW m \in w.lo .. w.end, NEW n \in v.lo .. v.end, Leaves(w, m) = Leaves(v, n)
  PROVE  t = u /\ r = q
<1>0. m \in Nat /\ n \in Nat
  BY WitnessFacts
<1>1. \/ Leaves(w, m) = LinkOf(w.item[m]) /\ Held(w, m)
      \/ Leaves(w, m) = HeadLink(t, r, 0) \/ Leaves(w, m) = HeadLink(t, r, 1)
  BY LeavesAre
<1>2. \/ Leaves(v, n) = LinkOf(v.item[n]) /\ Held(v, n)
      \/ Leaves(v, n) = HeadLink(u, q, 0) \/ Leaves(v, n) = HeadLink(u, q, 1)
  BY LeavesAre
<1>3. CASE /\ Leaves(w, m) = LinkOf(w.item[m]) /\ Held(w, m)
           /\ Leaves(v, n) = LinkOf(v.item[n]) /\ Held(v, n)
  <2>1. w.item[m] = v.item[n]
    BY <1>3, LinkFacts
  <2> QED
    BY <1>0, <1>3, <2>1, HeldOnce
<1> QED
  BY <1>1, <1>2, <1>3, LinkFacts

(* The links that lead on from the places of one rail are all different,   *)
(* and so are those its reader comes to.                                   *)
LEMMA LeavesOnce ==
  ASSUME TypeOK, EpochsOK,
         NEW t \in Threads, NEW r \in Rails, NEW w \in Witnesses,
         Ordered(w), StampsOK(t, r, w), PlacesOK(t, r, w)
  PROVE  /\ \A m, n \in w.lo .. w.end : Leaves(w, m) = Leaves(w, n) => m = n
         /\ \A m, n \in w.lo .. w.cut : ReachedBy(w, m) = ReachedBy(w, n) => m = n
<1>0. /\ w.lo \in Nat /\ w.at \in Nat /\ w.cut \in Nat /\ w.end \in Nat
      /\ w.lo <= w.cut /\ w.cut <= w.end
  BY WitnessFacts DEF Ordered
<1>1. \A n \in w.lo .. w.cut :
              \/ ReachedBy(w, n) = LinkOf(w.item[n]) /\ Held(w, n)
              \/ n = w.lo /\ ReachedBy(w, n) = BaseHead(t, r)
  BY LeavesAre
<1>2. BaseHead(t, r) \in {HeadLink(t, r, 0), HeadLink(t, r, 1)}
  <2>1. epoch[t] % 2 \in {0, 1}
    BY EpochIs
  <2> QED
    BY <2>1 DEF BaseHead
<1>3. ASSUME NEW m \in w.lo .. w.cut, NEW n \in w.lo .. w.cut, ReachedBy(w, m) = ReachedBy(w, n)
      PROVE  m = n
  <2>1. m \in Nat /\ n \in Nat
    BY <1>0
  <2>2. CASE /\ ReachedBy(w, m) = LinkOf(w.item[m]) /\ Held(w, m)
             /\ ReachedBy(w, n) = LinkOf(w.item[n]) /\ Held(w, n)
    <3>1. w.item[m] = w.item[n]
      BY <1>3, <2>2, LinkFacts
    <3> QED
      BY <2>1, <2>2, <3>1, HeldHere
  <2> QED
    BY <1>1, <1>2, <1>3, <2>1, <2>2, LinkFacts
<1>4. CASE ~ Moved(t)
  <2>1. w.head = ReachedBy(w, w.cut)
    BY <1>4 DEF PlacesOK
  <2>2. \A n \in w.lo .. w.end : Leaves(w, n) = ReachedBy(w, n)
    BY <2>1 DEF Leaves
  <2>3. ASSUME NEW m \in w.lo .. w.end, NEW n \in w.lo .. w.end, ReachedBy(w, m) = ReachedBy(w, n)
        PROVE  m = n
    <3>1. m \in Nat /\ n \in Nat
      BY <1>0
    <3>2. \A k \in {m, n} : \/ ReachedBy(w, k) = LinkOf(w.item[k]) /\ Held(w, k)
                            \/ k = w.lo /\ ReachedBy(w, k) = BaseHead(t, r)
      <4>1. w.base \in {LinkOf(w.item[w.lo]), BaseHead(t, r)}
        BY DEF PlacesOK
      <4> QED
        BY <1>0, <4>1 DEF ReachedBy, Held
    <3>3. CASE /\ ReachedBy(w, m) = LinkOf(w.item[m]) /\ Held(w, m)
               /\ ReachedBy(w, n) = LinkOf(w.item[n]) /\ Held(w, n)
      <4>1. w.item[m] = w.item[n]
        BY <2>3, <3>3, LinkFacts
      <4> QED
        BY <3>1, <3>3, <4>1, HeldHere
    <3> QED
      BY <1>2, <2>3, <3>1, <3>2, <3>3, LinkFacts
  <2> QED
    BY <1>3, <2>2, <2>3
<1>5. CASE Moved(t)
  <2>1. w.head = NextHead(t, r) /\ ~ began[t]
    BY <1>5 DEF PlacesOK, Moved, Rehead, bumped
  <2>2. NextHead(t, r) # BaseHead(t, r) /\ NextHead(t, r) \in {HeadLink(t, r, 0), HeadLink(t, r, 1)}
    <3>1. epoch[t] % 2 \in {0, 1}
      BY EpochIs
    <3>2. 1 - (epoch[t] % 2) # epoch[t] % 2
      BY <3>1
    <3> QED
      BY <2>1, <3>1, <3>2, LinkFacts DEF NextHead, BaseHead
  <2>3. \A n \in w.lo .. w.end :
          \/ n = w.cut /\ Leaves(w, n) = NextHead(t, r)
          \/ n # w.cut /\ Leaves(w, n) = LinkOf(w.item[n]) /\ Held(w, n)
          \/ n # w.cut /\ n = w.lo /\ Leaves(w, n) = BaseHead(t, r)
    <3>1. w.base \in {LinkOf(w.item[w.lo]), BaseHead(t, r)}
      BY DEF PlacesOK
    <3> QED
      BY <1>0, <2>1, <3>1 DEF Leaves, ReachedBy, Held
  <2>4. ASSUME NEW m \in w.lo .. w.end, NEW n \in w.lo .. w.end, Leaves(w, m) = Leaves(w, n)
        PROVE  m = n
    <3>1. m \in Nat /\ n \in Nat
      BY <1>0
    <3>3. CASE /\ Leaves(w, m) = LinkOf(w.item[m]) /\ Held(w, m)
               /\ Leaves(w, n) = LinkOf(w.item[n]) /\ Held(w, n)
      <4>1. w.item[m] = w.item[n]
        BY <2>4, <3>3, LinkFacts
      <4> QED
        BY <3>1, <3>3, <4>1, HeldHere
    <3> QED
      BY <1>2, <2>2, <2>3, <2>4, <3>1, <3>3, LinkFacts
  <2> QED
    BY <1>3, <2>4
<1> QED
  BY <1>4, <1>5

-----------------------------------------------------------------------------
(* A step that leaves the links and the stamps of a rail alone.            *)
SameStamps(t, r, w) ==
  /\ \A n \in Nat : Held(w, n) => stamp'[w.item[n]] = stamp[w.item[n]]
  /\ \A u \in Threads : u % build.rails = r => sent'[u][t] = sent[u][t] /\ got'[t][u] = got[t][u]
  /\ build' = build

SameLinks(t, r, w) ==
  /\ SameStamps(t, r, w)
  /\ \A n \in w.lo .. w.end : link'[Leaves(w, n)] = link[Leaves(w, n)]
  /\ \A u \in Threads : Sends(u, t, r)' => Sends(u, t, r)
  /\ \A u \in Threads : Sends(u, t, r) => pending'[u] = pending[u]

(* Whose gap it is.                                                        *)
LEMMA GapSends ==
  ASSUME TypeOK, MemoryOK,
         NEW t \in Threads, NEW r \in Rails, NEW w \in Witnesses, Ordered(w), StampsOK(t, r, w),
         NEW n \in w.at .. w.end - 1, NEW u \in Threads, Gap(w, n, u)
  PROVE  Sends(u, t, r) /\ By(w, n + 1) = u /\ Held(w, n + 1)
<1>0. n \in Nat /\ n + 1 \in Nat /\ w.lo < n + 1 /\ n + 1 <= w.end /\ w.lo \in Nat /\ w.end \in Nat
  BY WitnessFacts DEF Ordered
<1>1. Held(w, n + 1)
  BY <1>0 DEF Held
<1>2. pending[u].msg = w.item[n + 1]
  BY DEF Gap
<1>3. pending[u] # NoSend
  BY <1>0, <1>2, WitnessFacts, MsgsAre
<1>4. stamp[w.item[n + 1]].by = u /\ pending[u].msg \in live
  BY <1>2, <1>3 DEF MemoryOK
<1>5. stamp[w.item[n + 1]].to = t /\ By(w, n + 1) % build.rails = r
  BY <1>0, <1>1 DEF StampsOK
<1> QED
  BY <1>1, <1>2, <1>3, <1>4, <1>5 DEF Sends, By

(* StampsOK outlives a step that leaves the stamps of the rail alone,      *)
LEMMA SameStampsKept ==
  ASSUME NEW t \in Threads, NEW r \in Rails, NEW w \in Witnesses, Ordered(w),
         StampsOK(t, r, w), SameStamps(t, r, w)
  PROVE  StampsOK(t, r, w)'
<1>10. /\ w.lo \in Nat /\ w.at \in Nat /\ w.cut \in Nat /\ w.end \in Nat
      /\ w.lo <= w.at /\ w.at <= w.cut /\ w.cut <= w.end
  BY WitnessFacts DEF Ordered
<1>0. build' = build
  BY DEF SameStamps
<1>1. \A n \in Nat : Held(w, n) => /\ stamp'[w.item[n]] = stamp[w.item[n]]
                                   /\ By(w, n)' = By(w, n) /\ No(w, n)' = No(w, n)
  BY DEF SameStamps, By, No
<1>2. \A n \in w.at + 1 .. w.end : Held(w, n) /\ n \in Nat
  BY <1>10 DEF Held
<1>3. \A n \in Nat : Held(w, n) => By(w, n) \in Threads /\ By(w, n) % build.rails = r
  BY DEF StampsOK
<1>4. \A u \in Threads : u % build.rails = r => sent'[u][t] = sent[u][t] /\ got'[t][u] = got[t][u]
  BY DEF SameStamps
<1>5. ASSUME NEW n \in Nat, Held(w, n)
      PROVE  /\ stamp'[w.item[n]] # Freed /\ stamp'[w.item[n]].to = t
             /\ By(w, n)' \in Threads /\ By(w, n)' % build'.rails = r
             /\ No(w, n)' \in 1 .. sent'[By(w, n)'][t]
  BY <1>0, <1>1, <1>3, <1>4, <1>5 DEF StampsOK
<1>6. \A m, n \in Nat : Held(w, m) /\ Held(w, n) /\ m < n /\ By(w, m)' = By(w, n)'
                         => No(w, m)' < No(w, n)'
  BY <1>1 DEF StampsOK
<1>7. \A n \in w.at + 1 .. w.end : No(w, n)' > got'[t][By(w, n)']
  BY <1>1, <1>2, <1>3, <1>4 DEF StampsOK
<1>8. ASSUME NEW u \in Threads, u % build'.rails = r, NEW k \in got'[t][u] + 1 .. sent'[u][t]
      PROVE  \E n \in w.at + 1 .. w.end : By(w, n)' = u /\ No(w, n)' = k
  <2>1. u % build.rails = r /\ k \in got[t][u] + 1 .. sent[u][t]
    BY <1>0, <1>4, <1>8
  <2>2. PICK n \in w.at + 1 .. w.end : By(w, n) = u /\ No(w, n) = k
    BY <2>1 DEF StampsOK
  <2> QED
    BY <1>1, <1>2, <2>2
<1>9. \A u \in Threads : u % build'.rails = r => got'[t][u] <= sent'[u][t]
  BY <1>0, <1>4 DEF StampsOK
<1> QED
  BY <1>5, <1>6, <1>7, <1>8, <1>9 DEF StampsOK

(* LinksOK one that also leaves its links and gaps alone,                  *)
LEMMA SameLinksKept ==
  ASSUME TypeOK, MemoryOK,
         NEW t \in Threads, NEW r \in Rails, NEW w \in Witnesses, Ordered(w),
         LinksOK(t, r, w), StampsOK(t, r, w), SameLinks(t, r, w)
  PROVE  LinksOK(t, r, w)' /\ StampsOK(t, r, w)'
<1>0. /\ w.lo \in Nat /\ w.at \in Nat /\ w.cut \in Nat /\ w.end \in Nat
      /\ w.lo <= w.at /\ w.at <= w.cut /\ w.cut <= w.end
  BY WitnessFacts DEF Ordered
<1>1. \A n \in w.lo .. w.end : link'[Leaves(w, n)] = link[Leaves(w, n)]
  BY DEF SameLinks
<1>2. ASSUME NEW n \in w.at .. w.end - 1, NEW u \in Threads, Gap(w, n, u)
      PROVE  Gap(w, n, u)'
  <2>1. Sends(u, t, r)
    BY <1>2, GapSends
  <2>2. pending'[u] = pending[u]
    BY <2>1 DEF SameLinks
  <2> QED
    BY <1>0, <1>1, <1>2, <2>2 DEF Gap
<1>3. LinksOK(t, r, w)'
  <2>1. \A n \in w.lo .. w.at - 1 : link'[Leaves(w, n)] = w.item[n + 1]
    BY <1>0, <1>1 DEF LinksOK
  <2>2. ASSUME NEW n \in w.at .. w.end - 1
        PROVE  link'[Leaves(w, n)] = w.item[n + 1] \/ \E u \in Threads : Gap(w, n, u)'
    <3>1. link[Leaves(w, n)] = w.item[n + 1] \/ \E u \in Threads : Gap(w, n, u)
      BY DEF LinksOK
    <3>2. link'[Leaves(w, n)] = link[Leaves(w, n)]
      BY <1>0, <1>1
    <3> QED
      BY <1>2, <3>1, <3>2
  <2>3. link'[Leaves(w, w.end)] = Null
    BY <1>0, <1>1 DEF LinksOK
  <2>4. ASSUME NEW u \in Threads, Sends(u, t, r)'
        PROVE  \E n \in w.at .. w.end - 1 : Gap(w, n, u)'
    <3>1. Sends(u, t, r)
      BY <2>4 DEF SameLinks
    <3>2. PICK n \in w.at .. w.end - 1 : Gap(w, n, u)
      BY <3>1 DEF LinksOK
    <3> QED
      BY <1>2, <3>2
  <2> QED
    BY <2>1, <2>2, <2>3, <2>4 DEF LinksOK
<1>4. StampsOK(t, r, w)'
  BY SameStampsKept DEF SameLinks
<1> QED
  BY <1>3, <1>4

(* A step that leaves the places of a rail alone, and its reader.          *)
SamePlaces(t, r) ==
  /\ tailp'[t][r] = tailp[t][r] /\ headp'[t][r] = headp[t][r] /\ from'[t][r] = from[t][r]
  /\ upto'[t][r] = upto[t][r] /\ given'[t][r] = given[t][r] /\ owner'[t][r] = owner[t][r]
  /\ pc'[t] = pc[t] \/ (~ Reading(t) /\ ~ Reading(t)')
  /\ epoch'[t] = epoch[t] /\ began'[t] = began[t]
  /\ build' = build

(* PlacesOK one that leaves its places and its reader alone,               *)
LEMMA SamePlacesKept ==
  ASSUME NEW t \in Threads, NEW r \in Rails, NEW w \in Witnesses,
         PlacesOK(t, r, w), SamePlaces(t, r)
  PROVE  PlacesOK(t, r, w)'
<1>1. (Reading(t)' <=> Reading(t)) /\ (Moved(t)' <=> Moved(t))
  BY DEF SamePlaces, Reading, Moved, Rehead, bumped
<1>2. BaseHead(t, r)' = BaseHead(t, r) /\ NextHead(t, r)' = NextHead(t, r)
  BY DEF SamePlaces, BaseHead, NextHead
<1>3. (pc'[t] = "take" <=> pc[t] = "take") /\ (pc'[t] = "give" <=> pc[t] = "give")
  BY DEF SamePlaces, Reading
<1> QED
  BY <1>1, <1>2, <1>3 DEF PlacesOK, SamePlaces

(* A step of the epoch build in which the ages of a rail grow with its     *)
(* writers' epochs.                                                        *)
SameAges(t, w) ==
  /\ \A n \in Nat : Held(w, n) => /\ age'[w.item[n]] - age[w.item[n]] <= Lead(By(w, n), t)' - Lead(By(w, n), t)
                                  /\ stamp'[w.item[n]] = stamp[w.item[n]]
  /\ pc'[t] = pc[t] \/ (~ Reading(t) /\ ~ Reading(t)')
  /\ began'[t] = began[t]
  /\ build' = build

(* and AgesOK one in which its ages grow no faster than the epochs.        *)
LEMMA SameAgesKept ==
  ASSUME TypeOK, TypeOK', NEW t \in Threads, NEW r \in Rails, NEW w \in Witnesses,
         AgesOK(t, w), SameAges(t, w)
  PROVE  AgesOK(t, w)'
<1> SUFFICES ASSUME build'.kind = "epoch", NEW n \in Nat, Held(w, n)
             PROVE  age'[w.item[n]] <= Lead(By(w, n), t)'
                       + IF bumped(t)' /\ (Reading(t)' => n <= w.cut) THEN 2 ELSE 1
  BY DEF AgesOK
<1>1. w.item[n] \in Msgs
  BY WitnessFacts
<1>2. age'[w.item[n]] \in Nat /\ age[w.item[n]] \in Nat
  BY <1>1 DEF TypeOK
<1>3. (bumped(t)' <=> bumped(t)) /\ (Reading(t)' <=> Reading(t)) /\ build'.kind = build.kind
  BY DEF SameAges, bumped, Reading
<1>4. By(w, n)' = By(w, n)
  BY DEF SameAges, By
<1>5. Lead(By(w, n), t) \in Int /\ Lead(By(w, n), t)' \in Int
  BY DEF Lead
<1>6. age[w.item[n]] <= Lead(By(w, n), t)
                       + IF bumped(t) /\ (Reading(t) => n <= w.cut) THEN 2 ELSE 1
  BY <1>3 DEF AgesOK
<1>7. age'[w.item[n]] - age[w.item[n]] <= Lead(By(w, n), t)' - Lead(By(w, n), t)
  BY DEF SameAges
<1> DEFINE l == Lead(By(w, n), t)
           lp == Lead(By(w, n), t)'
           a == age[w.item[n]]
           ap == age'[w.item[n]]
           c == IF bumped(t) /\ (Reading(t) => n <= w.cut) THEN 2 ELSE 1
<1>8. l \in Int /\ lp \in Int /\ a \in Nat /\ ap \in Nat /\ c \in Nat /\ a <= l + c /\ ap - a <= lp - l
  BY <1>2, <1>5, <1>6, <1>7
<1>9. c = IF bumped(t)' /\ (Reading(t)' => n <= w.cut) THEN 2 ELSE 1
  BY <1>3
<1> HIDE DEF l, lp, a, ap, c
<1>10. ap <= lp + c
  BY <1>8
<1> QED
  BY <1>9, <1>10 DEF lp, ap
(* A step that leaves a rail alone altogether.                             *)
Untouched(t, r, w) ==
  /\ SameStamps(t, r, w) /\ SamePlaces(t, r)
  /\ \A n \in Nat : Held(w, n) => age'[w.item[n]] = age[w.item[n]]
  /\ epoch' = epoch

Quiet(t, r, w) == SameLinks(t, r, w) /\ Untouched(t, r, w)

(* What outlives a step that may still store a link of the rail.           *)
LEMMA UntouchedKept ==
  ASSUME TypeOK, TypeOK', NEW t \in Threads, NEW r \in Rails, NEW w \in Witnesses,
         RailOK(t, r, w), Untouched(t, r, w)
  PROVE  Ordered(w) /\ StampsOK(t, r, w)' /\ PlacesOK(t, r, w)' /\ AgesOK(t, w)'
<1>1. Ordered(w) /\ LinksOK(t, r, w) /\ StampsOK(t, r, w) /\ PlacesOK(t, r, w) /\ AgesOK(t, w)
  BY DEF RailOK
<1>2. SameStamps(t, r, w) /\ SamePlaces(t, r) /\ epoch' = epoch
  BY DEF Untouched
<1>3. StampsOK(t, r, w)'
  BY <1>1, <1>2, SameStampsKept
<1>4. PlacesOK(t, r, w)'
  BY <1>1, <1>2, SamePlacesKept
<1>5. SameAges(t, w)
  <2>1. \A n \in Nat : Held(w, n) => stamp'[w.item[n]] = stamp[w.item[n]]
    BY <1>2 DEF SameStamps
  <2>2. \A n \in Nat : Held(w, n) => Lead(By(w, n), t)' = Lead(By(w, n), t)
    BY <1>2, <2>1 DEF Lead, By
  <2>3. ASSUME NEW n \in Nat, Held(w, n)
        PROVE  age'[w.item[n]] - age[w.item[n]] <= Lead(By(w, n), t)' - Lead(By(w, n), t)
    <3>1. age'[w.item[n]] = age[w.item[n]] /\ Lead(By(w, n), t)' = Lead(By(w, n), t)
      BY <2>2, <2>3 DEF Untouched
    <3>2. w.item[n] \in Msgs
      BY WitnessFacts
    <3>3. age[w.item[n]] \in Nat
      BY <3>2 DEF TypeOK
    <3>4. Lead(By(w, n), t) \in Int
      BY DEF Lead
    <3> DEFINE a == age[w.item[n]]
               l == Lead(By(w, n), t)
    <3>5. a \in Nat /\ l \in Int
      BY <3>3, <3>4
    <3> HIDE DEF a, l
    <3>6. a - a <= l - l
      BY <3>5
    <3> QED
      BY <3>1, <3>6 DEF a, l
  <2> QED
    BY <1>2, <2>1, <2>3 DEF SameAges, SamePlaces
<1>6. AgesOK(t, w)'
  BY <1>1, <1>5, SameAgesKept
<1> QED
  BY <1>1, <1>3, <1>4, <1>6

(* A rail that a step leaves alone stays as it is.                         *)
LEMMA QuietKept ==
  ASSUME TypeOK, TypeOK', MemoryOK, NEW t \in Threads, NEW r \in Rails, NEW w \in Witnesses,
         RailOK(t, r, w), Quiet(t, r, w)
  PROVE  RailOK(t, r, w)'
<1>1. Ordered(w) /\ LinksOK(t, r, w) /\ StampsOK(t, r, w)
  BY DEF RailOK
<1>2. SameLinks(t, r, w) /\ Untouched(t, r, w)
  BY DEF Quiet
<1>3. LinksOK(t, r, w)'
  BY <1>1, <1>2, SameLinksKept
<1>4. Ordered(w) /\ StampsOK(t, r, w)' /\ PlacesOK(t, r, w)' /\ AgesOK(t, w)'
  BY <1>2, UntouchedKept
<1> QED
  BY <1>1, <1>3, <1>4 DEF RailOK

-----------------------------------------------------------------------------
(* The stamp of a live message.                                            *)
LEMMA LiveTypes ==
  ASSUME TypeOK
  PROVE  /\ live \subseteq Msgs
         /\ \A m \in live : stamp[m] # Freed /\ stamp[m].by \in Threads /\ stamp[m].to \in Threads
                            /\ stamp[m].no \in Nat \ {0}
BY DEF TypeOK, live

(* Exchange keeps the types; the message it sends was free.                *)
LEMMA ExchangeType ==
  ASSUME TypeOK, MemoryOK, NEW t \in Threads, NEW w \in Threads, Exchange(t, w)
  PROVE  /\ TypeOK'
         /\ \E m \in Msgs \ live :
              /\ stamp' = [stamp EXCEPT ![m] = [by |-> t, to |-> w, no |-> sent[t][w] + 1]]
              /\ pending' = [pending EXCEPT ![t] = [old |-> tailp[w][t % build.rails], msg |-> m]]
              /\ tailp' = [tailp EXCEPT ![w][t % build.rails] = LinkOf(m)]
<1> DEFINE m == CHOOSE k \in Msgs \ live : \A j \in Msgs \ live : k <= j
           r == t % build.rails
<1>1. m \in Msgs \ live
  <2>1. Msgs \ live \subseteq Nat /\ Msgs \ live # {}
    BY MsgsAre DEF Exchange
  <2>2. \E k \in Msgs \ live : \A j \in Msgs \ live : k <= j
    BY <2>1, LeastElement
  <2> QED
    BY <2>2
<1>2. /\ stamp' = [stamp EXCEPT ![m] = [by |-> t, to |-> w, no |-> sent[t][w] + 1]]
      /\ pending' = [pending EXCEPT ![t] = [old |-> tailp[w][r], msg |-> m]]
      /\ tailp' = [tailp EXCEPT ![w][r] = LinkOf(m)]
      /\ sent' = [sent EXCEPT ![t][w] = @ + 1]
      /\ UNCHANGED <<build, pc, link, sentNext, age, headp, owner, from, upto, given, sentVars,
                     epoch, began, got>>
  BY DEF Exchange
<1>3. r \in Rails /\ LinkOf(m) \in Links /\ m \in Msgs
  BY <1>1, BuildFacts, LinksAre
<1> HIDE DEF m
<1>4. /\ tailp[w][r] \in Links /\ sent[t][w] + 1 \in Nat \ {0}
  BY <1>3 DEF TypeOK
<1> HIDE DEF r
<1>5. stamp' \in [Msgs -> [by : Threads, to : Threads, no : Nat \ {0}] \cup {Freed}]
  <2> DEFINE s == [by |-> t, to |-> w, no |-> sent[t][w] + 1]
  <2>1. s \in [by : Threads, to : Threads, no : Nat \ {0}]
    BY <1>4
  <2>2. stamp' = [stamp EXCEPT ![m] = s]
    BY <1>2
  <2> HIDE DEF s
  <2> QED
    BY <2>1, <2>2 DEF TypeOK
<1>6. pending' \in [Threads -> [old : Links, msg : Msgs] \cup {NoSend}]
  <2> DEFINE s == [old |-> tailp[w][r], msg |-> m]
  <2>1. s \in [old : Links, msg : Msgs]
    BY <1>3, <1>4
  <2>2. pending' = [pending EXCEPT ![t] = s]
    BY <1>2
  <2> HIDE DEF s
  <2> QED
    BY <2>1, <2>2 DEF TypeOK
<1>7. tailp' \in [Threads -> [Rails -> Links]]
  BY <1>2, <1>3 DEF TypeOK
<1>8. sent' \in [Threads -> [Threads -> Nat]]
  BY <1>2, <1>4 DEF TypeOK
<1>9. Rails' = Rails /\ Links' = Links /\ build' = build
  BY <1>2 DEF Rails, Links
<1>10. TypeOK'
  BY <1>2, <1>5, <1>6, <1>7, <1>8, <1>9 DEF TypeOK, sentVars
<1> QED
  BY <1>1, <1>2, <1>10 DEF r

(* The message at the end of a rail.                                       *)
WithItem(w, m) == [item |-> [n \in Nat |-> IF n = w.end + 1 THEN m ELSE w.item[n]],
                   lo |-> w.lo, at |-> w.at, cut |-> w.cut, end |-> w.end + 1,
                   base |-> w.base, head |-> w.head]

(* A rail with one message more: all else is as it was.                    *)
LEMMA WithItemIs ==
  ASSUME TypeOK, NEW w \in Witnesses, Ordered(w), NEW m \in Msgs
  PROVE  LET v == WithItem(w, m) IN
         /\ v \in Witnesses /\ Ordered(v)
         /\ v.lo = w.lo /\ v.at = w.at /\ v.cut = w.cut /\ v.end = w.end + 1
         /\ v.base = w.base /\ v.head = w.head
         /\ v.item[w.end + 1] = m
         /\ \A n \in Nat : n # w.end + 1 => v.item[n] = w.item[n]
         /\ \A n \in 0 .. w.end : ReachedBy(v, n) = ReachedBy(w, n) /\ Leaves(v, n) = Leaves(w, n)
         /\ Leaves(v, w.end + 1) = LinkOf(m)
         /\ \A n \in Nat : Held(v, n) <=> Held(w, n) \/ n = w.end + 1
<1> DEFINE v == WithItem(w, m)
<1>1. /\ w.lo \in Nat /\ w.at \in Nat /\ w.cut \in Nat /\ w.end \in Nat
      /\ w.item \in [Nat -> Msgs] /\ w.base \in Links /\ w.head \in Links
      /\ w.lo <= w.at /\ w.at <= w.cut /\ w.cut <= w.end
  BY DEF Witnesses, Ordered
<1>2. /\ v.lo = w.lo /\ v.at = w.at /\ v.cut = w.cut /\ v.end = w.end + 1
      /\ v.base = w.base /\ v.head = w.head
      /\ v.item = [n \in Nat |-> IF n = w.end + 1 THEN m ELSE w.item[n]]
  BY DEF WithItem
<1>3. v.item \in [Nat -> Msgs]
  BY <1>1, <1>2
<1>4. v \in Witnesses
  <2>1. [n \in Nat |-> IF n = w.end + 1 THEN m ELSE w.item[n]] \in [Nat -> Msgs]
    BY <1>2, <1>3
  <2> QED
    BY <1>1, <2>1 DEF WithItem, Witnesses
<1> HIDE DEF v
<1>5. Ordered(v)
  BY <1>1, <1>2 DEF Ordered
<1>6. v.item[w.end + 1] = m /\ \A n \in Nat : n # w.end + 1 => v.item[n] = w.item[n]
  BY <1>1, <1>2
<1>7. \A n \in 0 .. w.end : ReachedBy(v, n) = ReachedBy(w, n) /\ Leaves(v, n) = Leaves(w, n)
  BY <1>1, <1>2, <1>6 DEF ReachedBy, Leaves
<1>8. Leaves(v, w.end + 1) = LinkOf(m)
  BY <1>1, <1>2, <1>6 DEF ReachedBy, Leaves
<1>9. \A n \in Nat : Held(v, n) <=> Held(w, n) \/ n = w.end + 1
  BY <1>1, <1>2, <1>6 DEF Held
<1> QED
  BY <1>2, <1>4, <1>5, <1>6, <1>7, <1>8, <1>9 DEF v

(* The rail that a message is sent on.                                     *)
LEMMA ExchangeRail ==
  ASSUME TypeOK, TypeOK', MemoryOK, EpochsOK, NEW t \in Threads, NEW w \in Threads,
         Exchange(t, w), NEW r \in Rails, r = t % build.rails, NEW m \in Msgs \ live,
         stamp' = [stamp EXCEPT ![m] = [by |-> t, to |-> w, no |-> sent[t][w] + 1]],
         pending' = [pending EXCEPT ![t] = [old |-> tailp[w][r], msg |-> m]],
         tailp' = [tailp EXCEPT ![w][r] = LinkOf(m)],
         NEW x \in Witnesses, RailOK(w, r, x)
  PROVE  \E v \in Witnesses : RailOK(w, r, v)'
<1> DEFINE v == WithItem(x, m)
<1>1. m \in Msgs
  OBVIOUS
<1>2. Ordered(x) /\ LinksOK(w, r, x) /\ StampsOK(w, r, x) /\ PlacesOK(w, r, x) /\ AgesOK(w, x)
  BY DEF RailOK
<1>3. /\ build' = build /\ pc' = pc /\ link' = link /\ age' = age /\ headp' = headp
      /\ owner' = owner /\ from' = from /\ upto' = upto /\ given' = given
      /\ epoch' = epoch /\ began' = began /\ got' = got
      /\ pending[t] = NoSend /\ sent' = [sent EXCEPT ![t][w] = @ + 1]
  BY DEF Exchange, At
<1>4. /\ stamp'[m] = [by |-> t, to |-> w, no |-> sent[t][w] + 1]
      /\ \A k \in Msgs : k # m => stamp'[k] = stamp[k]
  BY <1>1 DEF TypeOK
<1>5. /\ pending'[t] = [old |-> tailp[w][r], msg |-> m]
      /\ \A u \in Threads : u # t => pending'[u] = pending[u]
  BY DEF TypeOK
<1>6. tailp'[w][r] = LinkOf(m)
  BY <1>1 DEF TypeOK
<1>7. /\ sent'[t][w] = sent[t][w] + 1
      /\ \A u \in Threads : u # t => sent'[u][w] = sent[u][w]
      /\ \A u \in Threads : sent[u][w] \in Nat /\ got[w][u] \in Nat
  BY <1>3 DEF TypeOK
<1>8. /\ v \in Witnesses /\ Ordered(v)
      /\ v.lo = x.lo /\ v.at = x.at /\ v.cut = x.cut /\ v.end = x.end + 1
      /\ v.base = x.base /\ v.head = x.head
      /\ v.item[x.end + 1] = m
      /\ \A n \in Nat : n # x.end + 1 => v.item[n] = x.item[n]
      /\ \A n \in 0 .. x.end : ReachedBy(v, n) = ReachedBy(x, n) /\ Leaves(v, n) = Leaves(x, n)
      /\ Leaves(v, x.end + 1) = LinkOf(m)
      /\ \A n \in Nat : Held(v, n) <=> Held(x, n) \/ n = x.end + 1
  BY <1>1, <1>2, WithItemIs
<1> HIDE DEF v
<1>9. /\ x.lo \in Nat /\ x.at \in Nat /\ x.cut \in Nat /\ x.end \in Nat
      /\ x.lo <= x.at /\ x.at <= x.cut /\ x.cut <= x.end
  BY <1>2, WitnessFacts DEF Ordered
<1>10. \A n \in Nat : Held(x, n) => /\ x.item[n] \in live /\ x.item[n] # m /\ v.item[n] = x.item[n]
                                    /\ stamp'[v.item[n]] = stamp[x.item[n]] /\ n <= x.end
  <2> SUFFICES ASSUME NEW n \in Nat, Held(x, n)
               PROVE  /\ x.item[n] \in live /\ x.item[n] # m /\ v.item[n] = x.item[n]
                      /\ stamp'[v.item[n]] = stamp[x.item[n]] /\ n <= x.end
    OBVIOUS
  <2>1. x.item[n] \in live
    BY <1>2, WitnessFacts DEF StampsOK, live
  <2>2. n <= x.end /\ n # x.end + 1
    BY <1>9 DEF Held
  <2>3. v.item[n] = x.item[n]
    BY <1>8, <2>2
  <2> QED
    BY <1>4, <2>1, <2>2, <2>3, LiveTypes
<1>11. LinksOK(w, r, v)'
  <2>1. \A n \in v.lo .. v.at - 1 : link'[Leaves(v, n)] = v.item[n + 1]
    <3> SUFFICES ASSUME NEW n \in v.lo .. v.at - 1 PROVE link'[Leaves(v, n)] = v.item[n + 1]
      OBVIOUS
    <3>1. n \in 0 .. x.end /\ n + 1 # x.end + 1 /\ n + 1 \in Nat /\ n \in x.lo .. x.at - 1
      BY <1>8, <1>9
    <3>2. Leaves(v, n) = Leaves(x, n) /\ v.item[n + 1] = x.item[n + 1]
      BY <1>8, <3>1
    <3>3. link[Leaves(x, n)] = x.item[n + 1]
      BY <1>2, <3>1 DEF LinksOK
    <3> QED
      BY <1>3, <3>2, <3>3
  <2>2. ASSUME NEW n \in x.at .. x.end - 1, NEW u \in Threads, Gap(x, n, u)
        PROVE  Gap(v, n, u)'
    <3>1. n \in 0 .. x.end /\ n + 1 # x.end + 1 /\ n + 1 \in Nat
      BY <1>9
    <3>2. Leaves(v, n) = Leaves(x, n) /\ v.item[n + 1] = x.item[n + 1]
      BY <1>8, <3>1
    <3>3. Sends(u, w, r)
      BY <1>1, <1>2, <2>2, GapSends
    <3>4. pending'[u] = pending[u]
      BY <1>3, <1>5, <3>3 DEF Sends
    <3> QED
      BY <1>3, <2>2, <3>2, <3>4 DEF Gap
  <2>3. Gap(v, x.end, t)'
    <3>1. Leaves(v, x.end) = Leaves(x, x.end) /\ v.item[x.end + 1] = m
      BY <1>8, <1>9
    <3>2. link[Leaves(x, x.end)] = Null /\ tailp[w][r] = Leaves(x, x.end)
      BY <1>2 DEF LinksOK, PlacesOK
    <3> QED
      BY <1>3, <1>5, <3>1, <3>2 DEF Gap
  <2>4. ASSUME NEW n \in v.at .. v.end - 1
        PROVE  link'[Leaves(v, n)] = v.item[n + 1] \/ \E u \in Threads : Gap(v, n, u)'
    <3>1. CASE n = x.end
      BY <2>3, <3>1
    <3>2. CASE n # x.end
      <4>1. n \in x.at .. x.end - 1 /\ n \in 0 .. x.end /\ n + 1 # x.end + 1 /\ n + 1 \in Nat
        BY <1>8, <1>9, <3>2
      <4>2. Leaves(v, n) = Leaves(x, n) /\ v.item[n + 1] = x.item[n + 1]
        BY <1>8, <4>1
      <4>3. link[Leaves(x, n)] = x.item[n + 1] \/ \E u \in Threads : Gap(x, n, u)
        BY <1>2, <4>1 DEF LinksOK
      <4> QED
        BY <1>3, <2>2, <4>1, <4>2, <4>3
    <3> QED
      BY <3>1, <3>2
  <2>5. link'[Leaves(v, v.end)] = Null
    BY <1>3, <1>8 DEF MemoryOK
  <2>6. ASSUME NEW u \in Threads, Sends(u, w, r)'
        PROVE  \E n \in v.at .. v.end - 1 : Gap(v, n, u)'
    <3>1. CASE u = t
      <4>1. x.end \in v.at .. v.end - 1
        BY <1>8, <1>9
      <4> QED
        BY <2>3, <3>1, <4>1
    <3>2. CASE u # t
      <4>1. pending'[u] = pending[u]
        BY <1>5, <3>2
      <4>2. pending[u] # NoSend /\ u % build.rails = r /\ stamp'[pending[u].msg].to = w
        BY <1>3, <2>6, <4>1 DEF Sends
      <4>3. pending[u].msg \in live
        BY <4>2 DEF MemoryOK
      <4>4. stamp'[pending[u].msg] = stamp[pending[u].msg]
        BY <1>4, <4>3, LiveTypes
      <4>5. Sends(u, w, r)
        BY <4>2, <4>4 DEF Sends
      <4>6. PICK n \in x.at .. x.end - 1 : Gap(x, n, u)
        BY <1>2, <4>5 DEF LinksOK
      <4>7. n \in v.at .. v.end - 1
        BY <1>8, <1>9
      <4> QED
        BY <2>2, <4>6, <4>7
    <3> QED
      BY <3>1, <3>2
  <2> QED
    BY <2>1, <2>4, <2>5, <2>6 DEF LinksOK
<1>12. StampsOK(w, r, v)'
  <2>1. /\ stamp'[v.item[x.end + 1]] = [by |-> t, to |-> w, no |-> sent[t][w] + 1]
        /\ By(v, x.end + 1)' = t /\ No(v, x.end + 1)' = sent[t][w] + 1
    BY <1>4, <1>8 DEF By, No
  <2>2. \A n \in Nat : Held(x, n) => /\ stamp'[v.item[n]] = stamp[x.item[n]] /\ n <= x.end
                                     /\ By(v, n)' = By(x, n) /\ No(v, n)' = No(x, n)
    BY <1>10 DEF By, No
  <2>3. \A n \in Nat : Held(x, n) =>
           /\ stamp[x.item[n]] # Freed /\ stamp[x.item[n]].to = w
           /\ By(x, n) \in Threads /\ By(x, n) % build.rails = r
           /\ No(x, n) \in Nat /\ 1 <= No(x, n) /\ No(x, n) <= sent[By(x, n)][w]
    BY <1>2, <1>7 DEF StampsOK
  <2>4. \A u \in Threads : sent[u][w] <= sent'[u][w] /\ sent'[u][w] \in Nat
    BY <1>7
  <2>5. ASSUME NEW n \in Nat, Held(v, n)
        PROVE  /\ stamp'[v.item[n]] # Freed /\ stamp'[v.item[n]].to = w
               /\ By(v, n)' \in Threads /\ By(v, n)' % build'.rails = r
               /\ No(v, n)' \in 1 .. sent'[By(v, n)'][w]
    <3>1. CASE n = x.end + 1
      <4>1. stamp'[v.item[n]] # Freed
        <5>1. [by |-> t, to |-> w, no |-> sent[t][w] + 1].no # Freed.no
          BY <1>7 DEF Freed
        <5> QED
          BY <2>1, <3>1, <5>1
      <4>2. stamp'[v.item[n]].to = w /\ By(v, n)' = t /\ No(v, n)' = sent[t][w] + 1
        BY <2>1, <3>1
      <4>3. sent[t][w] + 1 \in 1 .. sent'[t][w]
        BY <1>7
      <4>4. By(v, n)' \in Threads /\ By(v, n)' % build'.rails = r
        BY <1>3, <4>2
      <4>5. No(v, n)' \in 1 .. sent'[By(v, n)'][w]
        BY <4>2, <4>3
      <4>6. stamp'[v.item[n]].to = w
        BY <4>2
      <4> QED
        BY <4>1, <4>4, <4>5, <4>6
    <3>2. CASE Held(x, n)
      <4>1. /\ stamp[x.item[n]] # Freed /\ stamp[x.item[n]].to = w
            /\ By(x, n) \in Threads /\ By(x, n) % build.rails = r
            /\ No(x, n) \in Nat /\ 1 <= No(x, n) /\ No(x, n) <= sent[By(x, n)][w]
        BY <2>3, <3>2
      <4>2. sent[By(x, n)][w] <= sent'[By(x, n)][w] /\ sent'[By(x, n)][w] \in Nat
            /\ sent[By(x, n)][w] \in Nat
        BY <1>7, <2>4, <4>1
      <4>3. No(x, n) \in 1 .. sent'[By(x, n)][w]
        BY <4>1, <4>2
      <4> QED
        BY <1>3, <2>2, <3>2, <4>1, <4>3
    <3> QED
      BY <1>8, <2>5, <3>1, <3>2
  <2>6. ASSUME NEW k \in Nat, NEW n \in Nat, Held(v, k), Held(v, n), k < n, By(v, k)' = By(v, n)'
        PROVE  No(v, k)' < No(v, n)'
    <3>0. Held(x, k)
      <4>1. n <= x.end + 1
        <5>1. v.lo \in Nat /\ v.end = x.end + 1 /\ n \in v.lo .. v.end
          BY <1>8, <1>9, <2>6 DEF Held
        <5> QED
          BY <1>9, <5>1
      <4> QED
        BY <1>8, <1>9, <2>6, <4>1
    <3>1. CASE n = x.end + 1
      <4>1. By(x, k) = t /\ No(v, k)' = No(x, k) /\ No(v, n)' = sent[t][w] + 1
        BY <2>1, <2>2, <2>6, <3>0, <3>1
      <4>2. No(x, k) \in Nat /\ No(x, k) <= sent[t][w]
        BY <2>3, <3>0, <4>1
      <4> QED
        BY <1>7, <4>1, <4>2
    <3>2. CASE Held(x, n)
      <4>1. By(x, k) = By(x, n) /\ No(v, k)' = No(x, k) /\ No(v, n)' = No(x, n)
        BY <2>2, <2>6, <3>0, <3>2
      <4> QED
        BY <1>2, <2>6, <3>0, <3>2, <4>1 DEF StampsOK
    <3> QED
      BY <1>8, <2>6, <3>1, <3>2
  <2>7. ASSUME NEW n \in v.at + 1 .. v.end
        PROVE  No(v, n)' > got'[w][By(v, n)']
    <3>1. CASE n = x.end + 1
      <4>1. got[w][t] <= sent[t][w]
        BY <1>2 DEF StampsOK
      <4> QED
        BY <1>3, <1>7, <2>1, <3>1, <4>1
    <3>2. CASE n # x.end + 1
      <4>1. n \in x.at + 1 .. x.end /\ Held(x, n) /\ n \in Nat
        BY <1>8, <1>9, <3>2 DEF Held
      <4>2. No(x, n) > got[w][By(x, n)]
        BY <1>2, <4>1 DEF StampsOK
      <4> QED
        BY <1>3, <2>2, <4>1, <4>2
    <3> QED
      BY <3>1, <3>2
  <2>8. ASSUME NEW u \in Threads, u % build'.rails = r, NEW k \in got'[w][u] + 1 .. sent'[u][w]
        PROVE  \E n \in v.at + 1 .. v.end : By(v, n)' = u /\ No(v, n)' = k
    <3>1. CASE u = t /\ k = sent[t][w] + 1
      <4>1. x.end + 1 \in v.at + 1 .. v.end
        BY <1>8, <1>9
      <4> QED
        BY <2>1, <3>1, <4>1
    <3>2. CASE ~ (u = t /\ k = sent[t][w] + 1)
      <4>1. k \in got[w][u] + 1 .. sent[u][w] /\ u % build.rails = r
        BY <1>3, <1>7, <2>8, <3>2
      <4>2. PICK n \in x.at + 1 .. x.end : By(x, n) = u /\ No(x, n) = k
        BY <1>2, <4>1 DEF StampsOK
      <4>3. n \in v.at + 1 .. v.end /\ Held(x, n) /\ n \in Nat
        BY <1>8, <1>9 DEF Held
      <4> QED
        BY <2>2, <4>2, <4>3
    <3> QED
      BY <3>1, <3>2
  <2>9. \A u \in Threads : u % build'.rails = r => got'[w][u] <= sent'[u][w]
    <3> SUFFICES ASSUME NEW u \in Threads, u % build.rails = r PROVE got[w][u] <= sent'[u][w]
      BY <1>3
    <3>1. got[w][u] <= sent[u][w]
      BY <1>2 DEF StampsOK
    <3> QED
      BY <1>7, <2>4, <3>1
  <2> QED
    BY <2>5, <2>6, <2>7, <2>8, <2>9 DEF StampsOK
<1>13. PlacesOK(w, r, v)'
  <2>1. /\ (Reading(w)' <=> Reading(w)) /\ (Moved(w)' <=> Moved(w))
        /\ BaseHead(w, r)' = BaseHead(w, r) /\ NextHead(w, r)' = NextHead(w, r)
    <3>1. (Reading(w)' <=> Reading(w)) /\ (Moved(w)' <=> Moved(w))
      BY <1>3 DEF Reading, Moved, Rehead, bumped
    <3>2. BaseHead(w, r)' = BaseHead(w, r) /\ NextHead(w, r)' = NextHead(w, r)
      BY <1>3 DEF BaseHead, NextHead
    <3> QED
      BY <3>1, <3>2
  <2>2. /\ ReachedBy(v, v.cut) = ReachedBy(x, x.cut) /\ ReachedBy(v, v.at) = ReachedBy(x, x.at)
        /\ v.item[v.lo] = x.item[x.lo] /\ Leaves(v, v.end) = LinkOf(m)
    BY <1>8, <1>9
  <2>3. PlacesOK(w, r, x)
    BY <1>2
  <2> QED
    BY <1>3, <1>6, <1>8, <2>1, <2>2, <2>3 DEF PlacesOK
<1>14. AgesOK(w, v)'
  <2> SUFFICES ASSUME build'.kind = "epoch", NEW n \in Nat, Held(v, n)
               PROVE  age'[v.item[n]] <= Lead(By(v, n), w)'
                         + IF bumped(w)' /\ (Reading(w)' => n <= v.cut) THEN 2 ELSE 1
    BY DEF AgesOK
  <2>1. bumped(w)' = bumped(w) /\ (Reading(w)' <=> Reading(w))
    BY <1>3 DEF bumped, Reading
  <2>2. CASE Held(x, n)
    <3>1. v.item[n] = x.item[n] /\ By(v, n)' = By(x, n)
      BY <1>10, <2>2 DEF By
    <3>2. Lead(By(v, n), w)' = Lead(By(x, n), w)
      BY <1>3, <3>1 DEF Lead
    <3>3. age[x.item[n]] <= Lead(By(x, n), w)
                       + IF bumped(w) /\ (Reading(w) => n <= x.cut) THEN 2 ELSE 1
      BY <1>2, <1>3, <2>2 DEF AgesOK
    <3> QED
      BY <1>3, <1>8, <2>1, <3>1, <3>2, <3>3
  <2>3. CASE n = x.end + 1
    <3>1. age'[v.item[n]] = 0
      BY <1>3, <1>8, <2>3 DEF MemoryOK
    <3>2. Lead(By(v, n), w)' \in {-1, 0, 1}
      BY DEF Lead
    <3> QED
      BY <3>1, <3>2
  <2> QED
    BY <1>8, <2>2, <2>3
<1>15. RailOK(w, r, v)'
  BY <1>8, <1>11, <1>12, <1>13, <1>14 DEF RailOK
<1> QED
  BY <1>8, <1>15

(* Exchange keeps the invariant: the rail of the new message is one        *)
(* longer, with a gap before it, and no other rail changes.                *)
LEMMA ExchangeKept ==
  ASSUME IInv, NEW t \in Threads, NEW w \in Threads, Exchange(t, w)
  PROVE  IInv'
<1>0. TypeOK /\ MemoryOK /\ EpochsOK /\ RailsOK
  BY DEF IInv
<1>1. PICK r \in Rails : r = t % build.rails
  BY <1>0, BuildFacts
<1>2. TypeOK'
  BY <1>0, ExchangeType
<1>3. PICK m \in Msgs \ live :
              /\ stamp' = [stamp EXCEPT ![m] = [by |-> t, to |-> w, no |-> sent[t][w] + 1]]
              /\ pending' = [pending EXCEPT ![t] = [old |-> tailp[w][r], msg |-> m]]
              /\ tailp' = [tailp EXCEPT ![w][r] = LinkOf(m)]
  BY <1>0, <1>1, ExchangeType
<1>4. /\ build' = build /\ pc' = pc /\ link' = link /\ age' = age /\ headp' = headp
      /\ owner' = owner /\ from' = from /\ upto' = upto /\ given' = given
      /\ epoch' = epoch /\ began' = began /\ got' = got
      /\ pending[t] = NoSend /\ sent' = [sent EXCEPT ![t][w] = @ + 1]
  BY DEF Exchange, At
<1>5. /\ stamp'[m] = [by |-> t, to |-> w, no |-> sent[t][w] + 1]
      /\ \A k \in Msgs : k # m => stamp'[k] = stamp[k]
  BY <1>0, <1>3 DEF TypeOK
<1>6. /\ pending'[t] = [old |-> tailp[w][r], msg |-> m]
      /\ \A u \in Threads : u # t => pending'[u] = pending[u]
  BY <1>0, <1>3 DEF TypeOK
<1>7. live' = live \cup {m}
  <2>1. [by |-> t, to |-> w, no |-> sent[t][w] + 1] # Freed
    <3>1. sent[t][w] \in Nat
      BY <1>0 DEF TypeOK
    <3>2. [by |-> t, to |-> w, no |-> sent[t][w] + 1].no # Freed.no
      BY <3>1 DEF Freed
    <3> QED
      BY <3>2
  <2> QED
    BY <1>5, <2>1 DEF live
<1>8. MemoryOK'
  <2>1. \A k \in Msgs \ live' : link'[LinkOf(k)] = Null /\ age'[k] = 0
    BY <1>0, <1>4, <1>7 DEF MemoryOK
  <2>2. ASSUME NEW u \in Threads, pending'[u] # NoSend
        PROVE  pending'[u].msg \in live' /\ stamp'[pending'[u].msg].by = u
    <3>1. CASE u = t
      BY <1>5, <1>6, <1>7, <3>1
    <3>2. CASE u # t
      <4>1. pending'[u] = pending[u] /\ pending[u].msg \in live /\ stamp[pending[u].msg].by = u
        BY <1>0, <1>6, <2>2, <3>2 DEF MemoryOK
      <4>2. stamp'[pending[u].msg] = stamp[pending[u].msg]
        BY <1>0, <1>5, <4>1, LiveTypes
      <4> QED
        BY <1>7, <4>1, <4>2
    <3> QED
      BY <3>1, <3>2
  <2> QED
    BY <2>1, <2>2 DEF MemoryOK
<1>9. EpochsOK'
  BY <1>0, <1>4 DEF EpochsOK, bumped
<1>10. ASSUME NEW u \in Threads, NEW q \in Rails
       PROVE  \E v \in Witnesses : RailOK(u, q, v)'
  <2>1. PICK x \in Witnesses : RailOK(u, q, x)
    BY <1>0 DEF RailsOK
  <2>2. CASE u = w /\ q = r
    BY <1>0, <1>1, <1>2, <1>3, <2>1, <2>2, ExchangeRail
  <2>3. CASE ~ (u = w /\ q = r)
    <3>1. StampsOK(u, q, x) /\ Ordered(x)
      BY <2>1 DEF RailOK
    <3>2. SameLinks(u, q, x)
      <4>1. \A n \in Nat : Held(x, n) => stamp'[x.item[n]] = stamp[x.item[n]]
        <5> SUFFICES ASSUME NEW n \in Nat, Held(x, n) PROVE stamp'[x.item[n]] = stamp[x.item[n]]
          OBVIOUS
        <5>1. x.item[n] \in live
          BY <3>1, WitnessFacts DEF StampsOK, live
        <5> QED
          BY <1>0, <1>5, <5>1, LiveTypes
      <4>2. ASSUME NEW z \in Threads, Sends(z, u, q)'
            PROVE  Sends(z, u, q)
        <5>1. CASE z = t
          <6>1. t % build.rails = q /\ stamp'[m].to = u
            BY <1>4, <1>6, <4>2, <5>1 DEF Sends
          <6> QED
            BY <1>1, <1>5, <2>3, <6>1
        <5>2. CASE z # t
          <6>1. pending'[z] = pending[z] /\ pending[z] # NoSend /\ z % build.rails = q
                /\ stamp'[pending[z].msg].to = u
            BY <1>4, <1>6, <4>2, <5>2 DEF Sends
          <6>2. stamp'[pending[z].msg] = stamp[pending[z].msg]
            BY <1>0, <1>5, <6>1, LiveTypes DEF MemoryOK
          <6> QED
            BY <6>1, <6>2 DEF Sends
        <5> QED
          BY <5>1, <5>2
      <4>3. \A z \in Threads : Sends(z, u, q) => pending'[z] = pending[z]
        BY <1>4, <1>6 DEF Sends
      <4>4. \A z \in Threads : z % build.rails = q => sent'[z][u] = sent[z][u] /\ got'[u][z] = got[u][z]
        BY <1>0, <1>1, <1>4, <2>3 DEF TypeOK
      <4> QED
        BY <1>4, <4>1, <4>2, <4>3, <4>4 DEF SameLinks, SameStamps
    <3>3. SamePlaces(u, q)
      <4>1. tailp'[u][q] = tailp[u][q]
        BY <1>0, <1>3, <2>3 DEF TypeOK
      <4>2. /\ headp' = headp /\ from' = from /\ upto' = upto /\ given' = given /\ owner' = owner
            /\ pc' = pc /\ epoch' = epoch /\ began' = began /\ build' = build
        BY <1>4
      <4> QED
        BY <4>1, <4>2 DEF SamePlaces
    <3>4. Quiet(u, q, x)
      BY <1>4, <3>2, <3>3 DEF Quiet, Untouched, SameLinks
    <3>5. RailOK(u, q, x)'
      BY <1>0, <1>2, <2>1, <3>4, QuietKept
    <3> QED
      BY <3>5
  <2> QED
    BY <2>2, <2>3
<1>11. Rails' = Rails /\ Witnesses' = Witnesses
  BY <1>4 DEF Rails, Witnesses, Links
<1>12. RailsOK'
  BY <1>10, <1>11 DEF RailsOK
<1> QED
  BY <1>2, <1>8, <1>9, <1>12 DEF IInv

-----------------------------------------------------------------------------
(* The place where a message is to be linked up.                           *)
LEMMA PendingPlace ==
  ASSUME IInv, NEW t \in Threads, pending[t] # NoSend
  PROVE  /\ pending[t].old \in Links /\ pending[t].msg \in live /\ pending[t].msg \in Msgs
         /\ \E w \in Threads, r \in Rails : \E x \in Witnesses :
              /\ w = stamp[pending[t].msg].to /\ r = t % build.rails
              /\ RailOK(w, r, x)
              /\ \E n \in x.at .. x.end - 1 : Gap(x, n, t)
<1>0. TypeOK /\ MemoryOK /\ EpochsOK /\ RailsOK
  BY DEF IInv
<1>1. pending[t] \in [old : Links, msg : Msgs]
  BY <1>0 DEF TypeOK
<1>2. pending[t].msg \in live
  BY <1>0 DEF MemoryOK
<1>3. PICK w \in Threads : w = stamp[pending[t].msg].to
  BY <1>0, <1>2, LiveTypes
<1>4. PICK r \in Rails : r = t % build.rails
  BY <1>0, BuildFacts
<1>5. PICK x \in Witnesses : RailOK(w, r, x)
  BY <1>0 DEF RailsOK
<1>6. Sends(t, w, r)
  BY <1>3, <1>4 DEF Sends
<1>7. \E n \in x.at .. x.end - 1 : Gap(x, n, t)
  BY <1>5, <1>6 DEF RailOK, LinksOK
<1> QED
  BY <1>1, <1>2, <1>3, <1>4, <1>5, <1>7

(* LinkUp keeps the types.                                                 *)
LEMMA LinkUpType ==
  ASSUME IInv, NEW t \in Threads, LinkUp(t)
  PROVE  TypeOK'
<1>0. TypeOK
  BY DEF IInv
<1>1. pending[t] # NoSend
  BY DEF LinkUp
<1> DEFINE m == pending[t].msg
<1>2. pending[t].old \in Links /\ m \in Msgs
  BY <1>1, PendingPlace
<1>3. /\ link' = [link EXCEPT ![pending[t].old] = m]
      /\ pending' = [pending EXCEPT ![t] = NoSend]
      /\ \/ /\ sentNext' = [sentNext EXCEPT ![LinkOf(m)] = Null, ![sentTail[t]] = m]
            /\ sentTail' = [sentTail EXCEPT ![t] = LinkOf(m)]
         \/ UNCHANGED <<sentNext, sentTail>>
      /\ UNCHANGED <<build, pc, age, stamp, channelVars, scan, keeps, epoch, began, history>>
  BY DEF LinkUp
<1> HIDE DEF m
<1>4. link' \in [Links -> Msgs \cup {Null, Mark}]
  BY <1>0, <1>2, <1>3 DEF TypeOK
<1>5. pending' \in [Threads -> [old : Links, msg : Msgs] \cup {NoSend}]
  BY <1>0, <1>3 DEF TypeOK
<1>6. LinkOf(m) \in SentLinks
  BY <1>2 DEF SentLinks
<1>7. sentNext' \in [SentLinks -> Msgs \cup {Null}] /\ sentTail' \in [Threads -> SentLinks]
  <2>1. sentNext \in [SentLinks -> Msgs \cup {Null}] /\ sentTail \in [Threads -> SentLinks]
    BY <1>0 DEF TypeOK
  <2>2. CASE sentNext' = [sentNext EXCEPT ![LinkOf(m)] = Null, ![sentTail[t]] = m]
             /\ sentTail' = [sentTail EXCEPT ![t] = LinkOf(m)]
    <3>1. sentTail' \in [Threads -> SentLinks]
      BY <1>6, <2>1, <2>2
    <3>2. sentNext' \in [SentLinks -> Msgs \cup {Null}]
      BY <1>2, <2>1, <2>2
    <3> QED
      BY <3>1, <3>2
  <2>3. CASE UNCHANGED <<sentNext, sentTail>>
    BY <2>1, <2>3
  <2> QED
    BY <1>3, <2>2, <2>3
<1>8. Rails' = Rails /\ Links' = Links /\ build' = build
  BY <1>3 DEF Rails, Links
<1> QED
  BY <1>0, <1>3, <1>4, <1>5, <1>7, <1>8 DEF TypeOK, channelVars, history

(* LinkUp keeps the invariant: it fills the gap that is the writer's.      *)
LEMMA LinkUpKept ==
  ASSUME IInv, NEW t \in Threads, LinkUp(t)
  PROVE  IInv'
<1>0. TypeOK /\ MemoryOK /\ EpochsOK /\ RailsOK
  BY DEF IInv
<1>1. TypeOK'
  BY LinkUpType
<1>2. pending[t] # NoSend
  BY DEF LinkUp
<1>3. /\ pending[t].old \in Links /\ pending[t].msg \in live /\ pending[t].msg \in Msgs
  BY <1>2, PendingPlace
<1>4. PICK w \in Threads, r \in Rails, x \in Witnesses :
              /\ w = stamp[pending[t].msg].to /\ r = t % build.rails
              /\ RailOK(w, r, x)
              /\ \E n \in x.at .. x.end - 1 : Gap(x, n, t)
  BY <1>2, PendingPlace
<1>5. PICK n \in x.at .. x.end - 1 : Gap(x, n, t)
  BY <1>4
<1>6. Ordered(x) /\ LinksOK(w, r, x) /\ StampsOK(w, r, x) /\ PlacesOK(w, r, x)
  BY <1>4 DEF RailOK
<1>7. /\ x.lo \in Nat /\ x.at \in Nat /\ x.cut \in Nat /\ x.end \in Nat
      /\ x.lo <= x.at /\ x.at <= x.cut /\ x.cut <= x.end
      /\ n \in Nat /\ n \in x.lo .. x.end /\ n # x.end /\ n + 1 \in Nat
  BY <1>6, WitnessFacts DEF Ordered
<1>8. /\ pending[t].old = Leaves(x, n) /\ pending[t].msg = x.item[n + 1]
      /\ link[Leaves(x, n)] = Null
  BY <1>5 DEF Gap
<1>9. By(x, n + 1) = t /\ Held(x, n + 1) /\ Leaves(x, n) \in Links
  BY <1>0, <1>5, <1>6, <1>7, GapSends, WitnessFacts
<1>10. /\ link' = [link EXCEPT ![pending[t].old] = pending[t].msg]
       /\ pending' = [pending EXCEPT ![t] = NoSend]
       /\ build' = build /\ pc' = pc /\ age' = age /\ stamp' = stamp
       /\ tailp' = tailp /\ headp' = headp /\ owner' = owner /\ from' = from /\ upto' = upto
       /\ given' = given /\ epoch' = epoch /\ began' = began /\ sent' = sent /\ got' = got
  BY DEF LinkUp, channelVars, history
<1>11. /\ link'[Leaves(x, n)] = x.item[n + 1]
       /\ \A l \in Links : l # Leaves(x, n) => link'[l] = link[l]
       /\ pending'[t] = NoSend
       /\ \A u \in Threads : u # t => pending'[u] = pending[u]
  BY <1>0, <1>8, <1>9, <1>10 DEF TypeOK
<1>12. live' = live
  BY <1>10 DEF live
<1>13. MemoryOK'
  <2>1. ASSUME NEW k \in Msgs \ live PROVE link'[LinkOf(k)] = Null /\ age'[k] = 0
    <3>1. LinkOf(k) # Leaves(x, n)
      <4>1. \/ Leaves(x, n) = LinkOf(x.item[n]) /\ Held(x, n)
            \/ Leaves(x, n) = HeadLink(w, r, 0) \/ Leaves(x, n) = HeadLink(w, r, 1)
        BY <1>0, <1>6, <1>7, LeavesAre
      <4>2. Held(x, n) => x.item[n] \in live
        BY <1>6, <1>7, WitnessFacts DEF StampsOK, live
      <4> QED
        BY <4>1, <4>2, LinkFacts
    <3>2. LinkOf(k) \in Links
      BY LinksAre
    <3> QED
      BY <1>0, <1>10, <1>11, <3>1, <3>2 DEF MemoryOK
  <2>2. \A u \in Threads : pending'[u] # NoSend => pending'[u].msg \in live' /\ stamp'[pending'[u].msg].by = u
    BY <1>0, <1>10, <1>11, <1>12 DEF MemoryOK
  <2> QED
    BY <1>12, <2>1, <2>2 DEF MemoryOK
<1>14. EpochsOK'
  BY <1>0, <1>10 DEF EpochsOK, bumped
<1>15. ASSUME NEW u \in Threads, NEW q \in Rails, NEW v \in Witnesses
       PROVE  Untouched(u, q, v)
  <2>1. SameStamps(u, q, v)
    BY <1>10 DEF SameStamps
  <2>2. SamePlaces(u, q)
    BY <1>10 DEF SamePlaces
  <2> QED
    BY <1>10, <2>1, <2>2 DEF Untouched
<1>16. RailOK(w, r, x)'
  <2>1. Ordered(x) /\ StampsOK(w, r, x)' /\ PlacesOK(w, r, x)' /\ AgesOK(w, x)'
    BY <1>0, <1>1, <1>4, <1>15, UntouchedKept
  <2>2. \A k \in x.lo .. x.end : k # n => Leaves(x, k) # Leaves(x, n)
    BY <1>0, <1>6, <1>7, LeavesOnce
  <2>3. \A k \in x.lo .. x.end : k # n => link'[Leaves(x, k)] = link[Leaves(x, k)]
    BY <1>7, <1>11, <2>2, WitnessFacts
  <2>4. ASSUME NEW k \in x.at .. x.end - 1, NEW u \in Threads, Gap(x, k, u), u # t
        PROVE  Gap(x, k, u)'
    <3>1. k # n
      <4>1. By(x, k + 1) = u
        BY <1>0, <1>6, <2>4, GapSends
      <4> QED
        BY <1>9, <2>4, <4>1
    <3>2. link'[Leaves(x, k)] = link[Leaves(x, k)] /\ pending'[u] = pending[u]
      BY <1>7, <1>11, <2>3, <2>4, <3>1
    <3> QED
      BY <2>4, <3>2 DEF Gap
  <2>5. ASSUME NEW k \in x.at .. x.end - 1, Gap(x, k, t) PROVE k = n
    <3>1. Leaves(x, k) = Leaves(x, n)
      BY <1>8, <2>5 DEF Gap
    <3> QED
      BY <1>7, <2>2, <3>1
  <2>6. \A k \in x.lo .. x.at - 1 : link'[Leaves(x, k)] = x.item[k + 1]
    BY <1>6, <1>7, <2>3 DEF LinksOK
  <2>7. ASSUME NEW k \in x.at .. x.end - 1
        PROVE  link'[Leaves(x, k)] = x.item[k + 1] \/ \E u \in Threads : Gap(x, k, u)'
    <3>1. CASE k = n
      BY <1>11, <3>1
    <3>2. CASE k # n
      <4>1. link[Leaves(x, k)] = x.item[k + 1] \/ \E u \in Threads : Gap(x, k, u)
        BY <1>6 DEF LinksOK
      <4>2. link'[Leaves(x, k)] = link[Leaves(x, k)]
        BY <1>7, <2>3, <3>2
      <4> QED
        BY <2>4, <2>5, <3>2, <4>1, <4>2
    <3> QED
      BY <3>1, <3>2
  <2>8. link'[Leaves(x, x.end)] = Null
    BY <1>6, <1>7, <2>3 DEF LinksOK
  <2>9. ASSUME NEW u \in Threads, Sends(u, w, r)'
        PROVE  \E k \in x.at .. x.end - 1 : Gap(x, k, u)'
    <3>1. u # t
      BY <1>11, <2>9 DEF Sends
    <3>2. Sends(u, w, r)
      BY <1>10, <1>11, <2>9, <3>1 DEF Sends
    <3>3. PICK k \in x.at .. x.end - 1 : Gap(x, k, u)
      BY <1>6, <3>2 DEF LinksOK
    <3> QED
      BY <2>4, <3>1, <3>3
  <2>10. LinksOK(w, r, x)'
    BY <2>6, <2>7, <2>8, <2>9 DEF LinksOK
  <2> QED
    BY <2>1, <2>10 DEF RailOK
<1>17. ASSUME NEW u \in Threads, NEW q \in Rails
       PROVE  \E v \in Witnesses : RailOK(u, q, v)'
  <2>1. PICK v \in Witnesses : RailOK(u, q, v)
    BY <1>0 DEF RailsOK
  <2>2. CASE u = w /\ q = r
    BY <1>16, <2>2
  <2>3. CASE ~ (u = w /\ q = r)
    <3>1. StampsOK(u, q, v) /\ Ordered(v) /\ PlacesOK(u, q, v)
      BY <2>1 DEF RailOK
    <3>2. ASSUME NEW k \in v.lo .. v.end PROVE link'[Leaves(v, k)] = link[Leaves(v, k)]
      <4>1. Leaves(v, k) # Leaves(x, n)
        BY <1>0, <1>6, <1>7, <2>3, <3>1, LeavesApart
      <4>2. k \in Nat
        BY WitnessFacts
      <4> QED
        BY <1>11, <4>1, <4>2, WitnessFacts
    <3>3. \A z \in Threads : Sends(z, u, q)' => Sends(z, u, q)
      BY <1>10, <1>11 DEF Sends
    <3>4. \A z \in Threads : Sends(z, u, q) => pending'[z] = pending[z]
      BY <1>4, <1>11, <2>3 DEF Sends
    <3>5. Untouched(u, q, v)
      BY <1>15
    <3>6. Quiet(u, q, v)
      BY <3>2, <3>3, <3>4, <3>5 DEF Quiet, SameLinks, Untouched
    <3>7. RailOK(u, q, v)'
      BY <1>0, <1>1, <2>1, <3>6, QuietKept
    <3> QED
      BY <3>7
  <2> QED
    BY <2>2, <2>3
<1>18. Rails' = Rails /\ Witnesses' = Witnesses
  BY <1>10 DEF Rails, Witnesses, Links
<1>19. RailsOK'
  BY <1>17, <1>18 DEF RailsOK
<1> QED
  BY <1>1, <1>13, <1>14, <1>19 DEF IInv

-----------------------------------------------------------------------------
(* A step that only moves a thread between the parts of progress that do   *)
(* not read.                                                               *)
Idle(t) ==
  /\ UNCHANGED <<build, link, age, stamp, channelVars, pending, epoch, began, history>>
  /\ \A u \in Threads : u # t => pc'[u] = pc[u]
  /\ ~ Reading(t) /\ ~ Reading(t)'

(* A step between parts of progress that do not read keeps the invariant.  *)
LEMMA IdleKept ==
  ASSUME IInv, TypeOK', EpochsOK', NEW t \in Threads, Idle(t)
  PROVE  IInv'
<1>0. TypeOK /\ MemoryOK /\ RailsOK
  BY DEF IInv
<1>1. /\ build' = build /\ link' = link /\ age' = age /\ stamp' = stamp /\ tailp' = tailp
      /\ headp' = headp /\ owner' = owner /\ from' = from /\ upto' = upto /\ given' = given
      /\ pending' = pending /\ epoch' = epoch /\ began' = began /\ sent' = sent /\ got' = got
  BY DEF Idle, channelVars, history
<1>2. live' = live
  BY <1>1 DEF live
<1>3. MemoryOK'
  BY <1>0, <1>1, <1>2 DEF MemoryOK
<1>4. ASSUME NEW u \in Threads, NEW q \in Rails PROVE \E v \in Witnesses : RailOK(u, q, v)'
  <2>1. PICK v \in Witnesses : RailOK(u, q, v)
    BY <1>0 DEF RailsOK
  <2>2. SamePlaces(u, q)
    <3>1. pc'[u] = pc[u] \/ (~ Reading(u) /\ ~ Reading(u)')
      BY DEF Idle
    <3> QED
      BY <1>1, <3>1 DEF SamePlaces
  <2>3. SameLinks(u, q, v)
    <3>1. \A z \in Threads : Sends(z, u, q)' = Sends(z, u, q)
      BY <1>1 DEF Sends
    <3> QED
      BY <1>1, <3>1 DEF SameLinks, SameStamps
  <2>4. Quiet(u, q, v)
    BY <1>1, <2>2, <2>3 DEF Quiet, Untouched, SameLinks
  <2>5. RailOK(u, q, v)'
    BY <1>0, <2>1, <2>4, QuietKept
  <2> QED
    BY <2>5
<1>5. Rails' = Rails /\ Witnesses' = Witnesses
  BY <1>1 DEF Rails, Witnesses, Links
<1>6. RailsOK'
  BY <1>4, <1>5 DEF RailsOK
<1> QED
  BY <1>3, <1>6 DEF IInv

-----------------------------------------------------------------------------
(* What Free does, message by message and link by link.                    *)
LEMMA FreeIs ==
  ASSUME TypeOK, NEW ms, NEW newLink, NEW newNext, NEW newAge,
         Free(ms, newLink, newNext, newAge), build' = build
  PROVE  /\ \A k \in Msgs : k \in ms => link'[LinkOf(k)] = Null /\ age'[k] = 0 /\ stamp'[k] = Freed
         /\ \A k \in Msgs : k \notin ms => /\ link'[LinkOf(k)] = newLink[LinkOf(k)]
                                           /\ age'[k] = newAge[k] /\ stamp'[k] = stamp[k]
         /\ \A t \in Threads, r \in Rails : /\ link'[HeadLink(t, r, 0)] = newLink[HeadLink(t, r, 0)]
                                            /\ link'[HeadLink(t, r, 1)] = newLink[HeadLink(t, r, 1)]
         /\ live' = live \ ms
<1> DEFINE ls == {LinkOf(m) : m \in ms}
<1>1. /\ link' = [l \in Links |-> IF l \in ls THEN Null ELSE newLink[l]]
      /\ age' = [m \in Msgs |-> IF m \in ms THEN 0 ELSE newAge[m]]
      /\ stamp' = [m \in Msgs |-> IF m \in ms THEN Freed ELSE stamp[m]]
  BY DEF Free
<1>2. /\ \A k : LinkOf(k) \in ls <=> k \in ms
      /\ \A t, r, i : HeadLink(t, r, i) \notin ls
  BY LinkFacts
<1> HIDE DEF ls
<1>3. /\ \A k \in Msgs : LinkOf(k) \in Links
      /\ \A t \in Threads, r \in Rails : HeadLink(t, r, 0) \in Links /\ HeadLink(t, r, 1) \in Links
  BY LinksAre
<1>4. \A k \in Msgs : k \in ms => link'[LinkOf(k)] = Null /\ age'[k] = 0 /\ stamp'[k] = Freed
  BY <1>1, <1>2, <1>3
<1>5. \A k \in Msgs : k \notin ms => /\ link'[LinkOf(k)] = newLink[LinkOf(k)]
                                     /\ age'[k] = newAge[k] /\ stamp'[k] = stamp[k]
  BY <1>1, <1>2, <1>3
<1>6. \A t \in Threads, r \in Rails : /\ link'[HeadLink(t, r, 0)] = newLink[HeadLink(t, r, 0)]
                                      /\ link'[HeadLink(t, r, 1)] = newLink[HeadLink(t, r, 1)]
  BY <1>1, <1>2, <1>3
<1>7. live' = live \ ms
  BY <1>4, <1>5 DEF live
<1> QED
  BY <1>4, <1>5, <1>6, <1>7

(* Free keeps the types,                                                   *)
LEMMA FreeType ==
  ASSUME TypeOK, NEW ms, NEW newLink \in [Links -> Msgs \cup {Null, Mark}],
         NEW newNext \in [SentLinks -> Msgs \cup {Null}], NEW newAge \in [Msgs -> Nat],
         Free(ms, newLink, newNext, newAge)
  PROVE  /\ link' \in [Links -> Msgs \cup {Null, Mark}]
         /\ sentNext' \in [SentLinks -> Msgs \cup {Null}]
         /\ age' \in [Msgs -> Nat]
         /\ stamp' \in [Msgs -> [by : Threads, to : Threads, no : Nat \ {0}] \cup {Freed}]
<1> DEFINE ls == {LinkOf(m) : m \in ms}
<1>1. /\ link' = [l \in Links |-> IF l \in ls THEN Null ELSE newLink[l]]
      /\ sentNext' = [l \in SentLinks |-> IF l \in ls THEN Null ELSE newNext[l]]
      /\ age' = [m \in Msgs |-> IF m \in ms THEN 0 ELSE newAge[m]]
      /\ stamp' = [m \in Msgs |-> IF m \in ms THEN Freed ELSE stamp[m]]
  BY DEF Free
<1> HIDE DEF ls
<1>2. stamp \in [Msgs -> [by : Threads, to : Threads, no : Nat \ {0}] \cup {Freed}]
  BY DEF TypeOK
<1>3. stamp' \in [Msgs -> [by : Threads, to : Threads, no : Nat \ {0}] \cup {Freed}]
  BY <1>1, <1>2
<1>4. link' \in [Links -> Msgs \cup {Null, Mark}]
  BY <1>1
<1>5. sentNext' \in [SentLinks -> Msgs \cup {Null}]
  BY <1>1
<1>6. age' \in [Msgs -> Nat]
  BY <1>1
<1> QED
  BY <1>3, <1>4, <1>5, <1>6

(* Messages that no rail holds are freed.                                  *)
NotHeld(ms) ==
  \A u \in Threads, q \in Rails : \A v \in Witnesses :
     RailOK(u, q, v) => \A n \in Nat : Held(v, n) => v.item[n] \notin ms

(* a writer's next message is not among those no rail holds,               *)
LEMMA PendingNotFreed ==
  ASSUME IInv, NEW ms, NotHeld(ms), NEW u \in Threads, pending[u] # NoSend
  PROVE  pending[u].msg \notin ms /\ pending[u].msg \in live
<1>1. pending[u].msg \in live
  BY DEF IInv, MemoryOK
<1>2. PICK w \in Threads, r \in Rails, x \in Witnesses :
          RailOK(w, r, x) /\ \E n \in x.at .. x.end - 1 : Gap(x, n, u)
  BY PendingPlace
<1>3. PICK n \in x.at .. x.end - 1 : Gap(x, n, u)
  BY <1>2
<1>4. Held(x, n + 1) /\ n + 1 \in Nat
  <2>1. Ordered(x) /\ x.lo \in Nat /\ x.at \in Nat /\ x.cut \in Nat /\ x.end \in Nat
    BY <1>2, WitnessFacts DEF RailOK
  <2> QED
    BY <2>1 DEF Ordered, Held
<1>5. x.item[n + 1] \notin ms
  BY <1>2, <1>4 DEF NotHeld
<1> QED
  BY <1>1, <1>3, <1>5 DEF Gap

(* and what is free stays clear.                                           *)
LEMMA FreeMemory ==
  ASSUME IInv, NEW ms, NotHeld(ms), NEW newNext, NEW newAge,
         Free(ms, link, newNext, newAge), build' = build, pending' = pending,
         \A k \in Msgs \ live : newAge[k] = 0
  PROVE  MemoryOK'
<1>0. TypeOK /\ MemoryOK
  BY DEF IInv
<1>1. /\ \A k \in Msgs : k \in ms => link'[LinkOf(k)] = Null /\ age'[k] = 0 /\ stamp'[k] = Freed
      /\ \A k \in Msgs : k \notin ms => /\ link'[LinkOf(k)] = link[LinkOf(k)]
                                        /\ age'[k] = newAge[k] /\ stamp'[k] = stamp[k]
      /\ live' = live \ ms
  BY <1>0, FreeIs
<1>2. \A k \in Msgs \ live' : link'[LinkOf(k)] = Null /\ age'[k] = 0
  BY <1>0, <1>1 DEF MemoryOK
<1>3. ASSUME NEW u \in Threads, pending[u] # NoSend
      PROVE  pending[u].msg \in live' /\ stamp'[pending[u].msg].by = u
  <2>1. pending[u].msg \in live /\ pending[u].msg \notin ms
    BY <1>3, PendingNotFreed
  <2>2. stamp[pending[u].msg].by = u /\ pending[u].msg \in Msgs
    BY <1>0, <1>3, <2>1, LiveTypes DEF MemoryOK
  <2> QED
    BY <1>1, <2>1, <2>2
<1> QED
  BY <1>2, <1>3 DEF MemoryOK

(* ... and the links and stamps of every rail stay.                        *)
LEMMA FreeLinks ==
  ASSUME IInv, NEW ms, NotHeld(ms), NEW newNext, NEW newAge,
         Free(ms, link, newNext, newAge), build' = build, pending' = pending,
         sent' = sent, got' = got,
         NEW t \in Threads, NEW r \in Rails, NEW w \in Witnesses, RailOK(t, r, w)
  PROVE  /\ SameLinks(t, r, w)
         /\ \A n \in Nat : Held(w, n) => age'[w.item[n]] = newAge[w.item[n]]
<1>0. TypeOK /\ Ordered(w) /\ PlacesOK(t, r, w) /\ StampsOK(t, r, w) /\ MemoryOK
  BY DEF IInv, RailOK
<1>1. /\ \A k \in Msgs : k \notin ms => /\ link'[LinkOf(k)] = link[LinkOf(k)]
                                        /\ age'[k] = newAge[k] /\ stamp'[k] = stamp[k]
      /\ link'[HeadLink(t, r, 0)] = link[HeadLink(t, r, 0)]
      /\ link'[HeadLink(t, r, 1)] = link[HeadLink(t, r, 1)]
  BY <1>0, FreeIs
<1>2. \A n \in Nat : Held(w, n) => w.item[n] \in Msgs /\ w.item[n] \notin ms
  BY WitnessFacts DEF NotHeld
<1>3. ASSUME NEW n \in w.lo .. w.end
      PROVE  link'[Leaves(w, n)] = link[Leaves(w, n)]
  <2>1. \/ Leaves(w, n) = LinkOf(w.item[n]) /\ Held(w, n)
        \/ Leaves(w, n) = HeadLink(t, r, 0) \/ Leaves(w, n) = HeadLink(t, r, 1)
    BY <1>0, LeavesAre
  <2>2. n \in Nat
    BY WitnessFacts
  <2> QED
    BY <1>1, <1>2, <2>1, <2>2
<1>4. \A n \in Nat : Held(w, n) => stamp'[w.item[n]] = stamp[w.item[n]]
                                   /\ age'[w.item[n]] = newAge[w.item[n]]
  BY <1>1, <1>2
<1>5. ASSUME NEW u \in Threads PROVE Sends(u, t, r)' <=> Sends(u, t, r)
  <2>1. CASE pending[u] = NoSend
    BY <2>1 DEF Sends
  <2>2. CASE pending[u] # NoSend
    <3>1. pending[u].msg \in Msgs /\ pending[u].msg \notin ms
      BY <1>0, <2>2, PendingNotFreed, LiveTypes
    <3>2. stamp'[pending[u].msg] = stamp[pending[u].msg]
      BY <1>1, <3>1
    <3> QED
      BY <3>2 DEF Sends
  <2> QED
    BY <2>1, <2>2
<1> QED
  BY <1>3, <1>4, <1>5 DEF SameLinks, SameStamps

-----------------------------------------------------------------------------
(* sym: a marked message is not held any more.                             *)
LEMMA MarkedNotHeld ==
  ASSUME IInv, build.kind = "sym", NEW m \in Msgs, link[LinkOf(m)] = Mark
  PROVE  NotHeld({m})
<1> SUFFICES ASSUME NEW u \in Threads, NEW q \in Rails, NEW v \in Witnesses,
                    RailOK(u, q, v), NEW n \in Nat, Held(v, n), v.item[n] = m
             PROVE  FALSE
  BY DEF NotHeld
<1>0. /\ TypeOK /\ Ordered(v) /\ LinksOK(u, q, v) /\ PlacesOK(u, q, v)
      /\ v.lo \in Nat /\ v.at \in Nat /\ v.cut \in Nat /\ v.end \in Nat
      /\ v.lo <= v.at /\ v.at <= v.cut /\ v.cut <= v.end
  BY WitnessFacts DEF IInv, RailOK, Ordered
<1>1. v.head = ReachedBy(v, v.cut)
  BY <1>0 DEF PlacesOK, Moved, Rehead
<1>2. Leaves(v, n) = LinkOf(m) /\ n \in v.lo .. v.end
  BY <1>1 DEF Leaves, ReachedBy, Held
<1>3. v.item[n + 1] # Mark /\ Null # Mark
  BY <1>0, WitnessFacts, MsgsAre
<1>4. link[Leaves(v, n)] \in {v.item[n + 1], Null}
  <2>1. CASE n = v.end
    BY <1>0, <2>1 DEF LinksOK
  <2>2. CASE n # v.end /\ n < v.at
    <3>1. n \in v.lo .. v.at - 1
      BY <1>0, <1>2, <2>2
    <3> QED
      BY <1>0, <3>1 DEF LinksOK
  <2>3. CASE n # v.end /\ ~ (n < v.at)
    <3>1. n \in v.at .. v.end - 1
      BY <1>0, <1>2, <2>3
    <3>2. link[Leaves(v, n)] = v.item[n + 1] \/ \E z \in Threads : Gap(v, n, z)
      BY <1>0, <3>1 DEF LinksOK
    <3> QED
      BY <3>2 DEF Gap
  <2> QED
    BY <2>1, <2>2, <2>3
<1> QED
  BY <1>2, <1>3, <1>4

(* ReclaimStep keeps the types.                                            *)
LEMMA ReclaimType ==
  ASSUME IInv, NEW t \in Threads, ReclaimStep(t)
  PROVE  TypeOK'
<1>0. TypeOK
  BY DEF IInv
<1> DEFINE m == sentNext[scan[t]]
<1>1. /\ sentNext \in [SentLinks -> Msgs \cup {Null}] /\ scan[t] \in SentLinks
      /\ link \in [Links -> Msgs \cup {Null, Mark}] /\ age \in [Msgs -> Nat]
      /\ keeps \in [Threads -> Nat] /\ keeps[t] \in Nat
      /\ scan \in [Threads -> SentLinks] /\ sentTail \in [Threads -> SentLinks]
      /\ pc \in [Threads -> {"user", "reclaim", "receive", "take", "give"}]
  BY <1>0 DEF TypeOK
<1>2. m \in Msgs \cup {Null}
  BY <1>1
<1>3. SentHead(t) \in SentLinks /\ \A k \in Msgs : LinkOf(k) \in SentLinks
  BY DEF SentLinks
<1> DEFINE free == m # Null /\ link[LinkOf(m)] = Mark
           goOn == m # Null /\ ~ free /\ keeps[t] + 1 < KeepMax
<1>4. UNCHANGED <<build, channelVars, pending, epoch, began, history>>
  BY DEF ReclaimStep
<1>5. \/ /\ free
         /\ Free({m}, link, [sentNext EXCEPT ![scan[t]] = sentNext[LinkOf(m)]], age)
         /\ UNCHANGED <<pc, sentVars>>
      \/ /\ goOn
         /\ scan' = [scan EXCEPT ![t] = LinkOf(m)]
         /\ keeps' = [keeps EXCEPT ![t] = @ + 1]
         /\ UNCHANGED <<pc, memory, sentTail>>
      \/ /\ sentTail' = [sentTail EXCEPT ![t] = scan[t]]
         /\ scan' = [scan EXCEPT ![t] = SentHead(t)] /\ keeps' = [keeps EXCEPT ![t] = 0]
         /\ pc' = [pc EXCEPT ![t] = "receive"]
         /\ UNCHANGED memory
  BY DEF ReclaimStep, Goto
<1>6. Rails' = Rails /\ Links' = Links /\ build' = build
  BY <1>4 DEF Rails, Links
<1>7. CASE /\ free
           /\ Free({m}, link, [sentNext EXCEPT ![scan[t]] = sentNext[LinkOf(m)]], age)
           /\ UNCHANGED <<pc, sentVars>>
  <2>1. m \in Msgs
    BY <1>2, <1>7
  <2> HIDE DEF m, free, goOn
  <2> DEFINE nn == [sentNext EXCEPT ![scan[t]] = sentNext[LinkOf(m)]]
  <2>2. nn \in [SentLinks -> Msgs \cup {Null}]
    BY <1>1, <1>3, <2>1
  <2>3. Free({m}, link, nn, age)
    BY <1>7
  <2> HIDE DEF nn
  <2>4. /\ link' \in [Links -> Msgs \cup {Null, Mark}]
        /\ sentNext' \in [SentLinks -> Msgs \cup {Null}]
        /\ age' \in [Msgs -> Nat]
        /\ stamp' \in [Msgs -> [by : Threads, to : Threads, no : Nat \ {0}] \cup {Freed}]
    BY <1>0, <1>1, <2>2, <2>3, FreeType
  <2> QED
    BY <1>0, <1>4, <1>6, <1>7, <2>4 DEF TypeOK, channelVars, history, sentVars
<1>8. CASE /\ goOn
           /\ scan' = [scan EXCEPT ![t] = LinkOf(m)]
           /\ keeps' = [keeps EXCEPT ![t] = @ + 1]
           /\ UNCHANGED <<pc, memory, sentTail>>
  <2>1. m \in Msgs
    BY <1>2, <1>8
  <2> HIDE DEF m, free, goOn
  <2>2. scan' \in [Threads -> SentLinks] /\ keeps' \in [Threads -> Nat]
    BY <1>1, <1>3, <1>8, <2>1
  <2> QED
    BY <1>0, <1>4, <1>6, <1>8, <2>2 DEF TypeOK, channelVars, history, memory
<1>9. CASE /\ sentTail' = [sentTail EXCEPT ![t] = scan[t]]
           /\ scan' = [scan EXCEPT ![t] = SentHead(t)] /\ keeps' = [keeps EXCEPT ![t] = 0]
           /\ pc' = [pc EXCEPT ![t] = "receive"]
           /\ UNCHANGED memory
  <2>1. /\ scan' \in [Threads -> SentLinks] /\ keeps' \in [Threads -> Nat]
        /\ sentTail' \in [Threads -> SentLinks]
        /\ pc' \in [Threads -> {"user", "reclaim", "receive", "take", "give"}]
    BY <1>1, <1>3, <1>9
  <2> QED
    BY <1>0, <1>4, <1>6, <1>9, <2>1 DEF TypeOK, channelVars, history, memory
<1> QED
  BY <1>5, <1>7, <1>8, <1>9

(* ReclaimStep keeps the invariant: what it frees is marked, and so not    *)
(* held.                                                                   *)
LEMMA ReclaimKept ==
  ASSUME IInv, NEW t \in Threads, ReclaimStep(t)
  PROVE  IInv'
<1>0. TypeOK /\ MemoryOK /\ EpochsOK /\ RailsOK /\ TypeOK'
  BY ReclaimType DEF IInv
<1> DEFINE m == sentNext[scan[t]]
           free == m # Null /\ link[LinkOf(m)] = Mark
<1>1. m \in Msgs \cup {Null}
  BY <1>0 DEF TypeOK
<1>2. /\ pc[t] = "reclaim" /\ build.kind = "sym"
  BY <1>0 DEF ReclaimStep, At, EpochsOK
<1>3. /\ build' = build /\ tailp' = tailp /\ headp' = headp /\ owner' = owner /\ from' = from
      /\ upto' = upto /\ given' = given /\ pending' = pending /\ epoch' = epoch
      /\ began' = began /\ sent' = sent /\ got' = got
  BY DEF ReclaimStep, channelVars, history
<1>4. \/ /\ free
         /\ Free({m}, link, [sentNext EXCEPT ![scan[t]] = sentNext[LinkOf(m)]], age)
         /\ pc' = pc
      \/ UNCHANGED memory /\ (pc' = pc \/ pc' = [pc EXCEPT ![t] = "receive"])
  BY DEF ReclaimStep, Goto
<1>5. EpochsOK'
  <2>1. \A u \in Threads : pc'[u] = pc[u] \/ (u = t /\ pc'[u] = "receive")
    BY <1>0, <1>4 DEF TypeOK
  <2>2. ~ bumped(t)
    BY <1>0, <1>2 DEF EpochsOK
  <2> QED
    BY <1>0, <1>3, <2>1, <2>2 DEF EpochsOK, bumped
<1>6. CASE UNCHANGED memory /\ (pc' = pc \/ pc' = [pc EXCEPT ![t] = "receive"])
  <2>1. \A u \in Threads : u # t => pc'[u] = pc[u]
    BY <1>0, <1>6 DEF TypeOK
  <2>2. pc'[t] \in {"reclaim", "receive"}
    BY <1>0, <1>2, <1>6 DEF TypeOK
  <2>3. ~ Reading(t) /\ ~ Reading(t)'
    BY <1>2, <2>2 DEF Reading
  <2>4. Idle(t)
    BY <1>3, <1>6, <2>1, <2>3 DEF Idle, channelVars, history, memory
  <2> QED
    BY <1>0, <1>5, <2>4, IdleKept
<1>7. CASE /\ free
           /\ Free({m}, link, [sentNext EXCEPT ![scan[t]] = sentNext[LinkOf(m)]], age)
           /\ pc' = pc
  <2>1. m \in Msgs /\ link[LinkOf(m)] = Mark
    BY <1>1, <1>7
  <2> HIDE DEF m, free
  <2>2. NotHeld({m})
    BY <1>2, <2>1, MarkedNotHeld
  <2> DEFINE nn == [sentNext EXCEPT ![scan[t]] = sentNext[LinkOf(m)]]
  <2>3. Free({m}, link, nn, age)
    BY <1>7
  <2> HIDE DEF nn
  <2>4. MemoryOK'
    <3>1. \A k \in Msgs \ live : age[k] = 0
      BY <1>0 DEF MemoryOK
    <3> QED
      BY <1>3, <2>2, <2>3, <3>1, FreeMemory
  <2>5. ASSUME NEW u \in Threads, NEW q \in Rails PROVE \E v \in Witnesses : RailOK(u, q, v)'
    <3>1. PICK v \in Witnesses : RailOK(u, q, v)
      BY <1>0 DEF RailsOK
    <3>2. SameLinks(u, q, v) /\ \A n \in Nat : Held(v, n) => age'[v.item[n]] = age[v.item[n]]
      BY <1>3, <2>2, <2>3, <3>1, FreeLinks
    <3>3. SamePlaces(u, q)
      BY <1>3, <1>7 DEF SamePlaces
    <3>4. Quiet(u, q, v)
      BY <1>3, <3>2, <3>3 DEF Quiet, Untouched, SameLinks
    <3>5. RailOK(u, q, v)'
      BY <1>0, <3>1, <3>4, QuietKept
    <3> QED
      BY <3>5
  <2>6. Rails' = Rails /\ Witnesses' = Witnesses
    BY <1>3 DEF Rails, Witnesses, Links
  <2>7. RailsOK'
    BY <2>5, <2>6 DEF RailsOK
  <2> QED
    BY <1>0, <1>5, <2>4, <2>7 DEF IInv
<1> QED
  BY <1>4, <1>6, <1>7

-----------------------------------------------------------------------------
(* Nobody is further from t than one epoch when t ends its own.            *)
LEMMA BumpFacts ==
  ASSUME TypeOK, EpochsOK, NEW t \in Threads, EpochBarrier!EveryoneBegan(t)
  PROVE  /\ began[t]
         /\ \A u \in Threads : \/ epoch[u] = epoch[t] /\ began[u]
                               \/ epoch[u] = After(epoch[t])
         /\ \A u \in Threads : Lead(t, u) \in {-1, 0}
         /\ \A u \in Threads : Lead(t, u) = 0 => ~ bumped(u)
         /\ \A u \in Threads : Lead(u, t) \in {0, 1}
<1>1. /\ began[t]
      /\ \A u \in Threads : \/ epoch[u] = epoch[t] /\ began[u]
                            \/ epoch[u] = After(epoch[t])
  BY DEF EpochBarrier!EveryoneBegan, After
<1>2. ASSUME NEW u \in Threads
      PROVE  Lead(t, u) \in {-1, 0} /\ (Lead(t, u) = 0 => ~ bumped(u)) /\ Lead(u, t) \in {0, 1}
  <2>1. epoch[t] \in 0 .. 3 /\ epoch[u] \in 0 .. 3
    BY EpochIs
  <2>2. After(After(epoch[t])) # epoch[t] /\ After(epoch[t]) # epoch[t]
    <3>1. After(epoch[t]) \in 0 .. 3
      BY <2>1, AfterIs
    <3> QED
      BY <2>1, <3>1, AfterIs
  <2> QED
    BY <1>1, <2>1, <2>2 DEF Lead, bumped
<1> QED
  BY <1>1, <1>2

(* ProgressBegin keeps the types.                                          *)
LEMMA ProgressType ==
  ASSUME IInv, NEW t \in Threads, ProgressBegin(t)
  PROVE  TypeOK'
<1>0. TypeOK
  BY DEF IInv
<1> DEFINE bump == build.kind = "epoch" /\ EpochBarrier!EveryoneBegan(t)
           na == [m \in Msgs |-> IF m \in live /\ stamp[m].by = t THEN age[m] + 1 ELSE age[m]]
<1>1. /\ pc' = [pc EXCEPT ![t] = IF build.kind = "sym" THEN "reclaim" ELSE "receive"]
      /\ epoch' = IF bump THEN [epoch EXCEPT ![t] = EpochBarrier!After(@)] ELSE epoch
      /\ began' = IF bump THEN [began EXCEPT ![t] = FALSE] ELSE began
      /\ IF bump THEN Free(Expired(t), link, sentNext, na) ELSE UNCHANGED memory
      /\ UNCHANGED <<build, channelVars, pending, sentVars, history>>
  BY DEF ProgressBegin, Goto
<1>2. /\ sentNext \in [SentLinks -> Msgs \cup {Null}]
      /\ link \in [Links -> Msgs \cup {Null, Mark}] /\ age \in [Msgs -> Nat]
      /\ pc \in [Threads -> {"user", "reclaim", "receive", "take", "give"}]
      /\ epoch \in [Threads -> 0 .. 3] /\ began \in [Threads -> BOOLEAN]
  BY <1>0 DEF TypeOK
<1>3. pc' \in [Threads -> {"user", "reclaim", "receive", "take", "give"}]
  BY <1>1, <1>2
<1>4. epoch' \in [Threads -> 0 .. 3]
  <2>1. EpochBarrier!After(epoch[t]) \in 0 .. 3
    BY <1>2, AfterIs DEF After
  <2> HIDE DEF bump
  <2> QED
    BY <1>1, <1>2, <2>1
<1>5. began' \in [Threads -> BOOLEAN]
  <2> HIDE DEF bump
  <2> QED
    BY <1>1, <1>2
<1>6. Rails' = Rails /\ Links' = Links /\ build' = build
  BY <1>1 DEF Rails, Links
<1>7. /\ link' \in [Links -> Msgs \cup {Null, Mark}]
      /\ sentNext' \in [SentLinks -> Msgs \cup {Null}]
      /\ age' \in [Msgs -> Nat]
      /\ stamp' \in [Msgs -> [by : Threads, to : Threads, no : Nat \ {0}] \cup {Freed}]
  <2>1. CASE bump
    <3>1. na \in [Msgs -> Nat]
      BY <1>2
    <3>2. Free(Expired(t), link, sentNext, na)
      BY <1>1, <2>1
    <3> HIDE DEF na
    <3> QED
      BY <1>0, <1>2, <3>1, <3>2, FreeType
  <2>2. CASE ~ bump
    <3>1. UNCHANGED memory
      BY <1>1, <2>2
    <3> QED
      BY <1>0, <3>1 DEF memory, TypeOK
  <2> QED
    BY <2>1, <2>2
<1> HIDE DEF bump, na
<1> QED
  BY <1>0, <1>1, <1>3, <1>4, <1>5, <1>6, <1>7 DEF TypeOK, channelVars, history, sentVars

(* The bump of a message arena frees no message that is held.              *)
LEMMA ExpiredNotHeld ==
  ASSUME IInv, NEW t \in Threads, build.kind = "epoch", EpochBarrier!EveryoneBegan(t)
  PROVE  NotHeld(Expired(t))
<1> SUFFICES ASSUME NEW u \in Threads, NEW q \in Rails, NEW v \in Witnesses,
                    RailOK(u, q, v), NEW n \in Nat, Held(v, n), v.item[n] \in Expired(t)
             PROVE  FALSE
  BY DEF NotHeld
<1>0. TypeOK /\ EpochsOK /\ AgesOK(u, v)
  BY DEF IInv, RailOK
<1>1. By(v, n) = t /\ age[v.item[n]] = MsgEpochs - 1
  BY DEF Expired, By
<1>2. age[v.item[n]] <= Lead(t, u) + IF bumped(u) /\ (Reading(u) => n <= v.cut) THEN 2 ELSE 1
  BY <1>0, <1>1 DEF AgesOK
<1>3. Lead(t, u) \in {-1, 0} /\ (Lead(t, u) = 0 => ~ bumped(u))
  BY <1>0, BumpFacts
<1>4. MsgEpochs \in Nat /\ MsgEpochs >= 3
  BY <1>0, BuildFacts
<1> QED
  BY <1>1, <1>2, <1>3, <1>4

(* ProgressBegin keeps the invariant: whoever may go to the next epoch     *)
(* finds nobody further than one epoch away, and what it frees is not      *)
(* held.                                                                   *)
LEMMA ProgressKept ==
  ASSUME IInv, NEW t \in Threads, ProgressBegin(t)
  PROVE  IInv'
<1>0. TypeOK /\ MemoryOK /\ EpochsOK /\ RailsOK /\ TypeOK'
  BY ProgressType DEF IInv
<1> DEFINE bump == build.kind = "epoch" /\ EpochBarrier!EveryoneBegan(t)
           na == [m \in Msgs |-> IF m \in live /\ stamp[m].by = t THEN age[m] + 1 ELSE age[m]]
<1>1. /\ pc[t] = "user"
      /\ pc' = [pc EXCEPT ![t] = IF build.kind = "sym" THEN "reclaim" ELSE "receive"]
      /\ epoch' = IF bump THEN [epoch EXCEPT ![t] = After(@)] ELSE epoch
      /\ began' = IF bump THEN [began EXCEPT ![t] = FALSE] ELSE began
      /\ IF bump THEN Free(Expired(t), link, sentNext, na) ELSE UNCHANGED memory
      /\ UNCHANGED <<build, channelVars, pending, sentVars, history>>
  BY DEF ProgressBegin, Goto, At, After
<1>2. /\ build' = build /\ tailp' = tailp /\ headp' = headp /\ owner' = owner /\ from' = from
      /\ upto' = upto /\ given' = given /\ pending' = pending /\ sent' = sent /\ got' = got
  BY <1>1 DEF channelVars, history
<1>3. /\ \A u \in Threads : u # t => pc'[u] = pc[u]
      /\ pc'[t] = IF build.kind = "sym" THEN "reclaim" ELSE "receive"
  BY <1>0, <1>1 DEF TypeOK
<1>4. ~ Reading(t) /\ ~ Reading(t)' /\ ~ bumped(t)
  BY <1>0, <1>1, <1>3 DEF Reading, EpochsOK
<1>5. CASE ~ bump
  <2>1. /\ epoch' = epoch /\ began' = began
        /\ link' = link /\ age' = age /\ stamp' = stamp
    BY <1>1, <1>5 DEF memory
  <2>2. EpochsOK'
    BY <1>0, <1>2, <1>3, <1>4, <2>1 DEF EpochsOK, bumped
  <2>3. Idle(t)
    BY <1>2, <1>3, <1>4, <2>1 DEF Idle, channelVars, history
  <2> QED
    BY <1>0, <2>2, <2>3, IdleKept
<1>6. CASE bump
  <2>1. build.kind = "epoch" /\ EpochBarrier!EveryoneBegan(t)
    BY <1>6
  <2>2. Free(Expired(t), link, sentNext, na)
    BY <1>1, <1>6
  <2>3. /\ epoch' = [epoch EXCEPT ![t] = After(@)]
        /\ began' = [began EXCEPT ![t] = FALSE]
    BY <1>1, <1>6
  <2>4. \A m \in Msgs : na[m] = IF m \in live /\ stamp[m].by = t THEN age[m] + 1 ELSE age[m]
    OBVIOUS
  <2> HIDE DEF bump, na
  <2>5. /\ epoch'[t] = After(epoch[t]) /\ began'[t] = FALSE
        /\ \A u \in Threads : u # t => epoch'[u] = epoch[u] /\ began'[u] = began[u]
    BY <1>0, <2>3 DEF TypeOK
  <2>6. /\ began[t]
        /\ \A u \in Threads : \/ epoch[u] = epoch[t] /\ began[u]
                              \/ epoch[u] = After(epoch[t])
        /\ \A u \in Threads : Lead(t, u) \in {-1, 0}
        /\ \A u \in Threads : Lead(t, u) = 0 => ~ bumped(u)
        /\ \A u \in Threads : Lead(u, t) \in {0, 1}
    BY <1>0, <2>1, BumpFacts
  <2>7. EpochsOK'
    <3>1. ASSUME NEW u \in Threads
          PROVE  /\ bumped(u)' => build'.kind = "epoch" /\ pc'[u] \in {"receive", "take", "give"}
                 /\ build'.kind # "epoch" => epoch'[u] = 0
                 /\ pc'[u] = "reclaim" => build'.kind = "sym"
                 /\ pc'[u] = "give" => build'.late
      <4>1. CASE u = t
        BY <1>2, <1>3, <2>1, <4>1
      <4>2. CASE u # t
        BY <1>0, <1>2, <1>3, <2>5, <4>2 DEF EpochsOK, bumped
      <4> QED
        BY <4>1, <4>2
    <3>2. ASSUME NEW u \in Threads, NEW z \in Threads
          PROVE  \/ epoch'[u] = epoch'[z]
                 \/ epoch'[u] = After(epoch'[z]) /\ began'[z]
                 \/ epoch'[z] = After(epoch'[u]) /\ began'[u]
      <4>1. CASE u = t /\ z = t
        BY <4>1
      <4>2. CASE u = t /\ z # t
        BY <2>5, <2>6, <4>2
      <4>3. CASE u # t /\ z = t
        BY <2>5, <2>6, <4>3
      <4>4. CASE u # t /\ z # t
        BY <1>0, <2>5, <4>4 DEF EpochsOK
      <4> QED
        BY <4>1, <4>2, <4>3, <4>4
    <3>3. \A e : After(e)' = After(e)
      BY DEF After, EpochBarrier!After
    <3> QED
      BY <3>1, <3>2, <3>3 DEF EpochsOK
  <2>8. NotHeld(Expired(t))
    BY <2>1, ExpiredNotHeld
  <2>9. MemoryOK'
    <3>1. \A k \in Msgs \ live : na[k] = 0
      BY <1>0, <2>4 DEF MemoryOK
    <3> QED
      BY <1>2, <2>2, <2>8, <3>1, FreeMemory
  <2>10. ASSUME NEW u \in Threads
         PROVE  /\ u # t => Lead(t, u)' = Lead(t, u) + 1
                /\ \A z \in Threads : z # t /\ u # t => Lead(z, u)' = Lead(z, u)
                /\ u # t => Lead(u, t)' = Lead(u, t) - 1
                /\ Lead(t, t)' = 0
    <3>1. epoch[t] \in 0 .. 3 /\ epoch[u] \in 0 .. 3
      BY <1>0, EpochIs
    <3>2. /\ After(After(epoch[t])) # epoch[t] /\ After(epoch[t]) # epoch[t]
          /\ After(After(epoch[t])) # After(epoch[t])
      <4>1. After(epoch[t]) \in 0 .. 3
        BY <3>1, AfterIs
      <4> QED
        BY <3>1, <4>1, AfterIs
    <3>3. u # t => Lead(t, u)' = Lead(t, u) + 1
      BY <2>5, <2>6, <3>2 DEF Lead
    <3>4. \A z \in Threads : z # t /\ u # t => Lead(z, u)' = Lead(z, u)
      BY <2>5 DEF Lead
    <3>5. u # t => Lead(u, t)' = Lead(u, t) - 1
      BY <2>5, <2>6, <3>2 DEF Lead
    <3>6. Lead(t, t)' = 0
      BY DEF Lead
    <3> QED
      BY <3>3, <3>4, <3>5, <3>6
  <2>11. ASSUME NEW u \in Threads, NEW q \in Rails PROVE \E v \in Witnesses : RailOK(u, q, v)'
    <3>1. PICK v \in Witnesses : RailOK(u, q, v)
      BY <1>0 DEF RailsOK
    <3>2. SameLinks(u, q, v) /\ \A n \in Nat : Held(v, n) => age'[v.item[n]] = na[v.item[n]]
      BY <1>2, <2>2, <2>8, <3>1, FreeLinks
    <3>3. Ordered(v) /\ LinksOK(u, q, v) /\ StampsOK(u, q, v) /\ PlacesOK(u, q, v) /\ AgesOK(u, v)
      BY <3>1 DEF RailOK
    <3>4. LinksOK(u, q, v)' /\ StampsOK(u, q, v)'
      BY <1>0, <3>2, <3>3, SameLinksKept
    <3>5. ASSUME NEW n \in Nat, Held(v, n)
          PROVE  /\ age[v.item[n]] \in Nat /\ By(v, n) \in Threads
                 /\ age'[v.item[n]] = IF By(v, n) = t THEN age[v.item[n]] + 1 ELSE age[v.item[n]]
                 /\ stamp'[v.item[n]] = stamp[v.item[n]] /\ By(v, n)' = By(v, n)
      <4>1. v.item[n] \in live /\ v.item[n] \in Msgs
        BY <3>3, <3>5, WitnessFacts DEF StampsOK, live
      <4>2. stamp'[v.item[n]] = stamp[v.item[n]] /\ age'[v.item[n]] = na[v.item[n]]
        BY <3>2, <3>5 DEF SameLinks, SameStamps
      <4>3. age[v.item[n]] \in Nat
        BY <1>0, <4>1 DEF TypeOK
      <4>4. By(v, n) \in Threads
        BY <3>3, <3>5 DEF StampsOK
      <4> QED
        BY <2>4, <4>1, <4>2, <4>3, <4>4 DEF By
    <3>6. CASE u = t
      <4>1. PlacesOK(u, q, v)'
        <5>1. BaseHead(t, q)' = BaseHead(t, q)
          <6>1. epoch[t] \in 0 .. 3
            BY <1>0, EpochIs
          <6>2. 1 - (After(epoch[t]) % 2) = epoch[t] % 2
            BY <6>1, AfterIs
          <6> QED
            BY <2>5, <2>6, <6>2 DEF BaseHead
        <5>2. ~ Moved(t) /\ ~ Moved(t)'
          BY <1>4 DEF Moved
        <5>3. pc[t] # "take" /\ pc[t] # "give" /\ pc'[t] # "take" /\ pc'[t] # "give"
          BY <1>1, <1>3
        <5>4. PlacesOK(t, q, v)
          BY <3>3, <3>6
        <5>5. PlacesOK(t, q, v)'
          BY <1>2, <1>4, <5>1, <5>2, <5>3, <5>4 DEF PlacesOK
        <5> QED
          BY <3>6, <5>5
      <4>2. AgesOK(u, v)'
        <5> SUFFICES ASSUME NEW n \in Nat, Held(v, n)
                     PROVE  age'[v.item[n]] <= Lead(By(v, n), t)' + 2
          BY <1>4, <2>5, <3>6 DEF AgesOK, bumped
        <5>1. age[v.item[n]] <= Lead(By(v, n), t) + 1
          BY <1>4, <2>1, <3>3, <3>6 DEF AgesOK
        <5>2. /\ age[v.item[n]] \in Nat /\ By(v, n) \in Threads
              /\ age'[v.item[n]] = IF By(v, n) = t THEN age[v.item[n]] + 1 ELSE age[v.item[n]]
              /\ By(v, n)' = By(v, n)
          BY <3>5
        <5>3. Lead(By(v, n), t)' = IF By(v, n) = t THEN 0 ELSE Lead(By(v, n), t) - 1
          <6>1. CASE By(v, n) = t
            <7>1. Lead(By(v, n), t)' = Lead(t, t)'
              BY <5>2, <6>1 DEF Lead
            <7> QED
              BY <2>10, <6>1, <7>1
          <6>2. CASE By(v, n) # t
            <7> DEFINE b == By(v, n)
            <7>1. PICK c \in Threads : c = b
              BY <5>2
            <7>2. Lead(c, t)' = Lead(c, t) - 1 /\ c # t
              BY <2>10, <6>2, <7>1
            <7>3. Lead(By(v, n), t)' = Lead(c, t)'
              BY <5>2, <7>1 DEF Lead
            <7> QED
              BY <7>1, <7>2, <7>3
          <6> QED
            BY <6>1, <6>2
        <5>4. Lead(t, t) = 0 /\ Lead(By(v, n), t) \in {0, 1}
          BY <2>6, <5>2 DEF Lead
        <5> QED
          BY <5>1, <5>2, <5>3, <5>4
      <4> QED
        BY <3>3, <3>4, <4>1, <4>2 DEF RailOK
    <3>7. CASE u # t
      <4>1. SamePlaces(u, q)
        BY <1>2, <1>3, <2>5, <3>7 DEF SamePlaces
      <4>2. PlacesOK(u, q, v)'
        BY <3>3, <4>1, SamePlacesKept
      <4>3. SameAges(u, v)
        <5>1. ASSUME NEW n \in Nat, Held(v, n)
              PROVE  /\ age'[v.item[n]] - age[v.item[n]] <= Lead(By(v, n), u)' - Lead(By(v, n), u)
                     /\ stamp'[v.item[n]] = stamp[v.item[n]]
          <6>1. /\ age[v.item[n]] \in Nat /\ By(v, n) \in Threads
                /\ age'[v.item[n]] = IF By(v, n) = t THEN age[v.item[n]] + 1 ELSE age[v.item[n]]
                /\ stamp'[v.item[n]] = stamp[v.item[n]] /\ By(v, n)' = By(v, n)
            BY <3>5, <5>1
          <6>2. PICK c \in Threads : c = By(v, n)
            BY <6>1
          <6>3. Lead(By(v, n), u)' = Lead(c, u)' /\ Lead(By(v, n), u) = Lead(c, u)
            BY <6>1, <6>2 DEF Lead
          <6>4. Lead(c, u)' = IF c = t THEN Lead(c, u) + 1 ELSE Lead(c, u)
            BY <2>10, <3>7
          <6>5. Lead(c, u) \in Int
            BY DEF Lead
          <6> DEFINE a == age[v.item[n]]
                     l == Lead(c, u)
          <6>6. a \in Nat /\ l \in Int
            BY <6>1, <6>5
          <6> HIDE DEF a, l
          <6>7. (a + 1) - a <= (l + 1) - l /\ a - a <= l - l
            BY <6>6
          <6> QED
            BY <6>1, <6>2, <6>3, <6>4, <6>7 DEF a, l
        <5> QED
          BY <1>2, <1>3, <2>5, <3>7, <5>1 DEF SameAges
      <4>4. AgesOK(u, v)'
        BY <1>0, <3>3, <4>3, SameAgesKept
      <4> QED
        BY <3>3, <3>4, <4>2, <4>4 DEF RailOK
    <3> QED
      BY <3>6, <3>7
  <2>12. Rails' = Rails /\ Witnesses' = Witnesses
    BY <1>2 DEF Rails, Witnesses, Links
  <2>13. RailsOK'
    BY <2>11, <2>12 DEF RailsOK
  <2> QED
    BY <1>0, <2>7, <2>9, <2>13 DEF IInv
<1> QED
  BY <1>5, <1>6

-----------------------------------------------------------------------------
(* What receive sees, rail by rail.                                        *)
LEMMA SnapshotIs ==
  ASSUME IInv, NEW t \in Threads, Snapshot(t)
  PROVE  /\ pc[t] = "receive" /\ pc'[t] = "take" /\ \A u \in Threads : u # t => pc'[u] = pc[u]
         /\ build' = build /\ sentNext' = sentNext /\ age' = age /\ stamp' = stamp
         /\ owner' = owner /\ pending' = pending /\ epoch' = epoch /\ began' = began
         /\ sent' = sent /\ got' = got
         /\ \A r \in Rails :
              /\ from'[t][r] = headp[t][r] /\ upto'[t][r] = tailp[t][r]
              /\ build.late => given'[t][r] = headp[t][r]
              /\ headp'[t][r] = IF Rehead(t) THEN NextHead(t, r) ELSE tailp[t][r]
              /\ tailp'[t][r] = IF Rehead(t) THEN NextHead(t, r) ELSE tailp[t][r]
              /\ Rehead(t) => link'[NextHead(t, r)] = Null
         /\ \A u \in Threads : u # t =>
              /\ from'[u] = from[u] /\ upto'[u] = upto[u] /\ given'[u] = given[u]
              /\ headp'[u] = headp[u] /\ tailp'[u] = tailp[u]
         /\ \A l \in Links : (\A r \in Rails : l # NextHead(t, r)) => link'[l] = link[l]
         /\ ~ Rehead(t) => link' = link
<1>0. TypeOK
  BY DEF IInv
<1> DEFINE heads == [r \in Rails |-> IF Rehead(t) THEN NextHead(t, r) ELSE tailp[t][r]]
<1>1. /\ pc[t] = "receive"
      /\ from' = [from EXCEPT ![t] = headp[t]]
      /\ given' = [given EXCEPT ![t] = IF build.late THEN headp[t] ELSE Nowhere]
      /\ upto' = [upto EXCEPT ![t] = tailp[t]]
      /\ headp' = [headp EXCEPT ![t] = heads]
      /\ link' = IF Rehead(t)
                 THEN [l \in Links |-> IF \E r \in Rails : l = NextHead(t, r) THEN Null
                                       ELSE link[l]]
                 ELSE link
      /\ tailp' = IF Rehead(t) THEN [tailp EXCEPT ![t] = heads] ELSE tailp
      /\ pc' = [pc EXCEPT ![t] = "take"]
      /\ UNCHANGED <<build, sentNext, age, stamp, owner, pending, sentVars, epoch, began, history>>
  BY DEF Snapshot, At, Goto
<1>2. pc'[t] = "take" /\ \A u \in Threads : u # t => pc'[u] = pc[u]
  BY <1>0, <1>1 DEF TypeOK
<1>3. \A r \in Rails : heads[r] = IF Rehead(t) THEN NextHead(t, r) ELSE tailp[t][r]
  OBVIOUS
<1> HIDE DEF heads
<1>4. \A r \in Rails : /\ from'[t][r] = headp[t][r] /\ upto'[t][r] = tailp[t][r]
                       /\ build.late => given'[t][r] = headp[t][r]
                       /\ headp'[t][r] = heads[r]
  BY <1>0, <1>1 DEF TypeOK
<1>5. \A u \in Threads : u # t =>
              /\ from'[u] = from[u] /\ upto'[u] = upto[u] /\ given'[u] = given[u]
              /\ headp'[u] = headp[u] /\ tailp'[u] = tailp[u]
  BY <1>0, <1>1 DEF TypeOK
<1>6. \A r \in Rails : tailp'[t][r] = IF Rehead(t) THEN heads[r] ELSE tailp[t][r]
  BY <1>0, <1>1 DEF TypeOK
<1>7. \A r \in Rails : NextHead(t, r) \in Links
  <2>1. epoch[t] % 2 \in {0, 1}
    BY <1>0, EpochIs
  <2> QED
    BY <2>1, LinksAre DEF NextHead
<1>8. \A r \in Rails : Rehead(t) => link'[NextHead(t, r)] = Null
  BY <1>1, <1>7
<1>9. \A l \in Links : (\A r \in Rails : l # NextHead(t, r)) => link'[l] = link[l]
  BY <1>1
<1>10. /\ build' = build /\ sentNext' = sentNext /\ age' = age /\ stamp' = stamp
       /\ owner' = owner /\ pending' = pending /\ epoch' = epoch /\ began' = began
       /\ sent' = sent /\ got' = got
  BY <1>1 DEF history
<1>11. ~ Rehead(t) => link' = link
  BY <1>1
<1>12. \A r \in Rails : /\ headp'[t][r] = IF Rehead(t) THEN NextHead(t, r) ELSE tailp[t][r]
                        /\ tailp'[t][r] = IF Rehead(t) THEN NextHead(t, r) ELSE tailp[t][r]
  BY <1>3, <1>4, <1>6
<1> QED
  BY <1>1, <1>2, <1>4, <1>5, <1>8, <1>9, <1>10, <1>11, <1>12

(* Snapshot keeps the types.                                               *)
LEMMA SnapshotType ==
  ASSUME IInv, NEW t \in Threads, Snapshot(t)
  PROVE  TypeOK'
<1>0. TypeOK
  BY DEF IInv
<1> DEFINE heads == [r \in Rails |-> IF Rehead(t) THEN NextHead(t, r) ELSE tailp[t][r]]
<1>1. /\ from' = [from EXCEPT ![t] = headp[t]]
      /\ given' = [given EXCEPT ![t] = IF build.late THEN headp[t] ELSE Nowhere]
      /\ upto' = [upto EXCEPT ![t] = tailp[t]]
      /\ headp' = [headp EXCEPT ![t] = heads]
      /\ link' = IF Rehead(t)
                 THEN [l \in Links |-> IF \E r \in Rails : l = NextHead(t, r) THEN Null
                                       ELSE link[l]]
                 ELSE link
      /\ tailp' = IF Rehead(t) THEN [tailp EXCEPT ![t] = heads] ELSE tailp
      /\ pc' = [pc EXCEPT ![t] = "take"]
      /\ UNCHANGED <<build, sentNext, age, stamp, owner, pending, sentVars, epoch, began, history>>
  BY DEF Snapshot, At, Goto
<1>2. \A r \in Rails : NextHead(t, r) \in Links
  <2>1. epoch[t] % 2 \in {0, 1}
    BY <1>0, EpochIs
  <2> QED
    BY <2>1, LinksAre DEF NextHead
<1>3. /\ tailp \in [Threads -> [Rails -> Links]] /\ headp \in [Threads -> [Rails -> Links]]
      /\ from \in [Threads -> [Rails -> Links \cup {<<>>}]]
      /\ upto \in [Threads -> [Rails -> Links \cup {<<>>}]]
      /\ given \in [Threads -> [Rails -> Links \cup {<<>>}]]
      /\ link \in [Links -> Msgs \cup {Null, Mark}]
      /\ pc \in [Threads -> {"user", "reclaim", "receive", "take", "give"}]
  BY <1>0 DEF TypeOK
<1>4. heads \in [Rails -> Links]
  BY <1>2, <1>3
<1> HIDE DEF heads
<1>5. headp[t] \in [Rails -> Links \cup {<<>>}] /\ tailp[t] \in [Rails -> Links \cup {<<>>}]
  BY <1>3
<1>6. Nowhere \in [Rails -> Links \cup {<<>>}]
  BY DEF Nowhere
<1>7. /\ from' \in [Threads -> [Rails -> Links \cup {<<>>}]]
      /\ upto' \in [Threads -> [Rails -> Links \cup {<<>>}]]
  BY <1>1, <1>3, <1>5
<1>8. given' \in [Threads -> [Rails -> Links \cup {<<>>}]]
  BY <1>1, <1>3, <1>5, <1>6
<1>9. headp' \in [Threads -> [Rails -> Links]] /\ tailp' \in [Threads -> [Rails -> Links]]
  BY <1>1, <1>3, <1>4
<1>10. link' \in [Links -> Msgs \cup {Null, Mark}]
  BY <1>1, <1>3
<1>11. pc' \in [Threads -> {"user", "reclaim", "receive", "take", "give"}]
  BY <1>1, <1>3
<1>12. Rails' = Rails /\ Links' = Links /\ build' = build
  BY <1>1 DEF Rails, Links
<1> QED
  BY <1>0, <1>1, <1>7, <1>8, <1>9, <1>10, <1>11, <1>12 DEF TypeOK, history, sentVars

(* The list is read up to its end, and goes on from there or from the      *)
(* other head.                                                             *)
Seen(w, head) == [item |-> w.item, lo |-> w.lo, at |-> w.at, cut |-> w.end, end |-> w.end,
                  base |-> w.base, head |-> head]

(* The rail after its tail has been seen: it is read up to its end, and    *)
(* goes on there from another head if the epoch has ended.                 *)
LEMMA SnapshotRail ==
  ASSUME IInv, TypeOK', NEW t \in Threads, Snapshot(t), NEW r \in Rails,
         NEW x \in Witnesses, RailOK(t, r, x)
  PROVE  \E v \in Witnesses : RailOK(t, r, v)'
<1>0. TypeOK /\ MemoryOK /\ EpochsOK
  BY DEF IInv
<1>1. Ordered(x) /\ LinksOK(t, r, x) /\ StampsOK(t, r, x) /\ PlacesOK(t, r, x) /\ AgesOK(t, x)
  BY DEF RailOK
<1>2. /\ pc[t] = "receive" /\ pc'[t] = "take"
      /\ build' = build /\ age' = age /\ stamp' = stamp
      /\ owner' = owner /\ pending' = pending /\ epoch' = epoch /\ began' = began
      /\ sent' = sent /\ got' = got
      /\ from'[t][r] = headp[t][r] /\ upto'[t][r] = tailp[t][r]
      /\ build.late => given'[t][r] = headp[t][r]
      /\ headp'[t][r] = IF Rehead(t) THEN NextHead(t, r) ELSE tailp[t][r]
      /\ tailp'[t][r] = IF Rehead(t) THEN NextHead(t, r) ELSE tailp[t][r]
      /\ Rehead(t) => link'[NextHead(t, r)] = Null
      /\ \A l \in Links : (\A q \in Rails : l # NextHead(t, q)) => link'[l] = link[l]
      /\ ~ Rehead(t) => link' = link
  BY SnapshotIs
<1>3. ~ Reading(t) /\ Reading(t)' /\ Rehead(t)' = Rehead(t) /\ bumped(t)' = bumped(t)
  BY <1>2 DEF Reading, Rehead, bumped
<1>4. /\ x.lo \in Nat /\ x.at \in Nat /\ x.cut \in Nat /\ x.end \in Nat
      /\ x.lo = x.at /\ x.at = x.cut /\ x.cut <= x.end
      /\ x.item \in [Nat -> Msgs] /\ x.base \in Links
  BY <1>1, <1>3 DEF Witnesses, Ordered, PlacesOK
<1>5. x.head = x.base /\ headp[t][r] = x.base /\ tailp[t][r] = Leaves(x, x.end)
  BY <1>1, <1>3, <1>4 DEF PlacesOK, Moved, ReachedBy
<1>6. \A n \in Nat : Leaves(x, n) = ReachedBy(x, n)
  BY <1>4, <1>5 DEF Leaves, ReachedBy
<1>7. PICK head \in Links : head = IF Rehead(t) THEN NextHead(t, r) ELSE tailp[t][r]
  <2>1. epoch[t] % 2 \in {0, 1}
    BY <1>0, EpochIs
  <2>2. NextHead(t, r) \in Links
    BY <2>1, LinksAre DEF NextHead
  <2> QED
    BY <1>0, <2>2 DEF TypeOK
<1> DEFINE v == Seen(x, head)
<1>8. headp'[t][r] = head /\ tailp'[t][r] = head
  BY <1>2, <1>7
<1>9. /\ Rehead(t) => head = NextHead(t, r)
      /\ ~ Rehead(t) => head = ReachedBy(x, x.end)
  BY <1>4, <1>5, <1>6, <1>7
<1>10. /\ v.item = x.item /\ v.lo = x.lo /\ v.at = x.at /\ v.cut = x.end /\ v.end = x.end
       /\ v.base = x.base /\ v.head = head
  BY DEF Seen
<1>11. v \in Witnesses
  BY <1>4, <1>7 DEF Seen, Witnesses
<1> HIDE DEF v
<1>12. Ordered(v)
  BY <1>4, <1>10 DEF Ordered
<1>13. /\ \A n \in Nat : Held(v, n) <=> Held(x, n)
       /\ \A n : By(v, n) = By(x, n) /\ No(v, n) = No(x, n)
       /\ \A n \in Nat : ReachedBy(v, n) = ReachedBy(x, n)
       /\ \A n \in Nat : n # x.end => Leaves(v, n) = Leaves(x, n)
       /\ Leaves(v, x.end) = head
       /\ \A n : ReachedBy(v, n)' = ReachedBy(v, n)
  BY <1>6, <1>10 DEF Held, By, No, ReachedBy, Leaves
<1>14. \A n \in x.lo .. x.end : n # x.end => link'[Leaves(x, n)] = link[Leaves(x, n)]
  <2>1. CASE ~ Rehead(t)
    BY <1>2, <2>1
  <2>2. CASE Rehead(t)
    <3>1. BaseHead(t, r) # NextHead(t, r) /\ \A q \in Rails : q # r => BaseHead(t, r) # NextHead(t, q)
      <4>1. epoch[t] % 2 \in {0, 1}
        BY <1>0, EpochIs
      <4>2. 1 - (epoch[t] % 2) # epoch[t] % 2
        BY <4>1
      <4> QED
        BY <2>2, <4>2, LinkFacts DEF BaseHead, NextHead, Rehead, bumped
    <3>2. \A n \in x.lo .. x.end : ReachedBy(x, n) = LinkOf(x.item[n]) \/ ReachedBy(x, n) = BaseHead(t, r)
      BY <1>1 DEF ReachedBy, PlacesOK
    <3>3. \A n \in x.lo .. x.end : \A q \in Rails : ReachedBy(x, n) # NextHead(t, q)
      BY <3>1, <3>2, LinkFacts DEF NextHead
    <3>4. \A n \in x.lo .. x.end : n \in Nat /\ ReachedBy(x, n) \in Links
      BY <1>4, WitnessFacts
    <3> QED
      BY <1>2, <1>6, <3>3, <3>4
  <2> QED
    BY <2>1, <2>2
<1>15. LinksOK(t, r, v)'
  <2>1. ASSUME NEW n \in v.at .. v.end - 1
        PROVE  link'[Leaves(v, n)] = v.item[n + 1] \/ \E u \in Threads : Gap(v, n, u)'
    <3>1. n \in x.at .. x.end - 1 /\ n \in x.lo .. x.end /\ n # x.end /\ n \in Nat
      BY <1>4, <1>10
    <3>2. Leaves(v, n) = Leaves(x, n) /\ link'[Leaves(x, n)] = link[Leaves(x, n)]
      BY <1>13, <1>14, <3>1
    <3>3. link[Leaves(x, n)] = x.item[n + 1] \/ \E u \in Threads : Gap(x, n, u)
      BY <1>1, <3>1 DEF LinksOK
    <3> QED
      BY <1>2, <1>10, <3>2, <3>3 DEF Gap
  <2>2. link'[Leaves(v, v.end)] = Null
    <3>1. CASE Rehead(t)
      BY <1>2, <1>9, <1>10, <1>13, <3>1
    <3>2. CASE ~ Rehead(t)
      <4>1. link[Leaves(x, x.end)] = Null
        BY <1>1 DEF LinksOK
      <4> QED
        BY <1>2, <1>4, <1>6, <1>9, <1>10, <1>13, <3>2, <4>1
    <3> QED
      BY <3>1, <3>2
  <2>3. ASSUME NEW u \in Threads, Sends(u, t, r)'
        PROVE  \E n \in v.at .. v.end - 1 : Gap(v, n, u)'
    <3>1. Sends(u, t, r)
      BY <1>2, <2>3 DEF Sends
    <3>2. PICK n \in x.at .. x.end - 1 : Gap(x, n, u)
      BY <1>1, <3>1 DEF LinksOK
    <3>3. n \in x.lo .. x.end /\ n # x.end /\ n \in Nat
      BY <1>4
    <3>4. Leaves(v, n) = Leaves(x, n) /\ link'[Leaves(x, n)] = link[Leaves(x, n)]
      BY <1>13, <1>14, <3>3
    <3>5. Gap(v, n, u)'
      BY <1>2, <1>10, <3>2, <3>4 DEF Gap
    <3> QED
      BY <1>10, <3>5
  <2>4. \A n \in v.lo .. v.at - 1 : link'[Leaves(v, n)] = v.item[n + 1]
    BY <1>4, <1>10
  <2> QED
    BY <2>1, <2>2, <2>3, <2>4 DEF LinksOK
<1>16. StampsOK(t, r, v)'
  <2>1. StampsOK(t, r, v)
    BY <1>1, <1>10, <1>13 DEF StampsOK
  <2>2. SameStamps(t, r, v)
    BY <1>2 DEF SameStamps
  <2> QED
    BY <1>11, <1>12, <2>1, <2>2, SameStampsKept
<1>17. PlacesOK(t, r, v)'
  <2>1. BaseHead(t, r)' = BaseHead(t, r) /\ NextHead(t, r)' = NextHead(t, r)
    BY <1>2 DEF BaseHead, NextHead
  <2>2. Moved(t)' <=> Rehead(t)
    BY <1>3 DEF Moved
  <2>3. x.base \in {LinkOf(x.item[x.lo]), BaseHead(t, r)}
    BY <1>1 DEF PlacesOK
  <2>4. ReachedBy(v, v.at) = x.base /\ ReachedBy(v, v.cut) = tailp[t][r]
    BY <1>4, <1>5, <1>6, <1>10, <1>13 DEF ReachedBy
  <2>5. v.head = IF Moved(t)' THEN NextHead(t, r) ELSE ReachedBy(v, v.cut)
    BY <1>4, <1>9, <1>10, <1>13, <2>2
  <2>6. build.kind = "asym" =>
         owner[t][r] = IF x.base = LinkOf(x.item[x.lo]) THEN x.item[x.lo] ELSE Null
    BY <1>1 DEF PlacesOK
  <2>7. Leaves(v, v.end) = head
    BY <1>10, <1>13
  <2>8. upto'[t][r] = ReachedBy(v, v.cut)
    BY <1>2, <2>4
  <2>9. from'[t][r] = ReachedBy(v, v.at) /\ (build.late => given'[t][r] = v.base) /\ v.lo = v.at
    BY <1>2, <1>4, <1>5, <1>10, <2>4
  <2>10. pc'[t] # "give"
    BY <1>2
  <2> QED
    BY <1>2, <1>3, <1>8, <1>10, <2>1, <2>3, <2>5, <2>6, <2>7, <2>8, <2>9, <2>10 DEF PlacesOK
<1>18. AgesOK(t, v)'
  <2> SUFFICES ASSUME build.kind = "epoch", NEW n \in Nat, Held(v, n)
               PROVE  age'[v.item[n]] <= Lead(By(v, n), t)' + IF bumped(t) THEN 2 ELSE 1
    <3>1. \A n : Held(v, n) => n <= v.cut
      BY <1>10 DEF Held
    <3> QED
      BY <1>2, <1>3, <3>1 DEF AgesOK
  <2>1. age[x.item[n]] <= Lead(By(x, n), t) + IF bumped(t) THEN 2 ELSE 1
    BY <1>1, <1>3, <1>13 DEF AgesOK
  <2>2. By(v, n)' = By(x, n)
    BY <1>2, <1>10 DEF By
  <2>3. Lead(By(v, n), t)' = Lead(By(x, n), t)
    BY <1>2, <2>2 DEF Lead
  <2> QED
    BY <1>2, <1>10, <2>1, <2>3
<1> QED
  BY <1>11, <1>12, <1>15, <1>16, <1>17, <1>18 DEF RailOK

(* Snapshot keeps the invariant.                                           *)
LEMMA SnapshotKept ==
  ASSUME IInv, NEW t \in Threads, Snapshot(t)
  PROVE  IInv'
<1>0. TypeOK /\ MemoryOK /\ EpochsOK /\ RailsOK /\ TypeOK'
  BY SnapshotType DEF IInv
<1>1. /\ pc[t] = "receive" /\ pc'[t] = "take" /\ \A u \in Threads : u # t => pc'[u] = pc[u]
      /\ build' = build /\ age' = age /\ stamp' = stamp
      /\ owner' = owner /\ pending' = pending /\ epoch' = epoch /\ began' = began
      /\ sent' = sent /\ got' = got
      /\ \A u \in Threads : u # t =>
           /\ from'[u] = from[u] /\ upto'[u] = upto[u] /\ given'[u] = given[u]
           /\ headp'[u] = headp[u] /\ tailp'[u] = tailp[u]
      /\ \A l \in Links : (\A r \in Rails : l # NextHead(t, r)) => link'[l] = link[l]
  BY SnapshotIs
<1>2. MemoryOK'
  <2>1. \A k \in Msgs : link'[LinkOf(k)] = link[LinkOf(k)]
    BY <1>1, LinksAre, LinkFacts DEF NextHead
  <2>2. live' = live
    BY <1>1 DEF live
  <2> QED
    BY <1>0, <1>1, <2>1, <2>2 DEF MemoryOK
<1>3. EpochsOK'
  BY <1>0, <1>1 DEF EpochsOK, bumped
<1>4. ASSUME NEW u \in Threads, NEW q \in Rails PROVE \E v \in Witnesses : RailOK(u, q, v)'
  <2>1. PICK v \in Witnesses : RailOK(u, q, v)
    BY <1>0 DEF RailsOK
  <2>2. CASE u = t
    BY <1>0, <2>1, <2>2, SnapshotRail
  <2>3. CASE u # t
    <3>1. Ordered(v) /\ StampsOK(u, q, v) /\ PlacesOK(u, q, v)
      BY <2>1 DEF RailOK
    <3>2. ASSUME NEW n \in v.lo .. v.end PROVE link'[Leaves(v, n)] = link[Leaves(v, n)]
      <4>1. \/ Leaves(v, n) = LinkOf(v.item[n]) /\ Held(v, n)
            \/ Leaves(v, n) = HeadLink(u, q, 0) \/ Leaves(v, n) = HeadLink(u, q, 1)
        BY <1>0, <3>1, LeavesAre
      <4>2. \A r \in Rails : Leaves(v, n) # NextHead(t, r)
        BY <2>3, <4>1, LinkFacts DEF NextHead
      <4>3. n \in Nat
        BY WitnessFacts
      <4> QED
        BY <1>1, <4>2, <4>3, WitnessFacts
    <3>3. SamePlaces(u, q)
      BY <1>1, <2>3 DEF SamePlaces
    <3>4. \A z \in Threads : Sends(z, u, q)' <=> Sends(z, u, q)
      BY <1>1 DEF Sends
    <3>5. Quiet(u, q, v)
      BY <1>1, <3>2, <3>3, <3>4 DEF Quiet, Untouched, SameLinks, SameStamps
    <3>6. RailOK(u, q, v)'
      BY <1>0, <2>1, <3>5, QuietKept
    <3> QED
      BY <3>6
  <2> QED
    BY <2>2, <2>3
<1>5. Rails' = Rails /\ Witnesses' = Witnesses
  BY <1>1 DEF Rails, Witnesses, Links
<1>6. RailsOK'
  BY <1>4, <1>5 DEF RailsOK
<1> QED
  BY <1>0, <1>2, <1>3, <1>6 DEF IInv

-----------------------------------------------------------------------------
(* The rail when messages have been given back up to lo, and executed up   *)
(* to at.                                                                  *)
Onward(w, lo, at) ==
  [item |-> w.item, lo |-> lo, at |-> at, cut |-> w.cut, end |-> w.end,
   base |-> IF lo = w.lo THEN w.base ELSE LinkOf(w.item[lo]), head |-> w.head]

(* A rail of which more has been executed and given back: what is still    *)
(* held was held before, at the same place.                                *)
LEMMA OnwardIs ==
  ASSUME NEW w \in Witnesses, Ordered(w), NEW lo \in Nat, NEW at \in Nat,
         w.lo <= lo, lo <= at, w.at <= at, at <= w.cut
  PROVE  LET v == Onward(w, lo, at) IN
         /\ v \in Witnesses /\ Ordered(v)
         /\ v.item = w.item /\ v.lo = lo /\ v.at = at /\ v.cut = w.cut /\ v.end = w.end
         /\ v.head = w.head
         /\ v.base = IF lo = w.lo THEN w.base ELSE LinkOf(w.item[lo])
         /\ \A n \in Nat : n >= lo => Leaves(v, n) = Leaves(w, n) /\ ReachedBy(v, n) = ReachedBy(w, n)
         /\ \A n \in Nat : Held(v, n) => Held(w, n) /\ n >= lo /\ n \in lo .. w.end
         /\ \A n \in lo .. w.end : n # lo => Held(v, n)
         /\ v.base = ReachedBy(w, lo)
<1> DEFINE v == Onward(w, lo, at)
<1>1. /\ v.item = w.item /\ v.lo = lo /\ v.at = at /\ v.cut = w.cut /\ v.end = w.end
      /\ v.head = w.head
      /\ v.base = IF lo = w.lo THEN w.base ELSE LinkOf(w.item[lo])
  BY DEF Onward
<1>2. v \in Witnesses
  <2>1. w.item[lo] \in Msgs
    BY WitnessFacts
  <2> QED
    BY <2>1, LinksAre DEF Onward, Witnesses
<1>3. w.lo \in Nat /\ w.at \in Nat /\ w.cut \in Nat /\ w.end \in Nat
  BY WitnessFacts
<1> HIDE DEF v
<1>4. Ordered(v)
  BY <1>1, <1>3 DEF Ordered
<1>5. \A n \in Nat : n >= lo => ReachedBy(v, n) = ReachedBy(w, n)
  BY <1>1, <1>3 DEF ReachedBy
<1>6. \A n \in Nat : n >= lo => Leaves(v, n) = Leaves(w, n)
  BY <1>1, <1>5 DEF Leaves
<1>7. \A n \in Nat : Held(v, n) => Held(w, n) /\ n >= lo /\ n \in lo .. w.end
  BY <1>1, <1>3 DEF Held
<1>8. \A n \in lo .. w.end : n # lo => Held(v, n)
  BY <1>1, <1>3 DEF Held
<1>9. v.base = ReachedBy(w, lo)
  BY <1>1 DEF ReachedBy
<1> QED
  BY <1>1, <1>2, <1>4, <1>5, <1>6, <1>7, <1>8, <1>9 DEF v

(* What a step of the reader does to a rail on which it goes on.           *)
GoesOn(t, r, w, lo, at) ==
  /\ \A n \in lo .. w.end : link'[Leaves(w, n)] = link[Leaves(w, n)]
  /\ \A n \in lo .. w.end : Held(w, n) => /\ stamp'[w.item[n]] = stamp[w.item[n]]
                                          /\ age'[w.item[n]] = age[w.item[n]]
  /\ at # w.at => at = w.at + 1 /\ link[Leaves(w, w.at)] = w.item[at]
  /\ \A u \in Threads : u % build.rails = r =>
       got'[t][u] = IF at # w.at /\ By(w, at) = u THEN got[t][u] + 1 ELSE got[t][u]
  /\ \A u \in Threads : Sends(u, t, r)' => Sends(u, t, r)
  /\ UNCHANGED <<build, pending, epoch, began, sent>>
  /\ pc'[t] = pc[t] \/ (Reading(t) /\ Reading(t)')

(* Its stamps, when the messages taken are counted as got,                 *)
LEMMA OnwardStamps ==
  ASSUME TypeOK, NEW t \in Threads, NEW r \in Rails, NEW w \in Witnesses, Ordered(w),
         StampsOK(t, r, w), NEW lo \in Nat, NEW at \in Nat,
         w.lo <= lo, lo <= at, w.at <= at, at <= w.cut, GoesOn(t, r, w, lo, at)
  PROVE  StampsOK(t, r, Onward(w, lo, at))'
<1> DEFINE v == Onward(w, lo, at)
<1>1. /\ v.item = w.item /\ v.lo = lo /\ v.at = at /\ v.cut = w.cut /\ v.end = w.end
      /\ \A n \in Nat : Held(v, n) => Held(w, n) /\ n >= lo /\ n \in lo .. w.end
  BY OnwardIs
<1> HIDE DEF v
<1>0. /\ w.lo \in Nat /\ w.at \in Nat /\ w.cut \in Nat /\ w.end \in Nat
      /\ w.lo <= w.at /\ w.at <= w.cut /\ w.cut <= w.end
  BY WitnessFacts DEF Ordered
<1>2. build' = build /\ sent' = sent
  BY DEF GoesOn
<1>3. \A n : Held(w, n) /\ n \in lo .. w.end =>
             /\ stamp'[v.item[n]] = stamp[w.item[n]]
             /\ By(v, n)' = By(w, n) /\ No(v, n)' = No(w, n)
  BY <1>1 DEF GoesOn, By, No
<1>4. \A n \in w.at + 1 .. w.end : Held(w, n) /\ n \in Nat
  BY <1>0 DEF Held
<1>5. \A n \in at + 1 .. w.end : n \in lo .. w.end /\ n \in w.at + 1 .. w.end
  BY <1>0
<1>6. \A n \in Nat : Held(w, n) => /\ stamp[w.item[n]] # Freed /\ stamp[w.item[n]].to = t
                                   /\ By(w, n) \in Threads /\ By(w, n) % build.rails = r
                                   /\ No(w, n) \in 1 .. sent[By(w, n)][t]
  BY DEF StampsOK
<1>7. \A u \in Threads : sent[u][t] \in Nat /\ got[t][u] \in Nat
  BY DEF TypeOK
<1>8. \A u \in Threads : u % build.rails = r =>
       got'[t][u] = IF at # w.at /\ By(w, at) = u THEN got[t][u] + 1 ELSE got[t][u]
  BY DEF GoesOn
(* The next message of a writer is the next number.                        *)
<1>9. ASSUME at # w.at
      PROVE  /\ at \in w.at + 1 .. w.end /\ at \in Nat /\ Held(w, at)
             /\ No(w, at) = got[t][By(w, at)] + 1
  <2>1. at \in w.at + 1 .. w.end
    BY <1>0, <1>9
  <2>2. Held(w, at) /\ No(w, at) > got[t][By(w, at)]
    BY <1>4, <2>1 DEF StampsOK
  <2>3. PICK u \in Threads : u = By(w, at) /\ u % build.rails = r
    BY <1>6, <2>2
  <2>4. No(w, at) \in 1 .. sent[u][t]
    BY <1>6, <2>2, <2>3
  <2>5. got[t][u] + 1 \in got[t][u] + 1 .. sent[u][t]
    BY <1>7, <2>2, <2>3, <2>4
  <2>6. PICK n \in w.at + 1 .. w.end : By(w, n) = u /\ No(w, n) = got[t][u] + 1
    BY <2>3, <2>5 DEF StampsOK
  <2>7. n >= at
    BY <1>0, <1>9 DEF GoesOn
  <2>8. ~ (at < n)
    <3>1. SUFFICES ASSUME at < n PROVE FALSE
      OBVIOUS
    <3>2. No(w, at) < No(w, n)
      BY <1>4, <2>2, <2>3, <2>6, <3>1 DEF StampsOK
    <3> QED
      BY <1>7, <2>2, <2>3, <2>4, <2>6, <3>2
  <2>9. n = at
    BY <2>7, <2>8, <1>0
  <2> QED
    BY <2>1, <2>2, <2>3, <2>6, <2>9
<1>10. ASSUME NEW n \in Nat, Held(v, n)
       PROVE  /\ stamp'[v.item[n]] # Freed /\ stamp'[v.item[n]].to = t
              /\ By(v, n)' \in Threads /\ By(v, n)' % build'.rails = r
              /\ No(v, n)' \in 1 .. sent'[By(v, n)'][t]
  BY <1>1, <1>2, <1>3, <1>6, <1>10
<1>11. \A m, n \in Nat : Held(v, m) /\ Held(v, n) /\ m < n /\ By(v, m)' = By(v, n)'
                         => No(v, m)' < No(v, n)'
  BY <1>1, <1>3 DEF StampsOK
<1>12. ASSUME NEW n \in v.at + 1 .. v.end
       PROVE  No(v, n)' > got'[t][By(v, n)']
  <2>1. n \in at + 1 .. w.end /\ n \in lo .. w.end /\ n \in w.at + 1 .. w.end /\ n \in Nat /\ at < n
    BY <1>0, <1>1, <1>5
  <2>2. Held(w, n) /\ No(w, n) > got[t][By(w, n)]
    BY <1>4, <2>1 DEF StampsOK
  <2>3. PICK u \in Threads : u = By(w, n) /\ u % build.rails = r
    BY <1>6, <2>1, <2>2
  <2>4. By(v, n)' = u /\ No(v, n)' = No(w, n)
    BY <1>3, <2>1, <2>2, <2>3
  <2>5. No(w, n) \in Nat
    BY <1>6, <1>7, <2>1, <2>2, <2>3
  <2>6. CASE at # w.at /\ By(w, at) = u
    <3>1. No(w, at) < No(w, n)
      BY <1>9, <2>1, <2>2, <2>3, <2>6 DEF StampsOK
    <3>2. No(w, at) = got[t][u] + 1
      BY <1>9, <2>6
    <3>3. got'[t][u] = got[t][u] + 1
      BY <1>8, <2>3, <2>6
    <3> QED
      BY <1>7, <2>4, <2>5, <3>1, <3>2, <3>3
  <2>7. CASE ~ (at # w.at /\ By(w, at) = u)
    <3>1. got'[t][u] = got[t][u]
      BY <1>8, <2>3, <2>7
    <3> QED
      BY <2>2, <2>3, <2>4, <3>1
  <2> QED
    BY <2>6, <2>7
<1>13. ASSUME NEW u \in Threads, u % build'.rails = r
       PROVE  /\ got'[t][u] <= sent'[u][t]
              /\ \A k \in got'[t][u] + 1 .. sent'[u][t] :
                   \E n \in v.at + 1 .. v.end : By(v, n)' = u /\ No(v, n)' = k
  <2>0. u % build.rails = r
    BY <1>2, <1>13
  <2>1. got[t][u] <= sent[u][t]
    BY <2>0 DEF StampsOK
  <2>2. got'[t][u] <= sent[u][t]
    <3>1. CASE at # w.at /\ By(w, at) = u
      <4>1. No(w, at) = got[t][u] + 1 /\ No(w, at) \in 1 .. sent[u][t]
        BY <1>6, <1>9, <3>1
      <4> QED
        BY <1>7, <1>8, <2>0, <3>1, <4>1
    <3>2. CASE ~ (at # w.at /\ By(w, at) = u)
      BY <1>8, <2>0, <2>1, <3>2
    <3> QED
      BY <3>1, <3>2
  <2>3. ASSUME NEW k \in got'[t][u] + 1 .. sent[u][t]
        PROVE  \E n \in at + 1 .. w.end : By(w, n) = u /\ No(w, n) = k
    <3>1. k \in got[t][u] + 1 .. sent[u][t] /\ (at # w.at /\ By(w, at) = u => k # got[t][u] + 1)
      BY <1>7, <1>8, <2>0
    <3>2. PICK n \in w.at + 1 .. w.end : By(w, n) = u /\ No(w, n) = k
      BY <2>0, <3>1 DEF StampsOK
    <3>3. at # w.at => n # at
      BY <1>9, <3>1, <3>2
    <3>4. n \in at + 1 .. w.end
      BY <1>0, <3>3 DEF GoesOn
    <3> QED
      BY <3>2, <3>4
  <2>4. ASSUME NEW k \in got'[t][u] + 1 .. sent'[u][t]
        PROVE  \E n \in v.at + 1 .. v.end : By(v, n)' = u /\ No(v, n)' = k
    <3>1. PICK n \in at + 1 .. w.end : By(w, n) = u /\ No(w, n) = k
      BY <1>2, <2>3
    <3>2. By(v, n)' = u /\ No(v, n)' = k
      BY <1>3, <1>4, <1>5, <3>1
    <3> QED
      BY <1>1, <3>1, <3>2
  <2> QED
    BY <1>2, <2>2, <2>4
<1>14. StampsOK(t, r, v)'
  BY <1>10, <1>11, <1>12, <1>13 DEF StampsOK
<1> QED
  BY <1>14 DEF v

(* and its links, stamps and ages together.                                *)
LEMMA OnwardKept ==
  ASSUME TypeOK, TypeOK', MemoryOK,
         NEW t \in Threads, NEW r \in Rails, NEW w \in Witnesses, RailOK(t, r, w),
         NEW lo \in Nat, NEW at \in Nat,
         w.lo <= lo, lo <= at, w.at <= at, at <= w.cut, GoesOn(t, r, w, lo, at)
  PROVE  LET v == Onward(w, lo, at) IN
         /\ v \in Witnesses /\ Ordered(v)
         /\ LinksOK(t, r, v)' /\ StampsOK(t, r, v)' /\ AgesOK(t, v)'
<1> DEFINE v == Onward(w, lo, at)
<1>1. /\ v \in Witnesses /\ Ordered(v)
      /\ v.item = w.item /\ v.lo = lo /\ v.at = at /\ v.cut = w.cut /\ v.end = w.end
      /\ \A n \in Nat : n >= lo => Leaves(v, n) = Leaves(w, n)
      /\ \A n \in Nat : Held(v, n) => Held(w, n) /\ n >= lo /\ n \in lo .. w.end
  BY OnwardIs DEF RailOK
<1>2. Ordered(w) /\ LinksOK(t, r, w) /\ StampsOK(t, r, w) /\ AgesOK(t, w)
  BY DEF RailOK
<1>3. StampsOK(t, r, v)'
  BY <1>2, OnwardStamps
<1> HIDE DEF v
<1>0. /\ w.lo \in Nat /\ w.at \in Nat /\ w.cut \in Nat /\ w.end \in Nat
      /\ w.lo <= w.at /\ w.at <= w.cut /\ w.cut <= w.end
  BY <1>2, WitnessFacts DEF Ordered
<1>4. /\ build' = build /\ pending' = pending /\ epoch' = epoch /\ began' = began
      /\ \A n \in lo .. w.end : link'[Leaves(w, n)] = link[Leaves(w, n)]
      /\ \A n \in lo .. w.end : Held(w, n) => /\ stamp'[w.item[n]] = stamp[w.item[n]]
                                              /\ age'[w.item[n]] = age[w.item[n]]
      /\ at # w.at => at = w.at + 1 /\ link[Leaves(w, w.at)] = w.item[at]
      /\ pc'[t] = pc[t] \/ (Reading(t) /\ Reading(t)')
  BY DEF GoesOn
<1>5. LinksOK(t, r, v)'
  <2>1. ASSUME NEW n \in lo .. at - 1 PROVE link'[Leaves(v, n)] = v.item[n + 1]
    <3>1. n \in lo .. w.end /\ n \in Nat /\ n >= lo
      BY <1>0
    <3>2. link[Leaves(w, n)] = w.item[n + 1]
      <4>1. CASE n < w.at
        <5>1. n \in w.lo .. w.at - 1
          BY <1>0, <4>1
        <5> QED
          BY <1>2, <5>1 DEF LinksOK
      <4>2. CASE ~ (n < w.at)
        <5>1. at # w.at /\ n = w.at /\ n + 1 = at
          BY <1>0, <1>4, <4>2
        <5> QED
          BY <1>4, <5>1
      <4> QED
        BY <4>1, <4>2
    <3> QED
      BY <1>1, <1>4, <3>1, <3>2
  <2>2. ASSUME NEW n \in at .. w.end - 1
        PROVE  link'[Leaves(v, n)] = v.item[n + 1] \/ \E u \in Threads : Gap(v, n, u)'
    <3>1. n \in lo .. w.end /\ n \in Nat /\ n >= lo /\ n \in w.at .. w.end - 1
      BY <1>0
    <3>2. link[Leaves(w, n)] = w.item[n + 1] \/ \E u \in Threads : Gap(w, n, u)
      BY <1>2, <3>1 DEF LinksOK
    <3>3. Leaves(v, n) = Leaves(w, n) /\ link'[Leaves(w, n)] = link[Leaves(w, n)]
      BY <1>1, <1>4, <3>1
    <3> QED
      BY <1>1, <1>4, <3>2, <3>3 DEF Gap
  <2>3. link'[Leaves(v, w.end)] = Null
    <3>1. w.end \in lo .. w.end /\ w.end >= lo
      BY <1>0
    <3> QED
      BY <1>0, <1>1, <1>2, <1>4, <3>1 DEF LinksOK
  <2>4. ASSUME NEW u \in Threads, Sends(u, t, r)'
        PROVE  \E n \in at .. w.end - 1 : Gap(v, n, u)'
    <3>1. Sends(u, t, r)
      BY <2>4 DEF GoesOn
    <3>2. PICK n \in w.at .. w.end - 1 : Gap(w, n, u)
      BY <1>2, <3>1 DEF LinksOK
    <3>3. n # w.at \/ at = w.at
      <4>1. SUFFICES ASSUME n = w.at, at # w.at PROVE FALSE
        OBVIOUS
      <4>2. link[Leaves(w, w.at)] = w.item[at] /\ link[Leaves(w, w.at)] = Null
        BY <1>4, <3>2, <4>1 DEF Gap
      <4> QED
        BY <4>2, WitnessFacts, MsgsAre
    <3>4. n \in at .. w.end - 1 /\ n \in Nat /\ n >= lo /\ n \in lo .. w.end
      BY <1>0, <1>4, <3>3
    <3>5. Gap(v, n, u)'
      BY <1>1, <1>4, <3>2, <3>4 DEF Gap
    <3> QED
      BY <3>4, <3>5
  <2> QED
    BY <1>1, <2>1, <2>2, <2>3, <2>4 DEF LinksOK
<1>6. AgesOK(t, v)'
  <2>1. (Reading(t)' <=> Reading(t)) /\ (bumped(t)' <=> bumped(t))
    BY <1>4 DEF Reading, bumped
  <2> SUFFICES ASSUME build.kind = "epoch", NEW n \in Nat, Held(v, n)
               PROVE  age'[v.item[n]] <= Lead(By(v, n), t)'
                        + IF bumped(t) /\ (Reading(t) => n <= v.cut) THEN 2 ELSE 1
    BY <1>4, <2>1 DEF AgesOK
  <2>2. Held(w, n) /\ n \in lo .. w.end
    BY <1>1
  <2>3. age[w.item[n]] <= Lead(By(w, n), t) + IF bumped(t) /\ (Reading(t) => n <= w.cut) THEN 2 ELSE 1
    BY <1>2, <2>2 DEF AgesOK
  <2>4. By(v, n)' = By(w, n) /\ age'[v.item[n]] = age[w.item[n]]
    BY <1>1, <1>4, <2>2 DEF By
  <2>5. Lead(By(v, n), t)' = Lead(By(w, n), t)
    BY <1>4, <2>4 DEF Lead
  <2> QED
    BY <1>1, <2>3, <2>4, <2>5
<1> QED
  BY <1>1, <1>3, <1>5, <1>6 DEF v

-----------------------------------------------------------------------------
(* Rail r of t may be given back up to the message after link l: l is the  *)
(* link behind which nothing has been given back.                          *)
Givable(t, r, l) ==
  \A x \in Witnesses : RailOK(t, r, x) => x.lo < x.cut /\ l = x.base /\ link[l] = x.item[x.lo + 1]

(* All other places of all rails.                                          *)
Elsewhere(t, rs, u, q, v, n) == u = t /\ q \in rs => n # v.lo

(* The messages that are freed.                                            *)
FreedBy(t, rs) == IF build.kind = "asym" THEN {owner[t][r] : r \in rs} ELSE {}

(* Nothing that a rail still holds is freed by giving back, and no link    *)
(* that leads on from there is marked.                                     *)
LEMMA FreedAre ==
  ASSUME IInv, NEW t \in Threads, NEW rs \in SUBSET Rails, NEW ls,
         \A r \in rs : Givable(t, r, ls[r]),
         NEW u \in Threads, NEW q \in Rails, NEW v \in Witnesses, RailOK(u, q, v)
  PROVE  /\ \A n \in Nat : Held(v, n) /\ Elsewhere(t, rs, u, q, v, n) => v.item[n] \notin FreedBy(t, rs)
         /\ \A n \in v.lo .. v.end : Elsewhere(t, rs, u, q, v, n) =>
              \A r \in rs : Leaves(v, n) # ls[r]
<1>0. TypeOK /\ EpochsOK /\ RailsOK
  BY DEF IInv
<1>1. Ordered(v) /\ StampsOK(u, q, v) /\ PlacesOK(u, q, v)
  BY DEF RailOK
<1>2. v.lo \in Nat /\ v.end \in Nat /\ \A n \in Nat : v.item[n] \in Msgs
  BY WitnessFacts
<1>3. ASSUME NEW n \in Nat, Held(v, n), Elsewhere(t, rs, u, q, v, n), v.item[n] \in FreedBy(t, rs)
      PROVE  FALSE
  <2>1. build.kind = "asym"
    BY <1>3 DEF FreedBy
  <2>2. PICK r \in rs : v.item[n] = owner[t][r]
    BY <1>3 DEF FreedBy
  <2>3. r \in Rails
    OBVIOUS
  <2>4. PICK x \in Witnesses : RailOK(t, r, x)
    BY <1>0, <2>3 DEF RailsOK
  <2>5. Ordered(x) /\ StampsOK(t, r, x) /\ PlacesOK(t, r, x)
    BY <2>4 DEF RailOK
  <2>6. owner[t][r] = IF x.base = LinkOf(x.item[x.lo]) THEN x.item[x.lo] ELSE Null
    BY <2>1, <2>5 DEF PlacesOK
  <2>7. x.base = LinkOf(x.item[x.lo]) /\ v.item[n] = x.item[x.lo]
    BY <1>0, <1>2, <2>2, <2>6, MsgsAre
  <2>8. x.lo \in Nat /\ x.end \in Nat /\ x.lo <= x.end /\ Held(x, x.lo)
    BY <2>5, <2>7, WitnessFacts DEF Ordered, Held
  <2>9. u = t /\ q = r
    BY <1>0, <1>1, <1>3, <2>3, <2>5, <2>7, <2>8, HeldOnce
  <2>10. n # v.lo
    BY <1>3, <2>9 DEF Elsewhere
  <2>11. owner[t][r] = IF v.base = LinkOf(v.item[v.lo]) THEN v.item[v.lo] ELSE Null
    BY <1>1, <2>1, <2>9 DEF PlacesOK
  <2>12. v.base = LinkOf(v.item[v.lo]) /\ v.item[n] = v.item[v.lo]
    BY <1>0, <1>2, <2>2, <2>11, MsgsAre
  <2>13. Held(v, v.lo)
    BY <1>1, <1>2, <2>12, WitnessFacts DEF Ordered, Held
  <2> QED
    BY <1>0, <1>1, <1>2, <1>3, <2>10, <2>12, <2>13, HeldHere
<1>4. ASSUME NEW n \in v.lo .. v.end, Elsewhere(t, rs, u, q, v, n), NEW r \in rs, Leaves(v, n) = ls[r]
      PROVE  FALSE
  <2>1. r \in Rails
    OBVIOUS
  <2>2. PICK x \in Witnesses : RailOK(t, r, x)
    BY <1>0, <2>1 DEF RailsOK
  <2>3. Ordered(x) /\ StampsOK(t, r, x) /\ PlacesOK(t, r, x)
    BY <2>2 DEF RailOK
  <2>4. x.lo < x.cut /\ ls[r] = x.base
    BY <2>2 DEF Givable
  <2>5. x.lo \in x.lo .. x.end /\ Leaves(x, x.lo) = ls[r]
    BY <2>3, <2>4, WitnessFacts DEF Ordered, Leaves, ReachedBy
  <2>6. u = t /\ q = r
    BY <1>0, <1>1, <1>4, <2>1, <2>3, <2>5, LeavesApart
  <2>7. n # v.lo
    BY <1>4, <2>6 DEF Elsewhere
  <2>8. v.lo < v.cut /\ ls[r] = v.base
    BY <2>6 DEF Givable
  <2>9. v.lo \in v.lo .. v.end /\ Leaves(v, v.lo) = ls[r]
    BY <1>1, <2>8, WitnessFacts DEF Ordered, Leaves, ReachedBy
  <2> QED
    BY <1>0, <1>1, <1>4, <2>7, <2>9, LeavesOnce
<1> QED
  BY <1>3, <1>4

(* Which links and messages a step of giving back leaves alone.            *)
Spared(ms, ls) ==
  /\ \A k \in Msgs \ ms : stamp'[k] = stamp[k] /\ age'[k] = age[k]
  /\ \A k \in Msgs \cap ms : /\ stamp'[k] = Freed /\ age'[k] = 0 /\ link'[LinkOf(k)] = Null
  /\ \A l \in Links \ ls : (\A k \in ms : l # LinkOf(k)) => link'[l] = link[l]
  /\ live' = live \ ms

(* What GiveBack writes: the marks, or the memory and the owner.           *)
LEMMA GiveBackDoes ==
  ASSUME TypeOK, NEW t \in Threads, NEW rs \in SUBSET Rails, NEW ls,
         GiveBack(t, rs, ls), build' = build
  PROVE  /\ Spared(FreedBy(t, rs), IF build.kind = "sym" THEN {ls[r] : r \in rs} ELSE {})
         /\ \A u \in Threads : u # t => owner'[u] = owner[u]
         /\ \A r \in Rails : owner'[t][r] = IF build.kind = "asym" /\ r \in rs THEN link[ls[r]]
                                            ELSE owner[t][r]
<1>0. owner \in [Threads -> [Rails -> Msgs \cup {Null}]]
  BY DEF TypeOK
<1>1. CASE build.kind = "sym"
  <2> DEFINE marks == {Marked(ls[r]) : r \in rs}
             nl == [l \in Links |-> IF l \in marks THEN Mark ELSE link[l]]
  <2>1. Free({}, nl, sentNext, age) /\ owner' = owner
    BY <1>1 DEF GiveBack
  <2>2. marks = {ls[r] : r \in rs} /\ \A l \in Links : l \notin marks => nl[l] = link[l]
    BY DEF Marked
  <2> HIDE DEF nl, marks
  <2>3. /\ \A k \in Msgs : age'[k] = age[k] /\ stamp'[k] = stamp[k]
        /\ live' = live
    BY <2>1 DEF Free, live
  <2>4. \A l \in Links : link'[l] = nl[l]
    BY <2>1 DEF Free
  <2>5. FreedBy(t, rs) = {}
    BY <1>1 DEF FreedBy
  <2>6. Spared(FreedBy(t, rs), marks)
    BY <2>2, <2>3, <2>4, <2>5 DEF Spared
  <2> QED
    BY <1>1, <2>1, <2>2, <2>6
<1>2. CASE build.kind = "asym"
  <2>1. /\ Free({owner[t][r] : r \in rs}, link, sentNext, age)
        /\ owner' = [owner EXCEPT ![t] = [r \in Rails |-> IF r \in rs THEN link[ls[r]] ELSE @[r]]]
    BY <1>2 DEF GiveBack
  <2>2. FreedBy(t, rs) = {owner[t][r] : r \in rs}
    BY <1>2 DEF FreedBy
  <2>3. Free(FreedBy(t, rs), link, sentNext, age)
    BY <2>1, <2>2
  <2>4. /\ \A k \in Msgs : k \in FreedBy(t, rs) => link'[LinkOf(k)] = Null /\ age'[k] = 0 /\ stamp'[k] = Freed
        /\ \A k \in Msgs : k \notin FreedBy(t, rs) => age'[k] = age[k] /\ stamp'[k] = stamp[k]
        /\ live' = live \ FreedBy(t, rs)
    BY <2>3, FreeIs
  <2>5. \A l \in Links : (\A k \in FreedBy(t, rs) : l # LinkOf(k)) => link'[l] = link[l]
    BY <2>3 DEF Free
  <2>6. Spared(FreedBy(t, rs), {})
    BY <2>4, <2>5 DEF Spared
  <2>7. /\ \A u \in Threads : u # t => owner'[u] = owner[u]
        /\ \A r \in Rails : owner'[t][r] = IF r \in rs THEN link[ls[r]] ELSE owner[t][r]
    BY <1>0, <2>1
  <2> QED
    BY <1>2, <2>6, <2>7
<1>3. CASE build.kind = "epoch"
  <2>1. link' = link /\ age' = age /\ stamp' = stamp /\ owner' = owner /\ live' = live
    BY <1>3 DEF GiveBack, memory, live
  <2>2. FreedBy(t, rs) = {}
    BY <1>3 DEF FreedBy
  <2>3. Spared(FreedBy(t, rs), {})
    BY <2>1, <2>2 DEF Spared
  <2> QED
    BY <1>3, <2>1, <2>3
<1> QED
  BY <1>1, <1>2, <1>3, BuildFacts

(* Giving back what lies before a link changes nothing elsewhere.          *)
LEMMA GiveBackIs ==
  ASSUME IInv, NEW t \in Threads, NEW rs \in SUBSET Rails, NEW ls,
         \A r \in rs : Givable(t, r, ls[r]), GiveBack(t, rs, ls),
         build' = build, pending' = pending
  PROVE  /\ MemoryOK'
         /\ \A u \in Threads : u # t => owner'[u] = owner[u]
         /\ \A r \in Rails : owner'[t][r] = IF build.kind = "asym" /\ r \in rs THEN link[ls[r]]
                                            ELSE owner[t][r]
         /\ \A u, w \in Threads, q \in Rails : Sends(u, w, q)' <=> Sends(u, w, q)
         /\ \A u \in Threads, q \in Rails, v \in Witnesses : RailOK(u, q, v) =>
              /\ \A n \in v.lo .. v.end : Elsewhere(t, rs, u, q, v, n) => link'[Leaves(v, n)] = link[Leaves(v, n)]
              /\ \A n \in Nat : Held(v, n) /\ Elsewhere(t, rs, u, q, v, n) =>
                   stamp'[v.item[n]] = stamp[v.item[n]] /\ age'[v.item[n]] = age[v.item[n]]
<1>0. TypeOK /\ MemoryOK /\ RailsOK
  BY DEF IInv
<1> DEFINE ms == FreedBy(t, rs)
           ks == IF build.kind = "sym" THEN {ls[r] : r \in rs} ELSE {}
<1>1. /\ Spared(ms, ks)
      /\ \A u \in Threads : u # t => owner'[u] = owner[u]
      /\ \A r \in Rails : owner'[t][r] = IF build.kind = "asym" /\ r \in rs THEN link[ls[r]]
                                            ELSE owner[t][r]
  BY <1>0, GiveBackDoes
<1>2. \A l : (\A r \in rs : l # ls[r]) => l \notin ks
  OBVIOUS
<1> HIDE DEF ms, ks
<1>3. ASSUME NEW u \in Threads, NEW q \in Rails, NEW v \in Witnesses, RailOK(u, q, v)
      PROVE  /\ \A n \in Nat : Held(v, n) /\ Elsewhere(t, rs, u, q, v, n) => v.item[n] \notin ms
             /\ \A n \in v.lo .. v.end : Elsewhere(t, rs, u, q, v, n) => Leaves(v, n) \notin ks
  <2>1. /\ \A n \in Nat : Held(v, n) /\ Elsewhere(t, rs, u, q, v, n) => v.item[n] \notin ms
        /\ \A n \in v.lo .. v.end : Elsewhere(t, rs, u, q, v, n) => \A r \in rs : Leaves(v, n) # ls[r]
    BY <1>3, FreedAre DEF ms
  <2> QED
    BY <1>2, <2>1
<1>4. ASSUME NEW u \in Threads, NEW q \in Rails, NEW v \in Witnesses, RailOK(u, q, v)
      PROVE  /\ \A n \in v.lo .. v.end : Elsewhere(t, rs, u, q, v, n) => link'[Leaves(v, n)] = link[Leaves(v, n)]
             /\ \A n \in Nat : Held(v, n) /\ Elsewhere(t, rs, u, q, v, n) =>
                   stamp'[v.item[n]] = stamp[v.item[n]] /\ age'[v.item[n]] = age[v.item[n]]
  <2>1. ASSUME NEW n \in v.lo .. v.end, Elsewhere(t, rs, u, q, v, n)
        PROVE  link'[Leaves(v, n)] = link[Leaves(v, n)]
    <3>1. n \in Nat /\ Leaves(v, n) \in Links
      BY WitnessFacts
    <3>2. \/ Leaves(v, n) = LinkOf(v.item[n]) /\ Held(v, n)
          \/ Leaves(v, n) = HeadLink(u, q, 0) \/ Leaves(v, n) = HeadLink(u, q, 1)
      BY <1>0, <1>4, LeavesAre DEF RailOK
    <3>3. \A k \in ms : Leaves(v, n) # LinkOf(k)
      BY <1>3, <1>4, <2>1, <3>1, <3>2, LinkFacts
    <3> QED
      BY <1>1, <1>3, <1>4, <2>1, <3>1, <3>3 DEF Spared
  <2>2. \A n \in Nat : Held(v, n) /\ Elsewhere(t, rs, u, q, v, n) =>
                   stamp'[v.item[n]] = stamp[v.item[n]] /\ age'[v.item[n]] = age[v.item[n]]
    <3>1. \A n \in Nat : v.item[n] \in Msgs
      BY WitnessFacts
    <3> QED
      BY <1>1, <1>3, <1>4, <3>1 DEF Spared
  <2> QED
    BY <2>1, <2>2
<1>5. ASSUME NEW u \in Threads, pending[u] # NoSend
      PROVE  /\ pending[u].msg \in live /\ pending[u].msg \notin ms /\ pending[u].msg \in Msgs
  <2>1. pending[u].msg \in live /\ pending[u].msg \in Msgs
    BY <1>5, PendingPlace
  <2>2. PICK w \in Threads, q \in Rails, x \in Witnesses :
          RailOK(w, q, x) /\ \E n \in x.at .. x.end - 1 : Gap(x, n, u)
    BY <1>5, PendingPlace
  <2>3. PICK n \in x.at .. x.end - 1 : Gap(x, n, u)
    BY <2>2
  <2>4. Held(x, n + 1) /\ n + 1 \in Nat /\ n + 1 # x.lo
    <3>1. Ordered(x) /\ x.lo \in Nat /\ x.at \in Nat /\ x.cut \in Nat /\ x.end \in Nat
      BY <2>2, WitnessFacts DEF RailOK
    <3> QED
      BY <3>1 DEF Ordered, Held
  <2>5. Elsewhere(t, rs, w, q, x, n + 1)
    BY <2>4 DEF Elsewhere
  <2>6. x.item[n + 1] \notin ms
    BY <1>3, <2>2, <2>4, <2>5
  <2> QED
    BY <2>1, <2>3, <2>6 DEF Gap
<1>6. MemoryOK'
  <2>1. ASSUME NEW k \in Msgs \ live' PROVE link'[LinkOf(k)] = Null /\ age'[k] = 0
    <3>1. CASE k \in ms
      BY <1>1, <3>1 DEF Spared
    <3>2. CASE k \notin ms
      <4>1. k \notin live
        BY <1>1, <3>2 DEF Spared
      <4>2. LinkOf(k) \notin ks
        <5>1. SUFFICES ASSUME NEW r \in rs, LinkOf(k) = ls[r] PROVE FALSE
          BY <1>2
        <5>2. r \in Rails
          OBVIOUS
        <5>3. PICK x \in Witnesses : RailOK(t, r, x)
          BY <1>0, <5>2 DEF RailsOK
        <5>4. Ordered(x) /\ StampsOK(t, r, x) /\ PlacesOK(t, r, x) /\ ls[r] = x.base /\ x.lo < x.cut
          BY <5>3 DEF RailOK, Givable
        <5>5. x.lo \in Nat /\ x.end \in Nat /\ x.cut \in Nat /\ x.lo <= x.end /\ x.item[x.lo] \in Msgs
          BY <5>4, WitnessFacts DEF Ordered
        <5>6. x.base = LinkOf(x.item[x.lo])
          BY <5>1, <5>4, LinkFacts DEF PlacesOK, BaseHead
        <5>7. Held(x, x.lo) /\ k = x.item[x.lo]
          BY <5>1, <5>4, <5>5, <5>6, LinkFacts DEF Held
        <5>8. stamp[k] # Freed
          BY <5>4, <5>5, <5>7 DEF StampsOK
        <5> QED
          BY <4>1, <5>8 DEF live
      <4>3. \A j \in ms : LinkOf(k) # LinkOf(j)
        BY <3>2, LinkFacts
      <4>4. LinkOf(k) \in Links
        BY LinksAre
      <4> QED
        BY <1>0, <1>1, <3>2, <4>1, <4>2, <4>3, <4>4 DEF Spared, MemoryOK
    <3> QED
      BY <3>1, <3>2
  <2>2. ASSUME NEW u \in Threads, pending[u] # NoSend
        PROVE  pending[u].msg \in live' /\ stamp'[pending[u].msg].by = u
    BY <1>0, <1>1, <1>5, <2>2 DEF Spared, MemoryOK
  <2> QED
    BY <2>1, <2>2 DEF MemoryOK
<1>7. ASSUME NEW u \in Threads, NEW w \in Threads, NEW q \in Rails
      PROVE  Sends(u, w, q)' <=> Sends(u, w, q)
  <2>1. CASE pending[u] = NoSend
    BY <2>1 DEF Sends
  <2>2. CASE pending[u] # NoSend
    <3>1. stamp'[pending[u].msg] = stamp[pending[u].msg]
      BY <1>1, <1>5, <2>2 DEF Spared
    <3> QED
      BY <3>1 DEF Sends
  <2> QED
    BY <2>1, <2>2
<1> QED
  BY <1>1, <1>4, <1>6, <1>7

-----------------------------------------------------------------------------
(* GiveBack keeps the types.                                               *)
LEMMA GiveBackType ==
  ASSUME IInv, NEW t \in Threads, NEW rs \in SUBSET Rails, NEW ls,
         \A r \in rs : Givable(t, r, ls[r]), GiveBack(t, rs, ls)
  PROVE  /\ link' \in [Links -> Msgs \cup {Null, Mark}]
         /\ sentNext' \in [SentLinks -> Msgs \cup {Null}]
         /\ age' \in [Msgs -> Nat]
         /\ stamp' \in [Msgs -> [by : Threads, to : Threads, no : Nat \ {0}] \cup {Freed}]
         /\ owner' \in [Threads -> [Rails -> Msgs \cup {Null}]]
<1>0. TypeOK /\ RailsOK
  BY DEF IInv
<1>1. /\ link \in [Links -> Msgs \cup {Null, Mark}]
      /\ sentNext \in [SentLinks -> Msgs \cup {Null}] /\ age \in [Msgs -> Nat]
      /\ owner \in [Threads -> [Rails -> Msgs \cup {Null}]]
  BY <1>0 DEF TypeOK
<1>2. CASE build.kind = "sym"
  <2> DEFINE nl == [l \in Links |-> IF l \in {Marked(ls[r]) : r \in rs} THEN Mark ELSE link[l]]
  <2>1. Free({}, nl, sentNext, age) /\ owner' = owner
    BY <1>2 DEF GiveBack
  <2>2. nl \in [Links -> Msgs \cup {Null, Mark}]
    BY <1>1
  <2> HIDE DEF nl
  <2> DEFINE no == {}
  <2>3. Free(no, nl, sentNext, age)
    BY <2>1
  <2> HIDE DEF no
  <2>4. /\ link' \in [Links -> Msgs \cup {Null, Mark}]
        /\ sentNext' \in [SentLinks -> Msgs \cup {Null}]
        /\ age' \in [Msgs -> Nat]
        /\ stamp' \in [Msgs -> [by : Threads, to : Threads, no : Nat \ {0}] \cup {Freed}]
    BY <1>0, <1>1, <2>2, <2>3, FreeType
  <2> QED
    BY <1>1, <2>1, <2>4
<1>3. CASE build.kind = "asym"
  <2> DEFINE ms == {owner[t][r] : r \in rs}
             os == [r \in Rails |-> IF r \in rs THEN link[ls[r]] ELSE owner[t][r]]
  <2>1. Free(ms, link, sentNext, age) /\ owner' = [owner EXCEPT ![t] = os]
    BY <1>3 DEF GiveBack
  <2>2. \A r \in rs : link[ls[r]] \in Msgs
    <3>1. ASSUME NEW r \in rs PROVE link[ls[r]] \in Msgs
      <4>1. r \in Rails
        OBVIOUS
      <4>2. PICK x \in Witnesses : RailOK(t, r, x)
        BY <1>0, <4>1 DEF RailsOK
      <4>3. link[ls[r]] = x.item[x.lo + 1]
        BY <4>2 DEF Givable
      <4> QED
        BY <4>3, WitnessFacts
    <3> QED
      BY <3>1
  <2>3. os \in [Rails -> Msgs \cup {Null}]
    BY <1>1, <2>2
  <2> HIDE DEF ms, os
  <2>4. /\ link' \in [Links -> Msgs \cup {Null, Mark}]
        /\ sentNext' \in [SentLinks -> Msgs \cup {Null}]
        /\ age' \in [Msgs -> Nat]
        /\ stamp' \in [Msgs -> [by : Threads, to : Threads, no : Nat \ {0}] \cup {Freed}]
    BY <1>0, <1>1, <2>1, FreeType
  <2> QED
    BY <1>1, <2>1, <2>3, <2>4
<1>4. CASE build.kind = "epoch"
  <2>1. UNCHANGED <<memory, owner>>
    BY <1>4 DEF GiveBack
  <2> QED
    BY <1>0, <2>1 DEF memory, TypeOK
<1> QED
  BY <1>0, <1>2, <1>3, <1>4, BuildFacts

-----------------------------------------------------------------------------
(* Where the reader is on the rails that it reads from.                    *)
LEMMA TakenFrom ==
  ASSUME IInv, NEW t \in Threads, Take(t), NEW r \in Abreast(t), NEW x \in Witnesses, RailOK(t, r, x)
  PROVE  /\ r \in Rails /\ x.at < x.cut /\ from[t][r] = Leaves(x, x.at)
         /\ link[from[t][r]] = x.item[x.at + 1]
         /\ x.at + 1 \in Nat /\ Held(x, x.at + 1) /\ x.at + 1 # x.lo
         /\ ~ build.late => /\ x.lo = x.at /\ from[t][r] = x.base
<1>0. TypeOK /\ Ordered(x) /\ LinksOK(t, r, x) /\ PlacesOK(t, r, x)
  BY DEF IInv, RailOK
<1>1. r \in Rails /\ from[t][r] # upto[t][r]
  BY DEF Abreast, Left
<1>2. pc[t] = "take" /\ link[from[t][r]] # Null
  BY DEF Take, At
<1>3. /\ x.lo \in Nat /\ x.at \in Nat /\ x.cut \in Nat /\ x.end \in Nat
      /\ x.lo <= x.at /\ x.at <= x.cut /\ x.cut <= x.end
  BY <1>0, WitnessFacts DEF Ordered
<1>4. /\ from[t][r] = ReachedBy(x, x.at) /\ upto[t][r] = ReachedBy(x, x.cut)
      /\ ~ build.late => x.lo = x.at
  BY <1>0, <1>2 DEF PlacesOK, Reading
<1>5. x.at < x.cut /\ from[t][r] = Leaves(x, x.at)
  BY <1>1, <1>3, <1>4 DEF Leaves
<1>6. link[from[t][r]] = x.item[x.at + 1]
  <2>1. x.at \in x.at .. x.end - 1
    BY <1>3, <1>5
  <2>2. link[Leaves(x, x.at)] = x.item[x.at + 1] \/ \E u \in Threads : Gap(x, x.at, u)
    BY <1>0, <2>1 DEF LinksOK
  <2> QED
    BY <1>2, <1>5, <2>2 DEF Gap
<1>7. ~ build.late => from[t][r] = x.base
  BY <1>4 DEF ReachedBy
<1>8. Held(x, x.at + 1) /\ x.at + 1 # x.lo
  BY <1>3, <1>5 DEF Held
<1> QED
  BY <1>1, <1>3, <1>4, <1>5, <1>6, <1>7, <1>8

(* Of each writer one message at most is executed, that of its rail.       *)
LEMMA TakenGot ==
  ASSUME IInv, NEW t \in Threads, Take(t), NEW r \in Rails, NEW x \in Witnesses, RailOK(t, r, x),
         NEW u \in Threads, u % build.rails = r
  PROVE  got'[t][u] = IF r \in Abreast(t) /\ By(x, x.at + 1) = u THEN got[t][u] + 1 ELSE got[t][u]
<1>0. TypeOK /\ RailsOK
  BY DEF IInv
<1> DEFINE ms == {link[from[t][q]] : q \in Abreast(t)}
           own == {m \in ms : stamp[m].by = u}
<1>1. got'[t][u] = got[t][u] + Cardinality(own) /\ got[t][u] \in Nat
  BY <1>0 DEF Take, TypeOK
<1>2. ASSUME NEW q \in Abreast(t), stamp[link[from[t][q]]].by = u
      PROVE  q = r
  <2>1. q \in Rails
    BY DEF Abreast, Left
  <2>2. PICK y \in Witnesses : RailOK(t, q, y)
    BY <1>0, <2>1 DEF RailsOK
  <2>3. /\ link[from[t][q]] = y.item[y.at + 1] /\ y.at + 1 \in Nat /\ Held(y, y.at + 1)
    BY <2>2, TakenFrom
  <2>4. By(y, y.at + 1) % build.rails = q
    BY <2>2, <2>3 DEF RailOK, StampsOK
  <2> QED
    BY <1>2, <2>3, <2>4 DEF By
<1>3. CASE r \in Abreast(t) /\ By(x, x.at + 1) = u
  <2>1. link[from[t][r]] = x.item[x.at + 1]
    BY <1>3, TakenFrom
  <2>2. own = {x.item[x.at + 1]}
    BY <1>2, <1>3, <2>1 DEF By
  <2>3. Cardinality(own) = 1
    BY <2>2, FS_Singleton
  <2> QED
    BY <1>1, <1>3, <2>3
<1>4. CASE ~ (r \in Abreast(t) /\ By(x, x.at + 1) = u)
  <2>1. r \in Abreast(t) => link[from[t][r]] = x.item[x.at + 1]
    BY TakenFrom
  <2>2. own = {}
    BY <1>2, <1>4, <2>1 DEF By
  <2>3. Cardinality(own) = 0
    BY <2>2, FS_EmptySet
  <2> QED
    BY <1>1, <1>4, <2>3
<1> QED
  BY <1>3, <1>4

(* Without a late pass, what Take passes may be given back.                *)
LEMMA TakeGivable ==
  ASSUME IInv, NEW t \in Threads, Take(t), ~ build.late, NEW r \in Abreast(t)
  PROVE  Givable(t, r, from[t][r])
BY TakenFrom DEF Givable

(* What a step of reading changes.                                         *)
LEMMA TakeIs ==
  ASSUME IInv, NEW t \in Threads, Take(t)
  PROVE  /\ pc[t] = "take" /\ Abreast(t) \subseteq Rails
         /\ build' = build /\ pc' = pc /\ tailp' = tailp /\ headp' = headp /\ upto' = upto
         /\ given' = given /\ pending' = pending /\ epoch' = epoch /\ began' = began /\ sent' = sent
         /\ \A u \in Threads : u # t => from'[u] = from[u] /\ got'[u] = got[u]
         /\ \A r \in Rails : from'[t][r] = IF r \in Abreast(t) THEN LinkOf(link[from[t][r]])
                                           ELSE from[t][r]
         /\ build.late => UNCHANGED <<memory, owner>>
         /\ ~ build.late => GiveBack(t, Abreast(t), from[t])
<1>0. TypeOK
  BY DEF IInv
<1>1. Abreast(t) \subseteq Rails
  BY DEF Abreast, Left
<1>2. /\ pc[t] = "take"
      /\ build' = build /\ pc' = pc /\ tailp' = tailp /\ headp' = headp /\ upto' = upto
      /\ given' = given /\ pending' = pending /\ epoch' = epoch /\ began' = began /\ sent' = sent
      /\ build.late => UNCHANGED <<memory, owner>>
      /\ ~ build.late => GiveBack(t, Abreast(t), from[t])
  BY DEF Take, At
<1>3. \A u \in Threads : u # t => from'[u] = from[u] /\ got'[u] = got[u]
  BY <1>0 DEF Take, TypeOK
<1>4. \A r \in Rails : from'[t][r] = IF r \in Abreast(t) THEN LinkOf(link[from[t][r]])
                                           ELSE from[t][r]
  BY <1>0 DEF Take, TypeOK
<1> QED
  BY <1>1, <1>2, <1>3, <1>4

(* Take keeps the types.                                                   *)
LEMMA TakeType ==
  ASSUME IInv, NEW t \in Threads, Take(t)
  PROVE  TypeOK'
<1>0. TypeOK /\ RailsOK
  BY DEF IInv
<1> DEFINE rs == Abreast(t)
           ms == {link[from[t][r]] : r \in rs}
           gs == [u \in Threads |-> got[t][u] + Cardinality({m \in ms : stamp[m].by = u})]
           fs == [r \in Rails |-> IF r \in rs THEN LinkOf(link[from[t][r]]) ELSE from[t][r]]
<1>1. /\ got' = [got EXCEPT ![t] = gs] /\ from' = [from EXCEPT ![t] = fs]
      /\ UNCHANGED <<build, pc, tailp, headp, upto, given, pending, sentVars, epoch, began, sent>>
  BY DEF Take
<1>2. gs \in [Threads -> Nat]
  <2>1. ASSUME NEW u \in Threads PROVE got'[t][u] \in Nat
    <3>1. PICK r \in Rails : u % build.rails = r
      BY <1>0, BuildFacts
    <3>2. PICK x \in Witnesses : RailOK(t, r, x)
      BY <1>0 DEF RailsOK
    <3>3. got'[t][u] = got[t][u] + 1 \/ got'[t][u] = got[t][u]
      BY <3>1, <3>2, TakenGot
    <3>4. got[t][u] \in Nat
      BY <1>0 DEF TypeOK
    <3> QED
      BY <3>3, <3>4
  <2>2. \A u \in Threads : got'[t][u] = gs[u]
    BY <1>0, <1>1 DEF TypeOK
  <2>3. \A u \in Threads : gs[u] \in Nat
    BY <2>1, <2>2
  <2> QED
    BY <2>3
<1>3. fs \in [Rails -> Links \cup {<<>>}]
  <2>1. ASSUME NEW r \in rs PROVE LinkOf(link[from[t][r]]) \in Links
    <3>1. r \in Rails
      BY TakeIs
    <3>2. PICK x \in Witnesses : RailOK(t, r, x)
      BY <1>0, <3>1 DEF RailsOK
    <3>3. link[from[t][r]] = x.item[x.at + 1] /\ x.at + 1 \in Nat
      BY <3>2, TakenFrom
    <3> QED
      BY <3>3, WitnessFacts, LinksAre
  <2>2. \A r \in Rails : from[t][r] \in Links \cup {<<>>}
    BY <1>0 DEF TypeOK
  <2> QED
    BY <2>1, <2>2
<1>4. /\ link' \in [Links -> Msgs \cup {Null, Mark}]
      /\ sentNext' \in [SentLinks -> Msgs \cup {Null}]
      /\ age' \in [Msgs -> Nat]
      /\ stamp' \in [Msgs -> [by : Threads, to : Threads, no : Nat \ {0}] \cup {Freed}]
      /\ owner' \in [Threads -> [Rails -> Msgs \cup {Null}]]
  <2>1. CASE build.late
    <3>1. UNCHANGED <<memory, owner>>
      BY <2>1, TakeIs
    <3> QED
      BY <1>0, <3>1 DEF memory, TypeOK
  <2>2. CASE ~ build.late
    <3>1. GiveBack(t, rs, from[t]) /\ rs \in SUBSET Rails
      BY <2>2, TakeIs
    <3>2. \A r \in rs : Givable(t, r, from[t][r])
      BY <2>2, TakeGivable
    <3> HIDE DEF rs
    <3> QED
      BY <3>1, <3>2, GiveBackType
  <2> QED
    BY <2>1, <2>2
<1>5. Rails' = Rails /\ Links' = Links /\ build' = build
  BY <1>1 DEF Rails, Links
<1> HIDE DEF gs, fs
<1>6. got' \in [Threads -> [Threads -> Nat]] /\ from' \in [Threads -> [Rails -> Links \cup {<<>>}]]
  BY <1>0, <1>1, <1>2, <1>3 DEF TypeOK
<1> HIDE DEF rs, ms
<1>7. /\ pc' = pc /\ tailp' = tailp /\ headp' = headp /\ upto' = upto /\ given' = given
      /\ pending' = pending /\ sentTail' = sentTail /\ scan' = scan /\ keeps' = keeps
      /\ epoch' = epoch /\ began' = began /\ sent' = sent
  BY <1>1 DEF sentVars
<1> QED
  BY <1>0, <1>4, <1>5, <1>6, <1>7 DEF TypeOK

-----------------------------------------------------------------------------
(* What a step of reading gives back: nothing if that is done later.       *)
GivenNow(t) == IF build.late THEN {} ELSE Abreast(t)

(* Take leaves alone whatever is not given back by it.                     *)
LEMMA TakeSpares ==
  ASSUME IInv, NEW t \in Threads, Take(t)
  PROVE  /\ MemoryOK'
         /\ \A u \in Threads : u # t => owner'[u] = owner[u]
         /\ \A r \in Rails : owner'[t][r] = IF build.kind = "asym" /\ r \in GivenNow(t) THEN link[from[t][r]]
                                            ELSE owner[t][r]
         /\ \A u, w \in Threads, q \in Rails : Sends(u, w, q)' <=> Sends(u, w, q)
         /\ \A u \in Threads, q \in Rails, v \in Witnesses : RailOK(u, q, v) =>
              /\ \A n \in v.lo .. v.end : Elsewhere(t, GivenNow(t), u, q, v, n) =>
                   link'[Leaves(v, n)] = link[Leaves(v, n)]
              /\ \A n \in Nat : Held(v, n) /\ Elsewhere(t, GivenNow(t), u, q, v, n) =>
                   stamp'[v.item[n]] = stamp[v.item[n]] /\ age'[v.item[n]] = age[v.item[n]]
<1>1. build' = build /\ pending' = pending
  BY TakeIs
<1>2. CASE build.late
  <2>1. link' = link /\ stamp' = stamp /\ age' = age /\ owner' = owner
    BY <1>2, TakeIs DEF memory
  <2>2. MemoryOK'
    BY <1>1, <2>1 DEF IInv, MemoryOK, live
  <2>3. \A u, w \in Threads, q \in Rails : Sends(u, w, q)' <=> Sends(u, w, q)
    BY <1>1, <2>1 DEF Sends
  <2> QED
    BY <1>2, <2>1, <2>2, <2>3 DEF GivenNow
<1>3. CASE ~ build.late
  <2>1. GiveBack(t, Abreast(t), from[t]) /\ Abreast(t) \in SUBSET Rails
    BY <1>3, TakeIs
  <2>2. \A r \in Abreast(t) : Givable(t, r, from[t][r])
    BY <1>3, TakeGivable
  <2> DEFINE rs == Abreast(t)
  <2>3. GivenNow(t) = rs
    BY <1>3 DEF GivenNow
  <2> HIDE DEF rs
  <2>4. /\ MemoryOK'
        /\ \A u \in Threads : u # t => owner'[u] = owner[u]
        /\ \A r \in Rails : owner'[t][r] = IF build.kind = "asym" /\ r \in rs THEN link[from[t][r]]
                                            ELSE owner[t][r]
        /\ \A u, w \in Threads, q \in Rails : Sends(u, w, q)' <=> Sends(u, w, q)
        /\ \A u \in Threads, q \in Rails, v \in Witnesses : RailOK(u, q, v) =>
              /\ \A n \in v.lo .. v.end : Elsewhere(t, rs, u, q, v, n) => link'[Leaves(v, n)] = link[Leaves(v, n)]
              /\ \A n \in Nat : Held(v, n) /\ Elsewhere(t, rs, u, q, v, n) =>
                   stamp'[v.item[n]] = stamp[v.item[n]] /\ age'[v.item[n]] = age[v.item[n]]
    <3>1. GiveBack(t, rs, from[t]) /\ rs \in SUBSET Rails /\ \A r \in rs : Givable(t, r, from[t][r])
      BY <2>1, <2>2 DEF rs
    <3> QED
      BY <1>1, <3>1, GiveBackIs
  <2> QED
    BY <2>3, <2>4
<1> QED
  BY <1>2, <1>3

(* A rail that is read from: one more message executed, and given back if  *)
(* messages are not given back late.                                       *)
LEMMA TakeRail ==
  ASSUME IInv, TypeOK', NEW t \in Threads, Take(t), NEW r \in Abreast(t),
         NEW x \in Witnesses, RailOK(t, r, x)
  PROVE  \E v \in Witnesses : RailOK(t, r, v)'
<1>0. TypeOK /\ MemoryOK /\ EpochsOK /\ Ordered(x) /\ LinksOK(t, r, x) /\ PlacesOK(t, r, x)
  BY DEF IInv, RailOK
<1>1. /\ r \in Rails /\ x.at < x.cut /\ from[t][r] = Leaves(x, x.at)
      /\ link[from[t][r]] = x.item[x.at + 1]
      /\ ~ build.late => x.lo = x.at /\ from[t][r] = x.base
  BY TakenFrom
<1>2. /\ x.lo \in Nat /\ x.at \in Nat /\ x.cut \in Nat /\ x.end \in Nat
      /\ x.lo <= x.at /\ x.at <= x.cut /\ x.cut <= x.end
  BY <1>0, WitnessFacts DEF Ordered
<1>3. PICK lo \in Nat : lo = IF build.late THEN x.lo ELSE x.lo + 1
  BY <1>2
<1>4. PICK at \in Nat : at = x.at + 1
  BY <1>2
<1>5. x.lo <= lo /\ lo <= at /\ x.at <= at /\ at <= x.cut /\ at # x.at
  BY <1>1, <1>2, <1>3, <1>4
<1>6. /\ pc[t] = "take"
      /\ build' = build /\ pc' = pc /\ tailp' = tailp /\ headp' = headp /\ upto' = upto
      /\ given' = given /\ pending' = pending /\ epoch' = epoch /\ began' = began /\ sent' = sent
      /\ from'[t][r] = LinkOf(link[from[t][r]])
  BY <1>1, TakeIs
<1>7. \A n \in Nat : n >= lo => Elsewhere(t, GivenNow(t), t, r, x, n)
  BY <1>2, <1>3 DEF Elsewhere, GivenNow
<1>8. /\ \A n \in lo .. x.end : link'[Leaves(x, n)] = link[Leaves(x, n)]
      /\ \A n \in lo .. x.end : Held(x, n) =>
           stamp'[x.item[n]] = stamp[x.item[n]] /\ age'[x.item[n]] = age[x.item[n]]
  <2>1. /\ \A n \in x.lo .. x.end : Elsewhere(t, GivenNow(t), t, r, x, n) =>
                   link'[Leaves(x, n)] = link[Leaves(x, n)]
        /\ \A n \in Nat : Held(x, n) /\ Elsewhere(t, GivenNow(t), t, r, x, n) =>
                   stamp'[x.item[n]] = stamp[x.item[n]] /\ age'[x.item[n]] = age[x.item[n]]
    BY <1>1, TakeSpares
  <2>2. \A n \in lo .. x.end : n \in Nat /\ n >= lo /\ n \in x.lo .. x.end
    BY <1>2, <1>5
  <2> QED
    BY <1>7, <2>1, <2>2
<1>9. /\ owner'[t][r] = IF build.kind = "asym" /\ ~ build.late THEN x.item[at] ELSE owner[t][r]
  BY <1>1, <1>4, TakeSpares DEF GivenNow
<1>10. \A u \in Threads : Sends(u, t, r)' => Sends(u, t, r)
  BY <1>1, TakeSpares
<1>11. \A u \in Threads : u % build.rails = r =>
         got'[t][u] = IF at # x.at /\ By(x, at) = u THEN got[t][u] + 1 ELSE got[t][u]
  BY <1>1, <1>4, <1>5, TakenGot
<1>12. GoesOn(t, r, x, lo, at)
  BY <1>1, <1>4, <1>6, <1>8, <1>10, <1>11 DEF GoesOn
<1> DEFINE v == Onward(x, lo, at)
<1>13. /\ v \in Witnesses /\ Ordered(v)
       /\ LinksOK(t, r, v)' /\ StampsOK(t, r, v)' /\ AgesOK(t, v)'
  BY <1>0, <1>1, <1>5, <1>12, OnwardKept
<1>14. /\ v.item = x.item /\ v.lo = lo /\ v.at = at /\ v.cut = x.cut /\ v.end = x.end
       /\ v.head = x.head
       /\ v.base = IF lo = x.lo THEN x.base ELSE LinkOf(x.item[lo])
       /\ \A n \in Nat : n >= lo => Leaves(v, n) = Leaves(x, n) /\ ReachedBy(v, n) = ReachedBy(x, n)
  BY <1>0, <1>5, OnwardIs
<1> HIDE DEF v
<1>15. PlacesOK(t, r, v)'
  <2>1. BaseHead(t, r)' = BaseHead(t, r) /\ NextHead(t, r)' = NextHead(t, r)
    BY <1>6 DEF BaseHead, NextHead
  <2>2. (Moved(t)' <=> Moved(t)) /\ Reading(t)' /\ Reading(t)
    BY <1>6 DEF Moved, Reading, Rehead, bumped
  <2>3. ReachedBy(v, v.at) = LinkOf(x.item[at])
    BY <1>2, <1>4, <1>5, <1>14 DEF ReachedBy
  <2>4. ReachedBy(v, v.cut) = ReachedBy(x, x.cut) /\ Leaves(v, v.end) = Leaves(x, x.end)
    BY <1>2, <1>5, <1>14
  <2>5. headp'[t][r] = v.head /\ tailp'[t][r] = Leaves(v, v.end)
    BY <1>0, <1>6, <1>14, <2>4 DEF PlacesOK
  <2>6. v.base \in {LinkOf(v.item[v.lo]), BaseHead(t, r)}
    BY <1>0, <1>14 DEF PlacesOK
  <2>7. v.head = IF Moved(t) THEN NextHead(t, r) ELSE ReachedBy(v, v.cut)
    BY <1>0, <1>14, <2>4 DEF PlacesOK
  <2>8. from'[t][r] = ReachedBy(v, v.at)
    BY <1>1, <1>4, <1>6, <2>3
  <2>9. IF build.late THEN given'[t][r] = v.base ELSE v.lo = v.at
    <3>1. CASE build.late
      <4>1. given[t][r] = x.base
        BY <1>0, <1>6, <3>1 DEF PlacesOK
      <4> QED
        BY <1>3, <1>6, <1>14, <3>1, <4>1
    <3>2. CASE ~ build.late
      BY <1>1, <1>3, <1>4, <1>14, <3>2
    <3> QED
      BY <3>1, <3>2
  <2>10. upto'[t][r] = ReachedBy(v, v.cut)
    BY <1>0, <1>6, <2>2, <2>4 DEF PlacesOK
  <2>11. build.kind = "asym" =>
           owner'[t][r] = IF v.base = LinkOf(v.item[v.lo]) THEN v.item[v.lo] ELSE Null
    <3>1. SUFFICES ASSUME build.kind = "asym"
                   PROVE  owner'[t][r] = IF v.base = LinkOf(v.item[v.lo]) THEN v.item[v.lo] ELSE Null
      OBVIOUS
    <3>2. CASE build.late
      <4>1. owner'[t][r] = owner[t][r] /\ v.lo = x.lo /\ v.base = x.base /\ v.item = x.item
        BY <1>3, <1>9, <1>14, <3>2
      <4>2. owner[t][r] = IF x.base = LinkOf(x.item[x.lo]) THEN x.item[x.lo] ELSE Null
        BY <1>0, <3>1 DEF PlacesOK
      <4> QED
        BY <4>1, <4>2
    <3>3. CASE ~ build.late
      <4>1. owner'[t][r] = x.item[at] /\ lo = at /\ lo # x.lo
        BY <1>1, <1>2, <1>3, <1>4, <1>9, <3>1, <3>3
      <4> QED
        BY <1>14, <4>1
    <3> QED
      BY <3>2, <3>3
  <2>12. pc'[t] = "take"
    BY <1>6
  <2> QED
    BY <1>6, <2>1, <2>2, <2>5, <2>6, <2>7, <2>8, <2>9, <2>10, <2>11, <2>12 DEF PlacesOK
<1> QED
  BY <1>13, <1>15 DEF RailOK

(* Take keeps the invariant.                                               *)
LEMMA TakeKept ==
  ASSUME IInv, NEW t \in Threads, Take(t)
  PROVE  IInv'
<1>0. TypeOK /\ MemoryOK /\ EpochsOK /\ RailsOK /\ TypeOK'
  BY TakeType DEF IInv
<1>1. /\ build' = build /\ pc' = pc /\ tailp' = tailp /\ headp' = headp /\ upto' = upto
      /\ given' = given /\ pending' = pending /\ epoch' = epoch /\ began' = began /\ sent' = sent
      /\ \A u \in Threads : u # t => from'[u] = from[u] /\ got'[u] = got[u]
      /\ \A r \in Rails : from'[t][r] = IF r \in Abreast(t) THEN LinkOf(link[from[t][r]])
                                           ELSE from[t][r]
  BY TakeIs
<1>2. MemoryOK'
  BY TakeSpares
<1>3. EpochsOK'
  BY <1>0, <1>1 DEF EpochsOK, bumped
<1>4. ASSUME NEW u \in Threads, NEW q \in Rails PROVE \E v \in Witnesses : RailOK(u, q, v)'
  <2>1. PICK v \in Witnesses : RailOK(u, q, v)
    BY <1>0 DEF RailsOK
  <2>2. CASE u = t /\ q \in Abreast(t)
    BY <1>0, <2>1, <2>2, TakeRail
  <2>3. CASE ~ (u = t /\ q \in Abreast(t))
    <3>1. \A n : Elsewhere(t, GivenNow(t), u, q, v, n)
      BY <2>3 DEF Elsewhere, GivenNow
    <3>2. /\ \A n \in v.lo .. v.end : link'[Leaves(v, n)] = link[Leaves(v, n)]
          /\ \A n \in Nat : Held(v, n) =>
                   stamp'[v.item[n]] = stamp[v.item[n]] /\ age'[v.item[n]] = age[v.item[n]]
      BY <2>1, <3>1, TakeSpares
    <3>3. \A z \in Threads : Sends(z, u, q)' <=> Sends(z, u, q)
      BY TakeSpares
    <3>4. owner'[u][q] = owner[u][q]
      BY <2>3, TakeSpares DEF GivenNow
    <3>5. \A z \in Threads : z % build.rails = q => got'[u][z] = got[u][z]
      BY <1>1, <2>1, <2>3, TakenGot
    <3>6. from'[u][q] = from[u][q]
      BY <1>1, <2>3
    <3>7. SamePlaces(u, q)
      BY <1>1, <3>4, <3>6 DEF SamePlaces
    <3>8. Quiet(u, q, v)
      BY <1>1, <3>2, <3>3, <3>5, <3>7 DEF Quiet, Untouched, SameLinks, SameStamps
    <3>9. RailOK(u, q, v)'
      BY <1>0, <2>1, <3>8, QuietKept
    <3> QED
      BY <3>9
  <2> QED
    BY <2>2, <2>3
<1>5. Rails' = Rails /\ Witnesses' = Witnesses
  BY <1>1 DEF Rails, Witnesses, Links
<1>6. RailsOK'
  BY <1>4, <1>5 DEF RailsOK
<1> QED
  BY <1>0, <1>2, <1>3, <1>6 DEF IInv

-----------------------------------------------------------------------------
(* The rail when all that was seen is executed and given back.             *)
Rested(w) == [item |-> w.item, lo |-> w.lo, at |-> w.at, cut |-> w.cut, end |-> w.end,
              base |-> w.head, head |-> w.head]

(* A rail whose reader has ended its pass: everything up to the cut has    *)
(* been given back, and the reader is nowhere in it.                       *)
LEMMA LeaveRail ==
  ASSUME IInv, NEW t \in Threads, Reading(t), Leave(t), NEW r \in Rails,
         NEW x \in Witnesses, RailOK(t, r, x), x.lo = x.cut
  PROVE  \E v \in Witnesses : RailOK(t, r, v)'
<1>0. /\ TypeOK /\ MemoryOK /\ EpochsOK
      /\ Ordered(x) /\ LinksOK(t, r, x) /\ StampsOK(t, r, x) /\ PlacesOK(t, r, x) /\ AgesOK(t, x)
  BY DEF IInv, RailOK
<1>1. /\ x.lo \in Nat /\ x.at \in Nat /\ x.cut \in Nat /\ x.end \in Nat /\ x.item \in [Nat -> Msgs]
      /\ x.lo = x.at /\ x.at = x.cut /\ x.cut <= x.end /\ x.head \in Links
  BY <1>0 DEF Witnesses, Ordered
<1> DEFINE v == Rested(x)
<1>2. /\ v.item = x.item /\ v.lo = x.lo /\ v.at = x.at /\ v.cut = x.cut /\ v.end = x.end
      /\ v.base = x.head /\ v.head = x.head
  BY DEF Rested
<1>3. v \in Witnesses
  BY <1>1 DEF Witnesses, Rested
<1> HIDE DEF v
<1>4. /\ pc' = [pc EXCEPT ![t] = "user"] /\ began' = [began EXCEPT ![t] = TRUE]
      /\ build' = build /\ link' = link /\ age' = age /\ stamp' = stamp /\ tailp' = tailp
      /\ headp' = headp /\ owner' = owner /\ pending' = pending /\ epoch' = epoch
      /\ sent' = sent /\ got' = got
  BY DEF Leave, Goto, memory, history
<1>5. pc'[t] = "user" /\ began'[t] = TRUE /\ ~ Reading(t)' /\ ~ Moved(t)' /\ ~ bumped(t)'
  BY <1>0, <1>4 DEF TypeOK, Reading, Moved, bumped
<1>20. /\ x.lo \in Nat /\ x.at \in Nat /\ x.cut \in Nat /\ x.end \in Nat
       /\ x.lo <= x.at /\ x.at <= x.cut /\ x.cut <= x.end /\ x.cut <= x.lo
  BY <1>0, <1>1 DEF Ordered
<1>6. Ordered(v)
  BY <1>2, <1>20 DEF Ordered
<1>7. x.head = IF Moved(t) THEN NextHead(t, r) ELSE x.base
  BY <1>0, <1>1 DEF PlacesOK, ReachedBy
<1>8. /\ \A n \in Nat : n >= x.lo => Leaves(v, n) = Leaves(x, n)
      /\ ReachedBy(v, v.cut) = x.head
  BY <1>1, <1>2 DEF Leaves, ReachedBy
<1>9. \A n \in Nat : Held(v, n) => /\ Held(x, n) /\ n >= x.lo
                                   /\ Moved(t) => n > x.cut
  <2>1. ASSUME NEW n \in Nat, Held(v, n), n = x.lo PROVE ~ Moved(t) /\ Held(x, n)
    <3>1. x.head = LinkOf(x.item[n]) /\ n \in x.lo .. x.end
      BY <1>2, <2>1 DEF Held
    <3>2. ~ Moved(t)
      BY <1>7, <3>1, LinkFacts DEF NextHead
    <3> QED
      BY <1>7, <3>1, <3>2 DEF Held
  <2>2. ASSUME NEW n \in Nat, Held(v, n), n # x.lo PROVE Held(x, n) /\ n > x.cut
    BY <1>2, <1>20, <2>2 DEF Held
  <2>3. \A n \in Nat : Held(v, n) => n >= x.lo
    BY <1>2, <1>20 DEF Held
  <2> QED
    BY <2>1, <2>2, <2>3
<1>10. LinksOK(t, r, v)'
  <2>1. \A n \in x.at .. x.end - 1 : link[Leaves(x, n)] = x.item[n + 1] \/ \E u \in Threads : Gap(x, n, u)
    BY <1>0 DEF LinksOK
  <2>2. \A n \in x.at .. x.end - 1 : n \in Nat /\ n >= x.lo /\ Leaves(v, n) = Leaves(x, n)
    BY <1>1, <1>8
  <2>3. \A n \in x.at .. x.end - 1, u \in Threads : Gap(x, n, u) => Gap(v, n, u)'
    BY <1>2, <1>4, <2>2 DEF Gap
  <2>4. \A n \in v.at .. v.end - 1 : link'[Leaves(v, n)] = v.item[n + 1] \/ \E u \in Threads : Gap(v, n, u)'
    BY <1>2, <1>4, <2>1, <2>2, <2>3
  <2>5. link'[Leaves(v, v.end)] = Null
    BY <1>0, <1>1, <1>2, <1>4, <1>8 DEF LinksOK
  <2>6. \A u \in Threads : Sends(u, t, r)' => \E n \in v.at .. v.end - 1 : Gap(v, n, u)'
    <3>1. \A u \in Threads : Sends(u, t, r)' => Sends(u, t, r)
      BY <1>4 DEF Sends
    <3>2. \A u \in Threads : Sends(u, t, r) => \E n \in x.at .. x.end - 1 : Gap(x, n, u)
      BY <1>0 DEF LinksOK
    <3> QED
      BY <1>2, <2>3, <3>1, <3>2
  <2>7. \A n \in v.lo .. v.at - 1 : link'[Leaves(v, n)] = v.item[n + 1]
    BY <1>2, <1>20
  <2> QED
    BY <2>4, <2>5, <2>6, <2>7 DEF LinksOK
<1>11. StampsOK(t, r, v)'
  <2>1. StampsOK(t, r, v)
    <3>1. \A n : By(v, n) = By(x, n) /\ No(v, n) = No(x, n)
      BY <1>2 DEF By, No
    <3> QED
      BY <1>0, <1>2, <1>9, <3>1 DEF StampsOK
  <2>2. SameStamps(t, r, v)
    BY <1>4 DEF SameStamps
  <2> QED
    BY <1>3, <1>6, <2>1, <2>2, SameStampsKept
<1>12. PlacesOK(t, r, v)'
  <2>1. NextHead(t, r) = HeadLink(t, r, epoch[t] % 2) /\ BaseHead(t, r)' = HeadLink(t, r, epoch[t] % 2)
    BY <1>4, <1>5 DEF NextHead, BaseHead
  <2>2. x.base \in {LinkOf(x.item[x.lo]), BaseHead(t, r)}
    BY <1>0 DEF PlacesOK
  <2>3. ~ Moved(t) => began[t]
    <3>1. began[t] \in BOOLEAN
      BY <1>0, EpochIs
    <3> QED
      BY <1>0, <3>1 DEF Moved, Rehead, EpochsOK, bumped
  <2>4. x.head \in {LinkOf(x.item[x.lo]), BaseHead(t, r)'}
    <3>1. CASE Moved(t)
      BY <1>7, <2>1, <3>1
    <3>2. CASE ~ Moved(t)
      BY <1>7, <2>1, <2>2, <2>3, <3>2 DEF BaseHead
    <3> QED
      BY <3>1, <3>2
  <2>5. build.kind = "asym" => owner[t][r] = IF x.head = LinkOf(x.item[x.lo]) THEN x.item[x.lo] ELSE Null
    BY <1>0, <1>7 DEF PlacesOK, Moved, Rehead
  <2>6. headp[t][r] = x.head /\ tailp[t][r] = Leaves(x, x.end)
    BY <1>0 DEF PlacesOK
  <2>7. Leaves(v, v.end) = Leaves(x, x.end)
    BY <1>1, <1>2, <1>8
  <2> QED
    BY <1>1, <1>2, <1>4, <1>5, <1>8, <2>4, <2>5, <2>6, <2>7 DEF PlacesOK
<1>13. AgesOK(t, v)'
  <2> SUFFICES ASSUME build.kind = "epoch", NEW n \in Nat, Held(v, n)
               PROVE  age'[v.item[n]] <= Lead(By(v, n), t)' + 1
    BY <1>4, <1>5 DEF AgesOK
  <2>1. Held(x, n) /\ (Moved(t) => ~ (n <= x.cut))
    BY <1>1, <1>9
  <2>2. age[x.item[n]] <= Lead(By(x, n), t) + IF bumped(t) /\ (Reading(t) => n <= x.cut) THEN 2 ELSE 1
    BY <1>0, <2>1 DEF AgesOK
  <2>3. ~ (bumped(t) /\ (Reading(t) => n <= x.cut))
    BY <2>1 DEF Moved, Rehead
  <2>4. By(v, n)' = By(x, n) /\ age'[v.item[n]] = age[x.item[n]]
    BY <1>2, <1>4 DEF By
  <2>5. Lead(By(v, n), t)' = Lead(By(x, n), t)
    BY <1>4, <2>4 DEF Lead
  <2> QED
    BY <2>2, <2>3, <2>4, <2>5
<1> QED
  BY <1>3, <1>6, <1>10, <1>11, <1>12, <1>13 DEF RailOK

(* Leave keeps the invariant.                                              *)
LEMMA LeaveKept ==
  ASSUME IInv, NEW t \in Threads, Reading(t), Leave(t),
         \A r \in Rails, x \in Witnesses : RailOK(t, r, x) => x.lo = x.cut
  PROVE  IInv'
<1>0. TypeOK /\ MemoryOK /\ EpochsOK /\ RailsOK
  BY DEF IInv
<1>1. /\ pc' = [pc EXCEPT ![t] = "user"] /\ began' = [began EXCEPT ![t] = TRUE]
      /\ from' = [from EXCEPT ![t] = Nowhere] /\ upto' = [upto EXCEPT ![t] = Nowhere]
      /\ given' = [given EXCEPT ![t] = Nowhere]
      /\ build' = build /\ link' = link /\ age' = age /\ stamp' = stamp /\ tailp' = tailp
      /\ headp' = headp /\ owner' = owner /\ pending' = pending /\ epoch' = epoch
      /\ sent' = sent /\ got' = got /\ sentNext' = sentNext /\ sentTail' = sentTail
      /\ scan' = scan /\ keeps' = keeps
  BY DEF Leave, Goto, memory, history, sentVars
<1>2. /\ pc'[t] = "user" /\ began'[t] = TRUE
      /\ \A u \in Threads : u # t => /\ pc'[u] = pc[u] /\ began'[u] = began[u] /\ from'[u] = from[u]
                                     /\ upto'[u] = upto[u] /\ given'[u] = given[u]
  BY <1>0, <1>1 DEF TypeOK
<1>3. Rails' = Rails /\ Links' = Links /\ Witnesses' = Witnesses
  BY <1>1 DEF Rails, Links, Witnesses
<1>4. TypeOK'
  <2>1. Nowhere \in [Rails -> Links \cup {<<>>}]
    BY DEF Nowhere
  <2>2. /\ from' \in [Threads -> [Rails -> Links \cup {<<>>}]]
        /\ upto' \in [Threads -> [Rails -> Links \cup {<<>>}]]
        /\ given' \in [Threads -> [Rails -> Links \cup {<<>>}]]
    BY <1>0, <1>1, <2>1 DEF TypeOK
  <2>3. /\ pc' \in [Threads -> {"user", "reclaim", "receive", "take", "give"}]
        /\ began' \in [Threads -> BOOLEAN]
    BY <1>0, <1>1 DEF TypeOK
  <2> QED
    BY <1>0, <1>1, <1>3, <2>2, <2>3 DEF TypeOK
<1>5. MemoryOK'
  BY <1>0, <1>1 DEF MemoryOK, live
<1>6. EpochsOK'
  <2>1. \A u \in Threads : began[u] => began'[u]
    BY <1>2
  <2> QED
    BY <1>0, <1>1, <1>2, <2>1 DEF EpochsOK, bumped
<1>7. ASSUME NEW u \in Threads, NEW q \in Rails PROVE \E v \in Witnesses : RailOK(u, q, v)'
  <2>1. PICK v \in Witnesses : RailOK(u, q, v)
    BY <1>0 DEF RailsOK
  <2>2. CASE u = t
    <3>1. RailOK(t, q, v) /\ v.lo = v.cut
      BY <2>1, <2>2
    <3>2. \E x \in Witnesses : RailOK(t, q, x)'
      BY <3>1, LeaveRail
    <3> QED
      BY <2>2, <3>2
  <2>3. CASE u # t
    <3>1. \A z \in Threads : Sends(z, u, q)' <=> Sends(z, u, q)
      BY <1>1 DEF Sends
    <3>2. SamePlaces(u, q)
      BY <1>1, <1>2, <2>3 DEF SamePlaces
    <3>3. Quiet(u, q, v)
      BY <1>1, <3>1, <3>2 DEF Quiet, Untouched, SameLinks, SameStamps
    <3>4. RailOK(u, q, v)'
      BY <1>0, <1>4, <2>1, <3>3, QuietKept
    <3> QED
      BY <3>4
  <2> QED
    BY <2>2, <2>3
<1>8. RailsOK'
  BY <1>3, <1>7 DEF RailsOK
<1> QED
  BY <1>4, <1>5, <1>6, <1>8 DEF IInv

-----------------------------------------------------------------------------
(* The reader has come to what it saw as the end, on every rail.           *)
LEMMA TakenAllKept ==
  ASSUME IInv, NEW t \in Threads, TakenAll(t)
  PROVE  IInv'
<1>0. TypeOK /\ MemoryOK /\ EpochsOK /\ RailsOK
  BY DEF IInv
<1>1. pc[t] = "take" /\ Reading(t)
  BY DEF TakenAll, At, Reading
<1>2. ASSUME NEW r \in Rails, NEW x \in Witnesses, RailOK(t, r, x)
      PROVE  x.at = x.cut /\ (~ build.late => x.lo = x.cut)
  <2>1. Ordered(x) /\ StampsOK(t, r, x) /\ PlacesOK(t, r, x)
    BY <1>2 DEF RailOK
  <2>2. from[t][r] = upto[t][r]
    BY DEF TakenAll, Left
  <2>3. ReachedBy(x, x.at) = ReachedBy(x, x.cut)
    BY <1>1, <2>1, <2>2 DEF PlacesOK
  <2>4. x.at \in x.lo .. x.cut /\ x.cut \in x.lo .. x.cut
    BY <2>1, WitnessFacts DEF Ordered
  <2>5. x.at = x.cut
    BY <1>0, <2>1, <2>3, <2>4, LeavesOnce
  <2> QED
    BY <1>1, <2>1, <2>5 DEF PlacesOK
<1>3. CASE ~ build.late
  <2>1. Leave(t)
    BY <1>3 DEF TakenAll
  <2>2. \A r \in Rails, x \in Witnesses : RailOK(t, r, x) => x.lo = x.cut
    BY <1>2, <1>3
  <2> QED
    BY <1>1, <2>1, <2>2, LeaveKept
<1>4. CASE build.late
  <2>1. /\ pc' = [pc EXCEPT ![t] = "give"]
        /\ UNCHANGED <<build, memory, channelVars, pending, sentVars, epoch, began, history>>
    BY <1>4 DEF TakenAll, Goto
  <2>2. /\ build' = build /\ link' = link /\ age' = age /\ stamp' = stamp /\ tailp' = tailp
        /\ headp' = headp /\ owner' = owner /\ from' = from /\ upto' = upto /\ given' = given
        /\ pending' = pending /\ epoch' = epoch /\ began' = began
        /\ sent' = sent /\ got' = got /\ sentNext' = sentNext /\ sentTail' = sentTail
        /\ scan' = scan /\ keeps' = keeps
    BY <2>1 DEF memory, channelVars, history, sentVars
  <2>3. /\ pc'[t] = "give" /\ \A u \in Threads : u # t => pc'[u] = pc[u]
        /\ pc' \in [Threads -> {"user", "reclaim", "receive", "take", "give"}]
    BY <1>0, <2>1 DEF TypeOK
  <2>4. Rails' = Rails /\ Links' = Links /\ Witnesses' = Witnesses
    BY <2>2 DEF Rails, Links, Witnesses
  <2>5. TypeOK'
    BY <1>0, <2>2, <2>3, <2>4 DEF TypeOK
  <2>6. MemoryOK' /\ EpochsOK'
    <3>1. MemoryOK'
      BY <1>0, <2>2 DEF MemoryOK, live
    <3>2. EpochsOK'
      BY <1>0, <1>1, <1>4, <2>2, <2>3 DEF EpochsOK, bumped
    <3> QED
      BY <3>1, <3>2
  <2>7. ASSUME NEW u \in Threads, NEW q \in Rails PROVE \E v \in Witnesses : RailOK(u, q, v)'
    <3>1. PICK v \in Witnesses : RailOK(u, q, v)
      BY <1>0 DEF RailsOK
    <3>2. \A z \in Threads : Sends(z, u, q)' <=> Sends(z, u, q)
      BY <2>2 DEF Sends
    <3>3. SameLinks(u, q, v) /\ SameStamps(u, q, v)
      BY <2>2, <3>2 DEF SameLinks, SameStamps
    <3>4. CASE u # t
      <4>1. SamePlaces(u, q)
        BY <2>2, <2>3, <3>4 DEF SamePlaces
      <4>2. Quiet(u, q, v)
        BY <2>2, <3>3, <4>1 DEF Quiet, Untouched
      <4>3. RailOK(u, q, v)'
        BY <1>0, <2>5, <3>1, <4>2, QuietKept
      <4> QED
        BY <4>3
    <3>5. CASE u = t
      <4>1. Ordered(v) /\ LinksOK(t, q, v) /\ StampsOK(t, q, v) /\ PlacesOK(t, q, v) /\ AgesOK(t, v)
        BY <3>1, <3>5 DEF RailOK
      <4>2. LinksOK(t, q, v)' /\ StampsOK(t, q, v)'
        BY <1>0, <3>3, <3>5, <4>1, SameLinksKept
      <4>3. Reading(t)' /\ (Moved(t)' <=> Moved(t)) /\ (bumped(t)' <=> bumped(t))
        BY <1>1, <2>2, <2>3 DEF Reading, Moved, Rehead, bumped
      <4>4. PlacesOK(t, q, v)'
        <5>1. BaseHead(t, q)' = BaseHead(t, q) /\ NextHead(t, q)' = NextHead(t, q)
          BY <2>2 DEF BaseHead, NextHead
        <5>2. v.at = v.cut /\ given[t][q] = v.base
          BY <1>1, <1>2, <1>4, <3>1, <3>5, <4>1 DEF PlacesOK
        <5> QED
          BY <1>1, <2>2, <2>3, <4>1, <4>3, <5>1, <5>2 DEF PlacesOK
      <4>5. AgesOK(t, v)'
        <5>1. \A n : By(v, n)' = By(v, n) /\ Lead(By(v, n), t)' = Lead(By(v, n), t)
          BY <2>2 DEF By, Lead
        <5> QED
          BY <1>1, <2>2, <4>1, <4>3, <5>1 DEF AgesOK
      <4> QED
        BY <3>5, <4>1, <4>2, <4>4, <4>5 DEF RailOK
    <3> QED
      BY <3>4, <3>5
  <2>8. RailsOK'
    BY <2>4, <2>7 DEF RailsOK
  <2> QED
    BY <2>5, <2>6, <2>8 DEF IInv
<1> QED
  BY <1>3, <1>4

-----------------------------------------------------------------------------
(* A rail of which something is still to be given back, and none.          *)
LEMMA GivenFrom ==
  ASSUME IInv, NEW t \in Threads, pc[t] = "give", NEW r \in Rails, NEW x \in Witnesses, RailOK(t, r, x)
  PROVE  /\ given[t][r] = x.base /\ x.at = x.cut
         /\ given[t][r] = upto[t][r] => x.lo = x.cut
         /\ given[t][r] # upto[t][r] =>
              /\ x.lo < x.cut /\ given[t][r] = Leaves(x, x.lo) /\ link[given[t][r]] = x.item[x.lo + 1]
<1>0. /\ TypeOK /\ EpochsOK
      /\ Ordered(x) /\ LinksOK(t, r, x) /\ StampsOK(t, r, x) /\ PlacesOK(t, r, x)
  BY DEF IInv, RailOK
<1>1. /\ x.lo \in Nat /\ x.at \in Nat /\ x.cut \in Nat /\ x.end \in Nat
      /\ x.lo <= x.at /\ x.at <= x.cut /\ x.cut <= x.end
  BY <1>0, WitnessFacts DEF Ordered
<1>2. given[t][r] = x.base /\ x.at = x.cut /\ upto[t][r] = ReachedBy(x, x.cut)
  BY <1>0 DEF PlacesOK, Reading
<1>3. x.base = ReachedBy(x, x.lo)
  BY DEF ReachedBy
<1>4. ASSUME given[t][r] = upto[t][r] PROVE x.lo = x.cut
  <2>1. ReachedBy(x, x.lo) = ReachedBy(x, x.cut)
    BY <1>2, <1>3, <1>4
  <2>2. x.lo \in x.lo .. x.cut /\ x.cut \in x.lo .. x.cut
    BY <1>1
  <2> QED
    BY <1>0, <2>1, <2>2, LeavesOnce
<1>5. ASSUME given[t][r] # upto[t][r]
      PROVE  x.lo < x.cut /\ given[t][r] = Leaves(x, x.lo) /\ link[given[t][r]] = x.item[x.lo + 1]
  <2>1. x.lo # x.cut
    BY <1>2, <1>3, <1>5
  <2>2. x.lo < x.cut /\ given[t][r] = Leaves(x, x.lo)
    BY <1>1, <1>2, <1>3, <2>1 DEF Leaves
  <2>3. x.lo \in x.lo .. x.at - 1
    BY <1>1, <1>2, <2>2
  <2>4. link[Leaves(x, x.lo)] = x.item[x.lo + 1]
    BY <1>0, <2>3 DEF LinksOK
  <2> QED
    BY <2>2, <2>4
<1> QED
  BY <1>2, <1>4, <1>5

(* A rail that the second pass gives back one message of.                  *)
LEMMA GiveRail ==
  ASSUME IInv, TypeOK', NEW t \in Threads, NEW r \in Rails, pc[t] = "give", build.late,
         given[t][r] # upto[t][r], GiveBack(t, {r}, given[t]),
         given'[t][r] = LinkOf(link[given[t][r]]),
         UNCHANGED <<build, pc, tailp, headp, from, upto, pending, epoch, began, history>>,
         NEW x \in Witnesses, RailOK(t, r, x)
  PROVE  \E v \in Witnesses : RailOK(t, r, v)'
<1>0. /\ TypeOK /\ MemoryOK /\ EpochsOK
      /\ Ordered(x) /\ LinksOK(t, r, x) /\ StampsOK(t, r, x) /\ PlacesOK(t, r, x) /\ AgesOK(t, x)
  BY DEF IInv, RailOK
<1>1. /\ x.lo < x.cut /\ x.at = x.cut /\ given[t][r] = Leaves(x, x.lo)
      /\ link[given[t][r]] = x.item[x.lo + 1]
  BY GivenFrom
<1>2. /\ x.lo \in Nat /\ x.at \in Nat /\ x.cut \in Nat /\ x.end \in Nat
      /\ x.lo <= x.at /\ x.at <= x.cut /\ x.cut <= x.end /\ x.cut <= x.at
  BY <1>0, <1>1, WitnessFacts DEF Ordered
<1>3. PICK lo \in Nat : lo = x.lo + 1
  BY <1>2
<1>4. PICK at \in Nat : at = x.at
  BY <1>2
<1>5. x.lo <= lo /\ lo <= at /\ x.at <= at /\ at <= x.cut /\ lo # x.lo
  BY <1>1, <1>2, <1>3, <1>4
<1>6. /\ build' = build /\ pc' = pc /\ tailp' = tailp /\ headp' = headp /\ upto' = upto
      /\ from' = from /\ pending' = pending /\ epoch' = epoch /\ began' = began /\ sent' = sent
      /\ got' = got
  BY DEF history
<1>7. PICK rs \in SUBSET Rails : rs = {r}
  OBVIOUS
<1>8. PICK ls : ls = given[t]
  OBVIOUS
<1>9. GiveBack(t, rs, ls) /\ \A q \in rs : Givable(t, q, ls[q])
  BY <1>7, <1>8, GivenFrom DEF Givable
<1>10. /\ owner'[t][r] = IF build.kind = "asym" THEN link[ls[r]] ELSE owner[t][r]
       /\ \A u \in Threads : Sends(u, t, r)' => Sends(u, t, r)
       /\ \A n \in x.lo .. x.end : Elsewhere(t, rs, t, r, x, n) => link'[Leaves(x, n)] = link[Leaves(x, n)]
       /\ \A n \in Nat : Held(x, n) /\ Elsewhere(t, rs, t, r, x, n) =>
                   stamp'[x.item[n]] = stamp[x.item[n]] /\ age'[x.item[n]] = age[x.item[n]]
  <2>1. /\ MemoryOK'
        /\ \A u \in Threads : u # t => owner'[u] = owner[u]
        /\ \A q \in Rails : owner'[t][q] = IF build.kind = "asym" /\ q \in rs THEN link[ls[q]]
                                            ELSE owner[t][q]
        /\ \A u, w \in Threads, q \in Rails : Sends(u, w, q)' <=> Sends(u, w, q)
        /\ \A u \in Threads, q \in Rails, v \in Witnesses : RailOK(u, q, v) =>
              /\ \A n \in v.lo .. v.end : Elsewhere(t, rs, u, q, v, n) => link'[Leaves(v, n)] = link[Leaves(v, n)]
              /\ \A n \in Nat : Held(v, n) /\ Elsewhere(t, rs, u, q, v, n) =>
                   stamp'[v.item[n]] = stamp[v.item[n]] /\ age'[v.item[n]] = age[v.item[n]]
    BY <1>6, <1>9, GiveBackIs
  <2> QED
    BY <1>7, <2>1
<1>11. \A n \in lo .. x.end : n \in Nat /\ n >= lo /\ n \in x.lo .. x.end /\ Elsewhere(t, rs, t, r, x, n)
  BY <1>2, <1>3 DEF Elsewhere
<1>12. GoesOn(t, r, x, lo, at)
  BY <1>4, <1>6, <1>10, <1>11 DEF GoesOn
<1> DEFINE v == Onward(x, lo, at)
<1>13. /\ v \in Witnesses /\ Ordered(v)
       /\ LinksOK(t, r, v)' /\ StampsOK(t, r, v)' /\ AgesOK(t, v)'
  BY <1>0, <1>5, <1>12, OnwardKept
<1>14. /\ v.item = x.item /\ v.lo = lo /\ v.at = at /\ v.cut = x.cut /\ v.end = x.end
       /\ v.head = x.head
       /\ v.base = IF lo = x.lo THEN x.base ELSE LinkOf(x.item[lo])
       /\ \A n \in Nat : n >= lo => Leaves(v, n) = Leaves(x, n) /\ ReachedBy(v, n) = ReachedBy(x, n)
  BY <1>0, <1>5, OnwardIs
<1> HIDE DEF v
<1>15. PlacesOK(t, r, v)'
  <2>1. BaseHead(t, r)' = BaseHead(t, r) /\ NextHead(t, r)' = NextHead(t, r)
    BY <1>6 DEF BaseHead, NextHead
  <2>2. (Moved(t)' <=> Moved(t)) /\ Reading(t)' /\ Reading(t)
    BY <1>6 DEF Moved, Reading, Rehead, bumped
  <2>3. v.base = LinkOf(x.item[lo]) /\ v.item[v.lo] = x.item[lo] /\ v.at = v.cut
    BY <1>1, <1>4, <1>5, <1>14
  <2>4. ReachedBy(v, v.cut) = ReachedBy(x, x.cut) /\ Leaves(v, v.end) = Leaves(x, x.end)
    BY <1>2, <1>5, <1>14
  <2>5. headp'[t][r] = v.head /\ tailp'[t][r] = Leaves(v, v.end)
    BY <1>0, <1>6, <1>14, <2>4 DEF PlacesOK
  <2>6. v.head = IF Moved(t) THEN NextHead(t, r) ELSE ReachedBy(v, v.cut)
    BY <1>0, <1>14, <2>4 DEF PlacesOK
  <2>7. upto'[t][r] = ReachedBy(v, v.cut)
    BY <1>0, <1>6, <2>2, <2>4 DEF PlacesOK
  <2>8. build.kind = "asym" => owner'[t][r] = x.item[lo]
    BY <1>1, <1>3, <1>8, <1>10
  <2>9. given'[t][r] = v.base
    BY <1>1, <1>3, <2>3
  <2> QED
    BY <1>6, <2>1, <2>2, <2>3, <2>5, <2>6, <2>7, <2>8, <2>9 DEF PlacesOK
<1> QED
  BY <1>13, <1>15 DEF RailOK

(* Give keeps the invariant.                                               *)
LEMMA GiveKept ==
  ASSUME IInv, NEW t \in Threads, Give(t)
  PROVE  IInv'
<1>0. TypeOK /\ MemoryOK /\ EpochsOK /\ RailsOK
  BY DEF IInv
<1>1. pc[t] = "give" /\ build.late /\ Reading(t)
  BY <1>0 DEF Give, At, EpochsOK, Reading
<1>2. CASE given[t] = upto[t] /\ Leave(t)
  <2>1. \A r \in Rails, x \in Witnesses : RailOK(t, r, x) => x.lo = x.cut
    BY <1>1, <1>2, GivenFrom
  <2> QED
    BY <1>1, <1>2, <2>1, LeaveKept
<1>3. ASSUME NEW r \in Rails, given[t][r] # upto[t][r], GiveBack(t, {r}, given[t]),
             given' = [given EXCEPT ![t][r] = LinkOf(link[@])],
             UNCHANGED <<build, pc, tailp, headp, from, upto, pending, sentVars, epoch, began, history>>
      PROVE  IInv'
  <2>1. /\ build' = build /\ pc' = pc /\ tailp' = tailp /\ headp' = headp /\ upto' = upto
        /\ from' = from /\ pending' = pending /\ epoch' = epoch /\ began' = began /\ sent' = sent
        /\ got' = got /\ sentTail' = sentTail /\ scan' = scan /\ keeps' = keeps
    BY <1>3 DEF history, sentVars
  <2>2. /\ given'[t][r] = LinkOf(link[given[t][r]])
        /\ \A q \in Rails : q # r => given'[t][q] = given[t][q]
        /\ \A u \in Threads : u # t => given'[u] = given[u]
    BY <1>0, <1>3 DEF TypeOK
  <2>3. PICK rs \in SUBSET Rails : rs = {r}
    OBVIOUS
  <2>4. PICK ls : ls = given[t]
    OBVIOUS
  <2>5. GiveBack(t, rs, ls) /\ \A q \in rs : Givable(t, q, ls[q])
    BY <1>1, <1>3, <2>3, <2>4, GivenFrom DEF Givable
  <2>6. Rails' = Rails /\ Links' = Links /\ Witnesses' = Witnesses
    BY <2>1 DEF Rails, Links, Witnesses
  <2>7. TypeOK'
    <3>1. /\ link' \in [Links -> Msgs \cup {Null, Mark}]
          /\ sentNext' \in [SentLinks -> Msgs \cup {Null}]
          /\ age' \in [Msgs -> Nat]
          /\ stamp' \in [Msgs -> [by : Threads, to : Threads, no : Nat \ {0}] \cup {Freed}]
          /\ owner' \in [Threads -> [Rails -> Msgs \cup {Null}]]
      BY <2>5, GiveBackType
    <3>2. LinkOf(link[given[t][r]]) \in Links
      <4>1. PICK x \in Witnesses : RailOK(t, r, x)
        BY <1>0 DEF RailsOK
      <4>2. link[given[t][r]] = x.item[x.lo + 1] /\ x.lo + 1 \in Nat
        BY <1>1, <1>3, <4>1, GivenFrom, WitnessFacts
      <4> QED
        BY <4>2, WitnessFacts, LinksAre
    <3>3. given' \in [Threads -> [Rails -> Links \cup {<<>>}]]
      BY <1>0, <1>3, <3>2 DEF TypeOK
    <3> QED
      BY <1>0, <2>1, <2>6, <3>1, <3>3 DEF TypeOK
  <2>8. /\ MemoryOK'
        /\ \A u \in Threads : u # t => owner'[u] = owner[u]
        /\ \A q \in Rails : owner'[t][q] = IF build.kind = "asym" /\ q \in rs THEN link[ls[q]]
                                            ELSE owner[t][q]
        /\ \A u, w \in Threads, q \in Rails : Sends(u, w, q)' <=> Sends(u, w, q)
        /\ \A u \in Threads, q \in Rails, v \in Witnesses : RailOK(u, q, v) =>
              /\ \A n \in v.lo .. v.end : Elsewhere(t, rs, u, q, v, n) => link'[Leaves(v, n)] = link[Leaves(v, n)]
              /\ \A n \in Nat : Held(v, n) /\ Elsewhere(t, rs, u, q, v, n) =>
                   stamp'[v.item[n]] = stamp[v.item[n]] /\ age'[v.item[n]] = age[v.item[n]]
    BY <2>1, <2>5, GiveBackIs
  <2>9. EpochsOK'
    BY <1>0, <2>1 DEF EpochsOK, bumped
  <2>10. ASSUME NEW u \in Threads, NEW q \in Rails PROVE \E v \in Witnesses : RailOK(u, q, v)'
    <3>1. PICK v \in Witnesses : RailOK(u, q, v)
      BY <1>0 DEF RailsOK
    <3>2. CASE u = t /\ q = r
      <4>1. RailOK(t, r, v)
        BY <3>1, <3>2
      <4>2. \E x \in Witnesses : RailOK(t, r, x)'
        BY <1>1, <1>3, <2>2, <2>7, <4>1, GiveRail
      <4> QED
        BY <3>2, <4>2
    <3>3. CASE ~ (u = t /\ q = r)
      <4>1. \A n : Elsewhere(t, rs, u, q, v, n)
        BY <2>3, <3>3 DEF Elsewhere
      <4>2. SameLinks(u, q, v)
        BY <2>1, <2>8, <3>1, <4>1 DEF SameLinks, SameStamps
      <4>3. SamePlaces(u, q)
        BY <2>1, <2>2, <2>3, <2>8, <3>3 DEF SamePlaces
      <4>4. Quiet(u, q, v)
        BY <2>1, <2>8, <3>1, <4>1, <4>2, <4>3 DEF Quiet, Untouched, SameLinks
      <4>5. RailOK(u, q, v)'
        BY <1>0, <2>7, <3>1, <4>4, QuietKept
      <4> QED
        BY <4>5
    <3> QED
      BY <3>2, <3>3
  <2>11. RailsOK'
    BY <2>6, <2>10 DEF RailsOK
  <2> QED
    BY <2>7, <2>8, <2>9, <2>11 DEF IInv
<1> QED
  BY <1>2, <1>3 DEF Give

-----------------------------------------------------------------------------
(* Every rail begins empty, at its first head.                             *)
LEMMA InitIInv ==
  ASSUME Init
  PROVE  IInv
<1>1. build \in Builds
  BY DEF Init
<1>2. /\ build.rails \in Nat \ {0} /\ build.late \in BOOLEAN
      /\ build.kind \in {"sym", "asym", "epoch"}
  BY <1>1, ConstantsAssumption
<1>3. /\ \A m \in Msgs : link[LinkOf(m)] = Null
      /\ \A t \in Threads, r \in Rails : link[HeadLink(t, r, 0)] = Null
  <2>1. \A l \in Links : link[l] = IF Len(l) = 3 /\ l[Len(l)] = 1 THEN Mark ELSE Null
    BY DEF Init
  <2>2. \A m \in Msgs : LinkOf(m) \in Links /\ Len(LinkOf(m)) = 1
    BY LinksAre, LinkFacts
  <2>3. \A t \in Threads, r \in Rails :
          /\ HeadLink(t, r, 0) \in Links /\ Len(HeadLink(t, r, 0)) = 3 /\ HeadLink(t, r, 0)[3] = 0
    BY LinksAre, LinkFacts
  <2>4. \A m \in Msgs : link[LinkOf(m)] = Null
    BY <2>1, <2>2
  <2>5. \A t \in Threads, r \in Rails : link[HeadLink(t, r, 0)] = Null
    BY <2>1, <2>3
  <2> QED
    BY <2>4, <2>5
<1>4. TypeOK
  <2>1. \A t \in Threads, r \in Rails : HeadLink(t, r, 0) \in Links
    BY LinksAre
  <2>2. /\ link \in [Links -> Msgs \cup {Null, Mark}]
        /\ tailp \in [Threads -> [Rails -> Links]] /\ headp \in [Threads -> [Rails -> Links]]
    BY <2>1 DEF Init
  <2>3. /\ from \in [Threads -> [Rails -> Links \cup {<<>>}]]
        /\ upto \in [Threads -> [Rails -> Links \cup {<<>>}]]
        /\ given \in [Threads -> [Rails -> Links \cup {<<>>}]]
    BY DEF Init, Nowhere
  <2>4. /\ owner \in [Threads -> [Rails -> Msgs \cup {Null}]]
        /\ pending \in [Threads -> [old : Links, msg : Msgs] \cup {NoSend}]
        /\ sentNext \in [SentLinks -> Msgs \cup {Null}]
        /\ sentTail \in [Threads -> SentLinks] /\ scan \in [Threads -> SentLinks]
    BY DEF Init, SentLinks
  <2>5. /\ keeps \in [Threads -> Nat] /\ epoch \in [Threads -> 0 .. 3]
        /\ began \in [Threads -> BOOLEAN] /\ age \in [Msgs -> Nat]
        /\ sent \in [Threads -> [Threads -> Nat]] /\ got \in [Threads -> [Threads -> Nat]]
        /\ pc \in [Threads -> {"user", "reclaim", "receive", "take", "give"}]
    BY DEF Init
  <2>6. stamp \in [Msgs -> [by : Threads, to : Threads, no : Nat \ {0}] \cup {Freed}]
    BY DEF Init
  <2> QED
    BY <1>1, <2>2, <2>3, <2>4, <2>5, <2>6 DEF TypeOK
<1>5. MemoryOK
  BY <1>3 DEF Init, MemoryOK
<1>6. EpochsOK
  BY DEF Init, EpochsOK, bumped
<1>7. ASSUME NEW t \in Threads, NEW r \in Rails PROVE \E w \in Witnesses : RailOK(t, r, w)
  <2>1. MaxLive \in Nat \ {0} /\ 1 \in Msgs
    BY <1>4, BuildFacts DEF Msgs
  <2>2. PICK h \in Links : h = HeadLink(t, r, 0)
    BY LinksAre
  <2> DEFINE w == [item |-> [n \in Nat |-> 1], lo |-> 0, at |-> 0, cut |-> 0, end |-> 0,
                   base |-> h, head |-> h]
  <2>3. w.lo = 0 /\ w.at = 0 /\ w.cut = 0 /\ w.end = 0 /\ w.base = h /\ w.head = h
    OBVIOUS
  <2>4. w \in Witnesses
    BY <2>1 DEF Witnesses
  <2> HIDE DEF w
  <2>5. Leaves(w, 0) = h /\ ReachedBy(w, 0) = h
    BY <2>3 DEF Leaves, ReachedBy
  <2>6. \A n : ~ Held(w, n)
    <3>1. \A m : h # LinkOf(m)
      BY <2>2, LinkFacts
    <3> QED
      BY <2>3, <3>1 DEF Held
  <2>7. pc[t] = "user" /\ began[t] = TRUE /\ epoch[t] = 0 /\ ~ Reading(t) /\ ~ Moved(t)
    BY DEF Init, Reading, Moved
  <2>8. Ordered(w)
    BY <2>3 DEF Ordered
  <2>9. LinksOK(t, r, w)
    <3>1. \A u \in Threads : ~ Sends(u, t, r)
      BY DEF Init, Sends
    <3> QED
      BY <1>3, <2>2, <2>3, <2>5, <3>1 DEF LinksOK
  <2>10. StampsOK(t, r, w)
    <3>1. \A u \in Threads : got[t][u] = 0 /\ sent[u][t] = 0
      BY DEF Init
    <3> QED
      BY <2>3, <2>6, <3>1 DEF StampsOK
  <2>11. PlacesOK(t, r, w)
    <3>1. headp[t][r] = h /\ tailp[t][r] = h /\ owner[t][r] = Null
      BY <2>2 DEF Init
    <3>2. BaseHead(t, r) = h
      BY <2>2, <2>7 DEF BaseHead
    <3>3. \A m : h # LinkOf(m)
      BY <2>2, LinkFacts
    <3> QED
      BY <2>3, <2>5, <2>7, <3>1, <3>2, <3>3 DEF PlacesOK
  <2>12. AgesOK(t, w)
    BY <2>6 DEF AgesOK
  <2> QED
    BY <2>4, <2>8, <2>9, <2>10, <2>11, <2>12 DEF RailOK
<1> QED
  BY <1>4, <1>5, <1>6, <1>7 DEF IInv, RailsOK

(* A stutter keeps the invariant.                                          *)
LEMMA StutterKept ==
  ASSUME IInv, UNCHANGED vars
  PROVE  IInv'
<1>1. /\ build' = build /\ link' = link /\ age' = age /\ stamp' = stamp /\ tailp' = tailp
      /\ headp' = headp /\ owner' = owner /\ from' = from /\ upto' = upto /\ given' = given
      /\ pending' = pending /\ epoch' = epoch /\ began' = began /\ pc' = pc
      /\ sent' = sent /\ got' = got /\ sentNext' = sentNext /\ sentTail' = sentTail
      /\ scan' = scan /\ keeps' = keeps
  BY DEF vars, memory, channelVars, sentVars, history
<1>2. Rails' = Rails /\ Links' = Links /\ Witnesses' = Witnesses /\ live' = live
  BY <1>1 DEF Rails, Links, Witnesses, live
<1>3. TypeOK'
  BY <1>1, <1>2 DEF IInv, TypeOK
<1>4. MemoryOK' /\ EpochsOK'
  BY <1>1, <1>2 DEF IInv, MemoryOK, EpochsOK, bumped
<1>5. ASSUME NEW u \in Threads, NEW q \in Rails PROVE \E v \in Witnesses : RailOK(u, q, v)'
  <2>1. PICK v \in Witnesses : RailOK(u, q, v)
    BY DEF IInv, RailsOK
  <2>2. SamePlaces(u, q)
    BY <1>1 DEF SamePlaces
  <2>3. \A z \in Threads : Sends(z, u, q)' <=> Sends(z, u, q)
    BY <1>1 DEF Sends
  <2>4. Quiet(u, q, v)
    BY <1>1, <2>2, <2>3 DEF Quiet, Untouched, SameLinks, SameStamps
  <2>5. RailOK(u, q, v)'
    BY <1>3, <2>1, <2>4, QuietKept DEF IInv
  <2> QED
    BY <2>5
<1> QED
  BY <1>2, <1>3, <1>4, <1>5 DEF IInv, RailsOK

(* One step of any thread keeps the invariant.                             *)
LEMMA NextKept ==
  ASSUME IInv, [Next]_vars
  PROVE  IInv'
<1>1. ASSUME NEW t \in Threads, Step(t) PROVE IInv'
  BY <1>1, LinkUpKept, ProgressKept, ReclaimKept, SnapshotKept, TakeKept, TakenAllKept, GiveKept DEF Step
<1> QED
  BY <1>1, ExchangeKept, StutterKept DEF Next

(* Every rail is, at every moment, a list that has only grown at one end   *)
(* and been given back at the other (channels_r::receive,                  *)
(* channels_w::enqueue, reclaim).                                          *)
THEOREM Invariance == Spec => []IInv
<1>1. Init => IInv
  BY InitIInv
<1>2. IInv /\ [Next]_vars => IInv'
  BY NextKept
<1> QED
  BY <1>1, <1>2, PTL DEF Spec

(* Nobody follows a link into memory that may be used again.               *)
LEMMA HoldsNoFreed == IInv => NoFreedMessage
<1> SUFFICES ASSUME IInv PROVE NoFreedMessage
  OBVIOUS
<1> DEFINE Safe(l) == Len(l) = 3 \/ l[1] \in live
<1>0. TypeOK /\ RailsOK
  BY DEF IInv
<1>1. /\ \A t \in Threads, r \in Rails : Safe(HeadLink(t, r, 0)) /\ Safe(HeadLink(t, r, 1))
      /\ \A m \in live : Safe(LinkOf(m))
  BY LinkFacts
<1>2. ASSUME NEW t \in Threads, NEW r \in Rails, NEW x \in Witnesses, RailOK(t, r, x)
      PROVE  /\ \A n \in x.lo .. x.end : Safe(Leaves(x, n))
             /\ \A n \in x.lo .. x.cut : Safe(ReachedBy(x, n))
  <2>1. Ordered(x) /\ PlacesOK(t, r, x) /\ StampsOK(t, r, x)
    BY <1>2 DEF RailOK
  <2>2. \A n \in Nat : Held(x, n) => x.item[n] \in live
    BY <2>1, WitnessFacts DEF StampsOK, live
  <2>3. BaseHead(t, r) \in {HeadLink(t, r, 0), HeadLink(t, r, 1)}
    <3>1. epoch[t] % 2 \in {0, 1}
      BY <1>0, EpochIs
    <3> QED
      BY <3>1 DEF BaseHead
  <2>4. /\ \A n \in x.lo .. x.end : n \in Nat
        /\ \A n \in x.lo .. x.cut : n \in Nat
    BY WitnessFacts
  <2>5. /\ \A n \in x.lo .. x.end :
              \/ Leaves(x, n) = LinkOf(x.item[n]) /\ Held(x, n)
              \/ Leaves(x, n) = HeadLink(t, r, 0) \/ Leaves(x, n) = HeadLink(t, r, 1)
        /\ \A n \in x.lo .. x.cut :
              \/ ReachedBy(x, n) = LinkOf(x.item[n]) /\ Held(x, n)
              \/ n = x.lo /\ ReachedBy(x, n) = BaseHead(t, r)
    BY <1>0, <2>1, LeavesAre
  <2> HIDE DEF Safe
  <2> QED
    BY <1>1, <2>2, <2>3, <2>4, <2>5
<1>3. ASSUME NEW t \in Threads, pending[t] # NoSend
      PROVE  Safe(pending[t].old) /\ pending[t].msg \in live
  <2>1. pending[t].msg \in live
    BY <1>3, PendingPlace
  <2>2. PICK w \in Threads, r \in Rails, x \in Witnesses :
          RailOK(w, r, x) /\ \E n \in x.at .. x.end - 1 : Gap(x, n, t)
    BY <1>3, PendingPlace
  <2>3. PICK n \in x.at .. x.end - 1 : Gap(x, n, t)
    BY <2>2
  <2>4. n \in x.lo .. x.end
    BY <2>2, WitnessFacts DEF RailOK, Ordered
  <2>5. pending[t].old = Leaves(x, n)
    BY <2>3 DEF Gap
  <2>6. Safe(Leaves(x, n))
    BY <1>2, <2>2, <2>4
  <2> QED
    BY <2>1, <2>5, <2>6
<1>4. ASSUME NEW t \in Threads, NEW r \in Rails
      PROVE  /\ Safe(headp[t][r]) /\ Safe(tailp[t][r])
             /\ pc[t] = "take" => Safe(from[t][r])
             /\ pc[t] = "give" => Safe(given[t][r])
  <2>1. PICK x \in Witnesses : RailOK(t, r, x)
    BY <1>0 DEF RailsOK
  <2>2. Ordered(x) /\ PlacesOK(t, r, x)
    BY <2>1 DEF RailOK
  <2>3. /\ x.end \in x.lo .. x.end /\ x.cut \in x.lo .. x.end
        /\ x.at \in x.lo .. x.cut /\ x.lo \in x.lo .. x.cut
    BY <2>2, WitnessFacts DEF Ordered
  <2>4. /\ headp[t][r] = Leaves(x, x.cut) /\ tailp[t][r] = Leaves(x, x.end)
        /\ pc[t] = "take" => from[t][r] = ReachedBy(x, x.at)
        /\ pc[t] = "give" => given[t][r] = ReachedBy(x, x.lo)
    BY <2>2 DEF PlacesOK, Leaves, ReachedBy
  <2>5. /\ \A n \in x.lo .. x.end : Safe(Leaves(x, n))
        /\ \A n \in x.lo .. x.cut : Safe(ReachedBy(x, n))
    BY <1>2, <2>1
  <2> HIDE DEF Safe
  <2> QED
    BY <2>3, <2>4, <2>5
<1> QED
  BY <1>3, <1>4 DEF NoFreedMessage

(* No thread follows or writes a link in memory that may be used again: a  *)
(* reader leaves the last message it executed in place until the next one  *)
(* is there, and an arena outlives the epochs in which it is read.         *)
THEOREM NothingFreedInUse == Spec => []NoFreedMessage
BY Invariance, HoldsNoFreed, PTL

-----------------------------------------------------------------------------
(* One call of Chain, as a function of the walk to one link less.          *)
Walked(l, end, walk) ==
  [n \in 0 .. MaxLive |->
     IF n = 0 THEN [at |-> l, msgs |-> <<>>]
     ELSE LET w == walk[n - 1]
          IN  IF w.at = end \/ Follow(w.at) \notin Msgs THEN w
              ELSE [at |-> LinkOf(Follow(w.at)), msgs |-> Append(w.msgs, Follow(w.at))]]

(* Chain is the fixed point of Walked.                                     *)
LEMMA ChainDef ==
  ASSUME NEW l, NEW end
  PROVE  Chain(l, end) = (CHOOSE walk : walk = Walked(l, end, walk))[MaxLive]
BY Zenon DEF Chain, Walked

(* A walk of k steps through messages item[1] .. item[k].                  *)
Steps(l, end, k, item) ==
  /\ \A i \in 1 .. k : item[i] \in Msgs
  /\ l = end <=> k = 0
  /\ k > 0 => Follow(l) = item[1] /\ LinkOf(item[k]) = end
  /\ \A i \in 1 .. k - 1 : LinkOf(item[i]) # end /\ Follow(LinkOf(item[i])) = item[i + 1]

(* The first n messages.                                                   *)
Prefix(item, n) == [i \in 1 .. n |-> item[i]]

(* A prefix is a sequence of its length.                                   *)
LEMMA PrefixIs ==
  ASSUME NEW S, NEW n \in Nat, NEW item, \A i \in 1 .. n : item[i] \in S
  PROVE  /\ Prefix(item, n) \in Seq(S) /\ Len(Prefix(item, n)) = n
         /\ \A i \in 1 .. n : Prefix(item, n)[i] = item[i]
<1>1. Prefix(item, n) \in [1 .. n -> S]
  BY DEF Prefix
<1>2. Prefix(item, n) \in Seq(S)
  BY <1>1, SeqDef
<1>3. Len(Prefix(item, n)) = n
  BY <1>1, <1>2, LenProperties
<1> QED
  BY <1>2, <1>3 DEF Prefix

(* The prefix of no messages is empty.                                     *)
LEMMA PrefixNone == \A item : Prefix(item, 0) = <<>>
<1> SUFFICES ASSUME NEW item PROVE Prefix(item, 0) = <<>>
  OBVIOUS
<1>1. Prefix(item, 0) \in Seq(Nat) /\ Len(Prefix(item, 0)) = 0
  BY PrefixIs
<1> QED
  BY <1>1, EmptySeq

(* A prefix and the next message are the longer prefix.                    *)
LEMMA PrefixNext ==
  ASSUME NEW S, NEW n \in Nat \ {0}, NEW item, \A i \in 1 .. n : item[i] \in S
  PROVE  Append(Prefix(item, n - 1), item[n]) = Prefix(item, n)
<1>1. PICK m \in Nat : m + 1 = n /\ m = n - 1
  OBVIOUS
<1>2. PICK p : p = Prefix(item, m)
  OBVIOUS
<1>3. PICK q : q = Prefix(item, n)
  OBVIOUS
<1>4. p \in Seq(S) /\ Len(p) = m /\ \A i \in 1 .. m : p[i] = item[i]
  BY <1>1, <1>2, PrefixIs
<1>5. q \in Seq(S) /\ Len(q) = n /\ \A i \in 1 .. n : q[i] = item[i]
  BY <1>3, PrefixIs
<1>6. item[n] \in S
  OBVIOUS
<1>7. PICK z : z = Append(p, item[n])
  OBVIOUS
<1>8. z \in Seq(S) /\ Len(z) = m + 1 /\ (\A i \in 1 .. m : z[i] = p[i]) /\ z[m + 1] = item[n]
  BY <1>4, <1>6, <1>7, AppendProperties
<1>9. \A i \in 1 .. n : z[i] = q[i]
  BY <1>1, <1>4, <1>5, <1>8
<1>10. z = q
  BY <1>1, <1>5, <1>8, <1>9, SeqEqual
<1> QED
  BY <1>1, <1>2, <1>3, <1>7, <1>10

(* What Chain collects on a walk that ends.                                *)
LEMMA ChainIs ==
  ASSUME MaxLive \in Nat, NEW l, NEW end, NEW k \in 0 .. MaxLive, NEW item, Steps(l, end, k, item)
  PROVE  Chain(l, end).msgs = Prefix(item, k)
<1> DEFINE least(n) == IF n <= k THEN n ELSE k
           place(n) == IF n = 0 THEN l ELSE LinkOf(item[n])
           f == [n \in 0 .. MaxLive |-> [at |-> place(least(n)), msgs |-> Prefix(item, least(n))]]
<1>0. k \in Nat /\ MaxLive \in Nat /\ k <= MaxLive
  OBVIOUS
<1>1. /\ place(0) = l /\ place(k) = end
      /\ \A n \in Nat : n < k => /\ place(n) # end /\ Follow(place(n)) = item[n + 1]
                                 /\ item[n + 1] \in Msgs /\ place(n + 1) = LinkOf(item[n + 1])
  <2>1. place(0) = l /\ place(k) = end
    BY <1>0 DEF Steps
  <2>2. ASSUME NEW n \in Nat, n < k
        PROVE  /\ place(n) # end /\ Follow(place(n)) = item[n + 1]
               /\ item[n + 1] \in Msgs /\ place(n + 1) = LinkOf(item[n + 1])
    <3>1. n + 1 \in 1 .. k
      BY <1>0, <2>2
    <3>2. CASE n = 0
      BY <1>0, <2>2, <3>1, <3>2 DEF Steps
    <3>3. CASE n # 0
      <4>1. n \in 1 .. k - 1
        BY <1>0, <2>2, <3>3
      <4> QED
        BY <1>0, <3>1, <3>3, <4>1 DEF Steps
    <3> QED
      BY <3>2, <3>3
  <2> QED
    BY <2>1, <2>2
<1> HIDE DEF place
<1>2. /\ least(0) = 0
      /\ \A n \in 1 .. MaxLive : \/ n - 1 < k /\ least(n) = n /\ least(n - 1) = n - 1
                                 \/ ~ (n - 1 < k) /\ least(n) = k /\ least(n - 1) = k
      /\ least(MaxLive) = k
  <2>1. least(0) = 0 /\ least(MaxLive) = k
    <3>1. 0 <= k
      BY <1>0
    <3>2. least(0) = 0
      BY <3>1
    <3>3. MaxLive = k \/ ~ (MaxLive <= k)
      BY <1>0
    <3>4. least(MaxLive) = k
      BY <3>3
    <3> QED
      BY <3>2, <3>4
  <2>2. ASSUME NEW n \in 1 .. MaxLive
        PROVE  \/ n - 1 < k /\ least(n) = n /\ least(n - 1) = n - 1
               \/ ~ (n - 1 < k) /\ least(n) = k /\ least(n - 1) = k
    <3>1. n \in Nat
      OBVIOUS
    <3>2. CASE n - 1 < k
      BY <1>0, <3>1, <3>2
    <3>3. CASE ~ (n - 1 < k)
      <4>1. ~ (n <= k)
        BY <1>0, <3>1, <3>3
      <4>2. n - 1 = k \/ ~ (n - 1 <= k)
        BY <1>0, <3>1, <3>3
      <4> QED
        BY <3>3, <4>1, <4>2
    <3> QED
      BY <3>2, <3>3
  <2> QED
    BY <2>1, <2>2
<1>3. \A n \in Nat : n > 0 /\ n <= k => Append(Prefix(item, n - 1), item[n]) = Prefix(item, n)
  <2>1. ASSUME NEW n \in Nat, n > 0, n <= k PROVE Append(Prefix(item, n - 1), item[n]) = Prefix(item, n)
    <3>1. \A i \in 1 .. n : item[i] \in Msgs
      BY <1>0, <2>1 DEF Steps
    <3>2. n \in Nat \ {0}
      BY <2>1
    <3> QED
      BY <3>1, <3>2, PrefixNext
  <2> QED
    BY <2>1
<1> HIDE DEF least
<1>4. ASSUME NEW g, NEW n \in 0 .. MaxLive,
             n # 0 => g[n - 1] = [at |-> place(least(n - 1)), msgs |-> Prefix(item, least(n - 1))]
      PROVE  Walked(l, end, g)[n] = [at |-> place(least(n)), msgs |-> Prefix(item, least(n))]
  <2>1. CASE n = 0
    BY <1>1, <1>2, <2>1, PrefixNone DEF Walked
  <2>2. CASE n # 0
    <3>1. PICK w : w = g[n - 1]
      OBVIOUS
    <3>2. w.at = place(least(n - 1)) /\ w.msgs = Prefix(item, least(n - 1))
      BY <1>4, <2>2, <3>1
    <3>3. Walked(l, end, g)[n] =
            IF w.at = end \/ Follow(w.at) \notin Msgs THEN w
            ELSE [at |-> LinkOf(Follow(w.at)), msgs |-> Append(w.msgs, Follow(w.at))]
      BY <2>2, <3>1 DEF Walked
    <3>4. n \in 1 .. MaxLive /\ n \in Nat /\ n > 0 /\ n - 1 \in Nat /\ n - 1 + 1 = n
      BY <2>2
    <3>5. CASE n - 1 < k
      <4>1. least(n) = n /\ least(n - 1) = n - 1 /\ n <= k
        BY <1>0, <1>2, <3>4, <3>5
      <4>2. place(n - 1) # end /\ Follow(place(n - 1)) = item[n] /\ item[n] \in Msgs /\ place(n) = LinkOf(item[n])
        <5>1. PICK m \in Nat : m = n - 1 /\ m + 1 = n
          BY <3>4
        <5>2. m < k
          BY <3>5, <5>1
        <5> QED
          BY <1>1, <5>1, <5>2
      <4>3. Walked(l, end, g)[n] = [at |-> LinkOf(item[n]), msgs |-> Append(Prefix(item, n - 1), item[n])]
        BY <3>2, <3>3, <4>1, <4>2
      <4> QED
        BY <1>3, <3>4, <4>1, <4>2, <4>3
    <3>6. CASE ~ (n - 1 < k)
      <4>1. least(n) = k /\ least(n - 1) = k
        BY <1>2, <3>4, <3>6
      <4>2. Walked(l, end, g)[n] = w
        BY <1>1, <3>2, <3>3, <4>1
      <4>3. w = [at |-> place(least(n - 1)), msgs |-> Prefix(item, least(n - 1))]
        BY <1>4, <2>2, <3>1
      <4> QED
        BY <4>1, <4>2, <4>3
    <3> QED
      BY <3>5, <3>6
  <2> QED
    BY <2>1, <2>2
<1>5. f = Walked(l, end, f)
  <2>1. \A n \in 0 .. MaxLive : f[n] = [at |-> place(least(n)), msgs |-> Prefix(item, least(n))]
    OBVIOUS
  <2>2. \A n \in 0 .. MaxLive : n # 0 => n - 1 \in 0 .. MaxLive
    OBVIOUS
  <2>3. f = [n \in 0 .. MaxLive |-> f[n]]
    OBVIOUS
  <2> HIDE DEF f
  <2>4. \A n \in 0 .. MaxLive : Walked(l, end, f)[n] = f[n]
    BY <1>4, <2>1, <2>2
  <2>5. Walked(l, end, f) = [n \in 0 .. MaxLive |-> Walked(l, end, f)[n]]
    BY DEF Walked
  <2> QED
    BY <2>3, <2>4, <2>5
<1>6. ASSUME NEW g, g = Walked(l, end, g) PROVE g[MaxLive] = f[MaxLive]
  <2> DEFINE S == {n \in Nat : n \in 0 .. MaxLive =>
                        g[n] = [at |-> place(least(n)), msgs |-> Prefix(item, least(n))]}
  <2>1. 0 \in S
    BY <1>4, <1>6
  <2>2. ASSUME NEW n \in Nat, n \in S PROVE n + 1 \in S
    <3>1. SUFFICES ASSUME n + 1 \in 0 .. MaxLive
                   PROVE  g[n + 1] = [at |-> place(least(n + 1)), msgs |-> Prefix(item, least(n + 1))]
      OBVIOUS
    <3>2. PICK m \in 0 .. MaxLive : m = n + 1 /\ m - 1 = n
      BY <3>1
    <3>3. n \in 0 .. MaxLive
      BY <3>1
    <3>4. g[m - 1] = [at |-> place(least(m - 1)), msgs |-> Prefix(item, least(m - 1))]
      BY <2>2, <3>2, <3>3
    <3>5. Walked(l, end, g)[m] = [at |-> place(least(m)), msgs |-> Prefix(item, least(m))]
      BY <1>4, <3>4
    <3> QED
      BY <1>6, <3>2, <3>5
  <2>3. MaxLive \in S
    <3> HIDE DEF S
    <3>1. Nat \subseteq S
      BY <2>1, <2>2, Induction
    <3> QED
      BY <3>1
  <2> QED
    BY <2>3
<1>7. f[MaxLive].msgs = Prefix(item, k)
  BY <1>2
<1> HIDE DEF f
<1>8. (CHOOSE walk : walk = Walked(l, end, walk))[MaxLive] = f[MaxLive]
  BY <1>5, <1>6
<1> QED
  BY <1>7, <1>8, ChainDef

-----------------------------------------------------------------------------
(* What lies behind a link of a rail, stored in it or still to be.         *)
LEMMA FollowIs ==
  ASSUME IInv, NEW t \in Threads, NEW r \in Rails, NEW x \in Witnesses, RailOK(t, r, x),
         NEW n \in x.at .. x.end - 1
  PROVE  Follow(Leaves(x, n)) = x.item[n + 1] /\ x.item[n + 1] \in Msgs
<1>0. /\ TypeOK /\ EpochsOK
      /\ Ordered(x) /\ LinksOK(t, r, x) /\ StampsOK(t, r, x) /\ PlacesOK(t, r, x)
  BY DEF IInv, RailOK
<1>1. /\ x.lo \in Nat /\ x.at \in Nat /\ x.cut \in Nat /\ x.end \in Nat
      /\ x.lo <= x.at /\ x.at <= x.cut /\ x.cut <= x.end /\ n \in Nat
  BY <1>0, WitnessFacts DEF Ordered
<1>2. n \in x.lo .. x.end /\ x.item[n + 1] \in Msgs /\ Leaves(x, n) \in Links
  BY <1>1, WitnessFacts
<1>3. ASSUME NEW u \in Linking(Leaves(x, n))
      PROVE  pending[u].msg = x.item[n + 1]
  <2>1. u \in Threads /\ pending[u].old = Leaves(x, n)
    BY DEF Linking
  <2>2. Leaves(x, n) # <<>>
    BY <1>2, LinksAre, LinkFacts
  <2>3. pending[u] # NoSend
    BY <2>1, <2>2 DEF NoSend
  <2>4. PICK w \in Threads, q \in Rails, y \in Witnesses :
          /\ w = stamp[pending[u].msg].to /\ q = u % build.rails
          /\ RailOK(w, q, y) /\ \E k \in y.at .. y.end - 1 : Gap(y, k, u)
    BY <2>1, <2>3, PendingPlace
  <2>5. PICK k \in y.at .. y.end - 1 : Gap(y, k, u)
    BY <2>4
  <2>6. Ordered(y) /\ StampsOK(w, q, y) /\ PlacesOK(w, q, y)
    BY <2>4 DEF RailOK
  <2>7. k \in y.lo .. y.end
    BY <2>6, WitnessFacts DEF Ordered
  <2>8. Leaves(y, k) = Leaves(x, n)
    BY <2>1, <2>5 DEF Gap
  <2>9. w = t /\ q = r
    BY <1>0, <1>2, <2>6, <2>7, <2>8, LeavesApart
  <2>10. Sends(u, t, r)
    BY <2>1, <2>3, <2>4, <2>9 DEF Sends
  <2>11. PICK j \in x.at .. x.end - 1 : Gap(x, j, u)
    BY <1>0, <2>1, <2>10 DEF LinksOK
  <2>12. j \in x.lo .. x.end /\ Leaves(x, j) = Leaves(x, n)
    BY <1>1, <2>1, <2>11 DEF Gap
  <2>13. j = n
    BY <1>0, <1>2, <2>12, LeavesOnce
  <2> QED
    BY <2>11, <2>13 DEF Gap
<1>4. link[Leaves(x, n)] = x.item[n + 1] \/ \E u \in Threads : Gap(x, n, u)
  BY <1>0 DEF LinksOK
<1>5. CASE Linking(Leaves(x, n)) = {}
  <2>1. \A u \in Threads : ~ Gap(x, n, u)
    BY <1>5 DEF Linking, Gap
  <2> QED
    BY <1>2, <1>4, <1>5, <2>1 DEF Follow
<1>6. CASE Linking(Leaves(x, n)) # {}
  <2>1. (CHOOSE u \in Linking(Leaves(x, n)) : TRUE) \in Linking(Leaves(x, n))
    BY <1>6
  <2> QED
    BY <1>2, <1>3, <1>6, <2>1 DEF Follow
<1> QED
  BY <1>5, <1>6

(* A rail holds no more messages than there are.                           *)
LEMMA RailLength ==
  ASSUME IInv, NEW t \in Threads, NEW r \in Rails, NEW x \in Witnesses, RailOK(t, r, x)
  PROVE  x.end - x.lo <= MaxLive /\ MaxLive \in Nat
<1>0. TypeOK /\ Ordered(x) /\ StampsOK(t, r, x)
  BY DEF IInv, RailOK
<1>1. /\ x.lo \in Nat /\ x.at \in Nat /\ x.cut \in Nat /\ x.end \in Nat /\ x.lo <= x.end
  BY <1>0, WitnessFacts DEF Ordered
<1>2. MaxLive \in Nat /\ MaxLive \in Int /\ 1 \in Int
  BY <1>0, BuildFacts
<1> DEFINE T == x.lo + 1 .. x.end
           f == [n \in T |-> x.item[n]]
<1>3. \A n \in T : n \in Nat /\ Held(x, n) /\ x.item[n] \in Msgs
  BY <1>1, WitnessFacts DEF Held
<1>4. f \in [T -> Msgs]
  BY <1>3
<1>5. \A m, n \in T : f[m] = f[n] => m = n
  BY <1>0, <1>3, HeldHere
<1>6. f \in Injection(T, Msgs)
  BY <1>4, <1>5 DEF Injection, IsInjective
<1>7. IsFiniteSet(Msgs) /\ Cardinality(Msgs) = MaxLive
  BY <1>2, FS_Interval DEF Msgs
<1>8. Cardinality(T) <= Cardinality(Msgs)
  <2> HIDE DEF T, f
  <2> QED
    BY <1>6, <1>7, FS_Injection
<1>9. x.lo + 1 \in Int /\ x.end \in Int
  BY <1>1
<1>10. Cardinality(T) = IF x.lo + 1 > x.end THEN 0 ELSE x.end - (x.lo + 1) + 1
  BY <1>9, FS_Interval
<1> DEFINE c == Cardinality(T)
<1>11. c <= MaxLive /\ c = IF x.lo + 1 > x.end THEN 0 ELSE x.end - (x.lo + 1) + 1
  BY <1>7, <1>8, <1>10
<1> HIDE DEF c, T, f
<1>12. CASE x.lo + 1 > x.end
  BY <1>1, <1>2, <1>12
<1>13. CASE ~ (x.lo + 1 > x.end)
  <2>1. c = x.end - (x.lo + 1) + 1
    BY <1>11, <1>13
  <2>2. x.end - (x.lo + 1) + 1 = x.end - x.lo
    BY <1>1
  <2> QED
    BY <1>2, <1>11, <2>1, <2>2
<1> QED
  BY <1>2, <1>12, <1>13

(* The messages of w behind place n.                                       *)
Behind(w, n) == [i \in Nat |-> w.item[n + i]]

(* What lies before the reader in this receive, and what lies behind.      *)
LEMMA ChainFrom ==
  ASSUME IInv, NEW t \in Threads, NEW r \in Rails, NEW x \in Witnesses, RailOK(t, r, x)
  PROVE  /\ pc[t] = "take" => Chain(from[t][r], upto[t][r]).msgs = Prefix(Behind(x, x.at), x.cut - x.at)
         /\ Chain(headp[t][r], tailp[t][r]).msgs = Prefix(Behind(x, x.cut), x.end - x.cut)
<1>0. /\ TypeOK /\ EpochsOK
      /\ Ordered(x) /\ StampsOK(t, r, x) /\ PlacesOK(t, r, x)
  BY DEF IInv, RailOK
<1>1. /\ x.lo \in Nat /\ x.at \in Nat /\ x.cut \in Nat /\ x.end \in Nat
      /\ x.lo <= x.at /\ x.at <= x.cut /\ x.cut <= x.end
  BY <1>0, WitnessFacts DEF Ordered
<1>2. x.end - x.lo <= MaxLive /\ MaxLive \in Nat
  BY RailLength
<1>3. \A n \in x.at .. x.end - 1 : Follow(Leaves(x, n)) = x.item[n + 1] /\ x.item[n + 1] \in Msgs
  BY FollowIs
<1>4. \A n \in Nat : n > x.lo => ReachedBy(x, n) = LinkOf(x.item[n])
  BY <1>1 DEF ReachedBy
<1>5. \A n \in Nat : n # x.cut => Leaves(x, n) = ReachedBy(x, n)
  BY DEF Leaves
<1>6. /\ \A m, n \in x.lo .. x.end : Leaves(x, m) = Leaves(x, n) => m = n
      /\ \A m, n \in x.lo .. x.cut : ReachedBy(x, m) = ReachedBy(x, n) => m = n
  BY <1>0, LeavesOnce
<1>7. ASSUME pc[t] = "take"
      PROVE  Chain(from[t][r], upto[t][r]).msgs = Prefix(Behind(x, x.at), x.cut - x.at)
  <2>1. from[t][r] = ReachedBy(x, x.at) /\ upto[t][r] = ReachedBy(x, x.cut)
    BY <1>0, <1>7 DEF PlacesOK, Reading
  <2>2. PICK k \in 0 .. MaxLive : k = x.cut - x.at
    BY <1>1, <1>2
  <2>3. PICK l : l = ReachedBy(x, x.at)
    OBVIOUS
  <2>4. PICK end : end = ReachedBy(x, x.cut)
    OBVIOUS
  <2>5. PICK item : item = Behind(x, x.at)
    OBVIOUS
  <2>6. \A i \in Nat : item[i] = x.item[x.at + i]
    BY <2>5 DEF Behind
  <2>7. ASSUME NEW i \in 1 .. k PROVE item[i] \in Msgs
    <3>1. x.at + i - 1 \in x.at .. x.end - 1 /\ x.at + i - 1 + 1 = x.at + i /\ i \in Nat
      BY <1>1, <2>2
    <3> QED
      BY <1>3, <2>6, <3>1
  <2>8. l = end <=> k = 0
    <3>1. x.at \in x.lo .. x.cut /\ x.cut \in x.lo .. x.cut
      BY <1>1
    <3>2. k = 0 <=> x.at = x.cut
      BY <1>1, <2>2
    <3> QED
      BY <1>6, <2>3, <2>4, <3>1, <3>2
  <2>9. ASSUME k > 0 PROVE Follow(l) = item[1] /\ LinkOf(item[k]) = end
    <3>1. x.at \in x.at .. x.end - 1 /\ x.at # x.cut /\ x.cut > x.lo /\ x.at + k = x.cut /\ k \in Nat
      BY <1>1, <2>2, <2>9
    <3>2. Follow(l) = item[1]
      BY <1>1, <1>3, <1>5, <2>3, <2>6, <3>1
    <3>3. LinkOf(item[k]) = end
      BY <1>1, <1>4, <2>4, <2>6, <3>1
    <3> QED
      BY <3>2, <3>3
  <2>10. ASSUME NEW i \in 1 .. k - 1
         PROVE  LinkOf(item[i]) # end /\ Follow(LinkOf(item[i])) = item[i + 1]
    <3>1. PICK n \in Nat : n = x.at + i
      BY <1>1
    <3>2. /\ n \in x.at .. x.end - 1 /\ n # x.cut /\ n > x.lo /\ n \in x.lo .. x.cut
          /\ n + 1 = x.at + (i + 1) /\ x.cut \in x.lo .. x.cut
      BY <1>1, <2>2, <3>1
    <3>3. LinkOf(item[i]) = ReachedBy(x, n) /\ Leaves(x, n) = ReachedBy(x, n)
      BY <1>4, <1>5, <2>6, <3>1, <3>2
    <3>4. ReachedBy(x, n) # ReachedBy(x, x.cut)
      BY <1>6, <3>2
    <3>5. Follow(Leaves(x, n)) = item[i + 1]
      BY <1>3, <2>6, <3>2
    <3> QED
      BY <2>4, <3>3, <3>4, <3>5
  <2>11. Steps(l, end, k, item)
    BY <2>7, <2>8, <2>9, <2>10 DEF Steps
  <2>12. Chain(l, end).msgs = Prefix(item, k)
    BY <1>2, <2>11, ChainIs
  <2> QED
    BY <2>1, <2>2, <2>3, <2>4, <2>5, <2>12
<1>8. Chain(headp[t][r], tailp[t][r]).msgs = Prefix(Behind(x, x.cut), x.end - x.cut)
  <2>1. headp[t][r] = Leaves(x, x.cut) /\ tailp[t][r] = Leaves(x, x.end)
    BY <1>0 DEF PlacesOK, Leaves
  <2>2. PICK k \in 0 .. MaxLive : k = x.end - x.cut
    BY <1>1, <1>2
  <2>3. PICK l : l = Leaves(x, x.cut)
    OBVIOUS
  <2>4. PICK end : end = Leaves(x, x.end)
    OBVIOUS
  <2>5. PICK item : item = Behind(x, x.cut)
    OBVIOUS
  <2>6. \A i \in Nat : item[i] = x.item[x.cut + i]
    BY <2>5 DEF Behind
  <2>7. ASSUME NEW i \in 1 .. k PROVE item[i] \in Msgs
    <3>1. x.cut + i - 1 \in x.at .. x.end - 1 /\ x.cut + i - 1 + 1 = x.cut + i /\ i \in Nat
      BY <1>1, <2>2
    <3> QED
      BY <1>3, <2>6, <3>1
  <2>8. l = end <=> k = 0
    <3>1. x.cut \in x.lo .. x.end /\ x.end \in x.lo .. x.end
      BY <1>1
    <3>2. k = 0 <=> x.cut = x.end
      BY <1>1, <2>2
    <3> QED
      BY <1>6, <2>3, <2>4, <3>1, <3>2
  <2>9. ASSUME k > 0 PROVE Follow(l) = item[1] /\ LinkOf(item[k]) = end
    <3>1. /\ x.cut \in x.at .. x.end - 1 /\ x.end # x.cut /\ x.end > x.lo /\ x.cut + k = x.end
          /\ k \in Nat
      BY <1>1, <2>2, <2>9
    <3>2. Follow(l) = item[1]
      BY <1>1, <1>3, <2>3, <2>6, <3>1
    <3>3. LinkOf(item[k]) = end
      BY <1>1, <1>4, <1>5, <2>4, <2>6, <3>1
    <3> QED
      BY <3>2, <3>3
  <2>10. ASSUME NEW i \in 1 .. k - 1
         PROVE  LinkOf(item[i]) # end /\ Follow(LinkOf(item[i])) = item[i + 1]
    <3>1. PICK n \in Nat : n = x.cut + i
      BY <1>1
    <3>2. /\ n \in x.at .. x.end - 1 /\ n # x.cut /\ n > x.lo /\ n \in x.lo .. x.end
          /\ n + 1 = x.cut + (i + 1) /\ x.end \in x.lo .. x.end /\ n # x.end
      BY <1>1, <2>2, <3>1
    <3>3. LinkOf(item[i]) = Leaves(x, n)
      BY <1>4, <1>5, <2>6, <3>1, <3>2
    <3>4. Leaves(x, n) # Leaves(x, x.end)
      BY <1>6, <3>2
    <3>5. Follow(Leaves(x, n)) = item[i + 1]
      BY <1>3, <2>6, <3>2
    <3> QED
      BY <2>4, <3>3, <3>4, <3>5
  <2>11. Steps(l, end, k, item)
    BY <2>7, <2>8, <2>9, <2>10 DEF Steps
  <2>12. Chain(l, end).msgs = Prefix(item, k)
    BY <1>2, <2>11, ChainIs
  <2> QED
    BY <2>1, <2>2, <2>3, <2>4, <2>5, <2>12
<1> QED
  BY <1>7, <1>8

(* A prefix of the messages behind a place is a sequence of messages.       *)
LEMMA PrefixBehind ==
  ASSUME NEW x \in Witnesses, NEW n \in Nat, NEW a \in Nat
  PROVE  /\ Prefix(Behind(x, n), a) \in Seq(Msgs)
         /\ Len(Prefix(Behind(x, n), a)) = a
         /\ \A i \in 1 .. a : Prefix(Behind(x, n), a)[i] = x.item[n + i]
<1>1. PICK item : item = Behind(x, n)
  OBVIOUS
<1>2. \A i \in Nat : item[i] \in Msgs /\ item[i] = x.item[n + i]
  BY <1>1, WitnessFacts DEF Behind
<1>3. \A i \in 1 .. a : i \in Nat
  OBVIOUS
<1>4. \A i \in 1 .. a : item[i] \in Msgs /\ item[i] = x.item[n + i]
  BY <1>2, <1>3
<1>5. /\ Prefix(item, a) \in Seq(Msgs) /\ Len(Prefix(item, a)) = a
      /\ \A i \in 1 .. a : Prefix(item, a)[i] = item[i]
  BY <1>4, PrefixIs
<1> QED
  BY <1>1, <1>4, <1>5

(* What two sequences put together hold.                                   *)
LEMMA JoinedIs ==
  ASSUME NEW S, NEW p \in Seq(S), NEW q \in Seq(S)
  PROVE  /\ DOMAIN (p \o q) = 1 .. Len(p) + Len(q)
         /\ \A i \in 1 .. Len(p) + Len(q) : (p \o q)[i] = IF i <= Len(p) THEN p[i] ELSE q[i - Len(p)]
<1>1. /\ p \o q \in Seq(S) /\ Len(p \o q) = Len(p) + Len(q)
      /\ \A i \in 1 .. Len(p) + Len(q) : (p \o q)[i] = IF i <= Len(p) THEN p[i] ELSE q[i - Len(p)]
  BY ConcatProperties
<1>2. DOMAIN (p \o q) = 1 .. Len(p) + Len(q)
  BY <1>1, LenProperties
<1> QED
  BY <1>1, <1>2

(* What is unread is what the rail holds behind the reader.                *)
LEMMA UnreadIs ==
  ASSUME IInv, NEW t \in Threads, NEW r \in Rails, NEW x \in Witnesses, RailOK(t, r, x)
  PROVE  /\ DOMAIN Unread(t, r) = 1 .. x.end - x.at
         /\ \A i \in 1 .. x.end - x.at : Unread(t, r)[i] = x.item[x.at + i]
<1>0. Ordered(x) /\ PlacesOK(t, r, x)
  BY DEF IInv, RailOK
<1>1. /\ x.lo \in Nat /\ x.at \in Nat /\ x.cut \in Nat /\ x.end \in Nat
      /\ x.lo <= x.at /\ x.at <= x.cut /\ x.cut <= x.end
  BY <1>0, WitnessFacts DEF Ordered
<1>3. PICK a \in Nat : a = x.cut - x.at
  BY <1>1
<1>4. PICK b \in Nat : b = x.end - x.cut
  BY <1>1
<1>5. PICK p : p = Prefix(Behind(x, x.at), a)
  OBVIOUS
<1>6. PICK q : q = Prefix(Behind(x, x.cut), b)
  OBVIOUS
<1>7. p \in Seq(Msgs) /\ Len(p) = a /\ \A i \in 1 .. a : p[i] = x.item[x.at + i]
  BY <1>1, <1>5, PrefixBehind
<1>8. q \in Seq(Msgs) /\ Len(q) = b /\ \A i \in 1 .. b : q[i] = x.item[x.cut + i]
  BY <1>1, <1>6, PrefixBehind
<1>9. CASE pc[t] = "take"
  <2>1. Unread(t, r) = p \o q
    BY <1>3, <1>4, <1>5, <1>6, <1>9, ChainFrom DEF Unread
  <2>2. PICK s : s = p \o q
    OBVIOUS
  <2>3. /\ DOMAIN s = 1 .. Len(p) + Len(q)
        /\ \A i \in 1 .. Len(p) + Len(q) : s[i] = IF i <= Len(p) THEN p[i] ELSE q[i - Len(p)]
    <3>1. p \in Seq(Msgs) /\ q \in Seq(Msgs)
      BY <1>7, <1>8
    <3> QED
      BY <2>2, <3>1, JoinedIs
  <2>4. /\ DOMAIN s = 1 .. a + b
        /\ \A i \in 1 .. a + b : s[i] = IF i <= a THEN p[i] ELSE q[i - a]
    BY <1>7, <1>8, <2>3
  <2>5. a + b = x.end - x.at
    BY <1>1, <1>3, <1>4
  <2>6. ASSUME NEW i \in 1 .. a + b PROVE s[i] = x.item[x.at + i]
    <3>0. i \in Nat /\ s[i] = IF i <= a THEN p[i] ELSE q[i - a]
      BY <2>4
    <3>1. CASE i <= a
      <4>1. i \in 1 .. a
        BY <1>3, <3>1
      <4> QED
        BY <1>7, <3>0, <3>1, <4>1
    <3>2. CASE ~ (i <= a)
      <4>1. i - a \in 1 .. b
        BY <1>1, <3>2
      <4>2. x.cut + (i - a) = x.at + i
        BY <1>1, <1>3, <3>0
      <4>3. s[i] = q[i - a]
        BY <3>0, <3>2
      <4> QED
        BY <1>8, <4>1, <4>2, <4>3
    <3> QED
      BY <3>1, <3>2
  <2> QED
    BY <2>1, <2>2, <2>4, <2>5, <2>6
<1>10. CASE pc[t] # "take"
  <2>1. x.at = x.cut
    <3>1. Reading(t) => pc[t] = "give"
      BY <1>10 DEF Reading
    <3>2. ~ Reading(t) => x.lo = x.cut
      BY <1>0 DEF PlacesOK
    <3>3. pc[t] = "give" => x.at = x.cut
      BY <1>0 DEF PlacesOK
    <3> QED
      BY <1>1, <3>1, <3>2, <3>3
  <2>2. Unread(t, r) = q
    BY <1>4, <1>6, <1>10, ChainFrom DEF Unread
  <2>3. DOMAIN q = 1 .. b
    BY <1>8, LenProperties
  <2> QED
    BY <1>4, <1>8, <2>1, <2>2, <2>3
<1> QED
  BY <1>9, <1>10

(* Nothing is lost, repeated or taken out of order.                        *)
LEMMA HoldsInOrder == IInv => InOrder
<1> SUFFICES ASSUME IInv PROVE InOrder
  OBVIOUS
<1>0. TypeOK /\ RailsOK
  BY DEF IInv
<1> SUFFICES ASSUME NEW t \in Threads, NEW u \in Threads
             PROVE  LET q == Unread(t, u % build.rails)
                        own == {i \in DOMAIN q : stamp[q[i]].by = u}
                    IN  /\ \A i \in DOMAIN q : q[i] \in live /\ stamp[q[i]].to = t
                        /\ {stamp[q[i]].no : i \in own} = got[t][u] + 1 .. sent[u][t]
                        /\ \A i, j \in own : i < j => stamp[q[i]].no < stamp[q[j]].no
  BY DEF InOrder
<1>1. PICK r \in Rails : r = u % build.rails
  BY <1>0, BuildFacts
<1>2. PICK x \in Witnesses : RailOK(t, r, x)
  BY <1>0 DEF RailsOK
<1>3. Ordered(x) /\ StampsOK(t, r, x)
  BY <1>2 DEF RailOK
<1>4. /\ x.lo \in Nat /\ x.at \in Nat /\ x.cut \in Nat /\ x.end \in Nat
      /\ x.lo <= x.at /\ x.at <= x.cut /\ x.cut <= x.end
  BY <1>3, WitnessFacts DEF Ordered
<1>5. PICK q : q = Unread(t, r)
  OBVIOUS
<1>6. PICK k \in Nat : k = x.end - x.at
  BY <1>4
<1>7. DOMAIN q = 1 .. k /\ \A i \in 1 .. k : q[i] = x.item[x.at + i]
  BY <1>2, <1>5, <1>6, UnreadIs
<1> DEFINE own == {i \in DOMAIN q : stamp[q[i]].by = u}
<1>8. ASSUME NEW i \in 1 .. k
      PROVE  /\ x.at + i \in Nat /\ x.at + i \in x.at + 1 .. x.end /\ Held(x, x.at + i)
             /\ q[i] \in live /\ stamp[q[i]].to = t
             /\ stamp[q[i]].by = By(x, x.at + i) /\ stamp[q[i]].no = No(x, x.at + i)
  <2>1. x.at + i \in Nat /\ x.at + i \in x.at + 1 .. x.end /\ x.at + i > x.lo
    BY <1>4, <1>6
  <2>2. Held(x, x.at + i)
    BY <1>4, <2>1 DEF Held
  <2>3. q[i] = x.item[x.at + i] /\ x.item[x.at + i] \in Msgs
    BY <1>7, <2>1, WitnessFacts
  <2>4. q[i] \in live /\ stamp[q[i]].to = t
    BY <1>3, <2>1, <2>2, <2>3 DEF StampsOK, live
  <2> QED
    BY <2>1, <2>2, <2>3, <2>4 DEF By, No
<1>9. own = {i \in 1 .. k : By(x, x.at + i) = u}
  BY <1>7, <1>8
<1> HIDE DEF own
<1>10. ASSUME NEW i \in own
       PROVE  stamp[q[i]].no \in got[t][u] + 1 .. sent[u][t]
  <2>1. i \in 1 .. k /\ By(x, x.at + i) = u
    BY <1>9
  <2>2. No(x, x.at + i) > got[t][u] /\ No(x, x.at + i) \in 1 .. sent[u][t]
    BY <1>3, <1>8, <2>1 DEF StampsOK
  <2>3. got[t][u] \in Nat /\ sent[u][t] \in Nat
    BY <1>0 DEF TypeOK
  <2>4. stamp[q[i]].no = No(x, x.at + i)
    BY <1>8, <2>1
  <2> QED
    BY <2>2, <2>3, <2>4
<1>11. ASSUME NEW n \in got[t][u] + 1 .. sent[u][t]
       PROVE  \E i \in own : stamp[q[i]].no = n
  <2>1. PICK m \in x.at + 1 .. x.end : By(x, m) = u /\ No(x, m) = n
    BY <1>1, <1>3 DEF StampsOK
  <2>2. PICK i \in 1 .. k : x.at + i = m
    <3>1. m - x.at \in 1 .. k /\ x.at + (m - x.at) = m
      BY <1>4, <1>6
    <3> QED
      BY <3>1
  <2>3. i \in own /\ stamp[q[i]].no = n
    BY <1>8, <1>9, <2>1, <2>2
  <2> QED
    BY <2>3
<1>12. {stamp[q[i]].no : i \in own} = got[t][u] + 1 .. sent[u][t]
  BY <1>10, <1>11
<1>13. ASSUME NEW i \in own, NEW j \in own, i < j
       PROVE  stamp[q[i]].no < stamp[q[j]].no
  <2>1. /\ i \in 1 .. k /\ By(x, x.at + i) = u
        /\ j \in 1 .. k /\ By(x, x.at + j) = u
    BY <1>9
  <2>2. x.at + i < x.at + j
    BY <1>4, <1>13, <2>1
  <2>3. No(x, x.at + i) < No(x, x.at + j)
    BY <1>3, <1>8, <2>1, <2>2 DEF StampsOK
  <2> QED
    BY <1>8, <2>1, <2>3
<1>14. /\ \A i \in DOMAIN q : q[i] \in live /\ stamp[q[i]].to = t
       /\ {stamp[q[i]].no : i \in own} = got[t][u] + 1 .. sent[u][t]
       /\ \A i, j \in own : i < j => stamp[q[i]].no < stamp[q[j]].no
  BY <1>7, <1>8, <1>12, <1>13
<1> QED
  BY <1>1, <1>5, <1>14 DEF own

(* What a reader has yet to reach are exactly the messages it has not      *)
(* executed, each writer's in the order of sending, whatever gaps there    *)
(* are and wherever the list has been cut.                                 *)
THEOREM ReadInOrder == Spec => []InOrder
BY Invariance, HoldsInOrder, PTL
=============================================================================
