--------------------------- MODULE BarrierProofs ---------------------------
(***************************************************************************)
(* Why the barrier of Barrier.tla is one, for every number of threads and  *)
(* with stores that reach the memory late.                                 *)
(*                                                                         *)
(* What a thread has stored is known from where it is: the ranks of its    *)
(* stores, counted from the end of the barrier before its last one, say    *)
(* which they are, and a number, Drained, says how many have reached the   *)
(* memory.  A flag that a thread sees tells it how far the setter is at    *)
(* least; the setter had seen flags of its own, so it speaks for all the   *)
(* threads it covers, twice as many with each flag.  Epochs are counted    *)
(* modulo EpochMod: the invariant knows only "same", "after" and "before". *)
(*                                                                         *)
(* Order is that argument, OrInv adds the values that flags carry.         *)
(***************************************************************************)
EXTENDS Barrier, NumberFacts, SequenceTheorems

-----------------------------------------------------------------------------
(* Epochs                                                                  *)
After(e) == (e + 1) % EpochMod
EpochSet == 0 .. EpochMod - 1

LEMMA AfterIs ==
  ASSUME ConstantsOK, NEW e \in EpochSet
  PROVE  After(e) = IF e = EpochMod - 1 THEN 0 ELSE e + 1
<1>1. EpochMod \in Nat \ {0}
  BY DEF ConstantsOK
<1>2. CASE e = EpochMod - 1
  <2>1. e + 1 = 0 + EpochMod * 1 /\ 0 \in 0 .. EpochMod - 1
    BY <1>1, <1>2
  <2> QED
    BY <1>1, <1>2, <2>1, RemainderShift, RemainderSmall DEF After
<1>3. CASE e # EpochMod - 1
  <2>1. e + 1 \in 0 .. EpochMod - 1
    BY <1>1, <1>3 DEF EpochSet
  <2> QED
    BY <1>1, <1>3, <2>1, RemainderSmall DEF After
<1> QED
  BY <1>2, <1>3

(* The next epoch has the other phase; three in a row are different.       *)
LEMMA EpochFacts ==
  ASSUME ConstantsOK, NEW e \in EpochSet
  PROVE  /\ After(e) \in EpochSet /\ Phase(e) \in Phases /\ 1 - Phase(e) \in Phases
         /\ Phase(After(e)) = 1 - Phase(e)
         /\ e # After(e) /\ After(After(e)) # e
         /\ After(After(After(e))) # e
         /\ \A d \in EpochSet : After(d) = After(e) => d = e
<1>1. EpochMod \in Nat /\ EpochMod >= 4 /\ EpochMod % 2 = 0
  BY DEF ConstantsOK
<1>2. \A d \in EpochSet : After(d) = IF d = EpochMod - 1 THEN 0 ELSE d + 1
  BY AfterIs
<1>3. After(e) \in EpochSet
  BY <1>1, <1>2 DEF EpochSet
<1>4. After(After(e)) \in EpochSet
  BY <1>1, <1>2, <1>3 DEF EpochSet
<1>5. Phase(After(e)) = 1 - Phase(e)
  BY <1>1, <1>2 DEF Phase, EpochSet
<1>6. Phase(e) \in Phases /\ 1 - Phase(e) \in Phases
  BY DEF Phase, Phases, EpochSet
<1>7. e # After(e) /\ After(After(e)) # e /\ After(After(After(e))) # e
  <2> HIDE DEF After
  <2> QED
    BY <1>1, <1>2, <1>3, <1>4 DEF EpochSet
<1>8. \A d \in EpochSet : After(d) = After(e) => d = e
  <2> HIDE DEF After
  <2> QED
    BY <1>1, <1>2 DEF EpochSet
<1> QED
  BY <1>3, <1>5, <1>6, <1>7, <1>8

-----------------------------------------------------------------------------
(* The ring of threads, with remainder and power as operators whose facts  *)
(* are all that is used of them.                                           *)
Place(x) == x % N
Step(s) == 2^s

LEMMA ConstantsAre ==
  ASSUME ConstantsOK
  PROVE  /\ N \in Nat \ {0} /\ Log \in Nat \ {0}
         /\ Threads = 0 .. N - 1 /\ Slots = 0 .. Log - 1
  BY DEF ConstantsOK, Threads, Slots

LEMMA PlaceFacts ==
  ASSUME ConstantsOK
  PROVE  /\ \A x \in Int : Place(x) \in Threads
         /\ \A t \in Threads : Place(t) = t
         /\ \A x, y \in Int : Place(Place(x) + y) = Place(x + y)
         /\ \A x, y \in Int : Place(x) = Place(y) /\ x - y < N /\ y - x < N => x = y
<1>1. N \in Nat \ {0} /\ Threads = 0 .. N - 1
  BY ConstantsAre
<1>2. ASSUME NEW x \in Int PROVE Place(x) \in Threads
  BY <1>1, Division DEF Place
<1>3. ASSUME NEW t \in Threads PROVE Place(t) = t
  BY <1>1, RemainderSmall DEF Place
<1>4. ASSUME NEW x \in Int, NEW y \in Int PROVE Place(Place(x) + y) = Place(x + y)
  BY <1>1, RemainderSum DEF Place
<1>5. ASSUME NEW x \in Int, NEW y \in Int, Place(x) = Place(y), x - y < N, y - x < N
      PROVE  x = y
  BY <1>1, <1>5, RemainderCancel DEF Place
<1> QED
  BY <1>2, <1>3, <1>4, <1>5

LEMMA StepFacts ==
  ASSUME ConstantsOK
  PROVE  /\ Step(0) = 1
         /\ \A n \in Nat : Step(n) \in Nat /\ Step(n) >= 1 /\ Step(n + 1) = Step(n) + Step(n)
         /\ \A m, n \in Nat : m <= n => Step(m) <= Step(n)
         /\ Step(Log) >= N
         /\ N > 1 => \A s \in Slots : Step(s) < N
<1>1. Step(0) = 1
  BY PowerZero DEF Step
<1>2. ASSUME NEW n \in Nat
      PROVE  Step(n) \in Nat /\ Step(n) >= 1 /\ Step(n + 1) = Step(n) + Step(n)
  <2>1. 2^n \in Nat \ {0} /\ 2^(n + 1) = 2 * 2^n
    BY PowerPositive, PowerDouble
  <2>2. Step(n) \in Nat \ {0} /\ Step(n + 1) = 2 * Step(n)
    BY <2>1 DEF Step
  <2> QED
    BY <2>2
<1>3. \A m, n \in Nat : m <= n => Step(m) <= Step(n)
  BY PowerMonotone DEF Step
<1>4. Step(Log) >= N /\ (Log > 1 => Step(Log - 1) < N)
  BY DEF ConstantsOK, Step
<1>5. ASSUME N > 1, NEW s \in Slots PROVE Step(s) < N
  <2>0. /\ N \in Nat /\ Log \in Nat \ {0} /\ s \in Nat /\ s <= Log - 1
        /\ Log - 1 \in Nat
    BY ConstantsAre
  <2>1. Step(s) \in Nat /\ Step(Log - 1) \in Nat /\ Step(s) <= Step(Log - 1)
    BY <2>0, <1>2, <1>3
  <2>2. CASE Log > 1
    BY <1>4, <2>0, <2>1, <2>2
  <2>3. CASE Log = 1
    <3>1. s = 0
      BY <2>0, <2>3
    <3> QED
      BY <1>1, <1>5, <3>1
  <2> QED
    BY <2>0, <2>2, <2>3
<1> QED
  BY <1>1, <1>2, <1>3, <1>4, <1>5

(* v sets flag s of t; u is one of the Step(n) threads that end in t.      *)
Signals(v, t, s) == Place(v + Step(s)) = t
Covered(u, t, n) == \E k \in 0 .. Step(n) - 1 : Place(u + k) = t

(* Flag s of t has a setter, only one, and it is not t.                    *)
LEMMA SignalsFrom ==
  ASSUME ConstantsOK, NEW t \in Threads, NEW s \in Slots
  PROVE  /\ Place(t + Step(s)) \in Threads
         /\ \E v \in Threads : Signals(v, t, s)
         /\ \A v, w \in Threads : Signals(v, t, s) /\ Signals(w, t, s) => v = w
         /\ N > 1 => ~ Signals(t, t, s)
<1>1. /\ N \in Nat \ {0} /\ s \in Nat /\ t \in Int /\ Step(s) \in Nat /\ Step(s) >= 1
      /\ Threads = 0 .. N - 1
  BY ConstantsAre, StepFacts
<1>2. Place(t + Step(s)) \in Threads
  <2>1. t + Step(s) \in Int
    BY <1>1
  <2> QED
    BY <2>1, PlaceFacts
<1>3. \E v \in Threads : Signals(v, t, s)
  <2>1. t - Step(s) \in Int /\ (t - Step(s)) + Step(s) = t
    BY <1>1
  <2>2. Place(t - Step(s)) \in Threads
    BY <2>1, PlaceFacts
  <2>3. Place(Place(t - Step(s)) + Step(s)) = t
    BY <1>1, <2>1, PlaceFacts
  <2> QED
    BY <2>2, <2>3 DEF Signals
<1>4. ASSUME NEW v \in Threads, NEW w \in Threads, Signals(v, t, s), Signals(w, t, s)
      PROVE  v = w
  <2>1. /\ v + Step(s) \in Int /\ w + Step(s) \in Int
        /\ (v + Step(s)) - (w + Step(s)) < N /\ (w + Step(s)) - (v + Step(s)) < N
    BY <1>1
  <2>2. Place(v + Step(s)) = Place(w + Step(s))
    BY <1>4 DEF Signals
  <2>3. v + Step(s) = w + Step(s)
    BY <2>1, <2>2, PlaceFacts
  <2> QED
    BY <1>1, <2>3
<1>5. ASSUME N > 1, Signals(t, t, s) PROVE FALSE
  <2>1. Step(s) < N
    BY <1>5, StepFacts
  <2>2. t + Step(s) \in Int /\ (t + Step(s)) - t < N /\ t - (t + Step(s)) < N
    BY <1>1, <2>1
  <2>3. Place(t + Step(s)) = Place(t)
    BY <1>5, PlaceFacts DEF Signals
  <2>4. t + Step(s) = t
    BY <1>1, <2>2, <2>3, PlaceFacts
  <2> QED
    BY <1>1, <2>4
<1> QED
  BY <1>2, <1>3, <1>4, <1>5

(* A flag doubles what a thread knows of.                                  *)
LEMMA Doubling ==
  ASSUME ConstantsOK, NEW t \in Threads, NEW v \in Threads, NEW s \in Slots,
         Signals(v, t, s), NEW u \in Threads
  PROVE  Covered(u, t, s + 1) <=> Covered(u, t, s) \/ Covered(u, v, s)
<1>0. /\ N \in Nat \ {0} /\ s \in Nat /\ Threads = 0 .. N - 1
      /\ t \in Int /\ u \in Int /\ v \in Int
  BY ConstantsAre
<1>1. /\ N \in Nat \ {0} /\ s \in Nat /\ Step(s) \in Nat /\ Step(s) >= 1
      /\ Step(s + 1) = Step(s) + Step(s)
      /\ t \in Int /\ u \in Int /\ v \in Int /\ Threads = 0 .. N - 1
  BY <1>0, StepFacts
<1>2. ASSUME NEW k \in 0 .. Step(s) - 1, Place(u + k) = v PROVE Place(u + (k + Step(s))) = t
  <2>1. u + k \in Int /\ (u + k) + Step(s) = u + (k + Step(s))
    BY <1>1
  <2>2. Place(Place(u + k) + Step(s)) = Place((u + k) + Step(s))
    BY <1>1, <2>1, PlaceFacts
  <2> QED
    BY <1>2, <2>1, <2>2 DEF Signals
<1>3. ASSUME NEW k \in Step(s) .. Step(s + 1) - 1, Place(u + k) = t
      PROVE  Place(u + (k - Step(s))) = v
  <2> DEFINE w == Place(u + (k - Step(s)))
  <2>1. u + (k - Step(s)) \in Int /\ (u + (k - Step(s))) + Step(s) = u + k
    BY <1>1
  <2>2. Place(w + Step(s)) = Place((u + (k - Step(s))) + Step(s))
    BY <1>1, <2>1, PlaceFacts
  <2>3. w \in Threads
    BY <2>1, PlaceFacts
  <2>4. Signals(w, t, s)
    BY <1>3, <2>1, <2>2 DEF Signals
  <2> HIDE DEF w
  <2>5. w = v
    BY <2>3, <2>4, SignalsFrom
  <2> QED
    BY <2>5 DEF w
<1>4. ASSUME Covered(u, t, s + 1) PROVE Covered(u, t, s) \/ Covered(u, v, s)
  <2>1. PICK k \in 0 .. Step(s + 1) - 1 : Place(u + k) = t
    BY <1>4 DEF Covered
  <2>2. CASE k < Step(s)
    BY <1>1, <2>1, <2>2 DEF Covered
  <2>3. CASE k >= Step(s)
    <3>1. k \in Step(s) .. Step(s + 1) - 1 /\ k - Step(s) \in 0 .. Step(s) - 1
      BY <1>1, <2>1, <2>3
    <3> QED
      BY <1>3, <2>1, <3>1 DEF Covered
  <2> QED
    BY <1>1, <2>1, <2>2, <2>3
<1>5. ASSUME Covered(u, t, s) PROVE Covered(u, t, s + 1)
  <2>1. PICK k \in 0 .. Step(s) - 1 : Place(u + k) = t
    BY <1>5 DEF Covered
  <2>2. k \in 0 .. Step(s + 1) - 1
    BY <1>1
  <2> QED
    BY <2>1, <2>2 DEF Covered
<1>6. ASSUME Covered(u, v, s) PROVE Covered(u, t, s + 1)
  <2>1. PICK k \in 0 .. Step(s) - 1 : Place(u + k) = v
    BY <1>6 DEF Covered
  <2>2. k + Step(s) \in 0 .. Step(s + 1) - 1
    BY <1>1
  <2> QED
    BY <1>2, <2>1, <2>2 DEF Covered
<1> QED
  BY <1>4, <1>5, <1>6

(* No flag covers the thread itself, all the flags cover everyone.         *)
LEMMA CoveredEnds ==
  ASSUME ConstantsOK, NEW t \in Threads, NEW u \in Threads
  PROVE  (Covered(u, t, 0) <=> u = t) /\ Covered(u, t, Log)
<1>1. /\ N \in Nat \ {0} /\ Log \in Nat /\ t \in Int /\ u \in Int
      /\ Step(0) = 1 /\ Step(Log) \in Nat /\ Step(Log) >= N
      /\ Threads = 0 .. N - 1
  BY ConstantsAre, StepFacts
<1>2. Covered(u, t, 0) <=> u = t
  <2>1. 0 .. Step(0) - 1 = {0} /\ u + 0 = u
    BY <1>1
  <2>2. Place(u) = u
    BY PlaceFacts
  <2> QED
    BY <2>1, <2>2 DEF Covered
<1>3. Covered(u, t, Log)
  <2>0. t - u \in Int
    BY <1>1
  <2>1. Place(t - u) \in 0 .. N - 1 /\ t - u \in Int
    BY <1>1, <2>0, PlaceFacts
  <2>2. Place(Place(t - u) + u) = Place((t - u) + u)
    BY <1>1, <2>1, PlaceFacts
  <2>3. (t - u) + u = t /\ Place(t) = t
    BY <1>1, PlaceFacts
  <2>4. Place(t - u) + u = u + Place(t - u) /\ Place(t - u) \in 0 .. Step(Log) - 1
    BY <1>1, <2>1
  <2> QED
    BY <2>2, <2>3, <2>4 DEF Covered
<1> QED
  BY <1>2, <1>3

(* Who has passed more flags knows of more.                                *)
LEMMA CoveredMore ==
  ASSUME ConstantsOK, NEW t \in Threads, NEW u \in Threads,
         NEW m \in Nat, NEW n \in Nat, m <= n, Covered(u, t, m)
  PROVE  Covered(u, t, n)
<1>1. Step(m) <= Step(n) /\ Step(m) \in Nat /\ Step(n) \in Nat
  BY StepFacts
<1>2. PICK k \in 0 .. Step(m) - 1 : Place(u + k) = t
  BY DEF Covered
<1> QED
  BY <1>1, <1>2 DEF Covered

-----------------------------------------------------------------------------
(* The inductive invariant of N > 1 threads.  The stores of thread u have  *)
(* ranks counted from the end of the barrier before its last one: it has   *)
(* cleared the flags (0), set those of its last barrier (1 .. Log), cleared*)
(* them (Log + 1), and sets those of the barrier it is in.  Top(u) is its  *)
(* latest store, Drained(u) the latest that has reached the memory.        *)
Store == [of : Threads, phase : Phases, slots : SUBSET Slots, to : Int]

TypeOK ==
  /\ pc \in [Threads -> {"out", "in"}]
  /\ i \in [Threads -> Slots]
  /\ e64 \in [Threads -> EpochSet]
  /\ or_acc \in [Threads -> [Phases -> Int]]
  /\ hot \in [Threads -> [Phases -> [Slots -> Int]]]
  /\ buffer \in [Threads -> Seq(Store)]
  /\ given \in [Threads -> [Phases -> BOOLEAN]]

Top(u) == IF pc[u] = "in" THEN Log + 2 + i[u] ELSE Log + 1
Drained(u) == Top(u) - Len(buffer[u])

IsClear(w, u, ph) == w = ClearFlags(u, ph)
IsSet(w, u, ph, s) == w = SetFlag(Place(u + Step(s)), ph, s, w.to)

IsStore(w, u, e, r) ==
  /\ r = 0 => IsClear(w, u, Phase(e))
  /\ \A s \in Slots : r = 1 + s => IsSet(w, u, 1 - Phase(e), s)
  /\ r = Log + 1 => IsClear(w, u, 1 - Phase(e))
  /\ \A s \in Slots : r = Log + 2 + s => IsSet(w, u, Phase(e), s)

(* What is on its way to memory are the latest stores in their order.      *)
BufferInOrder ==
  \A u \in Threads :
    /\ Drained(u) >= -1
    /\ \A k \in 1 .. Len(buffer[u]) : IsStore(buffer[u][k], u, e64[u], Drained(u) + k)

(* Store s of v has been in memory in the barrier that t is at, in the one *)
(* after it, in the one before it.                                         *)
Now(v, t, s) ==
  \/ e64[v] = e64[t] /\ Drained(v) >= Log + 2 + s
  \/ e64[v] = After(e64[t]) /\ Drained(v) >= 1 + s
Ahead(v, t, s) == e64[v] = After(e64[t]) /\ Drained(v) >= Log + 2 + s
Before(v, t, s) ==
  \/ e64[v] = e64[t] /\ Drained(v) >= 1 + s
  \/ e64[t] = After(e64[v]) /\ Drained(v) >= Log + 2 + s
  \/ e64[v] = After(e64[t])

(* A flag in memory that its owner's clearing has passed tells the truth.  *)
FlagsTrue ==
  \A t, v \in Threads, s \in Slots : Signals(v, t, s) =>
    /\ Drained(t) >= 0 /\ hot[t][Phase(e64[t])][s] # 0 => Now(v, t, s)
    /\ Drained(t) >= Log + 1 /\ hot[t][1 - Phase(e64[t])][s] # 0 => Ahead(v, t, s)

(* t knows of the threads that its flags cover, and had heard of everyone  *)
(* and seen all its flags when it ended the barrier before.                *)
HeardOf ==
  \A t, u \in Threads : u # t =>
    /\ pc[t] = "in" /\ Covered(u, t, i[t]) => Now(u, t, 0)
    /\ Before(u, t, 0)
Passed ==
  \A t, v \in Threads, s \in Slots : Signals(v, t, s) =>
    /\ pc[t] = "in" /\ s < i[t] => Now(v, t, s)
    /\ Before(v, t, s)

Order == BufferInOrder /\ FlagsTrue /\ HeardOf /\ Passed

LEMMA RankFacts ==
  ASSUME ConstantsOK, TypeOK, NEW u \in Threads
  PROVE  /\ Top(u) \in Nat /\ Top(u) <= Log + Log + 1 /\ Top(u) >= Log + 1
         /\ Len(buffer[u]) \in Nat
         /\ Drained(u) \in Int /\ Drained(u) <= Top(u) /\ Drained(u) + Len(buffer[u]) = Top(u)
         /\ pc[u] = "in" => Top(u) = Log + 2 + i[u]
         /\ pc[u] = "out" => Top(u) = Log + 1
<1>1. /\ Log \in Nat \ {0} /\ Slots = 0 .. Log - 1 /\ i[u] \in Slots
      /\ pc[u] \in {"out", "in"} /\ buffer[u] \in Seq(Store)
  BY ConstantsAre DEF TypeOK
<1>2. Len(buffer[u]) \in Nat
  BY <1>1
<1> QED
  BY <1>1, <1>2 DEF Top, Drained

LEMMA StoreTypes ==
  ASSUME ConstantsOK, NEW t \in Threads, NEW ph \in Phases, NEW s \in Slots, NEW flag \in Int
  PROVE  SetFlag(t, ph, s, flag) \in Store /\ ClearFlags(t, ph) \in Store
  BY DEF SetFlag, ClearFlags, Store

(* Memory after a store.                                                   *)
LEMMA StoredType ==
  ASSUME NEW row \in [Slots -> Int], NEW w \in Store
  PROVE  /\ Stored(row, w) \in [Slots -> Int]
         /\ \A s \in Slots : Stored(row, w)[s] = IF s \in w.slots THEN w.to ELSE row[s]
  BY DEF Stored, Store

LEMMA DrainEffect ==
  ASSUME ConstantsOK, TypeOK, BufferInOrder, NEW v \in Threads, Drain(v)
  PROVE  /\ TypeOK' /\ BufferInOrder'
         /\ UNCHANGED <<pc, i, e64, or_acc, given>>
         /\ \A u \in Threads : Drained(u)' = IF u = v THEN Drained(u) + 1 ELSE Drained(u)
         /\ Drained(v) + 1 \in 0 .. Top(v)
         /\ Head(buffer[v]) \in Store
         /\ IsStore(Head(buffer[v]), v, e64[v], Drained(v) + 1)
         /\ \A t \in Threads, ph \in Phases, s \in Slots :
              hot'[t][ph][s] = LET w == Head(buffer[v])
                               IN  IF w.of = t /\ w.phase = ph /\ s \in w.slots
                                   THEN w.to ELSE hot[t][ph][s]
<1> DEFINE w == Head(buffer[v])
<1>1. /\ buffer[v] # <<>>
      /\ hot' = [hot EXCEPT ![w.of][w.phase] = Stored(@, w)]
      /\ buffer' = [buffer EXCEPT ![v] = Tail(@)]
      /\ UNCHANGED <<pc, i, e64, or_acc, given>>
  BY DEF Drain
<1>2. buffer[v] \in Seq(Store)
  BY DEF TypeOK
<1>3. /\ Len(buffer[v]) \in Nat \ {0} /\ w \in Store /\ w = buffer[v][1]
      /\ Tail(buffer[v]) \in Seq(Store) /\ Len(Tail(buffer[v])) = Len(buffer[v]) - 1
      /\ \A k \in 1 .. Len(buffer[v]) - 1 : Tail(buffer[v])[k] = buffer[v][k + 1]
  BY <1>1, <1>2
<1> HIDE DEF w
<1>4. w.of \in Threads /\ w.phase \in Phases
  BY <1>3 DEF Store
<1>5. /\ buffer'[v] = Tail(buffer[v])
      /\ \A u \in Threads : u # v => buffer'[u] = buffer[u]
      /\ buffer' \in [Threads -> Seq(Store)]
  BY <1>1, <1>2, <1>3 DEF TypeOK
<1>6. hot[w.of][w.phase] \in [Slots -> Int]
  BY <1>4 DEF TypeOK
<1>7. /\ hot' \in [Threads -> [Phases -> [Slots -> Int]]]
      /\ hot'[w.of][w.phase] = Stored(hot[w.of][w.phase], w)
      /\ \A t \in Threads, ph \in Phases : t # w.of \/ ph # w.phase => hot'[t][ph] = hot[t][ph]
  <2>1. Stored(hot[w.of][w.phase], w) \in [Slots -> Int]
    BY <1>3, <1>6, StoredType
  <2> QED
    BY <1>1, <1>4, <2>1 DEF TypeOK
<1>8. ASSUME NEW t \in Threads, NEW ph \in Phases, NEW s \in Slots
      PROVE  hot'[t][ph][s] = IF w.of = t /\ w.phase = ph /\ s \in w.slots
                              THEN w.to ELSE hot[t][ph][s]
  <2>1. Stored(hot[w.of][w.phase], w)[s] = IF s \in w.slots THEN w.to
                                           ELSE hot[w.of][w.phase][s]
    <3>1. \A row \in [Slots -> Int] :
            Stored(row, w)[s] = IF s \in w.slots THEN w.to ELSE row[s]
      BY <1>3, StoredType
    <3> QED
      BY <1>6, <3>1
  <2> QED
    BY <1>7, <2>1
<1>9. TypeOK'
  BY <1>1, <1>5, <1>7 DEF TypeOK
<1>10. \A u \in Threads : Top(u)' = Top(u)
  BY <1>1 DEF Top
<1>11. \A u \in Threads : Drained(u)' = IF u = v THEN Drained(u) + 1 ELSE Drained(u)
  <2>1. \A u \in Threads : Top(u) \in Int /\ Len(buffer[u]) \in Int
    BY RankFacts
  <2>2. \A u \in Threads : Len(buffer'[u]) = IF u = v THEN Len(buffer[u]) - 1 ELSE Len(buffer[u])
    BY <1>3, <1>5
  <2> QED
    BY <1>10, <2>1, <2>2 DEF Drained
<1>12. Drained(v) + 1 \in 0 .. Top(v)
  <2>1. Drained(v) >= -1
    BY DEF BufferInOrder
  <2> QED
    BY <1>3, <2>1, RankFacts
<1>13. IsStore(w, v, e64[v], Drained(v) + 1)
  BY <1>3 DEF BufferInOrder
<1>14. BufferInOrder'
  <2>1. \A u \in Threads : Drained(u) \in Int
    BY RankFacts
  <2>2. ASSUME NEW u \in Threads PROVE Drained(u)' >= -1
    <3>1. Drained(u) >= -1
      BY DEF BufferInOrder
    <3> QED
      BY <1>11, <2>1, <3>1
  <2>3. ASSUME NEW u \in Threads, NEW k \in 1 .. Len(buffer'[u])
        PROVE  IsStore(buffer'[u][k], u, e64'[u], Drained(u)' + k)
    <3>1. CASE u = v
      <4>1. k + 1 \in 1 .. Len(buffer[v]) /\ k \in 1 .. Len(buffer[v]) - 1
        BY <1>3, <1>5, <2>3, <3>1
      <4>2. buffer'[u][k] = buffer[v][k + 1]
        BY <1>3, <1>5, <3>1, <4>1
      <4>3. IsStore(buffer[v][k + 1], v, e64[v], Drained(v) + (k + 1))
        BY <4>1 DEF BufferInOrder
      <4>4. Drained(v)' + k = Drained(v) + (k + 1)
        BY <1>11, <2>1, <4>1
      <4> QED
        BY <1>1, <3>1, <4>2, <4>3, <4>4
    <3>2. CASE u # v
      <4>1. buffer'[u] = buffer[u] /\ e64'[u] = e64[u] /\ Drained(u)' = Drained(u)
        BY <1>1, <1>5, <1>11, <3>2
      <4>2. IsStore(buffer[u][k], u, e64[u], Drained(u) + k)
        BY <4>1, <2>3 DEF BufferInOrder
      <4> QED
        BY <4>1, <4>2
    <3> QED
      BY <3>1, <3>2
  <2> QED
    BY <2>2, <2>3 DEF BufferInOrder
<1> QED
  BY <1>1, <1>3, <1>8, <1>9, <1>11, <1>12, <1>13, <1>14 DEF w

(* A store is issued and no epoch changes.                                 *)
LEMMA AppendEffect ==
  ASSUME ConstantsOK, TypeOK, BufferInOrder, NEW v \in Threads, NEW w \in Store,
         buffer' = [buffer EXCEPT ![v] = Append(@, w)],
         e64' = e64,
         \A u \in Threads : Top(u)' = IF u = v THEN Top(u) + 1 ELSE Top(u),
         IsStore(w, v, e64[v], Top(v) + 1)
  PROVE  /\ buffer' \in [Threads -> Seq(Store)]
         /\ BufferInOrder'
         /\ \A u \in Threads : Drained(u)' = Drained(u)
<1>1. buffer[v] \in Seq(Store)
  BY DEF TypeOK
<1>2. /\ Append(buffer[v], w) \in Seq(Store) /\ Len(buffer[v]) \in Nat
      /\ Len(Append(buffer[v], w)) = Len(buffer[v]) + 1
      /\ \A k \in 1 .. Len(buffer[v]) : Append(buffer[v], w)[k] = buffer[v][k]
      /\ Append(buffer[v], w)[Len(buffer[v]) + 1] = w
  BY <1>1
<1>3. /\ buffer'[v] = Append(buffer[v], w)
      /\ \A u \in Threads : u # v => buffer'[u] = buffer[u]
      /\ buffer' \in [Threads -> Seq(Store)]
  BY <1>2 DEF TypeOK
<1>4. \A u \in Threads : Top(u) \in Int /\ Len(buffer[u]) \in Int /\ Drained(u) \in Int
  BY RankFacts
<1>5. \A u \in Threads : Drained(u)' = Drained(u)
  <2>1. \A u \in Threads : Len(buffer'[u]) = IF u = v THEN Len(buffer[u]) + 1 ELSE Len(buffer[u])
    BY <1>2, <1>3
  <2> QED
    BY <1>4, <2>1 DEF Drained
<1>6. ASSUME NEW u \in Threads PROVE Drained(u)' >= -1
  BY <1>5 DEF BufferInOrder
<1>7. ASSUME NEW u \in Threads, NEW k \in 1 .. Len(buffer'[u])
      PROVE  IsStore(buffer'[u][k], u, e64'[u], Drained(u)' + k)
  <2>1. Drained(u)' + k = Drained(u) + k
    BY <1>5
  <2>2. CASE u # v \/ k <= Len(buffer[u])
    <3>1. k \in 1 .. Len(buffer[u]) /\ buffer'[u][k] = buffer[u][k]
      BY <1>2, <1>3, <1>4, <1>7, <2>2
    <3>2. IsStore(buffer[u][k], u, e64[u], Drained(u) + k)
      BY <3>1 DEF BufferInOrder
    <3> QED
      BY <2>1, <3>1, <3>2
  <2>3. CASE u = v /\ k > Len(buffer[u])
    <3>1. k = Len(buffer[v]) + 1 /\ buffer'[u][k] = w
      BY <1>2, <1>3, <1>7, <2>3
    <3>2. Drained(v) + k = Top(v) + 1
      BY <1>4, <3>1 DEF Drained
    <3> QED
      BY <2>1, <2>3, <3>1, <3>2
  <2> QED
    BY <1>4, <2>2, <2>3
<1> QED
  BY <1>3, <1>5, <1>6, <1>7 DEF BufferInOrder

LEMMA BeginEffect ==
  ASSUME ConstantsOK, TypeOK, BufferInOrder, NEW v \in Threads, NEW or_in \in BOOLEAN,
         Begin(v, or_in)
  PROVE  /\ TypeOK' /\ BufferInOrder'
         /\ UNCHANGED <<e64, hot>>
         /\ pc[v] = "out" /\ pc'[v] = "in" /\ i'[v] = 0
         /\ \A u \in Threads : u # v => pc'[u] = pc[u] /\ i'[u] = i[u]
         /\ \A u \in Threads : Drained(u)' = Drained(u)
<1> DEFINE ph == Phase(e64[v])
           w == SetFlag(Place(v + Step(0)), ph, 0, FlagOf(or_in))
<1>1. /\ pc[v] = "out"
      /\ pc' = [pc EXCEPT ![v] = "in"]
      /\ buffer' = [buffer EXCEPT ![v] = Append(@, w)]
      /\ i' = [i EXCEPT ![v] = 0]
      /\ or_acc' = [or_acc EXCEPT ![v][ph] = FlagOf(or_in)]
      /\ given' = [given EXCEPT ![v][ph] = or_in]
      /\ UNCHANGED <<e64, hot>>
  <2>1. Place(v + Step(0)) = (v + 1) % N
    BY StepFacts DEF Place
  <2> QED
    BY <2>1 DEF Begin
<1>2. /\ Log \in Nat \ {0} /\ Slots = 0 .. Log - 1 /\ 0 \in Slots
      /\ FlagOf(or_in) \in Int
  BY ConstantsAre DEF FlagOf
<1>3. ph \in Phases
  <2>1. e64[v] \in EpochSet
    BY DEF TypeOK
  <2> QED
    BY <2>1, EpochFacts
<1>4. w \in Store /\ w.to = FlagOf(or_in)
  <2>1. Place(v + Step(0)) \in Threads
    BY <1>2, SignalsFrom
  <2>2. w \in Store
    BY <1>2, <1>3, <2>1, StoreTypes
  <2> QED
    BY <2>2 DEF SetFlag
<1>5. /\ pc' \in [Threads -> {"out", "in"}] /\ i' \in [Threads -> Slots]
      /\ or_acc' \in [Threads -> [Phases -> Int]]
      /\ given' \in [Threads -> [Phases -> BOOLEAN]]
      /\ pc'[v] = "in" /\ i'[v] = 0
      /\ \A u \in Threads : u # v => pc'[u] = pc[u] /\ i'[u] = i[u]
  BY <1>1, <1>2, <1>3 DEF TypeOK
<1>6. \A u \in Threads : Top(u)' = IF u = v THEN Top(u) + 1 ELSE Top(u)
  BY <1>1, <1>2, <1>5 DEF Top
<1>7. IsStore(w, v, e64[v], Top(v) + 1)
  <2>1. Top(v) + 1 = Log + 2
    BY <1>1, <1>2 DEF Top
  <2>2. \A s \in Slots : Log + 2 # 1 + s /\ (Log + 2 = Log + 2 + s => s = 0)
    BY <1>2
  <2>3. IsSet(w, v, ph, 0)
    BY <1>4 DEF IsSet
  <2> QED
    BY <1>2, <2>1, <2>2, <2>3 DEF IsStore
<1> HIDE DEF w
<1>8. /\ buffer' \in [Threads -> Seq(Store)]
      /\ BufferInOrder'
      /\ \A u \in Threads : Drained(u)' = Drained(u)
  BY <1>1, <1>4, <1>6, <1>7, AppendEffect
<1>9. TypeOK'
  BY <1>1, <1>5, <1>8 DEF TypeOK
<1> QED
  BY <1>1, <1>5, <1>8, <1>9

LEMMA PassEffect ==
  ASSUME ConstantsOK, TypeOK, BufferInOrder, NEW v \in Threads, Pass(v)
  PROVE  /\ TypeOK' /\ BufferInOrder'
         /\ UNCHANGED <<pc, e64, hot, given>>
         /\ pc[v] = "in" /\ i[v] < Log - 1 /\ i'[v] = i[v] + 1
         /\ Mine(v, Phase(e64[v]))[i[v]] # 0
         /\ \A u \in Threads : u # v => i'[u] = i[u]
         /\ \A u \in Threads : Drained(u)' = Drained(u)
<1> DEFINE ph == Phase(e64[v])
           flag == Mine(v, ph)[i[v]]
           w == SetFlag(Place(v + Step(i[v] + 1)), ph, i[v] + 1, BitOr(or_acc[v][ph], flag))
<1>1. /\ pc[v] = "in" /\ i[v] < Log - 1
      /\ flag # 0
      /\ or_acc' = [or_acc EXCEPT ![v][ph] = BitOr(@, flag)]
      /\ buffer' = [buffer EXCEPT ![v] = Append(@, w)]
      /\ i' = [i EXCEPT ![v] = @ + 1]
      /\ UNCHANGED <<pc, e64, hot, given>>
  BY DEF Pass, Place, Step, Arrived
<1>2. /\ Log \in Nat \ {0} /\ Slots = 0 .. Log - 1 /\ i[v] \in Slots /\ i[v] + 1 \in Slots
  BY <1>1, ConstantsAre DEF TypeOK
<1>3. ph \in Phases
  <2>1. e64[v] \in EpochSet
    BY DEF TypeOK
  <2> QED
    BY <2>1, EpochFacts
<1>4. BitOr(or_acc[v][ph], flag) \in Int
  <2>1. flag \in Int
    <3>1. Mine(v, ph) \in [Slots -> Int]
      BY <1>3 DEF Mine, Zeros, TypeOK
    <3> QED
      BY <1>2, <3>1
  <2>2. or_acc[v][ph] \in Int
    BY <1>3 DEF TypeOK
  <2> HIDE DEF flag
  <2> QED
    BY <2>1, <2>2 DEF BitOr
<1>5. w \in Store /\ w.to = BitOr(or_acc[v][ph], flag)
  <2>1. Place(v + Step(i[v] + 1)) \in Threads
    BY <1>2, SignalsFrom
  <2>2. w \in Store
    BY <1>2, <1>3, <1>4, <2>1, StoreTypes
  <2> HIDE DEF flag
  <2> QED
    BY <2>2 DEF SetFlag
<1> HIDE DEF flag
<1>6. /\ i' \in [Threads -> Slots]
      /\ or_acc' \in [Threads -> [Phases -> Int]]
      /\ i'[v] = i[v] + 1
      /\ \A u \in Threads : u # v => i'[u] = i[u]
  BY <1>1, <1>2, <1>3, <1>4 DEF TypeOK
<1>7. \A u \in Threads : Top(u)' = IF u = v THEN Top(u) + 1 ELSE Top(u)
  <2>1. Top(v)' = Top(v) + 1
    BY <1>1, <1>2, <1>6 DEF Top
  <2>2. \A u \in Threads : u # v => Top(u)' = Top(u)
    BY <1>1, <1>6 DEF Top
  <2> QED
    BY <2>1, <2>2
<1>8. IsStore(w, v, e64[v], Top(v) + 1)
  <2>1. Top(v) + 1 = Log + 2 + (i[v] + 1)
    BY <1>1, <1>2 DEF Top
  <2>2. \A s \in Slots : /\ Log + 2 + (i[v] + 1) # 1 + s
                         /\ Log + 2 + (i[v] + 1) = Log + 2 + s => s = i[v] + 1
    BY <1>2
  <2>3. IsSet(w, v, ph, i[v] + 1)
    BY <1>5 DEF IsSet
  <2>4. Top(v) + 1 # 0 /\ Top(v) + 1 # Log + 1
    BY <1>2, <2>1
  <2> HIDE DEF w, ph
  <2> QED
    BY <2>1, <2>2, <2>3, <2>4 DEF IsStore, ph
<1> HIDE DEF w
<1>9. /\ buffer' \in [Threads -> Seq(Store)]
      /\ BufferInOrder'
      /\ \A u \in Threads : Drained(u)' = Drained(u)
  BY <1>1, <1>5, <1>7, <1>8, AppendEffect
<1>10. TypeOK'
  BY <1>1, <1>6, <1>9 DEF TypeOK
<1> QED
  BY <1>1, <1>6, <1>9, <1>10 DEF flag

(* The ranks of a thread's stores move back by a barrier when it ends one. *)
LEMMA RankShift ==
  ASSUME ConstantsOK, NEW u \in Threads, NEW e \in EpochSet, NEW w,
         NEW r \in Log + 1 .. Log + Log + 1, IsStore(w, u, e, r)
  PROVE  IsStore(w, u, After(e), r - (Log + 1))
<1>1. Log \in Nat \ {0} /\ Slots = 0 .. Log - 1
  BY ConstantsAre
<1>2. Phase(After(e)) = 1 - Phase(e) /\ 1 - Phase(After(e)) = Phase(e)
  <2>1. Phase(e) \in {0, 1} /\ Phase(After(e)) = 1 - Phase(e)
    BY EpochFacts DEF Phases
  <2> HIDE DEF After
  <2> QED
    BY <2>1
<1>3. /\ r - (Log + 1) = 0 => r = Log + 1
      /\ \A s \in Slots : r - (Log + 1) = 1 + s => r = Log + 2 + s
      /\ r - (Log + 1) # Log + 1
      /\ \A s \in Slots : r - (Log + 1) # Log + 2 + s
  BY <1>1
<1> QED
  BY <1>2, <1>3 DEF IsStore

LEMMA TryEndEffect ==
  ASSUME ConstantsOK, TypeOK, BufferInOrder, NEW v \in Threads, TryEnd(v), N > 1,
         Drained(v) >= Log
  PROVE  /\ TypeOK' /\ BufferInOrder'
         /\ UNCHANGED <<i, hot, given>>
         /\ pc[v] = "in" /\ pc'[v] = "out" /\ i[v] = Log - 1 /\ e64'[v] = After(e64[v])
         /\ Mine(v, Phase(e64[v]))[Log - 1] # 0
         /\ Drained(v)' = Drained(v) - (Log + 1)
         /\ \A u \in Threads : u # v => /\ pc'[u] = pc[u] /\ e64'[u] = e64[u]
                                        /\ Drained(u)' = Drained(u)
<1> DEFINE ph == Phase(e64[v])
           flag == Mine(v, ph)[Log - 1]
           w == ClearFlags(v, ph)
<1>1. /\ pc[v] = "in" /\ i[v] = Log - 1
      /\ flag # 0
      /\ or_acc' = [or_acc EXCEPT ![v][ph] = BitOr(@, flag) - 1]
      /\ buffer' = [buffer EXCEPT ![v] = Append(@, w)]
      /\ e64' = [e64 EXCEPT ![v] = After(@)]
      /\ pc' = [pc EXCEPT ![v] = "out"]
      /\ UNCHANGED <<i, hot, given>>
  <2>1. N > 1
    OBVIOUS
  <2> QED
    BY <2>1 DEF TryEnd, After, Arrived
<1>2. /\ Log \in Nat \ {0} /\ Slots = 0 .. Log - 1 /\ Log - 1 \in Slots /\ e64[v] \in EpochSet
      /\ buffer[v] \in Seq(Store)
  BY ConstantsAre DEF TypeOK
<1>3. ph \in Phases /\ After(e64[v]) \in EpochSet /\ Phase(After(e64[v])) = 1 - ph
  BY <1>2, EpochFacts
<1>4. BitOr(or_acc[v][ph], flag) - 1 \in Int
  <2>1. flag \in Int
    <3>1. Mine(v, ph) \in [Slots -> Int]
      BY <1>3 DEF Mine, Zeros, TypeOK
    <3> QED
      BY <1>2, <3>1
  <2>2. or_acc[v][ph] \in Int
    BY <1>3 DEF TypeOK
  <2> HIDE DEF flag
  <2> QED
    BY <2>1, <2>2 DEF BitOr
<1> HIDE DEF flag
<1>5. w \in Store
  BY <1>2, <1>3, StoreTypes
<1>6. IsStore(w, v, After(e64[v]), Log + 1)
  <2>1. 1 - (1 - ph) = ph
    BY <1>3 DEF Phases
  <2>2. Log + 1 # 0 /\ \A s \in Slots : Log + 1 # 1 + s /\ Log + 1 # Log + 2 + s
    BY <1>2
  <2>3. IsClear(w, v, 1 - Phase(After(e64[v])))
    BY <1>3, <2>1 DEF IsClear
  <2> HIDE DEF ph, w
  <2> QED
    BY <2>2, <2>3 DEF IsStore
<1> HIDE DEF w
<1>7. /\ Append(buffer[v], w) \in Seq(Store) /\ Len(buffer[v]) \in Nat
      /\ Len(Append(buffer[v], w)) = Len(buffer[v]) + 1
      /\ \A k \in 1 .. Len(buffer[v]) : Append(buffer[v], w)[k] = buffer[v][k]
      /\ Append(buffer[v], w)[Len(buffer[v]) + 1] = w
  BY <1>2, <1>5
<1>8. /\ buffer'[v] = Append(buffer[v], w)
      /\ \A u \in Threads : u # v => buffer'[u] = buffer[u]
      /\ buffer' \in [Threads -> Seq(Store)]
  BY <1>1, <1>7 DEF TypeOK
<1>9. /\ pc' \in [Threads -> {"out", "in"}] /\ e64' \in [Threads -> EpochSet]
      /\ or_acc' \in [Threads -> [Phases -> Int]]
      /\ pc'[v] = "out" /\ e64'[v] = After(e64[v])
      /\ \A u \in Threads : u # v => pc'[u] = pc[u] /\ e64'[u] = e64[u]
  BY <1>1, <1>3, <1>4 DEF TypeOK
<1>10. TypeOK'
  BY <1>1, <1>8, <1>9 DEF TypeOK
<1>11. /\ Drained(v) + Len(buffer[v]) = Log + Log + 1 /\ Drained(v) \in Int
       /\ Top(v) = Log + Log + 1
  <2>1. Top(v) = Log + 2 + i[v] /\ Drained(v) + Len(buffer[v]) = Top(v) /\ Drained(v) \in Int
    BY <1>1, RankFacts
  <2> QED
    BY <1>1, <1>2, <1>7, <2>1
<1>12. Drained(v)' = Drained(v) - (Log + 1) /\ Drained(v)' + (Log + 1) = Drained(v) /\ Drained(v)' \in Int
  <2>1. Top(v)' = Log + 1
    BY <1>9 DEF Top
  <2>2. Len(buffer'[v]) = Len(buffer[v]) + 1
    BY <1>7, <1>8
  <2>3. Drained(v)' = Top(v)' - Len(buffer'[v])
    BY DEF Drained
  <2>4. Drained(v)' = Log + 1 - (Len(buffer[v]) + 1)
    BY <1>2, <1>7, <2>1, <2>2, <2>3
  <2>5. /\ Log + 1 - (Len(buffer[v]) + 1) \in Int
        /\ Log + 1 - (Len(buffer[v]) + 1) = Drained(v) - (Log + 1)
        /\ Log + 1 - (Len(buffer[v]) + 1) + (Log + 1) = Drained(v)
    <3>1. /\ Log \in Int /\ Len(buffer[v]) \in Int /\ Drained(v) \in Int
          /\ Drained(v) + Len(buffer[v]) = Log + Log + 1
      BY <1>2, <1>7, <1>11
    <3>2. PICK d \in Int, n \in Int : d = Drained(v) /\ n = Len(buffer[v])
      BY <3>1
    <3>3. d + n = Log + Log + 1 /\ Log \in Int
      BY <3>1, <3>2
    <3>4. /\ Log + 1 - (n + 1) \in Int
          /\ Log + 1 - (n + 1) = d - (Log + 1)
          /\ Log + 1 - (n + 1) + (Log + 1) = d
      BY <3>3
    <3> QED
      BY <3>2, <3>4
  <2> QED
    BY <2>4, <2>5
<1>13. \A u \in Threads : u # v => Drained(u)' = Drained(u)
  BY <1>1, <1>8, <1>9 DEF Drained, Top
<1>14. ASSUME NEW u \in Threads PROVE Drained(u)' >= -1
  <2>1. Drained(u) >= -1
    BY DEF BufferInOrder
  <2>2. Drained(v) - (Log + 1) >= -1
    BY <1>2, <1>11
  <2> QED
    BY <1>12, <1>13, <2>1, <2>2
<1>15. ASSUME NEW u \in Threads, NEW k \in 1 .. Len(buffer'[u])
       PROVE  IsStore(buffer'[u][k], u, e64'[u], Drained(u)' + k)
  <2>1. CASE u # v
    <3>1. buffer'[u] = buffer[u] /\ e64'[u] = e64[u] /\ Drained(u)' = Drained(u)
      BY <1>8, <1>9, <1>13, <2>1
    <3>2. IsStore(buffer[u][k], u, e64[u], Drained(u) + k)
      BY <1>15, <3>1 DEF BufferInOrder
    <3> QED
      BY <3>1, <3>2
  <2>2. CASE u = v /\ k <= Len(buffer[v])
    <3>1. k \in 1 .. Len(buffer[v]) /\ buffer'[v][k] = buffer[v][k]
      BY <1>7, <1>8, <2>2
    <3>2. IsStore(buffer[v][k], v, e64[v], Drained(v) + k)
      BY <3>1 DEF BufferInOrder
    <3>3. Drained(v) + k \in Log + 1 .. Log + Log + 1
      <4> HIDE DEF w, ph
      <4>1. Log \in Nat /\ Len(buffer[v]) \in Nat /\ k \in Nat /\ k >= 1 /\ k <= Len(buffer[v])
        BY <1>2, <1>7, <3>1
      <4>2. Drained(v) \in Int /\ Drained(v) >= Log /\ Drained(v) + Len(buffer[v]) = Log + Log + 1
        BY <1>11
      <4> QED
        BY <4>1, <4>2
    <3>4. IsStore(buffer[v][k], v, After(e64[v]), (Drained(v) + k) - (Log + 1))
      BY <1>2, <3>2, <3>3, RankShift
    <3>5. (Drained(v) + k) - (Log + 1) = Drained(v)' + k
      BY <1>2, <1>11, <1>12, <3>1
    <3> QED
      BY <1>9, <2>2, <3>1, <3>4, <3>5
  <2>3. CASE u = v /\ k > Len(buffer[v])
    <3>1. k = Len(buffer[v]) + 1 /\ buffer'[v][k] = w
      BY <1>7, <1>8, <1>15, <2>3
    <3>2. Drained(v)' + k = Log + 1
      <4>1. Log \in Nat /\ Len(buffer[v]) \in Nat /\ k = Len(buffer[v]) + 1
        BY <1>2, <1>7, <3>1
      <4>2. /\ Drained(v)' + (Log + 1) = Drained(v) /\ Drained(v)' \in Int /\ Drained(v) \in Int
            /\ Drained(v) + Len(buffer[v]) = Log + Log + 1
        BY <1>11, <1>12
      <4> QED
        BY <4>1, <4>2
    <3> QED
      BY <1>6, <1>9, <2>3, <3>1, <3>2
  <2> QED
    BY <1>7, <2>1, <2>2, <2>3
<1>16. BufferInOrder'
  BY <1>14, <1>15 DEF BufferInOrder
<1> QED
  BY <1>1, <1>9, <1>10, <1>12, <1>13, <1>16 DEF flag

(* A thread that sees one of its flags set has cleared it before, and the  *)
(* flag is in memory.                                                      *)
LEMMA MineMeans ==
  ASSUME ConstantsOK, TypeOK, BufferInOrder, NEW t \in Threads, NEW s \in Slots,
         Mine(t, Phase(e64[t]))[s] # 0
  PROVE  Drained(t) >= 0 /\ Mine(t, Phase(e64[t]))[s] = hot[t][Phase(e64[t])][s]
<1> DEFINE ph == Phase(e64[t])
<1>1. Zeros[s] = 0
  BY DEF Zeros
<1>2. ~ \E k \in DOMAIN buffer[t] : buffer[t][k].of = t /\ buffer[t][k].phase = ph
  BY <1>1 DEF Mine
<1>3. Mine(t, ph) = hot[t][ph]
  BY <1>2 DEF Mine
<1>4. ASSUME Drained(t) < 0 PROVE FALSE
  <2>1. Drained(t) \in Int /\ Drained(t) >= -1
    BY RankFacts DEF BufferInOrder
  <2>2. Drained(t) = -1 /\ Len(buffer[t]) \in Nat /\ Len(buffer[t]) >= 1
    <3>1. Log \in Nat /\ Top(t) \in Nat /\ Len(buffer[t]) \in Nat
          /\ Drained(t) + Len(buffer[t]) = Top(t) /\ Top(t) >= Log + 1
      BY RankFacts, ConstantsAre
    <3> QED
      BY <1>4, <2>1, <3>1
  <2>3. IsStore(buffer[t][1], t, e64[t], 0)
    <3>1. 1 \in 1 .. Len(buffer[t]) /\ Drained(t) + 1 = 0
      BY <2>2
    <3> QED
      BY <3>1 DEF BufferInOrder
  <2>4. buffer[t][1].of = t /\ buffer[t][1].phase = ph
    BY <2>3 DEF IsStore, IsClear, ClearFlags
  <2>5. 1 \in DOMAIN buffer[t]
    BY <2>2 DEF TypeOK
  <2> QED
    BY <1>2, <2>4, <2>5
<1>5. Drained(t) \in Int
  BY RankFacts
<1> QED
  BY <1>3, <1>4, <1>5

-----------------------------------------------------------------------------
(* What is known of others only grows while epochs stay.                   *)
LEMMA KnowledgeGrows ==
  ASSUME ConstantsOK, TypeOK, TypeOK', e64' = e64,
         \A u \in Threads : Drained(u)' = Drained(u) \/ Drained(u)' = Drained(u) + 1,
         NEW v \in Threads, NEW t \in Threads, NEW s \in Slots
  PROVE  /\ Now(v, t, s) => Now(v, t, s)'
         /\ Ahead(v, t, s) => Ahead(v, t, s)'
         /\ Before(v, t, s) => Before(v, t, s)'
<1>1. PICK d \in Int : d = Drained(v)
  BY RankFacts
<1>2. PICK dd \in Int : dd = Drained(v)'
  BY <1>1
<1>3. dd >= d /\ Log \in Int /\ s \in Int
  BY <1>1, <1>2, ConstantsAre
<1>4. (d >= Log + 2 + s => dd >= Log + 2 + s) /\ (d >= 1 + s => dd >= 1 + s)
  BY <1>1, <1>2, <1>3
<1>5. (Drained(v) >= Log + 2 + s => Drained(v)' >= Log + 2 + s)
      /\ (Drained(v) >= 1 + s => Drained(v)' >= 1 + s)
  BY <1>1, <1>2, <1>4
<1> QED
  BY <1>5 DEF Now, Ahead, Before

LEMMA DrainKeepsFlags ==
  ASSUME ConstantsOK, N > 1, TypeOK, Order, NEW v \in Threads, Drain(v)
  PROVE  FlagsTrue'
<1> DEFINE w == Head(buffer[v])
           e == e64[v]
<1>1. /\ TypeOK' /\ BufferInOrder' /\ UNCHANGED <<pc, i, e64>>
      /\ \A u \in Threads : Drained(u)' = IF u = v THEN Drained(u) + 1 ELSE Drained(u)
      /\ Drained(v) + 1 \in 0 .. Top(v)
      /\ w \in Store
      /\ IsStore(w, v, e, Drained(v) + 1)
      /\ \A t \in Threads, ph \in Phases, s \in Slots :
           hot'[t][ph][s] = IF w.of = t /\ w.phase = ph /\ s \in w.slots
                            THEN w.to ELSE hot[t][ph][s]
  BY DrainEffect DEF Order
<1> HIDE DEF w
<1>2. Log \in Nat \ {0} /\ Slots = 0 .. Log - 1 /\ Log - 1 \in Nat
  BY ConstantsAre
<1>3. PICK r \in Int : r = Drained(v) + 1 /\ Drained(v) \in Int /\ Drained(v)' = r
  BY <1>1, RankFacts
<1>4. \A t \in Threads : e64[t] \in EpochSet /\ Phase(e64[t]) \in {0, 1}
  BY EpochFacts DEF TypeOK, Phases
<1>5. \A u \in Threads : Drained(u)' = Drained(u) \/ Drained(u)' = Drained(u) + 1
  BY <1>1
<1>6. \A t, x \in Threads, s \in Slots : Now(x, t, s) => Now(x, t, s)'
  BY <1>1, <1>5, KnowledgeGrows
<1>7. \A t, x \in Threads, s \in Slots : Ahead(x, t, s) => Ahead(x, t, s)'
  BY <1>1, <1>5, KnowledgeGrows
<1>8. FlagsTrue /\ Passed
  BY DEF Order
<1>9. \/ r = 0
      \/ \E z \in Slots : r = 1 + z
      \/ r = Log + 1
      \/ \E z \in Slots : r = Log + 2 + z
  <2>1. r \in 0 .. Log + Log + 1
    BY <1>1, <1>2, <1>3, RankFacts
  <2>2. CASE r \in 1 .. Log
    <3>1. r - 1 \in Slots /\ r = 1 + (r - 1)
      BY <1>2, <2>2
    <3> QED
      BY <3>1
  <2>3. CASE r \in Log + 2 .. Log + Log + 1
    <3>1. r - (Log + 2) \in Slots /\ r = Log + 2 + (r - (Log + 2))
      BY <1>2, <2>3
    <3> QED
      BY <3>1
  <2> QED
    BY <1>2, <2>1, <2>2, <2>3
<1> SUFFICES ASSUME NEW t \in Threads, NEW x \in Threads, NEW s \in Slots, Signals(x, t, s)
             PROVE  /\ Drained(t)' >= 0 /\ hot'[t][Phase(e64[t])][s] # 0 => Now(x, t, s)'
                    /\ Drained(t)' >= Log + 1 /\ hot'[t][1 - Phase(e64[t])][s] # 0
                         => Ahead(x, t, s)'
  BY <1>1 DEF FlagsTrue
<1> DEFINE ph == Phase(e64[t])
<1>10. ph \in Phases /\ 1 - ph \in Phases /\ ph # 1 - ph /\ 1 - (1 - ph) = ph
  BY <1>4 DEF Phases
<1>11. /\ Drained(t) >= 0 /\ hot[t][ph][s] # 0 => Now(x, t, s)
       /\ Drained(t) >= Log + 1 /\ hot[t][1 - ph][s] # 0 => Ahead(x, t, s)
  BY <1>8 DEF FlagsTrue
<1>12. CASE r = 0 \/ r = Log + 1
  <2>1. \/ r = 0 /\ w = ClearFlags(v, Phase(e))
        \/ r = Log + 1 /\ w = ClearFlags(v, 1 - Phase(e))
    BY <1>1, <1>3, <1>12 DEF IsStore, IsClear
  <2>2. w.of = v /\ w.slots = Slots /\ w.to = 0
    BY <2>1 DEF ClearFlags
  <2>3. CASE t # v
    <3>1. hot'[t][ph][s] = hot[t][ph][s] /\ hot'[t][1 - ph][s] = hot[t][1 - ph][s]
      BY <1>1, <1>10, <2>2, <2>3
    <3>2. Drained(t)' = Drained(t)
      BY <1>1, <2>3
    <3> QED
      BY <1>6, <1>7, <1>11, <3>1, <3>2
  <2>4. CASE t = v /\ r = 0
    <3>1. w.phase = ph
      BY <1>2, <2>1, <2>4 DEF ClearFlags
    <3>2. hot'[t][ph][s] = 0
      BY <1>1, <1>10, <2>2, <2>4, <3>1
    <3>3. ~ (Drained(t)' >= Log + 1)
      BY <1>2, <1>3, <2>4
    <3> QED
      BY <3>2, <3>3
  <2>5. CASE t = v /\ r = Log + 1
    <3>1. w.phase = 1 - ph
      BY <1>2, <2>1, <2>5 DEF ClearFlags
    <3>2. hot'[t][1 - ph][s] = 0 /\ hot'[t][ph][s] = hot[t][ph][s]
      BY <1>1, <1>10, <2>2, <2>5, <3>1
    <3>3. Drained(t) >= 0
      BY <1>2, <1>3, <2>5
    <3> QED
      BY <1>6, <1>11, <3>2, <3>3
  <2> QED
    BY <1>12, <2>3, <2>4, <2>5
<1>13. ASSUME NEW z \in Slots, r = 1 + z \/ r = Log + 2 + z
       PROVE  /\ Drained(t)' >= 0 /\ hot'[t][Phase(e64[t])][s] # 0 => Now(x, t, s)'
              /\ Drained(t)' >= Log + 1 /\ hot'[t][1 - Phase(e64[t])][s] # 0
                   => Ahead(x, t, s)'
  <2> DEFINE p == IF r = 1 + z THEN 1 - Phase(e) ELSE Phase(e)
             of == Place(v + Step(z))
  <2>1. w.of = of /\ w.slots = {z} /\ w.phase = p
    <3>1. w = SetFlag(of, p, z, w.to)
      BY <1>1, <1>3, <1>13 DEF IsStore, IsSet
    <3> HIDE DEF p, of
    <3>2. SetFlag(of, p, z, w.to).of = of /\ SetFlag(of, p, z, w.to).slots = {z}
          /\ SetFlag(of, p, z, w.to).phase = p
      BY DEF SetFlag
    <3> QED
      BY <3>1, <3>2
  <2>2. Signals(v, of, z) /\ of \in Threads /\ of # v
    <3>1. Signals(v, of, z) /\ of \in Threads
      BY SignalsFrom DEF Signals
    <3> QED
      BY <3>1, SignalsFrom
  <2> HIDE DEF p, of
  <2>3. CASE t = v
    <3>1. hot'[t][ph][s] = hot[t][ph][s] /\ hot'[t][1 - ph][s] = hot[t][1 - ph][s]
      BY <1>1, <1>10, <2>1, <2>2, <2>3
    <3>2. /\ Drained(t)' >= 0 => Drained(t) >= 0
          /\ Drained(t)' >= Log + 1 => Drained(t) >= Log + 1
      <4>1. PICK d \in Int : d = Drained(v)
        BY <1>3
      <4>2. r = d + 1 /\ z >= 0 /\ z <= Log - 1 /\ z \in Int
        BY <1>2, <1>3, <4>1
      <4>3. (r >= 0 => d >= 0) /\ (r >= Log + 1 => d >= Log + 1)
        BY <1>2, <1>13, <4>2
      <4> QED
        BY <1>3, <2>3, <4>1, <4>3
    <3> QED
      BY <1>6, <1>7, <1>11, <3>1, <3>2
  <2>4. CASE t # v /\ (of # t \/ s # z)
    <3>1. hot'[t][ph][s] = hot[t][ph][s] /\ hot'[t][1 - ph][s] = hot[t][1 - ph][s]
      BY <1>1, <1>10, <2>1, <2>4
    <3>2. Drained(t)' = Drained(t)
      BY <1>1, <2>4
    <3> QED
      BY <1>6, <1>7, <1>11, <3>1, <3>2
  <2>5. CASE t # v /\ of = t /\ s = z
    <3>1. x = v /\ Before(v, t, z)
      <4>1. x = v
        BY <2>2, <2>5, SignalsFrom
      <4> QED
        BY <1>8, <2>2, <2>5, <4>1 DEF Passed
    <3>2. Drained(t)' = Drained(t) /\ Drained(v)' = r /\ e64' = e64
      BY <1>1, <1>3, <2>5
    <3>3. \/ hot'[t][ph][s] = hot[t][ph][s] /\ p = 1 - ph
          \/ hot'[t][1 - ph][s] = hot[t][1 - ph][s] /\ p = ph
      <4>1. p = ph \/ p = 1 - ph
        BY <1>4, <1>10 DEF p, Phases
      <4> QED
        BY <1>1, <1>10, <2>1, <4>1
    <3>4. CASE r = 1 + z
      <4>1. ~ Drained(v) >= 1 + z /\ ~ Drained(v) >= Log + 2 + z
        <5>1. PICK d \in Int : d = Drained(v)
          BY <1>3
        <5>2. r = d + 1 /\ z \in Int /\ Log \in Nat
          BY <1>2, <1>3, <5>1
        <5> QED
          BY <3>4, <5>1, <5>2
      <4>2. e = After(e64[t])
        BY <3>1, <4>1 DEF Before
      <4>3. p = ph
        BY <1>4, <1>10, <3>4, <4>2, EpochFacts DEF p
      <4>4. Now(v, t, z)'
        <5>1. Drained(v)' >= 1 + z
          BY <1>2, <3>2, <3>4
        <5> QED
          BY <3>2, <4>2, <5>1 DEF Now
      <4> QED
        BY <1>7, <1>10, <1>11, <2>5, <3>1, <3>2, <3>3, <4>3, <4>4
    <3>5. CASE r = Log + 2 + z
      <4>1. ~ Drained(v) >= Log + 2 + z
        <5>1. PICK d \in Int : d = Drained(v)
          BY <1>3
        <5>2. r = d + 1 /\ z \in Int /\ Log \in Nat
          BY <1>2, <1>3, <5>1
        <5> QED
          BY <3>5, <5>1, <5>2
      <4>2. p = Phase(e)
        BY <1>2, <3>5 DEF p
      <4>3. Drained(v)' >= Log + 2 + z
        BY <1>2, <3>2, <3>5
      <4>4. CASE e = e64[t]
        <5>1. Now(v, t, z)' /\ p = ph
          BY <3>2, <4>2, <4>3, <4>4 DEF Now
        <5> QED
          BY <1>7, <1>10, <1>11, <2>5, <3>1, <3>2, <3>3, <5>1
      <4>5. CASE e = After(e64[t])
        <5>1. Ahead(v, t, z)'
          BY <3>2, <4>3, <4>5 DEF Ahead
        <5>2. p = 1 - ph
          BY <1>4, <4>2, <4>5, EpochFacts
        <5> QED
          BY <1>6, <1>10, <1>11, <2>5, <3>1, <3>2, <3>3, <5>1, <5>2
      <4> QED
        BY <3>1, <4>1, <4>4, <4>5 DEF Before
    <3> QED
      BY <1>13, <3>4, <3>5
  <2> QED
    BY <2>3, <2>4, <2>5
<1> QED
  BY <1>9, <1>12, <1>13

(* A thread whose next flag is set knows of everyone that the flag covers. *)
LEMMA FlagTells ==
  ASSUME ConstantsOK, N > 1, TypeOK, Order, NEW v \in Threads, pc[v] = "in",
         Mine(v, Phase(e64[v]))[i[v]] # 0
  PROVE  /\ \A w \in Threads : Signals(w, v, i[v]) => Now(w, v, i[v])
         /\ \A u \in Threads : u # v /\ Covered(u, v, i[v] + 1) => Now(u, v, 0)
<1> DEFINE s == i[v]
<1>1. /\ Log \in Nat \ {0} /\ Slots = 0 .. Log - 1 /\ s \in Slots /\ s \in Nat
      /\ \A t \in Threads : i[t] \in Nat
  BY ConstantsAre DEF TypeOK
<1>2. BufferInOrder /\ FlagsTrue /\ HeardOf /\ Passed
  BY DEF Order
<1>3. Drained(v) >= 0 /\ hot[v][Phase(e64[v])][s] # 0
  BY <1>1, <1>2, MineMeans
<1>4. \A w \in Threads : Signals(w, v, s) => Now(w, v, s)
  BY <1>1, <1>2, <1>3 DEF FlagsTrue
<1>5. PICK w \in Threads : Signals(w, v, s)
  BY <1>1, SignalsFrom
<1>6. /\ \A t \in Threads : e64[t] \in EpochSet /\ Top(t) \in Nat /\ Drained(t) \in Int
      /\ \A t \in Threads : Drained(t) <= Top(t)
  BY RankFacts DEF TypeOK
<1>7. Now(w, v, s) /\ w # v
  <2>1. ~ Signals(v, v, s)
    BY <1>1, SignalsFrom
  <2> QED
    BY <1>4, <1>5, <2>1
<1> HIDE DEF s
<1>8. Now(w, v, 0)
  <2>1. (Drained(w) >= Log + 2 + s => Drained(w) >= Log + 2 + 0)
        /\ (Drained(w) >= 1 + s => Drained(w) >= 1 + 0)
    BY <1>1, <1>6
  <2> QED
    BY <1>7, <2>1 DEF Now
<1>9. ASSUME NEW u \in Threads, u # v, Covered(u, v, s + 1) PROVE Now(u, v, 0)
  <2>1. Covered(u, v, s) \/ Covered(u, w, s)
    BY <1>1, <1>5, <1>9, Doubling
  <2>2. CASE Covered(u, v, s)
    BY <1>2, <1>9, <2>2 DEF HeardOf, s
  <2>3. CASE u = w
    BY <1>8, <2>3
  <2>4. CASE Covered(u, w, s) /\ u # w
    <3>1. CASE e64[w] = e64[v] /\ Drained(w) >= Log + 2 + s
      <4>1. pc[w] = "in" /\ s <= i[w]
        <5>1. Top(w) >= Log + 2 + s
          BY <1>1, <1>6, <3>1
        <5>2. pc[w] = "in"
          <6>1. ~ (Log + 1 >= Log + 2 + s)
            BY <1>1
          <6> QED
            BY <5>1, <6>1, RankFacts DEF TypeOK
        <5>3. Top(w) = Log + 2 + i[w]
          BY <5>2, RankFacts
        <5> QED
          BY <1>1, <5>1, <5>2, <5>3
      <4>2. Covered(u, w, i[w])
        BY <1>1, <2>4, <4>1, CoveredMore
      <4>3. Now(u, w, 0)
        BY <1>2, <2>4, <4>1, <4>2 DEF HeardOf
      <4> QED
        BY <3>1, <4>3 DEF Now
    <3>2. CASE e64[w] = After(e64[v]) /\ Drained(w) >= 1 + s
      <4>1. Before(u, w, 0) /\ Before(u, v, 0)
        BY <1>2, <1>9, <2>4 DEF HeardOf
      <4>2. CASE e64[u] = e64[w] /\ Drained(u) >= 1 + 0
        BY <3>2, <4>2 DEF Now
      <4>3. CASE e64[w] = After(e64[u]) /\ Drained(u) >= Log + 2 + 0
        <5>1. e64[u] = e64[v]
          BY <1>6, <3>2, <4>3, EpochFacts
        <5> QED
          BY <4>3, <5>1 DEF Now
      <4>4. CASE e64[u] = After(e64[w])
        <5>1. e64[u] = After(After(e64[v]))
          BY <3>2, <4>4
        <5>2. /\ e64[u] # e64[v] /\ e64[u] # After(e64[v])
              /\ e64[v] # After(e64[u])
          <6>1. After(e64[v]) \in EpochSet
            BY <1>6, EpochFacts
          <6>2. After(After(e64[v])) # e64[v] /\ After(After(After(e64[v]))) # e64[v]
            BY <1>6, EpochFacts
          <6>3. After(e64[v]) # After(After(e64[v]))
            BY <6>1, EpochFacts
          <6> HIDE DEF After
          <6> QED
            BY <5>1, <6>2, <6>3
        <5> QED
          BY <4>1, <5>2 DEF Before
      <4> QED
        BY <4>1, <4>2, <4>3, <4>4 DEF Before
    <3> QED
      BY <1>7, <3>1, <3>2 DEF Now
  <2> QED
    BY <2>1, <2>2, <2>3, <2>4
<1> QED
  BY <1>4, <1>9 DEF s

(* When the last flag is set, everyone has begun; and the thread's own     *)
(* stores of the barrier before are in memory, for its neighbours have     *)
(* seen them.                                                              *)
LEMMA LastFlagTells ==
  ASSUME ConstantsOK, N > 1, TypeOK, Order, NEW v \in Threads, pc[v] = "in",
         i[v] = Log - 1, Mine(v, Phase(e64[v]))[Log - 1] # 0
  PROVE  /\ \A w \in Threads, s \in Slots : Signals(w, v, s) => Now(w, v, s)
         /\ \A u \in Threads : u # v => Now(u, v, 0)
         /\ \A u \in Threads : u # v => e64[u] = e64[v] \/ e64[u] = After(e64[v])
         /\ Drained(v) >= Log
<1>1. /\ Log \in Nat \ {0} /\ Slots = 0 .. Log - 1 /\ Log - 1 \in Slots /\ (Log - 1) + 1 = Log
  BY ConstantsAre
<1>2. /\ \A w \in Threads : Signals(w, v, Log - 1) => Now(w, v, Log - 1)
      /\ \A u \in Threads : u # v /\ Covered(u, v, Log) => Now(u, v, 0)
  BY <1>1, FlagTells
<1>3. ASSUME NEW w \in Threads, NEW s \in Slots, Signals(w, v, s) PROVE Now(w, v, s)
  <2>1. CASE s = Log - 1
    BY <1>2, <1>3, <2>1
  <2>2. CASE s # Log - 1
    <3>1. s < i[v]
      BY <1>1, <2>2
    <3> QED
      BY <1>3, <3>1 DEF Order, Passed
  <2> QED
    BY <2>1, <2>2
<1>4. \A u \in Threads : u # v => Now(u, v, 0)
  BY <1>2, CoveredEnds
<1>5. \A u \in Threads : u # v => e64[u] = e64[v] \/ e64[u] = After(e64[v])
  BY <1>4 DEF Now
<1>6. Drained(v) >= Log
  <2> DEFINE t == Place(v + Step(Log - 1))
  <2>1. t \in Threads /\ Signals(v, t, Log - 1)
    BY <1>1, SignalsFrom DEF Signals
  <2>2. t # v
    BY <1>1, <2>1, SignalsFrom
  <2> HIDE DEF t
  <2>3. Before(v, t, Log - 1)
    BY <1>1, <2>1 DEF Order, Passed
  <2>4. \A u \in Threads : e64[u] \in EpochSet /\ Drained(u) \in Int
    BY RankFacts DEF TypeOK
  <2>5. e64[v] # After(e64[t])
    <3>1. CASE e64[t] = e64[v]
      BY <2>1, <2>4, <3>1, EpochFacts
    <3>2. CASE e64[t] = After(e64[v])
      BY <2>1, <2>4, <3>2, EpochFacts
    <3> QED
      BY <1>5, <2>1, <2>2, <3>1, <3>2
  <2>6. Drained(v) >= 1 + (Log - 1) \/ Drained(v) >= Log + 2 + (Log - 1)
    BY <2>3, <2>5 DEF Before
  <2> QED
    BY <1>1, <2>4, <2>6
<1> QED
  BY <1>3, <1>4, <1>5, <1>6

-----------------------------------------------------------------------------
(* Each action keeps the invariant.                                        *)
LEMMA DrainKeeps ==
  ASSUME ConstantsOK, N > 1, TypeOK, Order, NEW v \in Threads, Drain(v)
  PROVE  TypeOK' /\ Order'
<1>1. /\ TypeOK' /\ BufferInOrder' /\ UNCHANGED <<pc, i, e64>>
      /\ \A u \in Threads : Drained(u)' = Drained(u) \/ Drained(u)' = Drained(u) + 1
  BY DrainEffect DEF Order
<1>2. FlagsTrue'
  BY DrainKeepsFlags
<1>3. /\ \A x, t \in Threads, s \in Slots : Now(x, t, s) => Now(x, t, s)'
      /\ \A x, t \in Threads, s \in Slots : Before(x, t, s) => Before(x, t, s)'
  BY <1>1, KnowledgeGrows
<1>4. 0 \in Slots
  BY ConstantsAre
<1>5. HeardOf'
  BY <1>1, <1>3, <1>4 DEF Order, HeardOf
<1>6. Passed'
  BY <1>1, <1>3 DEF Order, Passed
<1> QED
  BY <1>1, <1>2, <1>5, <1>6 DEF Order

(* While memory and epochs stay, only what t newly relies on is to be      *)
(* shown.                                                                  *)
LEMMA KnowledgeStays ==
  ASSUME e64' = e64, \A u \in Threads : Drained(u)' = Drained(u),
         NEW v \in Threads, NEW t \in Threads, NEW s
  PROVE  /\ Now(v, t, s)' <=> Now(v, t, s)
         /\ Ahead(v, t, s)' <=> Ahead(v, t, s)
         /\ Before(v, t, s)' <=> Before(v, t, s)
  BY DEF Now, Ahead, Before

LEMMA BeginKeeps ==
  ASSUME ConstantsOK, N > 1, TypeOK, Order, NEW v \in Threads, NEW or_in \in BOOLEAN,
         Begin(v, or_in)
  PROVE  TypeOK' /\ Order'
<1>1. /\ TypeOK' /\ BufferInOrder' /\ e64' = e64 /\ hot' = hot
      /\ pc[v] = "out" /\ pc'[v] = "in" /\ i'[v] = 0
      /\ \A u \in Threads : u # v => pc'[u] = pc[u] /\ i'[u] = i[u]
      /\ \A u \in Threads : Drained(u)' = Drained(u)
  BY BeginEffect DEF Order
<1>2. /\ \A x, t \in Threads, s \in Slots : Now(x, t, s)' <=> Now(x, t, s)
      /\ \A x, t \in Threads, s \in Slots : Ahead(x, t, s)' <=> Ahead(x, t, s)
      /\ \A x, t \in Threads, s \in Slots : Before(x, t, s)' <=> Before(x, t, s)
  BY <1>1, KnowledgeStays
<1>3. 0 \in Slots
  BY ConstantsAre
<1>4. FlagsTrue'
  BY <1>1, <1>2 DEF Order, FlagsTrue
<1>5. HeardOf'
  <2> SUFFICES ASSUME NEW t \in Threads, NEW u \in Threads, u # t
               PROVE  /\ pc'[t] = "in" /\ Covered(u, t, i'[t]) => Now(u, t, 0)'
                      /\ Before(u, t, 0)'
    BY DEF HeardOf, Covered
  <2>1. Before(u, t, 0)'
    BY <1>2, <1>3 DEF Order, HeardOf
  <2>2. CASE t = v
    <3>1. ~ Covered(u, t, i'[t])
      BY <1>1, <2>2, CoveredEnds
    <3> QED
      BY <2>1, <3>1
  <2>3. CASE t # v
    BY <1>1, <1>2, <1>3, <2>1, <2>3 DEF Order, HeardOf
  <2> QED
    BY <2>2, <2>3
<1>6. Passed'
  <2>1. \A s \in Slots : ~ s < 0
    BY ConstantsAre
  <2> QED
    BY <1>1, <1>2, <2>1 DEF Order, Passed, Signals
<1> QED
  BY <1>1, <1>4, <1>5, <1>6 DEF Order

LEMMA PassKeeps ==
  ASSUME ConstantsOK, N > 1, TypeOK, Order, NEW v \in Threads, Pass(v)
  PROVE  TypeOK' /\ Order'
<1>1. /\ TypeOK' /\ BufferInOrder' /\ e64' = e64 /\ hot' = hot /\ pc' = pc
      /\ pc[v] = "in" /\ i'[v] = i[v] + 1
      /\ Mine(v, Phase(e64[v]))[i[v]] # 0
      /\ \A u \in Threads : u # v => i'[u] = i[u]
      /\ \A u \in Threads : Drained(u)' = Drained(u)
  BY PassEffect DEF Order
<1>2. /\ \A x, t \in Threads, s \in Slots : Now(x, t, s)' <=> Now(x, t, s)
      /\ \A x, t \in Threads, s \in Slots : Ahead(x, t, s)' <=> Ahead(x, t, s)
      /\ \A x, t \in Threads, s \in Slots : Before(x, t, s)' <=> Before(x, t, s)
  BY <1>1, KnowledgeStays
<1>3. 0 \in Slots /\ i[v] \in Slots /\ Slots \subseteq Nat
  BY ConstantsAre DEF TypeOK
<1>4. FlagsTrue'
  BY <1>1, <1>2 DEF Order, FlagsTrue
<1>5. /\ \A w \in Threads : Signals(w, v, i[v]) => Now(w, v, i[v])
      /\ \A u \in Threads : u # v /\ Covered(u, v, i[v] + 1) => Now(u, v, 0)
  BY <1>1, FlagTells
<1>6. HeardOf'
  <2> SUFFICES ASSUME NEW t \in Threads, NEW u \in Threads, u # t
               PROVE  /\ pc'[t] = "in" /\ Covered(u, t, i'[t]) => Now(u, t, 0)'
                      /\ Before(u, t, 0)'
    BY DEF HeardOf, Covered
  <2>1. Before(u, t, 0)'
    BY <1>2, <1>3 DEF Order, HeardOf
  <2>2. CASE t = v
    BY <1>1, <1>2, <1>3, <1>5, <2>1, <2>2
  <2>3. CASE t # v
    BY <1>1, <1>2, <1>3, <2>1, <2>3 DEF Order, HeardOf
  <2> QED
    BY <2>2, <2>3
<1>7. Passed'
  <2> SUFFICES ASSUME NEW t \in Threads, NEW w \in Threads, NEW s \in Slots, Signals(w, t, s)
               PROVE  /\ pc'[t] = "in" /\ s < i'[t] => Now(w, t, s)'
                      /\ Before(w, t, s)'
    BY DEF Passed, Signals
  <2>1. Before(w, t, s)'
    BY <1>2 DEF Order, Passed
  <2>2. CASE t = v
    <3>1. s < i'[t] => s = i[v] \/ s < i[v]
      BY <1>1, <1>3, <2>2
    <3> QED
      BY <1>1, <1>2, <1>5, <2>1, <2>2, <3>1 DEF Order, Passed
  <2>3. CASE t # v
    BY <1>1, <1>2, <2>1, <2>3 DEF Order, Passed
  <2> QED
    BY <2>2, <2>3
<1> QED
  BY <1>1, <1>4, <1>6, <1>7 DEF Order

LEMMA TryEndKeeps ==
  ASSUME ConstantsOK, N > 1, TypeOK, Order, NEW v \in Threads, TryEnd(v)
  PROVE  TypeOK' /\ Order'
<1>1. /\ pc[v] = "in" /\ i[v] = Log - 1 /\ Mine(v, Phase(e64[v]))[Log - 1] # 0
  BY DEF TryEnd, Arrived
<1>2. /\ \A w \in Threads, s \in Slots : Signals(w, v, s) => Now(w, v, s)
      /\ \A u \in Threads : u # v => Now(u, v, 0)
      /\ \A u \in Threads : u # v => e64[u] = e64[v] \/ e64[u] = After(e64[v])
      /\ Drained(v) >= Log
  BY <1>1, LastFlagTells
<1>3. /\ TypeOK' /\ BufferInOrder' /\ i' = i /\ hot' = hot
      /\ pc'[v] = "out" /\ e64'[v] = After(e64[v])
      /\ Drained(v)' = Drained(v) - (Log + 1)
      /\ \A u \in Threads : u # v => /\ pc'[u] = pc[u] /\ e64'[u] = e64[u]
                                     /\ Drained(u)' = Drained(u)
  BY <1>2, TryEndEffect DEF Order
<1>4. /\ Log \in Nat \ {0} /\ Slots = 0 .. Log - 1 /\ 0 \in Slots
      /\ \A u \in Threads : e64[u] \in EpochSet /\ Drained(u) \in Int
  BY ConstantsAre, RankFacts DEF TypeOK
(* The ranks of v move back by Log + 1.                                    *)
<1>5. ASSUME NEW s \in Slots
      PROVE  /\ Drained(v) >= Log + 2 + s => Drained(v)' >= 1 + s
             /\ Drained(v) >= 1 + s \/ Drained(v) >= Log + 2 + s => Drained(v) >= 1 + s
  <2>1. PICK d \in Int : d = Drained(v)
    BY <1>4
  <2>2. PICK dd \in Int : dd = Drained(v)'
    BY <1>3, <1>4
  <2>3. dd = d - (Log + 1)
    BY <1>3, <2>1, <2>2
  <2>4. (d >= Log + 2 + s => dd >= 1 + s) /\ (d >= Log + 2 + s => d >= 1 + s)
    BY <1>4, <2>3
  <2> QED
    BY <2>1, <2>2, <2>4
<1>6. Drained(v)' >= 0 => Drained(v) >= Log + 1
  <2>1. PICK d \in Int : d = Drained(v)
    BY <1>4
  <2>2. PICK dd \in Int : dd = Drained(v)'
    BY <1>3, <1>4
  <2>3. dd = d - (Log + 1)
    BY <1>3, <2>1, <2>2
  <2>4. dd >= 0 => d >= Log + 1
    BY <1>4, <2>3
  <2> QED
    BY <2>1, <2>2, <2>4
<1>7. ~ Drained(v)' >= Log + 1
  <2>1. PICK d \in Int : d = Drained(v)
    BY <1>4
  <2>2. PICK dd \in Int : dd = Drained(v)'
    BY <1>3, <1>4
  <2>3. dd = d - (Log + 1) /\ d <= Log + Log + 1
    BY <1>3, <1>4, <2>1, <2>2, RankFacts
  <2>4. ~ dd >= Log + 1
    BY <1>4, <2>3
  <2> QED
    BY <2>2, <2>4
(* No one is behind v.                                                     *)
<1>8. \A u \in Threads : u # v => e64[v] # After(e64[u])
  BY <1>2, <1>4, EpochFacts
(* What others know of v stays true.                                       *)
<1>9. ASSUME NEW t \in Threads, t # v, NEW s \in Slots
      PROVE  /\ Now(v, t, s) => Now(v, t, s)'
             /\ ~ Ahead(v, t, s)
             /\ Before(v, t, s) => Before(v, t, s)'
  <2>1. Now(v, t, s) => Now(v, t, s)'
    BY <1>3, <1>5, <1>8, <1>9 DEF Now
  <2>2. Before(v, t, s) => Before(v, t, s)'
    BY <1>3, <1>5, <1>8, <1>9 DEF Before
  <2> QED
    BY <1>8, <1>9, <2>1, <2>2 DEF Ahead
<1>10. ASSUME NEW t \in Threads, t # v, NEW u \in Threads, u # v, NEW s \in Slots
       PROVE  /\ Now(u, t, s) => Now(u, t, s)'
              /\ Ahead(u, t, s) => Ahead(u, t, s)'
              /\ Before(u, t, s) => Before(u, t, s)'
  BY <1>3, <1>10 DEF Now, Ahead, Before
(* What v knows of this barrier it now knows of the barrier before.        *)
<1>11. ASSUME NEW u \in Threads, u # v, NEW s \in Slots
       PROVE  /\ Now(u, v, s) => Before(u, v, s)'
              /\ Ahead(u, v, s) => Now(u, v, s)'
  BY <1>3, <1>11 DEF Now, Ahead, Before
<1>12. FlagsTrue'
  <2> SUFFICES ASSUME NEW t \in Threads, NEW x \in Threads, NEW s \in Slots, Signals(x, t, s)
               PROVE  /\ Drained(t)' >= 0 /\ hot[t][Phase(e64'[t])][s] # 0 => Now(x, t, s)'
                      /\ Drained(t)' >= Log + 1 /\ hot[t][1 - Phase(e64'[t])][s] # 0
                           => Ahead(x, t, s)'
    BY <1>3 DEF FlagsTrue, Signals
  <2>1. /\ Drained(t) >= 0 /\ hot[t][Phase(e64[t])][s] # 0 => Now(x, t, s)
        /\ Drained(t) >= Log + 1 /\ hot[t][1 - Phase(e64[t])][s] # 0 => Ahead(x, t, s)
    BY DEF Order, FlagsTrue
  <2>2. CASE t = v
    <3>1. x # v
      BY <2>2, SignalsFrom
    <3>2. Phase(e64'[t]) = 1 - Phase(e64[t])
      BY <1>3, <1>4, <2>2, EpochFacts
    <3> QED
      BY <1>6, <1>7, <1>11, <2>1, <2>2, <3>1, <3>2
  <2>3. CASE t # v
    <3>1. Drained(t)' = Drained(t) /\ e64'[t] = e64[t]
      BY <1>3, <2>3
    <3> QED
      BY <1>9, <1>10, <2>1, <2>3, <3>1
  <2> QED
    BY <2>2, <2>3
<1>13. HeardOf'
  <2> SUFFICES ASSUME NEW t \in Threads, NEW u \in Threads, u # t
               PROVE  /\ pc'[t] = "in" /\ Covered(u, t, i'[t]) => Now(u, t, 0)'
                      /\ Before(u, t, 0)'
    BY DEF HeardOf, Covered
  <2>1. CASE t = v
    BY <1>2, <1>3, <1>4, <1>11, <2>1
  <2>2. CASE t # v
    <3>1. (pc[t] = "in" /\ Covered(u, t, i[t]) => Now(u, t, 0)) /\ Before(u, t, 0)
      BY DEF Order, HeardOf
    <3> QED
      BY <1>3, <1>4, <1>9, <1>10, <2>2, <3>1
  <2> QED
    BY <2>1, <2>2
<1>14. Passed'
  <2> SUFFICES ASSUME NEW t \in Threads, NEW w \in Threads, NEW s \in Slots, Signals(w, t, s)
               PROVE  /\ pc'[t] = "in" /\ s < i'[t] => Now(w, t, s)'
                      /\ Before(w, t, s)'
    BY DEF Passed, Signals
  <2>1. w # t
    BY SignalsFrom
  <2>2. CASE t = v
    BY <1>2, <1>3, <1>11, <2>1, <2>2
  <2>3. CASE t # v
    <3>1. (pc[t] = "in" /\ s < i[t] => Now(w, t, s)) /\ Before(w, t, s)
      BY DEF Order, Passed
    <3> QED
      BY <1>3, <1>9, <1>10, <2>3, <3>1
  <2> QED
    BY <2>2, <2>3
<1> QED
  BY <1>3, <1>12, <1>13, <1>14 DEF Order

-----------------------------------------------------------------------------
(* The invariant.  A thread alone waits for no flag.                       *)
Inv == TypeOK /\ (N > 1 => Order)

LEMMA InitInv ==
  ASSUME ConstantsOK, Init
  PROVE  Inv
<1>1. /\ Log \in Nat \ {0} /\ Slots = 0 .. Log - 1 /\ 0 \in Slots
      /\ 0 \in EpochSet /\ EpochMod \in Nat
  BY ConstantsAre DEF ConstantsOK, EpochSet
<1>2. TypeOK
  <2>1. Zeros \in [Slots -> Int] /\ <<>> \in Seq(Store)
    BY DEF Zeros
  <2> QED
    BY <1>1, <2>1 DEF Init, TypeOK, Phases
<1>3. ASSUME NEW u \in Threads
      PROVE  /\ pc[u] = "out" /\ e64[u] = 0 /\ Len(buffer[u]) = 0
             /\ Top(u) = Log + 1 /\ Drained(u) = Log + 1
             /\ \A ph \in Phases, s \in Slots : hot[u][ph][s] = 0
  <2>1. pc[u] = "out" /\ e64[u] = 0 /\ buffer[u] = <<>>
    BY DEF Init
  <2>2. Len(buffer[u]) = 0
    BY <2>1
  <2>3. Top(u) = Log + 1
    BY <2>1 DEF Top
  <2>4. Drained(u) = Log + 1
    BY <1>1, <2>2, <2>3 DEF Drained
  <2>5. \A ph \in Phases, s \in Slots : hot[u][ph][s] = 0
    BY DEF Init, Zeros
  <2> QED
    BY <2>1, <2>2, <2>3, <2>4, <2>5
<1>4. BufferInOrder
  BY <1>1, <1>3 DEF BufferInOrder
<1>5. ASSUME NEW u \in Threads, NEW t \in Threads, NEW s \in Slots
      PROVE  Before(u, t, s)
  BY <1>1, <1>3 DEF Before
<1>6. FlagsTrue
  <2>1. \A t \in Threads : Phase(e64[t]) \in Phases /\ 1 - Phase(e64[t]) \in Phases
    BY <1>1, <1>3, EpochFacts
  <2> QED
    BY <1>3, <2>1 DEF FlagsTrue
<1>7. HeardOf /\ Passed
  BY <1>1, <1>3, <1>5 DEF HeardOf, Passed
<1> QED
  BY <1>2, <1>4, <1>6, <1>7 DEF Inv, Order

LEMMA UnchangedKeeps ==
  ASSUME Inv, UNCHANGED vars
  PROVE  Inv'
<1>1. /\ pc' = pc /\ i' = i /\ e64' = e64 /\ or_acc' = or_acc /\ hot' = hot
      /\ buffer' = buffer /\ given' = given
  BY DEF vars
<1>2. TypeOK'
  BY <1>1 DEF Inv, TypeOK
<1>3. \A u : Drained(u)' = Drained(u)
  BY <1>1 DEF Drained, Top
<1>4. /\ \A x, t, s : Now(x, t, s)' <=> Now(x, t, s)
      /\ \A x, t, s : Ahead(x, t, s)' <=> Ahead(x, t, s)
      /\ \A x, t, s : Before(x, t, s)' <=> Before(x, t, s)
  BY <1>1, <1>3 DEF Now, Ahead, Before
<1>5. ASSUME Order PROVE Order'
  <2>1. BufferInOrder'
    BY <1>1, <1>3, <1>5 DEF Order, BufferInOrder
  <2>2. FlagsTrue'
    BY <1>1, <1>3, <1>4, <1>5 DEF Order, FlagsTrue
  <2>3. HeardOf'
    BY <1>1, <1>4, <1>5 DEF Order, HeardOf
  <2>4. Passed'
    BY <1>1, <1>4, <1>5 DEF Order, Passed
  <2> QED
    BY <2>1, <2>2, <2>3, <2>4 DEF Order
<1> QED
  BY <1>2, <1>5 DEF Inv

(* A thread alone: its types are all there is to keep.                     *)
LEMMA AloneKeeps ==
  ASSUME ConstantsOK, ~ N > 1, TypeOK, NEW t \in Threads, ThreadStep(t) \/ Drain(t)
  PROVE  TypeOK'
<1>1. /\ 0 \in Slots /\ Phase(e64[t]) \in Phases /\ e64[t] \in EpochSet
      /\ (t + 1) % N \in Threads
  <2>1. 0 \in Slots /\ t + 1 \in Int
    BY ConstantsAre
  <2>2. e64[t] \in EpochSet
    BY DEF TypeOK
  <2>3. Phase(e64[t]) \in Phases
    BY <2>2, EpochFacts
  <2>4. Place(t + 1) \in Threads
    BY <2>1, PlaceFacts
  <2> QED
    BY <2>1, <2>2, <2>3, <2>4 DEF Place
<1>2. buffer[t] \in Seq(Store)
  BY DEF TypeOK
<1>3. CASE \E or_in \in BOOLEAN : Begin(t, or_in)
  <2>1. PICK or_in \in BOOLEAN : Begin(t, or_in)
    BY <1>3
  <2> DEFINE w == SetFlag((t + 1) % N, Phase(e64[t]), 0, FlagOf(or_in))
  <2>2. FlagOf(or_in) \in Int /\ (t + 1) % N \in Threads
    BY <1>1 DEF FlagOf
  <2>3. w \in Store
    BY <1>1, <2>2, StoreTypes
  <2>4. Append(buffer[t], w) \in Seq(Store)
    BY <1>2, <2>3
  <2>5. buffer' = [buffer EXCEPT ![t] = Append(@, w)]
    BY <2>1 DEF Begin
  <2> HIDE DEF w
  <2>6. buffer' \in [Threads -> Seq(Store)]
    BY <2>4, <2>5 DEF TypeOK
  <2> QED
    BY <1>1, <2>1, <2>2, <2>6 DEF TypeOK, Begin
<1>4. CASE Pass(t)
  BY <1>4 DEF Pass
<1>5. CASE TryEnd(t)
  <2> DEFINE w == ClearFlags(t, Phase(e64[t]))
  <2>1. w \in Store
    BY <1>1, StoreTypes
  <2>2. Append(buffer[t], w) \in Seq(Store)
    BY <1>2, <2>1
  <2>3. /\ buffer' = [buffer EXCEPT ![t] = Append(@, w)]
        /\ or_acc' = [or_acc EXCEPT ![t][Phase(e64[t])] = @ - 1]
        /\ e64' = [e64 EXCEPT ![t] = After(@)]
        /\ pc' = [pc EXCEPT ![t] = "out"]
        /\ UNCHANGED <<i, hot, given>>
    BY <1>5 DEF TryEnd, After
  <2> HIDE DEF w
  <2>4. buffer' \in [Threads -> Seq(Store)]
    BY <2>2, <2>3 DEF TypeOK
  <2>5. or_acc[t][Phase(e64[t])] - 1 \in Int /\ After(e64[t]) \in EpochSet
    BY <1>1, EpochFacts DEF TypeOK
  <2> QED
    BY <1>1, <2>3, <2>4, <2>5 DEF TypeOK
<1>6. CASE Drain(t)
  <2> DEFINE w == Head(buffer[t])
  <2>1. /\ buffer[t] # <<>>
        /\ hot' = [hot EXCEPT ![w.of][w.phase] = Stored(@, w)]
        /\ buffer' = [buffer EXCEPT ![t] = Tail(@)]
        /\ UNCHANGED <<pc, i, e64, or_acc, given>>
    BY <1>6 DEF Drain
  <2>2. w \in Store /\ Tail(buffer[t]) \in Seq(Store)
    BY <1>2, <2>1
  <2> HIDE DEF w
  <2>3. w.of \in Threads /\ w.phase \in Phases
    BY <2>2 DEF Store
  <2>4. Stored(hot[w.of][w.phase], w) \in [Slots -> Int]
    <3>1. hot[w.of][w.phase] \in [Slots -> Int]
      BY <2>3 DEF TypeOK
    <3> QED
      BY <2>2, <3>1, StoredType
  <2> QED
    BY <2>1, <2>2, <2>3, <2>4 DEF TypeOK
<1> QED
  BY <1>3, <1>4, <1>5, <1>6 DEF ThreadStep

LEMMA NextKeeps ==
  ASSUME ConstantsOK, Inv, [Next]_vars
  PROVE  Inv'
<1>1. CASE UNCHANGED vars
  BY <1>1, UnchangedKeeps
<1>2. CASE Next
  <2>1. PICK t \in Threads : ThreadStep(t) \/ Spin(t) \/ Drain(t)
    BY <1>2 DEF Next
  <2>2. CASE Spin(t)
    BY <2>2, UnchangedKeeps DEF Spin
  <2>3. CASE ~ N > 1 /\ (ThreadStep(t) \/ Drain(t))
    BY <2>3, AloneKeeps DEF Inv
  <2>4. CASE N > 1 /\ ThreadStep(t)
    <3>1. TypeOK /\ Order
      BY <2>4 DEF Inv
    <3>2. CASE \E or_in \in BOOLEAN : Begin(t, or_in)
      BY <2>4, <3>1, <3>2, BeginKeeps DEF Inv
    <3>3. CASE Pass(t)
      BY <2>4, <3>1, <3>3, PassKeeps DEF Inv
    <3>4. CASE TryEnd(t)
      BY <2>4, <3>1, <3>4, TryEndKeeps DEF Inv
    <3> QED
      BY <2>4, <3>2, <3>3, <3>4 DEF ThreadStep
  <2>5. CASE N > 1 /\ Drain(t)
    BY <2>5, DrainKeeps DEF Inv
  <2> QED
    BY <2>1, <2>2, <2>3, <2>4, <2>5
<1> QED
  BY <1>1, <1>2

-----------------------------------------------------------------------------
THEOREM Invariance ==
  ASSUME ConstantsOK
  PROVE  Spec => []Inv
<1>1. Init => Inv
  BY InitInv
<1>2. Inv /\ [Next]_vars => Inv'
  BY NextKeeps
<1> QED
  BY <1>1, <1>2, PTL DEF Spec

(* The barrier that barrier_state implements.                              *)
Began == [t \in Threads |-> pc[t] = "in"]

LEMMA EndIsAllowed ==
  ASSUME ConstantsOK, Inv, NEW t \in Threads, TryEnd(t)
  PROVE  B!EveryoneBegan(t)
<1>1. pc[t] = "in"
  BY DEF TryEnd
<1>2. ASSUME NEW u \in Threads, u # t
      PROVE  (e64[u] = e64[t] /\ pc[u] = "in") \/ e64[u] = After(e64[t])
  <2>0. N > 1
    BY <1>2, ConstantsAre
  <2>1. TypeOK /\ Order /\ i[t] = Log - 1 /\ Mine(t, Phase(e64[t]))[Log - 1] # 0
    BY <2>0 DEF Inv, TryEnd, Arrived
  <2>2. Now(u, t, 0)
    BY <1>1, <1>2, <2>0, <2>1, LastFlagTells
  <2>3. CASE Drained(u) >= Log + 2 + 0 /\ e64[u] = e64[t]
    <3>1. Log \in Nat /\ Top(u) \in Nat /\ Drained(u) \in Int /\ Drained(u) <= Top(u)
          /\ (pc[u] = "out" => Top(u) = Log + 1) /\ pc[u] \in {"out", "in"}
      BY <2>1, ConstantsAre, RankFacts DEF TypeOK
    <3>2. pc[u] # "out"
      BY <2>3, <3>1
    <3> QED
      BY <2>3, <3>1, <3>2
  <2> QED
    BY <2>2, <2>3 DEF Now
<1> QED
  BY <1>1, <1>2 DEF B!EveryoneBegan, B!After, After

LEMMA RefinementStep ==
  ASSUME ConstantsOK, Inv, [Next]_vars
  PROVE  [B!Next]_(B!vars)
<1>1. CASE UNCHANGED <<pc, e64>>
  BY <1>1 DEF B!vars
<1>2. ASSUME NEW t \in Threads, NEW or_in \in BOOLEAN, Begin(t, or_in)
      PROVE  B!Begin(t)
  BY <1>2 DEF Begin, B!Begin, Inv, TypeOK
<1>3. ASSUME NEW t \in Threads, TryEnd(t)
      PROVE  B!End(t)
  <2>1. B!EveryoneBegan(t)
    BY <1>3, EndIsAllowed
  <2> QED
    BY <1>3, <2>1 DEF TryEnd, B!End, B!After, Inv, TypeOK
<1>4. CASE Next
  <2>1. PICK t \in Threads : ThreadStep(t) \/ Spin(t) \/ Drain(t)
    BY <1>4 DEF Next
  <2>2. CASE Spin(t) \/ Drain(t) \/ Pass(t)
    <3>1. UNCHANGED <<pc, e64>>
      BY <2>2 DEF Spin, Drain, Pass, vars
    <3> QED
      BY <1>1, <3>1
  <2> QED
    BY <1>2, <1>3, <2>1, <2>2 DEF ThreadStep, B!Next
<1> QED
  BY <1>1, <1>4 DEF vars

(* No thread ends a barrier that some thread has not begun, whatever the   *)
(* number of threads and however late their stores reach the memory.       *)
THEOREM BarrierIsImplemented ==
  ASSUME ConstantsOK
  PROVE  Spec => ImplementsBarrier
<1>1. Init => B!Init
  BY DEF Init, B!Init
<1>2. Inv /\ [Next]_vars => [B!Next]_(B!vars)
  BY RefinementStep
<1> QED
  BY <1>1, <1>2, Invariance, PTL DEF Spec, ImplementsBarrier, B!Spec

-----------------------------------------------------------------------------
(* The disjunction.  What u knows of after n flags: the disjunction of     *)
(* what the threads that they cover gave.  That is what u accumulates, and *)
(* what every flag of u that is on its way or in memory carries.           *)
Carried(g, u, ph, n) == FlagOf(\E x \in Threads : Covered(x, u, n) /\ g[x][ph])

SetsCarry ==
  \A u \in Threads : \A k \in 1 .. Len(buffer[u]), s \in Slots :
    Drained(u) + k = 1 + s \/ Drained(u) + k = Log + 2 + s
      => buffer[u][k].to = Carried(given, u, buffer[u][k].phase, s)
FlagsCarry ==
  \A t, v \in Threads, s \in Slots : Signals(v, t, s) =>
    /\ Drained(t) >= 0 =>
         hot[t][Phase(e64[t])][s] \in {0, Carried(given, v, Phase(e64[t]), s)}
    /\ Drained(t) >= Log + 1 =>
         hot[t][1 - Phase(e64[t])][s] \in {0, Carried(given, v, 1 - Phase(e64[t]), s)}
Accumulated ==
  \A t \in Threads :
    /\ pc[t] = "in" => or_acc[t][Phase(e64[t])] = Carried(given, t, Phase(e64[t]), i[t])
    /\ pc[t] = "out" => or_acc[t][1 - Phase(e64[t])]
                          = FlagOf(\E x \in Threads : given[x][1 - Phase(e64[t])]) - 1

OrInv == Inv /\ Accumulated /\ (N > 1 => SetsCarry /\ FlagsCarry)

(* Two flags together carry what either covers.                            *)
LEMMA CarriedDoubles ==
  ASSUME ConstantsOK, NEW t \in Threads, NEW v \in Threads, NEW s \in Slots,
         Signals(v, t, s), NEW ph
  PROVE  BitOr(Carried(given, t, ph, s), Carried(given, v, ph, s)) = Carried(given, t, ph, s + 1)
<1>1. (\E x \in Threads : Covered(x, t, s + 1) /\ given[x][ph])
        <=> \/ \E x \in Threads : Covered(x, t, s) /\ given[x][ph]
            \/ \E x \in Threads : Covered(x, v, s) /\ given[x][ph]
  BY Doubling
<1>2. \A a, b \in BOOLEAN : BitOr(FlagOf(a), FlagOf(b)) = FlagOf(a \/ b)
  BY DEF BitOr, FlagOf
<1> QED
  BY <1>1, <1>2 DEF Carried, FlagOf, BitOr

LEMMA CarriedByAll ==
  ASSUME ConstantsOK, NEW t \in Threads, NEW ph
  PROVE  /\ Carried(given, t, ph, Log) = FlagOf(\E x \in Threads : given[x][ph])
         /\ Carried(given, t, ph, 0) = FlagOf(given[t][ph])
<1>1. \A x \in Threads : Covered(x, t, Log) /\ (Covered(x, t, 0) <=> x = t)
  BY CoveredEnds
<1> QED
  BY <1>1 DEF Carried, FlagOf

(* A gift matters to those that cover its giver.                           *)
LEMMA CarriedStays ==
  ASSUME NEW g, NEW h, NEW u, NEW ph, NEW n,
         \A y \in Threads : Covered(y, u, n) => (g[y][ph] <=> h[y][ph])
  PROVE  Carried(g, u, ph, n) = Carried(h, u, ph, n)
<1>1. (\E y \in Threads : Covered(y, u, n) /\ g[y][ph])
        <=> (\E y \in Threads : Covered(y, u, n) /\ h[y][ph])
  OBVIOUS
<1> QED
  BY <1>1 DEF Carried, FlagOf

(* A thread between two barriers is level with the others, or they are in  *)
(* the barrier that it has ended, and it has heard of them.                *)
LEMMA OutKnows ==
  ASSUME ConstantsOK, N > 1, TypeOK, Order, NEW x \in Threads, pc[x] = "out",
         NEW u \in Threads, u # x
  PROVE  \/ e64[u] = e64[x]
         \/ e64[x] = After(e64[u]) /\ Drained(u) >= Log + 2 /\ pc[u] = "in"
<1>1. Log \in Nat /\ 0 \in Slots /\ \A t \in Threads : e64[t] \in EpochSet
  BY ConstantsAre DEF TypeOK
<1>2. Before(u, x, 0) /\ Before(x, u, 0)
  BY DEF Order, HeardOf
<1>3. ASSUME NEW t \in Threads, Drained(t) >= Log + 2 PROVE pc[t] = "in"
  <2>1. Top(t) \in Nat /\ Drained(t) \in Int /\ Drained(t) <= Top(t)
        /\ (pc[t] = "out" => Top(t) = Log + 1) /\ pc[t] \in {"out", "in"}
    BY RankFacts DEF TypeOK
  <2> QED
    BY <1>1, <1>3, <2>1
<1>4. CASE e64[u] = After(e64[x])
  <2>1. e64[x] # e64[u] /\ e64[x] # After(e64[u])
    BY <1>1, <1>4, EpochFacts
  <2>2. Drained(x) >= Log + 2 + 0
    BY <1>2, <2>1 DEF Before
  <2> QED
    BY <1>1, <1>3, <2>2
<1>5. CASE e64[x] = After(e64[u]) /\ Drained(u) >= Log + 2 + 0
  BY <1>1, <1>3, <1>5
<1> QED
  BY <1>2, <1>4, <1>5 DEF Before

(* A thread whose flags cover x has seen it begin.                         *)
LEMMA CoveredHasBegun ==
  ASSUME ConstantsOK, N > 1, TypeOK, Order, NEW x \in Threads, pc[x] = "out",
         NEW u \in Threads, pc[u] = "in", NEW s \in Slots, s <= i[u], Covered(x, u, s)
  PROVE  Phase(e64[x]) = 1 - Phase(e64[u])
<1>1. /\ Log \in Nat /\ s \in Nat /\ i[u] \in Nat /\ x # u
      /\ \A t \in Threads : e64[t] \in EpochSet
  BY ConstantsAre DEF TypeOK
<1>2. Covered(x, u, i[u])
  BY <1>1, CoveredMore
<1>3. Now(x, u, 0)
  BY <1>1, <1>2 DEF Order, HeardOf
<1>4. ~ Drained(x) >= Log + 2 + 0
  <2>1. Drained(x) \in Int /\ Drained(x) <= Log + 1
    BY RankFacts
  <2> QED
    BY <1>1, <2>1
<1>5. e64[x] = After(e64[u])
  BY <1>3, <1>4 DEF Now
<1> QED
  BY <1>1, <1>5, EpochFacts

(* The entries of a buffer to which a store was appended.                  *)
LEMMA AppendedEntries ==
  ASSUME ConstantsOK, TypeOK, NEW v \in Threads, NEW w \in Store,
         buffer' = [buffer EXCEPT ![v] = Append(@, w)],
         NEW u \in Threads, NEW k \in 1 .. Len(buffer'[u])
  PROVE  \/ k \in 1 .. Len(buffer[u]) /\ buffer'[u][k] = buffer[u][k]
         \/ u = v /\ k = Len(buffer[v]) + 1 /\ buffer'[u][k] = w
<1>1. buffer[v] \in Seq(Store) /\ buffer[u] \in Seq(Store)
  BY DEF TypeOK
<1>2. /\ Len(buffer[v]) \in Nat
      /\ Len(Append(buffer[v], w)) = Len(buffer[v]) + 1
      /\ \A j \in 1 .. Len(buffer[v]) : Append(buffer[v], w)[j] = buffer[v][j]
      /\ Append(buffer[v], w)[Len(buffer[v]) + 1] = w
  BY <1>1
<1>3. buffer'[v] = Append(buffer[v], w) /\ (u # v => buffer'[u] = buffer[u])
  BY DEF TypeOK
<1> QED
  BY <1>2, <1>3

(* The store of a set carries its value, and its phase is of its rank.     *)
LEMMA SetInBuffer ==
  ASSUME ConstantsOK, TypeOK, BufferInOrder, NEW u \in Threads, NEW k \in 1 .. Len(buffer[u]),
         NEW s \in Slots
  PROVE  /\ Drained(u) + k = 1 + s => buffer[u][k].phase = 1 - Phase(e64[u])
         /\ Drained(u) + k = Log + 2 + s
              => buffer[u][k].phase = Phase(e64[u]) /\ pc[u] = "in" /\ s <= i[u]
         /\ Drained(u) + k \in Int /\ Drained(u) + k > Drained(u) /\ Drained(u) + k <= Top(u)
<1>1. IsStore(buffer[u][k], u, e64[u], Drained(u) + k)
  BY DEF BufferInOrder
<1>2. \A t, ph, z, flag : SetFlag(t, ph, z, flag).phase = ph
  BY DEF SetFlag
<1>3. Drained(u) + k \in Int /\ Drained(u) + k > Drained(u) /\ Drained(u) + k <= Top(u)
  <2>1. Drained(u) \in Int /\ Len(buffer[u]) \in Nat /\ Top(u) \in Nat
        /\ Drained(u) + Len(buffer[u]) = Top(u)
    BY RankFacts
  <2> QED
    BY <2>1
<1>4. Drained(u) + k = Log + 2 + s => pc[u] = "in" /\ s <= i[u]
  <2>1. /\ Log \in Nat /\ s \in Nat /\ pc[u] \in {"out", "in"} /\ i[u] \in Nat
        /\ (pc[u] = "in" => Top(u) = Log + 2 + i[u]) /\ (pc[u] = "out" => Top(u) = Log + 1)
    BY ConstantsAre, RankFacts DEF TypeOK
  <2>2. PICK r \in Int : r = Drained(u) + k
    BY <1>3
  <2> QED
    BY <1>3, <2>1, <2>2
<1>5. Drained(u) + k = 1 + s => buffer[u][k].phase = 1 - Phase(e64[u])
  BY <1>1, <1>2 DEF IsStore, IsSet
<1>6. Drained(u) + k = Log + 2 + s => buffer[u][k].phase = Phase(e64[u])
  BY <1>1, <1>2 DEF IsStore, IsSet
<1> QED
  BY <1>3, <1>4, <1>5, <1>6

LEMMA BeginKeepsOr ==
  ASSUME ConstantsOK, N > 1, OrInv, NEW x \in Threads, NEW or_in \in BOOLEAN, Begin(x, or_in)
  PROVE  OrInv'
<1>1. TypeOK /\ Order /\ Accumulated /\ SetsCarry /\ FlagsCarry /\ BufferInOrder
  BY DEF OrInv, Inv, Order
<1>2. TypeOK' /\ Order'
  BY <1>1, BeginKeeps
<1>3. /\ e64' = e64 /\ hot' = hot
      /\ pc[x] = "out" /\ pc'[x] = "in" /\ i'[x] = 0
      /\ \A u \in Threads : u # x => pc'[u] = pc[u] /\ i'[u] = i[u]
      /\ \A u \in Threads : Drained(u)' = Drained(u)
  BY <1>1, BeginEffect
<1> DEFINE p == Phase(e64[x])
           w == SetFlag((x + 1) % N, p, 0, FlagOf(or_in))
<1>4. /\ Log \in Nat \ {0} /\ Slots = 0 .. Log - 1 /\ 0 \in Slots
      /\ \A t \in Threads : /\ e64[t] \in EpochSet
                            /\ Phase(e64[t]) \in {0, 1} /\ 1 - Phase(e64[t]) \in {0, 1}
  <2>1. \A t \in Threads : e64[t] \in EpochSet
    BY <1>1 DEF TypeOK
  <2>2. \A t \in Threads : Phase(e64[t]) \in {0, 1} /\ 1 - Phase(e64[t]) \in {0, 1}
    BY <2>1, EpochFacts DEF Phases
  <2> QED
    BY <2>1, <2>2, ConstantsAre
<1>5. /\ given' = [given EXCEPT ![x][p] = or_in]
      /\ or_acc' = [or_acc EXCEPT ![x][p] = FlagOf(or_in)]
      /\ buffer' = [buffer EXCEPT ![x] = Append(@, w)]
  BY DEF Begin
<1>6. /\ given \in [Threads -> [Phases -> BOOLEAN]] /\ given'[x][p] = or_in
      /\ or_acc'[x][p] = FlagOf(or_in)
      /\ \A t \in Threads : t # x => or_acc'[t] = or_acc[t]
      /\ or_acc'[x][1 - p] = or_acc[x][1 - p]
  <2>1. given \in [Threads -> [Phases -> BOOLEAN]] /\ or_acc \in [Threads -> [Phases -> Int]]
    BY <1>1 DEF TypeOK
  <2>2. p \in Phases /\ 1 - p \in Phases /\ 1 - p # p
    BY <1>4 DEF Phases
  <2> HIDE DEF p
  <2> QED
    BY <1>5, <2>1, <2>2
<1>7. w \in Store /\ w.to = FlagOf(or_in) /\ w.phase = p
  <2>1. x + 1 \in Int
    BY ConstantsAre
  <2>2. (x + 1) % N \in Threads
    BY <2>1, PlaceFacts DEF Place
  <2>3. w \in Store
    BY <1>4, <2>2, StoreTypes DEF FlagOf, Phases
  <2> QED
    BY <2>3 DEF SetFlag
<1> HIDE DEF w
<1>8. p \in Phases /\ p \in {0, 1}
  BY <1>4 DEF Phases
<1>9. ASSUME NEW u \in Threads, NEW ph \in Phases, NEW n, ph # p \/ ~ Covered(x, u, n)
      PROVE  Carried(given', u, ph, n) = Carried(given, u, ph, n)
  <2>1. \A y \in Threads : y # x \/ ph # p => given'[y][ph] = given[y][ph]
    BY <1>5, <1>6, <1>8
  <2> HIDE DEF p
  <2>2. \A y \in Threads : Covered(y, u, n) => (given'[y][ph] <=> given[y][ph])
    BY <1>9, <2>1
  <2> QED
    BY <2>2, CarriedStays
<1>10. Carried(given', x, p, 0) = FlagOf(or_in)
  <2>1. Carried(given', x, p, 0) = FlagOf(given'[x][p])
    <3>1. \A y \in Threads : Covered(y, x, 0) <=> y = x
      BY CoveredEnds
    <3> QED
      BY <3>1 DEF Carried, FlagOf, Covered
  <2> QED
    BY <1>6, <2>1
(* Those that cover x are done with the other phase.                       *)
<1>11. ASSUME NEW u \in Threads, pc[u] = "in", NEW s \in Slots, s <= i[u]
       PROVE  Carried(given', u, Phase(e64[u]), s) = Carried(given, u, Phase(e64[u]), s)
  <2>1. CASE Covered(x, u, s)
    <3>1. p = 1 - Phase(e64[u])
      BY <1>1, <1>3, <1>11, <2>1, CoveredHasBegun
    <3>2. Phase(e64[u]) # p
      BY <1>4, <3>1
    <3> QED
      BY <1>4, <1>9, <3>2 DEF Phases
  <2>2. CASE ~ Covered(x, u, s)
    BY <1>4, <1>9, <2>2 DEF Phases
  <2> QED
    BY <2>1, <2>2
<1>12. ASSUME NEW u \in Threads, u # x
       PROVE  \/ e64[u] = e64[x]
              \/ e64[x] = After(e64[u]) /\ Drained(u) >= Log + 2 /\ pc[u] = "in"
  <2>1. pc[x] = "out" /\ TypeOK /\ Order
    BY <1>1, <1>3
  <2> QED
    BY <1>12, <2>1, OutKnows
<1>13. SetsCarry'
  <2> SUFFICES ASSUME NEW u \in Threads, NEW k \in 1 .. Len(buffer'[u]), NEW s \in Slots,
                      Drained(u)' + k = 1 + s \/ Drained(u)' + k = Log + 2 + s
               PROVE  buffer'[u][k].to = Carried(given', u, buffer'[u][k].phase, s)
    BY DEF SetsCarry, Carried, FlagOf, Covered
  <2>1. Drained(u)' = Drained(u)
    BY <1>3
  <2>2. CASE k \in 1 .. Len(buffer[u]) /\ buffer'[u][k] = buffer[u][k]
    <3>1. buffer[u][k].to = Carried(given, u, buffer[u][k].phase, s)
      BY <1>1, <2>1, <2>2 DEF SetsCarry
    <3>2. CASE Drained(u) + k = Log + 2 + s
      <4>1. buffer[u][k].phase = Phase(e64[u]) /\ pc[u] = "in" /\ s <= i[u]
        BY <1>1, <2>2, <3>2, SetInBuffer
      <4> QED
        BY <1>11, <2>2, <3>1, <4>1
    <3>3. CASE Drained(u) + k = 1 + s
      <4>1. /\ buffer[u][k].phase = 1 - Phase(e64[u])
            /\ Drained(u) + k > Drained(u) /\ Drained(u) \in Int
        BY <1>1, <2>2, <3>3, SetInBuffer, RankFacts
      <4>2. ~ Drained(u) >= Log + 2
        <5>1. Drained(u) < 1 + s
          BY <3>3, <4>1
        <5> QED
          BY <1>4, <4>1, <5>1
      <4>3. e64[u] = e64[x]
        BY <1>12, <4>2
      <4>4. 1 - Phase(e64[u]) # p /\ 1 - Phase(e64[u]) \in Phases
        BY <1>4, <4>3 DEF Phases
      <4> QED
        BY <1>9, <2>2, <3>1, <4>1, <4>4
    <3> QED
      BY <2>1, <3>2, <3>3
  <2>3. CASE u = x /\ k = Len(buffer[x]) + 1 /\ buffer'[u][k] = w
    <3>1. Drained(x) + k = Log + 2
      <4>1. /\ Drained(x) \in Int /\ Len(buffer[x]) \in Nat
            /\ Drained(x) + Len(buffer[x]) = Log + 1
        BY <1>1, <1>3, RankFacts
      <4> QED
        BY <1>4, <2>3, <4>1
    <3>2. s = 0
      BY <1>4, <2>1, <2>3, <3>1
    <3> QED
      BY <1>7, <1>10, <2>3, <3>2
  <2> QED
    BY <1>1, <1>5, <1>7, <2>2, <2>3, AppendedEntries
<1>14. FlagsCarry'
  <2> SUFFICES ASSUME NEW t \in Threads, NEW v \in Threads, NEW s \in Slots, Signals(v, t, s)
               PROVE  /\ Drained(t) >= 0 =>
                           hot[t][Phase(e64[t])][s] \in {0, Carried(given', v, Phase(e64[t]), s)}
                      /\ Drained(t) >= Log + 1 =>
                           hot[t][1 - Phase(e64[t])][s] \in {0, Carried(given', v, 1 - Phase(e64[t]), s)}
    <3>1. \A t \in Threads : /\ Phase(e64'[t]) = Phase(e64[t]) /\ Drained(t)' = Drained(t)
                             /\ hot'[t] = hot[t]
      BY <1>3
    <3> QED
      BY <1>3, <3>1 DEF FlagsCarry, Signals, Carried, FlagOf, Covered
  <2>1. /\ Drained(t) >= 0 => hot[t][Phase(e64[t])][s] \in {0, Carried(given, v, Phase(e64[t]), s)}
        /\ Drained(t) >= Log + 1 =>
             hot[t][1 - Phase(e64[t])][s] \in {0, Carried(given, v, 1 - Phase(e64[t]), s)}
    BY <1>1 DEF FlagsCarry
  <2>2. /\ Drained(t) >= 0 /\ hot[t][Phase(e64[t])][s] # 0 => Now(v, t, s)
        /\ Drained(t) >= Log + 1 /\ hot[t][1 - Phase(e64[t])][s] # 0 => Ahead(v, t, s)
    BY <1>1 DEF Order, FlagsTrue
  <2>3. Drained(v) >= Log + 2 + s => pc[v] = "in" /\ s <= i[v]
    <3>1. /\ Drained(v) \in Int /\ Drained(v) <= Top(v) /\ pc[v] \in {"out", "in"}
          /\ i[v] \in Nat /\ s \in Nat
          /\ (pc[v] = "in" => Top(v) = Log + 2 + i[v]) /\ (pc[v] = "out" => Top(v) = Log + 1)
      BY <1>1, <1>4, RankFacts DEF TypeOK
    <3>2. PICK d \in Int : d = Drained(v)
      BY <3>1
    <3> QED
      BY <1>4, <3>1, <3>2
  <2>4. ASSUME Now(v, t, s)
        PROVE  Carried(given', v, Phase(e64[t]), s) = Carried(given, v, Phase(e64[t]), s)
    <3>1. CASE e64[v] = e64[t] /\ Drained(v) >= Log + 2 + s
      BY <1>11, <2>3, <3>1
    <3>2. CASE e64[v] = After(e64[t])
      <4>1. x = v \/ e64[x] = e64[v]
        <5>1. CASE x = t
          <6>1. v # t
            BY <1>4, <3>2, EpochFacts
          <6>2. e64[t] # After(e64[v]) /\ e64[v] # e64[t]
            BY <1>4, <3>2, EpochFacts
          <6> QED
            BY <1>12, <5>1, <6>1, <6>2
        <5>2. CASE x # t
          <6>1. e64[t] = e64[x] \/ e64[x] = e64[v]
            BY <1>12, <3>2, <5>2
          <6>2. ASSUME e64[t] = e64[x], x # v PROVE FALSE
            <7>1. e64[v] = After(e64[x])
              BY <3>2, <6>2
            <7>2. e64[v] # e64[x] /\ e64[x] # After(e64[v])
              BY <1>4, <7>1, EpochFacts
            <7> QED
              BY <1>12, <6>2, <7>2
          <6> QED
            BY <6>1, <6>2
        <5> QED
          BY <5>1, <5>2
      <4>2. p = 1 - Phase(e64[t])
        BY <1>4, <3>2, <4>1, EpochFacts
      <4>3. Phase(e64[t]) # p /\ Phase(e64[t]) \in Phases
        BY <1>4, <4>2 DEF Phases
      <4> QED
        BY <1>9, <4>3
    <3> QED
      BY <2>4, <3>1, <3>2 DEF Now
  <2>5. ASSUME Ahead(v, t, s)
        PROVE  Carried(given', v, 1 - Phase(e64[t]), s) = Carried(given, v, 1 - Phase(e64[t]), s)
    <3>1. e64[v] = After(e64[t]) /\ pc[v] = "in" /\ s <= i[v]
      BY <2>3, <2>5 DEF Ahead
    <3>2. Phase(e64[v]) = 1 - Phase(e64[t])
      BY <1>4, <3>1, EpochFacts
    <3> QED
      BY <1>11, <3>1, <3>2
  <2> QED
    BY <2>1, <2>2, <2>4, <2>5
<1>15. Accumulated'
  <2> SUFFICES ASSUME NEW t \in Threads
               PROVE  /\ pc'[t] = "in" =>
                           or_acc'[t][Phase(e64[t])] = Carried(given', t, Phase(e64[t]), i'[t])
                      /\ pc'[t] = "out" => or_acc'[t][1 - Phase(e64[t])]
                           = FlagOf(\E y \in Threads : given'[y][1 - Phase(e64[t])]) - 1
    BY <1>3 DEF Accumulated, Carried, FlagOf, Covered, Phase
  <2>1. CASE t = x
    BY <1>3, <1>6, <1>10, <2>1
  <2>2. CASE t # x
    <3>0. /\ pc'[t] = pc[t] /\ i'[t] = i[t] /\ or_acc'[t] = or_acc[t]
          /\ pc[t] = "in" => or_acc[t][Phase(e64[t])] = Carried(given, t, Phase(e64[t]), i[t])
          /\ pc[t] = "out" => or_acc[t][1 - Phase(e64[t])]
                                = FlagOf(\E y \in Threads : given[y][1 - Phase(e64[t])]) - 1
          /\ i[t] \in Slots /\ i[t] <= i[t]
      <4>1. /\ pc[t] = "in" => or_acc[t][Phase(e64[t])] = Carried(given, t, Phase(e64[t]), i[t])
            /\ pc[t] = "out" => or_acc[t][1 - Phase(e64[t])]
                                  = FlagOf(\E y \in Threads : given[y][1 - Phase(e64[t])]) - 1
        BY <1>1 DEF Accumulated
      <4>2. i[t] \in Slots
        BY <1>1 DEF TypeOK
      <4>3. i[t] <= i[t]
        BY <1>4, <4>2
      <4> QED
        BY <1>3, <1>6, <2>2, <4>1, <4>2, <4>3
    <3>1. ASSUME pc[t] = "in"
          PROVE  or_acc'[t][Phase(e64[t])] = Carried(given', t, Phase(e64[t]), i'[t])
      <4>1. Carried(given', t, Phase(e64[t]), i[t]) = Carried(given, t, Phase(e64[t]), i[t])
        BY <1>11, <3>0, <3>1
      <4> QED
        BY <3>0, <3>1, <4>1
    <3>2. ASSUME pc[t] = "out"
          PROVE  or_acc'[t][1 - Phase(e64[t])]
                   = FlagOf(\E y \in Threads : given'[y][1 - Phase(e64[t])]) - 1
      <4>1. e64[t] = e64[x]
        BY <1>12, <2>2, <3>2
      <4>2. 1 - Phase(e64[t]) # p /\ 1 - Phase(e64[t]) \in Phases
        BY <1>4, <4>1 DEF Phases
      <4>3. \A y \in Threads : given'[y][1 - Phase(e64[t])] = given[y][1 - Phase(e64[t])]
        BY <1>5, <1>6, <4>2
      <4> QED
        BY <3>0, <3>2, <4>3
    <3> QED
      BY <3>0, <3>1, <3>2
  <2> QED
    BY <2>1, <2>2
<1> QED
  BY <1>2, <1>13, <1>14, <1>15 DEF OrInv, Inv

(* The flag that a thread waits for carries what its setter knew.          *)
LEMMA FlagIsCarried ==
  ASSUME ConstantsOK, N > 1, OrInv, NEW v \in Threads, NEW s \in Slots,
         Mine(v, Phase(e64[v]))[s] # 0
  PROVE  BitOr(Carried(given, v, Phase(e64[v]), s), Mine(v, Phase(e64[v]))[s])
           = Carried(given, v, Phase(e64[v]), s + 1)
<1>1. TypeOK /\ BufferInOrder /\ FlagsCarry
  BY DEF OrInv, Inv, Order
<1>2. /\ Drained(v) >= 0
      /\ Mine(v, Phase(e64[v]))[s] = hot[v][Phase(e64[v])][s]
  BY <1>1, MineMeans
<1>3. PICK w \in Threads : Signals(w, v, s)
  BY SignalsFrom
<1>4. hot[v][Phase(e64[v])][s] = Carried(given, w, Phase(e64[v]), s)
  BY <1>1, <1>2, <1>3 DEF FlagsCarry
<1> QED
  BY <1>2, <1>3, <1>4, CarriedDoubles

LEMMA PassKeepsOr ==
  ASSUME ConstantsOK, N > 1, OrInv, NEW v \in Threads, Pass(v)
  PROVE  OrInv'
<1>1. TypeOK /\ Order /\ Accumulated /\ SetsCarry /\ FlagsCarry /\ BufferInOrder
  BY DEF OrInv, Inv, Order
<1>2. TypeOK' /\ Order'
  BY <1>1, PassKeeps
<1>3. /\ e64' = e64 /\ hot' = hot /\ pc' = pc /\ given' = given
      /\ pc[v] = "in" /\ i[v] < Log - 1 /\ i'[v] = i[v] + 1
      /\ Mine(v, Phase(e64[v]))[i[v]] # 0
      /\ \A u \in Threads : u # v => i'[u] = i[u]
      /\ \A u \in Threads : Drained(u)' = Drained(u)
  BY <1>1, PassEffect
<1> DEFINE p == Phase(e64[v])
           flag == Mine(v, p)[i[v]]
           w == SetFlag((v + 2^(i[v] + 1)) % N, p, i[v] + 1, BitOr(or_acc[v][p], flag))
<1>4. /\ Log \in Nat \ {0} /\ Slots = 0 .. Log - 1 /\ i[v] \in Slots /\ i[v] + 1 \in Slots
      /\ p \in Phases
  <2>1. Log \in Nat \ {0} /\ Slots = 0 .. Log - 1
    BY ConstantsAre
  <2>2. i[v] \in Slots /\ e64[v] \in EpochSet
    BY <1>1 DEF TypeOK
  <2> QED
    BY <1>3, <2>1, <2>2, EpochFacts
<1>5. /\ or_acc' = [or_acc EXCEPT ![v][p] = BitOr(@, flag)]
      /\ buffer' = [buffer EXCEPT ![v] = Append(@, w)]
  BY DEF Pass
<1>6. or_acc[v][p] = Carried(given, v, p, i[v])
  BY <1>1, <1>3 DEF Accumulated
<1>7. BitOr(or_acc[v][p], flag) = Carried(given, v, p, i[v] + 1)
  BY <1>3, <1>4, <1>6, FlagIsCarried
<1> HIDE DEF flag
<1>8. /\ or_acc'[v][p] = Carried(given, v, p, i[v] + 1)
      /\ \A t \in Threads : t # v => or_acc'[t] = or_acc[t]
  <2>1. or_acc \in [Threads -> [Phases -> Int]]
    BY <1>1 DEF TypeOK
  <2> HIDE DEF p
  <2>2. or_acc'[v][p] = BitOr(or_acc[v][p], flag) /\ \A t \in Threads : t # v => or_acc'[t] = or_acc[t]
    BY <1>4, <1>5, <2>1
  <2> QED
    BY <1>7, <2>2
<1>9. w \in Store /\ w.to = Carried(given, v, p, i[v] + 1) /\ w.phase = p
  <2>1. Place(v + Step(i[v] + 1)) \in Threads
    BY <1>4, SignalsFrom
  <2>2. (v + 2^(i[v] + 1)) % N \in Threads
    BY <2>1 DEF Place, Step
  <2>3. Carried(given, v, p, i[v] + 1) \in Int
    BY DEF Carried, FlagOf
  <2> HIDE DEF p
  <2>4. w \in Store
    BY <1>4, <1>7, <2>2, <2>3, StoreTypes
  <2> QED
    BY <1>7, <2>4 DEF SetFlag
<1> HIDE DEF w
<1>10. SetsCarry'
  <2> SUFFICES ASSUME NEW u \in Threads, NEW k \in 1 .. Len(buffer'[u]), NEW s \in Slots,
                      Drained(u)' + k = 1 + s \/ Drained(u)' + k = Log + 2 + s
               PROVE  buffer'[u][k].to = Carried(given', u, buffer'[u][k].phase, s)
    BY DEF SetsCarry, Carried, FlagOf, Covered
  <2>1. Drained(u)' = Drained(u)
    BY <1>3
  <2>2. CASE k \in 1 .. Len(buffer[u]) /\ buffer'[u][k] = buffer[u][k]
    BY <1>1, <1>3, <2>1, <2>2 DEF SetsCarry
  <2>3. CASE u = v /\ k = Len(buffer[v]) + 1 /\ buffer'[u][k] = w
    <3>1. Drained(v) + k = Log + 2 + i[v] + 1
      <4>1. /\ Drained(v) \in Int /\ Len(buffer[v]) \in Nat
            /\ Drained(v) + Len(buffer[v]) = Log + 2 + i[v]
        BY <1>1, <1>3, RankFacts
      <4> QED
        BY <1>4, <2>3, <4>1
    <3>2. s = i[v] + 1
      BY <1>4, <2>1, <2>3, <3>1
    <3> QED
      BY <1>3, <1>9, <2>3, <3>2
  <2> QED
    BY <1>1, <1>5, <1>9, <2>2, <2>3, AppendedEntries
<1>11. FlagsCarry'
  BY <1>1, <1>3 DEF FlagsCarry, Signals, Carried, FlagOf, Covered
<1>12. Accumulated'
  <2> SUFFICES ASSUME NEW t \in Threads
               PROVE  /\ pc[t] = "in" =>
                           or_acc'[t][Phase(e64[t])] = Carried(given, t, Phase(e64[t]), i'[t])
                      /\ pc[t] = "out" => or_acc'[t][1 - Phase(e64[t])]
                           = FlagOf(\E y \in Threads : given[y][1 - Phase(e64[t])]) - 1
    BY <1>3 DEF Accumulated, Carried, FlagOf, Covered, Phase
  <2>1. CASE t = v
    BY <1>3, <1>8, <2>1
  <2>2. CASE t # v
    BY <1>1, <1>3, <1>8, <2>2 DEF Accumulated
  <2> QED
    BY <2>1, <2>2
<1> QED
  BY <1>2, <1>10, <1>11, <1>12 DEF OrInv, Inv

LEMMA TryEndKeepsOr ==
  ASSUME ConstantsOK, N > 1, OrInv, NEW v \in Threads, TryEnd(v)
  PROVE  OrInv'
<1>1. TypeOK /\ Order /\ Accumulated /\ SetsCarry /\ FlagsCarry /\ BufferInOrder
  BY DEF OrInv, Inv, Order
<1>2. TypeOK' /\ Order'
  BY <1>1, TryEndKeeps
<1>3. Drained(v) >= Log
  BY <1>1, LastFlagTells DEF TryEnd, Arrived
<1>4. /\ hot' = hot /\ given' = given
      /\ pc[v] = "in" /\ pc'[v] = "out" /\ i[v] = Log - 1 /\ i' = i
      /\ Mine(v, Phase(e64[v]))[Log - 1] # 0
      /\ e64'[v] = After(e64[v])
      /\ Drained(v)' = Drained(v) - (Log + 1)
      /\ \A u \in Threads : u # v => /\ pc'[u] = pc[u] /\ e64'[u] = e64[u]
                                     /\ Drained(u)' = Drained(u)
  BY <1>1, <1>3, TryEndEffect
<1> DEFINE p == Phase(e64[v])
           flag == Mine(v, p)[Log - 1]
           w == ClearFlags(v, p)
<1>5. /\ Log \in Nat \ {0} /\ Slots = 0 .. Log - 1 /\ Log - 1 \in Slots /\ (Log - 1) + 1 = Log
      /\ p \in Phases /\ Phase(e64'[v]) = 1 - p /\ 1 - Phase(e64'[v]) = p
  <2>1. Log \in Nat \ {0} /\ Slots = 0 .. Log - 1
    BY ConstantsAre
  <2>2. e64[v] \in EpochSet
    BY <1>1 DEF TypeOK
  <2>3. p \in {0, 1} /\ Phase(e64'[v]) = 1 - p
    BY <1>4, <2>2, EpochFacts DEF Phases
  <2> HIDE DEF p
  <2> QED
    BY <2>1, <2>3 DEF Phases
<1>6. /\ or_acc' = [or_acc EXCEPT ![v][p] = BitOr(@, flag) - 1]
      /\ buffer' = [buffer EXCEPT ![v] = Append(@, w)]
  <2>1. N > 1
    OBVIOUS
  <2> QED
    BY <2>1 DEF TryEnd
<1>7. BitOr(or_acc[v][p], flag) = FlagOf(\E x \in Threads : given[x][p])
  <2>1. or_acc[v][p] = Carried(given, v, p, Log - 1)
    BY <1>1, <1>4 DEF Accumulated
  <2>2. BitOr(or_acc[v][p], flag) = Carried(given, v, p, Log)
    BY <1>4, <1>5, <2>1, FlagIsCarried
  <2> QED
    BY <2>2, CarriedByAll
<1> HIDE DEF flag
<1>8. /\ or_acc'[v][p] = FlagOf(\E x \in Threads : given[x][p]) - 1
      /\ \A t \in Threads : t # v => or_acc'[t] = or_acc[t]
  <2>1. or_acc \in [Threads -> [Phases -> Int]]
    BY <1>1 DEF TypeOK
  <2> HIDE DEF p
  <2>2. or_acc'[v][p] = BitOr(or_acc[v][p], flag) - 1
        /\ \A t \in Threads : t # v => or_acc'[t] = or_acc[t]
    BY <1>5, <1>6, <2>1
  <2> QED
    BY <1>7, <2>2
<1>9. w \in Store
  BY <1>5, StoreTypes
<1> HIDE DEF w
<1>10. PICK d \in Int, dd \in Int, n \in Nat :
          /\ d = Drained(v) /\ dd = Drained(v)' /\ n = Len(buffer[v])
          /\ dd = d - (Log + 1) /\ d >= Log /\ d <= Log + Log + 1
          /\ d + n = Log + Log + 1
  <2>1. /\ Drained(v) \in Int /\ Drained(v) <= Top(v) /\ Top(v) = Log + 2 + i[v]
        /\ Len(buffer[v]) \in Nat /\ Drained(v) + Len(buffer[v]) = Top(v)
    BY <1>1, <1>4, RankFacts
  <2>2. Top(v) = Log + Log + 1
    BY <1>4, <1>5, <2>1
  <2>3. Drained(v)' \in Int
    BY <1>4, <1>5, <2>1
  <2> QED
    BY <1>3, <1>4, <2>1, <2>2, <2>3
<1>11. Log \in Nat /\ dd = d - (Log + 1) /\ d >= Log /\ d + n = Log + Log + 1
  BY <1>5, <1>10
<1>12. SetsCarry'
  <2> SUFFICES ASSUME NEW u \in Threads, NEW k \in 1 .. Len(buffer'[u]), NEW s \in Slots,
                      Drained(u)' + k = 1 + s \/ Drained(u)' + k = Log + 2 + s
               PROVE  buffer'[u][k].to = Carried(given', u, buffer'[u][k].phase, s)
    BY DEF SetsCarry, Carried, FlagOf, Covered
  <2>1. CASE u # v
    <3>1. buffer'[u] = buffer[u] /\ Drained(u)' = Drained(u)
      BY <1>1, <1>4, <1>6, <2>1 DEF TypeOK
    <3> QED
      BY <1>1, <1>4, <3>1 DEF SetsCarry
  <2>2. CASE u = v /\ k \in 1 .. Len(buffer[u]) /\ buffer'[u][k] = buffer[u][k]
    <3>1. d + k = Log + 2 + s
      <4>1. dd + k = 1 + s \/ dd + k = Log + 2 + s
        BY <1>10, <2>2
      <4>2. k \in 1 .. n
        BY <1>10, <2>2
      <4>3. dd + k <= Log /\ d + k = dd + k + Log + 1 /\ dd + k >= 0
        BY <1>11, <4>2
      <4>4. dd + k = 1 + s
        BY <1>5, <1>11, <4>1, <4>3
      <4> QED
        BY <1>5, <1>11, <4>3, <4>4
    <3>2. Drained(v) + k = Log + 2 + s
      BY <1>10, <3>1
    <3>3. buffer[v][k].to = Carried(given, v, buffer[v][k].phase, s)
      BY <1>1, <2>2, <3>2 DEF SetsCarry
    <3> QED
      BY <1>4, <2>2, <3>3
  <2>3. CASE u = v /\ k = Len(buffer[v]) + 1 /\ buffer'[u][k] = w
    <3>1. dd + k = Log + 1
      <4>1. k = n + 1
        BY <1>10, <2>3
      <4> QED
        BY <1>11, <4>1
    <3>2. dd + k # 1 + s /\ dd + k # Log + 2 + s
      BY <1>5, <3>1
    <3> QED
      BY <1>10, <2>3, <3>2
  <2>4. \/ k \in 1 .. Len(buffer[u]) /\ buffer'[u][k] = buffer[u][k]
        \/ u = v /\ k = Len(buffer[v]) + 1 /\ buffer'[u][k] = w
    BY <1>1, <1>6, <1>9, AppendedEntries
  <2> QED
    BY <2>1, <2>2, <2>3, <2>4
<1>13. FlagsCarry'
  <2> SUFFICES ASSUME NEW t \in Threads, NEW x \in Threads, NEW s \in Slots, Signals(x, t, s)
               PROVE  /\ Drained(t)' >= 0 => hot[t][Phase(e64'[t])][s]
                                               \in {0, Carried(given, x, Phase(e64'[t]), s)}
                      /\ Drained(t)' >= Log + 1 => hot[t][1 - Phase(e64'[t])][s]
                                               \in {0, Carried(given, x, 1 - Phase(e64'[t]), s)}
    BY <1>4 DEF FlagsCarry, Signals, Carried, FlagOf, Covered, Phase
  <2>1. /\ Drained(t) >= 0 => hot[t][Phase(e64[t])][s] \in {0, Carried(given, x, Phase(e64[t]), s)}
        /\ Drained(t) >= Log + 1 =>
             hot[t][1 - Phase(e64[t])][s] \in {0, Carried(given, x, 1 - Phase(e64[t]), s)}
    BY <1>1 DEF FlagsCarry
  <2>2. CASE t # v
    BY <1>4, <2>1, <2>2
  <2>3. CASE t = v
    <3>1. (Drained(v)' >= 0 => Drained(v) >= Log + 1) /\ ~ Drained(v)' >= Log + 1
      <4>1. (dd >= 0 => d >= Log + 1) /\ ~ dd >= Log + 1
        BY <1>5, <1>10
      <4> QED
        BY <1>10, <4>1
    <3> QED
      BY <1>5, <2>1, <2>3, <3>1
  <2> QED
    BY <2>2, <2>3
<1>14. Accumulated'
  <2> SUFFICES ASSUME NEW t \in Threads
               PROVE  /\ pc'[t] = "in" =>
                           or_acc'[t][Phase(e64'[t])] = Carried(given, t, Phase(e64'[t]), i[t])
                      /\ pc'[t] = "out" => or_acc'[t][1 - Phase(e64'[t])]
                           = FlagOf(\E y \in Threads : given[y][1 - Phase(e64'[t])]) - 1
    BY <1>4 DEF Accumulated, Carried, FlagOf, Covered, Phase
  <2>1. CASE t = v
    BY <1>4, <1>5, <1>8, <2>1
  <2>2. CASE t # v
    BY <1>1, <1>4, <1>8, <2>2 DEF Accumulated
  <2> QED
    BY <2>1, <2>2
<1> QED
  BY <1>2, <1>12, <1>13, <1>14 DEF OrInv, Inv

LEMMA DrainKeepsOr ==
  ASSUME ConstantsOK, N > 1, OrInv, NEW v \in Threads, Drain(v)
  PROVE  OrInv'
<1> DEFINE w == Head(buffer[v])
<1>1. TypeOK /\ Order /\ Accumulated /\ SetsCarry /\ FlagsCarry /\ BufferInOrder
  BY DEF OrInv, Inv, Order
<1>2. TypeOK' /\ Order'
  BY <1>1, DrainKeeps
<1>3. /\ UNCHANGED <<pc, i, e64, or_acc, given>>
      /\ \A u \in Threads : Drained(u)' = IF u = v THEN Drained(u) + 1 ELSE Drained(u)
      /\ Drained(v) + 1 \in 0 .. Top(v)
      /\ w \in Store
      /\ IsStore(w, v, e64[v], Drained(v) + 1)
      /\ \A t \in Threads, ph \in Phases, s \in Slots :
           hot'[t][ph][s] = IF w.of = t /\ w.phase = ph /\ s \in w.slots
                            THEN w.to ELSE hot[t][ph][s]
  BY <1>1, DrainEffect
<1>4. /\ buffer' = [buffer EXCEPT ![v] = Tail(@)] /\ buffer[v] # <<>>
      /\ buffer[v] \in Seq(Store)
  BY <1>1 DEF Drain, TypeOK
<1>5. /\ Len(buffer[v]) \in Nat /\ 1 \in 1 .. Len(buffer[v]) /\ w = buffer[v][1]
      /\ Len(Tail(buffer[v])) = Len(buffer[v]) - 1
      /\ \A k \in 1 .. Len(buffer[v]) - 1 : Tail(buffer[v])[k] = buffer[v][k + 1]
  BY <1>4
<1>6. buffer'[v] = Tail(buffer[v]) /\ \A u \in Threads : u # v => buffer'[u] = buffer[u]
  BY <1>1, <1>4 DEF TypeOK
<1> HIDE DEF w
<1>7. /\ Log \in Nat \ {0} /\ Slots = 0 .. Log - 1
      /\ \A t \in Threads : /\ e64[t] \in EpochSet /\ Drained(t) \in Int
                            /\ Phase(e64[t]) \in {0, 1} /\ 1 - Phase(e64[t]) \in {0, 1}
  <2>1. \A t \in Threads : e64[t] \in EpochSet
    BY <1>1 DEF TypeOK
  <2>2. \A t \in Threads : Phase(e64[t]) \in {0, 1} /\ 1 - Phase(e64[t]) \in {0, 1}
    BY <2>1, EpochFacts DEF Phases
  <2>3. \A t \in Threads : Drained(t) \in Int
    BY <1>1, RankFacts
  <2> QED
    BY <2>1, <2>2, <2>3, ConstantsAre
<1>8. PICK r \in Int : r = Drained(v) + 1
  BY <1>7
<1>9. r >= 0 /\ r <= Log + Log + 1
  <2>1. Top(v) <= Log + Log + 1 /\ Top(v) \in Nat
    BY <1>1, RankFacts
  <2> QED
    BY <1>3, <1>7, <1>8, <2>1
<1>10. SetsCarry'
  <2> SUFFICES ASSUME NEW u \in Threads, NEW k \in 1 .. Len(buffer'[u]), NEW s \in Slots,
                      Drained(u)' + k = 1 + s \/ Drained(u)' + k = Log + 2 + s
               PROVE  buffer'[u][k].to = Carried(given', u, buffer'[u][k].phase, s)
    BY DEF SetsCarry, Carried, FlagOf, Covered
  <2>1. CASE u # v
    <3>1. buffer'[u] = buffer[u] /\ Drained(u)' = Drained(u)
      BY <1>3, <1>6, <2>1
    <3> QED
      BY <1>1, <1>3, <3>1 DEF SetsCarry
  <2>2. CASE u = v
    <3>1. k \in 1 .. Len(buffer[v]) - 1 /\ k + 1 \in 1 .. Len(buffer[v])
      <4>1. Len(buffer'[u]) = Len(buffer[v]) - 1
        BY <1>5, <1>6, <2>2
      <4>2. k \in 1 .. Len(buffer[v]) - 1
        BY <4>1
      <4> QED
        BY <1>5, <4>2
    <3>2. buffer'[v][k] = buffer[v][k + 1]
      BY <1>5, <1>6, <3>1
    <3>3. Drained(v)' + k = Drained(v) + (k + 1)
      BY <1>3, <1>7, <3>1
    <3>4. Drained(v) + (k + 1) = 1 + s \/ Drained(v) + (k + 1) = Log + 2 + s
      BY <2>2, <3>3
    <3>5. buffer[v][k + 1].to = Carried(given, v, buffer[v][k + 1].phase, s)
      BY <1>1, <3>1, <3>4 DEF SetsCarry
    <3> QED
      BY <1>3, <2>2, <3>2, <3>5
  <2> QED
    BY <2>1, <2>2
(* The store that reaches the memory clears the flags of v, or it is a     *)
(* flag of someone else, and v is its setter.                              *)
<1>11. \/ r = 0 /\ w = ClearFlags(v, Phase(e64[v]))
       \/ r = Log + 1 /\ w = ClearFlags(v, 1 - Phase(e64[v]))
       \/ \E z \in Slots : /\ r # 0 /\ r # Log + 1
                           /\ w.of # v /\ Signals(v, w.of, z) /\ w.slots = {z}
                           /\ w.to = Carried(given, v, w.phase, z)
  <2>1. CASE r = 0 \/ r = Log + 1
    BY <1>3, <1>8, <2>1 DEF IsStore, IsClear
  <2>2. ASSUME NEW z \in Slots, r = 1 + z \/ r = Log + 2 + z
        PROVE  /\ r # 0 /\ r # Log + 1
               /\ w.of # v /\ Signals(v, w.of, z) /\ w.slots = {z}
               /\ w.to = Carried(given, v, w.phase, z)
    <3>1. w.of = Place(v + Step(z)) /\ w.slots = {z}
      <4>1. \A t, ph, y, flag : SetFlag(t, ph, y, flag).of = t /\ SetFlag(t, ph, y, flag).slots = {y}
        BY DEF SetFlag
      <4>2. IsSet(w, v, Phase(e64[v]), z) \/ IsSet(w, v, 1 - Phase(e64[v]), z)
        BY <1>3, <1>8, <2>2 DEF IsStore
      <4> QED
        BY <4>1, <4>2 DEF IsSet
    <3>2. Signals(v, w.of, z) /\ w.of # v
      <4>1. Signals(v, w.of, z)
        BY <3>1 DEF Signals
      <4> QED
        BY <4>1, SignalsFrom
    <3>3. w.to = Carried(given, v, w.phase, z)
      BY <1>1, <1>5, <1>8, <2>2 DEF SetsCarry
    <3> QED
      BY <1>7, <2>2, <3>1, <3>2, <3>3
  <2>3. CASE r \in 1 .. Log
    <3>1. r - 1 \in Slots /\ r = 1 + (r - 1)
      BY <1>7, <2>3
    <3> QED
      BY <2>2, <3>1
  <2>4. CASE r \in Log + 2 .. Log + Log + 1
    <3>1. r - (Log + 2) \in Slots /\ r = Log + 2 + (r - (Log + 2))
      BY <1>7, <2>4
    <3> QED
      BY <2>2, <3>1
  <2> QED
    BY <1>7, <1>9, <2>1, <2>3, <2>4
<1>12. FlagsCarry'
  <2> SUFFICES ASSUME NEW t \in Threads, NEW x \in Threads, NEW s \in Slots, Signals(x, t, s)
               PROVE  /\ Drained(t)' >= 0 => hot'[t][Phase(e64[t])][s]
                                               \in {0, Carried(given, x, Phase(e64[t]), s)}
                      /\ Drained(t)' >= Log + 1 => hot'[t][1 - Phase(e64[t])][s]
                                               \in {0, Carried(given, x, 1 - Phase(e64[t]), s)}
    BY <1>3 DEF FlagsCarry, Signals, Carried, FlagOf, Covered, Phase
  <2> DEFINE ph == Phase(e64[t])
  <2>1. /\ Drained(t) >= 0 => hot[t][ph][s] \in {0, Carried(given, x, ph, s)}
        /\ Drained(t) >= Log + 1 => hot[t][1 - ph][s] \in {0, Carried(given, x, 1 - ph, s)}
    BY <1>1 DEF FlagsCarry
  <2>2. ph \in Phases /\ 1 - ph \in Phases /\ ph # 1 - ph
    BY <1>7 DEF Phases
  <2>3. CASE t # v
    <3>1. Drained(t)' = Drained(t)
      BY <1>3, <2>3
    <3>2. ASSUME NEW q \in Phases
          PROVE  hot'[t][q][s] \in {hot[t][q][s], Carried(given, x, q, s)}
      <4>1. CASE w.of = t /\ w.phase = q /\ s \in w.slots
        <5>1. w.of # v
          BY <2>3, <4>1
        <5>2. \A q2 : ClearFlags(v, q2).of = v
          BY DEF ClearFlags
        <5>3. PICK z \in Slots : /\ Signals(v, t, z) /\ w.slots = {z}
                                 /\ w.to = Carried(given, v, w.phase, z)
          BY <1>11, <4>1, <5>1, <5>2
        <5>4. z = s /\ x = v
          BY <4>1, <5>3, SignalsFrom
        <5> QED
          BY <1>3, <4>1, <5>3, <5>4
      <4>2. CASE ~ (w.of = t /\ w.phase = q /\ s \in w.slots)
        BY <1>3, <4>2
      <4> QED
        BY <4>1, <4>2
    <3> HIDE DEF ph
    <3> QED
      BY <2>1, <2>2, <3>1, <3>2 DEF ph
  <2>4. CASE t = v
    <3>0. /\ \A q : /\ ClearFlags(v, q).of = v /\ ClearFlags(v, q).phase = q
                    /\ ClearFlags(v, q).slots = Slots /\ ClearFlags(v, q).to = 0
          /\ Drained(t)' = r
      BY <1>3, <1>8, <2>4 DEF ClearFlags
    <3>1. CASE r = 0 /\ w = ClearFlags(v, ph)
      <4>1. hot'[t][ph][s] = 0
        BY <1>3, <2>2, <2>4, <3>0, <3>1
      <4>2. ~ Drained(t)' >= Log + 1
        BY <1>7, <3>0, <3>1
      <4> QED
        BY <4>1, <4>2
    <3>2. CASE r = Log + 1 /\ w = ClearFlags(v, 1 - ph)
      <4>1. hot'[t][1 - ph][s] = 0 /\ hot'[t][ph][s] = hot[t][ph][s]
        BY <1>3, <2>2, <2>4, <3>0, <3>2
      <4>2. Drained(t) >= 0
        BY <1>7, <1>8, <2>4, <3>2
      <4> QED
        BY <2>1, <4>1, <4>2
    <3>3. CASE w.of # v /\ r # 0 /\ r # Log + 1
      <4>1. hot'[t][ph][s] = hot[t][ph][s] /\ hot'[t][1 - ph][s] = hot[t][1 - ph][s]
        BY <1>3, <2>2, <2>4, <3>3
      <4>2. (r >= 0 => Drained(t) >= 0) /\ (r >= Log + 1 => Drained(t) >= Log + 1)
        <5>1. PICK d \in Int : d = Drained(v)
          BY <1>7
        <5>2. r = d + 1
          BY <1>8, <5>1
        <5>3. (r >= 0 => d >= 0) /\ (r >= Log + 1 => d >= Log + 1)
          BY <1>7, <3>3, <5>2
        <5> QED
          BY <2>4, <5>1, <5>3
      <4> QED
        BY <2>1, <3>0, <4>1, <4>2
    <3> QED
      BY <1>11, <2>4, <3>1, <3>2, <3>3
  <2> QED
    BY <2>3, <2>4
<1>13. Accumulated'
  BY <1>1, <1>3 DEF Accumulated, Carried, FlagOf, Covered
<1> QED
  BY <1>2, <1>10, <1>12, <1>13 DEF OrInv, Inv

-----------------------------------------------------------------------------
LEMMA InitOr ==
  ASSUME ConstantsOK, Init
  PROVE  OrInv
<1>1. Inv
  BY InitInv
<1>2. /\ Log \in Nat \ {0} /\ Slots = 0 .. Log - 1 /\ 0 \in EpochSet
      /\ \A t \in Threads : pc[t] = "out" /\ e64[t] = 0 /\ buffer[t] = <<>> /\ Len(buffer[t]) = 0
  BY ConstantsAre DEF Init, EpochSet, ConstantsOK
<1>3. \A t \in Threads : Phase(e64[t]) \in Phases /\ 1 - Phase(e64[t]) \in Phases
  BY <1>2, EpochFacts
<1>4. \A x \in Threads, ph \in Phases : or_acc[x][ph] = 0 /\ ~ given[x][ph]
  BY DEF Init
<1>5. Accumulated
  BY <1>2, <1>3, <1>4 DEF Accumulated, FlagOf
<1>6. SetsCarry
  BY <1>2 DEF SetsCarry
<1>7. FlagsCarry
  <2>1. \A t \in Threads, ph \in Phases, s \in Slots : hot[t][ph][s] = 0
    BY DEF Init, Zeros
  <2> QED
    BY <1>3, <2>1 DEF FlagsCarry
<1> QED
  BY <1>1, <1>5, <1>6, <1>7 DEF OrInv

LEMMA UnchangedKeepsOr ==
  ASSUME OrInv, UNCHANGED vars
  PROVE  OrInv'
<1>1. /\ pc' = pc /\ i' = i /\ e64' = e64 /\ or_acc' = or_acc /\ hot' = hot
      /\ buffer' = buffer /\ given' = given
  BY DEF vars
<1>2. Inv'
  BY UnchangedKeeps DEF OrInv
<1>3. Accumulated'
  BY <1>1 DEF OrInv, Accumulated, Carried, FlagOf, Covered
<1>4. \A u : Drained(u)' = Drained(u)
  BY <1>1 DEF Drained, Top
<1>5. ASSUME SetsCarry PROVE SetsCarry'
  BY <1>1, <1>4, <1>5 DEF SetsCarry, Carried, FlagOf, Covered
<1>6. ASSUME FlagsCarry PROVE FlagsCarry'
  BY <1>1, <1>4, <1>6 DEF FlagsCarry, Signals, Carried, FlagOf, Covered
<1> QED
  BY <1>2, <1>3, <1>5, <1>6 DEF OrInv

(* A thread alone covers itself.                                           *)
LEMMA AloneKeepsOr ==
  ASSUME ConstantsOK, ~ N > 1, OrInv, NEW t \in Threads, ThreadStep(t) \/ Drain(t)
  PROVE  OrInv'
<1>1. TypeOK /\ Accumulated
  BY DEF OrInv, Inv
<1>2. TypeOK'
  BY <1>1, AloneKeeps
<1>3. /\ Threads = {t} /\ Slots = {0} /\ Log = 1
  <2>1. N = 1 /\ Log \in Nat \ {0} /\ Threads = 0 .. N - 1 /\ Slots = 0 .. Log - 1
    BY ConstantsAre
  <2>2. Log = 1
    <3>1. SUFFICES ASSUME Log > 1 PROVE FALSE
      BY <2>1
    <3>2. Step(Log - 1) < 1
      BY <2>1, <3>1 DEF ConstantsOK, Step
    <3>3. Step(Log - 1) \in Nat /\ Step(Log - 1) >= 1
      BY <2>1, StepFacts
    <3> QED
      BY <3>2, <3>3
  <2> QED
    BY <2>1, <2>2
<1>4. i[t] = 0 /\ i'[t] = 0 /\ t \in Threads
  BY <1>1, <1>2, <1>3 DEF TypeOK
<1>5. \A g, ph : Carried(g, t, ph, 0) = FlagOf(g[t][ph])
  <2>1. \A x \in Threads : Covered(x, t, 0) <=> x = t
    BY CoveredEnds
  <2> QED
    BY <2>1 DEF Carried, FlagOf
<1>6. \A g, ph : FlagOf(\E x \in Threads : g[x][ph]) = FlagOf(g[t][ph])
  BY <1>3 DEF FlagOf
<1> DEFINE p == Phase(e64[t])
<1>7. /\ p \in Phases /\ 1 - p \in Phases /\ 1 - p # p /\ 1 - (1 - p) = p
      /\ Phase(After(e64[t])) = 1 - p
  <2>1. e64[t] \in EpochSet
    BY <1>1 DEF TypeOK
  <2>2. p \in {0, 1} /\ Phase(After(e64[t])) = 1 - p
    BY <2>1, EpochFacts DEF Phases
  <2> HIDE DEF p, After
  <2> QED
    BY <2>2 DEF Phases
<1>8. /\ pc[t] = "in" => or_acc[t][p] = FlagOf(given[t][p])
      /\ pc[t] = "out" => or_acc[t][1 - p] = FlagOf(given[t][1 - p]) - 1
  BY <1>1, <1>4, <1>5, <1>6 DEF Accumulated
<1>9. SUFFICES /\ pc'[t] = "in" => or_acc'[t][Phase(e64'[t])] = FlagOf(given'[t][Phase(e64'[t])])
               /\ pc'[t] = "out" => or_acc'[t][1 - Phase(e64'[t])]
                                      = FlagOf(given'[t][1 - Phase(e64'[t])]) - 1
  <2>1. Accumulated'
    <3> SUFFICES ASSUME NEW u \in Threads
                 PROVE  /\ pc'[u] = "in" =>
                             or_acc'[u][Phase(e64'[u])] = Carried(given', u, Phase(e64'[u]), i'[u])
                        /\ pc'[u] = "out" => or_acc'[u][1 - Phase(e64'[u])]
                             = FlagOf(\E y \in Threads : given'[y][1 - Phase(e64'[u])]) - 1
      BY DEF Accumulated, Carried, FlagOf, Covered, Phase
    <3>1. u = t /\ i'[u] = 0
      BY <1>3, <1>4
    <3>2. Carried(given', t, Phase(e64'[t]), 0) = FlagOf(given'[t][Phase(e64'[t])])
      BY <1>5
    <3>3. FlagOf(\E y \in Threads : given'[y][1 - Phase(e64'[t])])
            = FlagOf(given'[t][1 - Phase(e64'[t])])
      BY <1>3 DEF FlagOf
    <3>4. pc'[t] = "in" => or_acc'[t][Phase(e64'[t])] = Carried(given', t, Phase(e64'[t]), 0)
      BY <1>9, <3>2
    <3>5. pc'[t] = "out" => or_acc'[t][1 - Phase(e64'[t])]
                              = FlagOf(\E y \in Threads : given'[y][1 - Phase(e64'[t])]) - 1
      BY <1>9, <3>3
    <3> QED
      BY <3>1, <3>4, <3>5
  <2> QED
    BY <1>2, <2>1 DEF OrInv, Inv
<1>10. /\ or_acc \in [Threads -> [Phases -> Int]] /\ given \in [Threads -> [Phases -> BOOLEAN]]
       /\ pc \in [Threads -> {"out", "in"}] /\ e64 \in [Threads -> EpochSet]
  BY <1>1 DEF TypeOK
<1>11. CASE \E or_in \in BOOLEAN : Begin(t, or_in)
  <2>1. PICK or_in \in BOOLEAN : Begin(t, or_in)
    BY <1>11
  <2>2. /\ e64' = e64 /\ pc' = [pc EXCEPT ![t] = "in"]
        /\ or_acc' = [or_acc EXCEPT ![t][p] = FlagOf(or_in)]
        /\ given' = [given EXCEPT ![t][p] = or_in]
    BY <2>1 DEF Begin
  <2> HIDE DEF p
  <2>3. pc'[t] = "in" /\ or_acc'[t][p] = FlagOf(or_in) /\ given'[t][p] = or_in
    BY <1>7, <1>10, <2>2
  <2> QED
    BY <2>2, <2>3 DEF p
<1>12. CASE Pass(t)
  BY <1>12 DEF Pass
<1>13. CASE TryEnd(t)
  <2>1. /\ pc[t] = "in" /\ pc' = [pc EXCEPT ![t] = "out"] /\ given' = given
        /\ or_acc' = [or_acc EXCEPT ![t][p] = @ - 1]
        /\ e64' = [e64 EXCEPT ![t] = After(@)]
    BY <1>13 DEF TryEnd, After
  <2> HIDE DEF p, After
  <2>2. pc'[t] = "out" /\ or_acc'[t][p] = or_acc[t][p] - 1 /\ e64'[t] = After(e64[t])
    BY <1>7, <1>10, <2>1
  <2> QED
    BY <1>7, <1>8, <2>1, <2>2
<1>14. CASE Drain(t)
  BY <1>8, <1>14 DEF Drain
<1> QED
  BY <1>11, <1>12, <1>13, <1>14 DEF ThreadStep

LEMMA NextKeepsOr ==
  ASSUME ConstantsOK, OrInv, [Next]_vars
  PROVE  OrInv'
<1>1. CASE UNCHANGED vars
  BY <1>1, UnchangedKeepsOr
<1>2. CASE Next
  <2>1. PICK t \in Threads : ThreadStep(t) \/ Spin(t) \/ Drain(t)
    BY <1>2 DEF Next
  <2>2. CASE Spin(t)
    BY <2>2, UnchangedKeepsOr DEF Spin
  <2>3. CASE ~ N > 1 /\ (ThreadStep(t) \/ Drain(t))
    BY <2>3, AloneKeepsOr
  <2>4. CASE N > 1 /\ ThreadStep(t)
    BY <2>4, BeginKeepsOr, PassKeepsOr, TryEndKeepsOr DEF ThreadStep
  <2>5. CASE N > 1 /\ Drain(t)
    BY <2>5, DrainKeepsOr
  <2> QED
    BY <2>1, <2>2, <2>3, <2>4, <2>5
<1> QED
  BY <1>1, <1>2

LEMMA OrInvMeans ==
  ASSUME OrInv
  PROVE  OrExact
<1> SUFFICES ASSUME NEW t \in Threads, pc[t] = "out"
             PROVE  or_result(t) <=> \E u \in Threads : given[u][1 - Phase(e64[t])]
  BY DEF OrExact
<1>1. or_acc[t][1 - Phase(e64[t])] = FlagOf(\E x \in Threads : given[x][1 - Phase(e64[t])]) - 1
  BY DEF OrInv, Accumulated
<1>2. \A b \in BOOLEAN : FlagOf(b) - 1 # 0 <=> b
  BY DEF FlagOf
<1> QED
  BY <1>1, <1>2 DEF or_result

(* or_result() is the disjunction of what all threads gave to the barrier  *)
(* just ended, whatever their number and however their stores and their    *)
(* next barriers interleave.                                               *)
THEOREM DisjunctionIsExact ==
  ASSUME ConstantsOK
  PROVE  Spec => []OrExact
<1>1. Init => OrInv
  BY InitOr
<1>2. OrInv /\ [Next]_vars => OrInv'
  BY NextKeepsOr
<1>3. OrInv => OrExact
  BY OrInvMeans
<1> QED
  BY <1>1, <1>2, <1>3, PTL DEF Spec
=============================================================================
