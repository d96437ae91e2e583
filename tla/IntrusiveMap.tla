---------------------------- MODULE IntrusiveMap ----------------------------
(***************************************************************************)
(* devastator/intrusive_map.hxx: a hash table whose buckets are lists      *)
(* linked through the objects; it doubles and halves its buckets.  The     *)
(* engine finds the events that came from other ranks in one (from_far),   *)
(* the master the chunks of a message (chunked_by_key).                    *)
(***************************************************************************)
EXTENDS Integers, Sequences, FiniteSets, SequencesExt

CONSTANTS
  Hash,       (* key -> what bucket_of makes of hash_of, in 0 .. 2^Bits - 1*)
  Bits,       (* the bits of that; no more than Bits are ever used         *)
  Versions,   (* the objects that share a key, one at a time in the map    *)
  Base        (* 4, the first threshold for doubling: bump_sizes           *)

Keys == DOMAIN Hash
Objects == Keys \X Versions
KeyOf(o) == o[1]
Null == <<>>

ConstantsOK ==
  /\ Bits \in Nat /\ Base \in Nat
  /\ \A k \in Keys : Hash[k] \in 0 .. 2^Bits - 1

VARIABLES
  popn, hbit,
  bkts,       (* bkt0_ or bkts_: a list for each bucket                    *)
  table,      (* what the map should hold                                  *)
  right       (* history: did every call return the object with the key?   *)

vars == <<popn, hbit, bkts, table, right>>

bucket_of(bits, k) == Hash[k] \div 2^(Bits - bits)
bump_sizes(i) == IF i < 2 THEN i ELSE (Base + i - 2) * 2^(i - 2)

Init ==
  /\ popn = 0 /\ hbit = 0
  /\ bkts = [b \in {0} |-> <<>>]
  /\ table = {} /\ right = TRUE

InTable(k) == {o \in table : KeyOf(o) = k}
TheOne(k) == IF InTable(k) = {} THEN Null ELSE CHOOSE o \in InTable(k) : TRUE

(* The search along a list: the first object with the key                  *)
PlacesOf(list, k) == {i \in DOMAIN list : KeyOf(list[i]) = k}
PlaceOf(list, k) == CHOOSE i \in PlacesOf(list, k) : \A j \in PlacesOf(list, k) : i <= j
Find(list, k) == IF PlacesOf(list, k) = {} THEN Null ELSE list[PlaceOf(list, k)]

-----------------------------------------------------------------------------
(* resize: every object is pushed at the head of the list of its bucket,   *)
(* list after list.                                                        *)
Pushed(lists, bits, o) == [lists EXCEPT ![bucket_of(bits, KeyOf(o))] = <<o>> \o @]

Rehashed(lists, old, new) ==
  FoldLeft(LAMBDA acc, o : Pushed(acc, new, o),
           [b \in 0 .. 2^new - 1 |-> <<>>],
           FlattenSeq([i \in 1 .. 2^old |-> lists[i - 1]]))
InPlace(lists, old, new) ==
  [b \in 0 .. 2^new - 1 |-> IF b \in DOMAIN lists THEN lists[b] ELSE <<>>]

(* popn_changed after an insertion or a removal                            *)
Bits1(n, grew) ==
  IF grew /\ n > bump_sizes(hbit + 2) THEN hbit + 1
  ELSE IF ~ grew /\ n < bump_sizes(hbit) THEN hbit - 1
  ELSE hbit

Resize(lists, old, new) == Rehashed(lists, old, new)

Store(lists, n, grew) ==
  /\ popn' = n
  /\ hbit' = Bits1(n, grew)
  /\ bkts' = IF Bits1(n, grew) = hbit THEN lists ELSE Resize(lists, hbit, Bits1(n, grew))

Bucket(k) == bucket_of(hbit, k)
Without(list, i) == RemoveAt(list, i)

-----------------------------------------------------------------------------
insert(o) ==
  /\ TheOne(KeyOf(o)) = Null
  /\ hbit = Bits => popn + 1 <= bump_sizes(hbit + 2)
  /\ Store(Pushed(bkts, hbit, o), popn + 1, TRUE)
  /\ table' = table \cup {o}
  /\ UNCHANGED right

(* remove, by key or by pointer: with one object to a key it is the same.  *)
remove(k) ==
  LET b == Bucket(k)
      o == Find(bkts[b], k)
  IN  /\ IF o = Null THEN UNCHANGED <<popn, hbit, bkts>>
         ELSE Store([bkts EXCEPT ![b] = Without(@, PlaceOf(@, k))], popn - 1, FALSE)
      /\ table' = table \ InTable(k)
      /\ right' = (right /\ o = TheOne(k))

(* visit: the visitor gets the object with the key, or null, and returns   *)
(* it, another one with the same key (taken over in its place, or added at *)
(* the end of the list), or null.                                          *)
visit(k, o1) ==
  LET b == Bucket(k)
      list == bkts[b]
      o0 == Find(list, k)
  IN  /\ o1 # Null => KeyOf(o1) = k
      /\ (o0 = Null /\ o1 # Null /\ hbit = Bits) => popn + 1 <= bump_sizes(hbit + 2)
      /\ IF o0 = o1 THEN UNCHANGED <<popn, hbit, bkts>>
         ELSE IF o0 = Null THEN Store([bkts EXCEPT ![b] = Append(@, o1)], popn + 1, TRUE)
         ELSE IF o1 = Null
         THEN Store([bkts EXCEPT ![b] = Without(@, PlaceOf(@, k))], popn - 1, FALSE)
         ELSE /\ bkts' = [bkts EXCEPT ![b][PlaceOf(list, k)] = o1]
              /\ UNCHANGED <<popn, hbit>>
      /\ table' = (table \ InTable(k)) \cup (IF o1 = Null THEN {} ELSE {o1})
      /\ right' = (right /\ o0 = TheOne(k))

clear ==
  /\ popn' = 0 /\ hbit' = 0 /\ bkts' = [b \in {0} |-> <<>>]
  /\ table' = {} /\ UNCHANGED right

Next ==
  \/ clear
  \/ \E o \in Objects : insert(o)
  \/ \E k \in Keys : remove(k) \/ \E o \in Objects \cup {Null} : visit(k, o)

Spec == Init /\ [][Next]_vars

-----------------------------------------------------------------------------
(* for_each, list after list                                               *)
Visited == FlattenSeq([i \in 1 .. 2^hbit |-> bkts[i - 1]])

(* The map holds what was inserted and not removed: each object once, in a *)
(* bucket where it is found, whatever rehashing it went through; and every *)
(* call returned the object that has the key.                              *)
MapIsTable ==
  /\ popn = Cardinality(table)
  /\ Len(Visited) = popn /\ ToSet(Visited) = table
  /\ \A o \in table : Find(bkts[bucket_of(hbit, KeyOf(o))], KeyOf(o)) = o
  /\ right
=============================================================================
