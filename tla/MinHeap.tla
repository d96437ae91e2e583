------------------------------- MODULE MinHeap -------------------------------
(***************************************************************************)
(* devastator/intrusive_min_heap.hxx: a binary heap that stores in each    *)
(* element its place, so that it can be taken out or moved when its key    *)
(* changes.  The engine keeps the cds of a rank in two of them, the future *)
(* events of a cd in one and the events sent near in one.                  *)
(*                                                                         *)
(* The array grows and shrinks by copying; here it is a function whose     *)
(* domain is the places in use.  Nothing reads the place or the key of an  *)
(* element outside, and they are OutOfHeap and NoKey here.                 *)
(***************************************************************************)
EXTENDS Integers, FiniteSets, Functions

CONSTANT
  KeysOf      (* Bound: of each element, the keys it may have              *)

Elements == DOMAIN KeysOf
ConstantsOK == \A x \in Elements : KeysOf[x] \subseteq Int

VARIABLES
  heap,       (* buf_[0 .. n_-1]                                           *)
  ix,         (* ix_of                                                     *)
  key,        (* key_of                                                    *)
  members,    (* what was inserted and not taken out yet                   *)
  right       (* history: did pop_least always return a least element?     *)

vars == <<heap, ix, key, members, right>>

size == Cardinality(DOMAIN heap)
OutOfHeap == -1
NoKey == 0

Init ==
  /\ heap = <<>> /\ members = {}
  /\ ix = [x \in Elements |-> OutOfHeap]
  /\ key = [x \in Elements |-> NoKey]
  /\ right = TRUE

-----------------------------------------------------------------------------
(* The sifts: x moves along a path of places; the elements on it move by   *)
(* one place the other way.  A state of the heap is its array and ix.      *)

State(h, i) == [heap |-> h, ix |-> i]
Put(s, place, x) ==
  State([s.heap EXCEPT ![place] = x], [s.ix EXCEPT ![x] = place])

ParentOf(place) == (place - 1) \div 2

(* decreased: toward the root                                              *)
RECURSIVE Raise(_, _, _, _)
Raise(s, place, x, k) ==
  IF place # 0 /\ k[x] < k[s.heap[ParentOf(place)]]
  THEN Raise(Put(s, place, s.heap[ParentOf(place)]), ParentOf(place), x, k)
  ELSE Put(s, place, x)

(* increased: toward the leaves, to the lesser of two kids                 *)
LesserKid(s, place, k) ==
  LET kids == {2 * place + 1, 2 * place + 2} \cap DOMAIN s.heap
  IN  CHOOSE c \in kids : \A d \in kids : \/ k[s.heap[c]] < k[s.heap[d]]
                                          \/ k[s.heap[c]] = k[s.heap[d]] /\ c >= d
FirstKid(s, place, k) == 2 * place + 1

TheKid(s, place, k) == LesserKid(s, place, k)

RECURSIVE Sink(_, _, _, _)
Sink(s, place, x, k) ==
  IF /\ 2 * place + 1 \in DOMAIN s.heap
     /\ k[s.heap[TheKid(s, place, k)]] < k[x]
  THEN Sink(Put(s, place, s.heap[TheKid(s, place, k)]), TheKid(s, place, k), x, k)
  ELSE Put(s, place, x)

Now == State(heap, ix)
Set(s) == heap' = s.heap /\ ix' = s.ix

-----------------------------------------------------------------------------
insert(x, k) ==
  LET keys == [key EXCEPT ![x] = k]
  IN  /\ x \notin members
      /\ Set(Raise(State([i \in 0 .. size |-> IF i = size THEN x ELSE heap[i]],
                         [ix EXCEPT ![x] = size]), size, x, keys))
      /\ members' = members \cup {x} /\ key' = keys
      /\ UNCHANGED right

Left(x) ==
  /\ members' = members \ {x}
  /\ key' = [key EXCEPT ![x] = NoKey]

Popped == Restrict(heap, 0 .. size - 2)
LastOne == heap[size - 1]

pop_least ==
  LET x == heap[0]
      out == [ix EXCEPT ![x] = OutOfHeap]
  IN  /\ members # {}
      /\ Set(IF size = 1 THEN State(Popped, out)
             ELSE Sink(State([Popped EXCEPT ![0] = LastOne], out), 0, LastOne, key))
      /\ Left(x)
      /\ right' = (right /\ \A y \in members : key[x] <= key[y])

(* erase: the last element takes the place of x and moves from there, up   *)
(* or down, by how its key compares to that of x.                          *)
erase(x) ==
  LET at == ix[x]
      out == [ix EXCEPT ![x] = OutOfHeap]
      s == State([Popped EXCEPT ![at] = LastOne], out)
  IN  /\ Set(IF x = LastOne THEN State(Popped, out)
             ELSE IF key[LastOne] <= key[x] THEN Raise(s, at, LastOne, key)
             ELSE Sink(s, at, LastOne, key))
      /\ Left(x)
      /\ UNCHANGED right

(* A caller changes the key of an element and says which way, or not.      *)
Rekey(x, k, s) ==
  /\ key' = [key EXCEPT ![x] = k]
  /\ Set(s)
  /\ UNCHANGED <<members, right>>

decreased(x, k) == k <= key[x] /\ Rekey(x, k, Raise(Now, ix[x], x, [key EXCEPT ![x] = k]))
increased(x, k) == k >= key[x] /\ Rekey(x, k, Sink(Now, ix[x], x, [key EXCEPT ![x] = k]))

changed(x, k) ==
  LET new == [key EXCEPT ![x] = k]
      up == Raise(Now, ix[x], x, new)
  IN  Rekey(x, k, IF up.ix[x] # ix[x] THEN up ELSE Sink(Now, ix[x], x, new))

Next ==
  \/ pop_least
  \/ \E x \in Elements : \E k \in KeysOf[x] : insert(x, k)
  \/ \E x \in members : erase(x)
  \/ \E x \in members : \E k \in KeysOf[x] : decreased(x, k) \/ increased(x, k) \/ changed(x, k)

Spec == Init /\ [][Next]_vars

-----------------------------------------------------------------------------
(* The heap holds its members once each, every one knows its place, no kid *)
(* comes before its parent, and pop_least returned a least of all.         *)
HeapInOrder ==
  /\ DOMAIN heap = 0 .. Cardinality(members) - 1
  /\ Range(heap) = members
  /\ \A i \in DOMAIN heap : ix[heap[i]] = i /\ (i # 0 => key[heap[ParentOf(i)]] <= key[heap[i]])
  /\ right
=============================================================================
