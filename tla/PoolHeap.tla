------------------------------- MODULE PoolHeap -------------------------------
(***************************************************************************)
(* opnew.hxx, opnew.cxx: intru_heap, a binary heap of pools by address     *)
(* made of pointers.  The place of a pool is a number ix, and the way to   *)
(* place ix leads through the bits of ix + 1 below its first, the lowest   *)
(* first.  A bin of a thread keeps its held pools in one and takes the     *)
(* lowest when it runs empty.                                              *)
(*                                                                         *)
(* The links of a pool that is not in the heap are of no use, and are      *)
(* NoLink here.                                                            *)
(***************************************************************************)
EXTENDS Integers, Sequences, FiniteSetsExt

CONSTANT Pools        (* addresses                                         *)

ConstantsOK == Pools \subseteq Nat \ {0}

Null == 0

VARIABLES
  top,
  n,
  link,       (* of each pool: ix and its two kids                         *)
  held        (* what was inserted and not taken out yet                   *)

vars == <<top, n, link, held>>

Link(ix) == [ix |-> ix, kid |-> <<Null, Null>>]
NoLink == Link(-1)

Init == top = Null /\ n = 0 /\ link = [x \in Pools |-> NoLink] /\ held = {}

-----------------------------------------------------------------------------
(* A pointer to a pool is top or a kid of a pool: Top or <<pool, side>>.   *)
Top == <<Null, 0>>

Heap == [top |-> top, link |-> link]
SetHeap(s) == top' = s.top /\ link' = s.link

Get(s, at) == IF at = Top THEN s.top ELSE s.link[at[1]].kid[at[2]]
Put(s, at, x) ==
  IF at = Top THEN [s EXCEPT !.top = x] ELSE [s EXCEPT !.link[at[1]].kid[at[2]] = x]
Swapped(s, x, y) == [s EXCEPT !.link[x] = s.link[y], !.link[y] = s.link[x]]

Side(ix) == 1 + ((ix - 1) % 2)
Deeper(ix) == (ix - 1) \div 2

(* The pointers on the way to place ix, the last one to that place         *)
RECURSIVE Way(_, _, _)
Way(s, at, ix) ==
  IF ix = 0 THEN <<at>> ELSE <<at>> \o Way(s, <<Get(s, at), Side(ix)>>, Deeper(ix))
LastOf(way) == way[Len(way)]

(* insert: on the way to the new place the greater of two is carried on.   *)
RECURSIVE Carry(_, _, _, _)
Carry(s, at, ix, a) ==
  LET x == Get(s, at)
      here == [Put(s, at, a) EXCEPT !.link[a] = s.link[x]]
  IN  IF ix = 0 THEN [Put(s, at, a) EXCEPT !.link[a] = Link(n)]
      ELSE IF a < x THEN Carry(here, <<a, Side(ix)>>, Deeper(ix), x)
      ELSE Carry(s, <<x, Side(ix)>>, Deeper(ix), a)

insert(a) ==
  /\ a \notin held
  /\ SetHeap(Carry(Heap, Top, n, a))
  /\ n' = n + 1 /\ held' = held \cup {a}

(* The sift down from a pointer, to the lesser kid                         *)
FirstSide(kids) == 1
LesserSide(kids) == IF kids[2] # Null /\ kids[2] < kids[1] THEN 2 ELSE 1

RECURSIVE SiftDown(_, _)
SiftDown(s, at) ==
  LET x == Get(s, at)
      kids == s.link[x].kid
      k == LesserSide(kids)
      y == kids[k]
  IN  IF y = Null \/ x < y THEN s
      ELSE SiftDown(Put(Put(Swapped(s, x, y), at, y), <<y, k>>, x), <<y, k>>)

(* The sift up from below the pool at the end of the way; the pointer to   *)
(* it is set at the end.                                                   *)
RECURSIVE SiftUp(_, _, _)
SiftUp(s, way, x) ==
  IF Len(way) > 1 /\ x < LastOf(way)[1]
  THEN LET p == LastOf(way)[1]
           k == LastOf(way)[2]
       IN  SiftUp(Put(Swapped(s, p, x), <<x, k>>, p), SubSeq(way, 1, Len(way) - 1), x)
  ELSE Put(s, LastOf(way), x)

(* The last place is cut off; if that was not a, its pool takes a's.       *)
Taken(a, s, last) == [s EXCEPT !.link[last] = s.link[a], !.link[a] = NoLink]

Out(a) ==
  LET end == LastOf(Way(Heap, Top, n - 1))
      last == Get(Heap, end)
      cut == Put(Heap, end, Null)
      way == Way(cut, Top, link[a].ix)
      put == Taken(a, Put(cut, LastOf(way), last), last)
  IN  IF a = last THEN [cut EXCEPT !.link[a] = NoLink]
      ELSE IF Len(way) > 1 /\ last < LastOf(way)[1] THEN SiftUp(put, way, last)
      ELSE SiftDown(put, LastOf(way))

TakeOut(a) ==
  /\ SetHeap(Out(a))
  /\ n' = n - 1 /\ held' = held \ {a}

pop_top == n # 0 /\ TakeOut(top)
remove(a) == a \in held /\ TakeOut(a)

Next ==
  \/ pop_top
  \/ \E a \in Pools : insert(a) \/ remove(a)

Spec == Init /\ [][Next]_vars

-----------------------------------------------------------------------------
(* The places are filled with the held pools, once each; every pool knows  *)
(* its place and comes after its parent; so the top is the lowest.         *)
HeapOfHeld ==
  LET at(ix) == LastOf(Way(Heap, Top, ix))
  IN  /\ n = Cardinality(held)
      /\ {Get(Heap, at(ix)) : ix \in 0 .. n - 1} = held
      /\ \A ix \in 0 .. n - 1 :
           LET x == Get(Heap, at(ix))
           IN  link[x].ix = ix /\ at(ix)[1] < x
      /\ \A x \in held, k \in {1, 2} : link[x].kid[k] \in held \cup {Null}
      /\ n > 0 => top = Min(held)
=============================================================================
