------------------------------ MODULE ArenaTree ------------------------------
(***************************************************************************)
(* opnew.hxx, opnew.cxx: arena_holes, in which a thread finds one of its   *)
(* arenas that has a hole long enough.  It is a binary tree in the order   *)
(* in which arenas were created, grown without rotations; every node knows *)
(* the longest hole below each of its kids.  What happens in an arena is   *)
(* in module ArenaPages: here an arena is the length of its longest hole.  *)
(***************************************************************************)
EXTENDS Integers, Sequences, FiniteSetsExt

CONSTANTS
  ArenaN,     (* Bound: arenas of the thread                               *)
  HoleMax,    (* page_per_arena, 2042                                      *)
  LargestPn   (* the pages of the largest request, 128: others go to the   *)
              (* C library                                                 *)

(* arena_create enters the arena with its one hole of HoleMax and takes a  *)
(* blob out of it without telling the tree: a request that the tree then   *)
(* sends there must fit nevertheless.                                      *)
ConstantsOK ==
  /\ ArenaN \in Nat \ {0} /\ LargestPn \in Nat \ {0}
  /\ HoleMax >= 2 * LargestPn

Arenas == 0 .. ArenaN - 1     (* an arena is named by its holes_link.ix    *)
NoArena == -1

VARIABLES
  root, root_max, kid, kid_max,
  popn,           (* arenas created                                        *)
  hole_size_max   (* of each arena                                         *)

treeVars == <<root, root_max, kid, kid_max>>
vars == <<treeVars, popn, hole_size_max>>

Init ==
  /\ root = NoArena /\ root_max = 0 /\ popn = 0
  /\ kid = [a \in Arenas |-> <<NoArena, NoArena>>]
  /\ kid_max = [a \in Arenas |-> <<0, 0>>]
  /\ hole_size_max = [a \in Arenas |-> 0]

-----------------------------------------------------------------------------
(* A place in the tree is the root or <<parent, side>>, sides being 1 and 2*)
Root == <<NoArena, 0>>

Tree == [root |-> root, max |-> root_max, kid |-> kid, kid_max |-> kid_max]
SetTree(s) == root' = s.root /\ root_max' = s.max /\ kid' = s.kid /\ kid_max' = s.kid_max

KidAt(s, at) == IF at = Root THEN s.root ELSE s.kid[at[1]][at[2]]
MaxAt(s, at) == IF at = Root THEN s.max ELSE s.kid_max[at[1]][at[2]]
WithKid(s, at, a) ==
  IF at = Root THEN [s EXCEPT !.root = a] ELSE [s EXCEPT !.kid[at[1]][at[2]] = a]
WithMax(s, at, n) ==
  IF at = Root THEN [s EXCEPT !.max = n] ELSE [s EXCEPT !.kid_max[at[1]][at[2]] = n]
Raised(s, at, n) == WithMax(s, at, Max({MaxAt(s, at), n}))

Powers == {2^i : i \in 0 .. ArenaN}
TopBit(ix) == CHOOSE b \in Powers : b <= ix /\ ix < 2 * b

(* insert: a tree of 2^k - 1 arenas is full and becomes the left kid of    *)
(* the new one; else the new one belongs to its right.                     *)
RECURSIVE Insert(_, _, _, _)
Insert(s, at, ix, a) ==
  IF ix = 0 \/ ix + 1 \in Powers
  THEN LET above == [s EXCEPT !.kid[a] = <<KidAt(s, at), NoArena>>,
                              !.kid_max[a] = <<MaxAt(s, at), 0>>]
       IN  Raised(WithKid(above, at, a), at, HoleMax)
  ELSE Insert(Raised(s, at, HoleMax), <<KidAt(s, at), 2>>, ix - TopBit(ix), a)

(* fit_and_decrease: the way to an arena with a hole of n pages, oldest    *)
(* first.                                                                  *)
RECURSIVE WayToFit(_, _)
WayToFit(at, n) ==
  LET a == KidAt(Tree, at)
  IN  IF a = NoArena THEN <<at>>
      ELSE IF n <= kid_max[a][1] THEN <<at>> \o WayToFit(<<a, 1>>, n)
      ELSE IF n <= hole_size_max[a] THEN <<at>>
      ELSE <<at>> \o WayToFit(<<a, 2>>, n)

Fit(n) == LET way == WayToFit(Root, n) IN KidAt(Tree, way[Len(way)])

(* repair: up again, with the exact maxima.                                *)
OwnMax(s, a, n) == n
SubtreeMax(s, a, n) == Max({n, s.kid_max[a][1], s.kid_max[a][2]})

RECURSIVE Repair(_, _, _)
Repair(s, way, sizes) ==
  IF way = <<>> THEN s
  ELSE LET at == way[Len(way)]
           a == KidAt(s, at)
       IN  Repair(WithMax(s, at, SubtreeMax(s, a, sizes[a])), SubSeq(way, 1, Len(way) - 1), sizes)

(* The longest hole may be another one than that which shrinks.            *)
fit_and_decrease(n) ==
  /\ n <= root_max /\ Fit(n) # NoArena
  /\ \E left \in {i \in 0 .. HoleMax : hole_size_max[Fit(n)] - n <= i /\ i <= hole_size_max[Fit(n)]} :
       /\ hole_size_max' = [hole_size_max EXCEPT ![Fit(n)] = left]
       /\ SetTree(Repair(Tree, WayToFit(Root, n), hole_size_max'))
  /\ UNCHANGED popn

arena_create(n) ==
  /\ n > root_max /\ popn < ArenaN
  /\ popn' = popn + 1
  /\ SetTree(Insert(Tree, Root, popn, popn))
  /\ hole_size_max' = [hole_size_max EXCEPT ![popn] = HoleMax - n]

(* increased: down to a, whose longest hole has grown; it is told from its *)
(* ancestors by its number.                                                *)
RECURSIVE Lift(_, _, _, _)
Lift(s, at, a, n) ==
  LET p == KidAt(s, at)
  IN  IF p = NoArena \/ p = a THEN Raised(s, at, n)
      ELSE Lift(Raised(s, at, n), <<p, IF a < p THEN 1 ELSE 2>>, a, n)

increased(a, n) ==
  /\ n >= hole_size_max[a]
  /\ hole_size_max' = [hole_size_max EXCEPT ![a] = n]
  /\ SetTree(Lift(Tree, Root, a, n))
  /\ UNCHANGED popn

Next ==
  \/ \E n \in 1 .. LargestPn : fit_and_decrease(n) \/ arena_create(n)
  \/ \E a \in 0 .. popn - 1, n \in 0 .. HoleMax : increased(a, n)

Spec == Init /\ [][Next]_vars

-----------------------------------------------------------------------------
RECURSIVE InOrder(_)
InOrder(a) ==
  IF a = NoArena THEN <<>> ELSE InOrder(kid[a][1]) \o <<a>> \o InOrder(kid[a][2])

(* A request the tree does not turn away finds an arena with a hole long   *)
(* enough, though the maxima of a fresh arena are too high, and one it     *)
(* turns away would not have fitted anywhere; the order of the tree, by    *)
(* which increased() finds an arena, is that of creation.                  *)
FindsRoom ==
  /\ \A n \in 1 .. LargestPn :
       IF n <= root_max THEN Fit(n) # NoArena /\ hole_size_max[Fit(n)] >= n
       ELSE \A a \in 0 .. popn - 1 : hole_size_max[a] < n
  /\ InOrder(root) = [i \in 1 .. popn |-> i - 1]
=============================================================================
