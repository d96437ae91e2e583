--------------------------- MODULE EpochAllocator ---------------------------
(***************************************************************************)
(* devastator/threads/epoch_allocator.hxx: the arena for the messages of a *)
(* thread.  Nothing is freed: what is allocated in one epoch may be used   *)
(* again Epochs epochs later.  The arena is cut by edges into regions; the *)
(* allocator fills the region of the present epoch from bump to wall, then *)
(* once more the space beyond the last edge.  An epoch may thus have two   *)
(* regions, and when a new epoch begins, the two that no epoch needs any   *)
(* more are merged with their neighbours so that the number of edges stays.*)
(*                                                                         *)
(* Sizes are in grains of 32 bytes.                                        *)
(***************************************************************************)
EXTENDS Integers

CONSTANTS
  Epochs,     (* epochs, at least 2                                        *)
  Capacity,   (* capacity_                                                 *)
  Sizes, Aligns

ConstantsOK ==
  /\ Epochs \in Nat /\ Epochs >= 2 /\ Capacity \in Nat \ {0}
  /\ Sizes \subseteq Nat \ {0} /\ Aligns \subseteq {1, 2, 4, 8}

LastEdge == 2 * Epochs - 1

VARIABLES
  ed, bump, wall,
  lo,         (* lo_[0 .. Epochs-1]                                        *)
  edge,       (* edge_[0 .. 2*Epochs-1]                                    *)
  blocks      (* history: what was allocated in the last Epochs epochs:    *)
              (* [from, to, age]                                           *)

vars == <<ed, bump, wall, lo, edge, blocks>>

Init ==
  /\ edge = [i \in 0 .. LastEdge |-> 0]
  /\ ed = LastEdge /\ bump = 0 /\ wall = Capacity
  /\ lo = [e \in 0 .. Epochs - 1 |-> e]
  /\ blocks = {}

EdgeBefore(edges, i) == IF i = 0 THEN 0 ELSE edges[i - 1]

AlignUp(x, align) == ((x + align - 1) \div align) * align

Take(from, size) ==
  /\ bump' = from + size
  /\ blocks' = blocks \cup {[from |-> from, to |-> from + size, age |-> 0]}

(* There is room before the wall.                                          *)
AllocateHere(size, align) ==
  LET bump1 == AlignUp(bump, align)
  IN  /\ bump1 + size <= wall
      /\ Take(bump1, size)
      /\ UNCHANGED <<ed, wall, lo, edge>>

(* There is none: on to the space beyond the last edge.  The code asserts  *)
(* that there is room there, that is, that the arena is large enough.      *)
AllocateBeyond(size, align) ==
  LET edges == [edge EXCEPT ![ed] = bump]
      bump1 == AlignUp(edges[LastEdge - 1], align)
  IN  /\ AlignUp(bump, align) + size > wall
      /\ wall # Capacity
      /\ bump1 + size <= Capacity
      /\ edge' = edges
      /\ wall' = Capacity /\ ed' = LastEdge
      /\ Take(bump1, size)
      /\ UNCHANGED lo

(* The edge to be removed delimits the smaller of the two regions.         *)
RemovesLow(edges) ==
  LET l == lo[0]
  IN  \/ l + 1 = Epochs
      \/ edges[l] - EdgeBefore(edges, l) < edges[Epochs] - edges[Epochs - 1]

(* If the edge above is the highest there is, all of those fall back.      *)
Lowered(edges) ==
  IF edges[Epochs] = edges[LastEdge]
  THEN [i \in 0 .. LastEdge |-> IF i >= Epochs THEN edges[Epochs - 1] ELSE edges[i]]
  ELSE edges

ShiftedDown(edges, rem) ==
  [i \in 0 .. LastEdge |-> IF i >= rem /\ i < LastEdge THEN edges[i + 1] ELSE edges[i]]

NotRenumbered(rem, e) == lo[e]
Renumbered(rem, e) == lo[e] - (IF rem <= lo[e] THEN 1 ELSE 0)

bump_epoch ==
  LET edges == [edge EXCEPT ![ed] = bump]
      rem == IF RemovesLow(edges) THEN lo[0] ELSE Epochs
      ed1 == IF RemovesLow(edges) THEN Epochs - 1 ELSE lo[0]
      after == ShiftedDown(Lowered(edges), rem)
  IN  /\ ed' = ed1
      /\ edge' = after
      /\ lo' = [e \in 0 .. Epochs - 1 |-> IF e = Epochs - 1 THEN ed1 ELSE Renumbered(rem, e + 1)]
      /\ bump' = EdgeBefore(after, ed1)
      /\ wall' = after[ed1]
      /\ blocks' = {[from |-> b.from, to |-> b.to, age |-> b.age + 1] :
                     b \in {c \in blocks : c.age + 1 < Epochs}}

Next ==
  \/ \E size \in Sizes, align \in Aligns :
       AllocateHere(size, align) \/ AllocateBeyond(size, align)
  \/ bump_epoch

Spec == Init /\ [][Next]_vars

-----------------------------------------------------------------------------
(* A message keeps its memory for Epochs epochs: no later message of that  *)
(* time gets any of it, and all of it lies in the arena.                   *)
NoOverlap ==
  /\ \A b \in blocks : 0 <= b.from /\ b.to <= Capacity
  /\ \A b, c \in blocks : b # c => b.to <= c.from \/ c.to <= b.from
=============================================================================
