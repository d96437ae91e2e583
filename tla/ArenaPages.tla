------------------------------ MODULE ArenaPages ------------------------------
(***************************************************************************)
(* opnew.hxx, opnew.cxx: the pages of one arena.  Blobs (and pools, which  *)
(* are blobs) and holes alternate; pmap says at the first and the last     *)
(* page of each what it is and how long, and at the pages between nothing  *)
(* that can be relied upon, but for pools.  A tree of maxima over pairs of *)
(* pages finds a hole that is long enough.                                 *)
(***************************************************************************)
EXTENDS Integers, FiniteSetsExt

CONSTANTS
  PageN,      (* page_per_arena, 2042                                      *)
  MaxPn       (* Bound: the pages of a blob                                *)

ConstantsOK == PageN \in Nat /\ PageN > 2 /\ MaxPn \in 1 .. PageN

Pages == 0 .. PageN - 1
HeadMark == 16 * 1024       (* tells the head of a blob from its body      *)

log_up(x) == CHOOSE k \in 0 .. x : 2^k >= x /\ (k > 0 => 2^(k - 1) < x)
hole_lev_n == 1 + log_up((PageN + 1) \div 2)
FirstLeaf == 2^(hole_lev_n - 1) - 1

VARIABLES
  pmap, holes,
  blobs       (* history: what is handed out, [page, n, pool]              *)

vars == <<pmap, holes, blobs>>

pmap_is_hole(p) == pmap[p] > 0
pmap_blob_head_length(p) == - pmap[p] - HeadMark
pmap_is_blob_head(p) == pmap[p] < - HeadMark
pmap_blob_any_to_head(p) == IF pmap_is_blob_head(p) THEN p ELSE - pmap[p] - 1

-----------------------------------------------------------------------------
(* arena_hole_changed: up from the leaf of page p, until a maximum stays.  *)
Sibling(t) == IF t % 2 = 1 THEN t + 1 ELSE t - 1
NodeMax(tree, t, n) == Max({n, tree[Sibling(t)]})

RECURSIVE Climb(_, _, _)
Climb(tree, t, n) ==
  LET most == NodeMax(tree, t, n)
      up == (t - 1) \div 2
      new == [tree EXCEPT ![up] = most]
  IN  IF up = 0 \/ most = tree[up] THEN new ELSE Climb(new, up, most)

hole_changed(tree, p, n) ==
  LET leaf == FirstLeaf + p \div 2 IN Climb([tree EXCEPT ![leaf] = n], leaf, n)

(* A hole has its length at both ends.                                     *)
OneEnd(pm, p, n) == [pm EXCEPT ![p] = n]
BothEnds(pm, p, n) == [pm EXCEPT ![p] = n, ![p + n - 1] = n]
MarkHole(pm, p, n) == BothEnds(pm, p, n)

(* arena_create                                                            *)
Init ==
  /\ pmap = MarkHole([p \in Pages |-> 0], 0, PageN)
  /\ holes = hole_changed([t \in 0 .. 2^hole_lev_n - 2 |-> 0], 0, PageN)
  /\ blobs = {}

(* Down the tree, to the left where the left has a hole of n pages         *)
RECURSIVE FitLeaf(_, _)
FitLeaf(t, n) ==
  IF t >= FirstLeaf THEN t
  ELSE FitLeaf(IF holes[2 * t + 1] < n THEN 2 * t + 2 ELSE 2 * t + 1, n)

(* The hole of a leaf begins at one of its two pages.                      *)
FitHole(n) ==
  LET p == 2 * (FitLeaf(0, n) - FirstLeaf) IN IF pmap_is_hole(p) THEN p ELSE p + 1

(* arena_alloc_avail, and what arena_pool_init does to pmap                *)
arena_alloc_avail(n, pool) ==
  LET hp == FitHole(n)
      rest == pmap[hp] - n
      taken == [pmap EXCEPT ![hp + n - 1] = - hp - 1, ![hp] = - n - HeadMark]
      marked == IF pool THEN [p \in Pages |-> IF p \in hp + 1 .. hp + n - 1 THEN - hp - 1
                                              ELSE taken[p]]
                ELSE taken
      shut == hole_changed(holes, hp, 0)
  IN  /\ holes[0] >= n
      /\ IF rest = 0 THEN pmap' = marked /\ holes' = shut
         ELSE /\ pmap' = MarkHole(marked, hp + n, rest)
              /\ holes' = hole_changed(shut, hp + n, rest)
      /\ blobs' = blobs \cup {[page |-> hp, n |-> n, pool |-> pool]}

(* The holes at both sides become one with it.                             *)
arena_dealloc_blob(p) ==
  LET n == pmap_blob_head_length(p)
      l == IF p > 0 /\ pmap_is_hole(p - 1) THEN pmap[p - 1] ELSE 0
      r == IF p + n # PageN /\ pmap_is_hole(p + n) THEN pmap[p + n] ELSE 0
      shut == IF r # 0 THEN hole_changed(holes, p + n, 0) ELSE holes
  IN  /\ pmap' = MarkHole(pmap, p - l, l + n + r)
      /\ holes' = hole_changed(shut, p - l, l + n + r)
      /\ blobs' = {b \in blobs : b.page # p}

Next ==
  \/ \E n \in 1 .. MaxPn, pool \in BOOLEAN : arena_alloc_avail(n, pool)
  \/ \E b \in blobs : arena_dealloc_blob(b.page)

Spec == Init /\ [][Next]_vars

-----------------------------------------------------------------------------
PagesOf(b) == b.page .. b.page + b.n - 1
FreePages == Pages \ UNION {PagesOf(b) : b \in blobs}
Runs == {n \in 1 .. PageN : \E p \in Pages : p + n <= PageN /\ p .. p + n - 1 \subseteq FreePages}

(* Blobs are handed out where no other blob is, and know their length; an  *)
(* object of a pool finds the head of the pool from whatever page it lies  *)
(* in; and the root of the tree is the longest run of free pages, so that  *)
(* a request is turned away only if nothing fits.                          *)
PagesExact ==
  /\ \A b \in blobs :
       /\ PagesOf(b) \subseteq Pages
       /\ pmap_is_blob_head(b.page) /\ pmap_blob_head_length(b.page) = b.n
       /\ \A p \in PagesOf(b) : b.pool => pmap_blob_any_to_head(p) = b.page
  /\ \A b, c \in blobs : b # c => PagesOf(b) \cap PagesOf(c) = {}
  /\ holes[0] = Max(Runs \cup {0})
=============================================================================
