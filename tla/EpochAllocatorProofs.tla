------------------------ MODULE EpochAllocatorProofs ------------------------
(***************************************************************************)
(* Proofs about EpochAllocator for any number of epochs and any sizes: no  *)
(* message gets memory of one that is younger than Epochs epochs.          *)
(***************************************************************************)
EXTENDS EpochAllocator, TLAPS

-----------------------------------------------------------------------------
(* An epoch e, the oldest being 0, may have two regions: a low one, lo[e], *)
(* and a high one, Epochs + e.  Region i lies between edge[i-1] and edge[i]*)
(* but that of the present epoch, ed, ends at bump so far, and if it is the*)
(* last, edge[LastEdge] means nothing yet.                                 *)
Indices == 0 .. LastEdge
Top(i) == IF i = ed THEN bump ELSE edge[i]
Bottom(i) == EdgeBefore(edge, i)

TypeOK ==
  /\ ed \in Indices /\ bump \in Nat /\ wall \in Nat
  /\ lo \in [0 .. Epochs - 1 -> 0 .. Epochs - 1]
  /\ edge \in [Indices -> Nat]
  /\ blocks \subseteq [from : Nat, to : Nat, age : 0 .. Epochs - 1]

(* The low regions are those below Epochs, one for each epoch.             *)
LowOK == \A d, e \in 0 .. Epochs - 1 : lo[d] = lo[e] => d = e

Rising(f) == \A i, j \in Indices : i <= j => f[i] <= f[j]
EdgesOK ==
  /\ ed \in {lo[Epochs - 1], LastEdge}
  /\ wall = IF ed = LastEdge THEN Capacity ELSE edge[ed]
  /\ Bottom(ed) <= bump /\ bump <= wall /\ wall <= Capacity
  /\ \A i, j \in Indices : i <= j /\ (j = LastEdge => ed # LastEdge) => edge[i] <= edge[j]
  /\ ed # LastEdge => edge[LastEdge] <= Capacity

(* A block lies in one of the regions of its epoch.                        *)
MayHold(a, i) ==
  \/ i = lo[Epochs - 1 - a]
  \/ i = LastEdge - a /\ (a = 0 => ed = LastEdge)
BlocksOK ==
  /\ \A b \in blocks : b.from < b.to
  /\ \A b \in blocks : \E i \in Indices : MayHold(b.age, i) /\ Bottom(i) <= b.from /\ b.to <= Top(i)

IInv == TypeOK /\ LowOK /\ EdgesOK /\ BlocksOK /\ NoOverlap

-----------------------------------------------------------------------------
(* The numbers of the constants.                                           *)
LEMMA ConstantFacts ==
  ASSUME ConstantsOK
  PROVE  /\ Epochs \in Nat /\ Epochs >= 2 /\ LastEdge \in Nat /\ LastEdge = 2 * Epochs - 1
         /\ LastEdge - 1 >= Epochs /\ Capacity \in Nat
         /\ \A size \in Sizes : size \in Nat /\ size > 0
BY DEF ConstantsOK, LastEdge

(* Alignment moves upwards.                                                *)
LEMMA AlignUpIs ==
  ASSUME ConstantsOK, NEW x \in Nat, NEW align \in Aligns
  PROVE  AlignUp(x, align) \in Nat /\ x <= AlignUp(x, align)
<1>1. align \in {1, 2, 4, 8}
  BY DEF ConstantsOK
<1>2. CASE align = 1
  BY <1>2 DEF AlignUp
<1>3. CASE align = 2
  BY <1>3 DEF AlignUp
<1>4. CASE align = 4
  BY <1>4 DEF AlignUp
<1>5. CASE align = 8
  BY <1>5 DEF AlignUp
<1> QED
  BY <1>1, <1>2, <1>3, <1>4, <1>5

LEMMA InitInv ==
  ASSUME ConstantsOK, Init
  PROVE  IInv
<1>1. TypeOK /\ LowOK
  BY ConstantFacts DEF Init, TypeOK, LowOK, Indices
<1>2. EdgesOK
  BY ConstantFacts DEF Init, EdgesOK, Bottom, EdgeBefore, Indices
<1>3. BlocksOK /\ NoOverlap
  BY DEF Init, BlocksOK, NoOverlap
<1> QED
  BY <1>1, <1>2, <1>3 DEF IInv

-----------------------------------------------------------------------------
(* Nothing that is in use lies between bump and wall,                      *)
LEMMA FreeBeforeWall ==
  ASSUME ConstantsOK, IInv, NEW b \in blocks
  PROVE  b.to <= bump \/ wall <= b.from
<1>0. TypeOK /\ EdgesOK /\ BlocksOK
  BY DEF IInv
<1>1. b.from \in Nat /\ b.to \in Nat /\ b.age \in 0 .. Epochs - 1
  BY <1>0 DEF TypeOK
<1>2. PICK i \in Indices : MayHold(b.age, i) /\ Bottom(i) <= b.from /\ b.to <= Top(i)
  BY <1>0 DEF BlocksOK
<1>3. ed \in Indices /\ bump \in Nat /\ wall \in Nat /\ \A j \in Indices : edge[j] \in Nat
  BY <1>0 DEF TypeOK
<1>4. i \in Int /\ ed \in Int /\ i >= 0 /\ ed >= 0 /\ i <= LastEdge /\ ed <= LastEdge /\ LastEdge \in Nat
  BY <1>2, <1>3, ConstantFacts DEF Indices
<1>5. CASE i = ed
  BY <1>2, <1>5 DEF Top
<1>6. CASE i < ed
  <2>1. ed - 1 \in Indices /\ i <= ed - 1 /\ ed - 1 # LastEdge /\ ed # 0 /\ i # ed
    BY <1>4, <1>6 DEF Indices
  <2>2. edge[i] <= edge[ed - 1]
    BY <1>0, <1>2, <2>1 DEF EdgesOK
  <2>3. edge[ed - 1] <= bump
    BY <1>0, <2>1 DEF EdgesOK, Bottom, EdgeBefore
  <2>4. b.to <= edge[i] /\ edge[i] \in Nat /\ edge[ed - 1] \in Nat
    BY <1>2, <1>3, <2>1 DEF Top
  <2> QED
    BY <1>1, <1>3, <2>2, <2>3, <2>4
<1>7. CASE ed < i
  <2>1. i - 1 \in Indices /\ ed <= i - 1 /\ i - 1 # LastEdge /\ i # 0 /\ ed # LastEdge
    BY <1>4, <1>7 DEF Indices
  <2>2. edge[ed] <= edge[i - 1] /\ wall = edge[ed]
    BY <1>0, <1>3, <2>1 DEF EdgesOK
  <2>3. edge[i - 1] <= b.from
    BY <1>2, <2>1 DEF Bottom, EdgeBefore
  <2> QED
    BY <1>1, <1>3, <2>1, <2>2, <2>3
<1> QED
  BY <1>4, <1>5, <1>6, <1>7

(* and nothing beyond the last edge but what the present epoch has there.  *)
LEMMA FreeBeyond ==
  ASSUME ConstantsOK, IInv, ed # LastEdge, NEW b \in blocks
  PROVE  b.to <= edge[LastEdge - 1]
<1>0. TypeOK /\ EdgesOK /\ BlocksOK
  BY DEF IInv
<1>1. b.from \in Nat /\ b.to \in Nat /\ b.age \in 0 .. Epochs - 1
  BY <1>0 DEF TypeOK
<1>2. PICK i \in Indices : MayHold(b.age, i) /\ Bottom(i) <= b.from /\ b.to <= Top(i)
  BY <1>0 DEF BlocksOK
<1>3. ed \in Indices /\ bump \in Nat /\ wall \in Nat /\ \A j \in Indices : edge[j] \in Nat
  BY <1>0 DEF TypeOK
<1>4. lo[Epochs - 1 - b.age] \in 0 .. Epochs - 1 /\ lo[Epochs - 1] \in 0 .. Epochs - 1
  BY <1>0, <1>1, ConstantFacts DEF TypeOK
<1>5. i <= LastEdge - 1 /\ ed <= LastEdge - 1 /\ LastEdge - 1 \in Indices /\ LastEdge - 1 # LastEdge
  <2>1. ed \in 0 .. Epochs - 1
    BY <1>0, <1>4 DEF EdgesOK
  <2>2. i # LastEdge
    BY <1>1, <1>2, <1>4, ConstantFacts DEF MayHold
  <2> QED
    BY <1>2, <2>1, <2>2, ConstantFacts DEF Indices
<1>6. edge[i] <= edge[LastEdge - 1] /\ edge[ed] <= edge[LastEdge - 1]
  BY <1>0, <1>2, <1>3, <1>5 DEF EdgesOK
<1>7. bump <= edge[ed]
  BY <1>0 DEF EdgesOK
<1>8. b.to <= edge[i] \/ b.to <= bump
  BY <1>2 DEF Top
<1> QED
  BY <1>1, <1>2, <1>3, <1>5, <1>6, <1>7, <1>8

LEMMA AllocateHereKept ==
  ASSUME ConstantsOK, IInv, NEW size \in Sizes, NEW align \in Aligns, AllocateHere(size, align)
  PROVE  IInv'
<1>0. TypeOK /\ LowOK /\ EdgesOK /\ BlocksOK /\ NoOverlap
  BY DEF IInv
<1>1. size \in Nat /\ size > 0
  BY ConstantFacts
<1>2. ed \in Indices /\ bump \in Nat /\ wall \in Nat /\ \A j \in Indices : edge[j] \in Nat
  BY <1>0 DEF TypeOK
<1>3. PICK from \in Nat : from = AlignUp(bump, align) /\ bump <= from
  BY <1>2, AlignUpIs
<1>4. PICK new : new = [from |-> from, to |-> from + size, age |-> 0]
  OBVIOUS
<1>5. /\ from + size <= wall /\ bump' = from + size /\ blocks' = blocks \cup {new}
      /\ ed' = ed /\ wall' = wall /\ lo' = lo /\ edge' = edge
  BY <1>3, <1>4 DEF AllocateHere, Take
<1>6. new.from = from /\ new.to = from + size /\ new.age = 0
  BY <1>4
<1>7. TypeOK'
  <2>1. new \in [from : Nat, to : Nat, age : 0 .. Epochs - 1]
    BY <1>1, <1>4, ConstantFacts
  <2> QED
    BY <1>0, <1>1, <1>5, <2>1 DEF TypeOK
<1>8. LowOK'
  BY <1>0, <1>5 DEF LowOK
<1>9. EdgesOK'
  <2>1. Bottom(ed)' = Bottom(ed) /\ Bottom(ed) \in Nat
    BY <1>2, <1>5, ConstantFacts DEF Bottom, EdgeBefore, Indices
  <2>2. Bottom(ed) <= bump /\ bump <= from + size
    BY <1>0, <1>1, <1>2, <1>3 DEF EdgesOK
  <2>3. (Bottom(ed) <= bump /\ bump <= wall)'
    BY <1>1, <1>2, <1>3, <1>5, <2>1, <2>2
  <2> QED
    BY <1>0, <1>5, <2>3 DEF EdgesOK
<1>10. BlocksOK'
  <2>1. \A b \in blocks' : b.from < b.to
    BY <1>0, <1>1, <1>3, <1>5, <1>6 DEF BlocksOK
  <2>2. ASSUME NEW b \in blocks
        PROVE  \E i \in Indices : (MayHold(b.age, i) /\ Bottom(i) <= b.from /\ b.to <= Top(i))'
    <3>1. PICK i \in Indices : MayHold(b.age, i) /\ Bottom(i) <= b.from /\ b.to <= Top(i)
      BY <1>0 DEF BlocksOK
    <3>2. MayHold(b.age, i)' /\ (Bottom(i) <= b.from)'
      BY <1>5, <3>1 DEF MayHold, Bottom, EdgeBefore
    <3>3. b.to \in Nat /\ edge[i] \in Nat
      BY <1>0, <1>2 DEF TypeOK
    <3>4. (b.to <= Top(i))'
      BY <1>1, <1>2, <1>3, <1>5, <3>1, <3>3 DEF Top
    <3> QED
      BY <3>2, <3>4
  <2>3. (MayHold(new.age, ed) /\ Bottom(ed) <= new.from /\ new.to <= Top(ed))'
    <3>1. MayHold(new.age, ed)'
      BY <1>0, <1>5, <1>6, ConstantFacts DEF MayHold, EdgesOK
    <3>2. Bottom(ed)' = Bottom(ed) /\ Bottom(ed) \in Nat
      BY <1>2, <1>5, ConstantFacts DEF Bottom, EdgeBefore, Indices
    <3>3. (Bottom(ed) <= new.from)'
      BY <1>0, <1>2, <1>3, <1>6, <3>2 DEF EdgesOK
    <3>4. (new.to <= Top(ed))'
      BY <1>5, <1>6, <1>1, <1>3 DEF Top
    <3> QED
      BY <3>1, <3>3, <3>4
  <2>4. \E i \in Indices : (MayHold(new.age, i) /\ Bottom(i) <= new.from /\ new.to <= Top(i))'
    BY <1>2, <1>5, <2>3
  <2> QED
    BY <1>5, <2>1, <2>2, <2>4 DEF BlocksOK
<1>11. NoOverlap'
  <2>1. ASSUME NEW b \in blocks PROVE b.to <= new.from \/ new.to <= b.from
    <3>1. b.to <= bump \/ wall <= b.from
      BY <2>1, FreeBeforeWall
    <3>2. b.from \in Nat /\ b.to \in Nat
      BY <1>0 DEF TypeOK
    <3> QED
      BY <1>1, <1>2, <1>3, <1>5, <1>6, <3>1, <3>2
  <2>2. 0 <= new.from /\ new.to <= Capacity
    BY <1>0, <1>1, <1>2, <1>3, <1>5, <1>6, ConstantFacts DEF EdgesOK
  <2> QED
    BY <1>0, <1>5, <2>1, <2>2 DEF NoOverlap
<1> QED
  BY <1>7, <1>8, <1>9, <1>10, <1>11 DEF IInv

LEMMA AllocateBeyondKept ==
  ASSUME ConstantsOK, IInv, NEW size \in Sizes, NEW align \in Aligns, AllocateBeyond(size, align)
  PROVE  IInv'
<1>0. TypeOK /\ LowOK /\ EdgesOK /\ BlocksOK /\ NoOverlap
  BY DEF IInv
<1>1. size \in Nat /\ size > 0
  BY ConstantFacts
<1>2. /\ ed \in Indices /\ bump \in Nat /\ wall \in Nat /\ \A j \in Indices : edge[j] \in Nat
      /\ edge \in [Indices -> Nat]
  BY <1>0 DEF TypeOK
<1>3. PICK edges : edges = [edge EXCEPT ![ed] = bump]
  OBVIOUS
<1>4. edges \in [Indices -> Nat] /\ \A j \in Indices : edges[j] = Top(j) /\ edges[j] \in Nat
  BY <1>2, <1>3 DEF Top
<1>5. ed # LastEdge
  BY <1>0 DEF AllocateBeyond, EdgesOK
<1>6. /\ LastEdge \in Indices /\ LastEdge - 1 \in Indices /\ ed # LastEdge - 1 /\ LastEdge # 0
      /\ ed <= LastEdge - 1
  <2>1. lo[Epochs - 1] \in 0 .. Epochs - 1
    BY <1>0, ConstantFacts DEF TypeOK
  <2>2. ed \in 0 .. Epochs - 1
    BY <1>0, <1>5, <2>1 DEF EdgesOK
  <2> QED
    BY <2>2, ConstantFacts DEF Indices
<1>7. edges[LastEdge - 1] = edge[LastEdge - 1] /\ edge[LastEdge - 1] \in Nat
  BY <1>2, <1>4, <1>6 DEF Top
<1>8. PICK from \in Nat : from = AlignUp(edges[LastEdge - 1], align) /\ edge[LastEdge - 1] <= from
  BY <1>7, AlignUpIs
<1>9. PICK new : new = [from |-> from, to |-> from + size, age |-> 0]
  OBVIOUS
<1>10. /\ from + size <= Capacity /\ bump' = from + size /\ blocks' = blocks \cup {new}
       /\ ed' = LastEdge /\ wall' = Capacity /\ lo' = lo /\ edge' = edges
  BY <1>3, <1>8, <1>9 DEF AllocateBeyond, Take
<1>11. new.from = from /\ new.to = from + size /\ new.age = 0
  BY <1>9
<1>12. TypeOK'
  <2>1. new \in [from : Nat, to : Nat, age : 0 .. Epochs - 1]
    BY <1>1, <1>9, ConstantFacts
  <2>2. blocks' \subseteq [from : Nat, to : Nat, age : 0 .. Epochs - 1]
    BY <1>0, <1>10, <2>1 DEF TypeOK
  <2>3. ed' \in Indices /\ edge' \in [Indices -> Nat]
    BY <1>4, <1>6, <1>10
  <2>4. bump' \in Nat /\ wall' \in Nat
    BY <1>1, <1>8, <1>10, ConstantFacts
  <2>5. lo' \in [0 .. Epochs - 1 -> 0 .. Epochs - 1]
    BY <1>0, <1>10 DEF TypeOK
  <2> QED
    BY <2>2, <2>3, <2>4, <2>5 DEF TypeOK, Indices
<1>13. LowOK'
  BY <1>0, <1>10 DEF LowOK
<1>14. bump <= edge[ed] /\ wall = edge[ed]
  BY <1>0, <1>5 DEF EdgesOK
<1>15. EdgesOK'
  <2>1. Bottom(ed)' = edge[LastEdge - 1]
    BY <1>6, <1>7, <1>10 DEF Bottom, EdgeBefore
  <2>2. (Bottom(ed) <= bump /\ bump <= wall /\ wall <= Capacity)'
    BY <1>1, <1>7, <1>8, <1>10, <2>1, ConstantFacts
  <2>3. ASSUME NEW i \in Indices, NEW j \in Indices, i <= j, j # LastEdge
        PROVE  edges[i] <= edges[j]
    <3>1. edge[i] <= edge[j] /\ edge[i] \in Nat /\ edge[j] \in Nat
      BY <1>0, <1>2, <2>3 DEF EdgesOK
    <3>2. CASE i = ed /\ j = ed
      BY <1>4, <3>2
    <3>3. CASE i = ed /\ j # ed
      BY <1>2, <1>4, <1>14, <3>1, <3>3 DEF Top
    <3>4. CASE i # ed /\ j = ed
      <4>1. i <= ed - 1 /\ ed - 1 \in Indices /\ ed # 0 /\ ed - 1 # LastEdge
        BY <1>2, <2>3, <3>4, ConstantFacts DEF Indices
      <4>2. edge[i] <= edge[ed - 1] /\ edge[ed - 1] <= bump /\ edge[ed - 1] \in Nat
        BY <1>0, <1>2, <4>1 DEF EdgesOK, Bottom, EdgeBefore
      <4> QED
        BY <1>2, <1>4, <3>1, <3>4, <4>2 DEF Top
    <3>5. CASE i # ed /\ j # ed
      BY <1>4, <3>1, <3>5 DEF Top
    <3> QED
      BY <3>2, <3>3, <3>4, <3>5
  <2> QED
    BY <1>10, <2>2, <2>3 DEF EdgesOK
<1>16. BlocksOK'
  <2>1. \A b \in blocks' : b.from < b.to
    BY <1>0, <1>1, <1>8, <1>10, <1>11 DEF BlocksOK
  <2>2. ASSUME NEW b \in blocks
        PROVE  \E i \in Indices : (MayHold(b.age, i) /\ Bottom(i) <= b.from /\ b.to <= Top(i))'
    <3>1. PICK i \in Indices : MayHold(b.age, i) /\ Bottom(i) <= b.from /\ b.to <= Top(i)
      BY <1>0 DEF BlocksOK
    <3>2. b.from \in Nat /\ b.to \in Nat /\ b.age \in 0 .. Epochs - 1
      BY <1>0 DEF TypeOK
    <3>3. MayHold(b.age, i)'
      BY <1>10, <3>1 DEF MayHold
    <3>4. i # LastEdge
      <4>1. lo[Epochs - 1 - b.age] \in 0 .. Epochs - 1
        BY <1>0, <3>2, ConstantFacts DEF TypeOK
      <4> QED
        BY <1>5, <3>1, <3>2, <4>1, ConstantFacts DEF MayHold
    <3>5. (b.to <= Top(i))'
      BY <1>4, <1>10, <3>1, <3>4 DEF Top
    <3>6. (Bottom(i) <= b.from)'
      <4>1. CASE i = 0
        BY <3>2, <4>1 DEF Bottom, EdgeBefore
      <4>2. CASE i # 0
        <5>1. i - 1 \in Indices
          BY <4>2, ConstantFacts DEF Indices
        <5>2. edges[i - 1] <= edge[i - 1] /\ edge[i - 1] \in Nat /\ edges[i - 1] \in Nat
          BY <1>2, <1>4, <1>14, <5>1 DEF Top
        <5>3. edge[i - 1] <= b.from
          BY <3>1, <4>2 DEF Bottom, EdgeBefore
        <5>4. Bottom(i)' = edges[i - 1]
          BY <1>10, <4>2 DEF Bottom, EdgeBefore
        <5> QED
          BY <3>2, <5>2, <5>3, <5>4
      <4> QED
        BY <4>1, <4>2
    <3> QED
      BY <3>3, <3>5, <3>6
  <2>3. (MayHold(new.age, LastEdge) /\ Bottom(LastEdge) <= new.from /\ new.to <= Top(LastEdge))'
    <3>1. MayHold(new.age, LastEdge)'
      BY <1>10, <1>11, ConstantFacts DEF MayHold
    <3>2. (Bottom(LastEdge) <= new.from)'
      BY <1>6, <1>7, <1>8, <1>10, <1>11 DEF Bottom, EdgeBefore
    <3>3. (new.to <= Top(LastEdge))'
      BY <1>1, <1>8, <1>10, <1>11 DEF Top
    <3> QED
      BY <3>1, <3>2, <3>3
  <2>4. \E i \in Indices : (MayHold(new.age, i) /\ Bottom(i) <= new.from /\ new.to <= Top(i))'
    BY <1>6, <2>3
  <2> QED
    BY <1>10, <2>1, <2>2, <2>4 DEF BlocksOK
<1>17. NoOverlap'
  <2>1. ASSUME NEW b \in blocks PROVE b.to <= new.from
    <3>1. b.to <= edge[LastEdge - 1]
      BY <1>5, FreeBeyond
    <3>2. b.from \in Nat /\ b.to \in Nat
      BY <1>0 DEF TypeOK
    <3> QED
      BY <1>7, <1>8, <1>11, <3>1, <3>2
  <2>2. 0 <= new.from /\ new.to <= Capacity
    BY <1>8, <1>10, <1>11
  <2> QED
    BY <1>0, <1>10, <2>1, <2>2 DEF NoOverlap
<1> QED
  BY <1>12, <1>13, <1>15, <1>16, <1>17 DEF IInv
-----------------------------------------------------------------------------
(* Steps of bump_epoch: a block lies in a region of a function of edges.   *)
Lies(b, f, i) == EdgeBefore(f, i) <= b.from /\ b.to <= f[i]
Edges(f) == f \in [Indices -> Nat] /\ Rising(f) /\ \A i \in Indices : f[i] <= Capacity

(* First the region of the present epoch ends where it has got to:         *)
LEMMA ClosedEdges ==
  ASSUME ConstantsOK, IInv, NEW f, f = [edge EXCEPT ![ed] = bump]
  PROVE  /\ Edges(f)
         /\ \A b \in blocks : \E i \in Indices : MayHold(b.age, i) /\ Lies(b, f, i)
<1>0. TypeOK /\ EdgesOK /\ BlocksOK
  BY DEF IInv
<1>1. /\ ed \in Indices /\ bump \in Nat /\ wall \in Nat /\ \A j \in Indices : edge[j] \in Nat
      /\ edge \in [Indices -> Nat]
  BY <1>0 DEF TypeOK
<1>2. f \in [Indices -> Nat] /\ \A j \in Indices : f[j] = Top(j) /\ f[j] \in Nat
  BY <1>1 DEF Top
<1>3. bump <= wall /\ wall <= Capacity /\ (ed # LastEdge => wall = edge[ed])
  BY <1>0 DEF EdgesOK
<1>4. Rising(f)
  <2> SUFFICES ASSUME NEW i \in Indices, NEW j \in Indices, i <= j
               PROVE  f[i] <= f[j]
    BY DEF Rising
  <2>1. CASE i = j
    BY <1>2, <2>1
  <2>2. CASE i = ed /\ j # ed
    <3>1. ed # LastEdge
      BY <2>2, ConstantFacts DEF Indices
    <3>2. edge[ed] <= edge[j]
      BY <1>0, <2>2, <3>1 DEF EdgesOK
    <3> QED
      BY <1>1, <1>2, <1>3, <2>2, <3>1, <3>2 DEF Top
  <2>3. CASE i # ed /\ j = ed
    <3>1. i <= ed - 1 /\ ed - 1 \in Indices /\ ed # 0 /\ ed - 1 # LastEdge
      BY <1>1, <2>3, ConstantFacts DEF Indices
    <3>2. edge[i] <= edge[ed - 1] /\ edge[ed - 1] <= bump /\ edge[ed - 1] \in Nat
      BY <1>0, <1>1, <3>1 DEF EdgesOK, Bottom, EdgeBefore
    <3> QED
      BY <1>1, <1>2, <2>3, <3>2 DEF Top
  <2>4. CASE i # ed /\ j # ed
    <3>1. j = LastEdge => ed # LastEdge
      BY <2>4
    <3>2. edge[i] <= edge[j]
      BY <1>0, <3>1 DEF EdgesOK
    <3> QED
      BY <1>2, <2>4, <3>2 DEF Top
  <2> QED
    BY <2>1, <2>2, <2>3, <2>4
<1>5. f[LastEdge] <= Capacity /\ LastEdge \in Indices
  <2>1. LastEdge \in Indices
    BY ConstantFacts DEF Indices
  <2>2. CASE ed = LastEdge
    BY <1>1, <1>2, <1>3, <2>1, <2>2, ConstantFacts DEF Top
  <2>3. CASE ed # LastEdge
    BY <1>0, <1>2, <2>1, <2>3 DEF Top, EdgesOK
  <2> QED
    BY <2>1, <2>2, <2>3
<1>6. \A i \in Indices : f[i] <= Capacity
  <2> SUFFICES ASSUME NEW i \in Indices PROVE f[i] <= Capacity
    OBVIOUS
  <2>1. i <= LastEdge
    BY ConstantFacts DEF Indices
  <2>2. f[i] <= f[LastEdge]
    BY <1>4, <1>5, <2>1 DEF Rising
  <2> QED
    BY <1>2, <1>5, <2>2, ConstantFacts
<1>7. ASSUME NEW b \in blocks
      PROVE  \E i \in Indices : MayHold(b.age, i) /\ Lies(b, f, i)
  <2>1. PICK i \in Indices : MayHold(b.age, i) /\ Bottom(i) <= b.from /\ b.to <= Top(i)
    BY <1>0 DEF BlocksOK
  <2>2. b.from \in Nat /\ b.to <= f[i]
    BY <1>0, <1>2, <2>1 DEF TypeOK
  <2>3. EdgeBefore(f, i) <= b.from
    <3>1. CASE i = 0
      BY <2>2, <3>1 DEF EdgeBefore
    <3>2. CASE i # 0
      <4>1. i - 1 \in Indices /\ i - 1 # LastEdge
        BY <3>2, ConstantFacts DEF Indices
      <4>2. f[i - 1] <= edge[i - 1]
        BY <1>1, <1>2, <1>3, <4>1 DEF Top
      <4>3. edge[i - 1] <= b.from /\ edge[i - 1] \in Nat /\ f[i - 1] \in Nat
        BY <1>1, <1>2, <2>1, <3>2, <4>1 DEF Bottom, EdgeBefore
      <4>4. f[i - 1] <= b.from
        BY <2>2, <4>2, <4>3
      <4> QED
        BY <3>2, <4>4 DEF EdgeBefore
    <3> QED
      BY <3>1, <3>2
  <2> QED
    BY <2>1, <2>2, <2>3 DEF Lies
<1> QED
  BY <1>2, <1>4, <1>6, <1>7 DEF Edges

(* then edges above, between which nothing lies, fall back,                *)
LEMMA LoweredEdges ==
  ASSUME ConstantsOK, NEW f, Edges(f)
  PROVE  /\ Edges(Lowered(f))
         /\ \A b \in blocks, i \in Indices :
              (b.from < b.to /\ b.from \in Nat /\ b.to \in Nat /\ i # Epochs /\ Lies(b, f, i))
                => Lies(b, Lowered(f), i)
<1>0. /\ f \in [Indices -> Nat] /\ \A i \in Indices : f[i] \in Nat /\ f[i] <= Capacity
      /\ \A i, j \in Indices : i <= j => f[i] <= f[j]
  BY DEF Edges, Rising
<1>1. Epochs - 1 \in Indices /\ Epochs \in Indices /\ LastEdge \in Indices
  BY ConstantFacts DEF Indices
<1>2. CASE f[Epochs] # f[LastEdge]
  <2>1. Lowered(f) = f
    BY <1>2 DEF Lowered
  <2> QED
    BY <2>1
<1>3. CASE f[Epochs] = f[LastEdge]
  <2>1. PICK g : g = Lowered(f)
    OBVIOUS
  <2>2. g = [i \in Indices |-> IF i >= Epochs THEN f[Epochs - 1] ELSE f[i]]
    BY <1>3, <2>1 DEF Lowered, Indices
  <2>3. \A i \in Indices : g[i] = IF i >= Epochs THEN f[Epochs - 1] ELSE f[i]
    BY <2>2
  <2>4. g \in [Indices -> Nat]
    BY <1>0, <1>1, <2>2
  <2>5. \A i \in Indices : g[i] <= Capacity
    BY <1>0, <1>1, <2>3
  <2>6. Rising(g)
    <3> SUFFICES ASSUME NEW i \in Indices, NEW j \in Indices, i <= j
                 PROVE  g[i] <= g[j]
      BY DEF Rising
    <3>1. i \in Int /\ j \in Int /\ Epochs \in Int
      BY ConstantFacts DEF Indices
    <3>2. CASE j < Epochs
      BY <1>0, <2>3, <3>1, <3>2
    <3>3. CASE i < Epochs /\ j >= Epochs
      <4>1. f[i] <= f[Epochs - 1]
        BY <1>0, <1>1, <3>1, <3>3
      <4> QED
        BY <2>3, <3>1, <3>3, <4>1
    <3>4. CASE i >= Epochs
      BY <1>0, <1>1, <2>3, <3>1, <3>4
    <3> QED
      BY <3>1, <3>2, <3>3, <3>4
  <2>7. ASSUME NEW b \in blocks, NEW i \in Indices,
               b.from < b.to, b.from \in Nat, b.to \in Nat, i # Epochs, Lies(b, f, i)
        PROVE  Lies(b, g, i)
    <3>1. i \in Int /\ Epochs \in Int /\ i >= 0 /\ i <= LastEdge /\ LastEdge \in Int
      BY ConstantFacts DEF Indices
    <3>2. CASE i < Epochs
      <4>1. g[i] = f[i]
        BY <2>3, <3>1, <3>2
      <4>2. EdgeBefore(g, i) = EdgeBefore(f, i)
        <5>1. CASE i = 0
          BY <5>1 DEF EdgeBefore
        <5>2. CASE i # 0
          <6>1. i - 1 \in Indices /\ ~ (i - 1 >= Epochs)
            BY <3>1, <3>2, <5>2 DEF Indices
          <6> QED
            BY <2>3, <5>2, <6>1 DEF EdgeBefore
        <5> QED
          BY <5>1, <5>2
      <4> QED
        BY <2>7, <4>1, <4>2 DEF Lies
    <3>3. CASE i > Epochs
      <4>1. i - 1 \in Indices /\ Epochs <= i - 1 /\ i # 0
        BY <3>1, <3>3, ConstantFacts DEF Indices
      <4>2. f[Epochs] <= f[i - 1] /\ f[i] <= f[LastEdge]
        BY <1>0, <1>1, <3>1, <4>1
      <4>3. f[i - 1] <= b.from /\ b.to <= f[i]
        BY <2>7, <4>1 DEF Lies, EdgeBefore
      <4>4. /\ f[Epochs] \in Nat /\ f[i - 1] \in Nat /\ f[i] \in Nat /\ f[LastEdge] \in Nat
        BY <1>0, <1>1, <4>1
      <4> QED
        BY <1>3, <2>7, <4>2, <4>3, <4>4
    <3> QED
      BY <2>7, <3>1, <3>2, <3>3
  <2> QED
    BY <2>1, <2>4, <2>5, <2>6, <2>7 DEF Edges
<1> QED
  BY <1>2, <1>3

(* then an edge goes, and what lay above it is one region further down.    *)
Shifted(i, rem) == IF i < rem THEN i ELSE i - 1

LEMMA ShiftedEdges ==
  ASSUME ConstantsOK, NEW f, Edges(f), NEW rem \in 0 .. Epochs
  PROVE  /\ Edges(ShiftedDown(f, rem))
         /\ \A b \in blocks, i \in Indices :
              (b.from \in Nat /\ b.to \in Nat /\ i # rem /\ Lies(b, f, i))
                => Shifted(i, rem) \in Indices /\ Lies(b, ShiftedDown(f, rem), Shifted(i, rem))
<1>0. /\ f \in [Indices -> Nat] /\ \A i \in Indices : f[i] \in Nat /\ f[i] <= Capacity
      /\ \A i, j \in Indices : i <= j => f[i] <= f[j]
  BY DEF Edges, Rising
<1>1. /\ LastEdge \in Nat /\ rem \in Nat /\ rem <= LastEdge - 1
      /\ \A i \in Indices : i \in Int /\ 0 <= i /\ i <= LastEdge
  BY ConstantFacts DEF Indices
<1>2. PICK g : g = ShiftedDown(f, rem)
  OBVIOUS
<1>3. g = [i \in Indices |-> IF i >= rem /\ i < LastEdge THEN f[i + 1] ELSE f[i]]
  BY <1>2 DEF ShiftedDown, Indices
<1>4. \A i \in Indices : g[i] = IF i >= rem /\ i < LastEdge THEN f[i + 1] ELSE f[i]
  BY <1>3
<1>5. \A i \in Indices : i < LastEdge => i + 1 \in Indices
  BY <1>1 DEF Indices
<1>6. \A i \in Indices : g[i] \in Nat /\ g[i] <= Capacity
  BY <1>0, <1>4, <1>5
<1>7. g \in [Indices -> Nat]
  BY <1>3, <1>6
<1>8. Rising(g)
  <2> SUFFICES ASSUME NEW i \in Indices, NEW j \in Indices, i <= j
               PROVE  g[i] <= g[j]
    BY DEF Rising
  <2>1. PICK p \in Indices : g[i] = f[p] /\ p = IF i >= rem /\ i < LastEdge THEN i + 1 ELSE i
    BY <1>4, <1>5
  <2>2. PICK q \in Indices : g[j] = f[q] /\ q = IF j >= rem /\ j < LastEdge THEN j + 1 ELSE j
    BY <1>4, <1>5
  <2>3. p <= q
    BY <1>1, <2>1, <2>2
  <2> QED
    BY <1>0, <2>1, <2>2, <2>3
<1>9. ASSUME NEW b \in blocks, NEW i \in Indices,
             b.from \in Nat, b.to \in Nat, i # rem, Lies(b, f, i)
      PROVE  Shifted(i, rem) \in Indices /\ Lies(b, g, Shifted(i, rem))
  <2>1. i \in Int /\ 0 <= i /\ i <= LastEdge
    BY <1>1
  <2>2. CASE i < rem
    <3>1. g[i] = f[i] /\ Shifted(i, rem) = i
      BY <1>1, <1>4, <2>1, <2>2 DEF Shifted
    <3>2. EdgeBefore(g, i) = EdgeBefore(f, i)
      <4>1. CASE i = 0
        BY <4>1 DEF EdgeBefore
      <4>2. CASE i # 0
        <5>1. i - 1 \in Indices /\ ~ (i - 1 >= rem)
          BY <1>1, <2>1, <2>2, <4>2 DEF Indices
        <5> QED
          BY <1>4, <4>2, <5>1 DEF EdgeBefore
      <4> QED
        BY <4>1, <4>2
    <3> QED
      BY <1>9, <3>1, <3>2 DEF Lies
  <2>3. CASE i > rem
    <3>1. PICK j \in Indices : j = i - 1
      BY <1>1, <2>1, <2>3 DEF Indices
    <3>2. Shifted(i, rem) = j /\ j >= rem /\ j < LastEdge /\ j + 1 = i /\ i # 0
      BY <1>1, <2>1, <2>3, <3>1 DEF Shifted
    <3>3. g[j] = f[i]
      BY <1>4, <3>2
    <3>4. f[j] <= b.from /\ b.to <= f[i]
      BY <1>9, <3>1, <3>2 DEF Lies, EdgeBefore
    <3>5. EdgeBefore(g, j) <= b.from
      <4>1. CASE j = 0
        BY <1>9, <4>1 DEF EdgeBefore
      <4>2. CASE j # 0
        <5>1. j - 1 \in Indices /\ j - 1 <= j /\ j - 1 < LastEdge /\ (j - 1) + 1 = j
          BY <1>1, <3>2, <4>2 DEF Indices
        <5>2. g[j - 1] = f[j] \/ g[j - 1] = f[j - 1]
          BY <1>4, <5>1
        <5>3. f[j - 1] <= f[j] /\ f[j - 1] \in Nat /\ f[j] \in Nat
          BY <1>0, <5>1
        <5>4. g[j - 1] <= b.from
          BY <1>9, <3>4, <5>2, <5>3
        <5> QED
          BY <4>2, <5>4 DEF EdgeBefore
      <4> QED
        BY <4>1, <4>2
    <3> QED
      BY <3>2, <3>3, <3>4, <3>5 DEF Lies
  <2> QED
    BY <1>1, <1>9, <2>1, <2>2, <2>3
<1> QED
  BY <1>2, <1>6, <1>7, <1>8, <1>9 DEF Edges

(* The low regions are numbered without gaps again.                        *)
LEMMA LowRenumbered ==
  ASSUME ConstantsOK, TypeOK, LowOK, NEW rem, NEW ed1,
         \/ rem = lo[0] /\ ed1 = Epochs - 1
         \/ rem = Epochs /\ ed1 = lo[0],
         lo' = [e \in 0 .. Epochs - 1 |-> IF e = Epochs - 1 THEN ed1 ELSE Renumbered(rem, e + 1)]
  PROVE  /\ rem \in 0 .. Epochs /\ ed1 \in 0 .. Epochs - 1
         /\ lo' \in [0 .. Epochs - 1 -> 0 .. Epochs - 1] /\ lo'[Epochs - 1] = ed1 /\ LowOK'
         /\ \A e \in 1 .. Epochs - 1 : lo[e] # rem /\ lo'[e - 1] = Shifted(lo[e], rem)
<1>1. \A e \in 0 .. Epochs - 1 : lo[e] \in 0 .. Epochs - 1
  BY DEF TypeOK
<1>2. 0 \in 0 .. Epochs - 1 /\ Epochs - 1 \in 0 .. Epochs - 1 /\ Epochs \in Nat /\ Epochs >= 2
  BY ConstantFacts
<1>3. rem \in 0 .. Epochs /\ ed1 \in 0 .. Epochs - 1 /\ lo[0] \in 0 .. Epochs - 1
  BY <1>1, <1>2
<1>4. ASSUME NEW e \in 1 .. Epochs - 1
      PROVE  /\ lo[e] \in 0 .. Epochs - 1 /\ lo[e] # lo[0] /\ lo[e] # rem
             /\ Renumbered(rem, e) = Shifted(lo[e], rem)
             /\ Shifted(lo[e], rem) \in 0 .. Epochs - 1 /\ Shifted(lo[e], rem) # ed1
  <2>1. e \in 0 .. Epochs - 1 /\ e # 0
    BY <1>2
  <2>2. lo[e] \in 0 .. Epochs - 1 /\ lo[e] # lo[0]
    BY <1>1, <1>2, <2>1 DEF LowOK
  <2>3. lo[e] # rem
    BY <1>2, <2>2
  <2>4. PICK x \in 0 .. Epochs - 1 : x = lo[e]
    BY <2>2
  <2>5. Renumbered(rem, e) = Shifted(lo[e], rem)
    BY <1>2, <1>3, <2>2 DEF Renumbered, Shifted
  <2>6. Shifted(x, rem) \in 0 .. Epochs - 1
    BY <1>2, <1>3, <2>3, <2>4 DEF Shifted
  <2>7. Shifted(x, rem) # ed1
    <3>1. CASE rem = lo[0] /\ ed1 = Epochs - 1
      BY <1>2, <1>3, <2>3, <2>4, <3>1 DEF Shifted
    <3>2. CASE rem = Epochs /\ ed1 = lo[0]
      BY <1>2, <1>3, <2>2, <2>4, <3>2 DEF Shifted
    <3> QED
      BY <3>1, <3>2
  <2> QED
    BY <2>2, <2>3, <2>4, <2>5, <2>6, <2>7
<1>5. lo'[Epochs - 1] = ed1
  BY <1>2
<1>6. ASSUME NEW e \in 1 .. Epochs - 1
      PROVE  lo'[e - 1] = Shifted(lo[e], rem)
  <2>1. e - 1 \in 0 .. Epochs - 1 /\ e - 1 # Epochs - 1 /\ (e - 1) + 1 = e
    BY <1>2
  <2>2. lo'[e - 1] = Renumbered(rem, e)
    BY <2>1
  <2> QED
    BY <1>4, <2>2
<1>7. \A d \in 0 .. Epochs - 1 : d = Epochs - 1 \/ (d + 1 \in 1 .. Epochs - 1 /\ (d + 1) - 1 = d)
  BY <1>2
<1>8. \A d \in 0 .. Epochs - 1 : lo'[d] \in 0 .. Epochs - 1
  <2> SUFFICES ASSUME NEW d \in 0 .. Epochs - 1 PROVE lo'[d] \in 0 .. Epochs - 1
    OBVIOUS
  <2>1. CASE d = Epochs - 1
    BY <1>3, <1>5, <2>1
  <2>2. CASE d # Epochs - 1
    <3>1. PICK e \in 1 .. Epochs - 1 : e = d + 1 /\ e - 1 = d
      BY <1>7, <2>2
    <3>2. lo'[e - 1] = Shifted(lo[e], rem)
      BY <1>6
    <3> QED
      BY <1>4, <3>1, <3>2
  <2> QED
    BY <2>1, <2>2
<1>9. lo' \in [0 .. Epochs - 1 -> 0 .. Epochs - 1]
  BY <1>8
<1>10. LowOK'
  <2> SUFFICES ASSUME NEW c \in 0 .. Epochs - 1, NEW d \in 0 .. Epochs - 1, lo'[c] = lo'[d]
               PROVE  c = d
    BY DEF LowOK
  <2>1. ASSUME NEW h \in 0 .. Epochs - 1, h # Epochs - 1
        PROVE  lo'[h] # ed1
    <3>1. PICK e \in 1 .. Epochs - 1 : e = h + 1 /\ e - 1 = h
      BY <1>7, <2>1
    <3>2. lo'[e - 1] = Shifted(lo[e], rem)
      BY <1>6
    <3> QED
      BY <1>4, <3>1, <3>2
  <2>2. CASE c = Epochs - 1 \/ d = Epochs - 1
    BY <1>5, <2>1, <2>2
  <2>3. CASE c # Epochs - 1 /\ d # Epochs - 1
    <3>1. PICK e \in 1 .. Epochs - 1 : e = c + 1 /\ e - 1 = c
      BY <1>7, <2>3
    <3>2. PICK h \in 1 .. Epochs - 1 : h = d + 1 /\ h - 1 = d
      BY <1>7, <2>3
    <3>3. lo'[e - 1] = Shifted(lo[e], rem) /\ lo'[h - 1] = Shifted(lo[h], rem)
      BY <1>6
    <3>4. PICK x \in 0 .. Epochs - 1 : x = lo[e] /\ x # rem
      BY <1>4
    <3>5. PICK y \in 0 .. Epochs - 1 : y = lo[h] /\ y # rem
      BY <1>4
    <3>6. Shifted(x, rem) = Shifted(y, rem)
      BY <3>1, <3>2, <3>3, <3>4, <3>5
    <3>7. x = y
      BY <1>2, <1>3, <3>4, <3>5, <3>6 DEF Shifted
    <3>8. e \in 0 .. Epochs - 1 /\ h \in 0 .. Epochs - 1
      BY <1>2
    <3>9. e = h
      BY <3>4, <3>5, <3>7, <3>8 DEF LowOK
    <3> QED
      BY <3>1, <3>2, <3>9
  <2> QED
    BY <2>2, <2>3
<1> QED
  BY <1>3, <1>4, <1>5, <1>6, <1>9, <1>10

LEMMA BumpKept ==
  ASSUME ConstantsOK, IInv, bump_epoch
  PROVE  IInv'
<1>0. TypeOK /\ LowOK /\ EdgesOK /\ BlocksOK /\ NoOverlap
  BY DEF IInv
<1>1. PICK f : f = [edge EXCEPT ![ed] = bump]
  OBVIOUS
<1>2. PICK rem : rem = IF RemovesLow(f) THEN lo[0] ELSE Epochs
  OBVIOUS
<1>3. PICK ed1 : ed1 = IF RemovesLow(f) THEN Epochs - 1 ELSE lo[0]
  OBVIOUS
<1>4. PICK h : h = ShiftedDown(Lowered(f), rem)
  OBVIOUS
<1>5. /\ ed' = ed1 /\ edge' = h /\ bump' = EdgeBefore(h, ed1) /\ wall' = h[ed1]
      /\ lo' = [e \in 0 .. Epochs - 1 |-> IF e = Epochs - 1 THEN ed1 ELSE Renumbered(rem, e + 1)]
      /\ blocks' = {[from |-> b.from, to |-> b.to, age |-> b.age + 1] :
                      b \in {c \in blocks : c.age + 1 < Epochs}}
  BY <1>1, <1>2, <1>3, <1>4 DEF bump_epoch
<1>6. \/ rem = lo[0] /\ ed1 = Epochs - 1
      \/ rem = Epochs /\ ed1 = lo[0]
  BY <1>2, <1>3
<1>7. /\ rem \in 0 .. Epochs /\ ed1 \in 0 .. Epochs - 1
      /\ lo' \in [0 .. Epochs - 1 -> 0 .. Epochs - 1] /\ lo'[Epochs - 1] = ed1 /\ LowOK'
      /\ \A e \in 1 .. Epochs - 1 : lo[e] # rem /\ lo'[e - 1] = Shifted(lo[e], rem)
  BY <1>0, <1>5, <1>6, LowRenumbered
<1>8. Edges(f) /\ \A b \in blocks : \E i \in Indices : MayHold(b.age, i) /\ Lies(b, f, i)
  BY <1>1, ClosedEdges
<1>9. /\ Edges(Lowered(f))
      /\ \A b \in blocks, i \in Indices :
           (b.from < b.to /\ b.from \in Nat /\ b.to \in Nat /\ i # Epochs /\ Lies(b, f, i))
             => Lies(b, Lowered(f), i)
  BY <1>8, LoweredEdges
<1>10. /\ Edges(h)
       /\ \A b \in blocks, i \in Indices :
            (b.from \in Nat /\ b.to \in Nat /\ i # rem /\ Lies(b, Lowered(f), i))
              => Shifted(i, rem) \in Indices /\ Lies(b, h, Shifted(i, rem))
  BY <1>4, <1>7, <1>9, ShiftedEdges
<1>11. /\ h \in [Indices -> Nat] /\ Rising(h)
       /\ \A i \in Indices : h[i] \in Nat /\ h[i] <= Capacity
  BY <1>10 DEF Edges
<1>12. /\ ed1 \in Indices /\ ed1 # LastEdge /\ LastEdge \in Indices /\ ed1 \in Int /\ ed1 < Epochs
       /\ Epochs \in Nat
  BY <1>7, ConstantFacts DEF Indices
<1>13. EdgeBefore(h, ed1) \in Nat /\ EdgeBefore(h, ed1) <= h[ed1]
  <2>1. CASE ed1 = 0
    BY <1>11, <1>12, <2>1 DEF EdgeBefore
  <2>2. CASE ed1 # 0
    <3>1. ed1 - 1 \in Indices /\ ed1 - 1 <= ed1
      BY <1>12, <2>2 DEF Indices
    <3>2. h[ed1 - 1] <= h[ed1]
      BY <1>11, <1>12, <3>1 DEF Rising
    <3> QED
      BY <1>11, <2>2, <3>1, <3>2 DEF EdgeBefore
  <2> QED
    BY <2>1, <2>2
(* Where what is in the new set comes from                                 *)
<1>14. ASSUME NEW c \in blocks'
       PROVE  \E b \in blocks : /\ b.age + 1 < Epochs
                                /\ c = [from |-> b.from, to |-> b.to, age |-> b.age + 1]
  BY <1>5
<1>15. \A b \in blocks : /\ b.from \in Nat /\ b.to \in Nat /\ b.age \in 0 .. Epochs - 1
                        /\ b.from < b.to
  BY <1>0 DEF TypeOK, BlocksOK
<1>16. TypeOK'
  <2>1. blocks' \subseteq [from : Nat, to : Nat, age : 0 .. Epochs - 1]
    <3> SUFFICES ASSUME NEW c \in blocks'
                 PROVE  c \in [from : Nat, to : Nat, age : 0 .. Epochs - 1]
      OBVIOUS
    <3>1. PICK b \in blocks : /\ b.age + 1 < Epochs
                              /\ c = [from |-> b.from, to |-> b.to, age |-> b.age + 1]
      BY <1>14
    <3>2. b.age + 1 \in 0 .. Epochs - 1
      BY <1>12, <1>15, <3>1
    <3> QED
      BY <1>15, <3>1, <3>2
  <2> QED
    BY <1>5, <1>7, <1>11, <1>12, <1>13, <2>1 DEF TypeOK
<1>17. EdgesOK'
  <2>1. (ed \in {lo[Epochs - 1], LastEdge})'
    BY <1>5, <1>7
  <2>2. (wall = IF ed = LastEdge THEN Capacity ELSE edge[ed])'
    BY <1>5, <1>12
  <2>3. (Bottom(ed) <= bump /\ bump <= wall /\ wall <= Capacity)'
    <3>1. Bottom(ed)' = EdgeBefore(h, ed1)
      BY <1>5 DEF Bottom, EdgeBefore
    <3> QED
      BY <1>5, <1>11, <1>12, <1>13, <3>1
  <2>4. (\A i, j \in Indices : i <= j /\ (j = LastEdge => ed # LastEdge) => edge[i] <= edge[j])'
    BY <1>5, <1>11 DEF Rising
  <2>5. (ed # LastEdge => edge[LastEdge] <= Capacity)'
    BY <1>5, <1>11, <1>12
  <2> QED
    BY <2>1, <2>2, <2>3, <2>4, <2>5 DEF EdgesOK
<1>18. ASSUME NEW b \in blocks, b.age + 1 < Epochs
       PROVE  \E j \in Indices : MayHold(b.age + 1, j)' /\ Lies(b, h, j) /\ j # ed1
  <2>1. PICK i \in Indices : MayHold(b.age, i) /\ Lies(b, f, i)
    BY <1>8
  <2>2. PICK e \in 1 .. Epochs - 1 : e = Epochs - 1 - b.age
    BY <1>12, <1>15, <1>18
  <2>3. i = lo[e] \/ i = LastEdge - b.age
    BY <2>1, <2>2 DEF MayHold
  <2>4. e \in 0 .. Epochs - 1 /\ e - 1 \in 0 .. Epochs - 1 /\ e - 1 # Epochs - 1
        /\ Epochs - 1 - (b.age + 1) = e - 1
    BY <1>12, <1>15, <2>2
  <2>5. lo[e] \in 0 .. Epochs - 1
    BY <1>0, <2>4 DEF TypeOK
  <2>6. LastEdge - b.age > Epochs
    BY <1>15, <1>18, ConstantFacts
  <2>7. i # Epochs /\ i # rem
    <3>1. LastEdge - b.age \in Int /\ rem \in Int /\ rem <= Epochs
      BY <1>7, <1>12, <1>15, ConstantFacts
    <3>2. CASE i = lo[e]
      <4>1. lo[e] # rem
        BY <1>7
      <4>2. lo[e] # Epochs
        BY <1>12, <2>5
      <4> QED
        BY <3>2, <4>1, <4>2
    <3>3. CASE i = LastEdge - b.age
      BY <1>12, <2>6, <3>1, <3>3
    <3> QED
      BY <2>3, <3>2, <3>3
  <2>8. Lies(b, Lowered(f), i)
    BY <1>9, <1>15, <2>1, <2>7
  <2>9. Shifted(i, rem) \in Indices /\ Lies(b, h, Shifted(i, rem))
    BY <1>10, <1>15, <2>7, <2>8
  <2>10. CASE i = lo[e]
    <3>1. lo'[e - 1] = Shifted(i, rem)
      BY <1>7, <2>10
    <3>2. MayHold(b.age + 1, Shifted(i, rem))'
      BY <2>4, <3>1 DEF MayHold
    <3>3. Epochs - 1 \in 0 .. Epochs - 1
      BY <1>12, ConstantFacts
    <3>4. Shifted(i, rem) # ed1
      BY <1>7, <2>4, <3>1, <3>3 DEF LowOK
    <3> QED
      BY <2>9, <3>2, <3>4
  <2>11. CASE i = LastEdge - b.age
    <3>1. ~ (i < rem)
      BY <1>7, <1>12, <1>15, <2>6, <2>11, ConstantFacts
    <3>2. Shifted(i, rem) = LastEdge - (b.age + 1) /\ Shifted(i, rem) # ed1
      BY <1>12, <1>15, <2>6, <2>11, <3>1, ConstantFacts DEF Shifted
    <3>3. b.age + 1 # 0
      BY <1>15
    <3>4. MayHold(b.age + 1, Shifted(i, rem))'
      BY <3>2, <3>3 DEF MayHold
    <3> QED
      BY <2>9, <3>2, <3>4
  <2> QED
    BY <2>3, <2>10, <2>11
<1>19. BlocksOK'
  <2>1. \A c \in blocks' : c.from < c.to
    <3> SUFFICES ASSUME NEW c \in blocks' PROVE c.from < c.to
      OBVIOUS
    <3>1. PICK b \in blocks : /\ b.age + 1 < Epochs
                              /\ c = [from |-> b.from, to |-> b.to, age |-> b.age + 1]
      BY <1>14
    <3> QED
      BY <1>15, <3>1
  <2>2. ASSUME NEW c \in blocks'
        PROVE  \E i \in Indices : (MayHold(c.age, i) /\ Bottom(i) <= c.from /\ c.to <= Top(i))'
    <3>1. PICK b \in blocks : /\ b.age + 1 < Epochs
                              /\ c = [from |-> b.from, to |-> b.to, age |-> b.age + 1]
      BY <1>14
    <3>2. c.from = b.from /\ c.to = b.to /\ c.age = b.age + 1
      BY <3>1
    <3>3. PICK j \in Indices : MayHold(b.age + 1, j)' /\ Lies(b, h, j) /\ j # ed1
      BY <1>18, <3>1
    <3>4. Bottom(j)' = EdgeBefore(h, j) /\ Top(j)' = h[j]
      BY <1>5, <3>3 DEF Bottom, EdgeBefore, Top
    <3>5. MayHold(c.age, j)'
      BY <3>2, <3>3 DEF MayHold
    <3>6. (Bottom(j) <= c.from /\ c.to <= Top(j))'
      BY <3>2, <3>3, <3>4 DEF Lies
    <3> QED
      BY <3>5, <3>6
  <2> QED
    BY <2>1, <2>2 DEF BlocksOK
<1>20. NoOverlap'
  <2>1. ASSUME NEW c \in blocks' PROVE 0 <= c.from /\ c.to <= Capacity
    <3>1. PICK b \in blocks : /\ b.age + 1 < Epochs
                              /\ c = [from |-> b.from, to |-> b.to, age |-> b.age + 1]
      BY <1>14
    <3> QED
      BY <1>0, <3>1 DEF NoOverlap
  <2>2. ASSUME NEW c \in blocks', NEW d \in blocks', c # d
        PROVE  c.to <= d.from \/ d.to <= c.from
    <3>1. PICK b \in blocks : /\ b.age + 1 < Epochs
                              /\ c = [from |-> b.from, to |-> b.to, age |-> b.age + 1]
      BY <1>14
    <3>2. PICK a \in blocks : /\ a.age + 1 < Epochs
                              /\ d = [from |-> a.from, to |-> a.to, age |-> a.age + 1]
      BY <1>14
    <3>3. a # b
      BY <2>2, <3>1, <3>2
    <3>4. b.to <= a.from \/ a.to <= b.from
      BY <1>0, <3>3 DEF NoOverlap
    <3> QED
      BY <3>1, <3>2, <3>4
  <2> QED
    BY <2>1, <2>2 DEF NoOverlap
<1> QED
  BY <1>7, <1>16, <1>17, <1>19, <1>20 DEF IInv

-----------------------------------------------------------------------------
LEMMA NextKept ==
  ASSUME ConstantsOK, IInv, [Next]_vars
  PROVE  IInv'
<1>1. ASSUME NEW size \in Sizes, NEW align \in Aligns, AllocateHere(size, align)
      PROVE  IInv'
  BY <1>1, AllocateHereKept
<1>2. ASSUME NEW size \in Sizes, NEW align \in Aligns, AllocateBeyond(size, align)
      PROVE  IInv'
  BY <1>2, AllocateBeyondKept
<1>3. CASE bump_epoch
  BY <1>3, BumpKept
<1>4. CASE UNCHANGED vars
  BY <1>4 DEF vars, IInv, TypeOK, LowOK, EdgesOK, BlocksOK, NoOverlap, MayHold, Bottom, Top, EdgeBefore
<1> QED
  BY <1>1, <1>2, <1>3, <1>4 DEF Next

(* The regions are laid out as the comment of epoch_allocator.hxx says, and*)
(* every message that is still in its time lies in one of its epoch.       *)
THEOREM Invariance == ConstantsOK => (Spec => []IInv)
<1>1. ConstantsOK /\ Init => IInv
  BY InitInv
<1>2. ConstantsOK /\ IInv /\ [Next]_vars => IInv'
  BY NextKept
<1>3. CASE ConstantsOK
  BY <1>1, <1>2, <1>3, PTL DEF Spec
<1> QED
  BY <1>3

(* For any number of epochs, any capacity and any sizes: a message keeps   *)
(* its memory, inside the arena, as long as its epoch may need it.         *)
THEOREM MemoryKept == ConstantsOK => (Spec => []NoOverlap)
<1>1. IInv => NoOverlap
  BY DEF IInv
<1> QED
  BY <1>1, Invariance, PTL
=============================================================================
