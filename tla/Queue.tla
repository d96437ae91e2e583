-------------------------------- MODULE Queue --------------------------------
(***************************************************************************)
(* devastator/queue.hxx: a double-ended queue in a ring whose capacity is  *)
(* a power of two and follows the number of elements up and down.  The     *)
(* engine keeps the past events of each cd in one.                         *)
(*                                                                         *)
(* The elements are numbers modulo Names, each the successor of the one in *)
(* front of it: the content of a queue is told by its front and its length.*)
(***************************************************************************)
EXTENDS Integers, Sequences

CONSTANTS
  Names,      (* more than the elements of the longest queue               *)
  MaxLen      (* Bound: elements in the queue                              *)

ConstantsOK == MaxLen \in Nat /\ Names \in Nat /\ Names > MaxLen

VARIABLES
  n, cap, beg,  (* n_, cap_, beg_                                          *)
  ring,         (* buf_[0 .. cap_-1]                                       *)
  front,        (* the element at the front, or the next to be pushed there*)
  right         (* history: was every element returned the right one?      *)

vars == <<n, cap, beg, ring, front, right>>

Garbage == -1           (* what lies outside the queue                     *)
Element(i) == (front + i) % Names
At(i) == ring[(beg + i) % cap]

Init ==
  /\ n = 0 /\ cap = 0 /\ beg = 0 /\ ring = <<>>
  /\ front = 0 /\ right = TRUE

(* resize: the elements that stay are copied to the beginning.             *)
Copied(keep, from, cap1) ==
  [i \in 0 .. cap1 - 1 |-> IF i < keep THEN ring[(from + i) % cap] ELSE Garbage]
FromBegin(keep, from, cap1) ==
  [i \in 0 .. cap1 - 1 |-> IF i < keep /\ i < cap THEN ring[i] ELSE Garbage]
Resized(keep, from, cap1) == Copied(keep, from, cap1)

Grown == IF n < cap THEN cap ELSE IF cap = 0 THEN 1 ELSE 2 * cap

(* while(n_ <= cap>>3 && cap >= 16) cap >>= 1                              *)
RECURSIVE Shrunk(_, _)
Shrunk(len, c) == IF len <= c \div 8 /\ c >= 16 THEN Shrunk(len, c \div 2) ELSE c
ShrunkOnce(len) == IF len <= cap \div 8 /\ cap >= 16 THEN cap \div 2 ELSE cap

Kept(len, from) ==
  [i \in 0 .. cap - 1 |-> IF (i - from) % cap < len THEN ring[i] ELSE Garbage]

(* len elements stay, from position from on, in a ring of capacity cap1.   *)
Settle(len, from, cap1) ==
  /\ n' = len /\ cap' = cap1
  /\ IF cap1 = cap THEN beg' = from /\ ring' = Kept(len, from)
     ELSE beg' = 0 /\ ring' = Resized(len, from, cap1)

(* The ring after a possible growth, and where it begins                   *)
Room == IF Grown = cap THEN ring ELSE Resized(n, beg, Grown)
RoomBeg == IF Grown = cap THEN beg ELSE 0

push_back ==
  /\ n < MaxLen
  /\ ring' = [Room EXCEPT ![(RoomBeg + n) % Grown] = Element(n)]
  /\ n' = n + 1 /\ cap' = Grown /\ beg' = RoomBeg
  /\ UNCHANGED <<front, right>>

push_front ==
  LET at == (RoomBeg - 1) % Grown
      x == (front - 1) % Names
  IN  /\ n < MaxLen
      /\ ring' = [Room EXCEPT ![at] = x]
      /\ n' = n + 1 /\ cap' = Grown /\ beg' = at
      /\ front' = x /\ UNCHANGED right

pop_back ==
  /\ n > 0
  /\ right' = (right /\ At(n - 1) = Element(n - 1))
  /\ Settle(n - 1, beg, ShrunkOnce(n - 1))
  /\ UNCHANGED front

pop_front ==
  /\ n > 0
  /\ right' = (right /\ ring[beg] = Element(0))
  /\ Settle(n - 1, (beg + 1) % cap, ShrunkOnce(n - 1))
  /\ front' = Element(1)

chop_back(k) ==
  /\ Settle(n - k, beg, Shrunk(n - k, cap))
  /\ UNCHANGED <<front, right>>

chop_front(k) ==
  /\ Settle(n - k, (beg + k) % cap, Shrunk(n - k, cap))
  /\ front' = Element(k) /\ UNCHANGED right

RECURSIVE Doubled(_, _)
Doubled(least, c) == IF least <= c THEN c ELSE Doubled(least, IF c = 0 THEN 1 ELSE 2 * c)
reserve_more(k) ==
  /\ Settle(n, beg, Doubled(n + k, cap))
  /\ UNCHANGED <<front, right>>

Next ==
  \/ push_back
  \/ push_front
  \/ pop_back
  \/ pop_front
  \/ \E k \in 1 .. n : chop_back(k)
  \/ \E k \in 1 .. n : chop_front(k)
  \/ \E k \in 1 .. MaxLen - n : reserve_more(k)

Spec == Init /\ [][Next]_vars

-----------------------------------------------------------------------------
PowersOf2 == {0} \cup {2^i : i \in 0 .. MaxLen}

(* A queue is the sequence of what was pushed and not popped yet, seen     *)
(* from the front and from the back, wherever the ring begins and through  *)
(* every change of its capacity, which stays a power of two.               *)
QueueIsSequence ==
  /\ n <= cap /\ cap \in PowersOf2 /\ (cap > 0 => beg \in 0 .. cap - 1)
  /\ \A i \in 0 .. n - 1 : At(i) = Element(i)
  /\ right
=============================================================================
