----------------------------- MODULE SizeClasses -----------------------------
(***************************************************************************)
(* opnew.hxx and opnew.cxx: the arithmetic of the allocator, with the      *)
(* numbers of a 64-bit build.  A size up to 7K belongs to one of 51 bins;  *)
(* the objects of a bin are cut out of pools of a few pages, unless they   *)
(* are whole pages.  operator delete tells an object of an arena from one  *)
(* of the C library by its address: only the latter may be a multiple of   *)
(* huge_align.                                                             *)
(*                                                                         *)
(* A behaviour is about a size, and has no steps, or about the pool of a   *)
(* bin at some page of an arena, which is filled with objects.             *)
(***************************************************************************)
EXTENDS Integers

VARIABLES
  size,       (* what is asked for                                         *)
  pool        (* the pool: its bin and first page, the objects laid so far *)
              (* (popn), the last of them (tail) and where the next may be *)

vars == <<size, pool>>

sizeof_word == 8
bin_n == 51
page_size == 2048
huge_align == 16 * 1024
sizeof_pool == 48         (* without DEVA_OPNEW_DEBUG                      *)
sizeof_arena == 10368     (* of arena_form<2042>                           *)

-----------------------------------------------------------------------------
(* Sizes and bins                                                          *)

log_dn[x \in Nat] == IF x = 0 THEN -1 ELSE IF x < 2 THEN 0 ELSE 1 + log_dn[x \div 2]

size_of_bin(bin) ==
  sizeof_word * (IF bin < 7 THEN 1 + bin
                 ELSE IF bin < 39 THEN (8 + ((bin - 7) % 8)) * 2^((bin - 7) \div 8)
                 ELSE (4 + ((bin - 39) % 4)) * 2^((bin - 39) \div 4 + 5))

WordsOf(n) == (n + sizeof_word - 1) \div sizeof_word

(* nw keeps its leading bits; one more when it has others.                 *)
LeadingOnly(nw, shift) == nw \div 2^shift
Leading(nw, shift) == nw \div 2^shift + (IF nw % 2^shift # 0 THEN 1 ELSE 0)

bin_of_words(nw) ==
  LET log == log_dn[nw]
  IN  IF nw = 0 THEN 0
      ELSE IF nw < 8 THEN nw - 1
      ELSE IF nw < 128 THEN Leading(nw, log - 3) - 8 + 8 * log + 7 - 8 * 3
      ELSE Leading(nw, log - 2) - 4 + 4 * log + 39 - 4 * 7

bin_of_size(n) ==
  IF WordsOf(n) < WordsOf(size_of_bin(bin_n - 1)) THEN bin_of_words(WordsOf(n)) ELSE -1

-----------------------------------------------------------------------------
(* Pools                                                                   *)

RoundUp(x, align) == ((x + align - 1) \div align) * align
LowBit(x) == CHOOSE b \in {2^i : i \in 0 .. 13} : x % b = 0 /\ (x \div b) % 2 = 1
AlignOf(bin) == IF LowBit(size_of_bin(bin)) < 64 THEN LowBit(size_of_bin(bin)) ELSE 64

pool_waste(bin, pn) ==
  LET pad == RoundUp(sizeof_pool, AlignOf(bin))
  IN  (pad + ((page_size * pn - pad) % size_of_bin(bin))) \div pn

(* calc_pool_best_pages: the first number of pages with little waste; the  *)
(* best so far is carried along and not used.                              *)
pool_best_pages(bin) ==
  IF size_of_bin(bin) % page_size = 0 THEN -1
  ELSE CHOOSE pn \in 1 .. 15 : /\ pn = 15 \/ pool_waste(bin, pn) < 64
                               /\ \A fewer \in 1 .. pn - 1 : pool_waste(bin, fewer) >= 64

PageAddress(p) == sizeof_arena + p * page_size      (* in an aligned arena *)

(* Where the objects of a pool at page p may lie                           *)
FirstObject(bin, p) == RoundUp(PageAddress(p) + sizeof_pool, AlignOf(bin))
PoolEnd(bin, p) == PageAddress(p + pool_best_pages(bin))

AnyAddress(ou) == ou > 0
Avoids(ou) == ou % huge_align # 0

-----------------------------------------------------------------------------
NoPool == [bin |-> -1]

Pooled == {b \in 0 .. bin_n - 1 : pool_best_pages(b) # -1}

(* Multiples of huge_align come round every eight pages.                   *)
Init ==
  \/ size \in 0 .. size_of_bin(bin_n - 1) + sizeof_word /\ pool = NoPool
  \/ /\ size = 0
     /\ \E b \in Pooled, p \in 0 .. 7 :
          pool = [bin |-> b, page |-> p, popn |-> 1, tail |-> FirstObject(b, p),
                  ou |-> FirstObject(b, p) + size_of_bin(b)]

(* arena_pool_init: one object after the other, but for those that would   *)
(* begin at a multiple of huge_align.                                      *)
MoreRoom == pool # NoPool /\ pool.ou + size_of_bin(pool.bin) <= PoolEnd(pool.bin, pool.page)

LayObject ==
  /\ MoreRoom /\ Avoids(pool.ou)
  /\ pool' = [pool EXCEPT !.popn = @ + 1, !.tail = pool.ou, !.ou = @ + size_of_bin(pool.bin)]
  /\ UNCHANGED size

PassAddress ==
  /\ MoreRoom /\ ~ Avoids(pool.ou)
  /\ pool' = [pool EXCEPT !.ou = @ + AlignOf(pool.bin)]
  /\ UNCHANGED size

Next == LayObject \/ PassAddress

Spec == Init /\ [][Next]_vars

-----------------------------------------------------------------------------
(* A size goes to the smallest bin whose objects it fits in, and to none   *)
(* only when the objects of the last would not be larger than it.          *)
SizesFit ==
  LET bin == bin_of_size(size)
  IN  IF bin = -1 THEN size_of_bin(bin_n - 1) < size + sizeof_word
      ELSE /\ bin \in 0 .. bin_n - 1
           /\ size <= size_of_bin(bin)
           /\ bin > 0 => size_of_bin(bin - 1) < size

(* The objects of a pool lie behind its header and within its pages, apart *)
(* from each other; none of them, and no page that is handed out itself,   *)
(* is taken for an object of the C library; and there are two at least,    *)
(* since arena_hold_pooled removes a pool from the heap of held pools when *)
(* its last object comes back and enters it when the first does.           *)
PoolLaid ==
  pool # NoPool =>
    /\ PageAddress(pool.page) % huge_align # 0
    /\ pool.tail >= PageAddress(pool.page) + sizeof_pool
    /\ pool.tail + size_of_bin(pool.bin) <= PoolEnd(pool.bin, pool.page)
    /\ pool.tail + size_of_bin(pool.bin) <= pool.ou
    /\ pool.tail % AlignOf(pool.bin) = 0 /\ pool.tail % huge_align # 0
    /\ ~ MoreRoom => pool.popn >= 2
=============================================================================
