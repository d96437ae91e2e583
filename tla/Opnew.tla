-------------------------------- MODULE Opnew --------------------------------
(***************************************************************************)
(* opnew.hxx, opnew.cxx: operator new and delete of the threads.  A thread *)
(* has arenas of its own; it cuts pools of them into objects and keeps     *)
(* free objects in bins, wherever they come from: delete puts an object    *)
(* into a bin of the thread that calls it.  What lay in a bin for long is  *)
(* given back by gc_bins: to its pool, whose pages are freed when it has   *)
(* all of its objects, or, by a message, to a bin of the thread that owns  *)
(* it.  Where a blob lies in its arenas, and how a pool is cut, is in      *)
(* modules ArenaPages, ArenaTree and SizeClasses, and the order of held    *)
(* pools in PoolHeap.                                                      *)
(*                                                                         *)
(* Each action runs on one thread, on what only that thread touches; the   *)
(* messages of threads::send and outsider_frees, which has a lock, are     *)
(* all that threads share.                                                 *)
(***************************************************************************)
EXTENDS Integers, Sequences, FiniteSets, SequencesExt

CONSTANTS
  Threads,
  PlaceN,      (* Bound: pools and blobs at one time                       *)
  BinN,        (* bins                                                     *)
  Pooled,      (* those whose objects are cut out of pools: all but those  *)
               (* for whole pages                                          *)
  PoolPopn,    (* objects of a pool, at least 2 (module SizeClasses)       *)
  RemoteBins,  (* remote_thread_bins::max_bin_n, 5                         *)
  RemotePopn   (* 256, the objects of one of them                          *)

Places == 1 .. PlaceN       (* in the arenas of a thread               *)
Bins == 0 .. BinN - 1
NoBin == -1

ConstantsOK ==
  /\ PlaceN \in Nat /\ BinN \in Nat \ {0}
  /\ Pooled \subseteq Bins
  /\ PoolPopn >= 2 /\ RemoteBins >= 1 /\ RemotePopn >= 1

Obj(t, p, i) == [owner |-> t, place |-> p, i |-> i]     (* i = 0: a blob   *)

FreePlace == [kind |-> "free"]
Blob(b) == [kind |-> "blob", bin |-> b]     (* bin_of its size, or NoBin   *)
Pool(b, hold) ==
  [kind |-> "pool", bin |-> b, popn_not_held |-> PoolPopn - Len(hold), hold |-> hold]

VARIABLES
  bins,            (* of each thread and bin, its objects from head to tail*)
  popn_least,
  remote_bins,     (* of each thread, for each other: bins and rest        *)
  place,           (* of each thread, what is at a place in its arenas     *)
  held_pools,      (* of each thread and bin                               *)
  outsider_frees,  (* of each thread                                       *)
  initialized,     (* has the thread got its id (its owner_id is not -1)?  *)
  net,             (* messages of flush_remote under way                   *)
  user             (* objects that the program has                         *)

heapVars == <<bins, remote_bins, place, held_pools, outsider_frees>>
vars == <<heapVars, popn_least, initialized, net, user>>

NoRemote == [bins |-> <<>>, rest |-> <<>>]

Init ==
  /\ bins = [t \in Threads |-> [b \in Bins |-> <<>>]]
  /\ popn_least = [t \in Threads |-> [b \in Bins |-> 0]]
  /\ remote_bins = [t \in Threads |-> [u \in Threads |-> NoRemote]]
  /\ place = [t \in Threads |-> [p \in Places |-> FreePlace]]
  /\ held_pools = [t \in Threads |-> [b \in Bins |-> {}]]
  /\ outsider_frees = [t \in Threads |-> <<>>]
  /\ initialized = [t \in Threads |-> FALSE]
  /\ net = {} /\ user = {}

-----------------------------------------------------------------------------
(* What one call does, as a function of the heap: these run one after the  *)
(* other in gc_bins and in flush_remote.                                   *)

Heap == [bins |-> bins, remote |-> remote_bins, place |-> place,
         held |-> held_pools, outs |-> outsider_frees]
SetHeap(h) ==
  /\ bins' = h.bins /\ remote_bins' = h.remote /\ place' = h.place
  /\ held_pools' = h.held /\ outsider_frees' = h.outs

(* pbin: what an arena knows of the size of an object                      *)
bin_of(h, o) ==
  IF h.place[o.owner][o.place].kind = "pool" THEN h.place[o.owner][o.place].bin ELSE NoBin

PushHead(h, t, b, objs) == [h EXCEPT !.bins[t][b] = objs \o @]

arena_dealloc_blob(h, o) == [h EXCEPT !.place[o.owner][o.place] = FreePlace]

(* The pool's pages are freed when all of its objects are held.            *)
AllButOne(popn_not_held) == popn_not_held <= 1
NoneLeft(popn_not_held) == popn_not_held = 0

arena_hold_pooled(h, o) ==
  LET poo == h.place[o.owner][o.place]
      left == poo.popn_not_held - 1
  IN  IF NoneLeft(left)
      THEN [arena_dealloc_blob(h, o) EXCEPT !.held[o.owner][poo.bin] = @ \ {o.place}]
      ELSE [h EXCEPT !.place[o.owner][o.place] =
                        [poo EXCEPT !.popn_not_held = left, !.hold = <<o>> \o @],
                     !.held[o.owner][poo.bin] =
                        IF poo.hold = <<>> THEN @ \cup {o.place} ELSE @]

(* Toward the owner: in a bin with others of the same size, if that has    *)
(* room; in a new bin; or with the rest.                                   *)
arena_dealloc_remote(h, t, o) ==
  LET u == o.owner
      b == bin_of(h, o)
      rb == h.remote[t][u].bins
      open == {i \in DOMAIN rb : rb[i].bin = b /\ Len(rb[i].objs) < RemotePopn}
  IN  IF ~ initialized[u] THEN [h EXCEPT !.outs[u] = <<o>> \o @]
      ELSE IF b # NoBin /\ open # {}
      THEN [h EXCEPT !.remote[t][u].bins[CHOOSE i \in open : \A j \in open : i <= j].objs =
                        <<o>> \o @]
      ELSE IF b # NoBin /\ Len(rb) < RemoteBins
      THEN [h EXCEPT !.remote[t][u].bins = Append(@, [bin |-> b, objs |-> <<o>>])]
      ELSE [h EXCEPT !.remote[t][u].rest = <<o>> \o @]

(* operator delete; by is the bin it finds.                                *)
DeleteBy(h, t, o, by) ==
  IF by # NoBin THEN PushHead(h, t, by, <<o>>)
  ELSE IF o.owner = t THEN arena_dealloc_blob(h, o)
  ELSE arena_dealloc_remote(h, t, o)

Delete(h, t, o) == DeleteBy(h, t, o, bin_of(h, o))
DeleteAll(h, t, objs) == FoldLeft(LAMBDA acc, o : Delete(acc, t, o), h, objs)

-----------------------------------------------------------------------------
(* gc_bins: three quarters of what a bin always had since the last time,   *)
(* from its tail.                                                          *)
Surplus(t, b) == (3 * popn_least[t][b]) \div 4

GiveBack(h, t, b, o) ==
  IF o.owner # t THEN arena_dealloc_remote(h, t, o)
  ELSE IF b \in Pooled THEN arena_hold_pooled(h, o)
  ELSE arena_dealloc_blob(h, o)

CollectBin(h, t, b) ==
  LET objs == h.bins[t][b]
      stay == Len(objs) - Surplus(t, b)
  IN  FoldLeft(LAMBDA acc, o : GiveBack(acc, t, b, o),
               [h EXCEPT !.bins[t][b] = SubSeq(objs, 1, stay)],
               Reverse(SubSeq(objs, stay + 1, Len(objs))))

BinsCollected(t) ==
  FoldLeft(LAMBDA acc, b : CollectBin(acc, t, b), Heap, [k \in 1 .. BinN |-> k - 1])

(* flush_remote                                                            *)
OutsidersFreed(h, t) == DeleteAll([h EXCEPT !.outs[t] = <<>>], t, h.outs[t])

(* progress, when it is time for gc_bins; only deva's threads call it.     *)
progress(t) ==
  LET kept == BinsCollected(t)
      h == OutsidersFreed(kept, t)
      full == {u \in Threads : h.remote[t][u] # NoRemote}
  IN  /\ initialized[t]
      /\ SetHeap([h EXCEPT !.remote[t] = [u \in Threads |-> NoRemote]])
      /\ popn_least' = [popn_least EXCEPT ![t] = [b \in Bins |-> Len(kept.bins[t][b])]]
      /\ net' = net \cup {[to |-> u, content |-> h.remote[t][u]] : u \in full}
      /\ UNCHANGED <<initialized, user>>

(* The message of flush_remote, executed by the owner                      *)
Receive(m) ==
  LET into(acc, rb) == PushHead(acc, m.to, rb.bin, rb.objs)
  IN  /\ net' = net \ {m}
      /\ SetHeap(DeleteAll(FoldLeft(into, Heap, m.content.bins), m.to, m.content.rest))
      /\ UNCHANGED <<popn_least, initialized, user>>

-----------------------------------------------------------------------------
(* operator new                                                            *)

FromBin(t, b) ==
  LET objs == bins[t][b]
  IN  /\ b # NoBin /\ objs # <<>>
      /\ user' = user \cup {Head(objs)}
      /\ bins' = [bins EXCEPT ![t][b] = Tail(objs)]
      /\ popn_least' = [popn_least EXCEPT ![t][b] = IF Len(objs) - 1 < @ THEN Len(objs) - 1 ELSE @]
      /\ UNCHANGED <<remote_bins, place, held_pools, outsider_frees, initialized, net>>

(* arena_fit_and_alloc finds room anywhere (module ArenaTree).             *)
InUse == {x \in Threads \X Places : place[x[1]][x[2]] # FreePlace}
FreeFor(t, p) == place[t][p] = FreePlace /\ Cardinality(InUse) < PlaceN

(* The rest of a pool fills the bin, which is empty.                       *)
Open(t, b, p, objs) ==
  /\ user' = user \cup {Head(objs)}
  /\ bins' = [bins EXCEPT ![t][b] = Tail(objs)]
  /\ place' = [place EXCEPT ![t][p] = Pool(b, <<>>)]
  /\ UNCHANGED <<popn_least, remote_bins, outsider_frees, initialized, net>>

FromHeldPool(t, b) ==
  /\ b \in Pooled /\ bins[t][b] = <<>>
  /\ held_pools[t][b] # {}
  /\ LET lowest == CHOOSE p \in held_pools[t][b] : \A q \in held_pools[t][b] : p <= q
     IN  /\ Open(t, b, lowest, place[t][lowest].hold)
         /\ held_pools' = [held_pools EXCEPT ![t][b] = @ \ {lowest}]

FromNewPool(t, b, p) ==
  /\ b \in Pooled /\ bins[t][b] = <<>>
  /\ held_pools[t][b] = {}
  /\ FreeFor(t, p)
  /\ Open(t, b, p, [k \in 1 .. PoolPopn |-> Obj(t, p, PoolPopn + 1 - k)])
  /\ UNCHANGED held_pools

FromPages(t, b, p) ==
  /\ b \in Bins => b \notin Pooled /\ bins[t][b] = <<>>
  /\ FreeFor(t, p)
  /\ place' = [place EXCEPT ![t][p] = Blob(b)]
  /\ user' = user \cup {Obj(t, p, 0)}
  /\ UNCHANGED <<bins, popn_least, remote_bins, held_pools, outsider_frees, initialized, net>>

operator_new(t, b) ==
  \/ FromBin(t, b)
  \/ FromHeldPool(t, b)
  \/ \E p \in Places : FromNewPool(t, b, p) \/ FromPages(t, b, p)

(* operator delete, by any thread, whoever got the object; with known_size *)
(* a whole page goes to a bin too.                                         *)
operator_delete(t, o) ==
  /\ user' = user \ {o}
  /\ \/ SetHeap(Delete(Heap, t, o))
     \/ /\ place[o.owner][o.place].bin # NoBin
        /\ SetHeap(DeleteBy(Heap, t, o, place[o.owner][o.place].bin))
  /\ UNCHANGED <<popn_least, initialized, net>>

thread_me_initialized(t) ==
  /\ ~ initialized[t]
  /\ initialized' = [initialized EXCEPT ![t] = TRUE]
  /\ UNCHANGED <<heapVars, popn_least, net, user>>

Next ==
  \/ \E t \in Threads : progress(t) \/ thread_me_initialized(t)
  \/ \E t \in Threads, b \in Bins \cup {NoBin} : operator_new(t, b)
  \/ \E t \in Threads, o \in user : operator_delete(t, o)
  \/ \E m \in net : Receive(m)

Spec == Init /\ [][Next]_vars

-----------------------------------------------------------------------------
Existing ==
  UNION {UNION {IF place[t][p].kind = "pool" THEN {Obj(t, p, i) : i \in 1 .. PoolPopn}
                ELSE IF place[t][p].kind = "blob" THEN {Obj(t, p, 0)}
                ELSE {} : p \in Places} : t \in Threads}

HoldOf(t, p) == IF place[t][p].kind = "pool" THEN place[t][p].hold ELSE <<>>

(* Every list of free objects there is, under a name of its own            *)
ListOf(kind, at, i, objs) == [kind |-> kind, at |-> at, i |-> i, objs |-> objs]

RemoteLists(kind, at, r) ==
  {ListOf(kind, at, i, r.bins[i].objs) : i \in DOMAIN r.bins} \cup {ListOf(kind, at, 0, r.rest)}

Lists ==
  {ListOf("bin", x[1], x[2], bins[x[1]][x[2]]) : x \in Threads \X Bins}
  \cup UNION {RemoteLists("remote", x, remote_bins[x[1]][x[2]]) : x \in Threads \X Threads}
  \cup UNION {{ListOf("pool", t, p, HoldOf(t, p)) : p \in Places} : t \in Threads}
  \cup {ListOf("outsiders", t, 0, outsider_frees[t]) : t \in Threads}
  \cup UNION {RemoteLists("message", m, m.content) : m \in net}

Kept == UNION {{<<l, k>> : k \in DOMAIN l.objs} : l \in Lists}

(* An object is the program's, or it is in one bin, list, pool or message: *)
(* never in two, so that no two calls of new return the same memory; never *)
(* nowhere, so that none is lost; and never one of a pool whose pages were *)
(* freed.                                                                  *)
ObjectsOnce ==
  LET free == {x[1].objs[x[2]] : x \in Kept}
  IN  /\ Cardinality(Kept) = Cardinality(free)
      /\ user \cap free = {}
      /\ user \cup free = Existing

(* A bin has objects of its own size; a pool in a heap of held pools has   *)
(* some, and a pool that has some is in the heap of its bin.               *)
BinsSorted ==
  \A t \in Threads, b \in Bins :
    /\ \A k \in DOMAIN bins[t][b] : place[bins[t][b][k].owner][bins[t][b][k].place].bin = b
    /\ held_pools[t][b] = {p \in Places : HoldOf(t, p) # <<>> /\ place[t][p].bin = b}
    /\ popn_least[t][b] <= Len(bins[t][b])
    /\ \A p \in Places : place[t][p].kind = "pool" =>
         place[t][p].popn_not_held = PoolPopn - Len(place[t][p].hold) /\ place[t][p].popn_not_held > 0
=============================================================================
