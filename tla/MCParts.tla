------------------------------- MODULE MCParts -------------------------------
(***************************************************************************)
(* Instance for TLC of the modules that are used by one thread at a time   *)
(* or work with messages of their own: the collectives of world/, the      *)
(* bundles of the master, the containers of the engine, the allocators.    *)
(* They share no state.  A behaviour is one of a single part; the others   *)
(* stay as they began.                                                     *)
(***************************************************************************)
EXTENDS Integers, Sequences, FiniteSets

CONSTANTS
  RankN, Scripts,                                                  (* Collectives    *)
  ProcN, ThreadN, HeaderSize, PartSize, TailRoom, MiddleMax, AmLimits, Traffics,
                                                                   (* Bundles        *)
  Names, MaxLen,                                                   (* Queue          *)
  KeysOf,                                                          (* MinHeap        *)
  Hash, Bits, Versions, Base,                                      (* IntrusiveMap   *)
  PageN, MaxPn,                                                    (* ArenaPages     *)
  ArenaN, HoleMax, LargestPn,                                      (* ArenaTree      *)
  Pools,                                                           (* PoolHeap       *)
  HeapThreads, PlaceN, BinN, PooledBins, PoolPopn, RemoteBins, RemotePopn
                                                                   (* Opnew          *)

VARIABLES
  part,
  script, call, busy, reduce_incoming, reduce_acc, ans, accs, received, net, results, visits,
  traffic, batch, taken, bun, bun_head, nonce_bump, proc, am, ams, chunked, got, twice,
  n, cap, beg, ring, front, queue_right,
  heap, ix, key, members, heap_right,
  popn, hbit, bkts, table, map_right,
  size, pool,
  pmap, holes, blobs,
  root, root_max, kid, kid_max, arena_popn, hole_size_max,
  top, held_n, link, held,
  bins, popn_least, remote_bins, place, held_pools, outsider_frees, initialized, frees, user

reductionVars ==
  <<script, call, busy, reduce_incoming, reduce_acc, ans, accs, received, net, results, visits>>
masterVars ==
  <<traffic, batch, taken, bun, bun_head, nonce_bump, proc, am, ams, chunked, got, twice>>
queueVars == <<n, cap, beg, ring, front, queue_right>>
heapVars == <<heap, ix, key, members, heap_right>>
mapVars == <<popn, hbit, bkts, table, map_right>>
sizeVars == <<size, pool>>
pageVars == <<pmap, holes, blobs>>
arenaVars == <<root, root_max, kid, kid_max, arena_popn, hole_size_max>>
poolVars == <<top, held_n, link, held>>
opnewVars ==
  <<bins, popn_least, remote_bins, place, held_pools, outsider_frees, initialized, frees, user>>

vars == <<part, reductionVars, masterVars, queueVars, heapVars, mapVars, sizeVars,
          pageVars, arenaVars, poolVars, opnewVars>>

Reductions == INSTANCE Collectives WITH N <- RankN
Master == INSTANCE Bundles
Deque == INSTANCE Queue WITH right <- queue_right
Least == INSTANCE MinHeap WITH right <- heap_right
Table == INSTANCE IntrusiveMap WITH right <- map_right
Classes == INSTANCE SizeClasses
Paged == INSTANCE ArenaPages
Arenas == INSTANCE ArenaTree WITH popn <- arena_popn
HeldPools == INSTANCE PoolHeap WITH n <- held_n
New == INSTANCE Opnew WITH net <- frees, Threads <- HeapThreads, Pooled <- PooledBins

ASSUME
  /\ Reductions!ConstantsOK /\ Master!ConstantsOK
  /\ Deque!ConstantsOK /\ Least!ConstantsOK /\ Table!ConstantsOK
  /\ Paged!ConstantsOK /\ Arenas!ConstantsOK
  /\ HeldPools!ConstantsOK /\ New!ConstantsOK

PartNames ==
  {"reductions", "master", "queue", "heap", "map", "classes", "pages", "arenas",
   "pools", "opnew"}

(* The parts that may begin in several ways begin in one when not in use.  *)
Init ==
  /\ part \in PartNames
  /\ Reductions!Init /\ (part # "reductions" => script = CHOOSE g \in Scripts : TRUE)
  /\ Master!Init /\ (part # "master" => traffic = CHOOSE g \in Traffics : TRUE)
  /\ Deque!Init
  /\ Least!Init
  /\ Table!Init
  /\ IF part = "classes" THEN Classes!Init ELSE size = 0 /\ pool = Classes!NoPool
  /\ Paged!Init
  /\ Arenas!Init
  /\ HeldPools!Init
  /\ New!Init

Frozen ==
  /\ UNCHANGED part
  /\ part # "reductions" => UNCHANGED reductionVars
  /\ part # "master" => UNCHANGED masterVars
  /\ part # "queue" => UNCHANGED queueVars
  /\ part # "heap" => UNCHANGED heapVars
  /\ part # "map" => UNCHANGED mapVars
  /\ part # "classes" => UNCHANGED sizeVars
  /\ part # "pages" => UNCHANGED pageVars
  /\ part # "arenas" => UNCHANGED arenaVars
  /\ part # "pools" => UNCHANGED poolVars
  /\ part # "opnew" => UNCHANGED opnewVars

Step ==
  \/ part = "reductions" /\ Reductions!Next
  \/ part = "master" /\ Master!Next
  \/ part = "queue" /\ Deque!Next
  \/ part = "heap" /\ Least!Next
  \/ part = "map" /\ Table!Next
  \/ part = "classes" /\ Classes!Next
  \/ part = "pages" /\ Paged!Next
  \/ part = "arenas" /\ Arenas!Next
  \/ part = "pools" /\ HeldPools!Next
  \/ part = "opnew" /\ New!Next

Next == Step /\ Frozen

Spec == Init /\ [][Next]_vars

-----------------------------------------------------------------------------
(* The values of the larger constants                                      *)

Message(p, t, words) == [proc |-> p, thread |-> t, size |-> words]

(* Two long messages to threads of one process and a later one; short ones *)
(* to the limit of the count; and two processes.                           *)
SomeTraffic ==
  {<<<<Message(0, 0, 6), Message(0, 1, 7)>>, <<Message(0, 0, 2)>>>>,
   <<<<Message(0, 0, 1), Message(0, 0, 1), Message(0, 0, 1), Message(1, 1, 5)>>>>,
   <<<<Message(0, 1, 1), Message(0, 0, 7), Message(1, 0, 1)>>>>}

Script(fs, rs) == [calls |-> fs, casters |-> rs]

(* Two reductions in a row, two scans in a row, and two broadcasts at once *)
SomeScripts ==
  {Script(<<"reduce", "reduce">>, {}), Script(<<"scan", "scan">>, {}), Script(<<>>, {1, 3})}

(* Six elements with two keys each, of which some are the same             *)
SomeKeys == [x \in 1 .. 6 |-> {x, x + 3}]

(* Five keys; the last two have the same hash.                             *)
SomeHash == [k \in 1 .. 5 |-> IF k = 5 THEN 3 ELSE k - 1]

-----------------------------------------------------------------------------
(* reduce, scan_reduce: each answer is made of the values of its own call; *)
(* bcast_procs reaches each process once.                                  *)
CollectivesExact == Reductions!AnswersExact /\ Reductions!BcastOnce
(* am_recv: every message arrives once and whole; master_pump: what it     *)
(* asserts of the arithmetic of bundles.                                   *)
DeliveredWhole == Master!DeliveredWhole /\ Master!BundlesExact
(* The containers of the engine hold what was put in, in their order.      *)
ContainersHold == Deque!QueueIsSequence /\ Least!HeapInOrder /\ Table!MapIsTable
(* opnew: a request is given pages, or a piece of a pool, that is large    *)
(* enough and nobody else's, and is turned away only when nothing fits.    *)
ArenasExact ==
  /\ Classes!SizesFit /\ Classes!PoolLaid
  /\ Paged!PagesExact
  /\ Arenas!FindsRoom
  /\ HeldPools!HeapOfHeld
(* opnew: an object is in one place, whichever threads free it, and its    *)
(* pool is not freed before it is back.                                    *)
ObjectsOnce == New!ObjectsOnce /\ New!BinsSorted
=============================================================================
