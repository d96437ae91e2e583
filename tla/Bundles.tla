------------------------------- MODULE Bundles -------------------------------
(***************************************************************************)
(* world/world_gasnet.cxx: how the master of a process sends what its      *)
(* ranks have for the ranks of other processes (master_pump), and how the  *)
(* master of the other process receives it (am_recv, recv_part).  Messages *)
(* to one process are kept in a bundle, in a list for each of its threads. *)
(* An active message (AM) of GASNet takes as much of a bundle as fits: of  *)
(* a thread the rest of a message begun before (the head), whole messages  *)
(* (the middle), and the beginning of one more (the tail).  AMs may be     *)
(* received in any order, so the parts of a message are put together by    *)
(* the sender and a nonce.                                                 *)
(*                                                                         *)
(* Sizes are in words of 8 bytes.                                          *)
(***************************************************************************)
EXTENDS Integers, Sequences, FiniteSets, SequencesExt, FiniteSetsExt

CONSTANTS
  ProcN,       (* process_n; the sender is one of them                     *)
  ThreadN,     (* thread_n                                                 *)
  HeaderSize,  (* 1: of am_thread_header                                   *)
  PartSize,    (* 2: of am_thread_part_header                              *)
  TailRoom,    (* 8: no message is begun with less room than that          *)
  MiddleMax,   (* 2^16, the range of middle_msg_n                          *)
  AmLimits,    (* Bound: the sizes that GASNet may limit an AM to; it has  *)
               (* room for the headers and for TailRoom                    *)
  Traffics     (* Bound: sequences of batches, which are sequences of      *)
               (* messages [proc, thread, size]                            *)

ConstantsOK ==
  /\ {ProcN, ThreadN, HeaderSize, PartSize, TailRoom, MiddleMax} \subseteq Nat \ {0}
  /\ \A len \in AmLimits : len \in Nat /\ len >= HeaderSize + PartSize + TailRoom
  /\ \A g \in Traffics : \A b \in DOMAIN g : \A k \in DOMAIN g[b] :
       /\ g[b][k].proc \in 0 .. ProcN - 1 /\ g[b][k].thread \in 0 .. ThreadN - 1
       /\ g[b][k].size \in Nat \ {0}

Procs == 0 .. ProcN - 1
Threads == 0 .. ThreadN - 1
NotInList == -2
NoProc == -1

VARIABLES
  traffic,
  batch, taken,   (* the batch being received, and how much of it          *)
  bun,            (* bun_table: next, thread_popn, size8 and, of each      *)
                  (* thread, its messages, offset8 and nonce               *)
  bun_head, nonce_bump,
  proc,           (* the process whose bundle is being sent                *)
  am,             (* the AM being made; Nothing before it is prepared      *)
  ams,            (* AMs under way                                         *)
  chunked,        (* chunked_by_key of each process                        *)
  got, twice      (* history: what each thread of each process was given,  *)
                  (* and what it was given again                           *)

inputVars == <<traffic, batch, taken>>
bundleVars == <<bun, bun_head, nonce_bump>>
recvVars == <<chunked, got, twice>>
vars == <<inputVars, bundleVars, proc, am, ams, recvVars>>

Name(b, k) == <<b, k>>
Messages == UNION {{Name(b, k) : k \in DOMAIN traffic[b]} : b \in DOMAIN traffic}
Msg(m) == traffic[m[1]][m[2]]
Words(m, first, n) == {<<m, i>> : i \in first .. first + n - 1}
Whole(m) == Words(m, 0, Msg(m).size)

Nothing == [len |-> 0]

Init ==
  /\ traffic \in Traffics
  /\ batch = 1 /\ taken = 0
  /\ bun = [p \in Procs |-> [next |-> NotInList, thread_popn |-> 0, size8 |-> 0,
                             of |-> [t \in Threads |-> [msgs |-> <<>>, offset8 |-> 0, nonce |-> 0]]]]
  /\ bun_head = NoProc /\ nonce_bump = 0
  /\ proc = NoProc /\ am = Nothing
  /\ ams = {}
  /\ chunked = [p \in Procs |-> {}]
  /\ got = [p \in Procs |-> [t \in Threads |-> {}]]
  /\ twice = {}

-----------------------------------------------------------------------------
(* receive_batch: first each message of the batch ...                      *)

Listed(p, next) == IF next = NotInList THEN bun_head ELSE next

TakeMessage ==
  LET m == Name(batch, taken + 1)
      p == Msg(m).proc
      t == Msg(m).thread
  IN  /\ batch <= Len(traffic) /\ taken < Len(traffic[batch])
      /\ taken' = taken + 1
      /\ bun' = [bun EXCEPT ![p].size8 = @ + Msg(m).size,
                            ![p].thread_popn = @ + (IF bun[p].of[t].msgs = <<>> THEN 1 ELSE 0),
                            ![p].of[t].msgs = Append(@, m),
                            ![p].next = Listed(p, @)]
      /\ bun_head' = IF bun[p].next = NotInList THEN p ELSE bun_head
      /\ UNCHANGED <<traffic, batch, nonce_bump, proc, am, ams, recvVars>>

(* ... and then, once, the sending of all bundles                          *)
Sending == batch <= Len(traffic) /\ taken = Len(traffic[batch])

BatchDone ==
  /\ Sending /\ proc = NoProc /\ bun_head = NoProc
  /\ batch' = batch + 1 /\ taken' = 0
  /\ UNCHANGED <<traffic, bundleVars, proc, am, ams, recvVars>>

(* The list of bundles is walked through; those with a rest make a new one.*)
NextRound ==
  /\ Sending /\ proc = NoProc /\ bun_head # NoProc
  /\ proc' = bun_head /\ bun_head' = NoProc
  /\ UNCHANGED <<inputVars, bun, nonce_bump, am, ams, recvVars>>

(* gex_AM_PrepareRequestMedium; until GASNet has room, it is asked again.  *)
Prepare ==
  LET most == bun[proc].thread_popn * (2 * PartSize + HeaderSize) + bun[proc].size8
  IN  /\ proc # NoProc /\ am = Nothing
      /\ \E limit \in AmLimits :
           am' = [to |-> proc, next |-> bun[proc].next, len |-> Min({most, limit}),
                  used |-> 0, t |-> 0, stage |-> "thread", items |-> <<>>]
      /\ UNCHANGED <<inputVars, bundleVars, proc, ams, recvVars>>

-----------------------------------------------------------------------------
(* The AM is filled, thread by thread.                                     *)

Of(t) == bun[proc].of[t]
First(t) == Head(Of(t).msgs)
At(stage) == am # Nothing /\ am.stage = stage
Open == Last(am.items)
Item(field, x) == [am.items EXCEPT ![Len(am.items)][field] = x]
Full == am' = [am EXCEPT !.stage = "full"]

SkipThread ==
  /\ At("thread") /\ am.t < ThreadN /\ Of(am.t).msgs = <<>>
  /\ am' = [am EXCEPT !.t = @ + 1]
  /\ UNCHANGED bundleVars

OpenThread ==
  /\ At("thread") /\ am.t < ThreadN /\ Of(am.t).msgs # <<>>
  /\ IF am.used + HeaderSize >= am.len THEN Full
     ELSE am' = [am EXCEPT !.used = @ + HeaderSize,
                           !.stage = IF Of(am.t).offset8 # 0 THEN "head" ELSE "middle",
                           !.items = Append(@, [thread |-> am.t, head |-> {}, middle |-> <<>>,
                                                tail |-> {}])]
  /\ UNCHANGED bundleVars

(* A part as it travels: the words, and what its header says               *)
Part(t, nonce, first, n) ==
  {[nonce |-> nonce, total |-> Msg(First(t)).size, n |-> n, words |-> Words(First(t), first, n)]}

NotShortened(size8, n) == size8
Shortened(size8, n) == size8 - n

HeadPart ==
  LET t == am.t
      from == Of(t).offset8
      n == Min({Msg(First(t)).size - from, am.len - (am.used + PartSize)})
      ends == from + n = Msg(First(t)).size
  IN  /\ At("head")
      /\ IF am.used + PartSize >= am.len THEN Full /\ UNCHANGED bundleVars
         ELSE /\ am' = [am EXCEPT !.used = @ + PartSize + n,
                                  !.items = Item("head", Part(t, Of(t).nonce, from, n)),
                                  !.stage = IF ends THEN "middle" ELSE "full"]
              /\ bun' = [bun EXCEPT ![proc].size8 = Shortened(@, n),
                                    ![proc].of[t].offset8 = IF ends THEN 0 ELSE from + n,
                                    ![proc].of[t].msgs = IF ends THEN Tail(@) ELSE @]
              /\ UNCHANGED <<bun_head, nonce_bump>>

Fits(t) == am.used + Msg(First(t)).size <= am.len
Countable == (Len(Open.middle) + 1) % MiddleMax # 0

MiddleMessage ==
  LET t == am.t
  IN  /\ At("middle") /\ Of(t).msgs # <<>>
      /\ Countable /\ Fits(t)
      /\ am' = [am EXCEPT !.used = @ + Msg(First(t)).size,
                          !.items = Item("middle", Append(Open.middle, Whole(First(t))))]
      /\ bun' = [bun EXCEPT ![proc].size8 = @ - Msg(First(t)).size,
                            ![proc].of[t].msgs = Tail(@)]
      /\ UNCHANGED <<bun_head, nonce_bump>>

MiddleFull ==
  /\ At("middle") /\ Of(am.t).msgs # <<>>
  /\ \/ ~ Countable
     \/ ~ Fits(am.t) /\ am.len < am.used + PartSize + TailRoom
  /\ Full
  /\ UNCHANGED bundleVars

NotBumped(nonce) == nonce
Bumped(nonce) == nonce + 1

TailPart ==
  LET t == am.t
      n == am.len - (am.used + PartSize)
  IN  /\ At("middle") /\ Of(t).msgs # <<>>
      /\ Countable /\ ~ Fits(t) /\ am.len >= am.used + PartSize + TailRoom
      /\ am' = [am EXCEPT !.used = am.len, !.stage = "full",
                          !.items = Item("tail", Part(t, nonce_bump, 0, n))]
      /\ bun' = [bun EXCEPT ![proc].size8 = @ - n,
                            ![proc].of[t].offset8 = n, ![proc].of[t].nonce = nonce_bump]
      /\ nonce_bump' = Bumped(nonce_bump)
      /\ UNCHANGED bun_head

ThreadDepleted ==
  /\ At("middle") /\ Of(am.t).msgs = <<>>
  /\ am' = [am EXCEPT !.t = @ + 1, !.stage = "thread"]
  /\ bun' = [bun EXCEPT ![proc].thread_popn = @ - 1]
  /\ UNCHANGED <<bun_head, nonce_bump>>

Fill ==
  /\ proc # NoProc
  /\ \/ SkipThread
     \/ OpenThread
     \/ HeadPart
     \/ MiddleMessage
     \/ MiddleFull
     \/ TailPart
     \/ ThreadDepleted
  /\ UNCHANGED <<inputVars, proc, ams, recvVars>>

(* gex_AM_CommitRequestMedium1, and on to the next bundle of the list      *)
Commit ==
  /\ ams' = ams \cup {[to |-> proc, items |-> am.items]}
  /\ proc' = am.next /\ am' = Nothing
  /\ UNCHANGED <<inputVars, nonce_bump, recvVars>>

SendAll ==
  /\ At("thread") /\ am.t = ThreadN
  /\ bun' = [bun EXCEPT ![proc].next = NotInList]
  /\ UNCHANGED bun_head
  /\ Commit

SendFull ==
  /\ At("full")
  /\ bun' = [bun EXCEPT ![proc].next = bun_head]
  /\ bun_head' = proc
  /\ Commit

-----------------------------------------------------------------------------
(* am_recv in the process that an AM is for; deliveries to its threads     *)
(* are channels of their own (module MpscChannel, SpscChannel).            *)

(* recv_part: a chunk waits for the rest of its message; complete, it is   *)
(* sent to its thread.                                                     *)
Gather(chunks, part, t) ==
  LET same == {c \in chunks : c.nonce = part.nonce}
      old == IF same = {} THEN [nonce |-> part.nonce, thread |-> t,
                                waiting |-> part.total, words |-> {}]
             ELSE CHOOSE c \in same : TRUE
      new == [old EXCEPT !.waiting = @ - part.n, !.words = @ \cup part.words]
  IN  [chunks |-> (chunks \ same) \cup (IF new.waiting = 0 THEN {} ELSE {new}),
       out |-> IF new.waiting = 0 THEN <<[thread |-> new.thread, words |-> new.words]>> ELSE <<>>]

(* One thread's share of an AM: head, middle, tail, in this order          *)
GatherAll(state, parts, t) ==
  IF parts = {} THEN state
  ELSE LET g == Gather(state.chunks, CHOOSE x \in parts : TRUE, t)
       IN  [chunks |-> g.chunks, out |-> state.out \o g.out]

RecvItem(state, item) ==
  LET middle == [k \in DOMAIN item.middle |-> [thread |-> item.thread, words |-> item.middle[k]]]
      headed == GatherAll(state, item.head, item.thread)
  IN  GatherAll([headed EXCEPT !.out = @ \o middle], item.tail, item.thread)

GivenTo(t, out) == {out[k].words : k \in {j \in DOMAIN out : out[j].thread = t}}

am_recv(a) ==
  LET p == a.to
      after == FoldLeft(RecvItem, [chunks |-> chunked[p], out |-> <<>>], a.items)
  IN  /\ ams' = ams \ {a}
      /\ chunked' = [chunked EXCEPT ![p] = after.chunks]
      /\ got' = [got EXCEPT ![p] = [t \in Threads |-> @[t] \cup GivenTo(t, after.out)]]
      /\ twice' = twice \cup UNION {got[p][t] \cap GivenTo(t, after.out) : t \in Threads}
      /\ UNCHANGED <<inputVars, bundleVars, proc, am>>

Next ==
  \/ TakeMessage
  \/ BatchDone
  \/ NextRound
  \/ Prepare
  \/ Fill
  \/ SendAll
  \/ SendFull
  \/ \E a \in ams : am_recv(a)

Spec == Init /\ [][Next]_vars
-----------------------------------------------------------------------------
Left(t, b) == LET q == b.of[t] IN
  MapThenSumSet(LAMBDA k : Msg(q.msgs[k]).size, DOMAIN q.msgs) - q.offset8

(* The asserted arithmetic of a bundle: size8 is what is left of its       *)
(* messages (so nothing is left exactly when an AM took it all), an AM     *)
(* never runs over its buffer, a message that begins in a tail does not    *)
(* end there, and when the batch is over no bundle is left or listed.      *)
BundlesExact ==
  /\ \A p \in Procs :
       /\ bun[p].size8 = MapThenSumSet(LAMBDA t : Left(t, bun[p]), Threads)
       /\ am = Nothing => bun[p].thread_popn = Cardinality({t \in Threads : bun[p].of[t].msgs # <<>>})
       /\ (Sending /\ proc = NoProc /\ bun_head = NoProc) =>
            bun[p].size8 = 0 /\ bun[p].next = NotInList
  /\ am # Nothing =>
       /\ am.used <= am.len
       /\ am.stage = "full" => bun[proc].size8 # 0
       /\ (am.stage = "thread" /\ am.t = ThreadN) => bun[proc].size8 = 0
       /\ \A t \in Threads : bun[proc].of[t].offset8 # 0 =>
            bun[proc].of[t].offset8 < Msg(Head(bun[proc].of[t].msgs)).size

(* Every message is given to the thread it was sent to, whole and once,    *)
(* whatever AMs it was cut into and in whatever order they arrive; when    *)
(* all are received, none is missing and no chunk is left.                 *)
DeliveredWhole ==
  /\ \A p \in Procs, t \in Threads :
       LET mine == {Whole(m) : m \in {n \in Messages : Msg(n).proc = p /\ Msg(n).thread = t}}
       IN  /\ got[p][t] \subseteq mine
           /\ (ams = {} /\ batch > Len(traffic)) => got[p][t] = mine
  /\ twice = {}
  /\ (ams = {} /\ batch > Len(traffic)) => \A p \in Procs : chunked[p] = {}
=============================================================================
