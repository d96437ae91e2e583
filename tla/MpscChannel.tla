---------------------------- MODULE MpscChannel ----------------------------
(***************************************************************************)
(* devastator/threads/message_mpsc.hxx: every thread reads one channel and *)
(* any thread writes to it.  A channel is a linked list of messages on     *)
(* each of a few rails.  A writer exchanges the tail of a rail with the    *)
(* link of its message, and only then stores the message into the link it  *)
(* got: between the two the list is broken, and the reader that comes to   *)
(* the gap spins.  The reader reads what lies before the tail it saw.      *)
(*                                                                         *)
(* Who frees a message, and when, depends on the build:                    *)
(*   sym    the reader overwrites the link before a message with a mark;   *)
(*          the writer keeps its messages in a list of its own and frees   *)
(*          those whose link is marked                                     *)
(*   asym   the reader frees a message when it has gone on to the next     *)
(*   epoch  nobody: a message lies in an arena of the writer that is used  *)
(*          again MsgEpochs epochs later (module EpochAllocator), and at   *)
(*          each epoch the reader moves the list to a head of its own      *)
(*                                                                         *)
(* An action makes one access to what the threads share.                   *)
(***************************************************************************)
EXTENDS Integers, Sequences, FiniteSets

CONSTANTS
  Threads,     (* 0 .. thread_n - 1                                        *)
  Builds,      (* records: kind is "sym", "asym" or "epoch", rails is      *)
               (* DEVA_THREADS_MPSC_RAIL_N, late says                      *)
               (* whether messages are given back after a batch of them    *)
               (* (receive_batch, or receive without total store order),   *)
               (* routes is who sends to whom, and a bound: sends,         *)
               (* the messages that a writer sends                         *)
  MsgEpochs,   (* msg_arena_epochs, 5: the channel needs 3                 *)
  KeepMax,     (* 4: reclaim() gives up at that many messages to be kept   *)
  MaxLive      (* Bound: messages in memory at one time                    *)

ASSUME ConstantsAssumption ==
  /\ IsFiniteSet(Threads) /\ Threads = 0 .. Cardinality(Threads) - 1
  /\ MsgEpochs \in Nat /\ MsgEpochs >= 3
  /\ {KeepMax, MaxLive} \subseteq Nat \ {0}
  /\ \A b \in Builds : b.kind \in {"sym", "asym", "epoch"} /\ b.late \in BOOLEAN
                       /\ b.rails \in Nat \ {0} /\ b.sends \in Nat
                       /\ b.routes \subseteq Threads \X Threads

Msgs == 1 .. MaxLive

(* Links: one in each message, and two heads for each rail of a channel.   *)
LinkOf(m) == <<m>>
HeadLink(t, rail, i) == <<t, rail, i>>

(* What a link may hold besides a message: null, or the mark 0x1.          *)
Null == 0
Mark == -1

(* w_next of a message or sent_head_ of a writer: where sent_tailp_ points.*)
SentHead(t) == <<"sent_head", t>>
SentLinks == {LinkOf(m) : m \in Msgs} \cup {SentHead(t) : t \in Threads}

VARIABLES
  build,
  pc,          (* where each thread is: "user", or in progress "reclaim",  *)
               (* "receive", "take", "give"                                *)
  link,        (* r_next of messages and the heads                         *)
  tailp,       (* tails_[rail].tailp of each channel                       *)
  headp,       (* headp_[rail]                                             *)
  owner,       (* headp_owner_[rail] (asym)                                *)
  from, upto,  (* headp and tailp of receive: what is to be read           *)
  given,       (* how far messages have been given back                    *)
  pending,     (* send: the link exchanged out, and the message            *)
  sentNext, sentTail, (* w_next and sent_head_, and sent_tailp_ (sym)      *)
  scan, keeps, (* mp and keeps of reclaim                                  *)
  epoch, began,(* epoch_barrier_l_ of each thread, modulo 4; only followed *)
               (* in the epoch build, where the channel depends on it      *)
  age,         (* epochs of its writer since a message was allocated       *)
  stamp,       (* history: writer, number and reader of a message, Freed   *)
               (* if its memory is free                                    *)
  sent, got    (* history: messages sent by a thread, and executed of      *)
               (* those by each reader                                     *)

channelVars == <<tailp, headp, owner, from, upto, given>>
sentVars == <<sentTail, scan, keeps>>
history == <<sent, got>>
memory == <<link, sentNext, age, stamp>>
Rails == 0 .. build.rails - 1
Links == {LinkOf(m) : m \in Msgs} \cup (Threads \X Rails \X {0, 1})

vars == <<build, pc, memory, channelVars, pending, sentVars, epoch, began, history>>

NoSend == [old |-> <<>>, msg |-> Null]
Freed == [by |-> 0, to |-> 0, no |-> 0]
Nowhere == [r \in Rails |-> <<>>]
live == {m \in Msgs : stamp[m] # Freed}

Init ==
  /\ build \in Builds
  /\ pc = [t \in Threads |-> "user"]
  /\ link = [l \in Links |-> IF Len(l) = 3 /\ l[Len(l)] = 1 THEN Mark ELSE Null]
  /\ tailp = [t \in Threads |-> [r \in Rails |-> HeadLink(t, r, 0)]]
  /\ headp = tailp
  /\ from = [t \in Threads |-> Nowhere] /\ upto = from /\ given = from
  /\ owner = [t \in Threads |-> [r \in Rails |-> Null]]
  /\ pending = [t \in Threads |-> NoSend]
  /\ sentNext = [l \in SentLinks |-> Null] /\ sentTail = [t \in Threads |-> SentHead(t)]
  /\ scan = [t \in Threads |-> SentHead(t)] /\ keeps = [t \in Threads |-> 0]
  /\ epoch = [t \in Threads |-> 0] /\ began = [t \in Threads |-> TRUE]
  /\ age = [m \in Msgs |-> 0] /\ stamp = [m \in Msgs |-> Freed]
  /\ sent = [t \in Threads |-> [u \in Threads |-> 0]]
  /\ got = [t \in Threads |-> [u \in Threads |-> 0]]

-----------------------------------------------------------------------------
At(t, place) == pc[t] = place /\ pending[t] = NoSend
Goto(t, place) == pc' = [pc EXCEPT ![t] = place]

(* The memory of messages ms is free; a new message has its link cleared   *)
(* before anything else, so what is left in it does not matter.            *)
Free(ms, newLink, newNext, newAge) ==
  /\ link' = [l \in Links |-> IF l \in {LinkOf(m) : m \in ms} THEN Null ELSE newLink[l]]
  /\ sentNext' = [l \in SentLinks |-> IF l \in {LinkOf(m) : m \in ms} THEN Null ELSE newNext[l]]
  /\ age' = [m \in Msgs |-> IF m \in ms THEN 0 ELSE newAge[m]]
  /\ stamp' = [m \in Msgs |-> IF m \in ms THEN Freed ELSE stamp[m]]

(* channels_w::send to channel w, up to the exchange in enqueue.  What the *)
(* messages of a receive send, they send after it.                         *)
TotalSent(t) == LET total[u \in Nat] == IF u = 0 THEN 0 ELSE sent[t][u - 1] + total[u - 1]
                IN  total[Cardinality(Threads)]

Exchange(t, w) ==
  LET m == CHOOSE k \in Msgs \ live : \A j \in Msgs \ live : k <= j
      rail == t % build.rails
  IN  /\ At(t, "user")
      /\ <<t, w>> \in build.routes /\ TotalSent(t) < build.sends /\ Msgs \ live # {}
      /\ sent' = [sent EXCEPT ![t][w] = @ + 1]
      /\ stamp' = [stamp EXCEPT ![m] = [by |-> t, to |-> w, no |-> sent[t][w] + 1]]
      /\ pending' = [pending EXCEPT ![t] = [old |-> tailp[w][rail], msg |-> m]]
      /\ tailp' = [tailp EXCEPT ![w][rail] = LinkOf(m)]
      /\ UNCHANGED <<build, pc, link, sentNext, age, headp, owner, from, upto, given, sentVars,
                     epoch, began, got>>

(* ... and the rest of it: the link, and the writer's own list.            *)
LinkUp(t) ==
  LET m == pending[t].msg
  IN  /\ pending[t] # NoSend
      /\ link' = [link EXCEPT ![pending[t].old] = m]
      /\ pending' = [pending EXCEPT ![t] = NoSend]
      /\ IF build.kind = "sym"
         THEN /\ sentNext' = [sentNext EXCEPT ![LinkOf(m)] = Null, ![sentTail[t]] = m]
              /\ sentTail' = [sentTail EXCEPT ![t] = LinkOf(m)]
         ELSE UNCHANGED <<sentNext, sentTail>>
      /\ UNCHANGED <<build, pc, age, stamp, channelVars, scan, keeps, epoch, began, history>>

-----------------------------------------------------------------------------
(* epoch_barrier_l_ keeps the promise of ThreadBarrier (module Barrier).   *)
EpochBarrier == INSTANCE ThreadBarrier WITH Mod <- 4

bumped(t) == ~ began[t]

(* What of t's arena is used again when an epoch has passed.               *)
Expired(t) == {m \in live : stamp[m].by = t /\ age[m] = MsgEpochs - 1}

(* threads::progress_begin, with the bump of the message arena.            *)
ProgressBegin(t) ==
  LET bump == build.kind = "epoch" /\ EpochBarrier!EveryoneBegan(t)
  IN  /\ At(t, "user")
      /\ Goto(t, IF build.kind = "sym" THEN "reclaim" ELSE "receive")
      /\ epoch' = IF bump THEN [epoch EXCEPT ![t] = EpochBarrier!After(@)] ELSE epoch
      /\ began' = IF bump THEN [began EXCEPT ![t] = FALSE] ELSE began
      /\ IF bump
         THEN Free(Expired(t), link, sentNext,
                   [m \in Msgs |-> IF m \in live /\ stamp[m].by = t THEN age[m] + 1 ELSE age[m]])
         ELSE UNCHANGED memory
      /\ UNCHANGED <<build, channelVars, pending, sentVars, history>>

(* channels_w::reclaim, sym: one message of the writer's list.             *)
ReclaimStep(t) ==
  LET m == sentNext[scan[t]]
      free == m # Null /\ link[LinkOf(m)] = Mark
      goOn == m # Null /\ ~ free /\ keeps[t] + 1 < KeepMax
  IN  /\ At(t, "reclaim")
      /\ IF free
         THEN /\ Free({m}, link, [sentNext EXCEPT ![scan[t]] = sentNext[LinkOf(m)]], age)
              /\ UNCHANGED <<pc, sentVars>>
         ELSE IF goOn
         THEN /\ scan' = [scan EXCEPT ![t] = LinkOf(m)]
              /\ keeps' = [keeps EXCEPT ![t] = @ + 1]
              /\ UNCHANGED <<pc, memory, sentTail>>
         ELSE /\ sentTail' = [sentTail EXCEPT ![t] = scan[t]]
              /\ scan' = [scan EXCEPT ![t] = SentHead(t)] /\ keeps' = [keeps EXCEPT ![t] = 0]
              /\ Goto(t, "receive")
              /\ UNCHANGED memory
      /\ UNCHANGED <<build, channelVars, pending, epoch, began, history>>

-----------------------------------------------------------------------------
(* channels_r::receive and receive_batch: first the tails are seen.  At    *)
(* the end of an epoch the list goes on at a head that is not in use.      *)
SameHead(t, rail) == HeadLink(t, rail, 0)
NextHead(t, rail) == HeadLink(t, rail, epoch[t] % 2)

Rehead(t) == build.kind = "epoch" /\ bumped(t)

Snapshot(t) ==
  LET heads == [r \in Rails |-> IF Rehead(t) THEN NextHead(t, r) ELSE tailp[t][r]]
  IN  /\ At(t, "receive")
      /\ from' = [from EXCEPT ![t] = headp[t]]
      /\ given' = [given EXCEPT ![t] = IF build.late THEN headp[t] ELSE Nowhere]
      /\ upto' = [upto EXCEPT ![t] = tailp[t]]
      /\ headp' = [headp EXCEPT ![t] = heads]
      /\ link' = IF Rehead(t)
                 THEN [l \in Links |-> IF \E r \in Rails : l = NextHead(t, r) THEN Null
                                       ELSE link[l]]
                 ELSE link
      /\ tailp' = IF Rehead(t) THEN [tailp EXCEPT ![t] = heads] ELSE tailp
      /\ Goto(t, "take")
      /\ UNCHANGED <<build, sentNext, age, stamp, owner, pending, sentVars, epoch, began, history>>

(* The rails to read from next: all of them while none is used up, then    *)
(* the first that is not.                                                  *)
Left(t) == {r \in Rails : from[t][r] # upto[t][r]}
AlwaysAbreast(t) == Rails
Abreast(t) ==
  IF Left(t) = Rails THEN Rails
  ELSE {r \in Left(t) : \A q \in Left(t) : r <= q}

(* Giving back what lies before link l: the message before it is marked    *)
(* for its writer, or freed.                                               *)
MarkTooEarly(l) == IF link[l] \in Msgs THEN LinkOf(link[l]) ELSE l
Marked(l) == l

GiveBack(t, rs, ls) ==
  \/ /\ build.kind = "sym"
     /\ Free({}, [l \in Links |-> IF l \in {Marked(ls[r]) : r \in rs} THEN Mark ELSE link[l]],
             sentNext, age)
     /\ UNCHANGED owner
  \/ /\ build.kind = "asym"
     /\ Free({owner[t][r] : r \in rs}, link, sentNext, age)
     /\ owner' = [owner EXCEPT ![t] = [r \in Rails |-> IF r \in rs THEN link[ls[r]] ELSE @[r]]]
  \/ build.kind = "epoch" /\ UNCHANGED <<memory, owner>>

Take(t) ==
  LET rs == Abreast(t)
      ms == {link[from[t][r]] : r \in rs}
  IN  /\ At(t, "take") /\ Left(t) # {}
      /\ Null \notin ms
      /\ got' = [got EXCEPT ![t] = [u \in Threads |->
                    @[u] + Cardinality({m \in ms : stamp[m].by = u})]]
      /\ from' = [from EXCEPT ![t] = [r \in Rails |-> IF r \in rs THEN LinkOf(link[@[r]])
                                                      ELSE @[r]]]
      /\ IF build.late
         THEN UNCHANGED <<memory, owner>> ELSE GiveBack(t, rs, from[t])
      /\ UNCHANGED <<build, pc, tailp, headp, upto, given, pending, sentVars, epoch, began, sent>>

(* ... and threads::progress_end.                                          *)
Leave(t) ==
  /\ Goto(t, "user")
  /\ from' = [from EXCEPT ![t] = Nowhere] /\ upto' = [upto EXCEPT ![t] = Nowhere]
  /\ given' = [given EXCEPT ![t] = Nowhere]
  /\ began' = [began EXCEPT ![t] = TRUE]
  /\ UNCHANGED <<build, memory, tailp, headp, owner, pending, sentVars, epoch, history>>

TakenAll(t) ==
  /\ At(t, "take") /\ Left(t) = {}
  /\ IF ~ build.late THEN Leave(t)
     ELSE /\ Goto(t, "give")
          /\ UNCHANGED <<build, memory, channelVars, pending, sentVars, epoch, began, history>>

(* The second pass of receive_batch gives the messages back one by one.    *)
Give(t) ==
  \/ \E r \in Rails :
       /\ At(t, "give") /\ given[t][r] # upto[t][r]
       /\ \A q \in Rails : given[t][q] # upto[t][q] => r <= q
       /\ GiveBack(t, {r}, given[t])
       /\ given' = [given EXCEPT ![t][r] = LinkOf(link[@])]
       /\ UNCHANGED <<build, pc, tailp, headp, from, upto, pending, sentVars, epoch, began,
                      history>>
  \/ At(t, "give") /\ given[t] = upto[t] /\ Leave(t)

Step(t) ==
  \/ LinkUp(t) \/ ProgressBegin(t) \/ ReclaimStep(t) \/ Snapshot(t) \/ Take(t)
  \/ TakenAll(t) \/ Give(t)

Next == \E t \in Threads : Step(t) \/ \E w \in Threads : Exchange(t, w)

Spec == Init /\ [][Next]_vars

(* Every thread goes on, and makes progress again and again.               *)
FairSpec == Spec /\ \A t \in Threads : WF_vars(Step(t))

-----------------------------------------------------------------------------
(* The messages on a rail of channel t from link l up to link end, with    *)
(* the links that are still to be stored.                                  *)
Linking(l) == {u \in Threads : pending[u].old = l}
Follow(l) == IF Linking(l) = {} THEN link[l] ELSE pending[CHOOSE u \in Linking(l) : TRUE].msg

Chain(l, end) ==
  LET walk[n \in 0 .. MaxLive] ==
        IF n = 0 THEN [at |-> l, msgs |-> <<>>]
        ELSE LET w == walk[n - 1]
             IN  IF w.at = end \/ Follow(w.at) \notin Msgs THEN w
                 ELSE [at |-> LinkOf(Follow(w.at)), msgs |-> Append(w.msgs, Follow(w.at))]
  IN  walk[MaxLive]

(* What thread t has yet to read on a rail: up to the tail it saw, and     *)
(* behind that, if it has moved the list to another head, from there on.   *)
Unread(t, r) ==
  IF pc[t] = "take" THEN Chain(from[t][r], upto[t][r]).msgs \o Chain(headp[t][r], tailp[t][r]).msgs
  ELSE Chain(headp[t][r], tailp[t][r]).msgs

(* Nothing is lost, repeated or taken out of order: what the reader has    *)
(* yet to reach are exactly the messages it has not executed, those of     *)
(* each writer in the order they were sent, although writers break the     *)
(* list and mend it in any order and the reader cuts it at every epoch.    *)
InOrder ==
  \A t, u \in Threads :
    LET q == Unread(t, u % build.rails)
        own == {i \in DOMAIN q : stamp[q[i]].by = u}
    IN  /\ \A i \in DOMAIN q : q[i] \in live /\ stamp[q[i]].to = t
        /\ {stamp[q[i]].no : i \in own} = got[t][u] + 1 .. sent[u][t]
        /\ \A i, j \in own : i < j => stamp[q[i]].no < stamp[q[j]].no

(* Nobody follows or writes a link in memory that may be used again: not   *)
(* the reader, whose place is the link of a message it has executed, nor a *)
(* writer that will link up to it.                                         *)
NoFreedMessage ==
  LET Safe(l) == Len(l) = 3 \/ l[1] \in live
  IN  \A t \in Threads :
        /\ pending[t] # NoSend => Safe(pending[t].old) /\ pending[t].msg \in live
        /\ \A r \in Rails : /\ Safe(headp[t][r]) /\ Safe(tailp[t][r])
                            /\ pc[t] = "take" => Safe(from[t][r])
                            /\ pc[t] = "give" => Safe(given[t][r])

(* sym: the list of a writer holds every message that it has sent and not  *)
(* freed, so that none of them is forgotten.                               *)
SentList(t) ==
  LET walk[n \in 0 .. MaxLive] ==
        IF n = 0 THEN {}
        ELSE walk[n - 1]
             \cup ({sentNext[l] : l \in {SentHead(t)} \cup {LinkOf(m) : m \in walk[n - 1]}}
                   \ {Null})
  IN  walk[MaxLive]

NoneForgotten ==
  build.kind = "sym" =>
    live = UNION {SentList(t) : t \in Threads}
           \cup {pending[t].msg : t \in {u \in Threads : pending[u] # NoSend}}

(* Every message that is sent is executed: a reader never waits for ever   *)
(* at a gap, and no rail is left behind.                                   *)
Delivered == \A t, u \in Threads : <>[](got[t][u] = sent[u][t])
=============================================================================
