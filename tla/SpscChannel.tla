---------------------------- MODULE SpscChannel ----------------------------
(***************************************************************************)
(* devastator/threads/message_spsc.hxx: a channel with one writer and one  *)
(* reader thread, as driven by progress() (threads.cxx, world_threads.cxx).*)
(*                                                                         *)
(* The writer appends messages to a linked list and publishes how many it  *)
(* has sent in a counter of few bits, the reader's notification slot.  It  *)
(* must not publish more than the counter can tell apart, so it keeps a    *)
(* wall.  Three builds differ in how the wall moves and memory is reused:  *)
(*   asym   the reader says nothing; credits return after four epochs      *)
(*   sym    the reader acknowledges in a slot of the writer                *)
(*   epoch  no wall; three lists, one per epoch modulo 3, and each is      *)
(*          emptied when its epoch is over                                 *)
(* The epoch of a thread advances by a barrier that progress() tests.      *)
(*                                                                         *)
(* Message number k is the k-th one sent: positions in the list stand for  *)
(* pointers.  An action makes one access to what the threads share, or     *)
(* reads one thing and writes another that the other thread cannot relate. *)
(* Links are written before they are published (release and acquire), so   *)
(* the order of actions is the order seen.  A message is executed in the   *)
(* action that reads the slot or tail telling of it; what it sends, it     *)
(* sends at the end of receive.                                            *)
(***************************************************************************)
EXTENDS Integers

CONSTANTS
  Builds,      (* how the library may be compiled: kind is "asym", "sym" or *)
               (* "epoch", bits is DEVA_THREADS_SPSC_BITS (8 or 16; with 32 *)
               (* there is no wall, and that build is not modelled),        *)
               (* and a bound: sends, the messages sent                     *)
  CounterBits, (* 32: width of recv_bump and recv_bump_wall                *)
  MaxAhead     (* Bound: messages sent and not published, less than what   *)
               (* comparisons of recv_bump around its wrap can bear        *)

ASSUME ConstantsAssumption ==
  /\ Builds \subseteq [kind : {"asym", "sym", "epoch"}, bits : 1 .. CounterBits - 2,
                      sends : Nat]
  /\ CounterBits \in Nat /\ MaxAhead \in 0 .. 2^(CounterBits - 2)

Threads == {0, 1}
Writer == 0
Lists == 0 .. 2

U32(x) == x % 2^CounterBits

(* u32_less, u32_less_eq                                                   *)
Less(a, b) == U32(b - a - 1) < 2^(CounterBits - 1)
LessEq(a, b) == U32(b - a) < 2^(CounterBits - 1)

VARIABLES
  build,       (* how the library was compiled                             *)
  Reader,      (* the thread that reads: the writer itself or the other    *)
  pc,          (* where each thread is in progress(): "user" outside,      *)
               (* "again" at the head of its loop for a further turn       *)
  look,        (* the list that receive looks at next (epoch)              *)
  epoch3,      (* epoch_mod3_ of each thread                               *)
  began,       (* has it begun the next epoch barrier?                     *)
  backlogged,  (* ps.backlogged of the writer                              *)
  recvBump, wall, (* recv_bump, recv_bump_wall                             *)
  ackBump,     (* epoch_ack_bump[0..3], here 1 .. 4 (asym)                 *)
  ackSlot, ackShadow, (* the writer's ack slot and its shadow (sym)        *)
  ackHead,     (* position of ack_head (sym)                               *)
  slot, shadow,(* the reader's notification slot and its shadow            *)
  tailList,    (* the list that tailp is in (epoch)                        *)
  linked, live, seen, (* length of each list as the writer has linked it,  *)
               (* as tailp_live and as tailp_shadow tell (epoch)           *)
  sent, notified, received (* history: messages sent, published, executed  *)

threadVars == <<pc, look, epoch3, began, backlogged>>
creditVars == <<recvBump, wall, ackBump, ackShadow, ackHead>>
listVars == <<tailList, linked, live, seen>>
vars == <<build, Reader, threadVars, creditVars, ackSlot, slot, shadow, listVars,
          sent, notified, received>>

-----------------------------------------------------------------------------
Full == 2^build.bits
Signal(x) == x % Full

(* channels_w::connect, and the first begin of the epoch barrier in tmain. *)
Init ==
  /\ build \in Builds /\ Reader \in Threads
  /\ pc = [t \in Threads |-> "user"] /\ look = 0
  /\ epoch3 = [t \in Threads |-> 0] /\ began = [t \in Threads |-> TRUE]
  /\ backlogged = FALSE
  /\ recvBump = 0 /\ wall = Full /\ ackBump = <<0, 0, 0, 0>>
  /\ ackSlot = 0 /\ ackShadow = 0 /\ ackHead = 0
  /\ slot = 0 /\ shadow = 0
  /\ tailList = 0 /\ linked = [e \in Lists |-> 0]
  /\ live = [e \in Lists |-> 0] /\ seen = [e \in Lists |-> 0]
  /\ sent = 0 /\ notified = 0 /\ received = 0

(* What the writer puts in the slot is the number of a message, cut off.   *)
Publish(bump, sentNow, bumpNow) ==
  /\ slot' = Signal(bump)
  /\ notified' = sentNow - U32(bumpNow - bump)

PublishNothing == UNCHANGED <<slot, notified>>

(* May the slot say bump?                                                  *)
WithinOneMore(bump) == LessEq(bump, wall)
Within(bump) == Less(bump, wall)

(* With lists the slot is written after the tail, and before the writer    *)
(* does anything else.                                                     *)
Announced == build.kind = "epoch" => slot = Signal(recvBump)
At(t, places) == pc[t] \in places /\ (t = Writer => Announced)

Announce ==
  /\ ~ Announced
  /\ Publish(recvBump, sent, recvBump)
  /\ UNCHANGED <<build, Reader, threadVars, creditVars, ackSlot, shadow, listVars,
                 sent, received>>

(* channels_w::send, by the client or by a message that progress() runs.   *)
Send ==
  LET bump == U32(recvBump + 1)
  IN  /\ At(Writer, {"user", "end"})
      /\ sent < build.sends /\ (build.kind # "epoch" => sent - notified < MaxAhead)
      /\ sent' = sent + 1 /\ recvBump' = bump
      /\ IF build.kind = "epoch"
         THEN /\ linked' = [linked EXCEPT ![tailList] = @ + 1]
              /\ live' = [live EXCEPT ![epoch3[Writer]] = linked[tailList] + 1]
              /\ PublishNothing
         ELSE /\ UNCHANGED <<linked, live>>
              /\ IF Within(bump) THEN Publish(bump, sent + 1, bump) ELSE PublishNothing
      /\ UNCHANGED <<build, Reader, threadVars, wall, ackBump, ackSlot, ackShadow,
                     ackHead, shadow, tailList, seen, received>>

-----------------------------------------------------------------------------
(* epoch3_inc                                                              *)
Inc3(e) == (e + 1) % 3

(* epoch_barrier_l_ keeps the promise of ThreadBarrier (module Barrier).   *)
EpochBarrier == INSTANCE ThreadBarrier WITH Mod <- 3, epoch <- epoch3

(* threads::progress_begin; bumped(t) is ps.epoch_bumped.                  *)
bumped(t) == ~ began[t]

NeverClear(b, bump) == b
ClearBacklog(b, bump) == b /\ ~ bump

(* Stages in which t does nothing on this channel are passed over.         *)
AfterReclaim(t) == IF t = Reader THEN "receive" ELSE "end"
AfterBegin(t) == IF t = Writer THEN "reclaim" ELSE AfterReclaim(t)

ProgressBegin(t) ==
  LET bump == EpochBarrier!EveryoneBegan(t)
  IN  /\ At(t, {"user", "again"})
      /\ pc' = [pc EXCEPT ![t] = AfterBegin(t)]
      /\ epoch3' = IF bump THEN [epoch3 EXCEPT ![t] = Inc3(@)] ELSE epoch3
      /\ began' = IF bump THEN [began EXCEPT ![t] = FALSE] ELSE began
      /\ backlogged' = IF t = Writer THEN ClearBacklog(backlogged, bump) ELSE backlogged
      /\ UNCHANGED <<build, Reader, look, creditVars, ackSlot, slot, shadow, listVars,
                     sent, notified, received>>

(* The wall moves by acks: publish what it held back.                      *)
PublishOnlyFull(acks) ==
  IF LessEq(U32(wall + acks - 1), recvBump)
  THEN Publish(U32(wall + acks - 1), sent, recvBump)
  ELSE PublishNothing
PublishBacklog(acks) ==
  IF LessEq(U32(wall + acks - 1), recvBump)
  THEN Publish(U32(wall + acks - 1), sent, recvBump)
  ELSE IF LessEq(wall, recvBump) THEN Publish(recvBump, sent, recvBump)
  ELSE PublishNothing

(* The credits held by the epochs that are not over, and the queue of them *)
(* after one more epoch.                                                   *)
Held == ackBump[2] + ackBump[3] + ackBump[4]
AfterEpochAtOnce(new) == <<new, ackBump[3], ackBump[4], 0>>
AfterEpoch(new) == <<ackBump[2], ackBump[3], ackBump[4], new>>

(* channels_w::reclaim, asym: at each epoch, the credits of the messages   *)
(* published four epochs ago return.                                       *)
ReclaimAsym ==
  LET acks == ackBump[1]
      newWall == U32(wall + acks)
      behind == LessEq(newWall, recvBump)
      unused == IF behind THEN 0 ELSE U32(newWall - 1 - recvBump)
  IN  /\ ackBump' = AfterEpoch(Signal(Full - 1 - Held - unused))
      /\ backlogged' = (backlogged \/ (behind /\ U32(recvBump - newWall) >= Full))
      /\ PublishBacklog(acks)
      /\ wall' = newWall
      /\ UNCHANGED <<recvBump, ackShadow, ackHead, tailList, linked>>

(* sym: the acknowledged messages' credits return and they are freed.      *)
ReclaimSym ==
  LET acks == Signal(ackSlot - ackShadow)
  IN  /\ IF acks = 0 THEN PublishNothing ELSE PublishBacklog(acks)
      /\ wall' = U32(wall + acks)
      /\ ackShadow' = ackSlot /\ ackHead' = ackHead + acks
      /\ UNCHANGED <<recvBump, ackBump, backlogged, tailList, linked>>

(* epoch: the writer goes on in the list of its new epoch.                 *)
ReclaimEpoch ==
  /\ tailList' = epoch3[Writer]
  /\ linked' = [linked EXCEPT ![epoch3[Writer]] = 0]
  /\ PublishNothing
  /\ UNCHANGED <<creditVars, backlogged>>

Reclaim ==
  /\ pc[Writer] = "reclaim"
  /\ pc' = [pc EXCEPT ![Writer] = AfterReclaim(Writer)]
  /\ \/ build.kind = "sym" /\ ReclaimSym
     \/ build.kind = "asym" /\ bumped(Writer) /\ ReclaimAsym
     \/ build.kind = "epoch" /\ bumped(Writer) /\ ReclaimEpoch
     \/ /\ build.kind # "sym" /\ ~ bumped(Writer)
        /\ PublishNothing
        /\ UNCHANGED <<creditVars, backlogged, tailList, linked>>
  /\ UNCHANGED <<build, Reader, look, epoch3, began, ackSlot, shadow, live, seen,
                 sent, received>>

-----------------------------------------------------------------------------
(* channels_r::receive: signal_slots::reap, and as many messages as the    *)
(* slot has advanced are executed.                                         *)
ReceiveCounted ==
  LET n == Signal(slot - shadow)
  IN  /\ build.kind # "epoch"
      /\ received' = received + n
      /\ shadow' = slot
      /\ pc' = [pc EXCEPT ![Reader] = IF build.kind = "sym" /\ n > 0 THEN "ack" ELSE "end"]
      /\ UNCHANGED <<look, ackSlot, live, seen>>

(* sym: what has been executed is acknowledged.                            *)
Ack ==
  /\ pc[Reader] = "ack"
  /\ ackSlot' = shadow
  /\ pc' = [pc EXCEPT ![Reader] = "end"]
  /\ UNCHANGED <<build, Reader, look, epoch3, began, backlogged, creditVars, slot, shadow,
                 listVars, sent, notified, received>>

(* epoch: a slot that has changed, or the end of an epoch, makes the       *)
(* reader look at the three lists one after another; at the end of an      *)
(* epoch it then empties the list that the next epoch will use.            *)
QuiescedListLate(e3) == Inc3(Inc3(e3))
QuiescedList(e3) == Inc3(e3)

Worthwhile == bumped(Reader) \/ slot # shadow

LookNot ==
  /\ build.kind = "epoch" /\ look = 0 /\ ~ Worthwhile
  /\ pc' = [pc EXCEPT ![Reader] = "end"]
  /\ UNCHANGED <<look, ackSlot, shadow, live, seen, received>>

Look ==
  LET n == live[look] - seen[look]
  IN  /\ build.kind = "epoch" /\ look \in Lists /\ (look = 0 => Worthwhile)
      /\ received' = received + n
      /\ shadow' = Signal(shadow + n)
      /\ seen' = [seen EXCEPT ![look] = live[look]]
      /\ look' = look + 1
      /\ UNCHANGED <<pc, ackSlot, live>>

Empty ==
  LET emptied == IF bumped(Reader) THEN {QuiescedList(epoch3[Reader])} ELSE {}
  IN  /\ build.kind = "epoch" /\ look = 3
      /\ live' = [e \in Lists |-> IF e \in emptied THEN 0 ELSE live[e]]
      /\ seen' = [e \in Lists |-> IF e \in emptied THEN 0 ELSE seen[e]]
      /\ look' = 0
      /\ pc' = [pc EXCEPT ![Reader] = "end"]
      /\ UNCHANGED <<ackSlot, shadow, received>>

Receive ==
  /\ At(Reader, {"receive"})
  /\ ReceiveCounted \/ LookNot \/ Look \/ Empty
  /\ UNCHANGED <<build, Reader, epoch3, began, backlogged, creditVars, slot, tailList,
                 linked, sent, notified>>

(* threads::progress_end, and the test of the loop in progress().          *)
ProgressEnd(t) ==
  /\ At(t, {"end"})
  /\ pc' = [pc EXCEPT ![t] = IF t = Writer /\ backlogged THEN "again" ELSE "user"]
  /\ began' = [began EXCEPT ![t] = TRUE]
  /\ UNCHANGED <<build, Reader, look, epoch3, backlogged, creditVars, ackSlot, slot,
                 shadow, listVars, sent, notified, received>>

Progress(t) ==
  \/ ProgressBegin(t)
  \/ t = Writer /\ (Announce \/ Reclaim)
  \/ t = Reader /\ (Receive \/ Ack)
  \/ ProgressEnd(t)

Next ==
  \/ Send
  \/ Announce
  \/ Reclaim
  \/ Receive
  \/ Ack
  \/ \E t \in Threads : ProgressBegin(t) \/ ProgressEnd(t)

Spec == Init /\ [][Next]_vars

(* Every thread of a job calls progress() or a barrier that makes progress *)
(* again and again, as drain() and the blocking collectives do.            *)
FairSpec == Spec /\ \A t \in Threads : WF_vars(Progress(t))

-----------------------------------------------------------------------------
(* The reader never follows a link that is not there, and its counter of a *)
(* few bits never goes round past it: what it sees as new is exactly what  *)
(* has been published and not executed, although writer and reader touch   *)
(* the slot without a lock and recv_bump wraps.                            *)
NeverLapped ==
  /\ received <= sent /\ notified <= sent
  /\ build.kind # "epoch" =>
       /\ received <= notified
       /\ Signal(slot - shadow) = notified - received

(* The wall as a number that does not wrap.                                *)
Wall == IF Less(recvBump, wall) THEN sent + U32(wall - recvBump)
                                ELSE sent - U32(recvBump - wall)

(* A credit returns only for a message that the reader has executed, even  *)
(* in the asym build, where the reader never says so: the writer infers it *)
(* from the epochs alone.  The credits of all epochs together fit the      *)
(* counter, and the wall stays within reach of it: the assertion of        *)
(* reclaim on recv_bump_wall, and the one above it that is commented out.  *)
CreditsEarned ==
  /\ build.kind # "epoch" => Wall <= received + Full
  /\ build.kind = "asym" =>
       /\ ackBump[1] + Held <= Full - 1
       /\ LessEq(U32(wall - Full), recvBump)

(* Memory of messages: with acknowledgements the writer does not free the  *)
(* message the reader stands on; with epochs what the reader sees of a     *)
(* list is what the writer has linked since it began that list, and not    *)
(* the remains of three epochs ago.                                        *)
NoStaleMessage ==
  /\ build.kind = "sym" => ackHead <= received
  /\ build.kind = "epoch" =>
       /\ \A e \in Lists : seen[e] <= live[e]
       /\ tailList = epoch3[Writer] => live[tailList] = linked[tailList]

(* Every message is executed: none is forgotten behind the wall or in a    *)
(* list, also when the slot says the same before and after 2^bits sends.   *)
Delivered == <>[](received = sent)

(* progress() comes back from its loop over a backlog.                     *)
ProgressReturns == pc[Writer] = "again" ~> pc[Writer] = "user"
=============================================================================
