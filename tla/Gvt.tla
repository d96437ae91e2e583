-------------------------------- MODULE Gvt --------------------------------
(***************************************************************************)
(* devastator/gvt.{hxx,cxx}: the GVT service as each rank executes it.     *)
(* Compared with GvtEpochs it has the reduction tree (rdxn_up), the        *)
(* broadcast tree by interval halving (rdxn_down), the reducibles that     *)
(* travel with them, and epoch numbers that wrap like the unsigned epoch_. *)
(*                                                                         *)
(* Every handler runs in deva::progress() of its rank, one at a time, so   *)
(* each is one action.  Messages may overtake each other.                  *)
(*                                                                         *)
(* The client is any program that keeps the contract of gvt.hxx: it works  *)
(* off events, each event may create later ones here or by gvt::send, and  *)
(* the lvt it passes to coll_begin is its earliest event (test/gvt-test.cxx*)
(* and pdes::drain are such clients).                                      *)
(***************************************************************************)
EXTENDS Integers, FiniteSets

CONSTANTS
  N,          (* deva::rank_n                                              *)
  Inf,        (* ~uint64_t(0)                                              *)
  EpochMod,   (* 2^32, the range of the unsigned epoch_; at least 8        *)
  Events,     (* The client's events; a finished event's name is reused.   *)
  Initial,    (* The events that exist at the start, at time 0.            *)
  MinDelay,   (* Least delay of a created event: 0, or 1 as in gvt-test.   *)
  MaxSends    (* Bound: messages one rank counts in one epoch.             *)

ASSUME ConstantsAssumption ==
  /\ N \in Nat \ {0} /\ Inf \in Nat \ {0}
  /\ EpochMod \in Nat /\ EpochMod >= 8
  /\ IsFiniteSet(Events) /\ Initial \subseteq Events
  /\ MinDelay \in Nat /\ MaxSends \in Nat

Ranks == 0 .. N - 1
Time == 0 .. Inf
EventTime == 0 .. Inf - 1
Status == {"reducing", "quiesced", "non_quiesced"}

VARIABLES
  collStatus,  (* coll_status_[0..1] of each rank                          *)
  collRxs,     (* coll_rxs_[0..1] (one of the two sums)                    *)
  epochGvt,    (* epoch_gvt_[0..1]                                         *)
  epoch,       (* epoch_                                                   *)
  lvt,         (* epoch_lvt_[0..1]                                         *)
  lsend,       (* epoch_lsend_[0..1]                                       *)
  lrecv,       (* epoch_lrecv_[0..2]                                       *)
  rdxn,        (* rdxn_incoming and the accumulators of each rank          *)
  ups, downs,  (* rdxn_up and rdxn_down messages under way                 *)
  event,       (* where each client event is; gvt::send messages under way *)
  round        (* history: parity of the rank's number of coll_begins      *)

gvtVars == <<collStatus, collRxs, epochGvt>>
countVars == <<epoch, lvt, lsend, lrecv>>
treeVars == <<rdxn, ups, downs>>
vars == <<gvtVars, countVars, treeVars, event, round>>

Least(a, b) == IF a <= b THEN a ELSE b

-----------------------------------------------------------------------------
(* The client's events: local to a rank, in a message, or not in use.      *)

Unused == [place |-> "unused", rank |-> 0, t |-> 0, tag |-> 0, src |-> 0]
Local(r, t) == [place |-> "local", rank |-> r, t |-> t, tag |-> 0, src |-> 0]
InNet(dst, t, tag, src) ==
  [place |-> "net", rank |-> dst, t |-> t, tag |-> tag, src |-> src]

LocalTimes(r) ==
  {event[k].t : k \in {j \in Events : event[j].place = "local" /\ event[j].rank = r}}
NetEvents == {k \in Events : event[k].place = "net"}
UnusedEvents == {k \in Events : event[k].place = "unused"}

LocalVt(r) == IF LocalTimes(r) = {} THEN Inf
              ELSE CHOOSE t \in LocalTimes(r) : \A u \in LocalTimes(r) : t <= u

-----------------------------------------------------------------------------
(* gvt::init(0, ...) on every rank and its closing barrier; the statics of *)
(* gvt.cxx are zero.                                                       *)
Init ==
  /\ collStatus = [r \in Ranks |-> [i \in 0 .. 1 |-> "non_quiesced"]]
  /\ collRxs = [r \in Ranks |-> [i \in 0 .. 1 |-> 0]]
  /\ epochGvt = [r \in Ranks |-> [i \in 0 .. 1 |-> 0]]
  /\ epoch = [r \in Ranks |-> 0]
  /\ lvt = [r \in Ranks |-> [i \in 0 .. 1 |-> 0]]
  /\ lsend = [r \in Ranks |-> [i \in 0 .. 1 |-> 0]]
  /\ lrecv = [r \in Ranks |-> [i \in 0 .. 2 |-> 0]]
  /\ rdxn = [r \in Ranks |-> [incoming |-> 0, gvtAcc |-> 0, gsend |-> 0,
                              grecv |-> 0, rxsAcc |-> 0]]
  /\ ups = {} /\ downs = {}
  /\ event \in [Events -> {Unused} \cup {Local(r, 0) : r \in Ranks}]
  /\ \A k \in Events : event[k].place = "local" <=> k \in Initial
  /\ round = [r \in Ranks |-> 0]

(* gvt::send to one rank, or gvt::bcast_procs to several (any, for the     *)
(* client's function chooses them) with one credit each, by an event p of  *)
(* rank r; news names the messages' events.                                *)
Send(r, p, news, dst, t) ==
  /\ event[p].place = "local" /\ event[p].rank = r
  /\ t >= event[p].t + MinDelay
  /\ lsend[r][1] + Cardinality(news) <= MaxSends
  /\ lsend' = [lsend EXCEPT ![r][1] = @ + Cardinality(news)]
  /\ lvt' = [lvt EXCEPT ![r][1] = Least(@, t)]
  /\ event' = [k \in Events |->
                 IF k \in news THEN InNet(dst[k], t, (epoch[r] + 1) % EpochMod, r)
                               ELSE event[k]]
  /\ UNCHANGED <<gvtVars, epoch, lrecv, treeVars, round>>

SendSome(r) ==
  \E p \in Events, t \in EventTime, news \in (SUBSET UnusedEvents) \ {{}} :
    \E dst \in [news -> Ranks] :
      /\ \A j, k \in news : dst[j] = dst[k] => j = k
      /\ Send(r, p, news, dst, t)

(* The conversion of an unsigned to int, two's complement.                 *)
ToInt(u) == IF u >= EpochMod \div 2 THEN u - EpochMod ELSE u

(* e >= epoch_ ? int(e - epoch_) : -int(epoch_ - e)                        *)
RecvIndexPlain(e, ep) == e - ep
RecvIndex(e, ep) == IF e >= ep THEN ToInt(e - ep) ELSE -ToInt(ep - e)

(* The lambda of gvt::send at its destination; a tag outside the three     *)
(* counters would fail the assertion, so the message is stuck (see         *)
(* TagInWindow).                                                           *)
Receive(r) ==
  \E k \in NetEvents :
    LET i == RecvIndex(event[k].tag, epoch[r])
    IN  /\ event[k].rank = r
        /\ i \in 0 .. 2
        /\ lrecv' = [lrecv EXCEPT ![r][i] = @ + 1]
        /\ event' = [event EXCEPT ![k] = Local(r, @.t)]
        /\ UNCHANGED <<gvtVars, epoch, lvt, lsend, treeVars, round>>

(* The client creates a local event, or is done with one.                  *)
Spawn(r) ==
  \E p \in Events, k \in UnusedEvents, t \in EventTime :
    /\ event[p].place = "local" /\ event[p].rank = r
    /\ t >= event[p].t + MinDelay
    /\ event' = [event EXCEPT ![k] = Local(r, t)]
    /\ UNCHANGED <<gvtVars, countVars, treeVars, round>>

Finish(r, p) ==
  /\ event[p].place = "local" /\ event[p].rank = r
  /\ event' = [event EXCEPT ![p] = Unused]
  /\ UNCHANGED <<gvtVars, countVars, treeVars, round>>

-----------------------------------------------------------------------------
(* The tree of rdxn_up: kid = rank_me | (1<<i) for i = 0, 1, ... until the *)
(* bit is set in rank_me or the kid is no rank; parent = me & (me-1).      *)
KidCountOneMore(me) ==
  Cardinality({i \in 0 .. N : me % 2^(i + 1) = 0 /\ me + 2^i <= N})
KidCountOneLess(me) ==
  Cardinality({i \in 0 .. N : me % 2^(i + 1) = 0 /\ me + 2^i < N - 1})
KidCount(me) ==
  Cardinality({i \in 0 .. N : me % 2^(i + 1) = 0 /\ me + 2^i < N})

Parent(me) ==
  me - 2^(CHOOSE i \in 0 .. N : me % 2^i = 0 /\ me % 2^(i + 1) # 0)

(* Mistakes: the last local virtual time wins; the reducibles of the last  *)
(* round stay in the sum.                                                  *)
AccumulateLast(me, v, s, c, rxs) ==
  LET a == rdxn[me]
  IN  IF a.incoming = 0
      THEN [incoming |-> KidCount(me), gvtAcc |-> v, gsend |-> s, grecv |-> c,
            rxsAcc |-> rxs]
      ELSE [incoming |-> a.incoming - 1, gvtAcc |-> v, gsend |-> a.gsend + s,
            grecv |-> a.grecv + c, rxsAcc |-> a.rxsAcc + rxs]

AccumulateOnTop(me, v, s, c, rxs) ==
  LET a == rdxn[me]
  IN  [incoming |-> IF a.incoming = 0 THEN KidCount(me) ELSE a.incoming - 1,
       gvtAcc |-> IF a.incoming = 0 THEN v ELSE Least(a.gvtAcc, v),
       gsend |-> IF a.incoming = 0 THEN s ELSE a.gsend + s,
       grecv |-> IF a.incoming = 0 THEN c ELSE a.grecv + c,
       rxsAcc |-> a.rxsAcc + rxs]

(* One call of rdxn_up on rank me up to the decrement of rdxn_incoming.    *)
Accumulate(me, v, s, c, rxs) ==
  LET a == rdxn[me]
  IN  IF a.incoming = 0
      THEN [incoming |-> KidCount(me), gvtAcc |-> Least(Inf, v), gsend |-> s,
            grecv |-> c, rxsAcc |-> rxs]
      ELSE [incoming |-> a.incoming - 1, gvtAcc |-> Least(a.gvtAcc, v),
            gsend |-> a.gsend + s, grecv |-> a.grecv + c,
            rxsAcc |-> a.rxsAcc + rxs]

(* to_ub ^ -1 marks a quiesced result by a negative bound.                 *)
Marked(ub, quiesced) == IF quiesced THEN -ub - 1 ELSE ub

(* The messages of rdxn_down on rank me for the ranks below ub.            *)
HalvesToTheEnd(me, ub, quiesced, g, rxs) ==
  LET sends[u \in me + 1 .. N] ==
        LET mid == me + (u - me) \div 2
        IN  IF mid = me THEN {}
            ELSE {[dst |-> mid, toUb |-> Marked(N, quiesced), gvt |-> g, rxs |-> rxs]}
                   \cup sends[mid]
  IN  sends[ub]
Halves(me, ub, quiesced, g, rxs) ==
  LET sends[u \in me + 1 .. N] ==
        LET mid == me + (u - me) \div 2
        IN  IF mid = me THEN {}
            ELSE {[dst |-> mid, toUb |-> Marked(u, quiesced), gvt |-> g, rxs |-> rxs]}
                   \cup sends[mid]
  IN  sends[ub]

(* What rdxn_down leaves in coll_status_[1], coll_rxs_[1], epoch_gvt_[1];  *)
(* st is the status function to start from.                                *)
RdxnDown(me, st, quiesced, g, rxs) ==
  /\ collStatus' = [st EXCEPT ![me][1] =
                      IF quiesced THEN "quiesced" ELSE "non_quiesced"]
  /\ collRxs' = [collRxs EXCEPT ![me][1] = rxs]
  /\ epochGvt' = IF quiesced THEN [epochGvt EXCEPT ![me][1] = g] ELSE epochGvt

(* A whole call of rdxn_up: accumulate, and if that was the last incoming  *)
(* contribution send the sums to the parent, or at rank 0 draw the result. *)
RdxnUp(me, st, v, s, c, rxs, upsLeft) ==
  LET a == Accumulate(me, v, s, c, rxs)
      quiesced == a.gsend = a.grecv
  IN  /\ rdxn' = [rdxn EXCEPT ![me] = a]
      /\ CASE a.incoming > 0 ->
                /\ ups' = upsLeft /\ collStatus' = st
                /\ UNCHANGED <<downs, collRxs, epochGvt>>
           [] a.incoming = 0 /\ me # 0 ->
                /\ ups' = upsLeft \cup
                     {[src |-> me, dst |-> Parent(me), lvt |-> a.gvtAcc,
                       send |-> a.gsend, recv |-> a.grecv, rxs |-> a.rxsAcc]}
                /\ collStatus' = st
                /\ UNCHANGED <<downs, collRxs, epochGvt>>
           [] a.incoming = 0 /\ me = 0 ->
                /\ ups' = upsLeft
                /\ downs' = downs \cup Halves(0, N, quiesced, a.gvtAcc, a.rxsAcc)
                /\ RdxnDown(0, st, quiesced, a.gvtAcc, a.rxsAcc)

(* epoch_ += 1                                                             *)
NextEpoch(e) == (e + 1) % EpochMod

(* gvt::coll_begin(lvt, rxs).  The client's rxs is 1 in every other        *)
(* collective, so that sums of different collectives differ.  The client   *)
(* leaves its loop when the GVT is "no time".                              *)
CollBegin(r) ==
  LET moved == collStatus[r][0] = "quiesced"
  IN  /\ collStatus[r][0] # "reducing" /\ collStatus[r][0] = collStatus[r][1]
      /\ epochGvt[r][0] # Inf
      /\ IF moved
         THEN /\ epoch' = [epoch EXCEPT ![r] = NextEpoch(@)]
              /\ lvt' = [lvt EXCEPT ![r] = [i \in 0 .. 1 |->
                           IF i = 0 THEN Least(LocalVt(r), @[1]) ELSE Inf]]
              /\ lsend' = [lsend EXCEPT ![r] = [i \in 0 .. 1 |->
                             IF i = 0 THEN @[1] ELSE 0]]
              /\ lrecv' = [lrecv EXCEPT ![r] = [i \in 0 .. 2 |->
                             IF i < 2 THEN @[i + 1] ELSE 0]]
         ELSE UNCHANGED countVars
      /\ round' = [round EXCEPT ![r] = 1 - @]
      /\ RdxnUp(r, [collStatus EXCEPT ![r] = [i \in 0 .. 1 |-> "reducing"]],
                lvt'[r][0], lsend'[r][0], lrecv'[r][0], round'[r], ups)
      /\ UNCHANGED event

(* A kid's sums arrive: rdxn_up runs in a message handler.                 *)
RecvUp(r) ==
  \E m \in ups :
    /\ m.dst = r
    /\ RdxnUp(r, collStatus, m.lvt, m.send, m.recv, m.rxs, ups \ {m})
    /\ UNCHANGED <<countVars, event, round>>

(* rdxn_down runs in a message handler.                                    *)
RecvDown(r) ==
  \E m \in downs :
    LET quiesced == m.toUb < 0
        ub == Marked(m.toUb, quiesced)
    IN  /\ m.dst = r
        /\ downs' = (downs \ {m}) \cup Halves(r, ub, quiesced, m.gvt, m.rxs)
        /\ RdxnDown(r, collStatus, quiesced, m.gvt, m.rxs)
        /\ UNCHANGED <<countVars, rdxn, ups, event, round>>

(* gvt::advance(): the client sees the last result.                        *)
Advance(r) ==
  /\ collStatus' = [collStatus EXCEPT ![r][0] = collStatus[r][1]]
  /\ collRxs' = [collRxs EXCEPT ![r][0] = collRxs[r][1]]
  /\ epochGvt' = [epochGvt EXCEPT ![r][0] = epochGvt[r][1]]
  /\ UNCHANGED <<countVars, treeVars, event, round>>

RankStep(r) ==
  \/ SendSome(r) \/ Receive(r) \/ Spawn(r)
  \/ \E p \in Events : Finish(r, p)
  \/ CollBegin(r) \/ RecvUp(r) \/ RecvDown(r) \/ Advance(r)

Next == \E r \in Ranks : RankStep(r)

Spec == Init /\ [][Next]_vars

(* deva::progress() runs the handlers of all messages that have arrived,   *)
(* the client loop calls advance() and coll_begin() again and again, and a *)
(* client gets done with each event it works on.                           *)
Fairness ==
  \A r \in Ranks : /\ WF_vars(Receive(r)) /\ WF_vars(RecvUp(r))
                   /\ WF_vars(RecvDown(r)) /\ WF_vars(Advance(r))
                   /\ WF_vars(CollBegin(r))
                   /\ \A p \in Events : WF_vars(Finish(r, p))

FairSpec == Spec /\ Fairness

-----------------------------------------------------------------------------
(* 0 <= i && i < 3 when a message runs at its destination, with wrapping   *)
(* epoch numbers and ranks that change epoch at different moments.         *)
TagInWindow ==
  \A k \in NetEvents : RecvIndex(event[k].tag, epoch[event[k].rank]) \in 0 .. 2

(* epoch_gvt_[0] <= t for every message under way and, because clients     *)
(* free history below the GVT, for every event of every rank.              *)
GvtSafe ==
  \A r \in Ranks, k \in Events :
    event[k].place # "unused" => epochGvt[r][1] <= event[k].t

(* When a rank's collective has ended, coll_reducibles() is the sum of what*)
(* all the ranks gave to that very collective: no contribution is lost,    *)
(* counted twice or taken from the neighbouring round, although a kid may  *)
(* start the next round before its parent has seen the end of this one.    *)
ReduciblesExact ==
  \A r \in Ranks :
    collStatus[r][1] # "reducing" => collRxs[r][1] = N * round[r]

(* The two trees carry each result exactly once to each rank: a down       *)
(* message under way is the only one for every rank it covers, and each of *)
(* them is still reducing.                                                 *)
DownOnce ==
  LET Covers(m) == m.dst .. Marked(m.toUb, m.toUb < 0) - 1
  IN  /\ \A m \in downs : \A r \in Covers(m) : collStatus[r][1] = "reducing"
      /\ \A m, n \in downs : Covers(m) \cap Covers(n) # {} => m = n

(* The GVT never stops short: when every event creates only later ones,    *)
(* all the ranks come to know that nothing is left.                        *)
ReachesEnd == <>(\A r \in Ranks : epochGvt[r][0] = Inf)
=============================================================================
