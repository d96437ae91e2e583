---------------------------- MODULE GvtInvariant ----------------------------
(***************************************************************************)
(* The inductive invariant of Gvt, for any number of ranks and of events.  *)
(* It tells of one collective at a time, the open one: e is its epoch and  *)
(* d the parity of its round.  Every rank is in one of three places:       *)
(*   it has contributed to the open collective (Contrib);                  *)
(*   it has the result of the last one on its way (Covers of a message);   *)
(*   it has that result, and may begin.                                    *)
(* So a rank is never two collectives behind another, and this is what     *)
(* CollOK says.  TreeOK says what the messages and accumulators of the     *)
(* reduction tree hold of the contributions, CountOK that every message    *)
(* under way has been counted by its sender and not by its receiver,       *)
(* CoverOK that what the ranks will contribute bounds the events that      *)
(* exist, BoundOK the same for the results already drawn.                  *)
(*                                                                         *)
(* The parts take the variables they are about as parameters, for the      *)
(* proofs use them of states in the middle of a handler.                   *)
(***************************************************************************)
EXTENDS Gvt, NumberFacts

-----------------------------------------------------------------------------
(* The reduction tree.  Rank r receives from r + 2^i as long as the lower  *)
(* bits of r are zero; what reaches it in the end are the contributions of *)
(* the ranks whose number becomes r when low bits are cleared.             *)
Subtree(r) == {q \in Ranks : \E i \in 0 .. N : Floor(q, i) = r}
Kids(r) == {k \in Ranks : \E i \in 0 .. N : k = r + 2^i /\ r % 2^(i + 1) = 0}
Whole(r) == {r} \cup Kids(r)

(* The broadcast tree: the ranks a message of rdxn_down is meant to reach. *)
Above(m) == Marked(m.toUb, m.toUb < 0)
Covers(m) == m.dst .. Above(m) - 1

(* The ranks whose contribution to the open collective has been made.      *)
Contrib(cs, dn) == {r \in Ranks : cs[r][1] = "reducing"} \ UNION {Covers(m) : m \in dn}

(* What has arrived at rank r, when C have contributed and the messages    *)
(* under way come from U: its own contribution, and a kid's when all below *)
(* the kid have contributed and none of it is under way any more.          *)
Sources(up) == {m.src : m \in up}
Arrived(C, U, k) == Subtree(k) \subseteq C /\ U \cap Subtree(k) = {}
ArrivedKids(C, U, r) == {k \in Kids(r) : Arrived(C, U, k)}
Arrivals(C, U, r) == ({r} \cap C) \cup ArrivedKids(C, U, r)
Summed(C, U, r) == ({r} \cap C) \cup UNION {Subtree(k) : k \in ArrivedKids(C, U, r)}

(* v, s, c, x are the sums over S of what its ranks contributed.  A rank   *)
(* may receive after its contribution, so c is only a lower bound.         *)
First(f) == [r \in Ranks |-> f[r][0]]
IsSum(lv, ls, lr, rd, S, v, s, c, x) ==
  /\ \A q \in S : v <= lv[q][0]
  /\ s = SumOf(First(ls), S)
  /\ c <= SumOf(First(lr), S)
  /\ x = SumOf(rd, S)

-----------------------------------------------------------------------------
UpMessages ==
  [src : Ranks \ {0}, dst : Ranks, lvt : Time, send : Nat, recv : Nat, rxs : Nat]
DownMessages == [dst : Ranks \ {0}, toUb : Int, gvt : Time, rxs : Nat]
Epochs == 0 .. EpochMod - 1
EventStates ==
  [place : {"unused", "local", "net"}, rank : Ranks, t : Time, tag : Epochs, src : Ranks]
Sums == [incoming : Nat, gvtAcc : Time, gsend : Nat, grecv : Nat, rxsAcc : Nat]

(* The types of all the variables.                                         *)
Types(cs, crx, eg, ep, lv, ls, lr, rx, up, dn, ev, rd) ==
  /\ cs \in [Ranks -> [0 .. 1 -> Status]]
  /\ crx \in [Ranks -> [0 .. 1 -> Nat]]
  /\ eg \in [Ranks -> [0 .. 1 -> Time]]
  /\ ep \in [Ranks -> Epochs]
  /\ lv \in [Ranks -> [0 .. 1 -> Time]]
  /\ ls \in [Ranks -> [0 .. 1 -> Nat]]
  /\ lr \in [Ranks -> [0 .. 2 -> Nat]]
  /\ rx \in [Ranks -> Sums]
  /\ up \subseteq UpMessages
  /\ dn \subseteq DownMessages
  /\ ev \in [Events -> EventStates]
  /\ rd \in [Ranks -> {0, 1}]

-----------------------------------------------------------------------------
(* A message of rdxn_up is the only one from its rank, carries the sums of *)
(* all that is below it, and nothing below it is still under way.          *)
UpOK(C, up, lv, ls, lr, rd) ==
  \A m \in up :
    /\ m.dst = Parent(m.src)
    /\ Subtree(m.src) \subseteq C
    /\ Sources(up) \cap Subtree(m.src) = {m.src}
    /\ \A n \in up : n.src = m.src => n = m
    /\ IsSum(lv, ls, lr, rd, Subtree(m.src), m.lvt, m.send, m.recv, m.rxs)

(* rdxn_incoming is the number of contributions yet to arrive once one has *)
(* arrived, zero before and after; the accumulators hold what has.         *)
NodeOK(C, U, rx, lv, ls, lr, rd) ==
  \A r \in Ranks :
    /\ rx[r].incoming =
         IF Arrivals(C, U, r) = {} THEN 0 ELSE 1 + KidCount(r) - Cardinality(Arrivals(C, U, r))
    /\ rx[r].incoming > 0 =>
         IsSum(lv, ls, lr, rd, Summed(C, U, r),
               rx[r].gvtAcc, rx[r].gsend, rx[r].grecv, rx[r].rxsAcc)

TreeOK(C, rx, up, lv, ls, lr, rd) ==
  UpOK(C, up, lv, ls, lr, rd) /\ NodeOK(C, Sources(up), rx, lv, ls, lr, rd)

(* The three places of a rank.  A rank that has not begun the collective   *)
(* is an epoch behind it exactly when its last result was "quiesced".      *)
Entering(e, q) == IF q THEN NextEpoch(e) ELSE e

CollOK(cs, crx, ep, rd, dn, e, d) ==
  /\ \A m \in dn :
       /\ m.dst < Above(m) /\ Above(m) <= N
       /\ m.rxs = N * (1 - d)
       /\ \A n \in dn : Covers(m) \cap Covers(n) # {} => m = n
       /\ \A r \in Covers(m) :
            /\ cs[r][0] = "reducing" /\ cs[r][1] = "reducing"
            /\ Entering(ep[r], m.toUb < 0) = e
            /\ rd[r] = 1 - d
  /\ \A r \in Contrib(cs, dn) : cs[r][0] = "reducing" /\ ep[r] = e /\ rd[r] = d
  /\ \A r \in Ranks : cs[r][1] # "reducing" =>
       /\ cs[r][0] \in {"reducing", cs[r][1]}
       /\ Entering(ep[r], cs[r][1] = "quiesced") = e
       /\ rd[r] = 1 - d
       /\ crx[r][1] = N * rd[r]

-----------------------------------------------------------------------------
(* Messages under way carry the epoch of the open collective or the next.  *)
InNetwork(ev) == {k \in Events : ev[k].place = "net"}
UnderWay(ev, e) == {k \in InNetwork(ev) : ev[k].tag = e}
TagOK(ev, e) == \A k \in InNetwork(ev) : ev[k].tag \in {e, NextEpoch(e)}

(* Where a rank counts the messages of epoch e and of the next, depending  *)
(* on whether it has entered e.                                            *)
Sent(ep, ls, e) == [q \in Ranks |-> IF ep[q] = e THEN ls[q][0] ELSE ls[q][1]]
SentNext(ep, ls, e) == [q \in Ranks |-> IF ep[q] = e THEN ls[q][1] ELSE 0]
Rcvd(ep, lr, e) == [q \in Ranks |-> IF ep[q] = e THEN lr[q][0] ELSE lr[q][1]]
RcvdNext(ep, lr, e) == [q \in Ranks |-> IF ep[q] = e THEN lr[q][1] ELSE lr[q][2]]

(* Of either epoch: sent = received + under way, over all ranks.           *)
CountOK(ep, ls, lr, ev, e) ==
  /\ SumOf(Sent(ep, ls, e), Ranks)
       = SumOf(Rcvd(ep, lr, e), Ranks) + Cardinality(UnderWay(ev, e))
  /\ SumOf(SentNext(ep, ls, e), Ranks)
       = SumOf(RcvdNext(ep, lr, e), Ranks) + Cardinality(UnderWay(ev, NextEpoch(e)))
  /\ \A r \in Ranks : ep[r] = e => lr[r][2] = 0

(* What rank r contributes, or at most contributes when it enters epoch e. *)
Low(ep, lv, e, r) == IF ep[r] = e THEN lv[r][0] ELSE lv[r][1]
Covered(ep, lv, e, t) == \E r \in Ranks : Low(ep, lv, e, r) <= t

(* An event under way, or at a rank that has already contributed or may do *)
(* so without looking at it, is not before all the contributions.          *)
CoverOK(ep, lv, ev, e) ==
  \A k \in Events :
    /\ ev[k].place = "net" =>
         /\ Covered(ep, lv, e, ev[k].t)
         /\ ev[k].tag = NextEpoch(e) => ep[ev[k].src] = e /\ lv[ev[k].src][1] <= ev[k].t
    /\ ev[k].place = "local" /\ ep[ev[k].rank] = e => Covered(ep, lv, e, ev[k].t)

(* No event is before a GVT that a rank has, or that is on its way to one. *)
NothingBefore(ev, g) == \A k \in Events : ev[k].place # "unused" => g <= ev[k].t
BoundOK(eg, dn, ev) ==
  /\ \A r \in Ranks : NothingBefore(ev, eg[r][1])
  /\ \A m \in dn : m.toUb < 0 => NothingBefore(ev, m.gvt)

-----------------------------------------------------------------------------
(* The open collective, and the invariant.                                 *)
Round(cs, crx, ep, lv, ls, lr, rx, up, dn, ev, rd, e, d) ==
  /\ CollOK(cs, crx, ep, rd, dn, e, d)
  /\ TreeOK(Contrib(cs, dn), rx, up, lv, ls, lr, rd)
  /\ TagOK(ev, e)
  /\ CountOK(ep, ls, lr, ev, e)
  /\ CoverOK(ep, lv, ev, e)

AllOK(cs, crx, eg, ep, lv, ls, lr, rx, up, dn, ev, rd) ==
  /\ Types(cs, crx, eg, ep, lv, ls, lr, rx, up, dn, ev, rd)
  /\ \E e \in Epochs, d \in {0, 1} :
       Round(cs, crx, ep, lv, ls, lr, rx, up, dn, ev, rd, e, d)
  /\ BoundOK(eg, dn, ev)

Inv == AllOK(collStatus, collRxs, epochGvt, epoch, lvt, lsend, lrecv, rdxn, ups, downs,
             event, round)
=============================================================================
