----------------------------- MODULE GvtEpochs -----------------------------
(***************************************************************************)
(* The global virtual time (GVT) protocol of devastator/gvt.{hxx,cxx} at   *)
(* the level of its argument: epochs, message counting and the minimum of  *)
(* the local virtual times.  The reduction tree of rdxn_up/rdxn_down is    *)
(* abstracted to a set of contributions with one accumulator; module Gvt   *)
(* has the tree, the wrapping epoch numbers and refines this module.       *)
(*                                                                         *)
(* Every rank tags what it sends with epoch+1, counts its sends and its    *)
(* receipts per tag, and remembers the least time it sent.  A collective   *)
(* sums the counts of the messages tagged with the current epoch; if they  *)
(* agree the epoch is quiesced and the least contribution is the new GVT.  *)
(***************************************************************************)
EXTENDS Integers, FiniteSets

CONSTANTS
  Ranks,      (* The ranks of the job.                                     *)
  Root,       (* Rank 0, at which a collective completes.                  *)
  Inf,        (* ~uint64_t(0), "no time": greater than every event time.   *)
  Gvt0,       (* The argument of gvt::init.                                *)
  MaxEpoch,   (* Bound: no rank enters a later epoch.                      *)
  MaxSends    (* Bound: number of calls of gvt::send and bcast_procs.      *)

ASSUME ConstantsAssumption ==
  /\ IsFiniteSet(Ranks)
  /\ Root \in Ranks
  /\ Inf \in Nat
  /\ Gvt0 \in 0 .. Inf
  /\ MaxEpoch \in Nat
  /\ MaxSends \in Nat

VARIABLES
  status0,    (* coll_status_[0], what the client sees after advance()     *)
  status1,    (* coll_status_[1], written by rdxn_down                     *)
  gvt0,       (* epoch_gvt_[0], what the client sees after advance()       *)
  gvt1,       (* epoch_gvt_[1], written by rdxn_down                       *)
  epoch,      (* epoch_                                                    *)
  lvt0, lvt1,             (* epoch_lvt_[0], epoch_lvt_[1]                  *)
  lsend0, lsend1,         (* epoch_lsend_[0], epoch_lsend_[1]              *)
  lrecv0, lrecv1, lrecv2, (* epoch_lrecv_[0..2]                            *)
  contrib,    (* ranks that called coll_begin for the open collective      *)
  accLvt, accSend, accRecv, (* the accumulators rdxn_gvt_acc, rdxn_gsend,
                               rdxn_grecv of the whole tree                *)
  quiesced,   (* did the last completed collective quiesce?                *)
  gvt,        (* the value of the last collective that quiesced            *)
  undelivered,(* ranks the last result has not reached yet                 *)
  pending,    (* the client's unprocessed event times, per rank            *)
  sent, rcvd, (* history: the messages sent and those received             *)
  nextId,     (* history: identity of the next call of send                *)
  cepoch,     (* history: the epoch of the open collective                 *)
  counted     (* history: the receipts summed in accRecv                   *)

rankVars == <<status0, status1, gvt0, gvt1, epoch>>
countVars == <<lvt0, lvt1, lsend0, lsend1, lrecv0, lrecv1, lrecv2>>
collVars == <<contrib, accLvt, accSend, accRecv, quiesced, gvt, undelivered,
              cepoch, counted>>
clientVars == <<pending, sent, rcvd, nextId>>
vars == <<rankVars, countVars, collVars, clientVars>>

Time == 0 .. Inf
EventTime == Time \ {Inf}
Status == {"reducing", "quiesced", "non_quiesced"}
Message == [id : Nat, src : Ranks, dst : Ranks, tag : Nat, t : EventTime]

Least(a, b) == IF a <= b THEN a ELSE b

InFlight == sent \ rcvd
SentBy(r, e) == {m \in sent : m.src = r /\ m.tag = e}
RcvdBy(r, e) == {m \in rcvd : m.dst = r /\ m.tag = e}

-----------------------------------------------------------------------------
(***************************************************************************)
(* gvt::init on every rank, closed by a barrier.  The client starts with   *)
(* some events, none earlier than the initial GVT.                         *)
(***************************************************************************)
Init ==
  /\ status0 = [r \in Ranks |-> "non_quiesced"]
  /\ status1 = [r \in Ranks |-> "non_quiesced"]
  /\ gvt0 = [r \in Ranks |-> Gvt0]
  /\ gvt1 = [r \in Ranks |-> Gvt0]
  /\ epoch = [r \in Ranks |-> 0]
  /\ lvt0 = [r \in Ranks |-> Gvt0]
  /\ lvt1 = [r \in Ranks |-> Gvt0]
  /\ lsend0 = [r \in Ranks |-> 0]
  /\ lsend1 = [r \in Ranks |-> 0]
  /\ lrecv0 = [r \in Ranks |-> 0]
  /\ lrecv1 = [r \in Ranks |-> 0]
  /\ lrecv2 = [r \in Ranks |-> 0]
  /\ contrib = {} /\ accLvt = Inf /\ accSend = 0 /\ accRecv = 0
  /\ quiesced = FALSE /\ gvt = Gvt0 /\ undelivered = {}
  /\ pending \in [Ranks -> SUBSET {t \in EventTime : Gvt0 <= t}]
  /\ sent = {} /\ rcvd = {} /\ nextId = 0
  /\ cepoch = 0 /\ counted = {}

(***************************************************************************)
(* The client, as gvt.hxx and its assertions use it: processing an event   *)
(* of time p creates work at times t >= p, locally or by gvt::send, and    *)
(* ends by forgetting p.  D is the destination of a send, or the ranks a   *)
(* bcast_procs reaches (one credit each).                                  *)
(***************************************************************************)
Send(r, D, t) ==
  LET new == {[id |-> nextId, src |-> r, dst |-> d, tag |-> epoch[r] + 1,
               t |-> t] : d \in D}
  IN  /\ nextId < MaxSends
      /\ \E p \in pending[r] : p <= t
      /\ lsend1' = [lsend1 EXCEPT ![r] = @ + Cardinality(new)]
      /\ lvt1' = [lvt1 EXCEPT ![r] = Least(@, t)]
      /\ sent' = sent \cup new
      /\ nextId' = nextId + 1
      /\ UNCHANGED <<rankVars, lvt0, lsend0, lrecv0, lrecv1, lrecv2, collVars,
                     pending, rcvd>>

(* The message's own code runs at its destination: it counts itself under  *)
(* its tag, relative to the receiver's epoch, and delivers the event.      *)
Receive(m) ==
  LET i == m.tag - epoch[m.dst]
      Count(lrecv, k) == IF i = k THEN [lrecv EXCEPT ![m.dst] = @ + 1]
                                  ELSE lrecv
  IN  /\ rcvd' = rcvd \cup {m}
      /\ lrecv0' = Count(lrecv0, 0)
      /\ lrecv1' = Count(lrecv1, 1)
      /\ lrecv2' = Count(lrecv2, 2)
      /\ pending' = [pending EXCEPT ![m.dst] = @ \cup {m.t}]
      /\ UNCHANGED <<rankVars, lvt0, lvt1, lsend0, lsend1, collVars, sent,
                     nextId>>

Spawn(r, t) ==
  /\ \E p \in pending[r] : p <= t
  /\ pending' = [pending EXCEPT ![r] = @ \cup {t}]
  /\ UNCHANGED <<rankVars, countVars, collVars, sent, rcvd, nextId>>

Finish(r, p) ==
  /\ p \in pending[r]
  /\ pending' = [pending EXCEPT ![r] = @ \ {p}]
  /\ UNCHANGED <<rankVars, countVars, collVars, sent, rcvd, nextId>>

-----------------------------------------------------------------------------
(* gvt::advance() publishes to the client what rdxn_down has written.      *)
Advance(r) ==
  /\ status0' = [status0 EXCEPT ![r] = status1[r]]
  /\ gvt0' = [gvt0 EXCEPT ![r] = gvt1[r]]
  /\ UNCHANGED <<status1, gvt1, epoch, countVars, collVars, clientVars>>

(* The result (q, g) of a collective over C is final: the root has it at   *)
(* once, the other ranks when Deliver reaches them.                        *)
Conclude(q, g) ==
  /\ quiesced' = q
  /\ gvt' = IF q THEN g ELSE gvt
  /\ gvt1' = IF q THEN [gvt1 EXCEPT ![Root] = g] ELSE gvt1
  /\ undelivered' = Ranks \ {Root}
  /\ cepoch' = IF q THEN cepoch + 1 ELSE cepoch
  /\ contrib' = {} /\ accLvt' = Inf /\ accSend' = 0 /\ accRecv' = 0
  /\ counted' = {}

(* The lvt a client passes: its earliest unprocessed event, if any.        *)
IsLvt(r, lvt) ==
  /\ \A p \in pending[r] : lvt <= p
  /\ lvt = Inf \/ lvt \in pending[r]

Verdict(q) == IF q THEN "quiesced" ELSE "non_quiesced"

(* A mistake: the last counter of receipts is not cleared.                 *)
EnterEpochUncleared(r, lvt) ==
  IF status0[r] = "quiesced"
  THEN /\ epoch[r] < MaxEpoch
       /\ epoch' = [epoch EXCEPT ![r] = @ + 1]
       /\ lvt0' = [lvt0 EXCEPT ![r] = Least(lvt, lvt1[r])]
       /\ lvt1' = [lvt1 EXCEPT ![r] = Inf]
       /\ lsend0' = [lsend0 EXCEPT ![r] = lsend1[r]]
       /\ lsend1' = [lsend1 EXCEPT ![r] = 0]
       /\ lrecv0' = [lrecv0 EXCEPT ![r] = lrecv1[r]]
       /\ lrecv1' = [lrecv1 EXCEPT ![r] = lrecv2[r]]
       /\ UNCHANGED lrecv2
  ELSE UNCHANGED <<epoch, countVars>>

(* What coll_begin does before it contributes: a rank that saw its epoch   *)
(* quiesce moves to the next one and shifts its counters.                  *)
EnterEpoch(r, lvt) ==
  IF status0[r] = "quiesced"
  THEN /\ epoch[r] < MaxEpoch
       /\ epoch' = [epoch EXCEPT ![r] = @ + 1]
       /\ lvt0' = [lvt0 EXCEPT ![r] = Least(lvt, lvt1[r])]
       /\ lvt1' = [lvt1 EXCEPT ![r] = Inf]
       /\ lsend0' = [lsend0 EXCEPT ![r] = lsend1[r]]
       /\ lsend1' = [lsend1 EXCEPT ![r] = 0]
       /\ lrecv0' = [lrecv0 EXCEPT ![r] = lrecv1[r]]
       /\ lrecv1' = [lrecv1 EXCEPT ![r] = lrecv2[r]]
       /\ lrecv2' = [lrecv2 EXCEPT ![r] = 0]
  ELSE UNCHANGED <<epoch, countVars>>

(* coll_begin(lvt) where the contribution leaves the collective open.      *)
CollBegin(r, lvt) ==
  /\ status0[r] # "reducing" /\ status0[r] = status1[r]
  /\ IsLvt(r, lvt)
  /\ EnterEpoch(r, lvt)
  /\ status0' = [status0 EXCEPT ![r] = "reducing"]
  /\ status1' = [status1 EXCEPT ![r] = "reducing"]
  /\ contrib' = contrib \cup {r}
  /\ accLvt' = Least(accLvt, lvt0'[r])
  /\ accSend' = accSend + lsend0'[r]
  /\ accRecv' = accRecv + lrecv0'[r]
  /\ counted' = counted \cup RcvdBy(r, epoch'[r])
  /\ UNCHANGED <<gvt0, gvt1, quiesced, gvt, undelivered, cepoch, clientVars>>

(* Mistake: every collective passes for quiesced.                          *)
CompleteUncounted ==
  /\ contrib = Ranks
  /\ Conclude(TRUE, accLvt)
  /\ status1' = [status1 EXCEPT ![Root] = "quiesced"]
  /\ UNCHANGED <<status0, gvt0, epoch, countVars, clientVars>>

(* The root has every contribution: rdxn_up calls rdxn_down.               *)
Complete ==
  /\ contrib = Ranks
  /\ LET q == accSend = accRecv
     IN  /\ Conclude(q, accLvt)
         /\ status1' = [status1 EXCEPT ![Root] = Verdict(q)]
  /\ UNCHANGED <<status0, gvt0, epoch, countVars, clientVars>>

(* coll_begin of the root, when every other contribution is already there: *)
(* contribution and completion are the same call.                          *)
CollBeginLast(lvt) ==
  /\ status0[Root] # "reducing" /\ status0[Root] = status1[Root]
  /\ IsLvt(Root, lvt)
  /\ contrib = Ranks \ {Root}
  /\ EnterEpoch(Root, lvt)
  /\ LET q == accSend + lsend0'[Root] = accRecv + lrecv0'[Root]
     IN  /\ Conclude(q, Least(accLvt, lvt0'[Root]))
         /\ status0' = [status0 EXCEPT ![Root] = "reducing"]
         /\ status1' = [status1 EXCEPT ![Root] = Verdict(q)]
  /\ UNCHANGED <<gvt0, clientVars>>

(* rdxn_down reaches a rank other than the root.                           *)
Deliver(r) ==
  /\ r \in undelivered
  /\ undelivered' = undelivered \ {r}
  /\ status1' = [status1 EXCEPT ![r] = Verdict(quiesced)]
  /\ gvt1' = IF quiesced THEN [gvt1 EXCEPT ![r] = gvt] ELSE gvt1
  /\ UNCHANGED <<status0, gvt0, epoch, countVars, contrib, accLvt, accSend,
                 accRecv, quiesced, gvt, cepoch, counted, clientVars>>

Next ==
  \/ \E r \in Ranks, D \in (SUBSET Ranks) \ {{}}, t \in EventTime : Send(r, D, t)
  \/ \E m \in InFlight : Receive(m)
  \/ \E r \in Ranks, t \in EventTime : Spawn(r, t)
  \/ \E r \in Ranks, p \in EventTime : Finish(r, p)
  \/ \E r \in Ranks : Advance(r)
  \/ \E r \in Ranks, lvt \in Time : CollBegin(r, lvt)
  \/ Complete
  \/ \E lvt \in Time : CollBeginLast(lvt)
  \/ \E r \in Ranks : Deliver(r)

Spec == Init /\ [][Next]_vars

-----------------------------------------------------------------------------
TypeOK ==
  /\ status0 \in [Ranks -> Status] /\ status1 \in [Ranks -> Status]
  /\ gvt0 \in [Ranks -> Time] /\ gvt1 \in [Ranks -> Time]
  /\ epoch \in [Ranks -> Nat]
  /\ lvt0 \in [Ranks -> Time] /\ lvt1 \in [Ranks -> Time]
  /\ lsend0 \in [Ranks -> Nat] /\ lsend1 \in [Ranks -> Nat]
  /\ lrecv0 \in [Ranks -> Nat] /\ lrecv1 \in [Ranks -> Nat]
  /\ lrecv2 \in [Ranks -> Nat]
  /\ contrib \subseteq Ranks /\ undelivered \subseteq Ranks
  /\ accLvt \in Time /\ accSend \in Nat /\ accRecv \in Nat
  /\ quiesced \in BOOLEAN /\ gvt \in Time
  /\ pending \in [Ranks -> SUBSET EventTime]
  /\ sent \subseteq Message /\ rcvd \subseteq sent
  /\ nextId \in Nat /\ cepoch \in Nat
  /\ counted \subseteq rcvd

(* GVT safety, the reason the protocol exists: no message under way and no *)
(* event a client still has to process is earlier than the GVT any rank    *)
(* was told.  gvt.hxx asserts it of each send and each receipt with        *)
(* epoch_gvt_[0] <= t; the engine frees history below this bound.          *)
GvtSafe ==
  \A r \in Ranks :
    /\ \A m \in InFlight : gvt1[r] <= m.t
    /\ \A s \in Ranks : \A p \in pending[s] : gvt1[r] <= p

(* The tag of a message that arrives is one of the three the receiver      *)
(* counts: the assertion 0 <= i && i < 3 of gvt::send and bcast_procs,     *)
(* although sender and receiver change epochs independently.               *)
TagInWindow == \A m \in InFlight : m.tag - epoch[m.dst] \in 0 .. 2

(* A rank that is told "quiesced" knows that every message of its epoch's  *)
(* tag, and of every older one, has been received everywhere (the meaning  *)
(* of coll_was_epoch that the engine's hot/cold lists rely on), although   *)
(* the counts were read at different moments on different ranks.           *)
QuiescedMeansReceived ==
  \A r \in Ranks : status1[r] = "quiesced" =>
    \A m \in sent : m.tag <= epoch[r] => m \in rcvd

(* No rank's GVT ever decreases: the assertion epoch_gvt_[1] <= gvt of     *)
(* rdxn_down.                                                              *)
GvtMonotone ==
  [][\A r \in Ranks : gvt1[r] <= gvt1'[r] /\ gvt0[r] <= gvt0'[r]]_vars
-----------------------------------------------------------------------------
(***************************************************************************)
(* The inductive invariant behind GvtSafe, in named parts.                 *)
(***************************************************************************)

(* Where each rank stands in the alternation of collectives: a result is   *)
(* with all ranks before the next collective can complete, and only a      *)
(* quiesced result moves the ranks, one by one, to the next epoch.         *)
CollInv ==
  \A r \in Ranks :
    /\ r \in contrib => /\ epoch[r] = cepoch /\ r \notin undelivered
                        /\ status0[r] = "reducing" /\ status1[r] = "reducing"
    /\ r \in undelivered => status0[r] = "reducing" /\ status1[r] = "reducing"
    /\ r \notin contrib =>
         epoch[r] = IF quiesced THEN cepoch - 1 ELSE cepoch
    /\ r \notin contrib \cup undelivered =>
         /\ status1[r] = Verdict(quiesced)
         /\ status0[r] \in {"reducing", status1[r]}

(* Messages are as their senders made them, and everything older than the  *)
(* epoch being counted has arrived.                                        *)
MsgInv ==
  /\ IsFiniteSet(sent)
  /\ \A m \in sent : m.id < nextId /\ m.tag <= epoch[m.src] + 1
  /\ \A m \in InFlight : m.tag >= cepoch

(* The counters count what their names say.                                *)
CountInv ==
  /\ \A r \in Ranks :
       /\ lsend0[r] = Cardinality(SentBy(r, epoch[r]))
       /\ lsend1[r] = Cardinality(SentBy(r, epoch[r] + 1))
       /\ lrecv0[r] = Cardinality(RcvdBy(r, epoch[r]))
       /\ lrecv1[r] = Cardinality(RcvdBy(r, epoch[r] + 1))
       /\ lrecv2[r] = Cardinality(RcvdBy(r, epoch[r] + 2))
  /\ accSend = Cardinality({m \in sent : m.tag = cepoch /\ m.src \in contrib})
  /\ \A m \in counted : m.tag = cepoch /\ m.dst \in contrib
  /\ accRecv = Cardinality(counted)

(* The least time a rank answers for: its contribution once it entered the *)
(* epoch being counted, and until then what it sent towards that epoch.    *)
Low(r) == IF epoch[r] = cepoch THEN lvt0[r] ELSE lvt1[r]

Covered(t) == \E r \in Ranks : Low(r) <= t

(* Some rank answers for every message under way and for every event on    *)
(* the near side of the cut between two epochs.                            *)
CoverInv ==
  /\ \A m \in sent : /\ m.tag = epoch[m.src] => lvt0[m.src] <= m.t
                     /\ m.tag = epoch[m.src] + 1 => lvt1[m.src] <= m.t
  /\ \A m \in InFlight : Covered(m.t)
  /\ \A r \in Ranks : epoch[r] = cepoch =>
       /\ \A p \in pending[r] : Covered(p)
       /\ Covered(lvt1[r])

(* Nothing is earlier than the last GVT, and the open collective cannot    *)
(* compute an earlier one.                                                 *)
BoundInv ==
  /\ \A r \in Ranks : /\ gvt0[r] <= gvt1[r] /\ gvt1[r] <= gvt
                      /\ gvt <= lvt0[r] /\ gvt <= lvt1[r]
                      /\ \A p \in pending[r] : gvt <= p
  /\ \A m \in InFlight : gvt <= m.t
  /\ gvt <= accLvt
  /\ \A r \in contrib : accLvt <= lvt0[r]

IInv ==
  TypeOK /\ CollInv /\ MsgInv /\ CountInv /\ CoverInv /\ BoundInv
=============================================================================
