----------------------------- MODULE GvtService -----------------------------
(***************************************************************************)
(* What deva::gvt promises to its client, and what the client owes it: the *)
(* contract between gvt.{hxx,cxx} and pdes.cxx.  GvtEpochs implements it   *)
(* (with epochs taken modulo EpochMod), Pdes uses it.                      *)
(*                                                                         *)
(* A collective starts when every rank has called coll_begin and yields    *)
(* the same verdict to every rank, at different moments.  "quiesced" means *)
(* that nothing tagged with the epoch is still under way, and comes with a *)
(* GVT that nothing in the system is earlier than.                         *)
(***************************************************************************)
EXTENDS Integers

CONSTANTS
  Ranks,      (* The ranks of the job.                                     *)
  Root,       (* Rank 0, where a collective completes.                     *)
  Inf,        (* ~uint64_t(0), "no time".                                  *)
  EpochMod    (* The range of epoch numbers; at least 4.                   *)

VARIABLES
  epoch,       (* epoch_ of each rank, modulo EpochMod                     *)
  status,      (* coll_status_[1] of each rank                             *)
  gvt,         (* epoch_gvt_[1] of each rank                               *)
  contrib,     (* ranks that have begun the open collective                *)
  undelivered, (* ranks the last verdict has not reached                   *)
  verdict,     (* the last verdict                                         *)
  bound,       (* the last GVT                                             *)
  pending,     (* client: the times of each rank's unprocessed events      *)
  net          (* client: messages under way, with fields dst, t and tag   *)

collVars == <<epoch, status, gvt, contrib, undelivered, verdict, bound>>
clientVars == <<pending, net>>

Verdicts == {"quiesced", "non_quiesced"}

Init ==
  /\ epoch = [r \in Ranks |-> 0]
  /\ status = [r \in Ranks |-> "non_quiesced"]
  /\ \E g \in 0 .. Inf :
       /\ gvt = [r \in Ranks |-> g] /\ bound = g
       /\ \A r \in Ranks : \A p \in pending[r] : g <= p
  /\ contrib = {} /\ undelivered = {} /\ verdict = "non_quiesced"
  /\ net = {}

(* The epoch rank r is in after it calls coll_begin.                       *)
Entered(r) ==
  IF status[r] = "quiesced" THEN (epoch[r] + 1) % EpochMod ELSE epoch[r]

Begin(r) ==
  /\ status[r] # "reducing"
  /\ epoch' = [epoch EXCEPT ![r] = Entered(r)]
  /\ status' = [status EXCEPT ![r] = "reducing"]
  /\ contrib' = contrib \cup {r}
  /\ UNCHANGED <<gvt, undelivered, verdict, bound>>

(* The verdict v with the GVT g may be given on epoch e.                   *)
MayConclude(e, v, g) ==
  IF v = "quiesced"
  THEN /\ \A m \in net : m.tag # e /\ g <= m.t
       /\ \A r \in Ranks : \A p \in pending[r] : g <= p
       /\ bound <= g
  ELSE g = bound

Conclude(v, g) ==
  /\ verdict' = v /\ bound' = g
  /\ gvt' = [gvt EXCEPT ![Root] = g]
  /\ undelivered' = Ranks \ {Root}
  /\ contrib' = {}

Complete(v, g) ==
  /\ contrib = Ranks
  /\ MayConclude(epoch[Root], v, g)
  /\ Conclude(v, g)
  /\ status' = [status EXCEPT ![Root] = v]
  /\ UNCHANGED epoch

(* coll_begin of the root, all the others having begun: both in one call.  *)
BeginLast(v, g) ==
  /\ status[Root] # "reducing"
  /\ contrib \cup {Root} = Ranks
  /\ MayConclude(Entered(Root), v, g)
  /\ Conclude(v, g)
  /\ epoch' = [epoch EXCEPT ![Root] = Entered(Root)]
  /\ status' = [status EXCEPT ![Root] = v]

Deliver(r) ==
  /\ r \in undelivered
  /\ undelivered' = undelivered \ {r}
  /\ status' = [status EXCEPT ![r] = verdict]
  /\ gvt' = [gvt EXCEPT ![r] = bound]
  /\ UNCHANGED <<epoch, contrib, verdict, bound>>

(* One step of the client on rank r: it takes at most one message and may  *)
(* send messages and change its events, but nothing new is earlier than    *)
(* everything it had in hand.                                              *)
ClientStep(r) ==
  LET taken == net \ net'
      created == net' \ net
      inHand == pending[r] \cup {m.t : m \in taken}
  IN  /\ \A m \in taken : m.dst = r
      /\ \A m, n \in taken : m = n
      /\ \A m \in created : /\ m.tag = (epoch[r] + 1) % EpochMod
                            /\ \E p \in inHand : p <= m.t
      /\ \A t \in pending'[r] : \E p \in inHand : p <= t
      /\ \A s \in Ranks \ {r} : pending'[s] = pending[s]

Next ==
  \/ /\ UNCHANGED clientVars
     /\ \/ \E r \in Ranks : Begin(r)
        \/ \E v \in Verdicts, g \in 0 .. Inf : Complete(v, g)
        \/ \E v \in Verdicts, g \in 0 .. Inf : BeginLast(v, g)
        \/ \E r \in Ranks : Deliver(r)
  \/ /\ UNCHANGED collVars
     /\ \E r \in Ranks : ClientStep(r)

Spec == Init /\ [][Next]_<<collVars, clientVars>>

(* What the client relies on: nothing earlier than a GVT exists any more.  *)
Safe ==
  \A r \in Ranks :
    /\ \A m \in net : gvt[r] <= m.t
    /\ \A s \in Ranks : \A p \in pending[s] : gvt[r] <= p
=============================================================================
