--------------------------- MODULE GvtRefinement ---------------------------
(***************************************************************************)
(* The code-level GVT (Gvt: trees, reducibles, arrays of counters, one     *)
(* message at a time) implements the protocol GvtEpochs, whose safety is   *)
(* proved in GvtEpochsProofs.  History variables add what the protocol     *)
(* remembers and the code does not: which messages were sent, received and *)
(* counted.  Epochs do not wrap here (EpochMod is beyond MaxEpoch).        *)
(***************************************************************************)
EXTENDS GvtInvariant

CONSTANTS
  MaxEpoch,   (* Bound: no rank enters a later epoch.                      *)
  MaxCalls    (* Bound: calls of gvt::send and bcast_procs.                *)

(* The bounds are numbers, and no epoch number that is reached wraps.      *)
RefinementConstants ==
  MaxEpoch \in Nat /\ MaxCalls \in Nat /\ MaxEpoch + 2 < EpochMod

VARIABLES
  ident,      (* the identity of the message that carries an event         *)
  nextId,     (* the identity of the next call of send                     *)
  sent, rcvd, (* the messages sent and received                            *)
  cepoch,     (* the epoch of the open collective                          *)
  counted,    (* the receipts the open collective has summed               *)
  quiesced    (* did the last completed collective quiesce?                *)

history == <<ident, nextId, sent, rcvd, cepoch, counted, quiesced>>

MessageOf(k) ==
  [id |-> ident[k], src |-> event[k].src, dst |-> event[k].rank,
   tag |-> event[k].tag, t |-> event[k].t]

RInit ==
  /\ Init
  /\ ident = [k \in Events |-> 0] /\ nextId = 0
  /\ sent = {} /\ rcvd = {}
  /\ cepoch = 0 /\ counted = {} /\ quiesced = FALSE

Began(r) == round'[r] # round[r]

Concluded ==
  /\ collStatus'[0][1] # "reducing"
  /\ collStatus[0][1] = "reducing" \/ Began(0)

Remember ==
  LET newly == {k \in Events : event'[k].place = "net" /\ event[k].place # "net"}
      arrived == {k \in NetEvents : event'[k].place = "local"}
  IN  /\ nextId' = IF newly = {} THEN nextId ELSE nextId + 1
      /\ ident' = [k \in Events |-> IF k \in newly THEN nextId ELSE ident[k]]
      /\ sent' = sent \cup {MessageOf(k)' : k \in newly}
      /\ rcvd' = rcvd \cup {MessageOf(k) : k \in arrived}
      /\ quiesced' = IF Concluded THEN collStatus'[0][1] = "quiesced" ELSE quiesced
      /\ cepoch' = IF Concluded /\ quiesced' THEN cepoch + 1 ELSE cepoch
      /\ counted' = IF Concluded THEN {}
                    ELSE counted \cup {m \in rcvd : Began(m.dst) /\ m.tag = epoch'[m.dst]}

Bounded == (\A r \in Ranks : epoch'[r] <= MaxEpoch) /\ nextId' <= MaxCalls

RNext == Next /\ Remember /\ Bounded

RSpec == RInit /\ [][RNext]_<<vars, history>>

-----------------------------------------------------------------------------
(* What the collective's state is spread over: the open sums of the ranks, *)
(* the sums on their way up and the result on its way down.                *)
Undelivered == UNION {Covers(m) : m \in downs}

NodePart(rx, r) ==
  [at |-> r, lvt |-> rx[r].gvtAcc, send |-> rx[r].gsend, recv |-> rx[r].grecv]
UpPart(m) == [at |-> m.src + N, lvt |-> m.lvt, send |-> m.send, recv |-> m.recv]

Parts(rx, up) ==
  {NodePart(rx, r) : r \in {q \in Ranks : rx[q].incoming > 0}} \cup {UpPart(m) : m \in up}

SendsOf(P) == SumOf([p \in P |-> p.send], P)
RecvsOf(P) == SumOf([p \in P |-> p.recv], P)
LvtOf(P) ==
  CHOOSE v \in {Inf} \cup {p.lvt : p \in P} : v <= Inf /\ \A p \in P : v <= p.lvt

Pending == [r \in Ranks |-> LocalTimes(r)]

At(f, i) == [r \in Ranks |-> f[r][i]]

(* The protocol the code runs, with what is proved of it: GvtProofs cites  *)
(* its theorems for the code.                                              *)
Abs ==
  INSTANCE GvtEpochsProofs WITH
    Root <- 0, Gvt0 <- 0, MaxSends <- MaxCalls,
    status0 <- At(collStatus, 0), status1 <- At(collStatus, 1),
    gvt0 <- At(epochGvt, 0), gvt1 <- At(epochGvt, 1),
    lvt0 <- At(lvt, 0), lvt1 <- At(lvt, 1),
    lsend0 <- At(lsend, 0), lsend1 <- At(lsend, 1),
    lrecv0 <- At(lrecv, 0), lrecv1 <- At(lrecv, 1), lrecv2 <- At(lrecv, 2),
    contrib <- Contrib(collStatus, downs),
    accLvt <- LvtOf(Parts(rdxn, ups)),
    accSend <- SendsOf(Parts(rdxn, ups)),
    accRecv <- RecvsOf(Parts(rdxn, ups)),
    gvt <- epochGvt[0][1],
    undelivered <- Undelivered,
    pending <- Pending

(* What the proof that Gvt implements GvtEpochs needs besides Inv: the      *)
(* messages under way are those sent and not received, two that share an    *)
(* identity have different destinations, and the result on its way down is  *)
(* the one rank 0 has.                                                      *)
HistoryOK ==
  /\ nextId \in Nat /\ ident \in [Events -> Nat]
  /\ \A m \in sent \cup rcvd : m.dst \in Ranks /\ m.id \in Nat /\ m.id < nextId
  /\ \A k \in NetEvents : MessageOf(k) \in sent \ rcvd
  /\ \A j, k \in NetEvents :
       ident[j] = ident[k] /\ event[j].rank = event[k].rank => j = k

ResultOK ==
  /\ quiesced \in BOOLEAN
  /\ \A m \in downs : /\ m.toUb < 0 <=> quiesced
                      /\ quiesced => m.gvt = epochGvt[0][1]

WithinBounds ==
  /\ \A r \in Ranks : epoch[r] <= MaxEpoch
  /\ \A k \in Events : event[k].place # "unused" => event[k].t \in EventTime

RefinementInv == Inv /\ HistoryOK /\ ResultOK /\ WithinBounds

(* Every step of the code is a step of the protocol or leaves the          *)
(* protocol's state alone; in particular a whole tree of partial sums, of  *)
(* which neighbouring rounds overlap, acts as one collective.              *)
ImplementsEpochs == Abs!Spec
=============================================================================
