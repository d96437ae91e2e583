----------------------------- MODULE Collectives -----------------------------
(***************************************************************************)
(* world/reduce.hxx: reduce and scan_reduce, and bcast_procs of            *)
(* world/world_gasnet.{hxx,cxx}.  All three work with messages that are    *)
(* executed by progress() of the rank they are sent to, in any order; a    *)
(* handler runs from end to end, so it is one action.  What a reduction    *)
(* keeps on a rank is in statics that the next reduction uses again, and   *)
(* nothing separates the messages of the two but the order of events.      *)
(*                                                                         *)
(* A value is a sequence of tokens, one for each rank and each call, and   *)
(* op concatenates: an answer tells exactly what it was made of, and in    *)
(* which order.                                                            *)
(***************************************************************************)
EXTENDS Integers, Sequences, FiniteSets, SequencesExt

CONSTANTS
  N,          (* rank_n; the broadcast has one rank in each process        *)
  Scripts     (* Bound: records; calls is the sequence of "reduce" and     *)
              (* "scan" that every rank calls, and casters the ranks that  *)
              (* call bcast_procs before                                   *)

ConstantsOK ==
  /\ N \in Nat \ {0}
  /\ \A g \in Scripts : /\ g.casters \subseteq 0 .. N - 1
                         /\ \A k \in DOMAIN g.calls : g.calls[k] \in {"reduce", "scan"}

Ranks == 0 .. N - 1
NoValue == <<>>                     (* a null pointer to a value           *)
Op(acc, x) == acc \o x
Token(r, k) == <<[rank |-> r, call |-> k]>>
Default == Token(-1, 0)             (* T(), which need not be neutral      *)

VARIABLES
  script,
  call,       (* the call each rank is in, or has ended: its number        *)
  busy,       (* is the rank in that call?                                 *)
  reduce_incoming, reduce_acc,
  ans,        (* reduce_ans or scan_reduce_ans                             *)
  accs, received, (* scan_reduce_accs and scan_reduce_received             *)
  net,        (* messages under way                                        *)
  results,    (* history: what the calls of a rank returned                *)
  visits      (* history: the broadcasts executed in each process, in order*)

reduceVars == <<reduce_incoming, reduce_acc>>
scanVars == <<accs, received>>
callVars == <<call, busy, results>>
vars == <<script, callVars, reduceVars, scanVars, ans, net, visits>>

Init ==
  /\ script \in Scripts
  /\ call = [r \in Ranks |-> 0] /\ busy = [r \in Ranks |-> FALSE]
  /\ reduce_incoming = [r \in Ranks |-> 0] /\ reduce_acc = [r \in Ranks |-> NoValue]
  /\ accs = [r \in Ranks |-> NoValue] /\ received = [r \in Ranks |-> 0]
  /\ ans = [r \in Ranks |-> NoValue]
  /\ net = {} /\ results = [r \in Ranks |-> <<>>]
  /\ visits = [r \in Ranks |-> <<>>]

-----------------------------------------------------------------------------
(* The two trees                                                           *)

(* The tree up: the kids of r are r with one bit set below its lowest; the *)
(* parent of r is r & (r-1), r without its lowest.                         *)
LowBit(r) == IF r = 0 THEN 2 * N ELSE CHOOSE b \in {2^i : i \in 0 .. r} :
                                        r % b = 0 /\ (r \div b) % 2 = 1
KidN(r) == Cardinality({i \in 0 .. N : 2^i < LowBit(r) /\ r + 2^i < N})
Kid(r, i) == r + 2^i
Parent(r) == r - LowBit(r)

(* The tree down halves the interval from r to below ub: to whom r sends,  *)
(* each with the end of the half that it is to serve.                      *)
Halves[r \in Ranks, ub \in 0 .. N] ==
  LET mid == r + (ub - r) \div 2
  IN  IF mid = r THEN {} ELSE {[to |-> mid, ub |-> ub]} \cup Halves[r, mid]

Up(to, val) == [kind |-> "up", to |-> to, val |-> val]
Down(to, ub, val) == [kind |-> "down", to |-> to, ub |-> ub, val |-> val]
ScanUp(to, sender, val) == [kind |-> "scan_up", to |-> to, sender |-> sender, val |-> val]
ScanDown(to, prefix, total) ==
  [kind |-> "scan_down", to |-> to, prefix |-> prefix, val |-> total]
Cast(to, root) == [kind |-> "cast", to |-> to, root |-> root]

-----------------------------------------------------------------------------
(* reduce                                                                  *)

Expected(r) == KidN(r) + 1

(* reduce_down_ on r: done are the messages taken from the net             *)
ReduceDown(r, ub, val, done) ==
  /\ net' = (net \ done) \cup {Down(h.to, h.ub, val) : h \in Halves[r, ub]}
  /\ ans' = [ans EXCEPT ![r] = val]

(* reduce_up_ on r                                                         *)
ReduceUp(r, val, done, old) ==
  LET first == reduce_incoming[r] = 0
      left == (IF first THEN Expected(r) ELSE reduce_incoming[r]) - 1
      acc == IF first THEN val ELSE Op(reduce_acc[r], val)
  IN  /\ reduce_incoming' = [reduce_incoming EXCEPT ![r] = left]
      /\ reduce_acc' = [reduce_acc EXCEPT ![r] = IF left = 0 THEN NoValue ELSE acc]
      /\ IF left # 0
         THEN net' = net \ done /\ ans' = old
         ELSE IF r = 0 THEN ReduceDown(r, N, acc, done)
         ELSE net' = (net \ done) \cup {Up(Parent(r), acc)} /\ ans' = old

RecvUp(m) ==
  /\ m.kind = "up"
  /\ ReduceUp(m.to, m.val, {m}, ans)
  /\ UNCHANGED <<callVars, scanVars, visits>>

RecvDown(m) ==
  /\ m.kind = "down"
  /\ ReduceDown(m.to, m.ub, m.val, {m})
  /\ UNCHANGED <<callVars, reduceVars, scanVars, visits>>

-----------------------------------------------------------------------------
(* scan_reduce                                                             *)

(* What comes before the share of kid i of r                              *)
BeforeKid(r, prefix, slots, i) ==
  LET mine == SubSeq(slots, 1, i + 1)
  IN  IF r = 0 THEN FoldLeft(Op, Head(mine), Tail(mine)) ELSE FoldLeft(Op, prefix, mine)

(* scan_reduce_down on r, with what is in its slots                        *)
ScanReduceDown(r, prefix, total, slots, done) ==
  /\ net' = (net \ done) \cup {ScanDown(Kid(r, i), BeforeKid(r, prefix, slots, i), total)
                                 : i \in 0 .. KidN(r) - 1}
  /\ ans' = [ans EXCEPT ![r] = <<prefix, total>>]
  /\ accs' = [accs EXCEPT ![r] = NoValue]

(* scan_reduce_up on r: its first slot is for r itself                     *)
SlotOf(r, sender) ==
  IF sender = r THEN 1 ELSE 2 + (CHOOSE i \in 0 .. KidN(r) - 1 : Kid(r, i) = sender)
Fresh(r) == [i \in 1 .. Expected(r) |-> NoValue]

ScanReduceUp(r, sender, val, done, old) ==
  LET slots == [(IF accs[r] = NoValue THEN Fresh(r) ELSE accs[r])
                  EXCEPT ![SlotOf(r, sender)] = val]
      all == received[r] + 1 = Expected(r)
      total == FoldLeft(Op, Head(slots), Tail(slots))
  IN  /\ received' = [received EXCEPT ![r] = IF all THEN 0 ELSE @ + 1]
      /\ IF all /\ r = 0 THEN ScanReduceDown(r, Default, total, slots, done)
         ELSE /\ accs' = [accs EXCEPT ![r] = slots]
              /\ net' = (net \ done) \cup (IF all THEN {ScanUp(Parent(r), r, total)} ELSE {})
              /\ ans' = old

RecvScanUp(m) ==
  /\ m.kind = "scan_up"
  /\ ScanReduceUp(m.to, m.sender, m.val, {m}, ans)
  /\ UNCHANGED <<callVars, reduceVars, visits>>

RecvScanDown(m) ==
  /\ m.kind = "scan_down"
  /\ ScanReduceDown(m.to, m.prefix, m.val, accs[m.to], {m})
  /\ UNCHANGED <<callVars, reduceVars, received, visits>>

-----------------------------------------------------------------------------
(* What a rank calls.  reduce and scan_reduce begin by forgetting the last *)
(* answer, add the rank's own value, and spin on the answer with progress. *)

Calling(r, f) ==
  /\ ~ busy[r]
  /\ call[r] < Len(script.calls) /\ script.calls[call[r] + 1] = f
  /\ call' = [call EXCEPT ![r] = @ + 1]
  /\ busy' = [busy EXCEPT ![r] = TRUE]
  /\ UNCHANGED <<results, visits>>

(* ans = nullptr comes first.                                              *)
ForgetNothing(r) == ans
Forget(r) == [ans EXCEPT ![r] = NoValue]

Reduce(r) ==
  /\ Calling(r, "reduce")
  /\ ReduceUp(r, Token(r, call[r] + 1), {}, Forget(r))
  /\ UNCHANGED scanVars

ScanReduce(r) ==
  /\ Calling(r, "scan")
  /\ ScanReduceUp(r, r, Token(r, call[r] + 1), {}, Forget(r))
  /\ UNCHANGED reduceVars

Return(r) ==
  /\ busy[r] /\ ans[r] # NoValue
  /\ busy' = [busy EXCEPT ![r] = FALSE]
  /\ results' = [results EXCEPT ![r] = Append(@, ans[r])]
  /\ UNCHANGED <<call, reduceVars, scanVars, ans, net, visits>>

-----------------------------------------------------------------------------
(* bcast_procs                                                             *)

(* bcast_remote_sends_ finds the interval that process p is to serve by    *)
(* the path of halves from the root to it, counting processes from root.   *)
Share[p \in Ranks, lb \in Ranks, ub \in 0 .. N] ==
  LET mid == lb + (ub - lb) \div 2
  IN  IF p = lb THEN ub
      ELSE IF p < mid THEN Share[p, lb, mid]
      ELSE Share[p, mid, ub]
AllOfIt(p) == N
Serves(p) == Share[p, 0, N]

(* The relay of a broadcast from root, executed in process p               *)
Relay(p, root, done) ==
  LET p_me == (p - root + N) % N
  IN  /\ net' = (net \ done) \cup
                  {Cast((root + h.to) % N, root) : h \in Halves[p_me, Serves(p_me)]}
      /\ visits' = [visits EXCEPT ![p] = Append(@, root)]

Bcast(r) ==
  /\ r \in script.casters
  /\ ~ \E k \in DOMAIN visits[r] : visits[r][k] = r
  /\ Relay(r, r, {})
  /\ UNCHANGED <<callVars, reduceVars, scanVars, ans>>

RecvCast(m) ==
  /\ m.kind = "cast"
  /\ Relay(m.to, m.root, {m})
  /\ UNCHANGED <<callVars, reduceVars, scanVars, ans>>

Progress ==
  \E m \in net :
    \/ RecvUp(m)
    \/ RecvDown(m)
    \/ RecvScanUp(m)
    \/ RecvScanDown(m)
    \/ RecvCast(m)

Next ==
  /\ \/ Progress
     \/ \E r \in Ranks : Reduce(r) \/ ScanReduce(r) \/ Return(r) \/ Bcast(r)
  /\ UNCHANGED script

Spec == Init /\ [][Next]_vars
-----------------------------------------------------------------------------
Tokens(k) == {Token(r, k)[1] : r \in Ranks}
InRankOrder(k, n) == [i \in 1 .. n |-> Token(i - 1, k)[1]]

Right(r, k) ==
  LET answer == results[r][k]
  IN  IF script.calls[k] = "reduce"
      THEN Len(answer) = N /\ ToSet(answer) = Tokens(k)
      ELSE /\ r # 0 => answer[1] = InRankOrder(k, r)
           /\ answer[2] = InRankOrder(k, N)

(* Every call returns the value of every rank once, of this call and of no *)
(* other, though the messages of two calls are under way at one time and   *)
(* their statics are the same; scan_reduce has them in the order of ranks. *)
(* And no rank is left without an answer when all messages are executed.   *)
AnswersExact ==
  /\ \A r \in Ranks : \A k \in DOMAIN results[r] : Right(r, k)
  /\ net = {} => \A r \in Ranks :
       ~ busy[r] \/ ans[r] # NoValue \/ \E q \in Ranks : call[q] < call[r]

(* A broadcast reaches each process once, whoever is its root.             *)
BcastOnce ==
  \A root \in Ranks :
    LET in(p) == {k \in DOMAIN visits[p] : visits[p][k] = root}
    IN  /\ \A p \in Ranks : Cardinality(in(p)) <= 1
        /\ (net = {} /\ in(root) # {}) => \A p \in Ranks : in(p) # {}
=============================================================================
