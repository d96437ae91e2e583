-------------------------------- MODULE Pdes --------------------------------
(***************************************************************************)
(* devastator/pdes.{hxx,cxx}: the Time Warp engine.  Every causality       *)
(* domain (cd) executes its events optimistically in (time, subtime)       *)
(* order; a late event or an anti-message rolls it back, and what is       *)
(* earlier than the GVT is committed.  A call of drain() may be made       *)
(* rewindable; rewind() then takes the simulation back to where that call  *)
(* began, or keeps what it did.                                            *)
(*                                                                         *)
(* Ranks of one process share memory: an event sent "near" is one object,  *)
(* made by the sender and linked by pointer into the target's queues.  An  *)
(* event sent "far" is copied, and matched with its anti-message by far_id.*)
(* Objects have identity here, so that a freed object is seen as such.     *)
(*                                                                         *)
(* The engine's part of a step is a function from the memory of the        *)
(* engine to its next memory.  A rank runs handlers (deva::progress), the  *)
(* GVT block of drain() and one event at a time, as far as the lookahead   *)
(* window lets it, which drain() adapts to how many events are undone.     *)
(***************************************************************************)
EXTENDS Integers, SequencesExt

CONSTANTS
  CdN,          (* number of cds of the job; cd c is the c-th global one   *)
  RankOf(_),    (* the rank of a cd                                        *)
  RankN,        (* deva::rank_n                                            *)
  Inf,          (* end_of_time                                             *)
  Jobs,         (* the programs and how they run: records                  *)
                (*   process  the process of each rank                     *)
                (*   roots    pdes::root_event calls, [cd, time, pay]      *)
                (*   subtime  do the events have subtime()? (then it is 0) *)
                (*   look     [dt, static]: look_dt at the start and the   *)
                (*            environment's deva_static_look_dt            *)
                (*   calls    the calls of drain(), [end, then], where     *)
                (*            then says what follows: see Then             *)
  Handler(_,_), (* user code: what payload p sends in state s of its cd, a *)
                (* sequence of [lb, to]: bcast_procs of the events to with *)
                (* times from lb on, or send of one event if lb = Single   *)
  LookMax,      (* 1ull<<58, the largest window that drain() adapts to     *)
  Objects       (* Bound: event objects that exist at one time, 1 .. n     *)

(* drain(end) is not rewindable; or it is, and rewind(true) or             *)
(* rewind(false) or finalize() comes next.                                 *)
Then == {"plain", "back", "keep", "leave"}
Single == -1
Adapting == -1

Ranks == 0 .. RankN - 1
Cds == 0 .. CdN - 1
CdsOf(r) == {c \in Cds : RankOf(c) = r}

ASSUME ConstantsAssumption ==
  /\ CdN \in Nat \ {0} /\ RankN \in Nat \ {0} /\ Inf \in Nat /\ Objects \in Nat
  /\ \A c \in Cds : RankOf(c) \in Ranks
  /\ \A b, c \in Cds : b <= c => RankOf(b) <= RankOf(c)
  /\ \A j \in Jobs : /\ j.process \in [Ranks -> Nat]
                     /\ j.calls \in Seq([end : 0 .. Inf, then : Then]) /\ Len(j.calls) > 0
                     /\ \A i \in 1 .. Len(j.calls) - 1 : j.calls[i].then # "leave"
                     /\ j.look.dt \in 1 .. LookMax /\ j.look.static \in Nat \cup {Adapting}
                     /\ \A e \in j.roots : /\ e.cd \in Cds /\ e.time \in 0 .. Inf - 1
                                           /\ e.pay \in Nat

VARIABLES
  mem,       (* the memory of the engine on all ranks, see Memory          *)
  committed, (* history: the events each cd has committed, in order        *)
  phase,     (* what each rank's main program is doing                     *)
  job,       (* the program, and how it is run                             *)
  call,      (* which call of drain() the job is in                        *)
  expected,  (* reference: what the sequential simulation commits          *)
  window,    (* look_dt and look_t_ub of drain() on each rank              *)
  saved,     (* what rewind(true) brings back: seq_id_bumper_rewind, the   *)
             (* fridges, and the history of commits at that moment         *)
  gvtOld,    (* epoch_gvt_[0] of each rank, the GVT drain() last acted on  *)
  epoch, status, gvt, contrib, undelivered, verdict, bound, (* GvtService  *)
  net        (* gvt::send messages under way                               *)

gvtVars == <<epoch, status, gvt, contrib, undelivered, verdict, bound>>
drains == <<job, call, expected, saved>>
vars == <<mem, committed, phase, drains, window, gvtOld, gvtVars, net>>

End == job.calls[call].end
Rewindable(k) == job.calls[k].then # "plain"

Near(r, s) == job.process[r] = job.process[s]

-----------------------------------------------------------------------------
(***************************************************************************)
(* The memory of the engine.                                               *)
(*   obj    event objects; a freed one is Freed                            *)
(*   future cd_state::future_events, a heap: a set whose least is taken    *)
(*   past   cd_state::past_events                                          *)
(*   seq    cd_state::seq_id_bumper                                        *)
(*   state  the user's state of the cd                                     *)
(*   sent   sim_state::sent_near of a rank                                 *)
(*   roots  rewind_roots, and created rewind_created_near, of a rank       *)
(*   hot, cold  anni_near_hot_head, anni_near_cold_head of a rank          *)
(*   far    sim_state::from_far of a rank: [id, time, obj], obj = Anti for *)
(*          an anti-message that came first                                *)
(*   out    the messages the current step sends                            *)
(***************************************************************************)
Freed == [live |-> FALSE, again |-> FALSE]
FreedAgain == [live |-> FALSE, again |-> TRUE]
Anti == 0
NotFar == <<>>

NewEvent(cd, time, sub, pay) ==
  [live |-> TRUE, cd |-> cd, time |-> time, sub |-> sub, pay |-> pay,
   createdHere |-> TRUE, existence |-> 1, inFuture |-> TRUE, rewindRoot |-> FALSE,
   removeAfterUndo |-> FALSE, sentNear |-> <<>>, sentFar |-> <<>>, sentFarFreed |-> FALSE,
   farId |-> NotFar]

LiveObjects(m) == {o \in 1 .. Objects : m.obj[o].live}
NewObject(m) == CHOOSE o \in 1 .. Objects : /\ ~ m.obj[o].live
                                            /\ \A p \in 1 .. o - 1 : m.obj[p].live

(* destruct_and_delete: an event deletes its list of far sends, which      *)
(* rewind(true) may have deleted before.                                   *)
Delete(m, os) ==
  [m EXCEPT !.obj = [o \in DOMAIN @ |->
     IF o \notin os THEN @[o] ELSE IF @[o].live /\ ~ @[o].sentFarFreed THEN Freed ELSE FreedAgain]]

(* operator< and operator<= of stamped_event, on the objects' stamps.      *)
Before(m, a, b) ==
  \/ m.obj[a].time < m.obj[b].time
  \/ m.obj[a].time = m.obj[b].time /\ m.obj[a].sub < m.obj[b].sub
NotAfter(m, a, b) == ~ Before(m, b, a)

(* queue::at_backwards *)
AtBack(s, j) == s[Len(s) - j]

(* The user's state of a cd and the inverse that execute() returns; they   *)
(* do not commute, so that unexecute in another order is seen.             *)
Executed(s, pay) == 3 * s + pay
Unexecuted(s, pay) == (s - pay) \div 3

-----------------------------------------------------------------------------
(***************************************************************************)
(* rollback(cd, undo_n).  The work record adds to the memory undo_n_hi and *)
(* undo_n_lo of each cd, the cd being walked, undos_fresh and the deferred *)
(* deletes.                                                                *)
(***************************************************************************)

(* next_seq_id(-n): the ids of n undone sends are used again.              *)
SeqReturned(w, n) == [w EXCEPT !.seq[w.cur] = @ - n * CdN]

(* Must the walk of past_events of cd c go deeper to reach event s of it?  *)
NeverDeeper(w, c, s) == FALSE
Deeper(w, c, s) ==
  \/ w.hi[c] = 0
  \/ Before(w, s, AtBack(w.past[c], w.hi[c] - 1))

(* One element of the sent_near list of an event of cd w.cur.              *)
UndoSentNear(w, s) ==
  LET target == w.obj[s].cd
      me == RankOf(w.cur)
      w1 == SeqReturned(w, 1)
      depth == CHOOSE j \in 0 .. Len(w.past[target]) - 1 : AtBack(w.past[target], j) = s
  IN  IF RankOf(target) # me
      THEN [w1 EXCEPT
              !.sent[me] = @ \ {s},
              !.hot[me] = @ \cup {s},
              !.out = @ \cup {[kind |-> "near", charge |-> -1, obj |-> s,
                               dst |-> RankOf(target), t |-> w.obj[s].time]}]
      ELSE IF w.obj[s].inFuture
      THEN [w1 EXCEPT !.future[target] = @ \ {s}, !.dels = @ \cup {s}]
      ELSE IF Deeper(w, target, s)
      THEN [w1 EXCEPT
              !.obj[s].removeAfterUndo = TRUE,
              !.hi[target] = depth + 1,
              !.fresh = IF w.hi[target] # w.lo[target] THEN @ ELSE Append(@, target)]
      ELSE [w1 EXCEPT !.obj[s].removeAfterUndo = TRUE]

(* Anti-messages for the far sends of event e (send_anti_and_delete): one  *)
(* per rank that a send or a bcast_procs has reached, with all its ids.    *)
UndoSentFar(w, e) ==
  LET records == ToSet(w.obj[e].sentFar)
      n == FoldLeft(LAMBDA k, f : k + f.n, 0, w.obj[e].sentFar)
  IN  [SeqReturned(w, n) EXCEPT
         !.obj[e].sentFar = <<>>,
         !.out = @ \cup {[kind |-> "anti", dst |-> p.dst, t |-> p.t, ids |-> p.ids]
                           : p \in UNION {f.parts : f \in records}}]

(* One event of the walk over past_events, or the next cd of undos_fresh.  *)
UndoStep(w) ==
  IF w.lo[w.cur] < w.hi[w.cur]
  THEN LET e == AtBack(w.past[w.cur], w.lo[w.cur])
           w1 == FoldLeft(UndoSentNear, UndoSentFar(w, e), w.obj[e].sentNear)
       IN  [w1 EXCEPT !.lo[w.cur] = @ + 1]
  ELSE IF w.fresh # <<>>
  THEN [w EXCEPT !.cur = Last(w.fresh), !.fresh = Front(@)]
  ELSE w

UndoFixedPoint(w) ==
  LET steps == CdN + Cardinality(LiveObjects(w))
  IN  FoldLeft(LAMBDA v, i : UndoStep(v), w, [i \in 1 .. steps |-> i])

(* The undone events of a cd, latest first.                                *)
UndoneEarliestFirst(w, c) == SubSeq(w.past[c], Len(w.past[c]) - w.hi[c] + 1, Len(w.past[c]))
Undone(w, c) == [j \in 1 .. w.hi[c] |-> AtBack(w.past[c], j - 1)]

(* unexecute of those events: back to future, or removed.                  *)
Unexecute(w, c) ==
  LET undone == Undone(w, c)
      back == {e \in ToSet(undone) : ~ w.obj[e].removeAfterUndo}
      gone == {e \in ToSet(undone) \ back : w.obj[e].createdHere}
      w1 == [w EXCEPT
               !.obj = [o \in DOMAIN @ |->
                          IF o \in back THEN [@[o] EXCEPT !.inFuture = TRUE] ELSE @[o]],
               !.future[c] = @ \cup back,
               !.state[c] = FoldLeft(LAMBDA s, e : Unexecuted(s, w.obj[e].pay), @, undone),
               !.past[c] = SubSeq(@, 1, Len(@) - w.hi[c])]
  IN  Delete(w1, gone)

Rollback(m, c, n) ==
  LET w0 == m @@ [hi |-> [d \in Cds |-> IF d = c THEN n ELSE 0],
                  lo |-> [d \in Cds |-> 0],
                  cur |-> c, fresh |-> <<>>, dels |-> {}]
      w1 == UndoFixedPoint(w0)
      w2 == FoldLeft(Unexecute, w1, [i \in 1 .. CdN |-> i - 1])
      w3 == Delete(w2, w2.dels)
  IN  [f \in DOMAIN m |-> w3[f]]

-----------------------------------------------------------------------------
(* insert_past: behind every event that is not later, and roll those back. *)
InsertPast(m, c, e) ==
  LET later == SelectSeq(m.past[c], LAMBDA p : Before(m, e, p))
      n == Len(m.past[c]) - Len(later)
      m1 == [m EXCEPT !.past[c] = InsertAt(@, n + 1, e)]
  IN  IF later = <<>> THEN m1 ELSE Rollback(m1, c, Len(later))

RemovePast(m, c, e) ==
  LET j == CHOOSE i \in 0 .. Len(m.past[c]) - 1 : AtBack(m.past[c], i) = e
  IN  Rollback([m EXCEPT !.obj[e].removeAfterUndo = TRUE], c, j + 1)

(* arrive_near<+1>, arrive_near<-1>: either may come first.                *)
ArriveNear(m, e, charge) ==
  LET c == m.obj[e].cd
      m1 == [m EXCEPT !.obj[e].existence = @ + charge]
      now == m1.obj[e].existence
  IN  CASE charge = 1 /\ now = 1 ->
             [m1 EXCEPT !.obj[e].inFuture = TRUE, !.future[c] = @ \cup {e}]
        [] charge = -1 /\ now = 0 /\ m.obj[e].inFuture ->
             [m1 EXCEPT !.future[c] = @ \ {e}]
        [] charge = -1 /\ now = 0 /\ ~ m.obj[e].inFuture ->
             RemovePast(m1, c, e)
        [] OTHER -> m1

FarEntries(m, r, id, t) == {f \in m.far[r] : f.id = id /\ f.time = t}

(* arrive_far: a copy of the event, unless its anti-message is here.       *)
ArriveFar(m, r, ev) ==
  LET found == FarEntries(m, r, ev.farId, ev.time)
      o == NewObject(m)
  IN  IF found = {}
      THEN [m EXCEPT
              !.obj[o] = ev,
              !.future[ev.cd] = @ \cup {o},
              !.far[r] = @ \cup {[id |-> ev.farId, time |-> ev.time, obj |-> o]}]
      ELSE [m EXCEPT !.far[r] = @ \ found]

(* arrive_far_anti: annihilates the event, or waits for it.                *)
ArriveFarAnti(m, r, a) ==
  LET found == FarEntries(m, r, a.id, a.time)
      e == (CHOOSE f \in found : TRUE).obj
      c == m.obj[e].cd
      m1 == [m EXCEPT !.far[r] = @ \ found]
  IN  IF found = {}
      THEN [m EXCEPT !.far[r] = @ \cup {[id |-> a.id, time |-> a.time, obj |-> Anti]}]
      ELSE IF m.obj[e].inFuture
      THEN Delete([m1 EXCEPT !.future[c] = @ \ {e}], {e})
      ELSE RemovePast(m1, c, e)

-----------------------------------------------------------------------------
(* execute_context::send and bcast_procs.  far_id_bumper makes ids that    *)
(* were never used; here they are not in use.                              *)
FarIdsInUse(m) ==
  {f.id : f \in UNION {m.far[r] : r \in Ranks}}
  \cup {a.id : a \in UNION {ToSet(p.ids) :
         p \in UNION {f.parts : f \in UNION {ToSet(m.obj[o].sentFar) : o \in LiveObjects(m)}}}}
  \cup {a.id : a \in UNION {ToSet(n.ids) : n \in {k \in m.out \cup net : k.kind = "anti"}}}
  \cup {ev.farId : ev \in UNION {ToSet(n.events) : n \in {k \in m.out \cup net : k.kind = "far"}}}

(* The first of n consecutive ids of rank r.                               *)
FarIdsAgain(m, r, n) == 0
NewFarIds(m, r, n) ==
  LET mine == {id[2] : id \in {i \in FarIdsInUse(m) : i[1] = r}}
      fits(b) == \A k \in b .. b + n - 1 : k \notin mine
  IN  CHOOSE b \in 0 .. n * Cardinality(mine) : fits(b) /\ \A k \in 0 .. b - 1 : ~ fits(k)

(* Events of one bcast_procs that go to the same rank are numbered there,  *)
(* from the numbers that the whole of it has reserved.                     *)
Place(x, i) == Cardinality({j \in 1 .. i - 1 : RankOf(x.to[j].cd) = RankOf(x.to[i].cd)})

SendSub(m, c, k) == IF job.subtime THEN 0 ELSE m.seq[c] + CdN * k

SendFar(m, e, x) ==
  LET c == m.obj[e].cd
      n == Len(x.to)
      base == NewFarIds(m, RankOf(c), n)
      at(i) == m.obj[e].time + x.to[i].dt
      id(i) == <<RankOf(c), base + Place(x, i)>>
      lb == IF x.lb = Single THEN at(1) ELSE m.obj[e].time + x.lb
      mine(r) == SelectSeq([i \in 1 .. n |-> i], LAMBDA i : RankOf(x.to[i].cd) = r)
      dsts == {RankOf(x.to[i].cd) : i \in 1 .. n}
      event(i) == [NewEvent(x.to[i].cd, at(i), SendSub(m, c, Place(x, i)), x.to[i].pay)
                     EXCEPT !.farId = id(i)]
      ids(r) == [k \in DOMAIN mine(r) |-> [id |-> id(mine(r)[k]), time |-> at(mine(r)[k])]]
  IN  [m EXCEPT
         !.seq[c] = @ + n * CdN,
         !.obj[e].sentFar =
            <<[n |-> n, parts |-> {[dst |-> r, t |-> lb, ids |-> ids(r)] : r \in dsts}]>> \o @,
         !.out = @ \cup {[kind |-> "far", dst |-> r, t |-> lb,
                          events |-> [k \in DOMAIN mine(r) |-> event(mine(r)[k])]] : r \in dsts}]

SendNear(m, e, x) ==
  LET c == m.obj[e].cd
      r == RankOf(c)
      to == RankOf(x.cd)
      t == m.obj[e].time + x.dt
      m1 == [m EXCEPT !.seq[c] = @ + CdN]
      o == NewObject(m)
      ev == NewEvent(x.cd, t, SendSub(m, c, 0), x.pay)
  IN  IF to = r
      THEN [m1 EXCEPT
              !.obj[o] = ev, !.obj[e].sentNear = <<o>> \o @,
              !.future[x.cd] = @ \cup {o}]
      ELSE [m1 EXCEPT
              !.obj[o] = [ev EXCEPT !.createdHere = FALSE, !.existence = 0, !.inFuture = FALSE],
              !.obj[e].sentNear = <<o>> \o @,
              !.sent[r] = @ \cup {o},
              !.out = @ \cup {[kind |-> "near", charge |-> 1, obj |-> o,
                               dst |-> to, t |-> t]}]

UserSend(m, e, x) ==
  IF x.lb = Single /\ Near(RankOf(m.obj[e].cd), RankOf(x.to[1].cd))
  THEN SendNear(m, e, x.to[1])
  ELSE SendFar(m, e, x)

(* Execution of event e, popped from the future of its cd: into the past,  *)
(* which may roll back later events, then the user's code.                 *)
ExecuteEvent(m, e) ==
  LET c == m.obj[e].cd
      m1 == InsertPast([m EXCEPT !.future[c] = @ \ {e}, !.obj[e].inFuture = FALSE], c, e)
      m2 == [m1 EXCEPT !.obj[e].sentNear = <<>>, !.obj[e].sentFar = <<>>,
                       !.obj[e].sentFarFreed = FALSE,
                       !.state[c] = Executed(@, m1.obj[e].pay)]
  IN  FoldLeft(LAMBDA v, x : UserSend(v, e, x), m2,
               Handler(m1.obj[e].pay, m1.state[c]))

-----------------------------------------------------------------------------
(***************************************************************************)
(* The sequential simulation: always the earliest event, no speculation.   *)
(***************************************************************************)
SequentialStep(s) ==
  LET e == CHOOSE x \in s.todo :
             \A y \in s.todo : \/ x.time < y.time
                               \/ x.time = y.time /\ (x.cd # y.cd \/ x.sub <= y.sub)
      sends == Handler(e.pay, s.state[e.cd])
      before(i) == FoldLeft(LAMBDA k, j : k + Len(sends[j].to), 0, [j \in 1 .. i - 1 |-> j])
      new(i) == {[cd |-> sends[i].to[j].cd, time |-> e.time + sends[i].to[j].dt,
                  pay |-> sends[i].to[j].pay,
                  sub |-> IF job.subtime THEN 0
                          ELSE s.seq[e.cd] + CdN * (before(i) + Place(sends[i], j))]
                   : j \in DOMAIN sends[i].to}
  IN  [todo |-> (s.todo \ {e}) \cup UNION {new(i) : i \in DOMAIN sends},
       seq |-> [s.seq EXCEPT ![e.cd] = @ + CdN * before(Len(sends) + 1)],
       state |-> [s.state EXCEPT ![e.cd] = Executed(@, e.pay)],
       trace |-> [s.trace EXCEPT ![e.cd] =
                    Append(@, [time |-> e.time, sub |-> e.sub, pay |-> e.pay])]]

Sequential ==
  LET LocalIx(c) == Cardinality({d \in CdsOf(RankOf(c)) : d < c})
      run[n \in Nat] ==
        IF n = 0
        THEN [todo |-> {[cd |-> e.cd, time |-> e.time, pay |-> e.pay,
                         sub |-> IF job.subtime THEN 0 ELSE LocalIx(e.cd)] : e \in job.roots},
              seq |-> [c \in Cds |-> c], state |-> [c \in Cds |-> 0],
              trace |-> [c \in Cds |-> <<>>]]
        ELSE LET s == run[n - 1] IN IF s.todo = {} THEN s ELSE SequentialStep(s)
  IN  run[4 * Objects].trace

-----------------------------------------------------------------------------
(***************************************************************************)
(* The steps of a rank.                                                    *)
(***************************************************************************)
Events(m, r) == UNION {m.future[c] : c \in CdsOf(r)}
EventTimes(m, r) == {m.obj[e].time : e \in Events(m, r)}

Service ==
  INSTANCE GvtService WITH
    Root <- 0, EpochMod <- 4, pending <- [r \in Ranks |-> EventTimes(mem, r)]

Earliest(times) == CHOOSE t \in times \cup {Inf} : \A u \in times : t <= u

(* Every cd's seq_id_bumper and the user's state that its fridges hold.    *)
Image(m, done) == [seq |-> m.seq, state |-> m.state, committed |-> done]

(* A rewindable drain() first marks the events in hand as roots, which     *)
(* nobody deletes, and sets those apart that a rank has sent to another.   *)
MarkRoots(m, r) ==
  LET roots == Events(m, r)
  IN  [m EXCEPT
         !.obj = [o \in DOMAIN @ |->
                    IF o \in roots THEN [@[o] EXCEPT !.rewindRoot = TRUE] ELSE @[o]],
         !.roots[r] = roots,
         !.created[r] = @ \cup m.sent[r],
         !.sent[r] = {}]

(* calc_look_t_ub *)
LookBelow(g, dt, end) == IF g + dt > end THEN end ELSE g + dt - 1
LookFrom(g, dt, end) == IF g + dt > end THEN end ELSE g + dt

(* The prologue of call k of drain() on all ranks: its reduce_min of the   *)
(* local virtual times, gvt::init and its barrier, then coll_begin on each.*)
Prologue(m, dt, k) ==
  LET g == Earliest(UNION {EventTimes(m, r) : r \in Ranks})
  IN  [mem |-> IF Rewindable(k) THEN FoldLeft(MarkRoots, m, [i \in 1 .. RankN |-> i - 1]) ELSE m,
       gvt |-> [r \in Ranks |-> g], epoch |-> [r \in Ranks |-> 0],
       status |-> [r \in Ranks |-> "reducing"], bound |-> g,
       window |-> [r \in Ranks |-> [dt |-> dt[r], ub |-> LookFrom(g, dt[r], job.calls[k].end)]]]

RootEvents(roots, subtime) ==
  LET LocalIx(c) == Cardinality({d \in CdsOf(RankOf(c)) : d < c})
  IN  [i \in 1 .. Cardinality(roots) |->
         LET e == SetToSeq(roots)[i]
         IN  NewEvent(e.cd, e.time, IF subtime THEN 0 ELSE LocalIx(e.cd), e.pay)]

(* pdes::init, the root events and the first call of drain().              *)
Loaded ==
  LET root == RootEvents(job.roots, job.subtime)
  IN  [obj |-> [o \in 1 .. Objects |-> IF o <= Len(root) THEN root[o] ELSE Freed],
       future |-> [c \in Cds |-> {i \in 1 .. Len(root) : root[i].cd = c}],
       past |-> [c \in Cds |-> <<>>],
       seq |-> [c \in Cds |-> c],
       state |-> [c \in Cds |-> 0],
       sent |-> [r \in Ranks |-> {}], far |-> [r \in Ranks |-> {}],
       roots |-> [r \in Ranks |-> {}], created |-> [r \in Ranks |-> {}],
       hot |-> [r \in Ranks |-> {}], cold |-> [r \in Ranks |-> {}],
       out |-> {}]

Init ==
  /\ job \in Jobs /\ call = 1
  /\ expected = Sequential
  /\ phase = [r \in Ranks |-> "drain"]
  /\ committed = [c \in Cds |-> <<>>]
  /\ saved = Image(Loaded, committed)
  /\ LET p == Prologue(Loaded, [r \in Ranks |-> job.look.dt], 1)
     IN  /\ mem = p.mem /\ gvt = p.gvt /\ epoch = p.epoch /\ status = p.status
         /\ bound = p.bound /\ gvtOld = p.gvt /\ window = p.window
  /\ contrib = Ranks /\ undelivered = {} /\ verdict = "non_quiesced"
  /\ net = {}

(* The epoch that gvt::send tags messages of rank r with.                  *)
TagCurrent(r) == epoch[r]
Tag(r) == (epoch[r] + 1) % 4

(* The end of a handler of rank r: the messages it sent are under way.     *)
Finish(r, m, received) ==
  /\ mem' = [m EXCEPT !.out = {}]
  /\ net' = (net \ received)
             \cup {x @@ [tag |-> Tag(r)] : x \in m.out}
  /\ UNCHANGED <<committed, phase, drains, window, gvtOld, gvtVars>>

Receive(r, msg) ==
  /\ msg.dst = r /\ phase[r] \in {"drain", "out"}
  /\ Finish(r,
            CASE msg.kind = "near" -> ArriveNear(mem, msg.obj, msg.charge)
              [] msg.kind = "far" ->
                   FoldLeft(LAMBDA m, ev : ArriveFar(m, r, ev), mem, msg.events)
              [] msg.kind = "anti" ->
                   FoldLeft(LAMBDA m, a : ArriveFarAnti(m, r, a), mem, msg.ids),
            {msg})

(* The least event of a cd whose least event is the earliest of the rank;  *)
(* stamps may tie.                                                         *)
NextEvents(r) ==
  {e \in Events(mem, r) :
     /\ mem.obj[e].time = Earliest(EventTimes(mem, r))
     /\ \A f \in mem.future[mem.obj[e].cd] : NotAfter(mem, e, f)}

Execute(r) ==
  /\ phase[r] = "drain"
  /\ \E e \in NextEvents(r) :
       /\ mem.obj[e].time < window[r].ub
       /\ Finish(r, ExecuteEvent(mem, e), {})

(* The past events of cd c that have fallen behind the GVT g.              *)
BehindEarly(m, c, g) == SelectSeq(m.past[c], LAMBDA e : m.obj[e].time <= g)
Behind(m, c, g) == SelectSeq(m.past[c], LAMBDA e : m.obj[e].time < g)

(* Commit of them: those this rank deletes leave from_far too.             *)
KeepFar(far, deleted) == far
LeaveFar(far, deleted) == {f \in far : f.obj \notin deleted}

Commit(m, r, g) ==
  LET done == UNION {ToSet(Behind(m, c, g)) : c \in CdsOf(r)}
      deleted == {e \in done : m.obj[e].createdHere /\ ~ m.obj[e].rewindRoot}
  IN  Delete([m EXCEPT
                !.past = [c \in Cds |->
                            IF RankOf(c) = r
                            THEN SubSeq(@[c], Len(Behind(m, c, g)) + 1, Len(@[c])) ELSE @[c]],
                !.far[r] = LeaveFar(@, deleted)],
             deleted)

Stamped(m, e) == [time |-> m.obj[e].time, sub |-> m.obj[e].sub, pay |-> m.obj[e].pay]

(* "delete near-sent events which were committed in previous round"        *)
PurgeSent(m, r) ==
  LET old == {o \in m.sent[r] : m.obj[o].time < gvtOld[r]}
  IN  Delete([m EXCEPT !.sent[r] = @ \ old], old)

(* "delete annihilated events from previous epoch"                         *)
DeleteHot(m, r) ==
  Delete([m EXCEPT !.cold[r] = {}, !.hot[r] = {}], m.hot[r] \cup m.cold[r])
ForgetCold(m, r) == [m EXCEPT !.cold[r] = m.hot[r], !.hot[r] = {}]
RotateAnnihilated(m, r) ==
  Delete([m EXCEPT !.cold[r] = m.hot[r], !.hot[r] = {}], m.cold[r])

(* The GVT has stood at t_end or beyond for an epoch, so that this rank    *)
(* leaves drain().                                                         *)
DoneEarly(r) == status[r] = "quiesced" /\ End <= gvt[r]
Done(r) ==
  status[r] = "quiesced" /\ gvt[r] = gvtOld[r] /\ End <= gvtOld[r]

(* global_status_state::update, whatever share of the executed events has  *)
(* been committed.                                                         *)
Update(dt) ==
  IF job.look.static # Adapting THEN {job.look.static}
  ELSE {IF d < 1 THEN 1 ELSE IF d > LookMax THEN LookMax ELSE d :
          d \in {dt \div 4, dt \div 2, 2 * dt, 1 + (101 * dt) \div 100, (100 * (dt - 1)) \div 101}}

(* The GVT block of drain() when a collective has ended, up to the end of  *)
(* this call of drain() or to the next coll_begin.                         *)
NurseGvt(r) ==
  /\ phase[r] = "drain" /\ status[r] # "reducing" /\ ~ Done(r)
  /\ LET quiesced == status[r] = "quiesced"
         purged == PurgeSent(mem, r)
     IN  /\ mem' = IF ~ quiesced THEN purged
                   ELSE IF gvt[r] = gvtOld[r] THEN RotateAnnihilated(purged, r)
                   ELSE Commit(RotateAnnihilated(purged, r), r, gvt[r])
         /\ committed' = [c \in Cds |->
              IF RankOf(c) = r
              THEN committed[c] \o [i \in 1 .. Len(Behind(mem, c, gvt[r])) |->
                                      Stamped(mem, mem.past[c][i])]
              ELSE committed[c]]
  /\ gvtOld' = [gvtOld EXCEPT ![r] = gvt[r]]
  /\ IF status[r] = "quiesced" /\ gvt[r] # gvtOld[r]
     THEN \E dt \in Update(window[r].dt) :
            window' = [window EXCEPT ![r] = [dt |-> dt, ub |-> LookFrom(gvt[r], dt, End)]]
     ELSE UNCHANGED window
  /\ UNCHANGED <<phase, drains, net>>
  /\ \/ Service!Begin(r)
     \/ r = 0 /\ \E v \in Service!Verdicts, g \in 0 .. Inf : Service!BeginLast(v, g)

(* drain() returns.  Events from afar become ordinary events; an anti-     *)
(* message left in from_far is kept for ExitClean to see.                  *)
Return(r) ==
  /\ phase[r] = "drain" /\ Done(r)
  /\ LET m == RotateAnnihilated(PurgeSent(mem, r), r)
         forget == IF gvtOld[r] = Inf THEN {} ELSE {f.obj : f \in m.far[r]} \ {Anti}
     IN  mem' = [m EXCEPT
                   !.obj = [o \in DOMAIN @ |->
                              IF o \in forget THEN [@[o] EXCEPT !.farId = NotFar] ELSE @[o]],
                   !.far[r] = {f \in @ : f.obj \notin forget}]
  /\ phase' = [phase EXCEPT ![r] = "out"]
  /\ UNCHANGED <<committed, drains, window, gvtOld, gvtVars, net>>

(* What a barrier or a blocking reduction waits for.                       *)
Everyone(phases) == \A s \in Ranks : phase[s] \in phases

(* rewind(), between its first barrier and its second ...                  *)
NotRoots(m, os) == {e \in os : ~ m.obj[e].rewindRoot}

EmptyFuture(m, r) ==
  [Delete(m, NotRoots(m, {e \in Events(m, r) : m.obj[e].createdHere})) EXCEPT
     !.future = [c \in Cds |-> IF RankOf(c) = r THEN {} ELSE @[c]]]

DeleteSent(m, r) == [Delete(m, m.sent[r]) EXCEPT !.sent[r] = {}]

HaveRun(m, os) == {e \in os : ~ m.obj[e].inFuture}

Mine(r, new, old) == [c \in Cds |-> IF RankOf(c) = r THEN new[c] ELSE old[c]]

RewindBegin(r) ==
  /\ phase[r] = "out" /\ job.calls[call].then \in {"back", "keep"}
  /\ Everyone({"out", "rewinding"})
  /\ IF job.calls[call].then = "back"
     THEN /\ mem' = [EmptyFuture(mem, r) EXCEPT !.seq = Mine(r, saved.seq, @),
                                                !.state = Mine(r, saved.state, @)]
          /\ committed' = Mine(r, saved.committed, committed)
     ELSE /\ mem' = [Delete(mem, {e \in HaveRun(mem, mem.roots[r]) : mem.obj[e].createdHere})
                       EXCEPT !.roots[r] = {}]
          /\ UNCHANGED committed
  /\ phase' = [phase EXCEPT ![r] = "rewinding"]
  /\ UNCHANGED <<drains, window, gvtOld, gvtVars, net>>

(* ... and after that: the roots are in the future again, or the executed  *)
(* ones are gone.                                                          *)
RootsBack(m, r) ==
  LET roots == m.roots[r]
      freed == HaveRun(m, roots)
  IN  [m EXCEPT
         !.obj = [o \in DOMAIN @ |->
                    IF o \notin roots THEN @[o]
                    ELSE [@[o] EXCEPT !.rewindRoot = FALSE, !.inFuture = TRUE,
                                      !.sentFarFreed = @ \/ (o \in freed /\ m.obj[o].sentFar # <<>>)]],
         !.future = [c \in Cds |-> IF RankOf(c) = r THEN {e \in roots : m.obj[e].cd = c} ELSE @[c]],
         !.sent[r] = m.created[r]]

RewindEnd(r) ==
  /\ phase[r] = "rewinding"
  /\ Everyone({"rewinding", "ready"})
  /\ mem' = [IF job.calls[call].then = "back"
             THEN RootsBack(DeleteSent(mem, r), r)
             ELSE Delete(mem, HaveRun(mem, mem.created[r]))
             EXCEPT !.roots[r] = {}, !.created[r] = {}]
  /\ phase' = [phase EXCEPT ![r] = "ready"]
  /\ UNCHANGED <<committed, drains, window, gvtOld, gvtVars, net>>

(* All that this call of drain() began is over.                            *)
Ready == IF job.calls[call].then \in {"back", "keep"} THEN "ready" ELSE "out"

(* The next call of drain(): its reduce_min waits for every rank.          *)
DrainAgain ==
  /\ Everyone({Ready})
  /\ call < Len(job.calls)
  /\ call' = call + 1
  /\ phase' = [r \in Ranks |-> "drain"]
  /\ saved' = IF Rewindable(call + 1) THEN Image(mem, committed) ELSE saved
  /\ LET p == Prologue(mem, [r \in Ranks |-> window[r].dt], call + 1)
     IN  /\ mem' = p.mem /\ gvt' = p.gvt /\ epoch' = p.epoch /\ status' = p.status
         /\ bound' = p.bound /\ gvtOld' = p.gvt /\ window' = p.window
  /\ contrib' = Ranks /\ undelivered' = {} /\ verdict' = "non_quiesced"
  /\ UNCHANGED <<committed, job, expected, net>>

(* finalize(), between its first barrier and its second, and after that:   *)
(* a rank deletes the unprocessed events it owns, roots last.              *)
FinalizeFuture(r) ==
  /\ phase[r] = Ready /\ call = Len(job.calls)
  /\ Everyone({Ready, "emptied"})
  /\ mem' = EmptyFuture(mem, r)
  /\ phase' = [phase EXCEPT ![r] = "emptied"]
  /\ UNCHANGED <<committed, drains, window, gvtOld, gvtVars, net>>

FinalizeSent(r) ==
  /\ phase[r] = "emptied"
  /\ Everyone({"emptied", "final"})
  /\ LET m == DeleteSent(mem, r)
         own == {e \in m.roots[r] : m.obj[e].createdHere} \cup m.created[r]
     IN  mem' = [Delete(m, own) EXCEPT !.roots[r] = {}, !.created[r] = {}]
  /\ phase' = [phase EXCEPT ![r] = "final"]
  /\ UNCHANGED <<committed, drains, window, gvtOld, gvtVars, net>>

(* A collective completes, or its verdict reaches a rank.                  *)
GvtStep ==
  /\ UNCHANGED <<mem, committed, phase, drains, window, gvtOld, net>>
  /\ \/ \E v \in Service!Verdicts, g \in 0 .. Inf : Service!Complete(v, g)
     \/ \E r \in Ranks : Service!Deliver(r)

AllFinal == (\A r \in Ranks : phase[r] = "final") /\ UNCHANGED vars

Next ==
  \/ \E r \in Ranks : \/ \E msg \in net : Receive(r, msg)
                      \/ Execute(r) \/ NurseGvt(r) \/ Return(r)
                      \/ RewindBegin(r) \/ RewindEnd(r)
                      \/ FinalizeFuture(r) \/ FinalizeSent(r)
  \/ DrainAgain \/ GvtStep \/ AllFinal

Spec == Init /\ [][Next]_vars

(* Every rank stays in its program: weak fairness of its steps, with their *)
(* enabling conditions written out.  And what GvtService owes (see         *)
(* ReachesEnd of Gvt): a collective completes, reaches every rank, and one *)
(* that can find its epoch quiesced again and again does so once, with the *)
(* GVT that the events in hand allow.                                      *)
ToReceive(r) == {msg \in net : msg.dst = r}
MayExecute(r) == phase[r] = "drain" /\ \E e \in NextEvents(r) : mem.obj[e].time < window[r].ub
MayNurse(r) == phase[r] = "drain" /\ status[r] # "reducing" /\ ~ Done(r)
MayMove(r) ==
  \/ phase[r] = "drain" /\ Done(r)
  \/ phase[r] = "out" /\ Ready = "ready" /\ Everyone({"out", "rewinding"})
  \/ phase[r] = "rewinding" /\ Everyone({"rewinding", "ready"})
  \/ phase[r] = Ready /\ Everyone({Ready}) /\ call < Len(job.calls)
  \/ phase[r] = Ready /\ Everyone({Ready, "emptied"}) /\ call = Len(job.calls)
  \/ phase[r] = "emptied" /\ Everyone({"emptied", "final"})

MayQuiesce ==
  /\ contrib \cup {0} = Ranks
  /\ \A msg \in net : msg.tag # (IF 0 \in contrib THEN epoch[0] ELSE Service!Entered(0))
ExactGvt ==
  Earliest(UNION {EventTimes(mem, r) : r \in Ranks} \cup {msg.t : msg \in net})
Received(r) == \E msg \in ToReceive(r) : msg \notin net'
Moved(r) == phase'[r] # phase[r]
Delivered(r) == undelivered' = undelivered \ {r}
Concluded == contrib \cup {0} = Ranks /\ contrib' = {}
ConcludedQuiesced == Concluded /\ verdict' = "quiesced" /\ bound' = ExactGvt

Fairness ==
  /\ \A r \in Ranks :
       /\ []<>(ToReceive(r) = {}) \/ []<><<Received(r)>>_vars
       /\ []<>~ MayExecute(r) \/ []<><<Execute(r)>>_vars
       /\ []<>~ (MayNurse(r) \/ MayMove(r)) \/ []<><<NurseGvt(r) \/ Moved(r)>>_vars
       /\ []<>(r \notin undelivered) \/ []<><<Delivered(r)>>_vars
  /\ []<>(contrib # Ranks) \/ []<><<Concluded>>_vars
  /\ <>[]~ MayQuiesce \/ []<><<ConcludedQuiesced>>_vars

FairSpec == Spec /\ Fairness

-----------------------------------------------------------------------------
(* Every cd commits exactly the events, with the time stamps, in the order *)
(* and with the states of the sequential simulation, however late events   *)
(* and anti-messages arrive: speculation never shows in what is committed. *)
CommittedIsSequential ==
  \A c \in Cds : IsPrefix(committed[c], expected[c])

(* Rollback leaves every cd as if only its past had been executed: the     *)
(* user's state is that of the committed and the past events in order      *)
(* (what DEBUG builds check by entry_checksum), the past is in stamp order.*)
StateIsReplay ==
  \A c \in Cds :
    LET pays == [i \in DOMAIN committed[c] |-> committed[c][i].pay]
                \o [i \in DOMAIN mem.past[c] |-> mem.obj[mem.past[c][i]].pay]
    IN  /\ mem.state[c] = FoldLeft(Executed, 0, pays)
        /\ \A i, j \in DOMAIN mem.past[c] :
              i < j => NotAfter(mem, mem.past[c][i], mem.past[c][j])

(* No pointer that the engine may still follow leads to a freed object:    *)
(* the queues of the target, the lists of the sender, what either keeps for*)
(* rewind(), the events an uncommitted event has sent, and the messages    *)
(* under way, although the two ranks that share an object free it without  *)
(* asking each other.                                                      *)
NoDangling ==
  LET Live(os) == os \subseteq LiveObjects(mem)
  IN  /\ \A c \in Cds : /\ Live(mem.future[c]) /\ Live(ToSet(mem.past[c]))
                        /\ \A e \in ToSet(mem.past[c]) : Live(ToSet(mem.obj[e].sentNear))
      /\ \A r \in Ranks : /\ Live(mem.sent[r]) /\ Live(mem.hot[r]) /\ Live(mem.cold[r])
                          /\ Live(mem.roots[r]) /\ Live(mem.created[r])
                          /\ Live({f.obj : f \in mem.far[r]} \ {Anti})
      /\ Live({n.obj : n \in {k \in net : k.kind = "near"}})

(* The assertions at the end of drain(): nothing speculative is left when  *)
(* a rank decides, by itself, that the simulation has reached t_end.       *)
ExitClean ==
  \A r \in Ranks : phase[r] = "out" =>
    /\ \A c \in CdsOf(r) : /\ mem.past[c] = <<>>
                           /\ gvtOld[r] = Inf => mem.future[c] = {}
    /\ mem.hot[r] = {} /\ mem.cold[r] = {} /\ mem.far[r] = {}
    /\ gvtOld[r] = Inf => mem.sent[r] = {}
    /\ \A n \in net : n.dst # r

(* "Events have been leaked!": when every rank has left drain() the only   *)
(* objects are the unprocessed events and the roots rewind() may need, and *)
(* after rewind() the unprocessed events; none survives finalize().  No    *)
(* event, and no list of far sends, is freed twice.                        *)
NoLeak ==
  LET InHand == UNION {mem.future[c] : c \in Cds}
  IN  /\ Everyone({"out"}) => LiveObjects(mem) = InHand \cup UNION {mem.roots[r] : r \in Ranks}
      /\ Everyone({"ready"}) => LiveObjects(mem) = InHand
      /\ Everyone({"final"}) => LiveObjects(mem) = {}
      /\ \A o \in 1 .. Objects : mem.obj[o] # FreedAgain

(* When drain() has returned everywhere, all that is earlier than t_end    *)
(* has been committed.                                                     *)
DrainComplete ==
  (\A r \in Ranks : phase[r] = "out") =>
    \A c \in Cds : committed[c] =
      SelectSeq(expected[c], LAMBDA e : e.time < End)

(* The engine is a proper client of gvt: nothing it sends or re-inserts by *)
(* a rollback is earlier than what it had in hand.                         *)
KeepsGvtContract ==
  [][(\E r \in Ranks : phase[r] = "drain") =>
       Service!Next \/ UNCHANGED <<Service!collVars, Service!clientVars>>]_vars

(* "anni_all_t ^ anni_all_f": of the events that one bcast_procs makes on a *)
(* rank, and of its anti-message there, all meet their counterpart or none *)
(* does.                                                                   *)
AnnihilatesWhole ==
  \A msg \in net :
    LET here == {[id |-> f.id, time |-> f.time] : f \in {x \in mem.far[msg.dst] : x.obj = Anti}}
        made == {[id |-> f.id, time |-> f.time] : f \in {x \in mem.far[msg.dst] : x.obj # Anti}}
        antis == ToSet(msg.ids)
        events == {[id |-> ev.farId, time |-> ev.time] : ev \in ToSet(msg.events)}
    IN  /\ msg.kind = "far" => events \subseteq here \/ events \cap (here \cup made) = {}
        /\ msg.kind = "anti" => antis \subseteq made \/ antis \cap (here \cup made) = {}

(* Whatever windows drain() adapts to, every rank gets through its calls   *)
(* of drain().                                                             *)
Terminates == <>Everyone({"final"})

(* The fixed point of rollback(): an event that was to be removed with the *)
(* event that sent it is no longer in any past.                            *)
NothingToRemove ==
  \A c \in Cds, o \in LiveObjects(mem) :
    o \in ToSet(mem.past[c]) => ~ mem.obj[o].removeAfterUndo
=============================================================================
