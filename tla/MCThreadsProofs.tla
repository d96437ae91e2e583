--------------------------- MODULE MCThreadsProofs ---------------------------
(***************************************************************************)
(* Proofs about the behaviours that the run of MCThreads explores.         *)
(*                                                                         *)
(* First WorldRun, which MCThreads extends, for any number of processes, of*)
(* workers, of runs and of barriers, and for any range of the epochs from 3*)
(* on: every thread of the pool executes each function once, and           *)
(* deva::barrier is a barrier among the workers of all processes.          *)
(*                                                                         *)
(* Then what the theorems of BarrierProofs and EpochAllocatorProofs say of *)
(* those behaviours: each of them is one of Barrier, and of EpochAllocator.*)
(***************************************************************************)
EXTENDS MCThreads, TLAPS

-----------------------------------------------------------------------------
(* Epochs that go round                                                    *)

Epoch == 0 .. Mod - 1

LEMMA Next1Is ==
  ASSUME NEW e \in Epoch
  PROVE  Next1(e) = IF e = Mod - 1 THEN 0 ELSE e + 1
BY SMTT(30), ConstantsAssumption DEF Next1, Epoch, ConstantsOK

LEMMA BeforeIs ==
  ASSUME NEW e \in Epoch
  PROVE  Before(e) = IF e = 0 THEN Mod - 1 ELSE e - 1
BY SMTT(30), ConstantsAssumption DEF Before, Epoch, ConstantsOK

(* With three epochs or more, an epoch, its successor and the successor of *)
(* that are three.                                                         *)
LEMMA EpochFacts ==
  /\ \A e \in Epoch : /\ Next1(e) \in Epoch /\ Next1(e) # e /\ Next1(Next1(e)) # e
                      /\ Before(e) \in Epoch
                      /\ Before(Next1(e)) = e /\ Next1(Before(e)) = e
  /\ \A e, f \in Epoch : Next1(e) = Next1(f) => e = f
<1>1. ASSUME NEW e \in Epoch
      PROVE  Next1(e) \in Epoch /\ Next1(e) # e /\ Before(e) \in Epoch
  BY Next1Is, BeforeIs, ConstantsAssumption DEF Epoch, ConstantsOK
<1>2. ASSUME NEW e \in Epoch
      PROVE  /\ Next1(Next1(e)) # e
             /\ Before(Next1(e)) = e /\ Next1(Before(e)) = e
  BY <1>1, Next1Is, BeforeIs, ConstantsAssumption DEF Epoch, ConstantsOK
<1>3. ASSUME NEW e \in Epoch, NEW f \in Epoch, Next1(e) = Next1(f)
      PROVE  e = f
  BY <1>3, Next1Is, ConstantsAssumption DEF Epoch, ConstantsOK
<1>4. QED
  BY <1>1, <1>2, <1>3

-----------------------------------------------------------------------------
(* What the barriers used by WorldRun ask for, with Next1.                 *)

LEMMA PoolMet ==
  ASSUME NEW p, NEW t
  PROVE  PoolBarrier(p)!EveryoneBegan(t)
           <=> /\ tbegan[p][t]
               /\ \A u \in Threads : \/ tepoch[p][u] = tepoch[p][t] /\ tbegan[p][u]
                                     \/ tepoch[p][u] = Next1(tepoch[p][t])
BY DEF PoolBarrier!EveryoneBegan, PoolBarrier!After, Next1

LEMMA WorkersAllMet ==
  ASSUME NEW p, NEW t
  PROVE  WorkerBarrier(p)!EveryoneBegan(t)
           <=> /\ wbegan[p][t]
               /\ \A u \in Workers : \/ wepoch[p][u] = wepoch[p][t] /\ wbegan[p][u]
                                     \/ wepoch[p][u] = Next1(wepoch[p][t])
BY DEF WorkerBarrier!EveryoneBegan, WorkerBarrier!After, Next1

LEMMA ProcsMet ==
  ASSUME NEW p
  PROVE  GasnetBarrier!End(p)
           <=> /\ gbegan[p]
               /\ \A q \in Procs : \/ gepoch[q] = gepoch[p] /\ gbegan[q]
                                   \/ gepoch[q] = Next1(gepoch[p])
               /\ gepoch' = [gepoch EXCEPT ![p] = Next1(@)]
               /\ gbegan' = [gbegan EXCEPT ![p] = FALSE]
BY DEF GasnetBarrier!End, GasnetBarrier!EveryoneBegan, GasnetBarrier!After, Next1

-----------------------------------------------------------------------------
(* Types                                                                   *)

InBarrierStages == {"wbar", "ask", "spin"}
Working == InBarrierStages \cup {"user", "leave", "tbegin"}
InJob == Working \cup {"tbar"}
MasterInJob == {"pump", "tbegin", "tbar"}
MasterStages == MasterInJob \cup {"main", "exited"}
WorkerStages == InJob \cup {"lock", "waiting", "woken", "exited"}

TypeOK ==
  /\ at \in [Procs -> [Threads -> MasterStages \cup WorkerStages]]
  /\ \A p \in Procs : /\ at[p][0] \in MasterStages
                      /\ \A t \in Workers : at[p][t] \in WorkerStages
  /\ calls \in [Procs -> [Workers -> Nat]]
  /\ wepoch \in [Procs -> [Workers -> Epoch]] /\ wbegan \in [Procs -> [Workers -> BOOLEAN]]
  /\ phase \in [Procs -> [e : Epoch, bits : {"done", "asked", "notified"}]]
  /\ gepoch \in [Procs -> Epoch] /\ gbegan \in [Procs -> BOOLEAN]
  /\ leave_pump \in [Procs -> BOOLEAN]
  /\ tepoch \in [Procs -> [Threads -> Epoch]] /\ tbegan \in [Procs -> [Threads -> BOOLEAN]]
  /\ run_epoch \in [Procs -> Epoch] /\ run_epoch_prev \in [Procs -> [Workers -> Epoch]]
  /\ shutdown \in [Procs -> BOOLEAN]
  /\ runs \in [Procs -> Nat] /\ ran \in [Procs -> [Workers -> Nat]]
  /\ spurious \in Nat /\ stray \in [Procs -> BOOLEAN]

LEMMA ThreadFacts == 0 \in Threads /\ Workers \subseteq Threads /\ 0 \notin Workers
                     /\ Threads \ {0} = Workers /\ 1 \in Workers
BY ConstantsAssumption DEF Threads, Workers, ConstantsOK

LEMMA TypeInit == Init => TypeOK
BY ThreadFacts, ConstantsAssumption
   DEF Init, TypeOK, ConstantsOK, Epoch, Threads, Workers, MasterStages, WorkerStages, InJob,
       Working, InBarrierStages, MasterInJob
(* A thread goes on, and perhaps a waiting one is woken.                   *)
LEMMA StageTypes ==
  ASSUME TypeOK, NEW p \in Procs, NEW t \in Threads, NEW b,
         b \in (IF t = 0 THEN MasterStages ELSE WorkerStages),
         at' = [at EXCEPT ![p][t] = b]
           \/ \E u \in Waiting(p) : at' = [at EXCEPT ![p][t] = b, ![p][u] = "woken"]
  PROVE  /\ at' \in [Procs -> [Threads -> MasterStages \cup WorkerStages]]
         /\ \A q \in Procs : /\ at'[q][0] \in MasterStages
                             /\ \A u \in Workers : at'[q][u] \in WorkerStages
<1>1. CASE at' = [at EXCEPT ![p][t] = b]
  BY <1>1, ThreadFacts DEF TypeOK
<1>2. ASSUME NEW u \in Waiting(p), at' = [at EXCEPT ![p][t] = b, ![p][u] = "woken"]
      PROVE  /\ at' \in [Procs -> [Threads -> MasterStages \cup WorkerStages]]
             /\ \A q \in Procs : /\ at'[q][0] \in MasterStages
                                 /\ \A v \in Workers : at'[q][v] \in WorkerStages
  <2>1. u \in Workers /\ u \in Threads /\ u # 0 /\ "woken" \in WorkerStages
    BY ThreadFacts DEF Waiting, WorkerStages
  <2>2. \A q \in Procs, v \in Threads :
          at'[q][v] = IF q = p /\ v = u THEN "woken" ELSE IF q = p /\ v = t THEN b ELSE at[q][v]
    BY <1>2, <2>1 DEF TypeOK
  <2>3. at' \in [Procs -> [Threads -> MasterStages \cup WorkerStages]]
    BY <1>2, <2>1 DEF TypeOK
  <2>4. QED
    BY <2>1, <2>2, <2>3, ThreadFacts DEF TypeOK
<1>3. QED
  BY <1>1, <1>2

LEMMA TypeStep ==
  ASSUME TypeOK, NEW p \in Procs, NEW t \in Threads, ThreadStep(p, t)
  PROVE  TypeOK'
<1> USE DEF TypeOK, strayVars
<1>e. /\ \A e \in Epoch : Next1(e) \in Epoch
      /\ 0 \in Epoch
  BY EpochFacts, ConstantsAssumption DEF Epoch, ConstantsOK
<1>s. /\ MasterStages = {"pump", "tbegin", "tbar", "main", "exited"}
      /\ WorkerStages = {"wbar", "ask", "spin", "user", "leave", "tbegin", "tbar",
                         "lock", "waiting", "woken", "exited"}
  BY DEF MasterStages, MasterInJob, WorkerStages, InJob, Working, InBarrierStages
<1>m. ASSUME NEW a, NEW b, Move(p, t, a, b), b \in (IF t = 0 THEN MasterStages ELSE WorkerStages)
      PROVE  /\ at' \in [Procs -> [Threads -> MasterStages \cup WorkerStages]]
             /\ \A q \in Procs : /\ at'[q][0] \in MasterStages
                                 /\ \A u \in Workers : at'[q][u] \in WorkerStages
  BY <1>m, StageTypes DEF Move
<1>1. CASE PoolBarrierBegin(p, t)
  <2>1. "tbar" \in MasterStages /\ "tbar" \in WorkerStages
    BY <1>s
  <2>2. QED
    BY <1>1, <1>m, <2>1 DEF PoolBarrierBegin, barrierVars, poolVars
<1>2. CASE PoolBarrierEnd(p, t)
  <2>1. (IF t = 0 THEN "main" ELSE "lock") \in (IF t = 0 THEN MasterStages ELSE WorkerStages)
    BY <1>s
  <2>2. QED
    BY <1>2, <1>m, <1>e, <2>1 DEF PoolBarrierEnd, barrierVars, poolVars
<1>3. CASE t = 0 /\ MasterStep(p)
  <2>1. CASE Notify(p)
    BY <1>3, <2>1, ProcsMet
       DEF Notify, GasnetBarrier!Begin, threadBarrierVars, poolVars
  <2>2. CASE TryBarrier(p)
    <3>2. phase' \in [Procs -> [e : Epoch, bits : {"done", "asked", "notified"}]]
      BY <2>2 DEF TryBarrier
    <3>3. gepoch' \in [Procs -> Epoch] /\ gbegan' \in [Procs -> BOOLEAN]
      <4>1. gepoch' = [gepoch EXCEPT ![p] = Next1(@)] /\ gbegan' = [gbegan EXCEPT ![p] = FALSE]
        BY <2>2, ProcsMet DEF TryBarrier, EveryProcess
      <4>2. QED
        BY <4>1, <1>e
    <3>4. QED
      BY <2>2, <3>2, <3>3 DEF TryBarrier, threadBarrierVars, poolVars
  <2>3. CASE MasterLeaves(p)
    <3>1. "tbegin" \in MasterStages
      BY <1>s
    <3>2. QED
      BY <1>3, <2>3, <1>m, <3>1 DEF MasterLeaves, barrierVars, threadBarrierVars, poolVars
  <2>4. CASE Run(p)
    <3>1. "pump" \in MasterStages
      BY <1>s
    <3>2. /\ at' \in [Procs -> [Threads -> MasterStages \cup WorkerStages]]
          /\ \A q \in Procs : /\ at'[q][0] \in MasterStages
                              /\ \A u \in Workers : at'[q][u] \in WorkerStages
      BY <1>3, <2>4, <3>1, StageTypes DEF Run, SignalFrom
    <3>3. run_epoch' \in [Procs -> Epoch] /\ runs' \in [Procs -> Nat]
      BY <2>4, <1>e DEF Run
    <3>4. QED
      BY <2>4, <3>2, <3>3 DEF Run, barrierVars, threadBarrierVars
  <2>5. CASE MainExited(p)
    <3>1. "exited" \in MasterStages
      BY <1>s
    <3>2. /\ at' \in [Procs -> [Threads -> MasterStages \cup WorkerStages]]
          /\ \A q \in Procs : /\ at'[q][0] \in MasterStages
                              /\ \A u \in Workers : at'[q][u] \in WorkerStages
      BY <1>3, <2>5, <3>1, StageTypes DEF MainExited, SignalFrom
    <3>3. QED
      BY <2>5, <3>2 DEF MainExited, barrierVars, threadBarrierVars
  <2>6. QED
    BY <1>3, <2>1, <2>2, <2>3, <2>4, <2>5 DEF MasterStep
<1>4. CASE t # 0 /\ WorkerStep(p, t)
  <2>0. t \in Workers
    BY <1>4, ThreadFacts
  <2>1. CASE BarrierBegin(p, t)
    <3>1. "wbar" \in WorkerStages
      BY <1>s
    <3>2. QED
      BY <1>4, <2>0, <2>1, <1>m, <3>1 DEF BarrierBegin, threadBarrierVars, poolVars
  <2>2. CASE WorkersMet(p, t)
    <3>1. (IF t = 1 THEN "ask" ELSE "spin") \in WorkerStages
      BY <1>s
    <3>2. QED
      BY <1>4, <2>0, <2>2, <1>m, <1>e, <3>1 DEF WorkersMet, threadBarrierVars, poolVars
  <2>3. CASE t = 1 /\ AskMaster(p)
    <3>1. "spin" \in WorkerStages
      BY <1>s
    <3>2. QED
      BY <1>4, <2>0, <2>3, <1>m, <3>1 DEF AskMaster, threadBarrierVars, poolVars
  <2>4. CASE BarrierEnd(p, t)
    <3>1. (IF calls[p][t] <= Barriers THEN "user" ELSE IF t = 1 THEN "leave" ELSE "tbegin")
            \in WorkerStages
      BY <1>s
    <3>2. QED
      BY <1>4, <2>0, <2>4, <1>m, <3>1
         DEF BarrierEnd, barrierVars, threadBarrierVars, poolVars
  <2>5. CASE t = 1 /\ LetMasterLeave(p)
    <3>1. "tbegin" \in WorkerStages
      BY <1>s
    <3>2. QED
      BY <1>4, <2>0, <2>5, <1>m, <3>1
         DEF LetMasterLeave, barrierVars, threadBarrierVars, poolVars
  <2>6. CASE Wait(p, t)
    <3>1. "waiting" \in WorkerStages
      BY <1>s
    <3>2. QED
      BY <1>4, <2>0, <2>6, <1>m, <3>1
         DEF Wait, barrierVars, threadBarrierVars, poolVars
  <2>7. CASE GoOn(p, t)
    <3>1. (IF shutdown[p] THEN "exited" ELSE "user") \in WorkerStages
      BY <1>s
    <3>2. /\ at' \in [Procs -> [Threads -> MasterStages \cup WorkerStages]]
          /\ \A q \in Procs : /\ at'[q][0] \in MasterStages
                              /\ \A u \in Workers : at'[q][u] \in WorkerStages
      BY <1>4, <2>7, <3>1, StageTypes DEF GoOn, PassSignal, SignalFrom
    <3>3. ran' \in [Procs -> [Workers -> Nat]] /\ calls' \in [Procs -> [Workers -> Nat]]
      <4>1. ran' = ran \/ ran' = [ran EXCEPT ![p][t] = @ + 1]
        BY <2>7 DEF GoOn
      <4>2. QED
        BY <2>0, <2>7, <4>1 DEF GoOn
    <3>4. run_epoch_prev' \in [Procs -> [Workers -> Epoch]]
      BY <2>0, <2>7 DEF GoOn, Seen
    <3>5. stray' \in [Procs -> BOOLEAN]
      BY <2>7 DEF GoOn, ToldAlready
    <3>6. QED
      BY <2>7, <3>2, <3>3, <3>4, <3>5 DEF GoOn, threadBarrierVars
  <2>8. QED
    BY <1>4, <2>1, <2>2, <2>3, <2>4, <2>5, <2>6, <2>7 DEF WorkerStep
<1>5. QED
  BY <1>1, <1>2, <1>3, <1>4 DEF ThreadStep

(* A return without a signal: one waiting worker moves, and nothing else   *)
(* that a thread can see.                                                  *)
LEMMA SpuriousMoves ==
  ASSUME TypeOK, NEW p \in Procs, NEW t \in Workers, SpuriousReturn(p, t)
  PROVE  /\ at[p][t] = "waiting" /\ at'[p][t] = "woken" /\ at'[p][0] = at[p][0]
         /\ \A q \in Procs, u \in Threads : q # p \/ u # t => at'[q][u] = at[q][u]
         /\ \A q \in Procs : q # p => at'[q] = at[q]
         /\ UNCHANGED <<wepoch, wbegan, phase, gepoch, gbegan, tepoch, tbegan,
                       run_epoch, run_epoch_prev, shutdown, runs, ran, stray>>
BY ThreadFacts
   DEF SpuriousReturn, Move, TypeOK, barrierVars, threadBarrierVars, poolVars

LEMMA TypeSpurious ==
  ASSUME TypeOK, NEW p \in Procs, NEW t \in Workers, SpuriousReturn(p, t)
  PROVE  TypeOK'
<1>1. t \in Threads /\ t # 0 /\ "woken" \in WorkerStages
  BY ThreadFacts DEF WorkerStages
<1>2. /\ at' \in [Procs -> [Threads -> MasterStages \cup WorkerStages]]
      /\ \A q \in Procs : /\ at'[q][0] \in MasterStages
                          /\ \A u \in Workers : at'[q][u] \in WorkerStages
  BY <1>1, StageTypes DEF SpuriousReturn, Move
<1>3. QED
  BY <1>2 DEF SpuriousReturn, TypeOK, barrierVars, threadBarrierVars, poolVars

-----------------------------------------------------------------------------
(* The pool of threads of one process                                      *)

Joined(p) == at[p][0] \in MasterInJob
UpToDate(p, t) == run_epoch_prev[p][t] = run_epoch[p] /\ ran[p][t] = runs[p]
OneBehind(p, t) == Next1(run_epoch_prev[p][t]) = run_epoch[p] /\ ran[p][t] + 1 = runs[p]

(* A worker executes the job of this run.                                  *)
Running(p, t) ==
  /\ Joined(p) /\ at[p][t] \in InJob
  /\ tepoch[p][t] = tepoch[p][0] /\ UpToDate(p, t)
(* It has yet to end the barrier that the master has left.                 *)
Late(p, t) ==
  /\ at[p][t] = "tbar" /\ Next1(tepoch[p][t]) = tepoch[p][0]
  /\ IF Joined(p) THEN OneBehind(p, t) ELSE UpToDate(p, t)
(* The master has called run again, and the worker has yet to join it.     *)
Called(p, t) ==
  /\ Joined(p) /\ at[p][t] \in {"lock", "waiting", "woken"}
  /\ tepoch[p][t] = tepoch[p][0] /\ OneBehind(p, t)
(* It waits for news, and there is none: no signal is on its way to it.    *)
Idle(p, t) ==
  at[p][t] \in {"lock", "waiting"} \/ (at[p][t] = "woken" /\ spurious > 0)
(* It has ended the barrier that the master is still in.                   *)
Done(p, t) ==
  /\ at[p][0] = "tbar" /\ Idle(p, t)
  /\ tepoch[p][t] = Next1(tepoch[p][0]) /\ UpToDate(p, t)
(* Both have left the barrier, and the master is in the program's main.    *)
Resting(p, t) ==
  /\ ~ Joined(p) /\ tepoch[p][t] = tepoch[p][0] /\ ran[p][t] = runs[p]
  /\ IF shutdown[p] THEN at[p][t] \in {"lock", "waiting", "woken", "exited"}
     ELSE Idle(p, t) /\ run_epoch_prev[p][t] = run_epoch[p]

WorkerOk(p, t) ==
  Running(p, t) \/ Late(p, t) \/ Called(p, t) \/ Done(p, t) \/ Resting(p, t)

(* As long as no worker of the process is stray.                           *)
PoolInv(p) ==
  /\ \A t \in Threads : tbegan[p][t] <=> at[p][t] = "tbar"
  /\ shutdown[p] <=> at[p][0] = "exited"
  /\ \A t \in Workers : WorkerOk(p, t)
  /\ (\E t \in Workers : Done(p, t))
       => \A u \in Workers : Done(p, u) \/ (Running(p, u) /\ at[p][u] = "tbar")

(* A step of p leaves the threads of the other processes alone.            *)
LEMMA OtherProcesses ==
  ASSUME TypeOK, NEW p \in Procs, NEW t \in Threads, ThreadStep(p, t),
         NEW q \in Procs, q # p
  PROVE  /\ at'[q] = at[q] /\ tepoch'[q] = tepoch[q] /\ tbegan'[q] = tbegan[q]
         /\ run_epoch'[q] = run_epoch[q] /\ run_epoch_prev'[q] = run_epoch_prev[q]
         /\ shutdown'[q] = shutdown[q] /\ runs'[q] = runs[q] /\ ran'[q] = ran[q]
         /\ wepoch'[q] = wepoch[q] /\ wbegan'[q] = wbegan[q] /\ phase'[q] = phase[q]
         /\ gepoch'[q] = gepoch[q] /\ gbegan'[q] = gbegan[q] /\ stray'[q] = stray[q]
         /\ spurious' = spurious
<1> USE DEF TypeOK, barrierVars, poolVars, threadBarrierVars, strayVars
<1>1. CASE PoolBarrierBegin(p, t)
  BY <1>1 DEF PoolBarrierBegin, Move
<1>2. CASE PoolBarrierEnd(p, t)
  BY <1>2 DEF PoolBarrierEnd, Move
<1>3. CASE MasterStep(p)
  <2>1. CASE Notify(p)
    BY <2>1 DEF Notify, GasnetBarrier!Begin
  <2>2. CASE TryBarrier(p)
    BY <2>2, ProcsMet DEF TryBarrier, EveryProcess
  <2>3. CASE MasterLeaves(p)
    BY <2>3 DEF MasterLeaves, Move
  <2>4. CASE Run(p)
    BY <2>4 DEF Run, SignalFrom
  <2>5. CASE MainExited(p)
    BY <2>5 DEF MainExited, SignalFrom
  <2>6. QED
    BY <1>3, <2>1, <2>2, <2>3, <2>4, <2>5 DEF MasterStep
<1>4. CASE WorkerStep(p, t)
  <2>1. CASE BarrierBegin(p, t)
    BY <2>1 DEF BarrierBegin, Move
  <2>2. CASE WorkersMet(p, t)
    BY <2>2 DEF WorkersMet, Move
  <2>3. CASE AskMaster(p)
    BY <2>3 DEF AskMaster, Move
  <2>4. CASE BarrierEnd(p, t)
    BY <2>4 DEF BarrierEnd, Move
  <2>5. CASE LetMasterLeave(p)
    BY <2>5 DEF LetMasterLeave, Move
  <2>6. CASE Wait(p, t)
    BY <2>6 DEF Wait, Move
  <2>7. CASE GoOn(p, t)
    <3>1. at'[q] = at[q] /\ run_epoch_prev'[q] = run_epoch_prev[q]
      BY <2>7 DEF GoOn, PassSignal, SignalFrom
    <3>2. ran'[q] = ran[q] /\ stray'[q] = stray[q] /\ spurious' = spurious
      BY <2>7 DEF GoOn
    <3>3. QED
      BY <2>7, <3>1, <3>2 DEF GoOn
  <2>8. QED
    BY <1>4, <2>1, <2>2, <2>3, <2>4, <2>5, <2>6, <2>7 DEF WorkerStep
<1>5. QED
  BY <1>1, <1>2, <1>3, <1>4 DEF ThreadStep

(* Once stray, a process remains so.                                       *)
LEMMA StrayForGood ==
  ASSUME TypeOK, NEW p \in Procs, NEW t \in Threads, ThreadStep(p, t), ~ stray'[p]
  PROVE  ~ stray[p]
<1> USE DEF strayVars
<1>1. CASE PoolBarrierBegin(p, t) \/ PoolBarrierEnd(p, t)
  BY <1>1 DEF PoolBarrierBegin, PoolBarrierEnd
<1>2. CASE MasterStep(p)
  BY <1>2 DEF MasterStep, Notify, TryBarrier, MasterLeaves, Run, MainExited
<1>3. CASE WorkerStep(p, t)
  <2>1. CASE GoOn(p, t)
    BY <2>1 DEF GoOn, TypeOK
  <2>2. CASE ~ GoOn(p, t)
    BY <1>3, <2>2
       DEF WorkerStep, BarrierBegin, WorkersMet, AskMaster, BarrierEnd, LetMasterLeave, Wait
  <2>3. QED
    BY <2>1, <2>2
<1>4. QED
  BY <1>1, <1>2, <1>3 DEF ThreadStep

LEMMA PoolOther ==
  ASSUME TypeOK, NEW p \in Procs, NEW t \in Threads, ThreadStep(p, t),
         NEW q \in Procs, q # p, PoolInv(q)
  PROVE  PoolInv(q)'
BY OtherProcesses
   DEF PoolInv, WorkerOk, Joined, UpToDate, OneBehind, Running, Late, Called, Idle, Done, Resting

LEMMA PoolInit == Init => \A p \in Procs : PoolInv(p)
BY ThreadFacts
   DEF Init, PoolInv, WorkerOk, Joined, UpToDate, Running, Idle, Done, MasterInJob, InJob, Working,
       MasterStages

(* Inside the job a worker only changes its place.                         *)
LEMMA PoolWork ==
  ASSUME TypeOK, NEW p \in Procs, PoolInv(p), NEW t \in Workers,
         NEW a \in Working, NEW b \in Working, Move(p, t, a, b),
         UNCHANGED <<threadBarrierVars, poolVars, ran, strayVars>>
  PROVE  PoolInv(p)'
<1> USE DEF threadBarrierVars, poolVars, strayVars
<1>1. /\ a \in InJob /\ b \in InJob /\ a # "tbar" /\ b # "tbar"
      /\ {"lock", "waiting", "woken", "exited"} \cap Working = {}
  BY DEF InJob, Working, InBarrierStages
<1>2. /\ at[p][t] = a /\ at'[p][t] = b
      /\ \A u \in Threads : u # t => at'[p][u] = at[p][u]
      /\ t # 0 /\ 0 \in Threads /\ t \in Threads
  BY ThreadFacts DEF TypeOK, Move
<1>3. Running(p, t)
  BY <1>1, <1>2 DEF PoolInv, WorkerOk, Late, Called, Idle, Done, Resting
<1>4. \A u \in Workers : u # t => /\ at'[p][u] = at[p][u]
  BY <1>2, ThreadFacts
<1>5. at'[p][0] = at[p][0]
  BY <1>2
<1>6. \A u \in Workers : WorkerOk(p, u)'
  <2>1. Running(p, t)'
    BY <1>1, <1>2, <1>3, <1>5 DEF Running, Joined, UpToDate
  <2>2. ASSUME NEW u \in Workers, u # t
        PROVE  WorkerOk(p, u)'
    BY <1>4, <1>5, <2>2
       DEF PoolInv, WorkerOk, Running, Late, Called, Idle, Done, Resting, Joined, UpToDate, OneBehind
  <2>3. QED
    BY <2>1, <2>2 DEF WorkerOk
<1>7. ~ \E u \in Workers : Done(p, u)
  BY <1>1, <1>2 DEF PoolInv, Idle, Done
<1>8. ~ \E u \in Workers : Done(p, u)'
  BY <1>1, <1>2, <1>4, <1>5, <1>7 DEF Idle, Done, UpToDate
<1>9. QED
  BY <1>1, <1>2, <1>5, <1>6, <1>8 DEF PoolInv

LEMMA PoolBegin ==
  ASSUME TypeOK, NEW p \in Procs, PoolInv(p), NEW t \in Threads, PoolBarrierBegin(p, t)
  PROVE  PoolInv(p)'
<1> USE DEF poolVars, strayVars
<1>1. /\ at[p][t] = "tbegin" /\ at'[p][t] = "tbar"
      /\ \A u \in Threads : u # t => at'[p][u] = at[p][u]
      /\ \A u \in Threads : tbegan'[p][u] = IF u = t THEN TRUE ELSE tbegan[p][u]
      /\ tepoch' = tepoch /\ ran' = ran
      /\ UNCHANGED <<poolVars, strayVars>>
  BY DEF TypeOK, PoolBarrierBegin, Move
<1>2. /\ {"tbegin", "tbar"} \subseteq MasterInJob \cap InJob
      /\ {"lock", "waiting", "woken", "exited"} \cap InJob = {}
      /\ "main" \notin MasterInJob /\ "exited" \notin MasterInJob
  BY DEF InJob, Working, InBarrierStages, MasterInJob
<1>3. ~ \E u \in Workers : Done(p, u)
  BY <1>1, ThreadFacts DEF PoolInv, Idle, Done
<1>4. Joined(p)' <=> Joined(p)
  BY <1>1, <1>2, ThreadFacts DEF Joined
<1>5. ASSUME NEW u \in Workers, u # t
      PROVE  WorkerOk(p, u)' /\ ~ Done(p, u)'
  <2>1. at'[p][u] = at[p][u]
    BY <1>1, <1>5, ThreadFacts
  <2>2. Running(p, u) \/ Late(p, u) \/ Called(p, u) \/ Resting(p, u)
    BY <1>3 DEF PoolInv, WorkerOk
  <2>3. ~ Done(p, u)'
    <3>1. SUFFICES ASSUME Done(p, u)' PROVE FALSE
      OBVIOUS
    <3>2. at[p][u] \in {"lock", "waiting", "woken"} /\ tepoch[p][u] = Next1(tepoch[p][0])
      BY <1>1, <2>1, <3>1 DEF Idle, Done
    <3>3. at'[p][0] = "tbar"
      BY <3>1 DEF Done
    <3>4. Joined(p)
      BY <1>2, <1>4, <3>3 DEF Joined
    <3>5. tepoch[p][u] = tepoch[p][0]
      BY <1>2, <2>2, <3>2, <3>4 DEF Running, Late, Called, Idle, Resting
    <3>6. tepoch[p][0] \in Epoch
      BY ThreadFacts DEF TypeOK
    <3>7. QED
      BY <3>2, <3>5, <3>6, EpochFacts
  <2>4. WorkerOk(p, u)'
    BY <1>1, <1>4, <2>1, <2>2
       DEF WorkerOk, Running, Late, Called, Idle, Resting, UpToDate, OneBehind
  <2>5. QED
    BY <2>3, <2>4
<1>6. ASSUME t \in Workers
      PROVE  Running(p, t)' /\ ~ Done(p, t)'
  <2>1. Running(p, t)
    BY <1>1, <1>3, <1>6 DEF PoolInv, WorkerOk, Late, Called, Idle, Resting
  <2>2. QED
    BY <1>1, <1>2, <1>4, <2>1 DEF Running, Idle, Done, UpToDate
<1>7. shutdown'[p] <=> at'[p][0] = "exited"
  BY <1>1, ThreadFacts DEF PoolInv
<1>8. QED
  BY <1>1, <1>5, <1>6, <1>7 DEF PoolInv, WorkerOk

(* The master ends the barrier: nobody is behind it.                       *)
LEMMA PoolMasterEnd ==
  ASSUME TypeOK, NEW p \in Procs, PoolInv(p), PoolBarrierEnd(p, 0)
  PROVE  PoolInv(p)'
<1> USE DEF poolVars, strayVars
<1>1. /\ at[p][0] = "tbar" /\ at'[p][0] = "main"
      /\ \A u \in Threads : u # 0 => at'[p][u] = at[p][u]
      /\ \A u \in Threads : tbegan'[p][u] = IF u = 0 THEN FALSE ELSE tbegan[p][u]
      /\ tepoch'[p][0] = Next1(tepoch[p][0])
      /\ \A u \in Threads : u # 0 => tepoch'[p][u] = tepoch[p][u]
      /\ UNCHANGED <<poolVars, ran, strayVars>>
  BY ThreadFacts DEF TypeOK, PoolBarrierEnd, Move
<1>2. \A u \in Threads : \/ tepoch[p][u] = tepoch[p][0] /\ tbegan[p][u]
                         \/ tepoch[p][u] = Next1(tepoch[p][0])
  BY PoolMet DEF PoolBarrierEnd
<1>3. /\ "tbar" \in MasterInJob /\ "main" \notin MasterInJob
  BY DEF MasterInJob
<1>4. Joined(p) /\ ~ Joined(p)' /\ ~ shutdown[p] /\ ~ shutdown'[p]
  BY <1>1, <1>3 DEF Joined, PoolInv
<1>5. ASSUME NEW u \in Workers
      PROVE  WorkerOk(p, u)' /\ ~ Done(p, u)'
  <2>1. at'[p][u] = at[p][u] /\ tepoch'[p][u] = tepoch[p][u] /\ u \in Threads
    BY <1>1, ThreadFacts
  <2>2. CASE Running(p, u) /\ at[p][u] = "tbar"
    BY <1>1, <1>4, <2>1, <2>2 DEF Running, WorkerOk, Late, Idle, Done, UpToDate
  <2>3. CASE Done(p, u)
    BY <1>1, <1>4, <2>1, <2>3 DEF Idle, Done, WorkerOk, Resting, UpToDate
  <2>4. tepoch[p][u] \in Epoch /\ tepoch[p][0] \in Epoch
    BY <2>1, ThreadFacts DEF TypeOK
  <2>5. ~ Late(p, u)
    BY <1>2, <2>1, <2>4, EpochFacts DEF Late
  <2>6. ~ Called(p, u)
    BY <1>2, <2>1, <2>4, EpochFacts DEF Called, PoolInv
  <2>7. Running(p, u) => at[p][u] = "tbar"
    BY <1>2, <2>1, <2>4, EpochFacts DEF Running, PoolInv
  <2>8. ~ Resting(p, u)
    BY <1>4 DEF Resting
  <2>9. QED
    BY <2>2, <2>3, <2>5, <2>6, <2>7, <2>8 DEF PoolInv, WorkerOk
<1>6. QED
  BY <1>1, <1>4, <1>5 DEF PoolInv

(* A worker ends it: the one that the master has left, or the one that the *)
(* master is in.                                                           *)
LEMMA PoolWorkerEnd ==
  ASSUME TypeOK, NEW p \in Procs, PoolInv(p), NEW t \in Workers, PoolBarrierEnd(p, t)
  PROVE  PoolInv(p)'
<1> USE DEF poolVars, strayVars
<1>0. t \in Threads /\ 0 \in Threads /\ t # 0
  BY ThreadFacts
<1>1. /\ at[p][t] = "tbar" /\ at'[p][t] = "lock"
      /\ \A u \in Threads : u # t => at'[p][u] = at[p][u]
      /\ \A u \in Threads : tbegan'[p][u] = IF u = t THEN FALSE ELSE tbegan[p][u]
      /\ tepoch'[p][t] = Next1(tepoch[p][t])
      /\ \A u \in Threads : u # t => tepoch'[p][u] = tepoch[p][u]
      /\ UNCHANGED <<poolVars, ran, strayVars>>
  BY <1>0 DEF TypeOK, PoolBarrierEnd, Move
<1>2. \A u \in Threads : \/ tepoch[p][u] = tepoch[p][t] /\ tbegan[p][u]
                         \/ tepoch[p][u] = Next1(tepoch[p][t])
  BY PoolMet DEF PoolBarrierEnd
<1>3. /\ \A u \in Workers : tepoch[p][u] \in Epoch
      /\ tepoch[p][0] \in Epoch
  BY ThreadFacts DEF TypeOK
<1>4. Joined(p)' <=> Joined(p)
  BY <1>0, <1>1 DEF Joined
<1>5. \A u \in Workers : u # t => /\ at'[p][u] = at[p][u] /\ tepoch'[p][u] = tepoch[p][u]
                                  /\ (WorkerOk(p, u) => WorkerOk(p, u)')
                                  /\ (Done(p, u)' <=> Done(p, u))
                                  /\ (Running(p, u) => Running(p, u)')
  <2>1. SUFFICES ASSUME NEW u \in Workers, u # t
                 PROVE  /\ at'[p][u] = at[p][u] /\ tepoch'[p][u] = tepoch[p][u]
                        /\ (WorkerOk(p, u) => WorkerOk(p, u)')
                        /\ (Done(p, u)' <=> Done(p, u))
                        /\ (Running(p, u) => Running(p, u)')
    OBVIOUS
  <2>2. /\ at'[p][u] = at[p][u] /\ tepoch'[p][u] = tepoch[p][u]
        /\ at'[p][0] = at[p][0] /\ tepoch'[p][0] = tepoch[p][0]
    BY <1>0, <1>1, <2>1, ThreadFacts
  <2>3. QED
    BY <1>1, <1>4, <2>2
       DEF WorkerOk, Running, Late, Called, Idle, Done, Resting, UpToDate, OneBehind
<1>6. at'[p][0] = at[p][0] /\ tepoch'[p][0] = tepoch[p][0]
  BY <1>0, <1>1
<1>7. CASE Late(p, t)
  <2>1. ~ \E u \in Workers : Done(p, u)
    BY <1>1, <1>3, <1>7, EpochFacts DEF PoolInv, Late, Idle, Done, Running
  <2>2. Called(p, t)' \/ Resting(p, t)'
    BY <1>1, <1>4, <1>6, <1>7 DEF Late, Called, Idle, Resting, UpToDate, OneBehind
  <2>3. ~ Done(p, t)'
    BY <1>1, <1>3, <1>6, <1>7, EpochFacts DEF Late, Idle, Done
  <2>4. QED
    BY <1>0, <1>1, <1>5, <1>6, <2>1, <2>2, <2>3 DEF PoolInv, WorkerOk
<1>8. CASE Running(p, t)
  <2>1. at[p][0] = "tbar"
    BY <1>0, <1>2, <1>3, <1>8, EpochFacts DEF Running, PoolInv
  <2>2. Done(p, t)'
    BY <1>1, <1>6, <1>8, <2>1 DEF Running, Idle, Done, UpToDate
  <2>3. Joined(p)
    BY <1>8 DEF Running
  <2>4. ASSUME NEW u \in Workers, u # t
        PROVE  Done(p, u)' \/ (Running(p, u)' /\ at'[p][u] = "tbar")
    <3>1. \/ tepoch[p][u] = tepoch[p][0] /\ tbegan[p][u]
          \/ tepoch[p][u] = Next1(tepoch[p][0])
      BY <1>2, <1>8, ThreadFacts DEF Running
    <3>2. ~ Late(p, u) /\ ~ Resting(p, u) /\ ~ Called(p, u)
      BY <1>3, <2>3, <3>1, ThreadFacts, EpochFacts DEF Late, Called, Idle, Resting, PoolInv
    <3>3. CASE Running(p, u)
      BY <1>3, <1>5, <2>4, <3>1, <3>3, ThreadFacts, EpochFacts DEF Running, PoolInv
    <3>4. CASE Done(p, u)
      BY <1>5, <2>4, <3>4
    <3>5. QED
      BY <3>2, <3>3, <3>4 DEF PoolInv, WorkerOk
  <2>5. QED
    BY <1>0, <1>1, <1>5, <1>6, <2>2, <2>4 DEF PoolInv, WorkerOk
<1>9. QED
  BY <1>1, <1>7, <1>8 DEF PoolInv, WorkerOk, Called, Idle, Done, Resting

LEMMA PoolWait ==
  ASSUME TypeOK, NEW p \in Procs, PoolInv(p), NEW t \in Workers, Wait(p, t)
  PROVE  PoolInv(p)'
<1> USE DEF poolVars, threadBarrierVars, strayVars
<1>0. t \in Threads /\ 0 \in Threads /\ t # 0
  BY ThreadFacts
<1>1. /\ at[p][t] = "lock" /\ at'[p][t] = "waiting"
      /\ \A u \in Threads : u # t => at'[p][u] = at[p][u]
      /\ UNCHANGED <<threadBarrierVars, poolVars, ran, strayVars>>
      /\ at'[p][0] = at[p][0]
  BY <1>0 DEF TypeOK, Wait, Move
<1>2. "lock" \notin InJob
  BY DEF InJob, Working, InBarrierStages
<1>3. ASSUME NEW u \in Workers
      PROVE  /\ WorkerOk(p, u) => WorkerOk(p, u)'
             /\ Done(p, u)' <=> Done(p, u)
             /\ Running(p, u) => Running(p, u)' /\ at'[p][u] = at[p][u]
  <2>1. CASE u # t
    <3>1. at'[p][u] = at[p][u]
      BY <1>1, <2>1, ThreadFacts
    <3>2. QED
      BY <1>1, <3>1
         DEF WorkerOk, Joined, Running, Late, Called, Idle, Done, Resting, UpToDate, OneBehind
  <2>2. CASE u = t
    BY <1>1, <1>2, <2>2
       DEF WorkerOk, Joined, Running, Late, Called, Idle, Done, Resting, UpToDate, OneBehind
  <2>3. QED
    BY <2>1, <2>2
<1>4. QED
  BY <1>0, <1>1, <1>3 DEF PoolInv

(* Whoever returns without a signal: a process keeps its invariant.        *)
LEMMA PoolSpurious ==
  ASSUME TypeOK, NEW p \in Procs, NEW t \in Workers, SpuriousReturn(p, t),
         NEW q \in Procs, PoolInv(q)
  PROVE  PoolInv(q)'
<1>1. /\ \A u \in Workers : \/ at'[q][u] = at[q][u]
                            \/ at[q][u] = "waiting" /\ at'[q][u] = "woken"
      /\ at'[q][0] = at[q][0]
      /\ UNCHANGED <<tepoch, tbegan, run_epoch, run_epoch_prev, shutdown, runs, ran>>
  BY SpuriousMoves, ThreadFacts
<1>2. spurious' > 0
  BY DEF SpuriousReturn, TypeOK
<1>3. /\ {"waiting", "woken"} \cap InJob = {} /\ "tbar" \in MasterInJob
      /\ \A u \in Threads : tepoch[q][u] \in Epoch
  BY DEF InJob, Working, InBarrierStages, MasterInJob, TypeOK
<1>4. Joined(q)' <=> Joined(q)
  BY <1>1 DEF Joined
<1>5. ASSUME NEW u \in Workers
      PROVE  /\ WorkerOk(q, u)' /\ (Done(q, u)' <=> Done(q, u))
             /\ Running(q, u) => Running(q, u)' /\ at'[q][u] = at[q][u]
  <2>1. CASE Running(q, u)
    <3>1. at'[q][u] = at[q][u] /\ Running(q, u)'
      BY <1>1, <1>3, <1>4, <2>1 DEF Running, UpToDate
    <3>2. at[q][u] \notin {"lock", "waiting", "woken"}
      BY <2>1 DEF Running, InJob, Working, InBarrierStages
    <3>3. QED
      BY <3>1, <3>2 DEF WorkerOk, Done, Idle
  <2>2. CASE Late(q, u)
    <3>1. at'[q][u] = at[q][u] /\ at[q][u] = "tbar"
      BY <1>1, <2>2 DEF Late
    <3>2. QED
      BY <1>1, <1>4, <2>2, <3>1 DEF WorkerOk, Running, Late, Done, Idle, UpToDate, OneBehind
  <2>3. CASE Called(q, u)
    <3>1. Called(q, u)'
      BY <1>1, <1>4, <2>3 DEF Called, OneBehind
    <3>2. tepoch[q][u] # Next1(tepoch[q][0])
      BY <1>3, <2>3, EpochFacts, ThreadFacts DEF Called
    <3>3. ~ Running(q, u)
      BY <2>3 DEF Called, Running, InJob, Working, InBarrierStages
    <3>4. QED
      BY <1>1, <3>1, <3>2, <3>3 DEF WorkerOk, Done
  <2>4. CASE Done(q, u)
    <3>1. Done(q, u)'
      BY <1>1, <1>2, <2>4 DEF Done, Idle, UpToDate
    <3>2. ~ Running(q, u)
      BY <2>4 DEF Done, Idle, Running, InJob, Working, InBarrierStages
    <3>3. QED
      BY <2>4, <3>1, <3>2 DEF WorkerOk
  <2>5. CASE Resting(q, u)
    <3>1. Resting(q, u)'
      BY <1>1, <1>2, <1>4, <2>5 DEF Resting, Idle
    <3>2. ~ Running(q, u) /\ at[q][0] # "tbar"
      BY <1>3, <2>5 DEF Resting, Running, Joined
    <3>3. QED
      BY <1>1, <3>1, <3>2 DEF WorkerOk, Done
  <2>6. QED
    BY <2>1, <2>2, <2>3, <2>4, <2>5 DEF PoolInv, WorkerOk
<1>6. QED
  BY <1>1, <1>5, ThreadFacts DEF PoolInv

(* A signal: one who waits for it may be woken, and nobody else moves.     *)
LEMMA Signalled ==
  ASSUME TypeOK, NEW p \in Procs, NEW t \in Threads, NEW b, SignalFrom(p, t, b)
  PROVE  /\ t # 0 => at'[p][0] = at[p][0]
         /\ at[p][t] # "waiting" => at'[p][t] = b
         /\ \A u \in Workers : u # t => \/ at'[p][u] = at[p][u]
                                        \/ at[p][u] = "waiting" /\ at'[p][u] = "woken"
<1>1. CASE at' = [at EXCEPT ![p][t] = b]
  BY <1>1, ThreadFacts DEF TypeOK
<1>2. ASSUME NEW w \in Waiting(p), at' = [at EXCEPT ![p][t] = b, ![p][w] = "woken"]
      PROVE  /\ t # 0 => at'[p][0] = at[p][0]
             /\ at[p][t] # "waiting" => at'[p][t] = b
             /\ \A u \in Workers : u # t => \/ at'[p][u] = at[p][u]
                                            \/ at[p][u] = "waiting" /\ at'[p][u] = "woken"
  <2>1. w \in Workers /\ w \in Threads /\ w # 0 /\ at[p][w] = "waiting"
    BY ThreadFacts DEF Waiting
  <2>2. \A v \in Threads :
          at'[p][v] = IF v = w THEN "woken" ELSE IF v = t THEN b ELSE at[p][v]
    BY <1>2, <2>1 DEF TypeOK
  <2>3. QED
    BY <2>1, <2>2, ThreadFacts
<1>3. QED
  BY <1>1, <1>2 DEF SignalFrom

(* A signal alone makes no worker stray: it has news for whom it wakes.    *)
LEMMA SignalIsNews ==
  ASSUME TypeOK, NEW p \in Procs, PoolInv(p), NEW t \in Workers, GoOn(p, t), spurious = 0
  PROVE  ToldAlready(p, t)
<1>1. CASE at[p][t] = "woken"
  <2>1. ~ Running(p, t) /\ ~ Late(p, t) /\ ~ Done(p, t)
    BY <1>1 DEF Running, Late, Done, Idle, InJob, Working, InBarrierStages
  <2>2. CASE Called(p, t)
    <3>1. run_epoch_prev[p][t] \in Epoch
      BY DEF TypeOK
    <3>2. QED
      BY <2>2, <3>1, EpochFacts DEF Called, OneBehind, ToldAlready
  <2>3. CASE Resting(p, t)
    BY <1>1, <2>3 DEF Resting, Idle, ToldAlready
  <2>4. QED
    BY <2>1, <2>2, <2>3 DEF PoolInv, WorkerOk
<1>2. QED
  BY <1>1 DEF GoOn

LEMMA PoolGoOn ==
  ASSUME TypeOK, NEW p \in Procs, PoolInv(p), NEW t \in Workers, GoOn(p, t), ~ stray'[p]
  PROVE  PoolInv(p)'
<1> USE DEF threadBarrierVars
<1> DEFINE b == IF shutdown[p] THEN "exited" ELSE "user"
<1>0. t \in Threads /\ 0 \in Threads /\ t # 0
  BY ThreadFacts
<1>1. /\ at[p][t] \in {"lock", "woken"}
      /\ ToldAlready(p, t)
  BY DEF GoOn, TypeOK
<1>2. /\ at'[p][0] = at[p][0] /\ at'[p][t] = b
      /\ \A u \in Workers : u # t => \/ at'[p][u] = at[p][u]
                                     \/ at[p][u] = "waiting" /\ at'[p][u] = "woken"
  BY <1>0, <1>1, Signalled DEF GoOn, PassSignal
<1>3. UNCHANGED <<tepoch, tbegan, run_epoch, shutdown, runs, spurious>>
  BY DEF GoOn
<1>4. /\ run_epoch_prev'[p][t] = run_epoch[p]
      /\ \A u \in Workers : u # t => run_epoch_prev'[p][u] = run_epoch_prev[p][u]
  BY DEF GoOn, Seen, TypeOK
<1>5. /\ ran'[p][t] = IF shutdown[p] THEN ran[p][t] ELSE ran[p][t] + 1
      /\ \A u \in Workers : u # t => ran'[p][u] = ran[p][u]
  BY DEF GoOn, TypeOK
<1>6. /\ {"lock", "waiting", "woken", "exited"} \cap InJob = {} /\ "user" \in InJob
      /\ "exited" \notin MasterInJob
  BY DEF InJob, Working, InBarrierStages, MasterInJob
<1>7. Joined(p) => ~ shutdown[p]
  BY <1>6 DEF PoolInv, Joined
<1>8. Joined(p)' <=> Joined(p)
  BY <1>2 DEF Joined
<1>9. ~ Done(p, t)
  BY <1>1, <1>6, <1>7 DEF Idle, Done, UpToDate, ToldAlready, Joined, MasterInJob
<1>10. \A u \in Workers : ~ Done(p, u)
  BY <1>1, <1>9 DEF PoolInv
<1>11. Called(p, t) \/ (Resting(p, t) /\ shutdown[p])
  BY <1>1, <1>6, <1>9 DEF PoolInv, WorkerOk, Running, Late, Idle, Resting, ToldAlready
<1>12. ASSUME NEW u \in Workers, u # t
       PROVE  WorkerOk(p, u)' /\ ~ Done(p, u)' /\ (at'[p][u] = "tbar" <=> at[p][u] = "tbar")
  <2>1. Running(p, u) \/ Late(p, u) \/ Called(p, u) \/ Resting(p, u)
    BY <1>10 DEF PoolInv, WorkerOk
  <2>2. WorkerOk(p, u)'
    <3>1. CASE at'[p][u] = at[p][u]
      BY <1>3, <1>4, <1>5, <1>8, <1>12, <2>1, <3>1
         DEF WorkerOk, Running, Late, Called, Idle, Resting, UpToDate, OneBehind
    <3>2. CASE at[p][u] = "waiting" /\ at'[p][u] = "woken"
      <4>1. Called(p, u) \/ (Resting(p, u) /\ shutdown[p])
        BY <1>6, <1>11, <2>1, <3>2 DEF Running, Late, Called, Idle, Resting
      <4>2. QED
        BY <1>3, <1>4, <1>5, <1>8, <1>12, <3>2, <4>1
           DEF WorkerOk, Called, Idle, Resting, OneBehind
    <3>3. QED
      BY <1>2, <1>12, <3>1, <3>2
  <2>3. ~ Done(p, u)'
    BY <1>2, <1>3, <1>4, <1>5, <1>10, <1>12 DEF Idle, Done, UpToDate
  <2>4. QED
    BY <1>2, <1>12, <2>2, <2>3
<1>13. WorkerOk(p, t)' /\ ~ Done(p, t)' /\ at'[p][t] # "tbar" /\ at[p][t] # "tbar"
  <2>1. ~ Done(p, t)' /\ at'[p][t] # "tbar" /\ at[p][t] # "tbar"
    BY <1>1, <1>2 DEF Idle, Done
  <2>2. CASE Called(p, t)
    <3>1. Running(p, t)'
      BY <1>2, <1>3, <1>4, <1>5, <1>6, <1>7, <1>8, <2>2 DEF Running, Called, UpToDate, OneBehind
    <3>2. QED
      BY <2>1, <3>1 DEF WorkerOk
  <2>3. CASE Resting(p, t) /\ shutdown[p]
    <3>1. Resting(p, t)'
      BY <1>2, <1>3, <1>5, <1>8, <2>3 DEF Idle, Resting
    <3>2. QED
      BY <2>1, <3>1 DEF WorkerOk
  <2>4. QED
    BY <1>11, <2>1, <2>2, <2>3
<1>14. \A u \in Threads : tbegan'[p][u] <=> at'[p][u] = "tbar"
  BY <1>2, <1>3, <1>12, <1>13, ThreadFacts DEF PoolInv
<1>15. QED
  BY <1>2, <1>3, <1>12, <1>13, <1>14 DEF PoolInv

(* The master leaves main, for the next run or for good: every worker that *)
(* is not late rests.                                                      *)
LEMMA PoolMain ==
  ASSUME TypeOK, NEW p \in Procs, PoolInv(p), Run(p) \/ MainExited(p)
  PROVE  PoolInv(p)'
<1> USE DEF threadBarrierVars
<1> DEFINE b == IF Run(p) THEN "pump" ELSE "exited"
<1>1. at[p][0] = "main" /\ SignalFrom(p, 0, b)
  <2>1. CASE Run(p)
    BY <2>1 DEF Run
  <2>2. CASE ~ Run(p)
    BY <2>2 DEF MainExited
  <2>3. QED
    BY <2>1, <2>2
<1>2. /\ at'[p][0] = b
      /\ \A u \in Workers : \/ at'[p][u] = at[p][u]
                            \/ at[p][u] = "waiting" /\ at'[p][u] = "woken"
  BY <1>1, Signalled, ThreadFacts
<1>3. /\ "pump" \in MasterInJob /\ "exited" \notin MasterInJob /\ "main" \notin MasterInJob
      /\ {"lock", "waiting", "woken"} \cap InJob = {}
  BY DEF MasterInJob, InJob, Working, InBarrierStages
<1>4. ~ Joined(p) /\ ~ shutdown[p]
  BY <1>1, <1>3 DEF Joined, PoolInv
<1>5. \A u \in Workers : Late(p, u) \/ Resting(p, u)
  BY <1>1, <1>4 DEF PoolInv, WorkerOk, Running, Called, Idle, Done
<1>6. UNCHANGED <<tepoch, tbegan, run_epoch_prev, ran, spurious>>
  BY DEF Run, MainExited, strayVars
<1>7. ASSUME NEW u \in Workers PROVE (at'[p][u] = "tbar" <=> at[p][u] = "tbar")
  BY <1>2
<1>8. \A u \in Threads : tbegan'[p][u] <=> at'[p][u] = "tbar"
  BY <1>1, <1>2, <1>6, <1>7, ThreadFacts DEF PoolInv
<1>9. \A u \in Workers : ~ Done(p, u)'
  BY <1>2 DEF Idle, Done
<1>10. CASE Run(p)
  <2>1. /\ run_epoch'[p] = Next1(run_epoch[p]) /\ runs'[p] = runs[p] + 1
        /\ runs[p] \in Nat /\ shutdown' = shutdown
    BY <1>10 DEF Run, TypeOK
  <2>2. Joined(p)'
    BY <1>2, <1>3, <1>10 DEF Joined
  <2>3. ASSUME NEW u \in Workers
        PROVE  WorkerOk(p, u)'
    <3>1. CASE Late(p, u)
      BY <1>2, <1>4, <1>6, <2>1, <2>2, <3>1 DEF Late, WorkerOk, UpToDate, OneBehind
    <3>2. CASE Resting(p, u)
      <4>1. Called(p, u)'
        BY <1>2, <1>4, <1>6, <2>1, <2>2, <3>2, ThreadFacts DEF Idle, Resting, Called, OneBehind
      <4>2. QED
        BY <4>1 DEF WorkerOk
    <3>3. QED
      BY <1>5, <3>1, <3>2
  <2>4. QED
    BY <1>2, <1>4, <1>8, <1>9, <1>10, <2>1, <2>3 DEF PoolInv
<1>11. CASE ~ Run(p)
  <2>1. UNCHANGED <<run_epoch, runs>> /\ shutdown'[p]
    BY <1>11 DEF MainExited, TypeOK
  <2>2. ~ Joined(p)'
    BY <1>2, <1>3, <1>11 DEF Joined
  <2>3. ASSUME NEW u \in Workers
        PROVE  WorkerOk(p, u)'
    BY <1>2, <1>4, <1>5, <1>6, <2>1, <2>2 DEF Late, WorkerOk, UpToDate, Idle, Resting
  <2>4. QED
    BY <1>2, <1>8, <1>9, <1>11, <2>1, <2>3 DEF PoolInv
<1>12. QED
  BY <1>10, <1>11

LEMMA PoolStep ==
  ASSUME TypeOK, NEW p \in Procs, PoolInv(p), NEW t \in Threads, ThreadStep(p, t), ~ stray'[p]
  PROVE  PoolInv(p)'
<1>1. CASE PoolBarrierBegin(p, t)
  BY <1>1, PoolBegin
<1>2. CASE PoolBarrierEnd(p, t)
  BY <1>2, PoolMasterEnd, PoolWorkerEnd, ThreadFacts
<1>3. CASE t = 0 /\ MasterStep(p)
  <2>1. CASE Notify(p) \/ TryBarrier(p)
    BY <2>1
       DEF Notify, TryBarrier, threadBarrierVars, poolVars, strayVars, PoolInv, WorkerOk, Joined, UpToDate,
           OneBehind, Running, Late, Called, Idle, Done, Resting
  <2>2. CASE MasterLeaves(p)
    <3>1. /\ at[p][0] = "pump" /\ at'[p][0] = "tbegin"
          /\ \A u \in Workers : at'[p][u] = at[p][u]
          /\ UNCHANGED <<threadBarrierVars, poolVars, ran, strayVars>>
      BY <2>2, ThreadFacts DEF MasterLeaves, Move, TypeOK
    <3>2. Joined(p) /\ Joined(p)'
      BY <3>1 DEF Joined, MasterInJob
    <3>3. \A u \in Workers : ~ Done(p, u) /\ ~ Done(p, u)'
      BY <3>1 DEF Idle, Done
    <3>4. \A u \in Workers : WorkerOk(p, u)'
      BY <3>1, <3>2, <3>3
         DEF threadBarrierVars, poolVars, strayVars, PoolInv, WorkerOk, UpToDate, OneBehind, Running, Late,
             Called, Idle, Resting
    <3>5. \A u \in Threads : tbegan'[p][u] <=> at'[p][u] = "tbar"
      BY <3>1, ThreadFacts DEF threadBarrierVars, PoolInv
    <3>6. QED
      BY <3>1, <3>3, <3>4, <3>5 DEF PoolInv, poolVars
  <2>3. CASE Run(p) \/ MainExited(p)
    BY <2>3, PoolMain
  <2>4. QED
    BY <1>3, <2>1, <2>2, <2>3 DEF MasterStep
<1>4. CASE t # 0 /\ WorkerStep(p, t)
  <2>0. /\ t \in Workers
        /\ {"user", "wbar", "ask", "spin", "leave", "tbegin"} \subseteq Working
    BY <1>4, ThreadFacts DEF Working, InBarrierStages
  <2>1. CASE BarrierBegin(p, t)
    BY <2>0, <2>1, PoolWork DEF BarrierBegin
  <2>2. CASE WorkersMet(p, t)
    BY <2>0, <2>2, PoolWork DEF WorkersMet
  <2>3. CASE t = 1 /\ AskMaster(p)
    BY <2>0, <2>3, PoolWork DEF AskMaster
  <2>4. CASE BarrierEnd(p, t)
    BY <2>0, <2>4, PoolWork DEF BarrierEnd
  <2>5. CASE t = 1 /\ LetMasterLeave(p)
    BY <2>0, <2>5, PoolWork DEF LetMasterLeave
  <2>6. CASE Wait(p, t)
    BY <2>0, <2>6, PoolWait
  <2>7. CASE GoOn(p, t)
    BY <2>0, <2>7, PoolGoOn
  <2>8. QED
    BY <1>4, <2>1, <2>2, <2>3, <2>4, <2>5, <2>6, <2>7 DEF WorkerStep
<1>5. QED
  BY <1>1, <1>2, <1>3, <1>4 DEF ThreadStep

-----------------------------------------------------------------------------
(* OncePerRun                                                              *)

(* Each process for itself, until a worker of it goes stray, which takes a *)
(* return without a signal.                                                *)
PoolsInv == \A p \in Procs : IF stray[p] THEN spurious > 0 ELSE PoolInv(p)

LEMMA PoolGivesOncePerRun ==
  ASSUME TypeOK, PoolsInv
  PROVE  OncePerRun
<1>1. SUFFICES ASSUME NEW p \in Procs, NEW t \in Workers, ~ stray[p]
               PROVE  /\ ran[p][t] <= runs[p]
                      /\ at[p][t] \in {"user", "wbar", "ask", "spin", "leave", "tbegin"}
                           => ran[p][t] = runs[p]
                      /\ at[p][0] = "main" => ran[p][t] = runs[p]
  BY DEF OncePerRun, PoolsInv
<1>0. PoolInv(p)
  BY <1>1 DEF PoolsInv
<1>2. ran[p][t] \in Nat /\ runs[p] \in Nat
  BY DEF TypeOK
<1>3. ran[p][t] = runs[p] \/ ran[p][t] + 1 = runs[p]
  BY <1>0 DEF PoolInv, WorkerOk, UpToDate, OneBehind, Running, Late, Called, Done, Resting
<1>4. "main" \notin MasterInJob
  BY DEF MasterInJob
<1>5. at[p][t] \in {"user", "wbar", "ask", "spin", "leave", "tbegin"} \/ at[p][0] = "main"
        => ran[p][t] = runs[p]
  BY <1>0, <1>4 DEF PoolInv, WorkerOk, UpToDate, Joined, Running, Late, Called, Done, Resting
<1>6. QED
  BY <1>2, <1>3, <1>5

LEMMA TypeNext ==
  ASSUME TypeOK, [Next]_vars
  PROVE  TypeOK'
<1>1. CASE Next
  BY <1>1, TypeStep, TypeSpurious DEF Next
<1>2. CASE UNCHANGED vars
  BY <1>2 DEF vars, barrierVars, poolVars, threadBarrierVars, strayVars, TypeOK
<1>3. QED
  BY <1>1, <1>2

LEMMA StrayTakesOne ==
  ASSUME TypeOK, PoolsInv, NEW p \in Procs, NEW t \in Threads, ThreadStep(p, t), stray'[p]
  PROVE  spurious' > 0
<1> USE DEF strayVars
<1>1. CASE stray[p]
  <2>1. spurious > 0
    BY <1>1 DEF PoolsInv
  <2>2. spurious' = spurious
    <3>1. CASE PoolBarrierBegin(p, t) \/ PoolBarrierEnd(p, t)
      BY <3>1 DEF PoolBarrierBegin, PoolBarrierEnd
    <3>2. CASE MasterStep(p)
      BY <3>2 DEF MasterStep, Notify, TryBarrier, MasterLeaves, Run, MainExited
    <3>3. CASE WorkerStep(p, t)
      BY <3>3 DEF WorkerStep, BarrierBegin, WorkersMet, AskMaster, BarrierEnd, LetMasterLeave,
                  Wait, GoOn
    <3>4. QED
      BY <3>1, <3>2, <3>3 DEF ThreadStep
  <2>3. QED
    BY <2>1, <2>2
<1>2. CASE ~ stray[p]
  <2>1. t \in Workers /\ GoOn(p, t)
    <3>1. stray' # stray
      BY <1>2
    <3>2. ~ MasterStep(p) /\ ~ PoolBarrierBegin(p, t) /\ ~ PoolBarrierEnd(p, t)
      BY <3>1 DEF MasterStep, Notify, TryBarrier, MasterLeaves, Run, MainExited,
                  PoolBarrierBegin, PoolBarrierEnd
    <3>3. QED
      BY <3>1, <3>2, ThreadFacts
         DEF ThreadStep, WorkerStep, BarrierBegin, WorkersMet, AskMaster, BarrierEnd,
             LetMasterLeave, Wait
  <2>2. ~ ToldAlready(p, t) /\ spurious' = spurious
    BY <1>2, <2>1 DEF GoOn, TypeOK
  <2>3. PoolInv(p)
    BY <1>2 DEF PoolsInv
  <2>4. QED
    BY <2>1, <2>2, <2>3, SignalIsNews DEF TypeOK
<1>3. QED
  BY <1>1, <1>2

LEMMA PoolNext ==
  ASSUME TypeOK, PoolsInv, [Next]_vars
  PROVE  PoolsInv'
<1>1. ASSUME NEW p \in Procs, NEW t \in Threads, ThreadStep(p, t), NEW q \in Procs
      PROVE  IF stray'[q] THEN spurious' > 0 ELSE PoolInv(q)'
  <2>1. CASE q = p /\ ~ stray'[p]
    <3>1. PoolInv(p)
      BY <1>1, <2>1, StrayForGood DEF PoolsInv
    <3>2. QED
      BY <1>1, <2>1, <3>1, PoolStep
  <2>2. CASE q = p /\ stray'[p]
    BY <1>1, <2>2, StrayTakesOne
  <2>3. CASE q # p
    <3>1. stray'[q] = stray[q] /\ spurious' = spurious
      BY <1>1, <2>3, OtherProcesses
    <3>2. CASE ~ stray[q]
      BY <1>1, <2>3, <3>1, <3>2, PoolOther DEF PoolsInv
    <3>3. QED
      BY <3>1, <3>2 DEF PoolsInv
  <2>4. QED
    BY <2>1, <2>2, <2>3
<1>2. ASSUME NEW p \in Procs, NEW t \in Workers, SpuriousReturn(p, t), NEW q \in Procs
      PROVE  IF stray'[q] THEN spurious' > 0 ELSE PoolInv(q)'
  <2>1. stray'[q] = stray[q] /\ spurious' > 0
    BY <1>2 DEF SpuriousReturn, TypeOK
  <2>2. CASE ~ stray[q]
    BY <1>2, <2>1, <2>2, PoolSpurious DEF PoolsInv
  <2>3. QED
    BY <2>1, <2>2
<1>3. CASE UNCHANGED vars
  BY <1>3 DEF vars, poolVars, threadBarrierVars, strayVars, PoolsInv, PoolInv, WorkerOk, Joined,
              UpToDate, OneBehind, Running, Late, Called, Idle, Done, Resting
<1>4. QED
  BY <1>1, <1>2, <1>3 DEF Next, PoolsInv

(* threads::run of threads.cxx: for any number of threads, of runs and of  *)
(* returns of pthread_cond_wait without a signal, and however late a thread*)
(* is to be woken or to leave its barrier, it executes the function of each*)
(* run once, and run does not return before.  What the `if` around that    *)
(* wait (where POSIX asks for a loop) lets through is the one way out: a   *)
(* worker that has gone on with neither a new run nor shutdown.  That takes*)
(* a return without a signal: signals alone do not mislead.                *)
THEOREM OncePerRunHolds == Spec => []OncePerRun
<1>1. Init => TypeOK /\ PoolsInv
  <2>1. Init => \A p \in Procs : ~ stray[p]
    BY DEF Init
  <2>2. QED
    BY <2>1, TypeInit, PoolInit DEF PoolsInv
<1>2. TypeOK /\ PoolsInv /\ [Next]_vars => (TypeOK /\ PoolsInv)'
  BY TypeNext, PoolNext
<1>3. TypeOK /\ PoolsInv => OncePerRun
  BY PoolGivesOncePerRun
<1>4. QED
  BY <1>1, <1>2, <1>3, PTL DEF Spec

-----------------------------------------------------------------------------
(* The barrier of the workers of one process, and the barrier of processes *)

Crossed(p, t) == at[p][t] \in {"ask", "spin"}
(* No worker but the first is still in the barrier among workers that the  *)
(* barrier of processes has answered.                                      *)
Behind(p, t) == t # 1 /\ at[p][t] = "wbar" /\ Next1(wepoch[p][t]) = gepoch[p]
Level(p, t) == ~ Crossed(p, t) /\ wepoch[p][t] = gepoch[p]
Answered(p, t) == at[p][t] = "spin" /\ wepoch[p][t] = gepoch[p]
Ahead(p, t) == Crossed(p, t) /\ wepoch[p][t] = Next1(gepoch[p])

(* While the master has something to do, worker 1 waits for it.            *)
PhaseInv(p) ==
  /\ phase[p].bits = "done" => phase[p].e = gepoch[p]
  /\ phase[p].bits # "done" => /\ phase[p].e = Next1(gepoch[p])
                               /\ at[p][1] = "spin" /\ Ahead(p, 1)
  /\ gbegan[p] <=> phase[p].bits = "notified"

WorkersInv(p) ==
  /\ \A t \in Workers :
       /\ wbegan[p][t] <=> at[p][t] = "wbar"
       /\ at[p][t] = "ask" => t = 1 /\ Ahead(p, t)
       /\ Behind(p, t) \/ Level(p, t) \/ Answered(p, t) \/ Ahead(p, t)
  /\ (\E t \in Workers : Ahead(p, t))
       => \A u \in Workers : Ahead(p, u) \/ (Level(p, u) /\ at[p][u] = "wbar")

ProcsInv ==
  \A p, q \in Procs : \/ gepoch[p] = gepoch[q]
                      \/ gepoch[q] = Next1(gepoch[p]) /\ gbegan[p]
                      \/ gepoch[p] = Next1(gepoch[q]) /\ gbegan[q]

BarrierInv == /\ \A p \in Procs : PhaseInv(p) /\ WorkersInv(p)
              /\ ProcsInv

LEMMA BarrierInit == Init => BarrierInv
<1> SUFFICES ASSUME Init PROVE BarrierInv
  OBVIOUS
<1>1. ASSUME NEW p \in Procs
      PROVE  /\ gepoch[p] = 0 /\ ~ gbegan[p]
             /\ phase[p] = [e |-> 0, bits |-> "done"]
             /\ \A t \in Workers : /\ at[p][t] = "user" /\ ~ wbegan[p][t]
                                    /\ wepoch[p][t] = 0
  <2>1. calls = [q \in Procs |-> [t \in Workers |-> 0]] /\ wepoch = calls
    BY DEF Init
  <2>2. QED
    BY <1>1, <2>1, ThreadFacts DEF Init
<1>2. \A p \in Procs : phase[p].e = 0 /\ phase[p].bits = "done"
  BY <1>1
<1>3. QED
  BY <1>1, <1>2 DEF BarrierInv, PhaseInv, WorkersInv, ProcsInv, Level, Ahead, Crossed

LEMMA BarrierOther ==
  ASSUME TypeOK, NEW p \in Procs, NEW t \in Threads, ThreadStep(p, t),
         NEW q \in Procs, q # p, PhaseInv(q), WorkersInv(q)
  PROVE  PhaseInv(q)' /\ WorkersInv(q)'
BY OtherProcesses
   DEF PhaseInv, WorkersInv, Behind, Level, Answered, Ahead, Crossed

(* The workers of p that move are outside the barrier.                     *)
Aside(p) ==
  /\ \A u \in Workers : \/ at'[p][u] = at[p][u]
                        \/ {at[p][u], at'[p][u]} \cap InBarrierStages = {}
  /\ UNCHANGED <<wepoch, wbegan, phase, gepoch, gbegan>>

LEMMA BarrierAside ==
  ASSUME NEW p \in Procs, PhaseInv(p), WorkersInv(p), Aside(p)
  PROVE  PhaseInv(p)' /\ WorkersInv(p)'
<1>1. \A u \in Workers : \/ at'[p][u] = at[p][u]
                         \/ /\ at[p][u] \notin {"wbar", "ask", "spin"}
                            /\ at'[p][u] \notin {"wbar", "ask", "spin"}
  BY DEF Aside, InBarrierStages
<1>2. ASSUME NEW u \in Workers
      PROVE  /\ Behind(p, u)' <=> Behind(p, u)
             /\ Level(p, u)' <=> Level(p, u)
             /\ Answered(p, u)' <=> Answered(p, u)
             /\ Ahead(p, u)' <=> Ahead(p, u)
             /\ at'[p][u] = "wbar" <=> at[p][u] = "wbar"
             /\ at'[p][u] = "ask" <=> at[p][u] = "ask"
             /\ at'[p][u] = "spin" <=> at[p][u] = "spin"
  BY <1>1 DEF Aside, Behind, Level, Answered, Ahead, Crossed
<1>3. QED
  BY <1>2, ThreadFacts DEF Aside, PhaseInv, WorkersInv

LEMMA BarrierMeet ==
  ASSUME TypeOK, NEW p \in Procs, NEW t \in Workers, PhaseInv(p), WorkersInv(p),
         WorkersMet(p, t)
  PROVE  PhaseInv(p)' /\ WorkersInv(p)'
<1>1. /\ at[p][t] = "wbar" /\ at'[p][t] = (IF t = 1 THEN "ask" ELSE "spin")
      /\ \A u \in Workers : u # t => at'[p][u] = at[p][u] /\ wepoch'[p][u] = wepoch[p][u]
                                     /\ wbegan'[p][u] = wbegan[p][u]
      /\ wepoch'[p][t] = Next1(wepoch[p][t]) /\ ~ wbegan'[p][t]
      /\ UNCHANGED <<phase, gepoch, gbegan>>
  BY ThreadFacts DEF WorkersMet, Move, TypeOK
<1>2. \A u \in Workers : \/ wepoch[p][u] = wepoch[p][t] /\ wbegan[p][u]
                         \/ wepoch[p][u] = Next1(wepoch[p][t])
  BY WorkersAllMet DEF WorkersMet
<1>3. /\ gepoch[p] \in Epoch
      /\ \A u \in Workers : wepoch[p][u] \in Epoch
  BY DEF TypeOK
<1>4. ASSUME NEW u \in Workers, u # t
      PROVE  /\ Behind(p, u)' <=> Behind(p, u)
             /\ Level(p, u)' <=> Level(p, u)
             /\ Answered(p, u)' <=> Answered(p, u)
             /\ Ahead(p, u)' <=> Ahead(p, u)
  BY <1>1, <1>4 DEF Behind, Level, Answered, Ahead, Crossed
<1>5. PhaseInv(p)'
  <2>1. phase[p].bits # "done" => t # 1
    BY <1>1 DEF PhaseInv
  <2>2. QED
    BY <1>1, <1>4, <2>1, ThreadFacts DEF PhaseInv
<1>6. CASE Behind(p, t)
  <2>1. Answered(p, t)' /\ at'[p][t] = "spin" /\ ~ Ahead(p, t)'
    BY <1>1, <1>3, <1>6, EpochFacts DEF Behind, Answered, Ahead
  <2>2. \A u \in Workers : ~ Ahead(p, u)
    BY <1>3, <1>6, EpochFacts DEF Behind, Level, Ahead, Crossed, WorkersInv
  <2>3. QED
    BY <1>1, <1>4, <1>5, <2>1, <2>2 DEF WorkersInv
<1>7. CASE Level(p, t)
  <2>1. Ahead(p, t)'
    BY <1>1, <1>7 DEF Level, Ahead, Crossed
  <2>2. ASSUME NEW u \in Workers
        PROVE  Ahead(p, u) \/ (Level(p, u) /\ at[p][u] = "wbar")
    <3>1. CASE wepoch[p][u] = gepoch[p] /\ wbegan[p][u]
      BY <3>1 DEF WorkersInv, Level, Crossed
    <3>2. CASE wepoch[p][u] = Next1(gepoch[p])
      BY <1>3, <3>2, EpochFacts DEF WorkersInv, Behind, Level, Answered
    <3>3. QED
      BY <1>2, <1>7, <3>1, <3>2 DEF Level
  <2>3. QED
    BY <1>1, <1>4, <1>5, <2>1, <2>2 DEF WorkersInv
<1>8. QED
  BY <1>1, <1>6, <1>7 DEF WorkersInv, Answered, Ahead, Crossed

LEMMA BarrierTry ==
  ASSUME TypeOK, NEW p \in Procs, PhaseInv(p), WorkersInv(p), TryBarrier(p)
  PROVE  PhaseInv(p)' /\ WorkersInv(p)'
<1>1. /\ phase[p].bits = "notified" /\ phase'[p] = [e |-> phase[p].e, bits |-> "done"]
      /\ gepoch'[p] = Next1(gepoch[p]) /\ ~ gbegan'[p]
      /\ UNCHANGED <<at, wepoch, wbegan>>
  BY ProcsMet DEF TryBarrier, EveryProcess, TypeOK
<1>2. /\ gepoch[p] \in Epoch
      /\ \A u \in Workers : wepoch[p][u] \in Epoch
  BY DEF TypeOK
<1>3. phase[p].e = Next1(gepoch[p]) /\ at[p][1] = "spin" /\ Ahead(p, 1)
  BY <1>1 DEF PhaseInv
<1>4. PhaseInv(p)'
  <2>1. phase'[p].bits = "done" /\ phase'[p].e = Next1(gepoch[p])
    BY <1>1, <1>3
  <2>2. QED
    BY <1>1, <2>1 DEF PhaseInv
<1>5. ASSUME NEW u \in Workers
      PROVE  (Behind(p, u)' \/ Answered(p, u)') /\ ~ Ahead(p, u)' /\ at[p][u] # "ask"
  <2>1. Ahead(p, u) \/ (Level(p, u) /\ at[p][u] = "wbar")
    BY <1>3, ThreadFacts DEF WorkersInv
  <2>2. at[p][u] # "ask"
    BY <1>3 DEF WorkersInv
  <2>3. CASE Ahead(p, u)
    BY <1>1, <1>2, <2>2, <2>3, EpochFacts DEF Ahead, Answered, Crossed
  <2>4. CASE Level(p, u) /\ at[p][u] = "wbar"
    BY <1>1, <1>2, <1>3, <2>4, EpochFacts DEF Ahead, Level, Behind, Crossed
  <2>5. QED
    BY <2>1, <2>2, <2>3, <2>4
<1>6. QED
  BY <1>1, <1>4, <1>5 DEF WorkersInv

LEMMA BarrierWorker ==
  ASSUME TypeOK, NEW p \in Procs, NEW t \in Workers, PhaseInv(p), WorkersInv(p),
         BarrierBegin(p, t) \/ (t = 1 /\ AskMaster(p)) \/ BarrierEnd(p, t)
  PROVE  PhaseInv(p)' /\ WorkersInv(p)'
<1>1. /\ gepoch[p] \in Epoch
      /\ \A u \in Workers : wepoch[p][u] \in Epoch
  BY DEF TypeOK
<1>2. /\ \A u \in Workers : u # t => at'[p][u] = at[p][u]
      /\ UNCHANGED <<wepoch, gepoch, gbegan>>
  BY ThreadFacts DEF BarrierBegin, AskMaster, BarrierEnd, Move, TypeOK, barrierVars
<1>3. ASSUME NEW u \in Workers, u # t
      PROVE  /\ Behind(p, u)' <=> Behind(p, u)
             /\ Level(p, u)' <=> Level(p, u)
             /\ Answered(p, u)' <=> Answered(p, u)
             /\ Ahead(p, u)' <=> Ahead(p, u)
  BY <1>2, <1>3 DEF Behind, Level, Answered, Ahead, Crossed
<1>4. CASE BarrierBegin(p, t)
  <2>1. /\ at[p][t] = "user" /\ at'[p][t] = "wbar" /\ wbegan'[p][t] /\ phase' = phase
        /\ \A u \in Workers : u # t => wbegan'[p][u] = wbegan[p][u]
    BY <1>4, ThreadFacts DEF BarrierBegin, Move, TypeOK
  <2>2. Level(p, t) /\ Level(p, t)' /\ ~ Ahead(p, t)'
    BY <1>2, <2>1 DEF WorkersInv, Behind, Level, Answered, Ahead, Crossed
  <2>3. \A u \in Workers : ~ Ahead(p, u)
    BY <2>1 DEF WorkersInv, Ahead, Crossed
  <2>4. PhaseInv(p)'
    BY <1>2, <1>3, <2>1, <2>3, ThreadFacts DEF PhaseInv
  <2>5. QED
    BY <1>2, <1>3, <2>1, <2>2, <2>3, <2>4 DEF WorkersInv
<1>5. CASE t = 1 /\ AskMaster(p)
  <2>1. /\ at[p][t] = "ask" /\ at'[p][t] = "spin" /\ wbegan' = wbegan
        /\ phase'[p] = [e |-> wepoch[p][1], bits |-> "asked"]
    BY <1>5, ThreadFacts DEF AskMaster, Move, TypeOK
  <2>2. Ahead(p, t) /\ Ahead(p, t)'
    BY <1>2, <2>1 DEF WorkersInv, Ahead, Crossed
  <2>3. PhaseInv(p)'
    <3>1. phase[p].bits = "done" /\ ~ gbegan[p]
      BY <1>5, <2>1 DEF PhaseInv
    <3>2. phase'[p].bits = "asked" /\ phase'[p].e = Next1(gepoch[p])
      BY <1>5, <2>1, <2>2 DEF Ahead
    <3>3. QED
      BY <1>2, <1>5, <2>1, <2>2, <3>1, <3>2 DEF PhaseInv
  <2>4. QED
    BY <1>2, <1>3, <2>1, <2>2, <2>3 DEF WorkersInv
<1>6. CASE BarrierEnd(p, t)
  <2>1. /\ at[p][t] = "spin" /\ at'[p][t] \in {"user", "leave", "tbegin"}
        /\ phase[p] = [e |-> wepoch[p][t], bits |-> "done"]
        /\ UNCHANGED <<phase, wbegan>>
    BY <1>6, ThreadFacts DEF BarrierEnd, PhaseIs, Move, TypeOK, barrierVars
  <2>2. phase[p].bits = "done" /\ wepoch[p][t] = gepoch[p]
    BY <2>1 DEF PhaseInv
  <2>3. ~ Ahead(p, t) /\ Level(p, t)' /\ ~ Ahead(p, t)'
    BY <1>1, <1>2, <2>1, <2>2, EpochFacts DEF Ahead, Level, Crossed
  <2>4. \A u \in Workers : ~ Ahead(p, u)
    BY <2>1, <2>3 DEF WorkersInv
  <2>5. PhaseInv(p)'
    BY <1>2, <2>1, <2>2 DEF PhaseInv
  <2>6. QED
    BY <1>2, <1>3, <2>1, <2>3, <2>4, <2>5 DEF WorkersInv
<1>7. QED
  BY <1>4, <1>5, <1>6

LEMMA BarrierNotify ==
  ASSUME TypeOK, NEW p \in Procs, PhaseInv(p), WorkersInv(p), Notify(p)
  PROVE  PhaseInv(p)' /\ WorkersInv(p)'
<1>1. /\ phase[p].bits = "asked" /\ phase'[p] = [e |-> phase[p].e, bits |-> "notified"]
      /\ gbegan'[p] /\ UNCHANGED <<at, wepoch, wbegan, gepoch>>
  BY DEF Notify, GasnetBarrier!Begin, TypeOK
<1>2. phase'[p].bits = "notified" /\ phase'[p].e = phase[p].e
  BY <1>1
<1>3. QED
  BY <1>1, <1>2 DEF PhaseInv, WorkersInv, Behind, Level, Answered, Ahead, Crossed

LEMMA BarrierMoves ==
  ASSUME TypeOK, NEW p \in Procs, NEW t \in Threads, ThreadStep(p, t)
  PROVE  \/ Aside(p) \/ Notify(p) \/ TryBarrier(p)
         \/ /\ t \in Workers
            /\ \/ BarrierBegin(p, t) \/ WorkersMet(p, t)
               \/ (t = 1 /\ AskMaster(p)) \/ BarrierEnd(p, t)
<1> USE DEF barrierVars
<1>0. /\ \A u \in Workers : u \in Threads /\ u # 0
      /\ {"user", "leave", "tbegin", "tbar", "lock", "waiting", "woken", "exited"}
           \cap {"wbar", "ask", "spin"} = {}
  BY ThreadFacts
<1>m. ASSUME NEW a, NEW b, Move(p, t, a, b),
             t # 0 => {a, b} \cap InBarrierStages = {},
             UNCHANGED <<wepoch, wbegan, phase, gepoch, gbegan>>
      PROVE  Aside(p)
  <2>1. \A u \in Workers : \/ at'[p][u] = at[p][u]
                           \/ {at[p][u], at'[p][u]} \cap InBarrierStages = {}
    BY <1>m, <1>0 DEF Move, TypeOK
  <2>2. QED
    BY <1>m, <2>1 DEF Aside
<1>s. ASSUME NEW b, SignalFrom(p, t, b), at[p][t] # "waiting",
             t # 0 => {at[p][t], b} \cap InBarrierStages = {},
             UNCHANGED <<wepoch, wbegan, phase, gepoch, gbegan>>
      PROVE  Aside(p)
  <2>1. "waiting" \notin InBarrierStages /\ "woken" \notin InBarrierStages
    BY DEF InBarrierStages
  <2>2. \A u \in Workers : \/ at'[p][u] = at[p][u]
                           \/ {at[p][u], at'[p][u]} \cap InBarrierStages = {}
    BY <1>s, <1>0, <2>1, Signalled
  <2>3. QED
    BY <1>s, <2>2 DEF Aside
<1>1. CASE PoolBarrierBegin(p, t)
  BY <1>1, <1>m DEF PoolBarrierBegin, InBarrierStages
<1>2. CASE PoolBarrierEnd(p, t)
  BY <1>2, <1>m DEF PoolBarrierEnd, InBarrierStages
<1>3. CASE t = 0 /\ MasterStep(p)
  <2>1. CASE MasterLeaves(p)
    BY <1>3, <2>1, <1>m DEF MasterLeaves
  <2>2. CASE Run(p)
    BY <1>3, <2>2, <1>s DEF Run
  <2>3. CASE MainExited(p)
    BY <1>3, <2>3, <1>s DEF MainExited
  <2>4. QED
    BY <1>3, <2>1, <2>2, <2>3 DEF MasterStep
<1>4. CASE t # 0 /\ WorkerStep(p, t)
  <2>0. t \in Workers
    BY <1>4, ThreadFacts
  <2>1. CASE t = 1 /\ LetMasterLeave(p)
    BY <2>1, <1>m DEF LetMasterLeave, InBarrierStages
  <2>2. CASE Wait(p, t)
    BY <2>2, <1>m DEF Wait, InBarrierStages
  <2>3. CASE GoOn(p, t)
    <3>1. SignalFrom(p, t, IF shutdown[p] THEN "exited" ELSE "user")
      BY <2>3 DEF GoOn, PassSignal
    <3>2. at[p][t] \in {"lock", "woken"}
      BY <2>3 DEF GoOn
    <3>3. {at[p][t], IF shutdown[p] THEN "exited" ELSE "user"} \cap InBarrierStages = {}
      BY <3>2 DEF InBarrierStages
    <3>4. UNCHANGED <<wepoch, wbegan, phase, gepoch, gbegan>>
      BY <2>3 DEF GoOn
    <3>5. QED
      BY <1>s, <3>1, <3>2, <3>3, <3>4
  <2>4. QED
    BY <1>4, <2>0, <2>1, <2>2, <2>3 DEF WorkerStep
<1>5. QED
  BY <1>1, <1>2, <1>3, <1>4 DEF ThreadStep

LEMMA BarrierStep ==
  ASSUME TypeOK, NEW p \in Procs, NEW t \in Threads, ThreadStep(p, t),
         PhaseInv(p), WorkersInv(p)
  PROVE  PhaseInv(p)' /\ WorkersInv(p)'
BY BarrierMoves, BarrierAside, BarrierNotify, BarrierTry, BarrierMeet, BarrierWorker

LEMMA ProcsStep ==
  ASSUME TypeOK, NEW p \in Procs, NEW t \in Threads, ThreadStep(p, t), ProcsInv
  PROVE  ProcsInv'
<1>1. CASE UNCHANGED <<gepoch, gbegan>>
  BY <1>1 DEF ProcsInv
<1>2. CASE Notify(p)
  <2>1. gepoch' = gepoch /\ \A q \in Procs : gbegan[q] => gbegan'[q]
    BY <1>2 DEF Notify, GasnetBarrier!Begin, TypeOK
  <2>2. QED
    BY <2>1 DEF ProcsInv
<1>3. CASE TryBarrier(p)
  <2>1. /\ gepoch'[p] = Next1(gepoch[p])
        /\ \A q \in Procs : q # p => gepoch'[q] = gepoch[q] /\ gbegan'[q] = gbegan[q]
        /\ \A q \in Procs : \/ gepoch[q] = gepoch[p] /\ gbegan[q]
                            \/ gepoch[q] = Next1(gepoch[p])
    BY <1>3, ProcsMet DEF TryBarrier, EveryProcess, TypeOK
  <2>2. QED
    BY <2>1 DEF ProcsInv
<1>4. QED
  BY <1>1, <1>2, <1>3, BarrierMoves
     DEF Aside, BarrierBegin, WorkersMet, AskMaster, BarrierEnd, barrierVars

LEMMA BarrierSpurious ==
  ASSUME TypeOK, BarrierInv, NEW p \in Procs, NEW t \in Workers, SpuriousReturn(p, t)
  PROVE  BarrierInv'
<1>1. /\ at[p][t] = "waiting" /\ at'[p][t] = "woken"
      /\ \A q \in Procs, u \in Workers : q # p \/ u # t => at'[q][u] = at[q][u]
      /\ UNCHANGED <<wepoch, wbegan, phase, gepoch, gbegan>>
  BY SpuriousMoves, ThreadFacts
<1>2. ASSUME NEW q \in Procs
      PROVE  Aside(q)
  <2>1. {"waiting", "woken"} \cap InBarrierStages = {}
    BY DEF InBarrierStages
  <2>2. QED
    BY <1>1, <2>1 DEF Aside
<1>3. QED
  BY <1>1, <1>2, BarrierAside DEF BarrierInv, ProcsInv

LEMMA BarrierNext ==
  ASSUME TypeOK, BarrierInv, [Next]_vars
  PROVE  BarrierInv'
<1>1. ASSUME NEW p \in Procs, NEW t \in Threads, ThreadStep(p, t)
      PROVE  BarrierInv'
  <2>2. \A q \in Procs : PhaseInv(q)' /\ WorkersInv(q)'
    BY <1>1, BarrierStep, BarrierOther DEF BarrierInv
  <2>3. ProcsInv'
    BY <1>1, ProcsStep DEF BarrierInv
  <2>4. QED
    BY <2>2, <2>3 DEF BarrierInv
<1>2. CASE UNCHANGED vars
  BY <1>2 DEF vars, barrierVars, BarrierInv, PhaseInv, WorkersInv, ProcsInv, Behind, Level,
              Answered, Ahead, Crossed
<1>3. QED
  BY <1>1, <1>2, BarrierSpurious DEF Next

-----------------------------------------------------------------------------
(* The barrier of the ranks                                                *)

LEMMA RankValues ==
  ASSUME NEW p \in Procs, NEW t \in Workers
  PROVE  /\ RankEpoch[<<p, t>>] = IF Crossed(p, t) THEN Before(wepoch[p][t]) ELSE wepoch[p][t]
         /\ RankBegan[<<p, t>>] <=> at[p][t] = "wbar" \/ Crossed(p, t)
BY DEF RankEpoch, RankBegan, Ranks, InBarrier, Crossed

LEMMA RankValuesNext ==
  ASSUME NEW p \in Procs, NEW t \in Workers
  PROVE  /\ RankEpoch'[<<p, t>>] = IF Crossed(p, t)' THEN Before(wepoch'[p][t]) ELSE wepoch'[p][t]
         /\ RankBegan'[<<p, t>>] <=> at'[p][t] = "wbar" \/ Crossed(p, t)'
BY DEF RankEpoch, RankBegan, Ranks, InBarrier, Crossed

LEMMA RanksAreFunctions ==
  /\ RankEpoch = [r \in Ranks |-> RankEpoch[r]] /\ RankBegan = [r \in Ranks |-> RankBegan[r]]
  /\ RankEpoch' = [r \in Ranks |-> RankEpoch'[r]] /\ RankBegan' = [r \in Ranks |-> RankBegan'[r]]
BY DEF RankEpoch, RankBegan

(* What a rank of process q shows to the others does not depend on where   *)
(* it is between the two barriers that its process waits for.              *)
LEMMA RankStutter ==
  ASSUME \A q \in Procs, u \in Workers :
           /\ RankEpoch'[<<q, u>>] = RankEpoch[<<q, u>>]
           /\ RankBegan'[<<q, u>>] <=> RankBegan[<<q, u>>]
  PROVE  UNCHANGED <<RankEpoch, RankBegan>>
<1>1. \A r \in Ranks : RankEpoch'[r] = RankEpoch[r] /\ (RankBegan'[r] <=> RankBegan[r])
  BY DEF Ranks
<1>2. \A r \in Ranks : RankBegan'[r] \in BOOLEAN /\ RankBegan[r] \in BOOLEAN
  BY DEF RankBegan, InBarrier
<1>3. \A r \in Ranks : RankBegan'[r] = RankBegan[r]
  BY <1>1, <1>2
<1>4. QED
  BY <1>1, <1>3, RanksAreFunctions

LEMMA RankAside ==
  ASSUME TypeOK, NEW p \in Procs, NEW t \in Threads, ThreadStep(p, t),
         Aside(p) \/ Notify(p) \/ TryBarrier(p)
  PROVE  UNCHANGED <<RankEpoch, RankBegan>>
<1>1. ASSUME NEW u \in Workers
      PROVE  /\ wepoch'[p][u] = wepoch[p][u] /\ (Crossed(p, u)' <=> Crossed(p, u))
             /\ at'[p][u] = "wbar" <=> at[p][u] = "wbar"
  <2>1. CASE Aside(p)
    BY <2>1 DEF Aside, InBarrierStages, Crossed
  <2>2. CASE Notify(p) \/ TryBarrier(p)
    BY <2>2 DEF Notify, TryBarrier, Crossed
  <2>3. QED
    BY <2>1, <2>2
<1>2. ASSUME NEW q \in Procs, NEW u \in Workers
      PROVE  /\ wepoch'[q][u] = wepoch[q][u] /\ (Crossed(q, u)' <=> Crossed(q, u))
             /\ at'[q][u] = "wbar" <=> at[q][u] = "wbar"
  BY <1>1, OtherProcesses DEF Crossed
<1>3. QED
  BY <1>2, RankValues, RankValuesNext, RankStutter

LEMMA RankSpurious ==
  ASSUME TypeOK, NEW p \in Procs, NEW t \in Workers, SpuriousReturn(p, t)
  PROVE  UNCHANGED <<RankEpoch, RankBegan>>
<1>1. ASSUME NEW q \in Procs, NEW u \in Workers
      PROVE  /\ wepoch'[q][u] = wepoch[q][u] /\ (Crossed(q, u)' <=> Crossed(q, u))
             /\ at'[q][u] = "wbar" <=> at[q][u] = "wbar"
  <2>1. wepoch'[q][u] = wepoch[q][u]
    BY SpuriousMoves
  <2>2. \/ at'[q][u] = at[q][u]
        \/ at[q][u] = "waiting" /\ at'[q][u] = "woken"
    BY SpuriousMoves, ThreadFacts
  <2>3. QED
    BY <2>1, <2>2 DEF Crossed
<1>2. QED
  BY <1>1, RankValues, RankValuesNext, RankStutter

LEMMA RankInside ==
  ASSUME TypeOK, NEW p \in Procs, NEW t \in Workers, ThreadStep(p, t),
         WorkersMet(p, t) \/ (t = 1 /\ AskMaster(p))
  PROVE  UNCHANGED <<RankEpoch, RankBegan>>
<1>0. t \in Threads
  BY ThreadFacts
<1>1. ASSUME NEW q \in Procs, NEW u \in Workers, q # p \/ u # t
      PROVE  wepoch'[q][u] = wepoch[q][u] /\ at'[q][u] = at[q][u]
  BY <1>0, <1>1, ThreadFacts DEF WorkersMet, AskMaster, Move, TypeOK
<1>2. CASE WorkersMet(p, t)
  <2>1. /\ at[p][t] = "wbar" /\ Crossed(p, t)' /\ ~ Crossed(p, t)
        /\ Before(wepoch'[p][t]) = wepoch[p][t]
    BY <1>0, <1>2, EpochFacts DEF WorkersMet, Move, TypeOK, Crossed
  <2>2. QED
    BY <1>1, <2>1, RankValues, RankValuesNext, RankStutter DEF Crossed
<1>3. CASE t = 1 /\ AskMaster(p)
  <2>1. Crossed(p, t)' /\ Crossed(p, t) /\ wepoch'[p][t] = wepoch[p][t]
    BY <1>0, <1>3 DEF AskMaster, Move, TypeOK, Crossed
  <2>2. QED
    BY <1>1, <2>1, RankValues, RankValuesNext, RankStutter DEF Crossed
<1>4. QED
  BY <1>2, <1>3

(* A worker that calls deva::barrier begins the barrier of the ranks.      *)
LEMMA RankBegins ==
  ASSUME TypeOK, NEW p \in Procs, NEW t \in Workers, BarrierBegin(p, t)
  PROVE  RankBarrier!Begin(<<p, t>>)
<1>0. t \in Threads /\ <<p, t>> \in Ranks
  BY ThreadFacts DEF Ranks
<1>1. ASSUME NEW q \in Procs, NEW u \in Workers
      PROVE  /\ wepoch'[q][u] = wepoch[q][u]
             /\ q # p \/ u # t => at'[q][u] = at[q][u]
  BY <1>0, ThreadFacts DEF BarrierBegin, Move, TypeOK
<1>2. at[p][t] = "user" /\ at'[p][t] = "wbar"
  BY <1>0 DEF BarrierBegin, Move, TypeOK
<1>3. ASSUME NEW q \in Procs, NEW u \in Workers
      PROVE  /\ RankEpoch'[<<q, u>>] = RankEpoch[<<q, u>>]
             /\ RankBegan'[<<q, u>>] <=> RankBegan[<<q, u>>] \/ <<q, u>> = <<p, t>>
  BY <1>1, <1>2, RankValues, RankValuesNext DEF Crossed
<1>4. ~ RankBegan[<<p, t>>]
  BY <1>2, RankValues DEF Crossed
<1>5. RankEpoch' = RankEpoch
  <2>1. \A r \in Ranks : RankEpoch'[r] = RankEpoch[r]
    BY <1>3 DEF Ranks
  <2>2. QED
    BY <2>1, RanksAreFunctions
<1>6. RankBegan' = [RankBegan EXCEPT ![<<p, t>>] = TRUE]
  <2>1. \A r \in Ranks : RankBegan'[r] = IF r = <<p, t>> THEN TRUE ELSE RankBegan[r]
    <3>1. \A r \in Ranks : RankBegan'[r] \in BOOLEAN /\ RankBegan[r] \in BOOLEAN
      BY DEF RankBegan, InBarrier
    <3>2. \A r \in Ranks : RankBegan'[r] <=> RankBegan[r] \/ r = <<p, t>>
      BY <1>3 DEF Ranks
    <3>3. QED
      BY <3>1, <3>2
  <2>2. QED
    BY <1>0, <2>1, RanksAreFunctions
<1>7. QED
  BY <1>4, <1>5, <1>6 DEF RankBarrier!Begin

(* When process p has its answer, every rank of every process has begun    *)
(* the barrier, or ended it.                                               *)
LEMMA EveryRankBegan ==
  ASSUME TypeOK, BarrierInv, NEW p \in Procs, phase[p].bits = "done",
         NEW q \in Procs, NEW u \in Workers
  PROVE  \/ RankEpoch[<<q, u>>] = Before(gepoch[p]) /\ RankBegan[<<q, u>>]
         \/ RankEpoch[<<q, u>>] = gepoch[p]
<1>0. gepoch[p] \in Epoch /\ gepoch[q] \in Epoch /\ wepoch[q][u] \in Epoch
  BY DEF TypeOK
<1>1. ~ gbegan[p]
  BY DEF BarrierInv, PhaseInv
<1>2. CASE gepoch[p] = gepoch[q]
  <2>1. CASE Behind(q, u)
    BY <1>0, <1>2, <2>1, RankValues, EpochFacts DEF Behind, Crossed
  <2>2. CASE Level(q, u)
    BY <1>2, <2>2, RankValues DEF Level
  <2>3. CASE Answered(q, u)
    BY <1>2, <2>3, RankValues DEF Answered, Crossed
  <2>4. CASE Ahead(q, u)
    BY <1>0, <1>2, <2>4, RankValues, EpochFacts DEF Ahead
  <2>5. QED
    BY <2>1, <2>2, <2>3, <2>4 DEF BarrierInv, WorkersInv
<1>3. CASE gepoch[p] = Next1(gepoch[q]) /\ gbegan[q]
  <2>1. Ahead(q, 1)
    BY <1>3 DEF BarrierInv, PhaseInv
  <2>2. Ahead(q, u) \/ (Level(q, u) /\ at[q][u] = "wbar")
    BY <2>1, ThreadFacts DEF BarrierInv, WorkersInv
  <2>3. RankEpoch[<<q, u>>] = gepoch[q] /\ RankBegan[<<q, u>>]
    BY <1>0, <2>2, RankValues, EpochFacts DEF Ahead, Level
  <2>4. QED
    BY <1>0, <1>3, <2>3, EpochFacts
<1>4. QED
  BY <1>1, <1>2, <1>3 DEF BarrierInv, ProcsInv

(* A worker that sees its epoch in the phase ends the barrier of the ranks.*)
LEMMA RankEnds ==
  ASSUME TypeOK, BarrierInv, NEW p \in Procs, NEW t \in Workers, BarrierEnd(p, t)
  PROVE  RankBarrier!End(<<p, t>>)
<1>0. t \in Threads /\ <<p, t>> \in Ranks
  BY ThreadFacts DEF Ranks
<1>1. ASSUME NEW q \in Procs, NEW u \in Workers
      PROVE  /\ wepoch'[q][u] = wepoch[q][u]
             /\ q # p \/ u # t => at'[q][u] = at[q][u]
  BY <1>0, ThreadFacts DEF BarrierEnd, barrierVars, Move, TypeOK
<1>2. /\ at[p][t] = "spin" /\ at'[p][t] \in {"user", "leave", "tbegin"}
      /\ phase[p] = [e |-> wepoch[p][t], bits |-> "done"]
  BY <1>0 DEF BarrierEnd, PhaseIs, Move, TypeOK
<1>3. phase[p].bits = "done" /\ wepoch[p][t] = gepoch[p]
  BY <1>2 DEF BarrierInv, PhaseInv
<1>4. wepoch[p][t] \in Epoch
  BY DEF TypeOK
<1>5. RankEpoch[<<p, t>>] = Before(gepoch[p]) /\ RankBegan[<<p, t>>]
  BY <1>2, <1>3, RankValues DEF Crossed
<1>6. /\ RankEpoch'[<<p, t>>] = Next1(RankEpoch[<<p, t>>])
      /\ ~ RankBegan'[<<p, t>>]
  <2>1. ~ Crossed(p, t)' /\ at'[p][t] # "wbar"
    BY <1>2 DEF Crossed
  <2>2. QED
    BY <1>1, <1>3, <1>4, <1>5, <2>1, RankValuesNext, EpochFacts
<1>7. ASSUME NEW q \in Procs, NEW u \in Workers, <<q, u>> # <<p, t>>
      PROVE  /\ RankEpoch'[<<q, u>>] = RankEpoch[<<q, u>>]
             /\ RankBegan'[<<q, u>>] <=> RankBegan[<<q, u>>]
  BY <1>1, <1>7, RankValues, RankValuesNext DEF Crossed
<1>8. RankEpoch' = [RankEpoch EXCEPT ![<<p, t>>] = Next1(@)]
  <2>1. \A r \in Ranks : RankEpoch'[r] = IF r = <<p, t>> THEN Next1(RankEpoch[<<p, t>>])
                                         ELSE RankEpoch[r]
    BY <1>6, <1>7 DEF Ranks
  <2>2. QED
    BY <1>0, <2>1, RanksAreFunctions
<1>9. RankBegan' = [RankBegan EXCEPT ![<<p, t>>] = FALSE]
  <2>1. \A r \in Ranks : RankBegan'[r] \in BOOLEAN /\ RankBegan[r] \in BOOLEAN
    BY DEF RankBegan, InBarrier
  <2>2. \A r \in Ranks : RankBegan'[r] <=> (RankBegan[r] /\ r # <<p, t>>)
    BY <1>6, <1>7 DEF Ranks
  <2>3. \A r \in Ranks : RankBegan'[r] = IF r = <<p, t>> THEN FALSE ELSE RankBegan[r]
    BY <2>1, <2>2
  <2>4. QED
    BY <1>0, <2>3, RanksAreFunctions
<1>10. \A r \in Ranks : \/ RankEpoch[r] = RankEpoch[<<p, t>>] /\ RankBegan[r]
                        \/ RankEpoch[r] = Next1(RankEpoch[<<p, t>>])
  <2>1. Next1(RankEpoch[<<p, t>>]) = gepoch[p]
    BY <1>3, <1>4, <1>5, EpochFacts
  <2>2. QED
    BY <1>3, <1>5, <2>1, EveryRankBegan DEF Ranks
<1>11. QED
  BY <1>5, <1>8, <1>9, <1>10
     DEF RankBarrier!End, RankBarrier!EveryoneBegan, RankBarrier!After, Next1

LEMMA RankInit == Init => RankBarrier!Init
<1> SUFFICES ASSUME Init PROVE RankBarrier!Init
  OBVIOUS
<1>1. calls = [q \in Procs |-> [t \in Workers |-> 0]] /\ wepoch = calls
  BY DEF Init
<1>2. \A p \in Procs, t \in Workers : at[p][t] = "user" /\ wepoch[p][t] = 0
  BY <1>1, ThreadFacts DEF Init
<1>3. \A r \in Ranks : RankEpoch[r] = 0 /\ RankBegan[r] = FALSE
  <2>1. ASSUME NEW p \in Procs, NEW t \in Workers
        PROVE  RankEpoch[<<p, t>>] = 0 /\ ~ RankBegan[<<p, t>>]
    <3>1. ~ Crossed(p, t) /\ at[p][t] # "wbar"
      BY <1>2 DEF Crossed
    <3>2. QED
      BY <1>2, <3>1, RankValues
  <2>2. \A r \in Ranks : RankBegan[r] \in BOOLEAN
    BY DEF RankBegan, InBarrier
  <2>3. QED
    BY <2>1, <2>2 DEF Ranks
<1>4. RankEpoch = [r \in Ranks |-> 0] /\ RankBegan = [r \in Ranks |-> FALSE]
  BY <1>3, RanksAreFunctions
<1>5. QED
  BY <1>4 DEF RankBarrier!Init

LEMMA RankNext ==
  ASSUME TypeOK, BarrierInv, [Next]_vars
  PROVE  [RankBarrier!Next]_RankBarrier!vars
<1>1. ASSUME NEW p \in Procs, NEW t \in Threads, ThreadStep(p, t)
      PROVE  [RankBarrier!Next]_RankBarrier!vars
  <2>2. CASE Aside(p) \/ Notify(p) \/ TryBarrier(p)
    BY <1>1, <2>2, RankAside DEF RankBarrier!vars
  <2>3. CASE t \in Workers /\ (WorkersMet(p, t) \/ (t = 1 /\ AskMaster(p)))
    BY <1>1, <2>3, RankInside DEF RankBarrier!vars
  <2>4. CASE t \in Workers /\ BarrierBegin(p, t)
    BY <2>4, RankBegins DEF RankBarrier!Next, Ranks
  <2>5. CASE t \in Workers /\ BarrierEnd(p, t)
    BY <2>5, RankEnds DEF RankBarrier!Next, Ranks
  <2>6. QED
    BY <1>1, <2>2, <2>3, <2>4, <2>5, BarrierMoves
<1>2. CASE UNCHANGED vars
  BY <1>2 DEF vars, barrierVars, RankBarrier!vars, RankEpoch, RankBegan, InBarrier
<1>3. ASSUME NEW p \in Procs, NEW t \in Workers, SpuriousReturn(p, t)
      PROVE  [RankBarrier!Next]_RankBarrier!vars
  BY <1>3, RankSpurious DEF RankBarrier!vars
<1>4. QED
  BY <1>1, <1>2, <1>3 DEF Next

(* deva::barrier of world_gasnet.cxx, with its worker 1 that asks the      *)
(* master and the master that polls GASNet: for any number of processes    *)
(* and workers, no rank ends a barrier that another has yet to begin.      *)
THEOREM RankBarrierHolds == Spec => ImplementsRankBarrier
<1>1. Init => TypeOK /\ BarrierInv /\ RankBarrier!Init
  BY TypeInit, BarrierInit, RankInit
<1>2. TypeOK /\ BarrierInv /\ [Next]_vars => (TypeOK /\ BarrierInv)'
  BY TypeNext, BarrierNext
<1>3. TypeOK /\ BarrierInv /\ [Next]_vars => [RankBarrier!Next]_RankBarrier!vars
  BY RankNext
<1>4. QED
  BY <1>1, <1>2, <1>3, PTL DEF Spec, ImplementsRankBarrier, RankBarrier!Spec

-----------------------------------------------------------------------------
(* The barrier of a pool of threads                                        *)

OfBarrier == INSTANCE BarrierProofs

LEMMA DisseminationConstants == OfBarrier!ConstantsOK
  BY DisseminationAssumption DEF OfBarrier!ConstantsOK, Dissemination!ConstantsOK

LEMMA DisseminationInit == Dissemination!Init => OfBarrier!Init
  BY DEF Dissemination!Init, OfBarrier!Init, Dissemination!Zeros, OfBarrier!Zeros,
         Dissemination!Threads, OfBarrier!Threads, Dissemination!Phases, OfBarrier!Phases,
         Dissemination!Slots, OfBarrier!Slots

(* A step of the one is a step of the other: the same definitions.         *)
LEMMA DisseminationNext == Dissemination!Next => OfBarrier!Next
  BY DEF Dissemination!Next, OfBarrier!Next,
         Dissemination!ThreadStep, OfBarrier!ThreadStep, Dissemination!Begin, OfBarrier!Begin,
         Dissemination!Pass, OfBarrier!Pass, Dissemination!TryEnd, OfBarrier!TryEnd,
         Dissemination!Spin, OfBarrier!Spin, Dissemination!Drain, OfBarrier!Drain,
         Dissemination!vars, OfBarrier!vars, Dissemination!Phase, OfBarrier!Phase,
         Dissemination!Mine, OfBarrier!Mine, Dissemination!FlagOf, OfBarrier!FlagOf,
         Dissemination!BitOr, OfBarrier!BitOr, Dissemination!SetFlag, OfBarrier!SetFlag,
         Dissemination!ClearFlags, OfBarrier!ClearFlags, Dissemination!Stored, OfBarrier!Stored,
         Dissemination!Arrived, OfBarrier!Arrived, Dissemination!Zeros, OfBarrier!Zeros,
         Dissemination!Threads, OfBarrier!Threads, Dissemination!Slots, OfBarrier!Slots

LEMMA BehavesAsBarrier == MCFairSpec => OfBarrier!Spec
<1>1. MCInit => OfBarrier!Init
  BY DisseminationInit DEF MCInit
<1>2. [MCNext]_allVars => [OfBarrier!Next]_(OfBarrier!vars)
  BY DisseminationNext DEF MCNext, allVars, disseminationVars, OfBarrier!vars
<1> QED
  BY <1>1, <1>2, PTL DEF MCFairSpec, OfBarrier!Spec

(* barrier_state: or_result is the disjunction of what all threads gave,   *)
(* for every number of threads and every interleaving of their stores.     *)
THEOREM MCOrExact == MCFairSpec => []OrExact
<1>1. OfBarrier!Spec => []OfBarrier!OrExact
  BY DisseminationConstants, OfBarrier!DisjunctionIsExact
<1>2. OfBarrier!OrExact => OrExact
  BY DEF OrExact, Dissemination!OrExact, OfBarrier!OrExact, Dissemination!Threads, OfBarrier!Threads,
         Dissemination!or_result, OfBarrier!or_result, Dissemination!Phase, OfBarrier!Phase
<1> QED
  BY <1>1, <1>2, BehavesAsBarrier, PTL

(* barrier_state: nobody ends a barrier that some thread has not begun.    *)
THEOREM MCImplementsBarrier == MCFairSpec => ImplementsBarrier
<1>1. OfBarrier!Spec => OfBarrier!ImplementsBarrier
  BY DisseminationConstants, OfBarrier!BarrierIsImplemented
<1>2. OfBarrier!ImplementsBarrier => ImplementsBarrier
  <2>1. OfBarrier!B!Init => Dissemination!B!Init
    BY DEF OfBarrier!B!Init, Dissemination!B!Init, Dissemination!Threads, OfBarrier!Threads
  <2>2. [OfBarrier!B!Next]_(OfBarrier!B!vars) => [Dissemination!B!Next]_(Dissemination!B!vars)
    BY DEF OfBarrier!B!Next, Dissemination!B!Next, OfBarrier!B!vars, Dissemination!B!vars,
           OfBarrier!B!Begin, Dissemination!B!Begin, OfBarrier!B!End, Dissemination!B!End,
           OfBarrier!B!EveryoneBegan, Dissemination!B!EveryoneBegan,
           OfBarrier!B!After, Dissemination!B!After, Dissemination!Threads, OfBarrier!Threads
  <2> QED
    BY <2>1, <2>2, PTL DEF ImplementsBarrier, OfBarrier!ImplementsBarrier,
                           Dissemination!ImplementsBarrier, OfBarrier!B!Spec, Dissemination!B!Spec
<1> QED
  BY <1>1, <1>2, BehavesAsBarrier, PTL

-----------------------------------------------------------------------------
(* The arena of a thread                                                   *)

OfArena == INSTANCE EpochAllocatorProofs

(* Every behaviour is one of the allocator: the same definitions.          *)
LEMMA BehavesAsArena == MCFairSpec => OfArena!Spec
<1>1. MCInit => OfArena!Init
  BY DEF MCInit, Arena!Init, OfArena!Init, Arena!LastEdge, OfArena!LastEdge
<1>2. Arena!Next => OfArena!Next
  BY DEF Arena!Next, OfArena!Next, Arena!AllocateHere, OfArena!AllocateHere,
         Arena!AllocateBeyond, OfArena!AllocateBeyond, Arena!bump_epoch, OfArena!bump_epoch,
         Arena!Take, OfArena!Take, Arena!AlignUp, OfArena!AlignUp,
         Arena!EdgeBefore, OfArena!EdgeBefore, Arena!RemovesLow, OfArena!RemovesLow,
         Arena!Lowered, OfArena!Lowered, Arena!ShiftedDown, OfArena!ShiftedDown,
         Arena!Renumbered, OfArena!Renumbered, Arena!LastEdge, OfArena!LastEdge
<1>3. [MCNext]_allVars => [OfArena!Next]_(OfArena!vars)
  BY <1>2 DEF MCNext, allVars, epochVars, OfArena!vars
<1> QED
  BY <1>1, <1>3, PTL DEF MCFairSpec, OfArena!Spec

(* epoch_allocator: a message keeps its memory, inside the arena and apart *)
(* from every other message, as long as its epoch may need it, for any     *)
(* number of epochs, any capacity and any sizes.                           *)
THEOREM MCNoOverlap == MCFairSpec => []NoOverlap
<1>1. OfArena!ConstantsOK
  BY ArenaAssumption DEF OfArena!ConstantsOK, Arena!ConstantsOK
<1>2. OfArena!Spec => []OfArena!NoOverlap
  BY <1>1, OfArena!MemoryKept
<1>3. OfArena!NoOverlap => NoOverlap
  BY DEF NoOverlap, Arena!NoOverlap, OfArena!NoOverlap
<1> QED
  BY <1>2, <1>3, BehavesAsArena, PTL
=============================================================================
