------------------------------ MODULE WorldRun ------------------------------
(***************************************************************************)
(* How a program of several processes runs: the pool of threads of         *)
(* threads.cxx, and on top of it deva::run and deva::barrier of            *)
(* world/world_gasnet.cxx.  Thread 0 of a process is its master: it pumps  *)
(* messages and drives the barrier among processes until thread 1 tells it *)
(* to leave.  The other threads are the workers: each executes the user's  *)
(* function, here a number of calls of deva::barrier.                      *)
(*                                                                         *)
(* threads::barrier, the barrier among the workers and the barrier of      *)
(* GASNet are the abstract ThreadBarrier, which module Barrier shows       *)
(* barrier_state.hxx to implement.                                         *)
(***************************************************************************)
EXTENDS Integers, FiniteSets

CONSTANTS
  Procs,      (* the processes                                             *)
  WorkerN,    (* worker_n: thread_n - 1                                    *)
  Mod,        (* 16, the range of the epoch in bigbar_phase_; at least 3   *)
  Barriers,   (* calls of deva::barrier by the user's function             *)
  Runs,       (* Bound: calls of deva::run before the program exits        *)
  SpuriousMax (* Bound: returns of pthread_cond_wait without a signal      *)

ConstantsOK ==
  /\ IsFiniteSet(Procs) /\ WorkerN \in Nat \ {0}
  /\ Mod \in Nat /\ Mod >= 3
  /\ Barriers \in Nat /\ Runs \in Nat \ {0} /\ SpuriousMax \in Nat

ASSUME ConstantsAssumption == ConstantsOK

Threads == 0 .. WorkerN
Workers == 1 .. WorkerN

VARIABLES
  at,           (* where each thread is                                    *)
  calls,        (* barriers that a worker has begun in this run            *)
  wepoch, wbegan, (* wbar_l_ of each worker                                *)
  phase,        (* bigbar_phase_: its epoch, and its bits 0x10 and 0x20    *)
                (* as "asked" and "notified"                               *)
  gepoch, gbegan, (* GASNet's barrier, seen from each process              *)
  leave_pump,
  tepoch, tbegan, (* barrier_l_ of each thread                             *)
  run_epoch, run_epoch_prev,  (* modulo Mod                                *)
  shutdown,
  runs,         (* history: calls of run by each process                   *)
  ran,          (* history: executions of run_fn by each thread            *)
  spurious,     (* returns of pthread_cond_wait without a signal so far    *)
  stray         (* history: has a worker of the process gone on in the loop*)
                (* of tmain with neither a new run nor shutdown            *)

barrierVars == <<calls, wepoch, wbegan, phase, gepoch, gbegan>>
poolVars == <<run_epoch, run_epoch_prev, shutdown, runs>>
threadBarrierVars == <<tepoch, tbegan>>
strayVars == <<spurious, stray>>
vars == <<at, barrierVars, leave_pump, threadBarrierVars, poolVars, ran, strayVars>>

GasnetBarrier == INSTANCE ThreadBarrier WITH Threads <- Procs, epoch <- gepoch, began <- gbegan
WorkerBarrier(p) == INSTANCE ThreadBarrier WITH Threads <- Workers, epoch <- wepoch[p], began <- wbegan[p]
PoolBarrier(p) == INSTANCE ThreadBarrier WITH epoch <- tepoch[p], began <- tbegan[p]

Next1(e) == (e + 1) % Mod

(* The first run: its threads have been created and are at run_fn.         *)
Init ==
  /\ at = [p \in Procs |-> [t \in Threads |-> IF t = 0 THEN "pump" ELSE "user"]]
  /\ calls = [p \in Procs |-> [t \in Workers |-> 0]]
  /\ wepoch = calls /\ wbegan = [p \in Procs |-> [t \in Workers |-> FALSE]]
  /\ phase = [p \in Procs |-> [e |-> 0, bits |-> "done"]]
  /\ gepoch = [p \in Procs |-> 0] /\ gbegan = [p \in Procs |-> FALSE]
  /\ leave_pump = [p \in Procs |-> FALSE]
  /\ tepoch = [p \in Procs |-> [t \in Threads |-> 0]]
  /\ tbegan = [p \in Procs |-> [t \in Threads |-> FALSE]]
  /\ run_epoch = [p \in Procs |-> 0]
  /\ run_epoch_prev = [p \in Procs |-> [t \in Workers |-> 0]]
  /\ shutdown = [p \in Procs |-> FALSE]
  /\ runs = [p \in Procs |-> 1]
  /\ ran = [p \in Procs |-> [t \in Workers |-> 1]]
  /\ spurious = 0 /\ stray = [p \in Procs |-> FALSE]

Move(p, t, from, to) ==
  /\ at[p][t] = from
  /\ at' = [at EXCEPT ![p][t] = to]

-----------------------------------------------------------------------------
(* deva::barrier: by the user's function, and once by run after it         *)

BarrierBegin(p, t) ==
  /\ Move(p, t, "user", "wbar")
  /\ calls[p][t] <= Barriers
  /\ calls' = [calls EXCEPT ![p][t] = @ + 1]
  /\ wbegan' = [wbegan EXCEPT ![p][t] = TRUE]
  /\ UNCHANGED <<wepoch, phase, gepoch, gbegan, leave_pump, threadBarrierVars, poolVars, ran, strayVars>>

(* try_end; thread 1 will tell the master                                  *)
WorkersMet(p, t) ==
  /\ Move(p, t, "wbar", IF t = 1 THEN "ask" ELSE "spin")
  /\ WorkerBarrier(p)!EveryoneBegan(t)
  /\ wbegan' = [wbegan EXCEPT ![p][t] = FALSE]
  /\ wepoch' = [wepoch EXCEPT ![p][t] = Next1(@)]
  /\ UNCHANGED <<calls, phase, gepoch, gbegan, leave_pump, threadBarrierVars, poolVars, ran, strayVars>>

AskMaster(p) ==
  /\ Move(p, 1, "ask", "spin")
  /\ phase' = [phase EXCEPT ![p] = [e |-> wepoch[p][1], bits |-> "asked"]]
  /\ UNCHANGED <<calls, wepoch, wbegan, gepoch, gbegan, leave_pump, threadBarrierVars, poolVars, ran, strayVars>>

PhaseIs(p, e) == phase[p] = [e |-> e, bits |-> "done"]

BarrierEnd(p, t) ==
  /\ Move(p, t, "spin", IF calls[p][t] <= Barriers THEN "user"
                        ELSE IF t = 1 THEN "leave" ELSE "tbegin")
  /\ PhaseIs(p, wepoch[p][t])
  /\ UNCHANGED <<barrierVars, leave_pump, threadBarrierVars, poolVars, ran, strayVars>>

(* master_pump: the part that concerns the barrier, in one turn of its loop*)
Notify(p) ==
  /\ at[p][0] = "pump" /\ ~ leave_pump[p]
  /\ phase[p].bits = "asked"
  /\ phase' = [phase EXCEPT ![p] = [e |-> @.e, bits |-> "notified"]]
  /\ GasnetBarrier!Begin(p)
  /\ UNCHANGED <<at, calls, wepoch, wbegan, leave_pump, threadBarrierVars, poolVars, ran, strayVars>>

(* gasnet_barrier_try says GASNET_OK: nothing but Notify began it.         *)
ThisProcess(p) == /\ gbegan' = [gbegan EXCEPT ![p] = FALSE]
                  /\ gepoch' = [gepoch EXCEPT ![p] = Next1(@)]
EveryProcess(p) == GasnetBarrier!End(p)
TryBarrier(p) ==
  /\ at[p][0] = "pump" /\ ~ leave_pump[p]
  /\ phase[p].bits = "notified"
  /\ EveryProcess(p)
  /\ phase' = [phase EXCEPT ![p] = [e |-> @.e, bits |-> "done"]]
  /\ UNCHANGED <<at, calls, wepoch, wbegan, leave_pump, threadBarrierVars, poolVars, ran, strayVars>>

-----------------------------------------------------------------------------
(* The end of deva::run                                                    *)

LetMasterLeave(p) ==
  /\ Move(p, 1, "leave", "tbegin")
  /\ leave_pump' = [leave_pump EXCEPT ![p] = TRUE]
  /\ UNCHANGED <<barrierVars, threadBarrierVars, poolVars, ran, strayVars>>

MasterLeaves(p) ==
  /\ Move(p, 0, "pump", "tbegin")
  /\ leave_pump[p]
  /\ leave_pump' = [leave_pump EXCEPT ![p] = FALSE]
  /\ UNCHANGED <<barrierVars, threadBarrierVars, poolVars, ran, strayVars>>

PoolBarrierBegin(p, t) ==
  /\ Move(p, t, "tbegin", "tbar")
  /\ tbegan' = [tbegan EXCEPT ![p][t] = TRUE]
  /\ UNCHANGED <<barrierVars, leave_pump, tepoch, poolVars, ran, strayVars>>

PoolBarrierEnd(p, t) ==
  /\ Move(p, t, "tbar", IF t = 0 THEN "main" ELSE "lock")
  /\ PoolBarrier(p)!EveryoneBegan(t)
  /\ tbegan' = [tbegan EXCEPT ![p][t] = FALSE]
  /\ tepoch' = [tepoch EXCEPT ![p][t] = Next1(@)]
  /\ UNCHANGED <<barrierVars, leave_pump, poolVars, ran, strayVars>>

-----------------------------------------------------------------------------
(* The pool: what follows the barrier in tmain.  A critical section of the *)
(* mutex is one action.  A signal wakes one of the threads that wait, if   *)
(* there is one; a thread that was woken takes the mutex some time later.  *)
(* pthread_cond_wait may also return with no signal, or a signal may wake  *)
(* more than one thread: POSIX allows both, and asks for a loop around it. *)

Waiting(p) == {t \in Workers : at[p][t] = "waiting"}

(* pthread_cond_signal, after which t is at to                             *)
SignalFrom(p, t, to) ==
  \/ /\ Waiting(p) = {}
     /\ at' = [at EXCEPT ![p][t] = to]
  \/ \E u \in Waiting(p) : at' = [at EXCEPT ![p][t] = to, ![p][u] = "woken"]
NoSignalFrom(p, t, to) == at' = [at EXCEPT ![p][t] = to]

ToldAlready(p, t) == shutdown[p] \/ run_epoch[p] # run_epoch_prev[p][t]

Wait(p, t) ==
  /\ Move(p, t, "lock", "waiting")
  /\ ~ ToldAlready(p, t)
  /\ UNCHANGED <<barrierVars, leave_pump, threadBarrierVars, poolVars, ran, strayVars>>

(* pthread_cond_wait returns to t, and nobody has signalled it.            *)
SpuriousReturn(p, t) ==
  /\ Move(p, t, "waiting", "woken")
  /\ spurious < SpuriousMax
  /\ spurious' = spurious + 1
  /\ UNCHANGED <<barrierVars, leave_pump, threadBarrierVars, poolVars, ran, stray>>

(* The rest of the critical section, and the next turn of the loop.  What  *)
(* was waited for is not asked again: a worker that has returned without   *)
(* news is stray.  It calls the old run_fn, a reference to a closure in the*)
(* frame of a run that has returned (here it does as that closure said),   *)
(* and its signal may make another worker stray.                           *)
PassSignal(p, t, to) == SignalFrom(p, t, to)
SeenBefore(p, old) == old
Seen(p, old) == run_epoch[p]
GoOn(p, t) ==
  /\ \/ at[p][t] = "lock" /\ ToldAlready(p, t)
     \/ at[p][t] = "woken"
  /\ PassSignal(p, t, IF shutdown[p] THEN "exited" ELSE "user")
  /\ run_epoch_prev' = [run_epoch_prev EXCEPT ![p][t] = Seen(p, @)]
  /\ ran' = IF shutdown[p] THEN ran ELSE [ran EXCEPT ![p][t] = @ + 1]
  /\ calls' = [calls EXCEPT ![p][t] = 0]
  /\ stray' = [stray EXCEPT ![p] = @ \/ ~ ToldAlready(p, t)]
  /\ UNCHANGED <<wepoch, wbegan, phase, gepoch, gbegan, leave_pump, threadBarrierVars,
                 run_epoch, shutdown, runs, spurious>>

(* threads::run, called again                                              *)
Run(p) ==
  /\ at[p][0] = "main" /\ runs[p] < Runs
  /\ SignalFrom(p, 0, "pump")
  /\ run_epoch' = [run_epoch EXCEPT ![p] = Next1(@)]
  /\ runs' = [runs EXCEPT ![p] = @ + 1]
  /\ UNCHANGED <<barrierVars, leave_pump, threadBarrierVars, run_epoch_prev, shutdown, ran,
                 strayVars>>

(* main_exited                                                             *)
MainExited(p) ==
  /\ at[p][0] = "main" /\ runs[p] = Runs
  /\ SignalFrom(p, 0, "exited")
  /\ shutdown' = [shutdown EXCEPT ![p] = TRUE]
  /\ UNCHANGED <<barrierVars, leave_pump, threadBarrierVars, run_epoch, run_epoch_prev, runs, ran,
                 strayVars>>

WorkerStep(p, t) ==
  \/ BarrierBegin(p, t)
  \/ WorkersMet(p, t)
  \/ t = 1 /\ AskMaster(p)
  \/ BarrierEnd(p, t)
  \/ t = 1 /\ LetMasterLeave(p)
  \/ Wait(p, t)
  \/ GoOn(p, t)

MasterStep(p) ==
  \/ Notify(p)
  \/ TryBarrier(p)
  \/ MasterLeaves(p)
  \/ Run(p)
  \/ MainExited(p)

ThreadStep(p, t) ==
  \/ PoolBarrierBegin(p, t)
  \/ PoolBarrierEnd(p, t)
  \/ t = 0 /\ MasterStep(p)
  \/ t # 0 /\ WorkerStep(p, t)

Next ==
  \E p \in Procs : \/ \E t \in Threads : ThreadStep(p, t)
                   \/ \E t \in Workers : SpuriousReturn(p, t)

Spec == Init /\ [][Next]_vars

(* Every thread is scheduled again and again; no return without a signal   *)
(* is ever owed.                                                           *)
Fairness == \A p \in Procs, t \in Threads : WF_vars(ThreadStep(p, t))
FairSpec == Spec /\ Fairness

-----------------------------------------------------------------------------
(* What deva::barrier promises to the ranks of all processes: the barrier  *)
(* among threads, now among ranks.                                         *)
Ranks == Procs \X Workers
InBarrier(p, t) == at[p][t] \in {"wbar", "ask", "spin"}
Before(e) == (e + Mod - 1) % Mod

RankEpoch == [r \in Ranks |-> LET e == wepoch[r[1]][r[2]]
                              IN  IF at[r[1]][r[2]] \in {"ask", "spin"} THEN Before(e) ELSE e]
RankBegan == [r \in Ranks |-> InBarrier(r[1], r[2])]

RankBarrier ==
  INSTANCE ThreadBarrier WITH Threads <- Ranks, epoch <- RankEpoch, began <- RankBegan

(* No rank leaves a deva::barrier that a rank of some process has not      *)
(* entered: workers, masters and GASNet together make one barrier.         *)
ImplementsRankBarrier == RankBarrier!Spec

(* Every thread executes the function of every run once, whichever thread  *)
(* was late for the signal: a worker is in the run that main is in, and    *)
(* when run returns, no worker has missed it.  Only a stray worker breaks  *)
(* it, in its own process and from then on; POSIX lets it happen, so the   *)
(* unconditional claim is false of the code.  But signals alone, handed on *)
(* from thread to thread, make none stray; and a return without a signal is*)
(* harmless when there is a new run, or shutdown, by the time that the     *)
(* worker has the mutex.                                                   *)
OncePerRun ==
  \A p \in Procs :
    /\ stray[p] => spurious > 0
    /\ ~ stray[p] => \A t \in Workers :
         /\ ran[p][t] <= runs[p]
         /\ at[p][t] \in {"user", "wbar", "ask", "spin", "leave", "tbegin"}
              => ran[p][t] = runs[p]
         /\ at[p][0] = "main" => ran[p][t] = runs[p]

(* The program has ended: every run has returned in every process, and on  *)
(* exit every thread of the pool has left its loop.                        *)
Exited == \A p \in Procs, t \in Threads : at[p][t] = "exited"
=============================================================================
