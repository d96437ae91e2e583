------------------------------ MODULE MCThreads ------------------------------
(***************************************************************************)
(* Instance for TLC of modules about threads that do not share state: the  *)
(* life of a program on several processes (WorldRun), the barrier of       *)
(* barrier_state.hxx, whose promise the former uses, and the arena of a    *)
(* thread's messages (epoch_allocator.hxx).  A behaviour is one of the part*)
(* it begins in; the other parts stay in their initial states.             *)
(***************************************************************************)
EXTENDS WorldRun, Sequences

CONSTANTS
  N, Log, EpochMod,                                   (* of Barrier        *)
  Epochs, Capacity, Sizes, Aligns                     (* of EpochAllocator *)

VARIABLES
  part,
  pc, i, e64, or_acc, hot, buffer, given,             (* of Barrier        *)
  ed, bump, wall, lo, edge, blocks                    (* of EpochAllocator *)

disseminationVars == <<pc, i, e64, or_acc, hot, buffer, given>>
epochVars == <<ed, bump, wall, lo, edge, blocks>>
allVars == <<part, disseminationVars, epochVars, vars>>

Dissemination == INSTANCE Barrier
Arena == INSTANCE EpochAllocator

ASSUME DisseminationAssumption == Dissemination!ConstantsOK
ASSUME ArenaAssumption == Arena!ConstantsOK

MCInit ==
  /\ part \in {"barrier", "program", "arena"}
  /\ Dissemination!Init /\ Arena!Init /\ Init

MCNext ==
  /\ UNCHANGED part
  /\ \/ part = "barrier" /\ Dissemination!Next /\ UNCHANGED <<epochVars, vars>>
     \/ part = "program" /\ Next /\ UNCHANGED <<disseminationVars, epochVars>>
     \/ part = "arena" /\ Arena!Next /\ UNCHANGED <<disseminationVars, vars>>

MCFairSpec ==
  /\ MCInit /\ [][MCNext]_allVars
  /\ \A t \in Dissemination!Threads :
       /\ WF_allVars(part = "barrier" /\ Dissemination!ThreadStep(t) /\ UNCHANGED <<part, epochVars, vars>>)
       /\ WF_allVars(part = "barrier" /\ Dissemination!Drain(t) /\ UNCHANGED <<part, epochVars, vars>>)
  /\ \A p \in Procs, t \in Threads :
       WF_allVars(part = "program" /\ ThreadStep(p, t) /\ UNCHANGED <<part, disseminationVars, epochVars>>)

-----------------------------------------------------------------------------
(* barrier_state: or_result is the disjunction of what all threads gave.   *)
OrExact == Dissemination!OrExact
(* epoch_allocator: a message keeps its memory for its epochs.             *)
NoOverlap == Arena!NoOverlap
(* barrier_state: nobody ends a barrier that some thread has not begun.    *)
ImplementsBarrier == Dissemination!ImplementsBarrier
(* barrier_state: threads that keep asking end every barrier they begin.   *)
EndsEvery == Dissemination!EndsEvery
(* deva::run returns every time, and all threads exit, unless a worker of  *)
(* some process went stray: pthread_cond_wait of threads.cxx:168-169, in an*)
(* `if` rather than a loop, returned to it with no news.                   *)
AllExit == <>(part = "program" => Exited \/ \E p \in Procs : stray[p])
=============================================================================
