--------------------------- MODULE ThreadBarrier ---------------------------
(***************************************************************************)
(* What a barrier among threads promises (threads/barrier_state.hxx): a    *)
(* thread begins it, goes on with something else, and ends it some time    *)
(* after every thread has begun it.  The next barrier may be begun at      *)
(* once, while others have yet to end this one.                            *)
(***************************************************************************)
EXTENDS Integers

CONSTANTS
  Threads,
  Mod        (* Bound: epochs are counted modulo Mod, at least 3, since a  *)
             (* thread is at most one barrier ahead of another             *)

VARIABLES
  epoch,     (* how many barriers each thread has ended                    *)
  began      (* has it begun the next?                                     *)

vars == <<epoch, began>>

After(e) == (e + 1) % Mod

(* t may end its barrier: every thread has begun it, or has even ended it. *)
EveryoneBegan(t) ==
  /\ began[t]
  /\ \A u \in Threads : \/ epoch[u] = epoch[t] /\ began[u]
                        \/ epoch[u] = After(epoch[t])

Init ==
  /\ epoch = [t \in Threads |-> 0]
  /\ began = [t \in Threads |-> FALSE]

Begin(t) ==
  /\ ~ began[t]
  /\ began' = [began EXCEPT ![t] = TRUE]
  /\ UNCHANGED epoch

End(t) ==
  /\ EveryoneBegan(t)
  /\ epoch' = [epoch EXCEPT ![t] = After(@)]
  /\ began' = [began EXCEPT ![t] = FALSE]

Next == \E t \in Threads : Begin(t) \/ End(t)

Spec == Init /\ [][Next]_vars
=============================================================================
