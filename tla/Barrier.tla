------------------------------ MODULE Barrier ------------------------------
(***************************************************************************)
(* devastator/threads/barrier_state.hxx: a dissemination barrier that also *)
(* computes a disjunction.  A thread that begins sets a flag of its        *)
(* neighbour; a thread whose flag i is set passes on to flag i+1 of the    *)
(* thread 2^(i+1) further; the last flag means that everyone has begun.    *)
(* Flags are bytes written without locks: by others to set them, by their  *)
(* owner to clear them all.  There are two sets, used in turn.             *)
(*                                                                         *)
(* The stores of a thread reach the others later, in the order they were   *)
(* made (the store buffer of x86; the fences of the code order no more):   *)
(* the thread itself sees them at once.                                    *)
(***************************************************************************)
EXTENDS Integers, Sequences

CONSTANTS
  N,         (* thread_n                                                   *)
  Log,       (* log2_thread_n                                              *)
  EpochMod   (* Bound: e64 is counted modulo EpochMod                      *)

ConstantsOK ==
  /\ N \in Nat \ {0} /\ Log \in Nat \ {0}
  /\ 2^Log >= N /\ (Log > 1 => 2^(Log - 1) < N)
  /\ EpochMod \in Nat /\ EpochMod >= 3 /\ EpochMod % 2 = 0

Threads == 0 .. N - 1
Slots == 0 .. Log - 1
Phases == {0, 1}

(* A flag: 0x1 says that it is set, 0x2 carries the disjunction.           *)
FlagOf(or_in) == IF or_in THEN 3 ELSE 1
BitOrAssigns(a, b) == b
BitOr(a, b) == IF a = b THEN a ELSE IF 0 \in {a, b} THEN a + b ELSE 3

VARIABLES
  pc,        (* "out" of a barrier or "in" it                              *)
  i,         (* next flag to wait for                                      *)
  e64, or_acc,
  hot,       (* hot[t].phase[ph].slot[s] in memory                         *)
  buffer,    (* stores of a thread on their way to memory                  *)
  given      (* history: what each thread put into the last barrier of     *)
             (* either phase                                               *)

vars == <<pc, i, e64, or_acc, hot, buffer, given>>

PhaseNone(e) == 0
Phase(e) == e % 2

Zeros == [s \in Slots |-> 0]

Init ==
  /\ pc = [t \in Threads |-> "out"]
  /\ i = [t \in Threads |-> 0]
  /\ e64 = [t \in Threads |-> 0]
  /\ or_acc = [t \in Threads |-> [ph \in Phases |-> 0]]
  /\ hot = [t \in Threads |-> [ph \in Phases |-> Zeros]]
  /\ buffer = [t \in Threads |-> <<>>]
  /\ given = [t \in Threads |-> [ph \in Phases |-> FALSE]]

(* The stores: a flag of another thread, or a clearing of one's own.       *)
SetFlag(t, ph, s, flag) == [of |-> t, phase |-> ph, slots |-> {s}, to |-> flag]
ClearFlags(t, ph) == [of |-> t, phase |-> ph, slots |-> Slots, to |-> 0]

Stored(row, w) == [s \in Slots |-> IF s \in w.slots THEN w.to ELSE row[s]]

(* What t sees of its own flags: memory under its own stores.              *)
Mine(t, ph) ==
  IF \E k \in DOMAIN buffer[t] : buffer[t][k].of = t /\ buffer[t][k].phase = ph
  THEN Zeros ELSE hot[t][ph]

Drain(t) ==
  LET w == Head(buffer[t])
  IN  /\ buffer[t] # <<>>
      /\ hot' = [hot EXCEPT ![w.of][w.phase] = Stored(@, w)]
      /\ buffer' = [buffer EXCEPT ![t] = Tail(@)]
      /\ UNCHANGED <<pc, i, e64, or_acc, given>>

(* begin, up to its first advance                                          *)
Begin(t, or_in) ==
  LET ph == Phase(e64[t])
      peer == (t + 1) % N
  IN  /\ pc[t] = "out"
      /\ pc' = [pc EXCEPT ![t] = "in"]
      /\ buffer' = [buffer EXCEPT ![t] = Append(@, SetFlag(peer, ph, 0, FlagOf(or_in)))]
      /\ i' = [i EXCEPT ![t] = 0]
      /\ or_acc' = [or_acc EXCEPT ![t][ph] = FlagOf(or_in)]
      /\ given' = [given EXCEPT ![t][ph] = or_in]
      /\ UNCHANGED <<e64, hot>>

(* advance: one turn of its loop                                           *)
ArrivedAnyway(flag) == TRUE
Arrived(flag) == flag # 0

Pass(t) ==
  LET ph == Phase(e64[t])
      flag == Mine(t, ph)[i[t]]
      peer == (t + 2^(i[t] + 1)) % N
  IN  /\ pc[t] = "in" /\ N > 1 /\ i[t] < Log - 1
      /\ Arrived(flag)
      /\ or_acc' = [or_acc EXCEPT ![t][ph] = BitOr(@, flag)]
      /\ buffer' = [buffer EXCEPT ![t] = Append(@, SetFlag(peer, ph, i[t] + 1,
                                                    BitOr(or_acc[t][ph], flag)))]
      /\ i' = [i EXCEPT ![t] = @ + 1]
      /\ UNCHANGED <<pc, e64, hot, given>>

(* try_end, when advance says true: - 1 takes the notify bit away          *)
TryEnd(t) ==
  LET ph == Phase(e64[t])
      flag == Mine(t, ph)[Log - 1]
  IN  /\ pc[t] = "in"
      /\ N > 1 => i[t] = Log - 1 /\ Arrived(flag)
      /\ or_acc' = [or_acc EXCEPT ![t][ph] = (IF N > 1 THEN BitOr(@, flag) ELSE @) - 1]
      /\ buffer' = [buffer EXCEPT ![t] = Append(@, ClearFlags(t, ph))]
      /\ e64' = [e64 EXCEPT ![t] = (@ + 1) % EpochMod]
      /\ pc' = [pc EXCEPT ![t] = "out"]
      /\ UNCHANGED <<i, hot, given>>

(* try_end, when advance says false: the thread will ask again.            *)
Spin(t) ==
  LET flag == Mine(t, Phase(e64[t]))[i[t]]
  IN  /\ pc[t] = "in" /\ N > 1 /\ ~ Arrived(flag)
      /\ UNCHANGED vars

or_result(t) == or_acc[t][1 - Phase(e64[t])] # 0

ThreadStep(t) ==
  \/ \E or_in \in BOOLEAN : Begin(t, or_in)
  \/ Pass(t)
  \/ TryEnd(t)

Next == \E t \in Threads : ThreadStep(t) \/ Spin(t) \/ Drain(t)

Spec == Init /\ [][Next]_vars

Fairness ==
  \A t \in Threads : WF_vars(ThreadStep(t)) /\ WF_vars(Drain(t))
FairSpec == Spec /\ Fairness

-----------------------------------------------------------------------------
(* or_result() is the disjunction of what every thread gave to the barrier *)
(* just ended, though faster threads have given to the next one already.   *)
OrExact ==
  \A t \in Threads :
    pc[t] = "out" => (or_result(t) <=> \E u \in Threads : given[u][1 - Phase(e64[t])])

B == INSTANCE ThreadBarrier
       WITH Mod <- EpochMod, epoch <- e64, began <- [t \in Threads |-> pc[t] = "in"]

(* No thread ends a barrier that some thread has not begun.                *)
ImplementsBarrier == B!Spec

(* Threads that keep calling try_end end every barrier they begin: thread  *)
(* 0 does, and the others are never more than one barrier behind it.       *)
EndsEvery == pc[0] = "in" ~> pc[0] = "out"
=============================================================================
