------------------------------- MODULE MCPdes -------------------------------
(* Instances of Pdes for TLC: small programs whose events send depending   *)
(* on the state that earlier events left, so that speculation goes wrong.  *)
EXTENDS Pdes

OneProcess == [r \in Ranks |-> 0]
OwnProcess == [r \in Ranks |-> r]

EventTo(c, d, p) == [cd |-> c, dt |-> d, pay |-> p]
To(c, d, p) == [lb |-> Single, to |-> <<EventTo(c, d, p)>>]
RootAt(c, t, p) == [cd |-> c, time |-> t, pay |-> p]

(* cds 0 and 1 on rank 0, cd 2 on rank 1.                                  *)
TwoAndOne(c) == c \div 2

(* User code, by the payload of the event.                                 *)
(* Program 1 .. 6: the roots of cd 2 can run before an earlier event from  *)
(* cd 0 reaches it; the first one then sends to the wrong cd, which passes *)
(* the mistake on locally, and all that has to be undone.                  *)
(* Program 11 .. 16: cd 2 broadcasts to two cds of rank 0 before an event  *)
(* from cd 0 is there, after which it broadcasts to one of them.  With 12  *)
(* cd 0 passes the mistake on.                                             *)
(* Program 21 .. 25: two events of cd 0 send to cd 1 for the same time; an *)
(* event from cd 2 then undoes both of them.                               *)
Send(p, s) ==
  CASE p = 1 -> <<To(2, 1, 3)>>
    [] p = 2 -> <<To(IF s % 2 = 0 THEN 0 ELSE 1, 1, 4)>>
    [] p = 4 -> <<To(1, 1, 5)>>
    [] p = 11 -> <<To(2, 1, 13)>>
    [] p = 12 -> <<[lb |-> 1, to |-> IF s % 2 = 0
                                     THEN <<EventTo(0, 1, 14), EventTo(1, 2, 15)>>
                                     ELSE <<EventTo(0, 1, 15)>>]>>
    [] p = 14 -> <<To(1, 1, 15)>>
    [] p = 16 -> <<[lb |-> 1, to |-> IF s % 2 = 0
                                     THEN <<EventTo(0, 1, 15), EventTo(1, 2, 15)>>
                                     ELSE <<EventTo(0, 1, 15)>>]>>
    [] p = 21 -> <<To(1, 2, 24)>>
    [] p = 22 -> <<To(1, 1, 24)>>
    [] p = 23 -> <<To(0, 1, 25)>>
    [] OTHER -> <<>>

LateRoots == {RootAt(0, 0, 1), RootAt(2, 2, 2), RootAt(2, 3, 6)}
ChainRoots == {RootAt(0, 0, 11), RootAt(2, 2, 12)}
BcastRoots == {RootAt(0, 0, 11), RootAt(2, 2, 16)}
TiedRoots == {RootAt(0, 2, 21), RootAt(0, 3, 22), RootAt(2, 0, 23)}
ShortRoots == {RootAt(0, 0, 1), RootAt(2, 2, 2)}
QuietRoots == {RootAt(0, 0, 11), RootAt(2, 2, 15), RootAt(2, 3, 24)}

Plain(t) == [end |-> t, then |-> "plain"]
Back(t) == [end |-> t, then |-> "back"]
Keep(t) == [end |-> t, then |-> "keep"]
Leave(t) == [end |-> t, then |-> "leave"]

(* Windows that never hold an event back, and those drain() adapts.        *)
Open == [dt |-> LookMax, static |-> LookMax]
Adapt == [dt |-> 1, static |-> Adapting]

Job(process, roots, look, calls) ==
  [process |-> process, roots |-> roots, subtime |-> FALSE, look |-> look, calls |-> calls]

(* A pause, and then the end or finalize(); one process or two.            *)
StragglerJobs ==
  {Job(OneProcess, LateRoots, Open, <<Plain(3), Plain(Inf)>>),
   Job(OneProcess, LateRoots, Open, <<Plain(3)>>),
   Job(OwnProcess, LateRoots, Open, <<Plain(3), Plain(Inf)>>)}

BcastJobs ==
  {Job(OneProcess, ChainRoots, Open, <<Plain(Inf)>>),
   Job(OwnProcess, BcastRoots, Open, <<Plain(Inf)>>)}

(* As test/phold.cxx runs it, to the end; and without a last rewind().     *)
RewindJobs ==
  {Job(OwnProcess, QuietRoots, Open, <<Back(Inf), Keep(Inf)>>),
   Job(OwnProcess, ShortRoots, Open, <<Back(3), Keep(3)>>),
   Job(OneProcess, ShortRoots, Open, <<Back(3), Leave(2)>>)}

(* The pause leaves an event that was sent to the other rank of the process*)
(* in its future: a root of the next drain(), owned by the rank that sent. *)
PauseJobs == {Job(OneProcess, ShortRoots, Open, <<Plain(3), Back(4), Keep(Inf)>>)}

AdaptJobs == {Job(OneProcess, QuietRoots, Adapt, <<Plain(Inf)>>)}

EveryJob == StragglerJobs \cup BcastJobs \cup RewindJobs \cup PauseJobs \cup AdaptJobs

TiedJobs == {[Job(OneProcess, TiedRoots, Open, <<Plain(Inf)>>) EXCEPT !.subtime = TRUE]}

(* The pause of test/phold.cxx: rewind(false) with roots left over.        *)
LossyJobs == {Job(OneProcess, ShortRoots, Open, <<Keep(1), Plain(Inf)>>)}
=============================================================================
