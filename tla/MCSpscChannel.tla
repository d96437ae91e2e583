--------------------------- MODULE MCSpscChannel ---------------------------
(* Instance of SpscChannel for TLC.                                        *)
EXTENDS SpscChannel

(* Slots of two bits, so that more than one credit can return at once; and *)
(* with a wall, enough messages that the slot goes round several times,    *)
(* and in sym that recv_bump wraps.                                        *)
EveryBuild == {[kind |-> "asym", bits |-> 1, sends |-> 8],
               [kind |-> "asym", bits |-> 2, sends |-> 6],
               [kind |-> "sym", bits |-> 2, sends |-> 33],
               [kind |-> "epoch", bits |-> 1, sends |-> 4]}
=============================================================================
