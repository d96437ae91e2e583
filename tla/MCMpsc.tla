------------------------------- MODULE MCMpsc -------------------------------
(* Instances of MpscChannel for TLC.                                       *)
EXTENDS MpscChannel

Both == {0, 1}
ToOne == {<<0, 0>>, <<1, 0>>}
Across == {<<0, 1>>, <<1, 0>>, <<0, 0>>}
Build(k, rails, late, routes, sends) ==
  [kind |-> k, rails |-> rails, late |-> late, routes |-> routes, sends |-> sends]
EveryBuild == {Build(k, n, l, ToOne, 3) : k \in {"sym", "asym"}, l \in BOOLEAN, n \in {1, 2}}
              \cup {Build("sym", 1, FALSE, Across, 2), Build("epoch", 1, FALSE, ToOne, 1),
                    Build("epoch", 1, FALSE, {<<1, 0>>}, 3)}
OneWriter == {Build("sym", 1, FALSE, {<<1, 0>>}, 6)}
=============================================================================
