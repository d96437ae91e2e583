-------------------------- MODULE MCGvtRefinement --------------------------
(* Instances of GvtRefinement for TLC.                                     *)
EXTENDS GvtRefinement

ASSUME RefinementAssumption == RefinementConstants

CONSTANTS e1, e2, e3
ThreeEvents == {e1, e2, e3}
OneInitial == {e1}
=============================================================================
