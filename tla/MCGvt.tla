-------------------------------- MODULE MCGvt --------------------------------
(* Instances of Gvt for TLC.                                               *)
EXTENDS Gvt

CONSTANTS e1, e2
TwoEvents == {e1, e2}
OneInitial == {e1}
=============================================================================
