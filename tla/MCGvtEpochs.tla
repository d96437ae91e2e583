--------------------------- MODULE MCGvtEpochs ---------------------------
(* Instance of GvtEpochs for TLC.                                          *)
EXTENDS GvtContract, TLC

CONSTANTS r0, r1
=============================================================================
