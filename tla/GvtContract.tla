---------------------------- MODULE GvtContract ----------------------------
(***************************************************************************)
(* The protocol GvtEpochs keeps the contract GvtService with its client.   *)
(***************************************************************************)
EXTENDS GvtEpochs

Service ==
  INSTANCE GvtService WITH
    EpochMod <- 4,
    epoch <- [r \in Ranks |-> epoch[r] % 4],
    status <- status1, gvt <- gvt1,
    verdict <- Verdict(quiesced), bound <- gvt,
    net <- {[m EXCEPT !.tag = m.tag % 4] : m \in InFlight}

(* Although the counts of different ranks are read at different moments    *)
(* and epochs wrap, every collective gives every rank the same verdict,    *)
(* "quiesced" only when nothing of the epoch is under way, and a GVT that  *)
(* nothing is earlier than: what gvt.hxx promises to pdes.cxx.             *)
ImplementsService == Service!Spec
=============================================================================
