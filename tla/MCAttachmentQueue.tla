------------------------- MODULE MCAttachmentQueue -------------------------
(***************************************************************************)
(* Constants of AttachmentQueue for TLC.  The sets are sets of model       *)
(* values, given in the cfg; symmetry is not used, because the runs check  *)
(* liveness.                                                               *)
(***************************************************************************)
EXTENDS AttachmentQueue

============================================================================
