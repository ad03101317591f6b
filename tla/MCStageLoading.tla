--------------------------- MODULE MCStageLoading ---------------------------
(***************************************************************************)
(* A small instance of StageLoading.                                       *)
(***************************************************************************)
EXTENDS StageLoading
=============================================================================
