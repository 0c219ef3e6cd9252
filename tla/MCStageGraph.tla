----------------------------- MODULE MCStageGraph -----------------------------
(* Every registry of up to three stages, each with up to two dependencies. *)
EXTENDS StagePicture
=============================================================================
