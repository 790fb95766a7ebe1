------------------------------ MODULE MCStage -------------------------------
(* Model checking Stage. *)
EXTENDS Stage
=============================================================================
