------------------------------ MODULE MCMirror ------------------------------
(* Model checking Mirror. *)
EXTENDS Mirror
=============================================================================
