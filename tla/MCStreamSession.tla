--------------------------- MODULE MCStreamSession ---------------------------
(* Model checking StreamSession. *)
EXTENDS StreamSession
=============================================================================
