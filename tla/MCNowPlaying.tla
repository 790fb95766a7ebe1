---------------------------- MODULE MCNowPlaying ----------------------------
(* Model checking NowPlaying. *)
EXTENDS NowPlaying
=============================================================================
