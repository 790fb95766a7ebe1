---------------------------- MODULE MCAudioQueue ----------------------------
(* Model checking AudioQueue: five seconds are two packets of two frames,   *)
(* and one of the two epochs wraps within a stream.  A FLUSH names a place  *)
(* within the last packet, after it, or within one that is to come.         *)
EXTENDS AudioQueue

MCLeads  == {-1, 0, 3}
MCJitter == {0, 1}
=============================================================================
