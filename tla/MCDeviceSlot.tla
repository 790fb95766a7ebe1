---------------------------- MODULE MCDeviceSlot ----------------------------
(* Model checking DeviceSlot: p1 has two connections, p2 has the others. *)
EXTENDS DeviceSlot

CONSTANTS c1, c2, p1, p2

MCPhone == [c \in Conns |-> IF c \in {c1, c2} THEN p1 ELSE p2]
=============================================================================
