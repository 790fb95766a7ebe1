----------------------------- MODULE MCRecorder -----------------------------
(* Model checking Recorder: an encoder fed from the GPU's memory, one on the *)
(* GPU that takes plain pictures, and one on the CPU.                        *)
EXTENDS Recorder

E(gpu, d3d11, plain) == [gpu |-> gpu, d3d11 |-> d3d11, plain |-> plain]
MCEncoders == {E(TRUE, TRUE, TRUE), E(TRUE, FALSE, TRUE), E(FALSE, FALSE, TRUE)}
=============================================================================
