------------------------------ MODULE MCNetPipe ------------------------------
(* One operation of two steps between two GPUs. *)
EXTENDS NetPipe

TwoSteps == <<[nsteps |-> 2, chunk |-> 1, slice |-> 1]>>
=============================================================================
