---------------------------- MODULE MCEstablish ----------------------------
(***************************************************************************)
(* Establish for TLC, on the connections of a ring: every process is the   *)
(* sender of one connection and the receiver of another.                   *)
(***************************************************************************)
EXTENDS Establish

Ring == {<<1, 2>>, <<2, 3>>, <<3, 1>>}
=============================================================================
