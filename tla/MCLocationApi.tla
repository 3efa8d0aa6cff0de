---------------------------- MODULE MCLocationApi ---------------------------
(* Instances of LocationApi for TLC. *)
EXTENDS LocationApi

CONSTANTS i1, i2, i3
=============================================================================
