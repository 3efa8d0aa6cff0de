----------------------------- MODULE MCLocTimer -----------------------------
(* The timer service with two clients, for TLC. *)
EXTENDS LocTimer

CONSTANTS t1, t2, d1, d2, d3
=============================================================================
