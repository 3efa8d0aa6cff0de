------------------------------- MODULE MCAgps -------------------------------
(***************************************************************************)
(* Instances of Agps for TLC: the handles are interchangeable.             *)
(***************************************************************************)
EXTENDS Agps, TLC

CONSTANTS h1, h2, h3
Symmetry == Permutations(Handles)

=============================================================================
