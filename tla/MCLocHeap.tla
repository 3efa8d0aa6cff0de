----------------------------- MODULE MCLocHeap ------------------------------
(* The heap with interchangeable objects, for TLC. *)
EXTENDS LocHeap, TLC

CONSTANTS e1, e2, e3, e4, e5, e6, nil
MCElements == {e1, e2, e3, e4, e5, e6}
Symmetry == Permutations(MCElements)
=============================================================================
