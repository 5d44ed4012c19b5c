--------------------------- MODULE MCLockedPages ----------------------------
(* Model checking of LockedPages on a few blocks of a small address space. *)
EXTENDS LockedPages, TLC

Symmetry == Permutations(Objects)
=============================================================================
