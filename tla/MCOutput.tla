------------------------------ MODULE MCOutput ------------------------------
(***************************************************************************)
(* OutputRouting on small instances.                                       *)
(***************************************************************************)
EXTENDS OutputRouting, TLC

Symmetry == Permutations(Sessions)
=============================================================================
