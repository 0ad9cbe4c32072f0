----------------------------- MODULE MCIRBuilder -----------------------------
(* IRBuilder for TLC: two interchangeable functions, one intrinsic.        *)
EXTENDS IRBuilder

Symmetry == Permutations(Functions)
=============================================================================
