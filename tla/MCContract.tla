----------------------------- MODULE MCContract -----------------------------
(* Three accounts that compete for two places, for TLC. *)
EXTENDS Commit2RevealDRB, TLC
CONSTANTS a1, a2, a3

Symmetry == Permutations({a1, a2, a3})
=============================================================================
