------------------------------ MODULE MCMerkle ------------------------------
(* Lists of up to MaxLeaves leaves of two kinds, for TLC. *)
EXTENDS MerkleTree
CONSTANT MaxLeaves

MCInputs == UNION {[1..n -> Leaf] : n \in 0..MaxLeaves}

\* HashesOf computes what Hashed says, so RootBindsLeaves speaks of every list.
ASSUME HashesOfAssumption ==
    \A L \in MCInputs : Hashed(L, HashesOf(L), Len(L) - 1)
=============================================================================
