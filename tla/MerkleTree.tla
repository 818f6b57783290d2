----------------------------- MODULE MerkleTree -----------------------------
(***************************************************************************)
(* CreateMerkleTree: the leader hashes the commitments of a round in pairs, *)
(* first leaves, then the hashes made so far, through two read positions.  *)
(* One step is one iteration of its loop; createMerkleRoot of the contract *)
(* is the same loop over the commitments it computes from the secrets.     *)
(* Go's positions and the code's lists count from 0, sequences from 1.     *)
(***************************************************************************)
EXTENDS Integers, Sequences

CONSTANTS
    Leaf,     \* commitments: 32 bytes each, so nothing is padded
    Inputs,   \* bound: the lists of leaves the function is called with
    NoHash    \* nil: an element of `hashes` that is not written yet

ASSUME InputsAssumption == Inputs \subseteq Seq(Leaf)

VARIABLES leaves, hashes, leafPos, hashPos, i, merkleRoot, status

positions == <<leafPos, hashPos, i>>
vars == <<leaves, hashes, positions, merkleRoot, status>>

leavesLen == Len(leaves)
hashCount == leavesLen - 1

\* faulty variant: the pair is sorted first, as many merkle libraries do
SortedKeccak256(a, b) == {a, b}

\* Keccak-256 of two words, written one after the other: an injective term.
EfficientKeccak256(a, b) == <<a, b>>

Init ==
    /\ leaves \in Inputs
    /\ hashes = [k \in 1..hashCount |-> NoHash]
    /\ leafPos = 0 /\ hashPos = 0 /\ i = 0
    /\ merkleRoot = NoHash
    /\ status = "hashing"

NotEnoughLeaves ==
    /\ status = "hashing" /\ leavesLen < 2
    /\ status' = "error"
    /\ UNCHANGED <<leaves, hashes, positions, merkleRoot>>

\* faulty variant: a leaf without a partner is left out
ReadPairs(l, h) ==
    IF l + 1 - (l % 2) < leavesLen THEN leaves[l + 1] ELSE hashes[h + 1]

\* faulty variant: hashPos moves on every read
HashPosAlwaysMoves(l, h) == h + 1

\* What a read finds at the positions l and h, and the positions after it.
Read(l, h) == IF l < leavesLen THEN leaves[l + 1] ELSE hashes[h + 1]
LeafPosAfter(l) == IF l < leavesLen THEN l + 1 ELSE l
HashPosAfter(l, h) == IF l < leavesLen THEN h ELSE h + 1

HashPair ==
    /\ status = "hashing" /\ leavesLen >= 2 /\ i < hashCount
    /\ LET l == LeafPosAfter(leafPos)
           h == HashPosAfter(leafPos, hashPos)
       IN /\ hashes' = [hashes EXCEPT ![i + 1] =
                EfficientKeccak256(Read(leafPos, hashPos), Read(l, h))]
          /\ leafPos' = LeafPosAfter(l)
          /\ hashPos' = HashPosAfter(l, h)
    /\ i' = i + 1
    /\ UNCHANGED <<leaves, merkleRoot, status>>

ReturnRoot ==
    /\ status = "hashing" /\ leavesLen >= 2 /\ i = hashCount
    /\ merkleRoot' = hashes[hashCount]
    /\ status' = "done"
    /\ UNCHANGED <<leaves, hashes, positions>>

Next == NotEnoughLeaves \/ HashPair \/ ReturnRoot

Spec == Init /\ [][Next]_vars

-----------------------------------------------------------------------------
\* Positions stay inside their lists, and after i iterations hashPos is below i: what
\* the next one, which writes hashes[i], has read of `hashes` is below i as well, so no
\* iteration reads an element that is not written yet.
TypeOK ==
    /\ leaves \in Inputs
    /\ DOMAIN hashes = 1..hashCount
    /\ i \in Nat /\ (leavesLen >= 2 => i <= hashCount)
    /\ leafPos \in 0..leavesLen
    /\ hashPos \in 0..i /\ (i > 0 => hashPos < i)
    /\ status \in {"hashing", "done", "error"}

\* The p-th word the loop over the leaves L and the hashes H reads.
Item(L, H, p) == IF p < Len(L) THEN L[p + 1] ELSE H[p - Len(L) + 1]

\* H is what the loop makes of L in its first m iterations.
Hashed(L, H, m) ==
    \A k \in 0..m - 1 :
        H[k + 1] = EfficientKeccak256(Item(L, H, 2 * k), Item(L, H, 2 * k + 1))

\* The same as a function of L, for TLC.
HashesOf(L) ==
    LET H[k \in 1..Len(L) - 1] ==
            LET Word(p) == IF p < Len(L) THEN L[p + 1] ELSE H[p - Len(L) + 1]
            IN EfficientKeccak256(Word(2 * k - 2), Word(2 * k - 1))
    IN H

\* Whatever the number of leaves, also where they run out in the middle of a
\* pair, the loop reads every leaf and then every hash but the last exactly
\* once and in order (CreateMerkleTree, the two position tests of an iteration).
TreeShape ==
    /\ Hashed(leaves, hashes, i)
    /\ leafPos + hashPos = 2 * i
    /\ status = "done" => /\ leafPos = leavesLen /\ hashPos = hashCount - 1
                          /\ merkleRoot = Item(leaves, hashes, leafPos + hashPos)

\* The root binds the leader to every commitment and to their order: no other list
\* of as many leaves has it.  So of the secrets of as many operators as have
\* committed, the contract, which hashes the commitments it finds from them, accepts
\* the committed ones only; lists of another length are not compared.
RootBindsLeaves ==
    status = "done" =>
        \A L \in Inputs :
            LET H == HashesOf(L)
            IN /\ Len(L) = leavesLen
               /\ Hashed(L, H, hashCount)
               /\ H[hashCount] = merkleRoot
               => L = leaves
=============================================================================
