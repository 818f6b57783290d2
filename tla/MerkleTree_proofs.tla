------------------------- MODULE MerkleTree_proofs -------------------------
(***************************************************************************)
(* For every number of leaves: the loop stays inside its lists, reads each *)
(* leaf and each hash once, and its root determines the leaves.            *)
(***************************************************************************)
EXTENDS MerkleTree, TLAPS

\* Where the two positions are after i iterations: leaves first.
Positions ==
    /\ leafPos = IF 2 * i < leavesLen THEN 2 * i ELSE leavesLen
    /\ hashPos = 2 * i - leafPos
    /\ status = "done" => /\ leavesLen >= 2 /\ i = hashCount
                          /\ merkleRoot = hashes[hashCount]

\* The words not read yet determine all words: two lists that agree on those
\* agree on everything.  At the end the only such word is the root.
UnreadDetermine ==
    \A L \in Seq(Leaf) : \A H :
        /\ Len(L) = leavesLen
        /\ Hashed(L, H, i)
        /\ \A p \in 2 * i..leavesLen + i - 1 : Item(L, H, p) = Item(leaves, hashes, p)
        => \A p \in 0..leavesLen + i - 1 : Item(L, H, p) = Item(leaves, hashes, p)

MerkleInv == TypeOK /\ Positions /\ Hashed(leaves, hashes, i) /\ UnreadDetermine

-----------------------------------------------------------------------------
\* Nothing is read or hashed before the loop (CreateMerkleTree: make, leafPos, hashPos).
LEMMA InitMerkle == Init => MerkleInv
<1> SUFFICES ASSUME Init PROVE MerkleInv
  OBVIOUS
<1>1. leaves \in Seq(Leaf) /\ leavesLen \in Nat
  BY InputsAssumption DEF Init, leavesLen
<1>2. TypeOK
  BY <1>1 DEF Init, TypeOK, hashCount
<1>3. Positions
  BY <1>1 DEF Init, Positions
<1>4. Hashed(leaves, hashes, i)
  BY DEF Init, Hashed
<1>5. UnreadDetermine
  <2>1. 2 * i..leavesLen + i - 1 = 0..leavesLen + i - 1
    BY <1>1 DEF Init
  <2> QED
    BY <2>1 DEF UnreadDetermine
<1> QED
  BY <1>2, <1>3, <1>4, <1>5 DEF MerkleInv

\* A write to hashes[i] changes no word the iterations up to i read or wrote.
LEMMA EarlierWords ==
    ASSUME MerkleInv, HashPair, NEW p \in 0..leavesLen + i - 1
    PROVE  Item(leaves, hashes', p) = Item(leaves, hashes, p)
<1>1. leavesLen \in Nat /\ i \in Nat /\ p \in Nat /\ p < leavesLen + i /\ i < hashCount
  BY InputsAssumption DEF MerkleInv, TypeOK, HashPair, leavesLen, hashCount
<1>2. \A k \in 1..hashCount : k # i + 1 => hashes'[k] = hashes[k]
  BY DEF MerkleInv, TypeOK, HashPair
<1>3. CASE p < leavesLen
  BY <1>3 DEF Item, leavesLen
<1>4. CASE ~(p < leavesLen)
  <2>1. p - leavesLen + 1 \in 1..hashCount /\ p - leavesLen + 1 # i + 1
    BY <1>1, <1>4 DEF hashCount
  <2> QED
    BY <1>2, <1>4, <2>1 DEF Item, leavesLen
<1> QED
  BY <1>3, <1>4

\* The two reads of an iteration find the words 2i and 2i + 1, both written,
\* and leave the positions where the next iteration expects them.
LEMMA ReadsInOrder ==
    ASSUME MerkleInv, HashPair
    PROVE  /\ hashes'[i + 1] = EfficientKeccak256(Item(leaves, hashes, 2 * i),
                                                  Item(leaves, hashes, 2 * i + 1))
           /\ 2 * i + 1 \in 0..leavesLen + i - 1
           /\ leafPos' = IF 2 * (i + 1) < leavesLen THEN 2 * (i + 1) ELSE leavesLen
           /\ hashPos' = 2 * (i + 1) - leafPos'
<1> DEFINE l == LeafPosAfter(leafPos)
           h == HashPosAfter(leafPos, hashPos)
<1>1. leavesLen \in Nat /\ i \in Nat /\ i + 1 < leavesLen /\ i + 1 \in 1..hashCount
  BY InputsAssumption DEF MerkleInv, TypeOK, HashPair, leavesLen, hashCount
<1>2. /\ leafPos = IF 2 * i < leavesLen THEN 2 * i ELSE leavesLen
      /\ hashPos = 2 * i - leafPos
  BY DEF MerkleInv, Positions
<1>3. Read(leafPos, hashPos) = Item(leaves, hashes, 2 * i)
  <2>1. CASE 2 * i < leavesLen
    BY <1>1, <1>2, <2>1 DEF Read, Item, leavesLen
  <2>2. CASE ~(2 * i < leavesLen)
    <3>1. leafPos = leavesLen /\ hashPos + 1 = 2 * i - leavesLen + 1
      BY <1>1, <1>2, <2>2
    <3> QED
      BY <1>1, <2>2, <3>1 DEF Read, Item, leavesLen
  <2> QED
    BY <2>1, <2>2
<1>4. /\ l = IF 2 * i + 1 < leavesLen THEN 2 * i + 1 ELSE leavesLen
      /\ h = 2 * i + 1 - l
  BY <1>1, <1>2 DEF LeafPosAfter, HashPosAfter
<1>5. Read(l, h) = Item(leaves, hashes, 2 * i + 1)
  <2> HIDE DEF l, h
  <2>1. CASE 2 * i + 1 < leavesLen
    BY <1>1, <1>4, <2>1 DEF Read, Item, leavesLen
  <2>2. CASE ~(2 * i + 1 < leavesLen)
    <3>1. l = leavesLen /\ h + 1 = 2 * i + 1 - leavesLen + 1
      BY <1>1, <1>4, <2>2
    <3> QED
      BY <1>1, <2>2, <3>1 DEF Read, Item, leavesLen
  <2> QED
    BY <2>1, <2>2
<1>6. hashes'[i + 1] = EfficientKeccak256(Read(leafPos, hashPos), Read(l, h))
  BY <1>1 DEF MerkleInv, TypeOK, HashPair
<1>7. /\ leafPos' = IF 2 * (i + 1) < leavesLen THEN 2 * (i + 1) ELSE leavesLen
      /\ hashPos' = 2 * (i + 1) - leafPos'
  <2>1. leafPos' = LeafPosAfter(l) /\ hashPos' = HashPosAfter(l, h)
    BY DEF HashPair
  <2> HIDE DEF l, h
  <2> QED
    BY <1>1, <1>4, <2>1 DEF LeafPosAfter, HashPosAfter
<1> QED
  BY <1>1, <1>3, <1>5, <1>6, <1>7

\* One iteration: the new hash takes the place of the two words it covers.
LEMMA HashPairMerkle ==
    ASSUME MerkleInv, HashPair
    PROVE  MerkleInv'
<1>1. /\ leavesLen \in Nat /\ i \in Nat /\ i + 1 < leavesLen
      /\ leaves' = leaves /\ i' = i + 1 /\ status' = status /\ status = "hashing"
      /\ leavesLen' = leavesLen /\ hashCount' = hashCount
  BY InputsAssumption DEF MerkleInv, TypeOK, HashPair, leavesLen, hashCount
<1>2. TypeOK'
  <2>1. leafPos' \in 0..leavesLen /\ hashPos' \in 0..i
    BY <1>1, ReadsInOrder
  <2>2. DOMAIN hashes' = 1..hashCount
    BY DEF MerkleInv, TypeOK, HashPair
  <2> QED
    BY <1>1, <2>1, <2>2 DEF MerkleInv, TypeOK, hashCount
<1>3. Positions'
  BY <1>1, ReadsInOrder DEF Positions
<1>4. Hashed(leaves, hashes, i)'
  <2> SUFFICES ASSUME NEW k \in 0..i
               PROVE  hashes'[k + 1] = EfficientKeccak256(Item(leaves, hashes', 2 * k),
                                                          Item(leaves, hashes', 2 * k + 1))
    BY <1>1 DEF Hashed
  <2>1. 2 * k \in 0..leavesLen + i - 1 /\ 2 * k + 1 \in 0..leavesLen + i - 1
    BY <1>1
  <2>2. /\ Item(leaves, hashes', 2 * k) = Item(leaves, hashes, 2 * k)
        /\ Item(leaves, hashes', 2 * k + 1) = Item(leaves, hashes, 2 * k + 1)
    BY <2>1, EarlierWords
  <2>3. CASE k = i
    BY <2>2, <2>3, ReadsInOrder
  <2>4. CASE k # i
    <3>1. k \in 0..i - 1
      BY <1>1, <2>4
    <3>2. hashes[k + 1] = EfficientKeccak256(Item(leaves, hashes, 2 * k),
                                             Item(leaves, hashes, 2 * k + 1))
      BY <3>1 DEF MerkleInv, Hashed
    <3>3. hashes'[k + 1] = hashes[k + 1]
      BY <1>1, <3>1 DEF MerkleInv, TypeOK, HashPair, hashCount
    <3> QED
      BY <2>2, <3>2, <3>3
  <2> QED
    BY <2>3, <2>4
<1>5. UnreadDetermine'
  <2> SUFFICES ASSUME NEW L \in Seq(Leaf), NEW H, Len(L) = leavesLen,
                      Hashed(L, H, i + 1),
                      \A p \in 2 * (i + 1)..leavesLen + i :
                          Item(L, H, p) = Item(leaves, hashes', p)
               PROVE  \A p \in 0..leavesLen + i :
                          Item(L, H, p) = Item(leaves, hashes', p)
    BY <1>1 DEF UnreadDetermine
  <2>1. Item(L, H, leavesLen + i) = Item(leaves, hashes', leavesLen + i)
    BY <1>1
  <2>2. H[i + 1] = hashes'[i + 1]
    BY <1>1, <2>1 DEF Item, leavesLen
  <2>3. H[i + 1] = EfficientKeccak256(Item(L, H, 2 * i), Item(L, H, 2 * i + 1))
    BY <1>1 DEF Hashed
  <2>4. /\ Item(L, H, 2 * i) = Item(leaves, hashes, 2 * i)
        /\ Item(L, H, 2 * i + 1) = Item(leaves, hashes, 2 * i + 1)
    BY <2>2, <2>3, ReadsInOrder DEF EfficientKeccak256
  <2>5. \A p \in 2 * i..leavesLen + i - 1 : Item(L, H, p) = Item(leaves, hashes, p)
    <3> TAKE p \in 2 * i..leavesLen + i - 1
    <3>1. CASE p \in {2 * i, 2 * i + 1}
      BY <2>4, <3>1
    <3>2. CASE p \notin {2 * i, 2 * i + 1}
      <4>1. p \in 2 * (i + 1)..leavesLen + i /\ p \in 0..leavesLen + i - 1
        BY <1>1, <3>2
      <4> QED
        BY <4>1, EarlierWords
    <3> QED
      BY <3>1, <3>2
  <2>6. Hashed(L, H, i)
    BY <1>1 DEF Hashed
  <2>7. \A p \in 0..leavesLen + i - 1 : Item(L, H, p) = Item(leaves, hashes, p)
    BY <2>5, <2>6 DEF MerkleInv, UnreadDetermine
  <2>8. \A p \in 0..leavesLen + i - 1 : Item(L, H, p) = Item(leaves, hashes', p)
    BY <2>7, EarlierWords
  <2>9. \A p \in 0..leavesLen + i : p \in 0..leavesLen + i - 1 \/ p = leavesLen + i
    BY <1>1
  <2> QED
    BY <2>1, <2>8, <2>9
<1> QED
  BY <1>1, <1>2, <1>3, <1>4, <1>5 DEF MerkleInv

\* The returns change neither lists nor positions.
LEMMA ReturnMerkle ==
    ASSUME MerkleInv, NotEnoughLeaves \/ ReturnRoot \/ UNCHANGED vars
    PROVE  MerkleInv'
<1>1. /\ leaves' = leaves /\ hashes' = hashes /\ i' = i
      /\ leafPos' = leafPos /\ hashPos' = hashPos
  BY DEF NotEnoughLeaves, ReturnRoot, vars, positions
<1>2. status' = "done" => /\ leavesLen >= 2 /\ i = hashCount
                          /\ merkleRoot' = hashes[hashCount]
  BY DEF MerkleInv, Positions, NotEnoughLeaves, ReturnRoot, vars
<1>3. status' \in {"hashing", "done", "error"}
  BY DEF MerkleInv, TypeOK, NotEnoughLeaves, ReturnRoot, vars
<1>4. TypeOK'
  BY <1>1, <1>3 DEF MerkleInv, TypeOK, leavesLen, hashCount
<1>5. Positions'
  BY <1>1, <1>2 DEF MerkleInv, Positions, leavesLen, hashCount
<1>6. Hashed(leaves, hashes, i)' /\ UnreadDetermine'
  BY <1>1 DEF MerkleInv, Hashed, Item, UnreadDetermine, leavesLen
<1> QED
  BY <1>4, <1>5, <1>6 DEF MerkleInv

\* The inductive invariant of CreateMerkleTree's loop.
THEOREM MerkleInvariant == Spec => []MerkleInv
<1>1. ASSUME MerkleInv, [Next]_vars PROVE MerkleInv'
  BY <1>1, HashPairMerkle, ReturnMerkle DEF Next
<1> QED
  BY <1>1, InitMerkle, PTL DEF Spec

-----------------------------------------------------------------------------
\* No read is outside its list or of an element not written yet, for any
\* number of leaves: an iteration that ends below hashes[i'] has read below
\* hashes[i] (CreateMerkleTree: leafPos, hashPos).
THEOREM MerkleTypeCorrect == Spec => []TypeOK
<1>1. MerkleInv => TypeOK
  BY DEF MerkleInv
<1> QED
  BY <1>1, MerkleInvariant, PTL

\* Every leaf and every hash but the root is read exactly once and in order.
THEOREM EveryWordHashedOnce == Spec => []TreeShape
<1>1. MerkleInv => TreeShape
  <2> SUFFICES ASSUME MerkleInv PROVE TreeShape
    OBVIOUS
  <2>1. leavesLen \in Nat /\ i \in Nat
    BY InputsAssumption DEF MerkleInv, TypeOK, leavesLen
  <2>2. leafPos + hashPos = 2 * i
    BY <2>1 DEF MerkleInv, TypeOK, Positions
  <2>3. ASSUME status = "done"
        PROVE  /\ leafPos = leavesLen /\ hashPos = hashCount - 1
               /\ merkleRoot = Item(leaves, hashes, leafPos + hashPos)
    <3>1. leavesLen >= 2 /\ i = leavesLen - 1 /\ merkleRoot = hashes[leavesLen - 1]
      BY <2>3 DEF MerkleInv, Positions, hashCount
    <3>2. leafPos = leavesLen /\ hashPos = leavesLen - 2
      BY <2>1, <3>1 DEF MerkleInv, Positions
    <3> QED
      BY <2>1, <3>1, <3>2 DEF Item, hashCount, leavesLen
  <2> QED
    BY <2>2, <2>3 DEF MerkleInv, TreeShape
<1> QED
  BY <1>1, MerkleInvariant, PTL

\* Two lists of the same length with the same root are equal, for every length:
\* what the leader puts on chain fixes every commitment and its place.
THEOREM RootBinds == Spec => []RootBindsLeaves
<1>1. MerkleInv => RootBindsLeaves
  <2> SUFFICES ASSUME MerkleInv, status = "done", NEW L \in Inputs, NEW H,
                      Len(L) = leavesLen, Hashed(L, H, hashCount),
                      H[hashCount] = merkleRoot
               PROVE  L = leaves
    BY DEF RootBindsLeaves
  <2>1. /\ leavesLen \in Nat /\ leavesLen >= 2 /\ i = leavesLen - 1
        /\ merkleRoot = hashes[leavesLen - 1] /\ hashCount = leavesLen - 1
        /\ L \in Seq(Leaf) /\ leaves \in Seq(Leaf)
    BY InputsAssumption DEF MerkleInv, TypeOK, Positions, leavesLen, hashCount
  <2>2. \A p \in 2 * i..leavesLen + i - 1 : Item(L, H, p) = Item(leaves, hashes, p)
    <3> TAKE p \in 2 * i..leavesLen + i - 1
    <3>1. p = 2 * leavesLen - 2
      BY <2>1
    <3> QED
      BY <2>1, <3>1 DEF Item, leavesLen
  <2>3. \A p \in 0..leavesLen + i - 1 : Item(L, H, p) = Item(leaves, hashes, p)
    BY <2>1, <2>2 DEF MerkleInv, UnreadDetermine
  <2>4. ASSUME NEW k \in 1..leavesLen PROVE L[k] = leaves[k]
    <3>1. Item(L, H, k - 1) = Item(leaves, hashes, k - 1)
      BY <2>1, <2>3
    <3> QED
      BY <2>1, <3>1 DEF Item, leavesLen
  <2> QED
    BY <2>1, <2>4 DEF leavesLen
<1> QED
  BY <1>1, MerkleInvariant, PTL
=============================================================================
