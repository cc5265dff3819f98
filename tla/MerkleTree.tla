------------------------------ MODULE MerkleTree -------------------------------
(***************************************************************************)
(* buildMerkleTree and verifyMerkleProof (src/services/proof/merkleTree.ts)*)
(* and computeLeafHash.                                                    *)
(*                                                                         *)
(* SHA-256 is taken to be injective and its two domains (sammati.leaf.v1,  *)
(* sammati.node.v1) apart: the hash of a leaf is a 1-tuple, the hash of a  *)
(* pair of nodes a 2-tuple.                                                *)
(***************************************************************************)
EXTENDS Naturals, Sequences

LeafHash(e) == <<e>>

HashPair(left, right) == <<left, right>>

-------------------------------------------------------------------------------
(* The tree.  A node of a level is its hash and the indices of the leaves  *)
(* below it, a proof path the siblings met on the way up and their sides.  *)

\* The odd node out is its own right neighbour.
RightOf(level, i) == IF i < Len(level) THEN level[i + 1] ELSE level[i]

Pushed(path, hash, position) ==
    [hashes |-> Append(path.hashes, hash), positions |-> Append(path.positions, position)]

\* The path of a leaf below the i-th node of a level gets the node beside it.
PushSibling(path, level, i) ==
    IF i % 2 = 1 THEN Pushed(path, RightOf(level, i).hash, "R")
    ELSE Pushed(path, level[i - 1].hash, "L")

\* One turn of the while loop.
NextLevel(tree) ==
    LET level == tree.level
        Node(i) == [hash |-> HashPair(level[i].hash, RightOf(level, i).hash),
                    indices |-> level[i].indices \cup RightOf(level, i).indices]
        Place(x) == CHOOSE i \in DOMAIN level : x \in level[i].indices
    IN  [level |-> [j \in 1 .. (Len(level) + 1) \div 2 |-> Node(2 * j - 1)],
         proofs |-> [x \in DOMAIN tree.proofs |->
                        PushSibling(tree.proofs[x], level, Place(x))]]

\* The leaves, before the loop.
Bottom(leafHashes) ==
    [level |-> [i \in DOMAIN leafHashes |-> [hash |-> leafHashes[i], indices |-> {i}]],
     proofs |-> [i \in DOMAIN leafHashes |-> [hashes |-> <<>>, positions |-> <<>>]]]

\* The loop ends when one node is left.
Grow(tree) == IF Len(tree.level) = 1 THEN tree ELSE NextLevel(tree)

\* The tree after every turn of the loop.
Trees(leafHashes) ==
    LET Tree[k \in 0 .. Len(leafHashes)] ==
            IF k = 0 THEN Bottom(leafHashes) ELSE Grow(Tree[k - 1])
    IN  Tree

\* buildMerkleTree
Build(leafHashes) ==
    LET top == Trees(leafHashes)[Len(leafHashes)]
    IN  [rootHash |-> top.level[1].hash, proofs |-> top.proofs]

\* One turn of the loop of verifyMerkleProof, at place i of the path.
Turn(path, i, current) ==
    IF path.positions[i] = "L"
    THEN HashPair(path.hashes[i], current)
    ELSE HashPair(current, path.hashes[i])

\* The hash after every turn, from the leaf up.
Climb(leafHash, path) ==
    LET Current[i \in 0 .. Len(path.hashes)] ==
            IF i = 0 THEN leafHash ELSE Turn(path, i, Current[i - 1])
    IN  Current

\* verifyMerkleProof
Verify(leafHash, path, expectedRootHash) ==
    /\ Len(path.hashes) = Len(path.positions)
    /\ Climb(leafHash, path)[Len(path.hashes)] = expectedRootHash

-------------------------------------------------------------------------------
(* Reference definition.                                                   *)

PowersOfTwo(n) ==
    LET Power[k \in 0 .. n] == IF k = 0 THEN 1 ELSE 2 * Power[k - 1]
    IN  Power

\* The least height of a tree that has room for n leaves.
Height(n) ==
    CHOOSE h \in 0 .. n :
        /\ n <= PowersOfTwo(n)[h]
        /\ \A g \in 0 .. n : n <= PowersOfTwo(n)[g] => h <= g

\* The nodes of height h of the tree as it is drawn from above, the i-th over the
\* leaves from i * 2^h on: its halves if the right one has a leaf, else the left half
\* paired with itself.
Layer(leafHashes, h, below) ==
    LET n == Len(leafHashes)
    IN  [i \in 0 .. n - 1 |->
            IF (2 * i + 1) * PowersOfTwo(n)[h - 1] < n
            THEN HashPair(below[2 * i], below[2 * i + 1])
            ELSE HashPair(below[2 * i], below[2 * i])]

Nodes(leafHashes) ==
    LET n == Len(leafHashes)
        Over[h \in 0 .. Height(n)] ==
            IF h = 0 THEN [i \in 0 .. n - 1 |-> leafHashes[i + 1]]
            ELSE Layer(leafHashes, h, Over[h - 1])
    IN  Over

\* The root by recursion from above.
Reference(leafHashes) == Nodes(leafHashes)[Height(Len(leafHashes))][0]

\* For the leaves 1 .. n: the root is the reference root, every path verifies
\* its own leaf and no other.
TreeCorrect(n) ==
    LET leafHashes == [i \in 1 .. n |-> LeafHash(i)]
        tree == Build(leafHashes)
    IN  /\ tree.rootHash = Reference(leafHashes)
        /\ \A i, j \in 1 .. n :
              Verify(leafHashes[j], tree.proofs[i], tree.rootHash) <=> i = j
===============================================================================
