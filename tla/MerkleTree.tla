----------------------------- MODULE MerkleTree -----------------------------
(***************************************************************************)
(* The binary Merkle trees of pkg/merkle, over symbolic hashes: a hash is  *)
(* the thing hashed, with its domain prefix as the name of the field.      *)
(* Leaves are numbered from 0, as in the source.                           *)
(***************************************************************************)
EXTENDS Naturals, Sequences

HashLeaf(data) == [leaf |-> data]
HashInternal(left, right) == [left |-> left, right |-> right]

\* Pairs are hashed; an unpaired node is promoted unchanged.
NextLevel(nodes) ==
    [i \in 1 .. (Len(nodes) + 1) \div 2 |->
        IF 2 * i <= Len(nodes) THEN HashInternal(nodes[2 * i - 1], nodes[2 * i])
        ELSE nodes[2 * i - 1]]

\* How many nodes each level has, over n leaves, counting on past the root.
Widths(n) ==
    LET width[k \in 1 .. n] == IF k = 1 THEN n ELSE (width[k - 1] + 1) \div 2
    IN  width

\* Depth: levels of a tree of n leaves, up to the first one of a single node.
Depth(n) == CHOOSE d \in 1 .. n : Widths(n)[d] = 1 /\ \A e \in 1 .. d - 1 : Widths(n)[e] > 1

\* NewFromHashes: every level, the leaves first.
NewFromHashes(leaves) ==
    LET levels[k \in 1 .. Depth(Len(leaves))] ==
            IF k = 1 THEN leaves ELSE NextLevel(levels[k - 1])
    IN levels

\* New: the leaves are hashed first.
New(leaves) == NewFromHashes([i \in 1 .. Len(leaves) |-> HashLeaf(leaves[i])])

Root(tree) == tree[Len(tree)][1]
LeafCount(tree) == Len(tree[1])

\* The positions above leaf i, one per level.
Path(i, depth) ==
    LET path[k \in 1 .. depth] == IF k = 1 THEN i ELSE path[k - 1] \div 2
    IN  path

\* What a level adds to the proof of its node idx: the sibling and its side, or
\* nothing where the node was promoted.
Sibling(nodes, idx) ==
    IF idx % 2 = 1 THEN <<[hash |-> nodes[idx], left |-> TRUE]>>
    ELSE IF idx + 1 < Len(nodes) THEN <<[hash |-> nodes[idx + 2], left |-> FALSE]>>
    ELSE <<>>

\* The proof of leaf i, by the levels below the root.
Proof(tree, i) == [k \in 1 .. Len(tree) - 1 |-> Sibling(tree[k], Path(i, Len(tree))[k])]

Joined(cur, sibling) ==
    IF sibling = <<>> THEN cur
    ELSE IF sibling[1].left THEN HashInternal(sibling[1].hash, cur)
    ELSE HashInternal(cur, sibling[1].hash)

\* verifyFrom: the root recomputed from a leaf hash upward.
Climb(hash, proof) ==
    LET cur[k \in 0 .. Len(proof)] == IF k = 0 THEN hash ELSE Joined(cur[k - 1], proof[k])
    IN  cur[Len(proof)]

VerifyHash(root, hash, proof) == Climb(hash, proof) = root

\* Faulty variant of ParentOf: an unpaired node is paired with itself.
ParentOfDuplicating(nodes, idx) ==
    LET first == idx - (idx % 2)
    IN  HashInternal(nodes[first + 1], nodes[IF first + 1 < Len(nodes) THEN first + 2 ELSE first + 1])

\* The value above node idx of a level.
ParentOf(nodes, idx) ==
    IF idx % 2 = 1 THEN HashInternal(nodes[idx], nodes[idx + 1])
    ELSE IF idx + 1 < Len(nodes) THEN HashInternal(nodes[idx + 1], nodes[idx + 2])
    ELSE nodes[idx + 1]

\* UpdateLeafHash: the leaf and the nodes above it, in place.
UpdateLeafHash(tree, i, hash) ==
    LET path == Path(i, Len(tree))
        levels[k \in 1 .. Len(tree)] ==
            [tree[k] EXCEPT ![path[k] + 1] =
                IF k = 1 THEN hash ELSE ParentOf(levels[k - 1], path[k - 1])]
    IN  levels
=============================================================================
