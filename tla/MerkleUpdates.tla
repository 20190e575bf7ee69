--------------------------- MODULE MerkleUpdates ---------------------------
(***************************************************************************)
(* A Merkle tree whose leaves change in place: the round tree of the       *)
(* provenance audit index (internal/pai/index.go) over pkg/merkle.         *)
(***************************************************************************)
EXTENDS MerkleTree

CONSTANTS
    Values,         \* What a leaf may hold
    Initial,        \* What every one holds at first
    MaxLeaves

VARIABLES
    leaves,         \* What was put in, as the caller has it
    tree            \* Tree.levels

vars == <<leaves, tree>>

\* NewIndex, over a data set of any size up to MaxLeaves transactions.
Init ==
    /\ \E n \in 1 .. MaxLeaves : leaves = [i \in 1 .. n |-> Initial]
    /\ tree = New(leaves)

\* UpdateLeaf
Update(i, value) ==
    /\ i < LeafCount(tree)
    /\ leaves' = [leaves EXCEPT ![i + 1] = value]
    /\ tree' = UpdateLeafHash(tree, i, HashLeaf(value))

Next == \E i \in 0 .. Len(leaves) - 1, value \in Values : Update(i, value)

Spec == Init /\ [][Next]_vars

-----------------------------------------------------------------------------
(* Properties *)

TypeOK ==
    /\ leaves \in Seq(Values)
    /\ LeafCount(tree) = Len(leaves)
    /\ Len(tree) = Depth(Len(leaves))

\* A tree updated in place is the tree built anew from its leaves, at every
\* size and for every leaf on the edge of a level (update.go, against New).
SameAsRebuilt == tree = New(leaves)

\* The root names the leaves: each one is proved at its position and no other
\* value is, and a data set that repeats the last leaf has another root
\* (merkle.go: promotion, not duplication).
RootNamesLeaves ==
    /\ \A i \in 0 .. Len(leaves) - 1, value \in Values :
        VerifyHash(Root(tree), HashLeaf(value), Proof(tree, i)) <=> value = leaves[i + 1]
    /\ Root(New(Append(leaves, leaves[Len(leaves)]))) # Root(tree)

UpdateMatchesRebuild == SameAsRebuilt /\ RootNamesLeaves
=============================================================================
