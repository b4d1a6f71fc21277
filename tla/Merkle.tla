------------------------------- MODULE Merkle -------------------------------
(***************************************************************************)
(* The Merkle tree of the whitelist, as getMerkleRoot and getMerkleProof   *)
(* build it with merkletreejs and sortPairs.  A hash is its preimage, an   *)
(* address or, for an inner node, the unordered pair of its children, so   *)
(* that different preimages have different hashes.  Both methods take the  *)
(* leaves in the order in which the rows were read.                        *)
(***************************************************************************)
EXTENDS Naturals, SequencesExt

\* The root of the empty tree, "0x", which the ABI encoder pads with zeros.
NoRoot == [zeros |-> 32]

Leaf(x) == [leaf |-> x]
Parent(l, r) == [pair |-> {l, r}]

\* Pairs of neighbours are hashed; a last node without one moves up as it is.
NextLayer(layer) ==
    [i \in 1..((Len(layer) + 1) \div 2) |->
        IF 2 * i <= Len(layer) THEN Parent(layer[2 * i - 1], layer[2 * i])
        ELSE layer[2 * i - 1]]

\* Layer 0 is the leaves; the number of leaves is more layers than needed.
Layers(leaves) ==
    LET layer[n \in 0..Len(leaves)] ==
            IF n = 0 THEN [i \in 1..Len(leaves) |-> Leaf(leaves[i])]
            ELSE NextLayer(layer[n - 1])
    IN  layer

GetMerkleRoot(leaves) ==
    IF leaves = <<>> THEN NoRoot ELSE Layers(leaves)[Len(leaves)][1]

\* Mutant: the neighbour on the right, for left and right nodes alike.
RightNeighbour(i) == i + 1

\* The other node of the pair that the i-th node belongs to.
Sibling(i) == IF i % 2 = 1 THEN i + 1 ELSE i - 1

\* From the i-th leaf up: where the way is after n layers, and the siblings on
\* it, none for a layer that has no sibling there.
WayUp(leaves, i) ==
    LET up[n \in 0..Len(leaves)] ==
            IF n = 0 THEN [at |-> i, siblings |-> <<>>]
            ELSE LET u == up[n - 1]
                     layer == Layers(leaves)[n - 1]
                 IN  [at |-> (u.at + 1) \div 2,
                      siblings |-> IF Sibling(u.at) \in 1..Len(layer)
                                   THEN Append(u.siblings, layer[Sibling(u.at)])
                                   ELSE u.siblings]
    IN  up

\* The siblings on the way up from the last leaf that is x, and no proof at all
\* of what is not a leaf.
GetMerkleProof(leaves, x) ==
    LET At == {i \in 1..Len(leaves) : leaves[i] = x}
        last == CHOOSE i \in At : \A k \in At : k <= i
    IN  IF At = {} THEN <<>> ELSE WayUp(leaves, last)[Len(leaves)].siblings

\* What the contract does with a proof: hash the pairs up to a root.
Verify(proof, root, x) == FoldLeft(Parent, Leaf(x), proof) = root
=============================================================================
