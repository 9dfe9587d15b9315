--------------------------- MODULE IncrementalTree ---------------------------
(***************************************************************************)
(* The incremental Merkle tree of hyperlane-core (accumulator/              *)
(* incremental.rs): the tree of the chains, of the validators' checkpoints  *)
(* and, beside the prover, of the relayer. It keeps one hash per level. A   *)
(* hash is the pair of what it hashes, so that equal hashes are equal       *)
(* subtrees.                                                                *)
(***************************************************************************)
EXTENDS Naturals, Sequences

CONSTANTS TREE_DEPTH,   \* 32 in the code
          LeafValues    \* message ids, as tuples of length 1

ASSUME TreeAssumption == TREE_DEPTH \in Nat \ {0}

VARIABLES leaves,       \* the ids that were ingested, in order
          incremental   \* the tree: branch, count

incrementalVars == <<leaves, incremental>>

HashConcat(l, r) == <<l, r>>
ZeroLeaf == <<"zero">>
ZeroHashes[d \in 0 .. TREE_DEPTH] ==
    IF d = 0 THEN ZeroLeaf ELSE HashConcat(ZeroHashes[d - 1], ZeroHashes[d - 1])

\* A size (an index) after i halvings, and the bit that the loops test: (index >> i) & 1.
Halved(size) == LET half[i \in 0 .. TREE_DEPTH] == IF i = 0 THEN size ELSE half[i - 1] \div 2
                IN  half
Bit(index, i) == Halved(index)[i] % 2

\* The leaves under a node of height d.
LeavesUnder[d \in 0 .. TREE_DEPTH] == IF d = 0 THEN 1 ELSE 2 * LeavesUnder[d - 1]

\* The hashes on the way up from a leaf, beside the nodes that are given for the left and
\* the right; all are indexed from 0, bottom up.
HashesUp(index, leaf, left, right) ==
    LET node[i \in 0 .. TREE_DEPTH] ==
            IF i = 0 THEN leaf
            ELSE IF Bit(index, i - 1) = 1 THEN HashConcat(left[i - 1], node[i - 1])
            ELSE HashConcat(node[i - 1], right[i - 1])
    IN  node
------------------------------------------------------------------------------
EmptyIncremental == [branch |-> [i \in 0 .. TREE_DEPTH - 1 |-> ZeroHashes[i]], count |-> 0]

\* The node that ingest() carries up to level i while the bits of the new size are 0.
CarriedNode(branch, element) ==
    LET node[i \in 0 .. TREE_DEPTH] ==
            IF i = 0 THEN element ELSE HashConcat(branch[i - 1], node[i - 1])
    IN  node
\* The level of the lowest 1 bit of a size; there may be none.
LowestOne(size) ==
    {i \in 0 .. TREE_DEPTH - 1 : Bit(size, i) = 1 /\ \A k \in 0 .. i - 1 : Bit(size, k) = 0}
\* A faulty variant: the size is taken before the leaf is counted.
IngestIncrementalOldSize(t, element) ==
    [branch |-> [i \in DOMAIN t.branch |->
                    IF i \in LowestOne(t.count) THEN CarriedNode(t.branch, element)[i]
                    ELSE t.branch[i]],
     count |-> t.count + 1]
\* ingest() writes the level of the lowest 1 bit of the new size, and no level when there is none.
IngestIncremental(t, element) ==
    LET size == t.count + 1 IN
    [branch |-> [i \in DOMAIN t.branch |->
                    IF i \in LowestOne(size) THEN CarriedNode(t.branch, element)[i]
                    ELSE t.branch[i]],
     count |-> size]

IncrementalRoot(t) == HashesUp(t.count, ZeroLeaf, t.branch, ZeroHashes)[TREE_DEPTH]

\* merkle_root_from_branch
RootFromBranch(leaf, branch, index) == HashesUp(index, leaf, branch, branch)[TREE_DEPTH]
VerifyIncremental(t, proof) ==
    RootFromBranch(proof.leaf, proof.path, proof.index) = IncrementalRoot(t)

Init_Incremental == leaves = << >> /\ incremental = EmptyIncremental

\* A faulty variant: the assertion allows the last leaf.
HasRoomInclusive == incremental.count < LeavesUnder[TREE_DEPTH]
\* The assertion in IncrementalMerkle::ingest: count < u32::MAX, the last leaf of the tree
\* stays free.
HasRoom == incremental.count < LeavesUnder[TREE_DEPTH] - 1

IngestLeaf(id) ==
    /\ HasRoom
    /\ leaves' = Append(leaves, id)
    /\ incremental' = IngestIncremental(incremental, id)

Next_Incremental == \E id \in LeafValues : IngestLeaf(id)

IncrementalSpec == Init_Incremental /\ [][Next_Incremental]_incrementalVars
------------------------------------------------------------------------------
(* Properties.                                                              *)

\* The complete binary tree over ids and zeros, by definition: Subtrees(ids)[d][i] is the
\* hash of the i-th node of height d.
Subtrees(ids) ==
    LET node[d \in 0 .. TREE_DEPTH] ==
            [i \in Nat |->
                IF d = 0 THEN IF i < Len(ids) THEN ids[i + 1] ELSE ZeroLeaf
                ELSE HashConcat(node[d - 1][2 * i], node[d - 1][2 * i + 1])]
    IN  node
ReferenceRoot(ids) == Subtrees(ids)[TREE_DEPTH][0]

\* The proof of a leaf: on every level the other child of its parent.
Sibling(j) == IF j % 2 = 1 THEN j - 1 ELSE j + 1
SiblingProof(ids, index) ==
    [leaf |-> ids[index + 1], index |-> index,
     path |-> [i \in 0 .. TREE_DEPTH - 1 |-> Subtrees(ids)[i][Sibling(Halved(index)[i])]]]

\* One hash per level is enough: the root computed from them is that of the leaves that
\* were ingested.
IncrementalRootExact == IncrementalRoot(incremental) = ReferenceRoot(leaves)

\* verify() accepts the proof of every leaf that was ingested.
ProofsAccepted ==
    \A index \in 0 .. Len(leaves) - 1 : VerifyIncremental(incremental, SiblingProof(leaves, index))

\* The incremental tree computes the root of its leaves and verifies their proofs
\* (IncrementalMerkle::ingest, root, verify).
IncrementalTreeSound == IncrementalRootExact /\ ProofsAccepted
==============================================================================
