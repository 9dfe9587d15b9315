------------------------- MODULE MerkleAccumulators -------------------------
(***************************************************************************)
(* The Merkle accumulators of hyperlane-core: the incremental tree of the   *)
(* chains and validators, the full tree of the Prover, and the proofs       *)
(* against an earlier root that the relayer makes from the current tree.    *)
(* A hash is the pair of what it hashes, so that equal hashes are equal     *)
(* subtrees. MerkleTreeBuilder feeds the prover first, then the incremental *)
(* tree, each of which has its own bound and panics on its own. The trees   *)
(* outlive the task that panicked: they are behind a lock that others hold. *)
(***************************************************************************)
EXTENDS IncrementalTree, SequencesExt

CONSTANT MaxIngests  \* bound: calls of ingest_message_id

VARIABLES prover,          \* MerkleTreeBuilder.prover: count, tree
          proverLeaves,    \* the ids that the prover's tree accepted, in order
          leavesIngested   \* how ingest_message_id ended: Ok, MismatchedRoots, or in a panic of
                           \* the prover (full) or of the incremental tree (assertion)

treeVars == <<leaves, prover, proverLeaves, incremental, leavesIngested>>
------------------------------------------------------------------------------
(* The full tree.                                                           *)

ZeroTree(depth) == [kind |-> "Zero", depth |-> depth, hash |-> ZeroHashes[depth]]
LeafTree(h) == [kind |-> "Leaf", hash |-> h]
NodeTree(l, r) == [kind |-> "Node", hash |-> HashConcat(l.hash, r.hash), left |-> l, right |-> r]

RECURSIVE Create(_, _)
Create(ls, depth) ==
    IF ls = << >> THEN ZeroTree(depth)
    ELSE IF depth = 0 THEN LeafTree(Head(ls))
    ELSE LET capacity == 2 ^ (depth - 1)
             split == IF Len(ls) <= capacity THEN Len(ls) ELSE capacity IN
         NodeTree(Create(SubSeq(ls, 1, split), depth - 1),
                  Create(SubSeq(ls, split + 1, Len(ls)), depth - 1))

\* push_leaf: the new tree, or an error.
Pushed(t) == [ok |-> TRUE, tree |-> t]
PushError(e) == [ok |-> FALSE, error |-> e]
RECURSIVE PushLeaf(_, _, _)
PushLeaf(t, elem, depth) ==
    LET Left(l) == Pushed(NodeTree(l, t.right))
        Right(r) == Pushed(NodeTree(t.left, r))
        new == Create(<<elem>>, depth - 1) IN
    CASE depth = 0 -> PushError("DepthTooSmall")
      [] depth > 0 /\ t.kind = "Leaf" -> PushError("LeafReached")
      [] depth > 0 /\ t.kind = "Zero" -> Pushed(Create(<<elem>>, depth))
      [] OTHER ->
            LET kinds == <<t.left.kind, t.right.kind>> IN
            CASE kinds = <<"Leaf", "Leaf">> -> PushError("MerkleTreeFull")
              [] kinds = <<"Node", "Node">> ->
                    LET r == PushLeaf(t.right, elem, depth - 1) IN IF r.ok THEN Right(r.tree) ELSE r
              [] kinds = <<"Zero", "Zero">> -> Left(new)
              [] kinds = <<"Leaf", "Zero">> -> Right(new)
              [] kinds = <<"Node", "Zero">> ->
                    LET l == PushLeaf(t.left, elem, depth - 1) IN
                    IF l.ok THEN Left(l.tree) ELSE IF l.error = "MerkleTreeFull" THEN Right(new)
                    ELSE l
              [] OTHER -> PushError("Invalid")

\* left_and_right_branches
Branches(t) ==
    IF t.kind = "Node" THEN <<t.left, t.right>>
    ELSE <<ZeroTree(t.depth - 1), ZeroTree(t.depth - 1)>>

\* generate_proof, with prove_against_current: down from the root, the path put bottom up.
GenerateProof(t, index) ==
    LET node[d \in 0 .. TREE_DEPTH] ==
            IF d = TREE_DEPTH THEN t ELSE Branches(node[d + 1])[Bit(index, d) + 1] IN
    [leaf |-> node[0].hash, index |-> index,
     path |-> [i \in 0 .. TREE_DEPTH - 1 |-> Branches(node[i + 1])[2 - Bit(index, i)].hash]]
------------------------------------------------------------------------------
(* Proofs against an earlier root: the sparse tree.                         *)

\* as_latest: the path when this leaf was the last one.
AsLatest(proof) ==
    [proof EXCEPT !.path =
        [i \in DOMAIN @ |-> IF Bit(proof.index, i) = 1 THEN @[i] ELSE ZeroHashes[i]]]

\* From<Proof> for SparseMerkleTree
Sparse(proof) ==
    LET tree[i \in 0 .. TREE_DEPTH] ==
            CASE i = 0 -> LeafTree(proof.leaf)
              [] i > 0 /\ Bit(proof.index, i - 1) = 1 ->
                     NodeTree(LeafTree(proof.path[i - 1]), tree[i - 1])
              [] OTHER -> NodeTree(tree[i - 1], LeafTree(proof.path[i - 1])) IN
    tree[TREE_DEPTH]

RECURSIVE Merge(_, _)
Merge(a, b) ==
    CASE a.kind = "Zero" -> a
      [] a.kind = "Leaf" -> IF a.hash = b.hash THEN b ELSE a
      [] OTHER -> IF b.kind # "Node" THEN a
                  ELSE NodeTree(Merge(a.left, b.left), Merge(a.right, b.right))

\* MerkleTree::prove_against_previous
ProofFromTree(t, leafIndex, rootIndex) ==
    GenerateProof(Merge(Sparse(AsLatest(GenerateProof(t, rootIndex))),
                        Sparse(GenerateProof(t, leafIndex))), leafIndex)
------------------------------------------------------------------------------
(* The prover and the builder.                                              *)

EmptyProver == [count |-> 0, tree |-> Create(<< >>, TREE_DEPTH)]
\* From<T> for Prover
ProverFrom(ls) == [count |-> Len(ls), tree |-> Create(ls, TREE_DEPTH)]
\* ingest counts the leaf before it knows whether there is room.
IngestProver(p, element) ==
    LET pushed == PushLeaf(p.tree, element, TREE_DEPTH) IN
    [count |-> p.count + 1, tree |-> IF pushed.ok THEN pushed.tree ELSE p.tree, ok |-> pushed.ok]
ProveAgainst(p, leafIndex, rootIndex) ==
    IF rootIndex > LeavesUnder[TREE_DEPTH] - 1 THEN [kind |-> "IndexTooHigh"]
    ELSE IF rootIndex >= p.count THEN [kind |-> "ZeroProof"]
    ELSE [kind |-> "Ok", proof |-> ProofFromTree(p.tree, leafIndex, rootIndex)]

Init_Trees ==
    /\ Init_Incremental
    /\ prover = EmptyProver
    /\ proverLeaves = << >>
    /\ leavesIngested = "Ok"

\* MerkleTreeBuilder::ingest_message_id: what the prover has accepted stays in it when the
\* incremental tree then panics.
IngestId(id) ==
    LET p == IngestProver(prover, id) IN
    /\ prover.count < MaxIngests
    /\ prover' = [count |-> p.count, tree |-> p.tree]
    /\ proverLeaves' = IF p.ok THEN Append(proverLeaves, id) ELSE proverLeaves
    /\ \/ /\ p.ok /\ IngestLeaf(id)
          /\ leavesIngested' =
                IF p.tree.hash = IncrementalRoot(incremental') THEN "Ok" ELSE "MismatchedRoots"
       \/ /\ ~(p.ok /\ HasRoom)
          /\ leavesIngested' = IF p.ok THEN "assertion" ELSE "full"
          /\ UNCHANGED <<leaves, incremental>>

Next_Trees == \E id \in LeafValues : IngestId(id)
------------------------------------------------------------------------------
(* Properties.                                                              *)

\* The trees never disagree silently. They have the same leaves, until the prover takes the last
\* leaf of the tree, which the assertion of the incremental tree keeps free: then it is ahead by
\* that leaf for good.
TreesTogether ==
    /\ leavesIngested # "MismatchedRoots"
    /\ \/ leaves = proverLeaves
       \/ leaves = Front(proverLeaves) /\ Len(proverLeaves) = LeavesUnder[TREE_DEPTH]

\* The full tree has the root of the leaves it accepted, and is the tree that is built from all
\* of them at once. Only a full tree has counted more leaves than it has.
ProverExact ==
    /\ prover.tree.hash = ReferenceRoot(proverLeaves)
    /\ prover.tree = ProverFrom(proverLeaves).tree
    /\ \/ prover.count = Len(proverLeaves)
       \/ prover.count > Len(proverLeaves) /\ Len(proverLeaves) = LeavesUnder[TREE_DEPTH]

\* A proof of leaf i against root j, made from the tree of today, is the proof of that leaf in
\* the tree that had just received leaf j; so a validator's old checkpoint can be used. None is
\* made against a root that the tree has not had, whatever it has counted.
ProofsVerify ==
    /\ \A j \in 0 .. Len(proverLeaves) - 1 : \A i \in 0 .. j :
        LET r == ProveAgainst(prover, i, j)
            then == SubSeq(proverLeaves, 1, j + 1) IN
        /\ r.kind = "Ok"
        /\ r.proof = SiblingProof(then, i)
        /\ RootFromBranch(r.proof.leaf, r.proof.path, i) = ReferenceRoot(then)
    /\ \A j \in Len(proverLeaves) .. MaxIngests : ProveAgainst(prover, 0, j).kind # "Ok"

\* The prover agrees with the incremental tree and with the definition of the root, up to and
\* beyond the limits of both (accumulator/incremental.rs, merkle.rs, sparse.rs, builder.rs).
AccumulatorsAgree == TreesTogether /\ ProverExact /\ ProofsVerify
==============================================================================
