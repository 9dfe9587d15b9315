----------------------------- MODULE ApiServer ------------------------------
(***************************************************************************)
(* The validity API of the API server (agents/apiserver): for a message it *)
(* acts as validator and relayer at once.  check_validity adds the message *)
(* to the merkle tree of the origin, signs a checkpoint of the tree for    *)
(* it, builds the metadata and simulates the delivery.  Requests run       *)
(* concurrently, beside the MerkleTreeProcessor that adds the insertions   *)
(* indexed from the chain to the same tree.                                *)
(*                                                                         *)
(* One origin.  A message stands for its id, a root for the sequence of    *)
(* leaves it commits to (the hash has no collisions), a merkle proof for   *)
(* the tree it was taken from.  Every await of check_validity is a place   *)
(* where other tasks run; ingest_message_id holds the write lock from its  *)
(* start to its end, so it is one step.                                    *)
(*                                                                         *)
(* The tree lives in memory and is built anew, empty, when the process     *)
(* starts; the database and the signing key outlive it.                    *)
(***************************************************************************)
EXTENDS Integers, Sequences

CONSTANTS
    Clients,        \* requests being served
    Messages,
    Batch,          \* the messages of each request
    Admissible,     \* messages the whitelist, blacklist and origin check let through
    Routed,         \* messages to a configured destination
    MaxInserted,    \* bound on the insertions indexed from the chain
    MaxRestarts     \* bound on the restarts of the process

ASSUME ApiServerAssumption ==
    /\ Batch \in [Clients -> Seq(Messages)]
    /\ \A c \in Clients : Len(Batch[c]) > 0
    /\ Admissible \subseteq Messages /\ Routed \subseteq Messages
    /\ MaxInserted \in Nat /\ MaxRestarts \in Nat

VARIABLES
    tree,           \* prover_syncs[origin]: the leaves of prover and incremental
    inserted,       \* the merkle tree insertions in the database, by leaf index
    leaf_index,     \* of the MerkleTreeProcessor
    pc, pos,        \* where each request is, and at which message of its batch
    copy,           \* the local `tree`: a copy of incremental
    proof,          \* the tree the local `proof` was made against
    responses,      \* responses of each request so far
    signed,         \* checkpoints signed, each with its message
    life            \* how often the process has restarted

request == <<pc, pos, copy, proof, responses>>
apiVars == <<tree, inserted, leaf_index, request, signed, life>>

RequestedMessage(c) == Batch[c][pos[c]]

(* tree.index(), counting from zero *)
Index(t) == Len(t) - 1

Prefix(s, t) == Len(s) <= Len(t) /\ \A i \in 1 .. Len(s) : s[i] = t[i]

(* a bug to detect: proofs are made against the current root *)
ProveAgainstLatest(i) == tree

(* Prover::prove_against_previous: as if the tree ended with the leaf i *)
ProveAgainstPrevious(i) == SubSeq(tree, 1, i + 1)

(* The checkpoint check_validity signs for message m: root and index are   *)
(* those of the tree t.  The life it was signed in is kept with it.        *)
Checkpoint(t, i, m) == [life |-> life, root |-> t, index |-> i, message |-> m]

(* The response to message m, with the metadata's index and proof, the     *)
(* root that was signed and the life it was made in; error responses have  *)
(* no content.                                                             *)
Okay(m, i, p, root) ==
    [ok |-> TRUE, life |-> life, message |-> m, index |-> i, proof |-> p, root |-> root]
Error == [ok |-> FALSE]

(* MerkleRootMultisigIsm: the branch, from the message at the leaf index,  *)
(* leads to the root that was signed.                                      *)
Verifies(m, i, p, root) == [p EXCEPT ![i + 1] = m] = root

-----------------------------------------------------------------------------
ApiInit ==
    /\ tree = <<>> /\ inserted = <<>> /\ leaf_index = 0
    /\ pc = [c \in Clients |-> "idle"] /\ pos = [c \in Clients |-> 1]
    /\ copy = [c \in Clients |-> <<>>]
    /\ proof = [c \in Clients |-> <<>>]
    /\ responses = [c \in Clients |-> <<>>]
    /\ signed = {} /\ life = 0

(* A request arrives: the state is cloned, the prover it points to is not, *)
(* so all requests and the processor share one tree.                      *)
Arrive(c) ==
    /\ pc[c] = "idle"
    /\ pc' = [pc EXCEPT ![c] = "filter"]
    /\ UNCHANGED <<tree, inserted, leaf_index, pos, copy, proof, responses, signed, life>>

(* batch_check_validity: push the response and go on with the next         *)
(* message; the locals of check_validity are gone.                         *)
Respond(c, r) ==
    /\ copy' = [copy EXCEPT ![c] = <<>>] /\ proof' = [proof EXCEPT ![c] = <<>>]
    /\ responses' = [responses EXCEPT ![c] = Append(@, r)]
    /\ IF pos[c] = Len(Batch[c])
       THEN pc' = [pc EXCEPT ![c] = "done"] /\ UNCHANGED pos
       ELSE pc' = [pc EXCEPT ![c] = "filter"] /\ pos' = [pos EXCEPT ![c] = @ + 1]

(* Unknown domain, not whitelisted, blacklisted or destined for the origin *)
Filter(c) ==
    /\ pc[c] = "filter" /\ RequestedMessage(c) \notin Admissible
    /\ Respond(c, Error)
    /\ UNCHANGED <<tree, inserted, leaf_index, signed, life>>

(* a bug to detect: the request works off a clone of the tree, as the      *)
(* comment in batch_check_validity_request has it                          *)
IngestIntoClone(c) ==
    /\ pc[c] = "filter" /\ RequestedMessage(c) \in Admissible
    /\ copy' = [copy EXCEPT ![c] = Append(tree, RequestedMessage(c))]
    /\ pc' = [pc EXCEPT ![c] = "sign"]
    /\ UNCHANGED <<tree, inserted, leaf_index, pos, proof, responses, signed, life>>

(* prover.write().await.ingest_message_id(message.id()) *)
Ingest(c) ==
    /\ pc[c] = "filter" /\ RequestedMessage(c) \in Admissible
    /\ tree' = Append(tree, RequestedMessage(c))
    /\ pc' = [pc EXCEPT ![c] = "read"]
    /\ UNCHANGED <<inserted, leaf_index, pos, copy, proof, responses, signed, life>>

(* let tree = prover.read().await.incremental *)
Read(c) ==
    /\ pc[c] = "read"
    /\ copy' = [copy EXCEPT ![c] = tree]
    /\ pc' = [pc EXCEPT ![c] = "sign"]
    /\ UNCHANGED <<tree, inserted, leaf_index, pos, proof, responses, signed, life>>

(* a bug to detect: the index is read again when the checkpoint is signed *)
SignCurrentIndex(c) ==
    /\ pc[c] = "sign"
    /\ signed' = signed \cup {Checkpoint(copy[c], Index(tree), RequestedMessage(c))}
    /\ pc' = [pc EXCEPT ![c] = "proof"]
    /\ UNCHANGED <<tree, inserted, leaf_index, pos, copy, proof, responses, life>>

(* signer.sign(cm).await *)
Sign(c) ==
    /\ pc[c] = "sign"
    /\ signed' = signed \cup {Checkpoint(copy[c], Index(copy[c]), RequestedMessage(c))}
    /\ pc' = [pc EXCEPT ![c] = "proof"]
    /\ UNCHANGED <<tree, inserted, leaf_index, pos, copy, proof, responses, life>>

(* The signer fails: the message stays in the tree *)
SignError(c) ==
    /\ pc[c] = "sign"
    /\ Respond(c, Error)
    /\ UNCHANGED <<tree, inserted, leaf_index, signed, life>>

(* prover.read().await.get_proof(tree.index(), tree.index()); past the end *)
(* of the tree it would panic, which ProofMatchesCheckpoint excludes.      *)
Prove(c) ==
    /\ pc[c] = "proof" /\ Index(copy[c]) < Len(tree)
    /\ proof' = [proof EXCEPT ![c] = ProveAgainstPrevious(Index(copy[c]))]
    /\ pc' = [pc EXCEPT ![c] = "check"]
    /\ UNCHANGED <<tree, inserted, leaf_index, pos, copy, responses, signed, life>>

(* A panic ends the request without a response: the destination is not     *)
(* configured, a call to it failed, or the simulated delivery reverted.    *)
Panic(c) ==
    /\ pc[c] = "check"
    /\ pc' = [pc EXCEPT ![c] = "dropped"]
    /\ copy' = [copy EXCEPT ![c] = <<>>] /\ proof' = [proof EXCEPT ![c] = <<>>]
    /\ UNCHANGED <<tree, inserted, leaf_index, pos, responses, signed, life>>

(* Already delivered, no contract at the recipient, gas not paid for, or   *)
(* over the gas limit.                                                     *)
Reject(c) ==
    /\ pc[c] = "check" /\ RequestedMessage(c) \in Routed
    /\ Respond(c, Error)
    /\ UNCHANGED <<tree, inserted, leaf_index, signed, life>>

(* process_estimate_costs runs the verification on the destination *)
Accept(c) ==
    /\ pc[c] = "check" /\ RequestedMessage(c) \in Routed
    /\ Verifies(RequestedMessage(c), Index(copy[c]), proof[c], copy[c])
    /\ Respond(c, Okay(RequestedMessage(c), Index(copy[c]), proof[c], copy[c]))
    /\ UNCHANGED <<tree, inserted, leaf_index, signed, life>>

-----------------------------------------------------------------------------
(* The merkle tree hook sync stores the insertion of the next leaf index;  *)
(* a message may be inserted twice.                                        *)
Insert(m) ==
    /\ Len(inserted) < MaxInserted
    /\ inserted' = Append(inserted, m)
    /\ UNCHANGED <<tree, leaf_index, request, signed, life>>

(* a bug to detect: leaves that are in the tree already are skipped *)
TickSkips ==
    /\ leaf_index < Len(inserted)
    /\ LET m == inserted[leaf_index + 1] IN
       tree' = IF \E i \in DOMAIN tree : tree[i] = m THEN tree ELSE Append(tree, m)
    /\ leaf_index' = leaf_index + 1
    /\ UNCHANGED <<inserted, request, signed, life>>

(* MerkleTreeProcessor::tick *)
Tick ==
    /\ leaf_index < Len(inserted)
    /\ tree' = Append(tree, inserted[leaf_index + 1])
    /\ leaf_index' = leaf_index + 1
    /\ UNCHANGED <<inserted, request, signed, life>>

(* The process stops and starts again: prover_syncs gets new, empty        *)
(* MerkleTreeBuilders and the processor begins at leaf zero.  Requests in  *)
(* progress are lost; the database and the key of the signer are not.      *)
RestartServer ==
    /\ life < MaxRestarts
    /\ life' = life + 1
    /\ tree' = <<>> /\ leaf_index' = 0
    /\ pc' = [c \in Clients |-> IF pc[c] \in {"idle", "done"} THEN pc[c] ELSE "dropped"]
    /\ copy' = [c \in Clients |-> <<>>] /\ proof' = [c \in Clients |-> <<>>]
    /\ UNCHANGED <<inserted, pos, responses, signed>>

-----------------------------------------------------------------------------
Serve(c) ==
    \/ Arrive(c) \/ Filter(c) \/ Ingest(c) \/ Read(c)
    \/ Sign(c) \/ SignError(c) \/ Prove(c)
    \/ Panic(c) \/ Reject(c) \/ Accept(c)

ApiNext ==
    \/ \E c \in Clients : Serve(c)
    \/ \E m \in Messages : Insert(m)
    \/ Tick
    \/ RestartServer

ApiSpec == ApiInit /\ [][ApiNext]_apiVars

-----------------------------------------------------------------------------
(* Properties                                                              *)

(* What a response may be. *)
Response ==
    [ok : {TRUE}, life : Nat, message : Messages, index : Nat,
     proof : Seq(Messages), root : Seq(Messages)] \cup {Error}

(* The states of a request. *)
PC == {"idle", "filter", "read", "sign", "proof", "check", "done", "dropped"}

(* The type invariant. *)
ApiTypeOK ==
    /\ tree \in Seq(Messages) /\ inserted \in Seq(Messages)
    /\ leaf_index \in 0 .. Len(inserted)
    /\ pc \in [Clients -> PC]
    /\ pos \in [Clients -> Nat]
    /\ \A c \in Clients : pos[c] \in 1 .. Len(Batch[c])
    /\ copy \in [Clients -> Seq(Messages)]
    /\ proof \in [Clients -> Seq(Messages)]
    /\ responses \in [Clients -> Seq(Response)]
    /\ signed \subseteq [life : Nat, root : Seq(Messages), index : Nat, message : Messages]
    /\ life \in Nat

(* From one start of the process to its end the server never signs two     *)
(* roots for one index, however many requests and processor ticks add      *)
(* leaves between the copy of the tree and the signature: check_validity   *)
(* reads root and index from one copy.  After a restart it may sign        *)
(* another root for an index: the tree is rebuilt without the leaves the   *)
(* requests had added, and the key is the old one.                         *)
OneRootPerIndex ==
    \A s, t \in signed :
        s.life = t.life /\ s.index = t.index => s.root = t.root

(* A checkpoint signed for a message commits to a tree that holds the      *)
(* message, at the index or before it.                                     *)
CheckpointCoversMessage ==
    \A s \in signed : \E i \in 1 .. s.index + 1 : s.root[i] = s.message

(* The proof is taken later than the copy that was signed, from a tree     *)
(* that may have grown: it is a proof against the signed root all the      *)
(* same, and getting it never panics.                                      *)
ProofMatchesCheckpoint ==
    \A c \in Clients :
        /\ pc[c] = "proof" => Index(copy[c]) < Len(tree)
        /\ pc[c] = "check" => proof[c] = copy[c]

(* What check_validity signs and what it proves belong together: the       *)
(* signed root holds the message, and the proof leads to that root.        *)
CheckpointsProvable == CheckpointCoversMessage /\ ProofMatchesCheckpoint

(* What two answers of one life say of the tree.                           *)
OneTree(r, s) ==
    r.life = s.life =>
        /\ r.index <= s.index => Prefix(r.root, s.root)
        /\ r.index = s.index => r.message = s.message

(* All answers without an error are about one growing tree, whoever got    *)
(* them: the root of an earlier leaf is extended by the root of a later    *)
(* one, no two requests are given one leaf for different messages, and     *)
(* within a batch every message gets a leaf after the ones before it.      *)
(* That rests on all requests sharing one prover; a batch that worked off  *)
(* a clone of it, as the comment in batch_check_validity_request says,     *)
(* would be answered with leaves that others were promised too, each with  *)
(* metadata that verifies.                                                 *)
AnswersAgree ==
    /\ \A c, d \in Clients : \A i \in DOMAIN responses[c], j \in DOMAIN responses[d] :
         responses[c][i].ok /\ responses[d][j].ok => OneTree(responses[c][i], responses[d][j])
    /\ \A c \in Clients : \A i, j \in DOMAIN responses[c] :
         i < j /\ responses[c][i].ok /\ responses[c][j].ok =>
             responses[c][i].index < responses[c][j].index

(* A batch is answered message by message, in order, whatever errors come  *)
(* in between: the i-th response is about the i-th message, and an         *)
(* answered batch has a response for each.                                 *)
ResponsesInOrder ==
    \A c \in Clients :
        /\ \A i \in DOMAIN responses[c] :
             responses[c][i].ok => responses[c][i].message = Batch[c][i]
        /\ Len(responses[c]) =
             IF pc[c] = "done" THEN Len(Batch[c]) ELSE pos[c] - 1

(* The insertions of the chain that were ingested since the start of the   *)
(* process are all in the tree, in the chain's order, among the leaves     *)
(* the requests added.                                                     *)
InsertionsInOrder ==
    \E at \in [1 .. leaf_index -> DOMAIN tree] :
        \A i \in 1 .. leaf_index :
            /\ tree[at[i]] = inserted[i]
            /\ \A j \in 1 .. i - 1 : at[j] < at[i]

(* Requests are answered in order and the chain's leaves ingested in       *)
(* order, however the two interleave on the shared tree.                   *)
AnswersInOrder == ResponsesInOrder /\ InsertionsInOrder

(* CheckpointWithMessageId: message_id is the "hash of message emitted     *)
(* from mailbox checkpoint.index".                                         *)
CheckpointNamesItsLeaf ==
    \A s \in signed : s.root[s.index + 1] = s.message

=============================================================================
