----------------------------- MODULE AgentPair -----------------------------
(***************************************************************************)
(* Two agents that deliver the messages of one origin to one destination:  *)
(* a relayer and an API server, which runs the same pipeline               *)
(* (agents/apiserver/src/msg, merkle_tree and apiserver.rs) beside its     *)
(* HTTP endpoint.  Each has a database, a merkle tree and a submitter of   *)
(* its own; they share the chains and the validators' checkpoints.  The    *)
(* endpoint adds the messages of its requests to the API server's tree,    *)
(* which then is not the tree of the chain.                                *)
(*                                                                         *)
(* Module SerialSubmitter has the queues, the channel and the order of one *)
(* agent; here an operation moves on its own, in any order and at any      *)
(* time, and what is followed is what the agents do to each other.  A      *)
(* message is its nonce, which is also its leaf index; a root is the       *)
(* sequence of the leaves it commits to.                                   *)
(***************************************************************************)
EXTENDS Naturals, Sequences, FiniteSets, FiniteSetsExt

CONSTANTS
    Agents,         \* "relayer" and "apiserver"
    NumMessages,    \* messages dispatched on the origin
    Requested,      \* a message of a validity request, not dispatched on the origin
    PairIsms,       \* ISMs recipients have: [modules, threshold]; a plain one has one module
    VerifyGas,      \* what verifying costs with a module of each type
    Offchain,       \* messages for which the URLs of a CCIP read ISM have an answer
    Whitelist, Blacklist,   \* sequences of rules, a rule being the messages it matches
    PairPolicies,   \* sequence of [list, kind, amount]
    Paid,           \* Paid[m]: gas paid for on the origin
    TxGas,          \* what an estimate says and a transaction uses
    PairGasLimit,   \* transaction_gas_limit
    NoContract,     \* messages whose recipient is not a contract
    Synced,         \* messages an earlier run of the agents had indexed
    MaxRequests, MaxPairFaults

PairMessage == 0 .. (NumMessages - 1)

ASSUME AgentPairAssumption ==
    /\ NumMessages \in Nat /\ TxGas \in Nat \ {0} /\ PairGasLimit \in Nat
    /\ Requested \notin PairMessage /\ Synced \in 0 .. NumMessages
    /\ \A i \in PairIsms : i.threshold \in 1 .. Len(i.modules)
    /\ MaxRequests \in Nat /\ MaxPairFaults \in Nat

VARIABLES
    (* HyperlaneRocksDB of each agent *)
    messages, insertions, payments, processedBy, gasUsed,
    (* lost on a restart *)
    proverTree, leafIndex, messageNonce, stage, submission,
    (* the chains and the validators *)
    recipientIsm,   \* the ISM of the recipients
    published,      \* number of checkpoints a quorum has published
    deliveredOn,    \* messages delivered on the destination
    afloat,         \* messages with a transaction whose outcome the agent did not learn
    (* what happened so far *)
    reverted,       \* transactions of an agent that failed for a message
    reorged,        \* how often the delivery of a message was undone
    orphaned,       \* messages an agent had recorded when their delivery was undone
    requests, pairFaults

pairDb == <<messages, insertions, payments, processedBy, gasUsed>>
pairMemory == <<proverTree, leafIndex, messageNonce, stage, submission>>
pairChain == <<recipientIsm, published, deliveredOn, afloat>>
pairLog == <<reverted, reorged, orphaned, requests, pairFaults>>
pairVars == <<pairDb, pairMemory, pairChain, pairLog>>

Nothing == [kind |-> "none"]
Fault == pairFaults < MaxPairFaults /\ pairFaults' = pairFaults + 1

-----------------------------------------------------------------------------
(* The merkle tree of an agent                                             *)

(* the leaves the merkle tree hook of the origin had at the index *)
Canonical(index) == [k \in 1 .. (index + 1) |-> k - 1]

(* MerkleTreeBuilder::ingest_message_id *)
IngestMessageId(a, leaf) == proverTree' = [proverTree EXCEPT ![a] = Append(@, leaf)]

(* highest_known_leaf_index is one less, None when it is zero *)
KnownLeaves(a) == Len(proverTree[a])

(* Prover::prove_against_previous; BaseMetadataBuilder::get_proof only     *)
(* logs that the proof's root is not the checkpoint's                      *)
ProofAgainst(a, index) == SubSeq(proverTree[a], 1, index + 1)

-----------------------------------------------------------------------------
(* Metadata: what the builders of an ISM's modules return                  *)

(* MerkleRootMultisigMetadataBuilder::fetch_metadata with                  *)
(* fetch_checkpoint_in_range: the highest checkpoint of a quorum that the  *)
(* local tree covers, not below the message's leaf                         *)
MerkleRootMetadata(a, m) ==
    LET indices == {i \in m .. (KnownLeaves(a) - 1) : i < published}
    IN  IF m \in insertions[a] /\ indices # {}
        THEN [kind |-> "merkleRoot", index |-> Max(indices),
              proof |-> ProofAgainst(a, Max(indices))]
        ELSE Nothing

(* MessageIdMultisigMetadataBuilder::fetch_metadata: the checkpoint at the *)
(* message's leaf, whatever the local tree                                 *)
MessageIdMetadata(a, m) ==
    IF m \in insertions[a] /\ m < published THEN [kind |-> "messageId", index |-> m] ELSE Nothing

CcipReadAnswer(m) == IF m \in Offchain THEN [kind |-> "ccipRead"] ELSE Nothing

NullMetadata == [kind |-> "null"]

(* build_ism_and_metadata for a module that is not nested *)
ModuleMetadata(a, m, type) ==
    CASE type = "merkleRoot" -> MerkleRootMetadata(a, m)
      [] type = "messageId" -> MessageIdMetadata(a, m)
      [] type = "ccipRead" -> CcipReadAnswer(m)
      [] type = "null" -> NullMetadata

(* The ISM contracts: a branch, from the message at its leaf, must lead to *)
(* the root the quorum signed.                                             *)
AcceptsMetadata(m, meta) ==
    CASE meta.kind = "none" -> FALSE
      [] meta.kind = "merkleRoot" -> [meta.proof EXCEPT ![m + 1] = m] = Canonical(meta.index)
      [] OTHER -> TRUE

(* AggregationIsmMetadataBuilder: of the modules that pass a dry run, the  *)
(* cheapest ones, as many as the threshold asks for                        *)
CheapestMetadata(m, metas, modules) ==
    LET valid == {i \in DOMAIN metas : AcceptsMetadata(m, metas[i])}
        cost(i) == VerifyGas[modules[i]]
        before(i) == {j \in valid : cost(j) < cost(i) \/ (cost(j) = cost(i) /\ j < i)}
    IN  [i \in DOMAIN metas |->
            IF /\ i \in valid /\ Cardinality(before(i)) < recipientIsm.threshold
               /\ Cardinality(valid) >= recipientIsm.threshold
            THEN metas[i] ELSE Nothing]

(* the metadata of the recipients' ISM; a plain one keeps what its builder *)
(* returned, accepted or not                                               *)
MessageMetadata(a, m) ==
    LET modules == recipientIsm.modules
        metas == [i \in DOMAIN modules |-> ModuleMetadata(a, m, modules[i])]
    IN  IF Len(modules) = 1 THEN metas ELSE CheapestMetadata(m, metas, modules)

HasAny(metas) == \E i \in DOMAIN metas : metas[i] # Nothing

(* Mailbox.process() verifies with the ISM *)
VerifiesMessage(m, metas) ==
    Cardinality({i \in DOMAIN metas : AcceptsMetadata(m, metas[i])}) >= recipientIsm.threshold

-----------------------------------------------------------------------------
(* Matching lists and gas payment policies                                 *)

(* MatchingList::msg_matches: no list gives the default *)
MsgMatches(list, m, default) ==
    IF list = <<>> THEN default ELSE \E i \in DOMAIN list : m \in list[i]

PolicyAllows(a, m, policy) ==
    LET paid == IF m \in payments[a] THEN Paid[m] ELSE 0
        left == IF gasUsed[a][m] < paid THEN paid - gasUsed[a][m] ELSE 0
    IN  CASE policy.kind = "none" -> TRUE
          [] policy.kind = "minimum" -> paid >= policy.amount
          [] policy.kind = "quoting" -> left >= (TxGas * policy.amount) \div 2

(* GasPaymentEnforcer::message_meets_gas_payment_requirement *)
MeetsGasRequirement(a, m) ==
    LET matching == {i \in DOMAIN PairPolicies : MsgMatches(PairPolicies[i].list, m, TRUE)}
    IN  matching # {} /\ PolicyAllows(a, m, PairPolicies[Min(matching)])

-----------------------------------------------------------------------------
PairInit ==
    /\ messages = [a \in Agents |-> 0 .. (Synced - 1)] /\ insertions = messages
    /\ payments = [a \in Agents |-> {m \in messages[a] : Paid[m] > 0}]
    /\ processedBy = [a \in Agents |-> {}]
    /\ gasUsed = [a \in Agents |-> [m \in PairMessage |-> 0]]
    /\ proverTree = [a \in Agents |-> <<>>] /\ leafIndex = [a \in Agents |-> 0]
    /\ messageNonce = [a \in Agents |-> 0]
    /\ stage = [a \in Agents |-> [m \in PairMessage |-> "new"]]
    /\ submission = [a \in Agents |-> [m \in PairMessage |-> <<Nothing>>]]
    /\ recipientIsm \in PairIsms
    /\ published = Synced /\ deliveredOn = {} /\ afloat = {}
    /\ reverted = [a \in Agents |-> [m \in PairMessage |-> 0]]
    /\ reorged = [m \in PairMessage |-> 0] /\ orphaned = [a \in Agents |-> {}]
    /\ requests = 0 /\ pairFaults = 0

Move(a, m, s) == stage' = [stage EXCEPT ![a][m] = s]
Forget(a, m) == submission' = [submission EXCEPT ![a][m] = <<Nothing>>]

(* What prepare_task, submit_task and confirm_task do with the result of   *)
(* the operation.  A message already delivered passes submit() untouched.  *)
PrepareTask(a, m, result) ==
    Move(a, m, CASE result = "success" -> "submit" [] result = "submitted" -> "confirm"
                 [] result = "reprepare" -> "prepare" [] result = "drop" -> "dropped")

SubmitTask(a, m, result) ==
    Move(a, m, CASE result = "success" -> "confirm" [] result = "reprepare" -> "prepare")

ConfirmTask(a, m, result) ==
    Move(a, m, CASE result = "success" -> "done" [] result = "reprepare" -> "prepare")

(* on_reprepare with the backoff of the attempts: a wait of any length *)
OnReprepare(a, m) == Forget(a, m)

(* receive_task takes in what from_persisted_retries made *)
ReceiveTask(a, m) == Move(a, m, "prepare")

RecordProcessSuccess(a, m) == processedBy' = [processedBy EXCEPT ![a] = @ \cup {m}]

(* record_tx_outcome: executed or reverted, the gas is spent *)
RecordTxOutcome(a, m) == gasUsed' = [gasUsed EXCEPT ![a][m] = @ + TxGas]

(* run_message_sync, run_merkle_tree_hook_syncs and                        *)
(* run_interchain_gas_payment_sync: three tasks, each at its own pace      *)
SyncMessage(a, m) ==
    /\ m \notin messages[a]
    /\ messages' = [messages EXCEPT ![a] = @ \cup {m}]
    /\ UNCHANGED <<insertions, payments, processedBy, gasUsed, pairMemory, pairChain, pairLog>>

SyncInsertion(a, m) ==
    /\ m \notin insertions[a]
    /\ insertions' = [insertions EXCEPT ![a] = @ \cup {m}]
    /\ UNCHANGED <<messages, payments, processedBy, gasUsed, pairMemory, pairChain, pairLog>>

SyncPayment(a, m) ==
    /\ m \notin payments[a] /\ Paid[m] > 0
    /\ payments' = [payments EXCEPT ![a] = @ \cup {m}]
    /\ UNCHANGED <<messages, insertions, processedBy, gasUsed, pairMemory, pairChain, pairLog>>

(* A quorum of validators publishes the checkpoint of the next index. *)
PublishCheckpoint ==
    /\ published < NumMessages
    /\ published' = published + 1
    /\ UNCHANGED <<pairDb, pairMemory, recipientIsm, deliveredOn, afloat, pairLog>>

(* MerkleTreeProcessor::tick *)
ProcessLeaf(a) ==
    /\ leafIndex[a] \in insertions[a]
    /\ IngestMessageId(a, leafIndex[a])
    /\ leafIndex' = [leafIndex EXCEPT ![a] = @ + 1]
    /\ UNCHANGED <<pairDb, messageNonce, stage, submission, pairChain, pairLog>>

(* check_validity: the message is added to the tree and never removed *)
RequestValidity ==
    /\ requests < MaxRequests /\ requests' = requests + 1
    /\ IngestMessageId("apiserver", Requested)
    /\ UNCHANGED <<pairDb, leafIndex, messageNonce, stage, submission, pairChain,
                   reverted, reorged, orphaned, pairFaults>>

\* A faulty variant: the nonce does not move on from a message that is skipped.
ProcessMessageStuck(a) ==
    LET m == messageNonce[a]
    IN  /\ m \in messages[a]
        /\ m \notin processedBy[a]
        /\ MsgMatches(Whitelist, m, TRUE) /\ ~MsgMatches(Blacklist, m, FALSE)
        /\ messageNonce' = [messageNonce EXCEPT ![a] = @ + 1]
        /\ ReceiveTask(a, m)
        /\ UNCHANGED <<pairDb, proverTree, leafIndex, submission, pairChain, pairLog>>

(* MessageProcessor::tick with try_get_unprocessed_message *)
ProcessMessage(a) ==
    LET m == messageNonce[a]
        send == /\ m \notin processedBy[a]
                /\ MsgMatches(Whitelist, m, TRUE) /\ ~MsgMatches(Blacklist, m, FALSE)
    IN  /\ m \in messages[a]
        /\ messageNonce' = [messageNonce EXCEPT ![a] = @ + 1]
        /\ IF send THEN ReceiveTask(a, m) ELSE UNCHANGED stage
        /\ UNCHANGED <<pairDb, proverTree, leafIndex, submission, pairChain, pairLog>>

(* PendingMessage::prepare up to the metadata: a delivered message goes    *)
(* through submit, as submitted, to the confirmation                       *)
CheckDelivered(a, m) ==
    /\ stage[a][m] = "prepare"
    /\ CASE m \in deliveredOn -> PrepareTask(a, m, "submitted")
         [] m \in NoContract -> PrepareTask(a, m, "drop")
         [] OTHER -> Move(a, m, "build")
    /\ UNCHANGED <<pairDb, proverTree, leafIndex, messageNonce, submission, pairChain, pairLog>>

BuildSubmission(a, m) ==
    LET metas == MessageMetadata(a, m)
    IN  /\ stage[a][m] = "build"
        /\ IF HasAny(metas)
           THEN Move(a, m, "estimate") /\ submission' = [submission EXCEPT ![a][m] = metas]
           ELSE PrepareTask(a, m, "reprepare") /\ OnReprepare(a, m)
        /\ UNCHANGED <<pairDb, proverTree, leafIndex, messageNonce, pairChain, pairLog>>

\* A faulty variant: the costs are not estimated by simulating process().
EstimateUnchecked(a, m) ==
    /\ stage[a][m] = "estimate"
    /\ IF MeetsGasRequirement(a, m) /\ TxGas <= PairGasLimit
       THEN PrepareTask(a, m, "success") /\ UNCHANGED submission
       ELSE PrepareTask(a, m, "reprepare") /\ OnReprepare(a, m)
    /\ UNCHANGED <<pairDb, proverTree, leafIndex, messageNonce, pairChain, pairLog>>

(* process_estimate_costs simulates process(), which reverts for a message *)
(* delivered before and for metadata the ISM does not accept; then the gas *)
(* payment and the gas limit are checked                                   *)
EstimateCosts(a, m) ==
    /\ stage[a][m] = "estimate"
    /\ IF /\ m \notin deliveredOn /\ VerifiesMessage(m, submission[a][m])
          /\ MeetsGasRequirement(a, m) /\ TxGas <= PairGasLimit
       THEN PrepareTask(a, m, "success") /\ UNCHANGED submission
       ELSE PrepareTask(a, m, "reprepare") /\ OnReprepare(a, m)
    /\ UNCHANGED <<pairDb, proverTree, leafIndex, messageNonce, pairChain, pairLog>>

(* submit_task and PendingMessage::submit: the outcome is recorded whether *)
(* the transaction was executed or reverted                                *)
SubmitTransaction(a, m) ==
    LET executed == m \notin deliveredOn /\ VerifiesMessage(m, submission[a][m])
    IN  /\ stage[a][m] = "submit"
        /\ RecordTxOutcome(a, m)
        /\ Forget(a, m)
        /\ IF executed
           THEN /\ deliveredOn' = deliveredOn \cup {m}
                /\ SubmitTask(a, m, "success") /\ UNCHANGED reverted
           ELSE /\ reverted' = [reverted EXCEPT ![a][m] = @ + 1]
                /\ SubmitTask(a, m, "reprepare") /\ UNCHANGED deliveredOn
        /\ UNCHANGED <<messages, insertions, payments, processedBy, proverTree, leafIndex,
                       messageNonce, recipientIsm, published, afloat, reorged, orphaned,
                       requests, pairFaults>>

(* process() fails after the broadcast: the message is prepared again, and *)
(* the transaction may still be included                                   *)
LoseOutcome(a, m) ==
    /\ stage[a][m] = "submit" /\ Fault
    /\ afloat' = afloat \cup {m}
    /\ SubmitTask(a, m, "reprepare") /\ OnReprepare(a, m)
    /\ UNCHANGED <<pairDb, proverTree, leafIndex, messageNonce, recipientIsm, published,
                   deliveredOn, reverted, reorged, orphaned, requests>>

Land(m) ==
    /\ m \in afloat
    /\ afloat' = afloat \ {m} /\ deliveredOn' = deliveredOn \cup {m}
    /\ UNCHANGED <<pairDb, pairMemory, recipientIsm, published, pairLog>>

(* confirm_task and PendingMessage::confirm, after CONFIRM_DELAY *)
ConfirmMessage(a, m) ==
    /\ stage[a][m] = "confirm"
    /\ IF m \in deliveredOn
       THEN ConfirmTask(a, m, "success") /\ RecordProcessSuccess(a, m)
       ELSE ConfirmTask(a, m, "reprepare") /\ UNCHANGED processedBy
    /\ UNCHANGED <<messages, insertions, payments, gasUsed, proverTree, leafIndex, messageNonce,
                   submission, pairChain, pairLog>>

(* A reorg of the destination undoes a delivery.  CONFIRM_DELAY runs from  *)
(* submit(), not from the inclusion, and confirm() looks once: the message *)
(* may be recorded already, and then its agent never looks at it again.    *)
UndoDelivery(m) ==
    /\ m \in deliveredOn
    /\ Fault
    /\ deliveredOn' = deliveredOn \ {m}
    /\ reorged' = [reorged EXCEPT ![m] = @ + 1]
    /\ orphaned' = [a \in Agents |-> orphaned[a] \cup ({m} \cap processedBy[a])]
    /\ UNCHANGED <<pairDb, pairMemory, recipientIsm, published, afloat, reverted, requests>>

(* from_settings and run: everything starts empty except the database; a   *)
(* task that fails ends the whole agent                                    *)
RestartAgent(a) ==
    /\ Fault
    /\ proverTree' = [proverTree EXCEPT ![a] = <<>>]
    /\ leafIndex' = [leafIndex EXCEPT ![a] = 0]
    /\ messageNonce' = [messageNonce EXCEPT ![a] = 0]
    /\ stage' = [stage EXCEPT ![a] = [m \in PairMessage |-> "new"]]
    /\ submission' = [submission EXCEPT ![a] = [m \in PairMessage |-> <<Nothing>>]]
    /\ UNCHANGED <<pairDb, pairChain, reverted, reorged, orphaned, requests>>

(* the syncs and the two processors; none of them runs out of turn *)
Background(a) ==
    \/ ProcessLeaf(a) \/ ProcessMessage(a)
    \/ \E m \in PairMessage : SyncMessage(a, m) \/ SyncInsertion(a, m) \/ SyncPayment(a, m)

(* the step of an operation, one at a time *)
OperationStep(a, m) ==
    \/ CheckDelivered(a, m) \/ BuildSubmission(a, m) \/ EstimateCosts(a, m)
    \/ SubmitTransaction(a, m) \/ ConfirmMessage(a, m)

PairNext ==
    \/ \E a \in Agents : Background(a) \/ RestartAgent(a)
    \/ \E a \in Agents, m \in PairMessage : OperationStep(a, m) \/ LoseOutcome(a, m)
    \/ PublishCheckpoint \/ RequestValidity
    \/ \E m \in PairMessage : Land(m) \/ UndoDelivery(m)

(* Every task of an agent loops for ever and every call returns; so do the *)
(* validators.  What is in the background only adds, so that a step of it  *)
(* that remains possible is taken once the others are done.  Nobody need   *)
(* send requests, and a lost transaction need not be included.             *)
PairFairness ==
    /\ WF_pairVars(PublishCheckpoint)
    /\ \A a \in Agents :
        /\ WF_pairVars(Background(a))
        /\ \A m \in PairMessage : WF_pairVars(OperationStep(a, m))

PairSpec == PairInit /\ [][PairNext]_pairVars /\ PairFairness

-----------------------------------------------------------------------------
(* record_message_process_success stands for a delivery that is there,     *)
(* whichever agent made it: a recorded message is missing on the           *)
(* destination only when a reorg undid it after it was recorded.           *)
CommitsDelivered == \A a \in Agents : processedBy[a] \ orphaned[a] \subseteq deliveredOn

(* However the agents overtake each other, an agent's transaction fails    *)
(* for a message once, and once more for each reorg that undid the         *)
(* delivery: the delivery status is looked up again before the next one.   *)
WasteBounded ==
    \A a \in Agents, m \in PairMessage : reverted[a][m] <= 1 + reorged[m]

(* A proof from the API server's tree that a request changed never leaves  *)
(* in a transaction, although get_proof lets it pass.                      *)
SendsOnlyAccepted ==
    \A a \in Agents, m \in PairMessage :
        stage[a][m] = "submit" => VerifiesMessage(m, submission[a][m])

(* The agents do each other no harm beyond one failed transaction: parts   *)
(* CommitsDelivered, WasteBounded and SendsOnlyAccepted (PendingMessage    *)
(* prepare, submit and confirm run by two agents).                         *)
AgentsSound == CommitsDelivered /\ WasteBounded /\ SendsOnlyAccepted

(* Every message that passes the lists and can be delivered is recorded as *)
(* processed by both agents in the end, also by the API server whose tree  *)
(* requests changed, through restarts, reorgs and lost outcomes.  The one  *)
(* exception is a delivery undone after an agent had recorded it: that     *)
(* agent will not deliver again, and the other one may be the API server   *)
(* with a tree that proves nothing.                                        *)
AgentsCommit ==
    \A a \in Agents, m \in PairMessage :
        (/\ MsgMatches(Whitelist, m, TRUE) /\ ~MsgMatches(Blacklist, m, FALSE)
         /\ m \notin NoContract)
        => <>(m \in processedBy[a] \/ \E b \in Agents : m \in orphaned[b])
=============================================================================
