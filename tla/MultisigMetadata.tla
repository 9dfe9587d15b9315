-------------------------- MODULE MultisigMetadata -------------------------
(***************************************************************************)
(* The relayer builds the metadata of one message while validators publish *)
(* checkpoints: the multisig builders of agents/relayer/src/msg/metadata,  *)
(* the MultisigCheckpointSyncer (hyperlane-base/src/types/multisig.rs)     *)
(* they use, and IsmMetadata on top.  Honest validators keep the promise   *)
(* of CheckpointStore; a faulty one answers every request as it likes.     *)
(* Each request is a step, so the stores change between them.              *)
(***************************************************************************)
EXTENDS CheckpointStore, IsmMetadata

CONSTANTS
    FaultyValidators,         \* the other validators
    ValidatorSet,   \* the validators of the multisig ISMs, in order
    Threshold,      \* ... and their threshold
    Announcements,  \* storage locations announced by each validator, oldest first
    AllowLocal,     \* allow_local_checkpoint_syncers
    MessageIndex,   \* leaf index of the message
    Roots,          \* the ISMs a recipient may use
    Lookups, CcipAnswers \* what a CCIP read may find

VARIABLES
    indexed,      \* insertions in the relayer's database
    ingested,     \* leaves in the relayer's prover
    root,         \* the ISM of the recipient
    job,          \* job[a]: the builder of leaf ISM a
    built         \* the result for root

metadataVars == <<storeVars, indexed, ingested, root, job, built>>

Forged == 0       \* a message identifier that is not in the hook

RECURSIVE Leaves(_, _)
Leaves(a, depth) ==
    IF depth = 0 THEN {}
    ELSE CASE Ism[a].type = "routing" -> Leaves(Ism[a].route, depth - 1)
           [] Ism[a].type = "aggregation" ->
                UNION {Leaves(Ism[a].modules[i], depth - 1) : i \in 1..Len(Ism[a].modules)}
           [] Ism[a].type \in {"null", "unused"} -> {}
           [] OTHER -> {a}

NewJob ==
    [pc |-> "new", index |-> 0, max |-> 0, pos |-> 1, latest |-> <<>>,
     groups |-> <<>>, quorum |-> <<>>, had |-> {}, result |-> Missing]

Init_Metadata ==
    /\ StoreInit
    /\ indexed = 0
    /\ ingested = 0
    /\ root \in Roots
    /\ job = [a \in Leaves(root, MaxDepth) |-> NewJob]
    /\ built = <<>>

Environment ==
    /\ \/ StoreNext /\ UNCHANGED <<indexed, ingested>>
       \/ indexed < Len(hook) /\ indexed' = indexed + 1 /\ UNCHANGED <<storeVars, ingested>>
       \/ ingested < indexed /\ ingested' = ingested + 1 /\ UNCHANGED <<storeVars, indexed>>
    /\ UNCHANGED <<root, job, built>>

Message == MessageIndex + 1
----------------------------------------------------------------------------
(* build_checkpoint_syncer: the last location that can be parsed and used. *)
UsableLocation(location) == location = "s3" \/ (location = "file" /\ AllowLocal)

SyncerOf(v) ==
    LET usable == SelectSeq(Announcements[v], UsableLocation)
    IN  IF usable = <<>> THEN "none" ELSE Last(usable)

\* A checkpoint with a signature; an answer has none or one of them.
Signed(value, signer) == <<[value |-> value, signer |-> signer]>>

Fetched(v, i) ==
    IF SyncerOf(v) # "s3" THEN {<<>>}
    ELSE IF v \in Honest
    THEN {IF i \in DOMAIN store[v] THEN Signed(store[v][i], v) ELSE <<>>}
    ELSE {<<>>, Signed([index |-> i + 1, root |-> hook, message_id |-> Message], v),
          Signed([index |-> i, root |-> <<Forged>>, message_id |-> Message], v),
          Signed([index |-> i, root |-> <<Forged>>, message_id |-> Message], "malformed")}
         \cup (IF i < Len(hook)
               THEN {Signed([CheckpointOf(hook, i) EXCEPT !.message_id = Forged], v),
                     Signed(CheckpointOf(hook, i), v),
                     Signed(CheckpointOf(hook, i), "someone else")}
               ELSE {})

LatestOf(v) ==
    IF SyncerOf(v) # "s3" THEN {<<>>}
    ELSE IF v \in Honest THEN {latest[v]}
    ELSE {<<>>, <<0>>, <<MaxLeaves>>}

JobStep(a, j) ==
    /\ job' = [job EXCEPT ![a] = j]
    /\ UNCHANGED <<storeVars, indexed, ingested, root, built>>

Finish(j, result) == [j EXCEPT !.pc = "done", !.result = result]

\* The honest validators that could contribute to a quorum at index i now.
Holders(i) == {v \in Honest : SyncerOf(v) = "s3" /\ i \in DOMAIN store[v]}

StartFetch(j, i) ==
    [j EXCEPT !.pc = "fetch", !.index = i, !.pos = 1, !.groups = <<>>, !.had = Holders(i)]

(* fetch_metadata of the two builders, up to the first request. *)
StartMerkleRoot(a) ==
    LET j == job[a]
    IN  /\ Ism[a].type = "merkleRootMultisig"
        /\ j.pc = "new"
        /\ JobStep(a, IF ingested = 0 \/ indexed <= MessageIndex THEN Finish(j, Missing)
                      ELSE [j EXCEPT !.pc = "latest", !.max = ingested - 1])

StartMessageId(a) ==
    LET j == job[a]
    IN  /\ Ism[a].type = "messageIdMultisig"
        /\ j.pc = "new"
        /\ JobStep(a, IF indexed <= MessageIndex THEN Finish(j, Missing)
                      ELSE StartFetch(j, MessageIndex))

(* get_validator_latest_checkpoints_and_update_metrics, one validator. *)
ReadLatest(a) ==
    LET j == job[a]
    IN  /\ j.pc = "latest"
        /\ j.pos <= Len(ValidatorSet)
        /\ \E index \in LatestOf(ValidatorSet[j.pos]) :
            JobStep(a, [j EXCEPT !.pos = @ + 1, !.latest = @ \o index])

(* fetch_checkpoint_in_range: the highest index a quorum claims. *)
StartRange(a) ==
    LET j == job[a]
        descending == SortSeq(j.latest, LAMBDA x, y : x > y)
        claimed == descending[Threshold]
        start == IF claimed < j.max THEN claimed ELSE j.max
    IN  /\ j.pc = "latest"
        /\ j.pos > Len(ValidatorSet)
        /\ JobStep(a, IF Len(j.latest) < Threshold \/ MessageIndex > start
                      THEN Finish(j, Missing) ELSE StartFetch(j, start))

(* A fetch at an index found no quorum or failed: the range goes on with   *)
(* the index below, the single fetch is over.                              *)
NoQuorum(a, j, result) ==
    IF Ism[a].type = "messageIdMultisig" THEN Finish(j, result)
    ELSE IF j.index = MessageIndex THEN Finish(j, Missing)
    ELSE StartFetch(j, j.index - 1)

CollectUnverified(a, j, v, answer) ==
    LET next == [j EXCEPT !.pos = @ + 1]
        entry == answer[1]
        root1 == entry.value.root
        group == Append(IF root1 \in DOMAIN j.groups THEN j.groups[root1] ELSE <<>>, entry)
    IN  IF answer = <<>> \/ entry.value.index # j.index THEN next
        ELSE IF Len(group) < Threshold
        THEN [next EXCEPT !.groups = [r \in DOMAIN @ \cup {root1} |->
                                        IF r = root1 THEN group ELSE @[r]]]
        ELSE [next EXCEPT !.pc = "quorum", !.quorum = group]

(* fetch_checkpoint: what one validator's answer does.  The signatures are *)
(* grouped by root; the first group of Threshold signatures must be over   *)
(* one checkpoint.                                                         *)
Collect(a, j, v, answer) ==
    LET next == [j EXCEPT !.pos = @ + 1]
        entry == answer[1]
        root1 == entry.value.root
        group == Append(IF root1 \in DOMAIN j.groups THEN j.groups[root1] ELSE <<>>, entry)
    IN  IF answer = <<>> \/ entry.value.index # j.index THEN next
        ELSE IF entry.signer = "malformed" THEN NoQuorum(a, j, Err)
        ELSE IF entry.signer # v THEN next
        ELSE IF Len(group) < Threshold
        THEN [next EXCEPT !.groups = [r \in DOMAIN @ \cup {root1} |->
                                        IF r = root1 THEN group ELSE @[r]]]
        ELSE IF \E k \in 1..Len(group) : group[k].value # group[1].value
        THEN NoQuorum(a, j, Err)
        ELSE [next EXCEPT !.pc = "quorum", !.quorum = group]

FetchFrom(a) ==
    LET j == job[a]
    IN  /\ j.pc = "fetch"
        /\ IF j.pos > Len(ValidatorSet) THEN JobStep(a, NoQuorum(a, j, Missing))
           ELSE \E answer \in Fetched(ValidatorSet[j.pos], j.index) :
                    JobStep(a, Collect(a, j, ValidatorSet[j.pos], answer))

(* The rest of the two fetch_metadata, and format_metadata: the tokens of  *)
(* the layouts.  get_proof proves the message against the prover's tree.   *)
FormatMerkleRoot(a) ==
    LET j == job[a]
        c == j.quorum[1].value
    IN  /\ Ism[a].type = "merkleRootMultisig"
        /\ j.pc = "quorum"
        /\ JobStep(a, Finish(j,
            Some(<<[index |-> c.index, message_id |-> c.message_id,
                    proof |-> SubSeq(hook, 1, c.index + 1), signatures |-> j.quorum]>>)))

FormatMessageId(a) ==
    LET j == job[a]
        c == j.quorum[1].value
    IN  /\ Ism[a].type = "messageIdMultisig"
        /\ j.pc = "quorum"
        /\ JobStep(a, Finish(j,
            IF c.message_id # Message THEN Missing
            ELSE Some(<<[root |-> c.root, index |-> c.index, signatures |-> j.quorum]>>)))

CcipRead(a) ==
    /\ Ism[a].type = "ccipRead"
    /\ job[a].pc = "new"
    /\ \E lookup \in Lookups, answers \in CcipAnswers :
        JobStep(a, Finish(job[a], CcipReadMetadata(lookup, answers)))
----------------------------------------------------------------------------
(* The ISM contracts: the checkpoint whose signatures they check, and the  *)
(* check that they are of ascending validators.                            *)
Digest(a, m) ==
    IF Ism[a].type = "merkleRootMultisig"
    THEN [index |-> m.index, root |-> m.proof, message_id |-> m.message_id]
    ELSE [index |-> m.index, root |-> m.root, message_id |-> Message]

AcceptsSignatures(signatures, digest) ==
    \E at \in [1..Threshold -> 1..Len(ValidatorSet)] :
        /\ \A k \in 2..Threshold : at[k - 1] < at[k]
        /\ \A k \in 1..Threshold :
            /\ signatures[k].signer = ValidatorSet[at[k]]
            /\ signatures[k].value = digest

Accepted ==
    {<<a, job[a].result[2]>> : a \in {a \in DOMAIN job :
        /\ job[a].pc = "done"
        /\ job[a].result[1] = "some"
        /\ Ism[a].type = "ccipRead" => job[a].result[2] = <<"genuine">>
        /\ Ism[a].type # "ccipRead" =>
            AcceptsSignatures(job[a].result[2][1].signatures,
                              Digest(a, job[a].result[2][1]))}}
    \cup {<<a, <<>>>> : a \in {a \in DOMAIN Ism : Ism[a].type = "null"}}

BuildRoot ==
    /\ built = <<>>
    /\ \A a \in DOMAIN job : job[a].pc = "done"
    /\ built' = BuildMetadata(root, 0, [a \in DOMAIN job |-> job[a].result], Accepted)
    /\ UNCHANGED <<storeVars, indexed, ingested, root, job>>

Next_Metadata ==
    \/ Environment
    \/ \E a \in DOMAIN job :
        \/ StartMerkleRoot(a) \/ StartMessageId(a) \/ CcipRead(a)
        \/ ReadLatest(a) \/ StartRange(a) \/ FetchFrom(a)
        \/ FormatMerkleRoot(a) \/ FormatMessageId(a)
    \/ BuildRoot

----------------------------------------------------------------------------
(* Metadata that the relayer builds with less than a threshold of faulty   *)
(* validators is accepted by the ISM, however it is nested: the checkpoint *)
(* found in the range, the proof taken later from a tree that has grown    *)
(* and the order of the signatures fit together.  Only what a CCIP server  *)
(* answers is beyond the relayer.                                          *)
MetadataVerifies ==
    built # <<>> /\ built[1] = "some" /\ Ism[root].type # "ccipRead"
        => VerifyIsm(root, built[2], Accepted)

(* A single fetch that ends without a quorum did not overlook one: fewer   *)
(* than a threshold of honest validators had the checkpoint when it began. *)
QuorumFound ==
    \A a \in DOMAIN job :
        Ism[a].type = "messageIdMultisig" /\ job[a].pc = "done" /\ job[a].result = Missing
            /\ job[a].had # {} /\ job[a].quorum = <<>>
        => Cardinality(job[a].had) < Threshold

(* What the builders and the MultisigCheckpointSyncer owe a message.       *)
MetadataSound == MetadataVerifies /\ QuorumFound
============================================================================
