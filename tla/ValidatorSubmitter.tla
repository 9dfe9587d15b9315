------------------------- MODULE ValidatorSubmitter ------------------------
(***************************************************************************)
(* The checkpoint submitters of the validator agent                        *)
(* (agents/validator/src/submit.rs) and the stores they write              *)
(* (hyperlane-base/src/types, traits/checkpoint_syncer.rs).  An agent has  *)
(* two: "tip" follows the hook from the tree it read at the start, and     *)
(* "backfill" signs everything below that.  Each await is a step, so they  *)
(* interleave on the one store.  The run function of this repository's     *)
(* validator has the call that starts them commented out.                  *)
(*                                                                         *)
(* The database may hold a leaf of a chain that was abandoned, which the   *)
(* comparison with the correctness checkpoint is there to detect.          *)
(***************************************************************************)
EXTENDS Naturals, Sequences

CONSTANTS
    Signers,          \* the validators that run this agent
    MaxInsertions,    \* bound: leaves of the hook
    MaxWrong,         \* bound: leaves of an abandoned chain that are indexed
    MaxAgentCrashes   \* bound: errors and kills that end an agent

VARIABLES
    treeHook,         \* the leaves of the hook that are final
    published,        \* published[v]: the checkpoints in the store of v, by index
    latestIndex,      \* latestIndex[v]: the latest index in the store of v
    insertions,       \* insertions[v]: the insertions indexed, by leaf index
    submitter,        \* submitter[v][k]: the state of submitter k
    wrong,            \* leaves of abandoned chains indexed so far
    agentCrashes

Store == INSTANCE CheckpointStore
    WITH hook <- treeHook, store <- published, latest <- latestIndex,
         Honest <- Signers, MaxLeaves <- MaxInsertions

submitterVars == <<treeHook, published, latestIndex, insertions, submitter, wrong, agentCrashes>>

Submitters == {"tip", "backfill"}

NotRunning == [pc |-> "off", tree |-> <<>>, target |-> <<>>, queue |-> <<>>, curr |-> 0]

Off(v) == submitter' = [submitter EXCEPT ![v] = [k \in Submitters |-> NotRunning]]

Init_Submitters ==
    /\ Store!StoreInit
    /\ insertions = [v \in Signers |-> <<>>]
    /\ submitter = [v \in Signers |-> [k \in Submitters |-> NotRunning]]
    /\ wrong = 0
    /\ agentCrashes = 0

InsertLeaf == Store!Insert /\ UNCHANGED <<insertions, submitter, wrong, agentCrashes>>

(* The hook indexer stores an insertion, in any order. *)
IndexInsertion(v, i, leaf) ==
    /\ i \notin DOMAIN insertions[v]
    /\ insertions' = [insertions EXCEPT ![v] =
                        [j \in DOMAIN @ \cup {i} |-> IF j = i THEN leaf ELSE @[j]]]
    /\ UNCHANGED <<treeHook, published, latestIndex, submitter, agentCrashes>>

IndexFinal(v) ==
    /\ \E i \in 0..(Len(treeHook) - 1) : IndexInsertion(v, i, treeHook[i + 1])
    /\ UNCHANGED wrong

IndexAbandoned(v) ==
    /\ wrong < MaxWrong
    /\ wrong' = wrong + 1
    /\ \E i \in 0..(MaxInsertions - 1) : IndexInsertion(v, i, 0)

\* Only submitter k of v steps.
SubmitterStep(v, k, s) ==
    /\ submitter' = [submitter EXCEPT ![v][k] = s]
    /\ UNCHANGED <<treeHook, insertions, wrong, agentCrashes>>

StartBackfillShort(v) ==
    /\ submitter[v]["tip"].pc = "off"
    /\ \E n \in 1..Len(treeHook) :
        submitter' = [submitter EXCEPT ![v] =
            [tip |-> [NotRunning EXCEPT !.pc = "poll", !.tree = SubSeq(treeHook, 1, n)],
             backfill |->
                 [NotRunning EXCEPT !.pc = "ingest", !.target = SubSeq(treeHook, 1, n - 1)]]]
    /\ UNCHANGED <<treeHook, published, latestIndex, insertions, wrong, agentCrashes>>

(* run_checkpoint_submitters: the tree read may lag behind the hook. *)
StartSubmitters(v) ==
    /\ submitter[v]["tip"].pc = "off"
    /\ \E n \in 1..Len(treeHook) :
        submitter' = [submitter EXCEPT ![v] =
            [tip |-> [NotRunning EXCEPT !.pc = "poll", !.tree = SubSeq(treeHook, 1, n)],
             backfill |-> [NotRunning EXCEPT !.pc = "ingest", !.target = SubSeq(treeHook, 1, n)]]]
    /\ UNCHANGED <<treeHook, published, latestIndex, insertions, wrong, agentCrashes>>

(* tree_exceeds_checkpoint *)
TreeExceeds(target, tree) == Len(target) < Len(tree)

(* checkpoint_submitter reads the latest checkpoint, from any provider. *)
PollCheckpoint(v, n) ==
    LET s == submitter[v]["tip"]
    IN  /\ s.pc = "poll"
        /\ ~TreeExceeds(SubSeq(treeHook, 1, n), s.tree)
        /\ SubmitterStep(v, "tip", [s EXCEPT !.pc = "ingest", !.target = SubSeq(treeHook, 1, n)])
        /\ UNCHANGED <<published, latestIndex>>

(* submit_checkpoints_until_correctness_checkpoint: one insertion is       *)
(* ingested, or the agent waits until it is indexed.                       *)
IngestInsertion(v, k) ==
    LET s == submitter[v][k]
        i == Len(s.tree)
    IN  /\ s.pc = "ingest"
        /\ i < Len(s.target)
        /\ i \in DOMAIN insertions[v]
        /\ LET tree == Append(s.tree, insertions[v][i])
           IN  SubmitterStep(v, k, [s EXCEPT !.tree = tree,
                                    !.queue = Append(@, Store!CheckpointOf(tree, i))])
        /\ UNCHANGED <<published, latestIndex>>

Waiting(k) == IF k = "tip" THEN "poll" ELSE "idle"

CompareLengths(v, k) ==
    LET s == submitter[v][k]
    IN  /\ s.pc = "ingest"
        /\ Len(s.tree) = Len(s.target)
        /\ SubmitterStep(v, k, [s EXCEPT !.pc = IF s.queue = <<>> THEN Waiting(k) ELSE "fetch"])
        /\ UNCHANGED <<published, latestIndex>>

(* The correctness check: a mismatch ends the task, and with it the agent. *)
CompareCheckpoint(v, k) ==
    LET s == submitter[v][k]
    IN  /\ s.pc = "ingest"
        /\ Len(s.tree) = Len(s.target)
        /\ IF s.tree # s.target
           THEN Off(v) /\ UNCHANGED <<treeHook, insertions, wrong, agentCrashes>>
           ELSE SubmitterStep(v, k, [s EXCEPT
                    !.pc = IF s.queue = <<>> THEN Waiting(k) ELSE "fetch"])
        /\ UNCHANGED <<published, latestIndex>>

(* sign_and_submit_checkpoints: look a checkpoint up, ... *)
FetchCheckpoint(v, k) ==
    LET s == submitter[v][k]
    IN  /\ s.pc = "fetch"
        /\ s.queue # <<>>
        /\ IF Head(s.queue).index \in DOMAIN published[v]
           THEN SubmitterStep(v, k, [s EXCEPT !.queue = Tail(@)])
           ELSE SubmitterStep(v, k, [s EXCEPT !.pc = "write"])
        /\ UNCHANGED <<published, latestIndex>>

(* ... sign it and write it. *)
WriteCheckpoint(v, k) ==
    LET s == submitter[v][k]
    IN  /\ s.pc = "write"
        /\ Store!Published(v, Head(s.queue))
        /\ SubmitterStep(v, k, [s EXCEPT !.pc = "fetch", !.queue = Tail(@)])
        /\ UNCHANGED latestIndex

(* update_latest_index reads the latest index and then may write one. *)
ReadLatestIndex(v, k) ==
    LET s == submitter[v][k]
        curr == IF latestIndex[v] = <<>> THEN 0 ELSE latestIndex[v][1]
    IN  /\ s.pc = "fetch"
        /\ s.queue = <<>>
        /\ SubmitterStep(v, k, [s EXCEPT !.curr = curr,
                    !.pc = IF Len(s.tree) - 1 > curr THEN "latest" ELSE Waiting(k)])
        /\ UNCHANGED <<published, latestIndex>>

WriteLatestIndex(v, k) ==
    LET s == submitter[v][k]
    IN  /\ s.pc = "latest"
        /\ latestIndex' = [latestIndex EXCEPT ![v] = <<Len(s.tree) - 1>>]
        /\ SubmitterStep(v, k, [s EXCEPT !.pc = Waiting(k)])
        /\ UNCHANGED published

(* A request fails, or the agent is killed; the store remains. *)
CrashValidator(v) ==
    /\ submitter[v]["tip"].pc # "off"
    /\ agentCrashes < MaxAgentCrashes
    /\ agentCrashes' = agentCrashes + 1
    /\ Off(v)
    /\ UNCHANGED <<treeHook, published, latestIndex, insertions, wrong>>

Submit(v, k) ==
    \/ IngestInsertion(v, k) \/ CompareCheckpoint(v, k)
    \/ FetchCheckpoint(v, k) \/ WriteCheckpoint(v, k)
    \/ ReadLatestIndex(v, k) \/ WriteLatestIndex(v, k)

Next_Submitters ==
    \/ InsertLeaf
    \/ \E v \in Signers :
        \/ IndexFinal(v) \/ IndexAbandoned(v)
        \/ StartSubmitters(v) \/ CrashValidator(v)
        \/ \E n \in 1..Len(treeHook) : PollCheckpoint(v, n)
        \/ \E k \in Submitters : Submit(v, k)

SubmittersSpec == Init_Submitters /\ [][Next_Submitters]_submitterVars

----------------------------------------------------------------------------
(* The submitters implement the promise of CheckpointStore: whatever       *)
(* leaves were indexed and whichever submitter is slow, a checkpoint is    *)
(* only signed when it is a prefix of the hook, and the latest index only  *)
(* names checkpoints that can be fetched.                                  *)
ImplementsStore == Store!StoreSpec

(* Every leaf of the hook gets its checkpoint, from one submitter or the   *)
(* other and through restarts, unless a wrong leaf was indexed.            *)
EventuallyPublished ==
    \A v \in Signers, i \in 0..(MaxInsertions - 1) :
        i < Len(treeHook) ~> (i \in DOMAIN published[v] \/ wrong > 0)
============================================================================
