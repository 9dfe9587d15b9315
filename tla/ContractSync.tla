---------------------------- MODULE ContractSync ----------------------------
(***************************************************************************)
(* ContractSync::sync with a ForwardBackwardSequenceSyncCursor, as it      *)
(* fills HyperlaneRocksDB with the dispatched messages (or the merkle tree *)
(* insertions) of one origin chain.                                        *)
(*                                                                         *)
(* The forward cursor looks for new logs from the tip at which the agent   *)
(* started, the backward cursor for old ones from that tip down.  The      *)
(* agent may stop at any point and be started again: the cursors are then  *)
(* new, the database is what it was.  The provider may report an older tip *)
(* and eth_getLogs may leave logs out, as the comments of the cursors say. *)
(* The indexer counts by block or by sequence, and never changes.          *)
(*                                                                         *)
(* Sequences count from 0; blocks[s + 1] is the block of sequence s.       *)
(* Block 0 is the genesis block and holds no log.                          *)
(***************************************************************************)
EXTENDS Integers, Sequences, FiniteSets, FiniteSetsExt

CONSTANTS
    Modes,          \* how the indexer may count: "block", "sequence" (IndexMode)
    Kind,           \* "message" or "insertion": what is indexed
    ChunkSize,      \* blocks per query
    MaxRange,       \* MAX_SEQUENCE_RANGE
    MaxTip,         \* bound on the height of the chain
    MaxLogs,        \* bound on the number of logs on the chain
    MaxFaults,      \* bound on crashes, errors and stale answers together
    MaxDrops        \* bound on the logs that eth_getLogs leaves out

ASSUME ContractSyncAssumption ==
    /\ Modes \subseteq {"block", "sequence"} /\ Kind \in {"message", "insertion"}
    /\ ChunkSize \in Nat /\ MaxRange \in Nat
    /\ MaxTip \in Nat /\ MaxLogs \in Nat /\ MaxFaults \in Nat /\ MaxDrops \in Nat

VARIABLES
    tip, blocks,        \* the origin chain, as far as it is final
    mode,               \* the IndexMode of the chain's indexer
    table,              \* HyperlaneRocksDB: the keys present in each of its tables
    pc,                 \* where the sync task is; "down" when the agent is
    start,              \* tip and count when the cursors were made
    forward, backward,  \* the two SyncStates
    synced,             \* of the backward cursor
    direction,          \* cursor that gave the range being queried
    range,              \* the range being queried
    logs,               \* the logs fetched
    todo,               \* those of them store_logs has still to store
    writing,            \* the log being stored and the number of its next write
    faults, drops

chain == <<tip, blocks, mode>>
cursors == <<start, forward, backward, synced>>
query == <<direction, range, logs, todo, writing>>
vars == <<chain, table, pc, cursors, query, faults, drops>>

Sequence == 0 .. MaxLogs - 1
SyncState == [next_block : Nat, next_sequence : Nat]

BlockOf(s) == blocks[s + 1]
OnChain == {n - 1 : n \in DOMAIN blocks}

SaturatingSub(a, b) == IF a < b THEN 0 ELSE a - b

(* the count at block t: the sequence of the next log *)
CountAt(t) == Cardinality({s \in OnChain : BlockOf(s) <= t})

Fault == faults < MaxFaults /\ faults' = faults + 1

-----------------------------------------------------------------------------
(* HyperlaneRocksDB.  "record" is what retrieve_by_sequence looks up:      *)
(* message_id_by_nonce, or merkle_tree_insertion_by_leaf_index.  "byId" is *)
(* message_by_id, or merkle_leaf_index_by_message_id.  "block" is the      *)
(* block number.  store_message writes message_by_id first;                *)
(* process_tree_insertion writes merkle_leaf_index_by_message_id second.   *)

Tables == {"record", "byId", "block"}

WriteOrder ==
    IF Kind = "message" THEN <<"byId", "record", "block">>
                        ELSE <<"record", "byId", "block">>

Stored(s) == s \in table["record"]
Numbered(s) == s \in table["block"]

NotWriting == [log |-> 0, at |-> 0]

-----------------------------------------------------------------------------
Init ==
    /\ tip = 0 /\ blocks = <<>> /\ mode \in Modes
    /\ table = [t \in Tables |-> {}]
    /\ pc = "down"
    /\ start = [next_block |-> 0, next_sequence |-> 0]
    /\ forward = start /\ backward = start /\ synced = FALSE
    /\ direction = "forward" /\ range = <<0, 0>>
    /\ logs = {} /\ todo = {} /\ writing = NotWriting
    /\ faults = 0 /\ drops = 0

(* A block with n new logs becomes final *)
Mine(n) ==
    /\ tip < MaxTip /\ Len(blocks) + n <= MaxLogs
    /\ tip' = tip + 1
    /\ blocks' = blocks \o [i \in 1 .. n |-> tip + 1]
    /\ UNCHANGED <<mode, table, pc, cursors, query, faults, drops>>

(* The tip a provider reports; another node's, a block behind, is a fault *)
Reported(t) ==
    \/ t = tip /\ UNCHANGED faults
    \/ t = tip - 1 /\ t >= 0 /\ Fault

(* ForwardBackwardSequenceSyncCursor::new *)
Start(t) ==
    /\ pc = "down"
    /\ Reported(t)
    /\ start' = [next_block |-> t, next_sequence |-> CountAt(t)]
    /\ forward' = start'
    /\ backward' = [start' EXCEPT !.next_sequence = SaturatingSub(@, 1)]
    /\ synced' = (CountAt(t) = 0)
    /\ pc' = "forward"
    /\ direction' = "forward"
    /\ UNCHANGED <<chain, table, range, logs, todo, writing, drops>>

-----------------------------------------------------------------------------
(* ForwardSequenceSyncCursor::get_next_range                               *)

(* an iteration of the loop that passes over logs found in the database *)
ForwardSkip ==
    /\ pc = "forward"
    /\ Stored(forward.next_sequence)
    /\ forward' = [next_block |-> IF Numbered(forward.next_sequence)
                                  THEN BlockOf(forward.next_sequence)
                                  ELSE forward.next_block,
                   next_sequence |-> forward.next_sequence + 1]
    /\ UNCHANGED <<chain, table, pc, start, backward, synced, query, faults, drops>>

(* nothing new up to t; the backward cursor is asked next *)
ForwardIdle(t) ==
    /\ pc = "forward"
    /\ ~Stored(forward.next_sequence)
    /\ Reported(t)
    /\ CountAt(t) <= forward.next_sequence
    /\ forward' = [forward EXCEPT
            !.next_block = IF CountAt(t) = forward.next_sequence THEN t ELSE @]
    /\ pc' = "backward"
    /\ UNCHANGED <<chain, table, start, backward, synced, query, drops>>

(* SyncState::block_range: the cursor moves before the range is queried *)
ForwardBlockRange(t) ==
    LET from == forward.next_block
        to == Min({from + ChunkSize, t})
    IN
    /\ mode = "block"
    /\ range' = <<from, to>>
    /\ forward' = [forward EXCEPT !.next_block = to + 1]

(* SyncState::sequence_range *)
ForwardSequenceRange(t) ==
    LET from == forward.next_sequence
        to == Min({from + MaxRange, CountAt(t) - 1})
    IN
    /\ mode = "sequence"
    /\ range' = <<from, to>>
    /\ forward' = [forward EXCEPT !.next_sequence = to + 1]

ForwardRange(t) ==
    /\ pc = "forward"
    /\ ~Stored(forward.next_sequence)
    /\ Reported(t)
    /\ CountAt(t) > forward.next_sequence
    /\ ForwardBlockRange(t) \/ ForwardSequenceRange(t)
    /\ IF range'[1] <= range'[2]
       THEN pc' = "fetch" /\ direction' = "forward"
       ELSE pc' = "backward" /\ UNCHANGED direction
    /\ UNCHANGED <<chain, table, start, backward, synced, logs, todo, writing, drops>>

-----------------------------------------------------------------------------
(* BackwardSequenceSyncCursor::get_next_range                              *)

(* a bug to detect: the cursor stops at sequence one *)
BackwardDoneEarly ==
    /\ pc = "backward" /\ ~synced
    /\ Stored(backward.next_sequence)
    /\ backward.next_sequence <= 1 \/ backward.next_block = 0
    /\ synced' = TRUE
    /\ UNCHANGED <<chain, table, pc, start, forward, backward, query, faults, drops>>

(* sequence zero found, or block zero reached *)
BackwardDone ==
    /\ pc = "backward" /\ ~synced
    /\ Stored(backward.next_sequence)
    /\ backward.next_sequence = 0 \/ backward.next_block = 0
    /\ synced' = TRUE
    /\ UNCHANGED <<chain, table, pc, start, forward, backward, query, faults, drops>>

BackwardSkip ==
    /\ pc = "backward" /\ ~synced
    /\ Stored(backward.next_sequence)
    /\ backward.next_sequence # 0 /\ backward.next_block # 0
    /\ backward' = [next_block |-> IF Numbered(backward.next_sequence)
                                   THEN BlockOf(backward.next_sequence)
                                   ELSE backward.next_block,
                    next_sequence |-> backward.next_sequence - 1]
    /\ UNCHANGED <<chain, table, pc, start, forward, synced, query, faults, drops>>

(* all done: the sync loop sleeps and asks again *)
BackwardIdle ==
    /\ pc = "backward" /\ synced
    /\ pc' = "forward"
    /\ UNCHANGED <<chain, table, cursors, query, faults, drops>>

BackwardBlockRange ==
    LET to == backward.next_block
        from == SaturatingSub(to, ChunkSize)
    IN
    /\ mode = "block"
    /\ range' = <<from, to>>
    /\ backward' = [backward EXCEPT !.next_block = SaturatingSub(from, 1)]

BackwardSequenceRange ==
    LET to == backward.next_sequence
        from == SaturatingSub(to, MaxRange)
    IN
    /\ mode = "sequence"
    /\ range' = <<from, to>>
    /\ backward' = [backward EXCEPT !.next_sequence = SaturatingSub(from, 1)]

BackwardRange ==
    /\ pc = "backward" /\ ~synced
    /\ ~Stored(backward.next_sequence)
    /\ BackwardBlockRange \/ BackwardSequenceRange
    /\ pc' = "fetch" /\ direction' = "backward"
    /\ UNCHANGED <<chain, table, start, forward, synced, logs, todo, writing, faults, drops>>

(* sequence_and_tip fails: sync() tries next_action again *)
BackwardError ==
    /\ pc = "backward" /\ ~synced
    /\ ~Stored(backward.next_sequence)
    /\ Fault
    /\ pc' = "forward"
    /\ UNCHANGED <<chain, table, cursors, query, drops>>

-----------------------------------------------------------------------------
(* The rest of an iteration of sync()                                      *)

InRange(s) ==
    LET position == IF mode = "block" THEN BlockOf(s) ELSE s IN
    range[1] <= position /\ position <= range[2]

(* fetch_logs; by block, the provider may leave logs out *)
Fetch(found) ==
    LET missing == {s \in OnChain : InRange(s)} \ found IN
    /\ pc = "fetch"
    /\ found \subseteq {s \in OnChain : InRange(s)}
    /\ mode = "sequence" => missing = {}
    /\ drops + Cardinality(missing) <= MaxDrops
    /\ drops' = drops + Cardinality(missing)
    /\ logs' = found /\ todo' = found
    /\ pc' = "store"
    /\ UNCHANGED <<chain, table, cursors, direction, range, writing, faults>>

(* store_logs takes the logs in the arbitrary order of a HashSet, and      *)
(* passes over one it has                                                  *)
StoreNext(s) ==
    /\ pc = "store" /\ s \in todo /\ writing = NotWriting
    /\ IF Stored(s) THEN todo' = todo \ {s} /\ UNCHANGED writing
                    ELSE writing' = [log |-> s, at |-> 1] /\ UNCHANGED todo
    /\ UNCHANGED <<chain, table, pc, cursors, direction, range, logs, faults, drops>>

(* the next of the three writes of store_message, process_tree_insertion *)
StoreWrite ==
    /\ pc = "store" /\ writing # NotWriting
    /\ table' = [table EXCEPT ![WriteOrder[writing.at]] = @ \cup {writing.log}]
    /\ IF writing.at = Len(WriteOrder)
       THEN writing' = NotWriting /\ todo' = todo \ {writing.log}
       ELSE writing' = [writing EXCEPT !.at = @ + 1] /\ UNCHANGED todo
    /\ UNCHANGED <<chain, pc, cursors, direction, range, logs, faults, drops>>

(* SequenceSyncCursor::update: logs without the one that was looked for    *)
(* make the cursor go back to the block of the log before it               *)
Rewound(state, relevant, prev) ==
    IF relevant = {} \/ state.next_sequence \in relevant THEN state
    ELSE [state EXCEPT !.next_block = IF Numbered(prev) THEN BlockOf(prev)
                                                        ELSE start.next_block]

(* a bug to detect: the cursor never goes back *)
RewoundForwardNever == forward

RewoundForward ==
    Rewound(forward, {s \in logs : s >= forward.next_sequence},
            SaturatingSub(forward.next_sequence, 1))

(* a bug to detect: the cursor goes on below the oldest log found *)
RewoundBackwardToOldest ==
    IF logs = {} THEN backward
    ELSE [backward EXCEPT !.next_sequence = SaturatingSub(Min(logs \cup {@ + 1}), 1)]

RewoundBackward ==
    Rewound(backward, {s \in logs : s <= backward.next_sequence},
            backward.next_sequence + 1)

Update ==
    /\ pc = "store" /\ todo = {}
    /\ IF direction = "forward"
       THEN forward' = RewoundForward /\ UNCHANGED backward
       ELSE backward' = RewoundBackward /\ UNCHANGED forward
    /\ logs' = {} /\ pc' = "forward"
    /\ UNCHANGED <<chain, table, start, synced, direction, range, todo, writing, faults, drops>>

(* The agent stops: it is killed, or sync() returns an error of fetch_logs *)
(* or of a write and run_all ends the process.                             *)
Crash ==
    /\ pc # "down" /\ Fault
    /\ pc' = "down"
    /\ logs' = {} /\ todo' = {} /\ writing' = NotWriting
    /\ UNCHANGED <<chain, table, cursors, direction, range, drops>>

-----------------------------------------------------------------------------
Sync ==
    \/ \E t \in 0 .. MaxTip : Start(t) \/ ForwardIdle(t) \/ ForwardRange(t)
    \/ ForwardSkip
    \/ BackwardDone \/ BackwardSkip \/ BackwardIdle \/ BackwardRange
    \/ \E found \in SUBSET Sequence : Fetch(found)
    \/ \E s \in Sequence : StoreNext(s)
    \/ StoreWrite
    \/ Update

Next ==
    \/ Sync
    \/ \E n \in 0 .. MaxLogs : Mine(n)
    \/ BackwardError \/ Crash

Spec == Init /\ [][Next]_vars

(* The sync task is scheduled and its calls return; the chain need not     *)
(* grow and nothing need fail.                                             *)
FairSpec == Spec /\ WF_vars(Sync)

-----------------------------------------------------------------------------
(* Properties                                                              *)

(* The type invariant. *)
TypeOK ==
    /\ tip \in 0 .. MaxTip /\ mode \in Modes
    /\ blocks \in Seq(1 .. MaxTip) /\ Len(blocks) <= MaxLogs
    /\ table \in [Tables -> SUBSET Sequence]
    /\ pc \in {"down", "forward", "backward", "fetch", "store"}
    /\ start \in SyncState /\ forward \in SyncState /\ backward \in SyncState
    /\ synced \in BOOLEAN
    /\ direction \in {"forward", "backward"}
    /\ range \in Nat \X Int
    /\ logs \subseteq Sequence /\ todo \subseteq logs
    /\ writing \in [log : Sequence, at : 1 .. Len(WriteOrder)] \cup {NotWriting}
    /\ faults \in 0 .. MaxFaults /\ drops \in 0 .. MaxDrops

(* Only logs of the chain are stored, and whatever retrieve_by_sequence    *)
(* finds can also be looked up by message id, even after a crash between   *)
(* two writes of store_message.                                            *)
RecordComplete ==
    /\ \A t \in Tables : table[t] \subseteq OnChain
    /\ \A s \in table["record"] :
        s \in table["byId"] \/ (writing # NotWriting /\ writing.log = s)

(* What is being fetched or stored now counts as taken care of. *)
InHand(s) ==
    \/ pc = "fetch" /\ InRange(s)
    \/ pc = "store" /\ s \in todo

(* The forward cursor never passes over a log: every sequence from the one *)
(* it started with up to the one it looks for is in the database.          *)
ForwardContiguous ==
    pc # "down" =>
        \A s \in start.next_sequence .. forward.next_sequence - 1 : Stored(s) \/ InHand(s)

(* The backward cursor never passes over one either. *)
BackwardContiguous ==
    pc # "down" =>
        \A s \in backward.next_sequence + 1 .. start.next_sequence - 1 : Stored(s) \/ InHand(s)

(* When no log is left out of an answer, a log that is not in the database *)
(* is ahead of the cursor of its side: neither get_next_range, which moves *)
(* the cursor before the query, nor a rewind skips the block it is in.     *)
NothingBehind ==
    (pc # "down" /\ mode = "block" /\ drops = 0) =>
        \A s \in OnChain : Stored(s) \/ InHand(s) \/
            IF s >= start.next_sequence
            THEN BlockOf(s) >= forward.next_block
            ELSE BlockOf(s) <= backward.next_block /\ ~synced

(* "A SequenceSyncCursor that syncs backwards to sequence zero": when the  *)
(* backward cursor stops and no log was left out of an answer, it has      *)
(* every log older than the start.                                         *)
SyncedToZero ==
    (pc # "down" /\ synced /\ drops = 0) =>
        \A s \in 0 .. start.next_sequence - 1 : Stored(s)

(* Neither a crash, a stale answer nor a rewind makes a cursor pass over a *)
(* log: what is behind a cursor is stored, and what is stored is complete. *)
SyncSound ==
    /\ TypeOK /\ RecordComplete
    /\ ForwardContiguous /\ BackwardContiguous
    /\ NothingBehind /\ SyncedToZero

(* A gap found is closed: once a log newer than a missing one is stored,   *)
(* the missing one is fetched again, although its block was queried.       *)
GapClosed ==
    \A s \in Sequence :
        (s >= start.next_sequence /\ ~Stored(s) /\ \E k \in table["record"] : k > s)
            ~> (Stored(s) \/ pc = "down")

(* Every log of the chain is eventually stored, after any finite number of *)
(* crashes, errors and stale answers, if no answer leaves a log out: the   *)
(* database catches up with the chain again and again.                     *)
EventuallyStored == []<>(OnChain \subseteq table["record"] \/ drops > 0)

=============================================================================
