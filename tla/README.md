# TLA+ models of hyperlane-javelin

The repository is a fork of the Hyperlane monorepo with an *API server*, which
validates, proves and prices a message for the Javelin Superbuilder in one
request, beside the ordinary *relayer*, *validator* and *scraper* agents, the
Solidity and Sealevel contracts and the TypeScript tools. This directory models
the Rust part: the agents with their databases, indexers, RPC clients and chain
adapters, the programs of the Sealevel (Solana) deployment, and the client that
deploys them. Paths below are relative to `src/hyperlane-monorepo/rust/` unless
they start with `solidity/` or `typescript/`.

Contents: 1 inventory, 2 plan, 3 modules and code, 4 runs, 5 bounds, 6 fairness,
7 what is proved, 8 what is only model-checked, 9 disagreements between code and
documentation, 10 observations, 11 what is not modelled.

## 1. Inventory

### How the parts interact

```
 origin chain --logs--> ContractSync --writes--> HyperlaneRocksDB
      |                 (messages, insertions,        |         |
      |                  gas payments)                |         |
      |                                               v         v
      |                                   MessageProcessor   MerkleTreeProcessor
      |                                               |         |
      |                              unbounded channel|         | write lock
      v                                               v         v
 Validator --checkpoints--> store                SerialSubmitter   MerkleTreeBuilder <-- API requests
                              |                  prepare/submit/confirm   |   (add leaf, sign, prove)
                              +--> metadata builders --->  |  <-- proof ---+
                                                           |
 destination chain <--process()---- chain adapter <--------+-- GasPaymentEnforcer
        +-----------delivered()----------^   |
                                             v
                              FallbackProvider --> nodes of the chain
```

Relayer and API server contain copies of the same pipeline code (`agents/relayer`
and `agents/apiserver`, directories `msg`, `merkle_tree`, `settings`); the models
cite the relayer's copy, `AgentPair` and `ApiServer` the API server's. On Sealevel
the origin and destination contracts are the programs under `sealevel/`.

### Components

| component | state | operations | what is hard | what makes it correct |
|---|---|---|---|---|
| MessageProcessor, SerialSubmitter (`relayer/src/msg`) | next nonce; two heaps, two channels; per operation: submitted, submission data, next attempt, retries | tick, receive, prepare, submit, confirm | four tasks, restarts, reorgs, other relayers, lost transactions | no operation twice, none lost, no second delivery after a commit, commit is reorg-safe |
| operation queue (`pending_operation.rs`) | a binary heap with a hand-written order | push, pop | the order is not total | untried before retried, nonce order per origin |
| ContractSync, sequence cursors (`hyperlane-base/src/contract_sync`) | two `SyncState`s, `synced`, the tables | next range, fetch, store, update | crashes between writes, stale tips, incomplete answers, zero | nothing behind a cursor is missing, everything is stored in the end |
| RateLimitedContractSyncCursor, gas payments | next block, high watermark, payment tables | the same, from the watermark | fetched again after every restart | every payment counted once |
| GasPaymentEnforcer (`msg/gas_payment`) | total paid, total used | meets requirement, record outcome | outcomes never seen, rounding | spending bounded by what was paid |
| MerkleTreeBuilder, MerkleTreeProcessor, API server (`agents/apiserver/src/api`) | one tree per origin behind a lock, requests in flight | ingest, prove, tick, check one message, check a batch | requests interleave at every await; panics; a restart empties the trees and keeps the key | in one life of the process: one root per index, all answers about one growing tree, answers in order |
| relayer and API server side by side | two databases, two trees, one chain | the pipeline, twice | they overtake each other; requests change one of the trees; a reorg undoes a recorded delivery | at most one wasted transaction each, both commit |
| Validator (`agents/validator`) | tree, checkpoint store | tip and backfill submitters, announce | two submitters, one store, leaves of an abandoned fork | publishes only what the chain has |
| checkpoint syncer, metadata builders | requests in flight | find a quorum, build nested metadata | validators that fail or disagree, stores that change | metadata verifies; a quorum that exists is found |
| accumulators (`hyperlane-core/src/accumulator`) | branch, count; sparse tree | ingest, root, proof | two implementations with a bound each, proofs against earlier roots | they agree, up to the limit of one and beyond it |
| FallbackProvider (`hyperlane-core/src/rpc_clients`) | priorities | call, deprioritise | concurrent calls from snapshots | no provider is lost, a stalled one yields |
| chain adapters (`chains/`) | none | reads, indexing, transactions | every request may reach another node, lag or lose its answer; logs are repeated or left out | an answer is of one final block; success means sent; only logs of the contract, and none missing without a cause |
| scraper (`agents/scraper`) | SQL tables, a block cursor | store logs, transactions, blocks | three tasks look up and insert the same ids; logs left out; stops | rows joined right, what was answered is stored |
| settings (`hyperlane-base/src/settings`, `relayer/src/settings`) | none | parse, match, wire contexts | defaults that hide errors | what is configured is what is done |
| Sealevel programs (`sealevel/programs`) | accounts with rent | every instruction | calls into other programs, account lists, rent, two chains | delivered once and only with a quorum; routes backed; counters exact |
| Sealevel client (`sealevel/client`) | program ids, key files, chain accounts | deploy and configure commands | interrupted and run again | converges to the configuration |
| Solidity contracts, TypeScript SDK, CLI, infra, UI | | | | not modelled, see 11 |

The hazards are listed in `PROJECT.json`, each at its line with the properties
about it.

## 2. Plan

Done, in this order: `SerialSubmitter` with `OpQueue` (the pipeline is what the
agents exist for), `ContractSync` (what feeds it), `GasPaymentSync` and
`GasEnforcer` (what gates it), `ApiServer` (what this repository adds); then the
validator and its abstract store, the metadata builders, the two agents together,
the accumulators, RPC clients, adapters, settings and scraper, and the Sealevel
programs with the tools that deploy them.

The proofs followed the same order, from the pipeline to the programs, and then the heap,
the deployment tools, the scraper, the adapters, the settings and the incremental tree
(section 7). Every safety property of a passing run is a theorem but the few that
section 8 gives with the reason.

## 3. Modules and code

`PROJECT.json` maps every definition to its lines. `MCx` modules give the constants
values; `xProofs` holds the theorems about `x`. Some hold those of several components:
`SerialSubmitterProofs` has `OpQueue` too, `ApiServerProofs` `AgentPair`, `ServicesProofs`
`ValidatorSubmitter`, `FallbackProvider`, `GasEnforcer` and `GasPaymentSync`, `SealevelProofs`
the programs of `SealevelPrograms`, and `ComponentProofs` `SealevelDeploy`, `SealevelCore`,
`Scraper`, `ChainAdapters`, `AgentSettings` and `IncrementalTree`. `SetSums` has what is
needed about sums. Operators introduced with "a bug to
detect" or "a faulty variant" are the mutations that show that a property can fail.

### Agents

**SerialSubmitter**: one destination, any origins. State: the database records,
each processor's nonce, the channels, the two queues, what each task holds, the
fields of each `PendingMessage`, and the destination chain, where an inclusion may
be reorganised away until it is final. Actions are the steps between two awaits:
`PreparePop`, `PrepareDelivered`, `PrepareBuild`, `PrepareSend`, `SubmitRecv`,
`SubmitBroadcast`, `ConfirmPop` and so on, and `Restart`. Times are "none",
"waiting" or "due"; the retry counter is positive or not. The queue is a set from
which `CanPop` allows the operations the heap may return.

**OpQueue**: the heap exactly as `std::collections::BinaryHeap` sifts it, under
`Ord for DynPendingOperation`; the paths of the sifts are recursive functions of positions.

**ContractSync**: `SyncState::get_next_range`, the forward, backward and combined
cursors and the loop of `ContractSync::sync`; `mode`, fixed from the start, says
whether the chain's indexer counts by block or by sequence. The database is the set
of keys in each table, and each write of `store_message` and
`process_tree_insertion` is a step, so that a crash may come between any two.

**GasPaymentSync**: the rate limited cursor and `process_gas_payment` with its two
writes. The stored total is modelled by how often each payment was added.

**GasEnforcer**: a list of policies (`policies`, one of the lists the settings may
hold), the first matching of which decides, the gas estimates of an attempt and what
its transaction really used. A transaction whose outcome is lost is spent but not
recorded.

**ApiServer**: `check_validity` from filter to response for any number of concurrent
requests, each a batch; `MerkleTreeProcessor::tick` beside them. `RestartServer` starts the
process again: the trees are empty (`apiserver.rs:210`), requests under way are lost, the
database and the signing key stay; `life` tells the lives of the process apart, in the
checkpoints signed and in the answers. A root stands for
the sequence of leaves it commits to, a proof for the tree it was taken from. A panic
(every `expect` on a call to the destination) ends the request without a response;
what it added to the tree stays.

**AgentPair**: a relayer and an API server, each with a database, a tree and a
submitter, on shared chains and checkpoints. An operation moves on its own (order and
channels are in `SerialSubmitter`); what is followed is metadata (a plain merkle-root
ISM, or an aggregation that also takes message-id and CCIP-read metadata), the
policies, reverted transactions, lost outcomes, reorgs and restarts. A validity
request appends a leaf to the API server's tree that the chain does not have; a
restart rebuilds that tree from the database. `UndoDelivery` is a reorg that takes back any
delivery, recorded or not; the history variable `orphaned` has the agents that had recorded it.

**CheckpointStore** is the abstract specification of what readers may rely on: a
published checkpoint is that of a final tree and never changes, and the latest index
names a published one. **ValidatorSubmitter** is `submit.rs` await by await for the
tip and the backfill submitter on one store, with crashes and with insertions indexed
from an abandoned fork, which the comparison with the correctness checkpoint detects.
`SubmittersSpec` is its specification, and `ImplementsStore` instantiates the abstract
one (`hook`, `store`, `latest` are the hook's leaves, the objects of the bucket and the
index object).

**IsmMetadata** has the builders of routing, aggregation and null ISMs as recursive
operators, **MultisigMetadata** the multisig builders and the
`MultisigCheckpointSyncer` request by request on top of `CheckpointStore`: honest
validators publish between the requests, a faulty one answers anything. Data of a CCIP
server that is too short panics (`ccip_read.rs:80`), which ends the whole build. The verdict
of an ISM contract is an external operator.

**IncrementalTree**: `IncrementalMerkle`, one hash per level, with an injective
`HashConcat`; the loops over levels are recursive functions, `ReferenceRoot` and
`SiblingProof` are the root and the proofs of the complete tree, by definition.
**MerkleAccumulators** extends it by the full `MerkleTree`, the sparse one and the
`Prover`. `IngestId` is `ingest_message_id`: the prover ingests first and panics if its tree
is full; then the incremental tree does, whose assertion keeps the last leaf free, so that
its panic leaves the prover one leaf ahead (`merkle_tree/builder.rs:91`).

**FallbackProvider**: the shared `priorities`, the snapshot a request works from, the
stalled check, four passes over the providers, and the retrying client of one URL.

**ChainAdapters**: a call of the Ethereum, Cosmos or Sealevel adapter is a script of
requests with what it does if one fails; every request may be answered by another
node, from an older head, or have its answer lost after it took effect. The indexers
loop over pages (Cosmos) or nonces (Sealevel). An Ethereum provider may answer with any
sequence over the logs it has, repeating and leaving out some (`merkle_tree_hook.rs:108`,
`cursor.rs:216`); `EthFetchMessages` is the one indexer that sorts (`mailbox.rs:145`),
`EthFetchLogs` are the other three. What is repeated is dropped by the `HashSet` of
`ContractSync::sync` (`contract_sync/mod.rs:70`), as `ContractSync` and `Scraper` have it.

**Scraper**: three indexers with `ensure_blocks`, `ensure_txns` and the stores as
separate steps on tables with their unique keys and references, the `BlockCursor`
shared by two of them, and stops in between. A query may leave logs out: the forward cursor
of the messages finds out and goes back, those of deliveries and payments cannot.
`omitted` and `abandoned` are history variables: what was left out, and what was missing
below a stored message when the agent stopped. `MessageView` is the SQL view.

**AgentSettings**: what the parsers accept, reject or default, for each agent; the
`MatchingList`; and the wiring of a relayer (`MessageContexts`, channels, filters),
for one configuration and one message at a time.

### Sealevel

**SealevelMailbox** has the Mailbox and the multisig ISM program, **SealevelIgp** the
interchain gas paymaster, **ValidatorAnnounce** the announcement program with the
validator's announce loop, **SealevelTestRecipient** a recipient with every way to
fail; **SealevelPrograms** puts them side by side. One action is one instruction; a
transaction is atomic, so early returns are guards. Accounts have rent and sizes where the
code reads them. **SealevelRouter** is the router and gas router library,
**SealevelWarp** the token library with its native, synthetic and collateral plugins,
**SealevelHelloWorld** the helloworld program; **SealevelRoutes** composes them with
Mailbox, ISM and paymaster on two chains.

**SealevelAccounts** compares, for every instruction, the account list that its builder
passes with the list its processor walks, the nested lists of a delivery included.
**SealevelDeploy** is `deploy_routers` with the warp route and helloworld deployers,
transaction by transaction, with or without the payer's key; **SealevelCore** the core,
IGP and ISM commands with their files.

## 4. Runs

A passing run may hold several components that share no state. Its MC module has one
more variable (`part`, `service`, `component`), chosen in `Init` and constant, that says
which component the behaviour runs, so the state spaces add up instead of multiplying.
The properties are stated without it: they hold of the others in their initial states.

| run | module | shows |
|---|---|---|
| serial_safety | MCSubmitter | *submitter*: two origins with filtered messages, up to three faults: no duplicate, nothing lost, commit final, data fresh, reorg-safe commits. *queue*: the heap keeps every operation once, untried before retried, nonce order. *enforcer*: spending bounded and limited, nothing sent before the deciding policy is satisfied. *api*, restarted once: one root per index in each life; checkpoints and proofs fit; all answers of a life are about one growing tree (`AnswersAgree`); batches and insertions in order |
| serial_live | MCSerialSubmitter | three messages of one origin, one to a recipient without code, inclusions at any time: first attempts in nonce order, every deliverable message eventually recorded as processed |
| sync | ContractSync | both index modes, crashes, errors, stale tips, a log left out of an answer: `SyncSound` (nothing behind a cursor is missing, records complete, cursors contiguous, synced to zero), gaps closed, everything stored in the end |
| agents | MCAgentPair | a relayer and an API server on the same messages: commits only of deliveries unless a later reorg undid them, at most one reverted transaction each and one more per reorg, nothing sent that the ISM refuses, both commit in the end unless a reorg undid what one had recorded |
| services | MCServices | gas payments counted at most once, watermark conservative, all eventually recorded; the validator's submitters refine `CheckpointStore` and publish everything; a stalled provider yields its place |
| components | MCComponents | Mailbox and ISM (`RecordsExact`, `NoForgedDelivery`), paymaster (`IgpSolvent`), announcements, deployment (`DeployConverges`, `CoreSound`), account lists, adapters (`AdaptersSound`; `LogsSound`: only events of the contract, none missing without a cause, in order where the adapter orders), accumulators (`IncrementalTreeSound`: root and proofs are those of the leaves; `AccumulatorsAgree`: the prover's too, which parts from it only by the last leaf of the tree), settings, metadata, RPC priorities |
| routes_scraper | MCRoutesScraper | warp and helloworld routes over two chains: backed (`Backing`), rent exempt and counted once (`RouteAccounts`), paid in the dispatching transaction. The scraper's three tasks, with a log left out of an answer and a stop at any step (`ScraperSound`): rows joined to their logs, what was answered stored, a message missing below a stored one only if it was left out and is still looked for, or the agent stopped first |
| serial_reorg | MCSerialSubmitter | violation: two reorgs leave a committed message undelivered |
| queue_nonce_order | MCOpQueue | violation: no nonce order for two origins |
| sync_leaf_index | ContractSync | violation: a crash leaves an insertion without its leaf index |
| gas_sync_crash | GasPaymentSync | violation: recorded as processed, never counted |
| api_leaf | MCApiServer | violation: a checkpoint names another leaf |

A run that expects a violation checks one statement of the repository's comments;
see section 9. `CHECK_DEADLOCK FALSE` is in every configuration because the bounded
chains, commands and batches end: a system with nothing left to do stops.

## 5. Bounds

Every bound is a constant. `MaxFaults` (SerialSubmitter) counts errors, reorgs,
critical failures and restarts together: the longest scenario known to matter, the
violation of serial_reorg, takes two, and serial_safety allows three; serial_live,
whose graph TLC also searches for fair cycles, allows one. Two messages of two origins,
or three of one, are enough for every pairwise conflict in the channel, at the tasks
and in the queues; the proofs remove this bound. The heap has five messages, three
levels. In ContractSync a range spans two blocks or two sequences and the chain has up
to four blocks, so that ranges are cut, overlap and reach zero; three logs make a first,
an inner and a last one. GasPaymentSync has two payments, two restarts and a stale tip;
the proofs remove the bounds. GasEnforcer has estimates below, at and above the limit
and payments up to and past what two attempts need. ApiServer has two batches of two,
one message filtered and one without a route, two insertions and one restart.
The two origins of serial_safety are alike (each has one filtered message, and no
definition orders or chooses between origins), so that run, which checks invariants only,
uses them as a symmetry set.

AgentPair has two messages, the first filtered and indexed before the start, one
request and one fault of any kind: enough for each agent to overtake the other, for the
request's leaf to come before or after the message's, and for a restart or reorg at any
step. ValidatorSubmitter has three insertions, so that a backfill has two and the tip
one of its own, one leaf of a fork and one crash. FallbackProvider has two callers and
two providers; in the run about liveness nobody's calls fail, since failing answers do
not change the priorities. MultisigMetadata has three validators with a threshold of
two and one of them faulty, and two leaves: quorums at the message's index, above, or
at neither. MerkleAccumulators has depth 3, so seven leaves for the one tree and eight for the other,
with two calls more (`MaxIngests`), and a leaf that is itself
zero; the incremental tree is proved for any depth. ChainAdapters has three blocks, a lag of one and two nodes,
and answers of one log more than there are. Scraper has three
blocks with logs of all kinds that share transactions, three messages (the first may be
missing below two), one omission and one stop. The Sealevel
programs have one or two chains with two dispatches and three administrative
instructions; SealevelWarp has decimals 2 and 0 with 1 in messages, so that both
conversions truncate, amounts that leave and come back, and an ATA payer that can run
dry. SealevelDeploy allows three runs with any of its configurations, SealevelCore
three commands.

## 6. Fairness

serial_live: weak fairness of every processor, of each task per operation, of
the passage of time and of finality. Tokio schedules every task that can run, calls
return (their failures are faults, of which there are finitely many), the clock
goes on and chains finalise. Faults and late inclusions are never forced. A task
that has ended after a critical failure is excluded, as the code does not restart it.

sync, and the payments of services: weak fairness of the sync loop, which has one step
enabled at a time; blocks and crashes are not forced.

agents: weak fairness of each agent's background tasks together (they only add to
what is finite), of each operation's next step, and of the validators. Nobody need
send requests, and a lost transaction need not be included.

services: for the validator, weak fairness of the indexer, of each submitter and of
its start, since an operator restarts an agent that stops, and strong fairness of
polling a hook that answers with its present tree, since a node that lags does not lag
for ever but may do so again and again. For the RPC clients, weak fairness of every
caller's requests, each of which ends at the client's timeout, and of time.

## 7. What is proved

All theorems hold for every value of the constants, under the assumptions named in
the modules: bounds are naturals, sets of messages are subsets, the idle marker
is no message, batches are non-empty, and so on. The ones that say something about the
world are given with the theorem that needs them.

*SerialSubmitterProofs.* `TypeCorrect`, `NoDuplicateOperation`, `NothingIsLost`,
`CommitIsFinal`, `SubmitAlwaysPrepared`, `ConfirmAlwaysSubmitted`, `AttemptsInOrder`,
`ReorgSafety`. The properties are not inductive alone: that no message is lost needs to
know where an operation can be, that submission data is fresh needs the flags of each
place. The invariant is `TypeOK /\ Placement /\ StageFlags /\ CoveredByDelay`: every
message is in at most one place and, if passed by its processor, in one; each place fixes
the flags of the operations there; and an operation that awaits confirmation is covered
by an inclusion that will be final before its delay ends. `ReorgSafety` has the
hypothesis that no message lands while its operation awaits confirmation; without
it the property fails (serial_reorg). For `AttemptsInOrder` the invariant also has
`ChannelInOrder`: the channel has the messages of each origin in the order of nonces, all
of them behind those that were ever received, since only a processor appends to it and
what is retried goes back to the queue, never to the channel.

*ContractSyncProofs.* `CursorsAreSound` for messages and insertions, `SyncIsSound`
(`SyncSound`) for messages, because the order of the writes makes records complete only
there (sync_leaf_index shows it for insertions). The cursors' ranges are contiguous only
together with where they started: `StartMark` says that the start lies between two logs,
`CountSeparates` that the count at a block divides the logs before it from those after,
`ForwardCovered` and `BackwardCovered` that what a cursor has passed is stored or, in
sequence mode, in hand; `StoreProgress` follows the writes of one log through a crash.

*ServicesProofs*, of `GasPaymentSync`: `TypeCorrect`, `PaymentsCountedExactly` (`PaymentsExact`). The
watermark is safe because everything before the cursor is recorded or fetched and
waiting (`CursorCovers`), because the range in progress ends where the cursor stands
(`RangeFits`), and because no cursor is beyond the next block to be mined, or else
before the configured start (`NotAhead`), so new payments never fall behind it.

*ServicesProofs*, of `GasEnforcer`: `EnforcerIsSound`. What is spent is what is recorded and what was lost
(`Recorded`), an attempt under way still has its share of the limit (`LimitLeft`), and its
payment was there when it was approved (`PaidFor`). Proving it showed that `Overrun` must
be at least zero: a policy whose gas fraction asks for more than the limit of every
estimate (`policies/on_chain_fee_quoting.rs`) would otherwise be said to leave a surplus
before anything was paid.

*ApiServerProofs.* `TypeCorrect`, `NoEquivocation`, `SignedIsProven`,
`AnswersOfOneTree`, `AnsweredInOrder`. Between two restarts the tree only grows, so every
copy, and every root signed or answered in this life, stays a prefix of it (`LocalsFit`,
`SignedFit`), and a prefix is determined by its
length, which the index gives; what was signed in an earlier life stays as it was, and
`NoEquivocation` says nothing across lives, where it would be false (section 10). `AnswersInOrder` is inductive with the types: the places of
the chain's insertions are a growing sequence that the processor extends at its end.

*ApiServerProofs*, of `AgentPair`: `AgentsAreSound`, for any number of agents. What an agent
has recorded is on the destination chain or was undone by a reorg afterwards (`orphaned`), at
any depth: nothing bounds the reorgs. What must be added is when
an agent has room for a reverted transaction: `RoomForOne` says that none failed since the
last reorg while the message is not delivered, nor since the simulation that let the
waiting one pass.

*ServicesProofs*, of `ValidatorSubmitter`: `SubmittersImplementStore` is the refinement: every step of the
two submitters is a publication, an update of the latest index or a stutter of
`CheckpointStore`, where a leaf of the hook is one of its steps too. `PlacesSound` gives for
each place of the loop what it knows of its tree; wrong leaves of an abandoned fork are in
the tree only until the comparison with the correctness checkpoint. `StoreIsSound` is
proved of the abstract store alone, and `ReadersMayRely` follows from both.

*ServicesProofs*, of `FallbackProvider`: `ProvidersStaySound` (`FallbackSound`), for any number of
providers (two at least) and of requests that share their priorities. `Listed` says that
the list has every provider and none twice; `RemovalClosesGap` and `DeprioritizeKeepsListed`
that this survives whatever stale entry a request puts back. For a request, `PassSound` says
that the providers it has not asked are in what is left of its copy, and that heights in
the copy, and the one just read, are heights the node had: neither promise is
inductive without what the copies hold.

*SealevelProofs.* For any chains, wallets, ISMs, messages and instructions.
- `VerifyQuorumIs`: the greedy loop of `MultisigIsm::verify` accepts exactly when the
  signers are validators in the configuration's order: it overlooks no way to place them,
  and counts nobody twice. `VerifiedIsGenuine` concludes that a message is genuine if the
  configuration passed `Validate` and, `QuorumAssumption`, fewer of its validators are
  faulty than its threshold.
- `DeliveriesNotForged` (`NoForgedDelivery`) and `IndicesExact`. The invariant says what a
  chain had before its Mailbox was initialized, that every configured quorum passed
  `Validate` (`QuorumsValid`), and that a leaf of the tree names the principal that asked
  for it (`SendersReal`), for which `MailboxAssumption` says that a dispatch authority, a
  PDA, is nobody's key.
- `PaymasterSolvent` (`IgpSolvent`): every IGP account holds its rent and exactly what was
  paid and topped up and not claimed. The sum over the payments is a recursive function
  over a set; in *SetSums* the lemmas `SumsDefined` and `SumsAnyOrder` show that there is
  such a function and that it does not depend on the order, and `TotalAdd` and `TotalChange`
  that a sum follows the values it adds up. `IgpAssumption` has amounts, prices and rents
  that are unsigned integers.
- `AnnouncementsOnce`, and `ProgramsRecordsExact` (`RecordsExact`) for all of them.

*SealevelRoutesProofs.* `RoutesAreBacked` (`Backing`), `RouteAccountsKept`
(`RouteAccounts`) and `DispatchesArePaid` (`PaidWithDispatch`), for any chains, wallets,
plugins, decimals and paymasters.
- `Backing` is inductive with the types: a transfer puts no more on its way than it locks
  or burns, and a delivery pays or mints no more than was on its way, because the
  conversions of decimals round down (`ConversionRoundsDown`) and because what a token
  program handles is a transfer of another one, dispatched and not handled before
  (`ClientsSound`, `DeliveryIs`). That is one change in each of three sums
  (`LockedChanged`, `SupplyChanged`, `LeafInFlight`, `MessageHandled`).
  `BackingAssumption` says that chains and wallets are finitely many, that a route starts
  with its tokens on a chain that locks and does not mint them, that decimals are a `u8`,
  and the law of exponents for ten, since the prover knows no powers. A mint that takes
  fees on transfers would break it and is not modelled.
- That helloworld's counters are exact needs that a leaf of the tree is new, because it
  carries its place (`Leaves`), that a delivery adds one message to those processed
  (`DeliveryIsProcessed`), and that there is no mail of a program that is not set up
  (`HelloSound`): whoever has a key of a program's PDA could call `handle` without the
  Mailbox, and `RoutesAssumption` says that no wallet has.
- That a payment is for the gas configured needs that the overhead accounts stay as they
  were deployed (`PaymentsSound`), and that what a program is configured with are unsigned
  integers (`ClientsSound`).
- Proving it showed that the first version of the initial states left the native
  collateral of a route on more chains without its rent; `Init` now gives it to each.

*SerialSubmitterProofs*, of `OpQueue`: for any number of origins, ids and length,
`PopsUntriedFirst`, and `QueueOfOneOriginSound` (`QueueSound`) for the operations of one
origin; with two, the nonces are out of order (queue_nonce_order). The order that the code
gives the heap is not transitive, so a heap that is sorted by it is not what is kept.
`Ordered(R, heap)` is the heap property under a coarser order `R` that is transitive and
decided by every comparison (`Orders`): the times alone (`ByTime`), or for one origin times
and nonces (`ByNonce`). `QueueInv(R)` has that, that no message is there twice, and that
its nonces were received; sifting is a path of positions, for which the lemmas about
`Climb` and `Ancestors` are proved by a smallest counterexample.

*ComponentProofs*, of `SealevelDeploy`: `DeploymentConverges` (`DeployConverges`), for any
applications and however often the tool is interrupted. `RoutersOK` says that the ids
collected are those of the configuration, `ConfiguredSoFar` that each chain is configured
up to the step the tool has come to, if it signs itself or had nothing to send, and
`SettledOK` that the last completed run left what `ConfiguredAs` says, which is why its
repetition sends nothing. `DeployAssumption`: a foreign deployment is an id of its own
chain, so that configuring one chain leaves the others alone (`DistinctIds`). A run
that hands a program over before it enrolls routers in it does not end: `EnrollsItsOwn` says that
the payer, who signs, is refused exactly by the programs configured for another owner.

*ComponentProofs*, of `SealevelCore`: `CoreCommandsSound` (`CoreSound`), for any domains,
oracle, overhead and ISM files. `AccountsOK` and `IdsBelongTogether` are about the chain and
the ids file, `ProgramsOK` and `IgpOK` about a deployment under way (the programs come in
their order and each names the one before it), `ConfigureTaskOK` about what is left of an
ISM file, `AccountTaskOK` about a command for one IGP account and its salt.

*ComponentProofs*, of `Scraper`: `ScraperStoresTheChain` (`ScraperSound`), for any chain of
blocks with logs. `RowTypes` has the unique keys and what each row leads to, `TaskTypes` the rows
a task has looked up, `ReadOrHeld` that what a task was answered is stored or in its hands, and
`CoveredTo` what the block cursor is worth, in memory and in the database: one of the two
tasks that share it stored what it was answered of each block before it. A node may leave
logs out of any answer, and the theorem does not say that nothing is lost: `HistoryOK` keeps which
were left out (`omitted`) and which nonces were missing at a stop (`abandoned`), and a
message is missing below a stored one only if it was left out and either the cursor still looks for
it or the agent was stopped before it had rewound. `ChainAssumption` is what the chain
holds: a transaction is in one block, a message or payment is there once, and a Mailbox
counts its nonces without gaps.

*ComponentProofs*, of `ChainAdapters`: `AdapterCallsSound` (`AdaptersSound`), for any nodes, lag,
answers, number of attempts and script. The invariant says what each request of a script
may rely on: behind a pinned call's first request lies a final block (`PinnedOK`), the count
returned is that of a final block (`CountOK`), and past the request that sends, the
transaction was sent (`SendsOK`). The theorem also has `LogsSound` of the two
Sealevel indexers (`NoncesOK`: the logs so far are those of the nonces before the page).

*ComponentProofs*, of `AgentSettings`: `ConfigurationHonoured` (`SettingsSound`), for any
configurations and messages. An agent is what its configuration makes of it
(`SettingsInv`), so the lemmas are about what the parsers return: which rules match, which
chains are in the map, which contexts are built. `RawAssumption` gives the four outcomes of
parsing a list, and a validator one origin chain (`originChainName`).

*ComponentProofs*, of `IncrementalTree`: `IncrementalTreeExact` (`IncrementalTreeSound`), for any depth
and leaves. The branch of the code keeps stale hashes on the levels whose bit of the count is
0; what is kept (`BranchOf`) is that on each level where the bit is 1 it has the node left
of the one the next leaf goes under. Then the root computed from it is that of the
complete tree (`RootIsReference`: on every level, the hash so far is the node above the first
free leaf), and so it verifies the proofs by siblings (`SiblingsLeadUp`). Ingesting changes
the level of the lowest 1 bit of the new count (`IngestKeepsBranch`), which exists because
`HasRoom` leaves the last leaf free: with one leaf more, no level would be written and the
leaf lost. `TreeAssumption` has a depth of at least one; the code has 32.

## 8. What is only model-checked

Liveness (`EventuallyProcessed`, `EventuallyStored`, `GapClosed`, `AgentsCommit`,
`EventuallyPublished`, `StalledProviderYields`), since the prover does not handle
fairness. Of the safety properties of the passing runs:

- `AccumulatorsAgree`: `MerkleTree::create`, `push_leaf` and `as_latest` recurse over trees,
  as recursive operators, and what they compute is an induction over data. The incremental
  tree, whose loops are over the levels, is proved.
- `MetadataSound`: the builders recurse over nested ISMs (`BuildMetadata`, `VerifyIsm`).
- `AccountsAccepted` has no constants and one state for every instruction: TLC's
  enumeration is the proof.
- `LogsSound` of the Ethereum and Cosmos indexers, with logs that a node repeats or leaves
  out: what filtering, sorting and joining
  pages (`SelectSeq`, `SortSeq`, `FlattenSeq`) return for every sequence is an induction
  over data.
- `SyncSound` for insertions; it is proved for messages. `QueueSound` is proved for one
  origin, which is where it holds.

Where recursion is a function over numbers or sets, as in `VerifyQuorum`, the sums of
payments, the paths in the heap and the levels of the tree, the induction is done by hand: a
smallest counterexample, a set of numbers or a subset, is shown not to exist; the
induction theorems of the library, which take an operator as a parameter, are not needed.

## 9. Disagreements between code and documentation

Five are shown by a run; the quotations are in `PROJECT.json` under `findings`.

1. The order of operations is not transitive for several origins, so the heap gives
   no nonce order (`pending_operation.rs:91`; queue_nonce_order).
2. `CONFIRM_DELAY` does not start again after a re-inclusion, so a commit is not
   always robust to reorgs (`serial_submitter.rs:45`; serial_reorg).
3. `process_tree_insertion` can leave an insertion without its leaf index
   (`hyperlane_db.rs:155`; sync_leaf_index).
4. `process_gas_payment` can record a payment without counting it
   (`hyperlane_db.rs:132`; gas_sync_crash).
5. `check_validity` adds the leaf and copies the tree under two locks
   (`validity.rs:131`; api_leaf).

Five more are built into the models, and the properties are stated with them in
mind: `try_join_all` over join handles does not return a task's own error, so a
critical failure is not passed up (`serial_submitter.rs:131`: a task in `ended` stays there until a restart,
and `EventuallyProcessed` asks for no ended task); the backward cursor reports to
be synced at block zero even if it misses a sequence that an answer left out
(`cursor.rs:334`: `SyncSound` asks for complete answers); and the clone of the
API state shares the trees (`validity.rs:399`: other requests add leaves in the
middle of a batch). Two concern `deploy_routers` of the Sealevel client with a configured owner who is
not the payer (`sealevel/client/src/router.rs`). It warns that "Ownership transfer is not yet
supported in this deploy tooling, ownership is granted to the payer account" (`router.rs:359`), and 30 lines
below `configure_owner` transfers the program; `DeployConverges` states what the code does. And it
does so before it enrolls routers in the payer's name (`router.rs:389`, `router.rs:399`): a
program with a router missing refuses, the tool panics, and so does every later run,
so that it does not "idempotently" enroll "all routers" (`router.rs:288`). `EnrollsItsOwn`, a part of
`DeployConverges`, says that this is so for exactly these programs.

## 10. Observations

What the models made visible without a statement of the repository it contradicts; the
properties are stated with it in mind.

- Two commands of the Sealevel client build account lists that the programs refuse:
  `mailbox send` (`sealevel/client/src/main.rs:822`) passes outbox, payer and noop where
  `outbox_dispatch` (`sealevel/programs/mailbox/src/processor.rs:551`) walks more, and
  `token enroll-remote-router` (`main.rs:1193`) leaves out the system program.
  `AccountsAccepted` says that every other list is accepted, and these two are not.
- The delivery and the gas payment indexer of the scraper share one block cursor
  (`agents/scraper/src/db/block_cursor.rs:78`). After a restart the slower one continues
  where the faster one was; `ScraperSound` therefore says of a block behind the cursor
  that one of the two has stored what it was answered.
- Of the scraper's tasks only that of messages notices a log that `eth_getLogs` left out
  (`hyperlane-base/src/contract_sync/cursor.rs:216`), by the gap in the nonces. If the
  agent stops before the cursor has rewound, it starts again behind the greatest stored nonce
  (`agents/scraper/src/agent.rs:193`) and the gap stays. Deliveries and payments that were
  left out are never missed. `ScraperSound` names these cases.
- The API server builds an empty tree when it starts (`apiserver.rs:210`) while its key
  and the database stay, and leaves come into the tree in the order of the requests. After a
  restart the same key may therefore sign another root for an index; `OneRootPerIndex` is about what
  is signed between two restarts.
- What `serial_reorg` shows of one relayer holds for two agents: `AgentPair` lets a
  reorg undo a delivery that an agent has recorded, and no agent sends that message again.
- When the tree is full, the prover accepts the last leaf and the incremental tree's
  assertion fails (`merkle_tree/builder.rs:91`): the prover is then one leaf ahead, and its
  count goes on with every leaf it refuses. `AccumulatorsAgree` has this as the only way in
  which the two part.
- A faulty validator that signs the quorum's root with another message id turns
  `fetch_checkpoint` into an error instead of being left out
  (`hyperlane-base/src/types/multisig.rs:117`); `MetadataSound` asks for a result only if
  none does.
- `transfer_out` of the synthetic plugin checks the rent of the recipient's token account
  and not of the ATA payer; `RouteAccounts` asks for a rent-exempt ATA payer of the
  collateral plugin only.
- The validator's latest index may go back when the backfill submitter, having read it
  first, writes last; `CheckpointStore` promises only that it names a published
  checkpoint, and no reader relies on more.
- The Sealevel gas payment indexer skips a payment it could not read
  (`chains/hyperlane-sealevel/src/interchain_gas.rs:257`), and `eth_getLogs` may be
  incomplete without an error, from a node that lags or leaves a log out, and may repeat
  logs (`chains/hyperlane-ethereum/src/mailbox.rs:128`). `LogsSound` asks for complete logs only
  where nothing was skipped or left out, allows repetition on Ethereum, and asks for order
  only of the one indexer that sorts (`mailbox.rs:145`).
- A whitelist or blacklist that is no JSON is ignored without an error
  (`relayer/src/settings/mod.rs:279`); `SettingsSound` speaks of lists that parse.
- In this fork the validator's `run` has the call that starts the submitters commented
  out; `ValidatorSubmitter` models the submitters as they are written.

## 11. What is not modelled

The Solidity contracts, the TypeScript SDK, CLI and infrastructure, the UI and the
deployment files. Of the contracts the agents need the rules by which an ISM verifies,
which are external operators. The Fuel adapter, whose calls are mostly `todo!()`.
Metrics, logs and tracing, which have no influence on the state. RocksDB's encodings and
`SingletonSigner` are single steps. Of the gas payment cursor, the sequence mode used on
Sealevel and the rate limit. Hashes and signatures are perfect; Bech32, base64, ABI and
Borsh encodings are identities on what the properties tell apart, except where parsing
can fail, which is modelled as failing. Integer widths are kept where the code can reach
them (`MaxU64` in `SealevelIgp`, the full tree in `IncrementalTree`) and left out
elsewhere. SPL token programs with transfer fees are not modelled.
