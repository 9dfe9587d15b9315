---------------------------- MODULE ChainAdapters ----------------------------
(***************************************************************************)
(* The chain adapters of the agents (chains/hyperlane-ethereum, -cosmos,    *)
(* -sealevel). An adapter call is a script of requests, and every request   *)
(* may be answered by another node: late, from an older head, or with its   *)
(* answer lost after it took effect. Indexer calls also loop over pages or  *)
(* nonces. Which node is asked is FallbackProvider's choice; here any is.   *)
(***************************************************************************)
EXTENDS Naturals, Sequences, FiniteSets, SequencesExt

CONSTANTS Nodes,           \* the nodes behind the URLs of the chain
          AdapterOps,      \* the adapter calls that are made
          AdapterHeight,   \* bound: blocks of the chain
          AdapterLag,      \* reorg_period, or the lag of a call
          CountAt,         \* [0..AdapterHeight -> Nat]: the counter of the contract in a final block
          ChainTxs,        \* the transactions of the chain, in order: height, failed, events
          PaginationLimit, \* transactions per page of tx_search
          RequestAttempts  \* errors after which the Ethereum client gives a request up

ASSUME AdapterAssumption ==
    /\ Nodes # {} /\ AdapterHeight \in Nat /\ AdapterLag \in Nat
    /\ RequestAttempts \in Nat \ {0} /\ PaginationLimit \in Nat \ {0}
    /\ CountAt \in [0 .. AdapterHeight -> Nat]

VARIABLES node,         \* node[p]: the head of node p
          call,         \* the adapter call that is under way, or has just ended
          transaction   \* the transaction of the call: unsent, pending, mined, dropped

adapterVars == <<node, call, transaction>>

ChainHead == CHOOSE h \in {node[p] : p \in Nodes} : \A p \in Nodes : node[p] <= h
SaturatingSub(a, b) == IF a < b THEN 0 ELSE a - b
FinalBlock(b) == b <= SaturatingSub(ChainHead, AdapterLag)
\* What a node may answer for block b: a block that is not final may be on a fork.
SeenAt(b) == IF FinalBlock(b) THEN {CountAt[b]} ELSE {CountAt[b], CountAt[b] + 1}
------------------------------------------------------------------------------
(* The calls, as the requests they make, with what the call does when the   *)
(* request fails: pass the error on, go on without the answer, or return    *)
(* None or false.                                                           *)

Req(m, e) == [method |-> m, onErr |-> e]
HeadBlock == Req("head", "fail")           \* eth_blockNumber, latest_block, get_block_height
Pinned == Req("call_at", "fail")       \* a call or query at the block of the call
Latest == Req("call", "fail")          \* a call or query at the head of the node
Simulate == Req("simulate", "fail")

\* tx.rs
FillTxGasParams == <<Req("eth_estimateGas", "fail"), Req("eth_feeHistory", "continue")>>
ReportTx == <<Req("eth_sendRawTransaction", "fail"), Req("eth_getTransactionReceipt", "fail")>>
CallWithLag == <<HeadBlock, Pinned>>
\* mailbox.rs, merkle_tree_hook.rs, interchain_gas.rs, validator_announce.rs and the ISMs
EthSequenceAndTip == <<HeadBlock, Pinned>>
EthHookSequenceAndTip == <<HeadBlock, Pinned>>
EthPaymentTip == <<HeadBlock>>
EthDeliveryTip == <<HeadBlock>>
EthLatestCheckpoint == CallWithLag
EthMailboxReads == <<Latest>>
EthProcess == FillTxGasParams \o ReportTx
EthProcessEstimateCosts == FillTxGasParams \o <<Req("eth_gasPrice", "fail")>>
EthAnnounce == FillTxGasParams \o ReportTx
EthAnnounceTokensNeeded ==
    <<Req("eth_estimateGas", "none"), Req("eth_feeHistory", "continue"),
      Req("eth_getBalance", "none")>>
EthDryRunVerify == <<Latest, Req("eth_estimateGas", "fail")>>
EthModuleType == <<Latest>>
EthValidatorsAndThreshold == <<Latest>>
EthRoute == <<Latest>>
EthModulesAndThreshold == <<Latest>>
EthOffchainVerifyInfo == <<Latest>>
EthGetBlockByHash == <<Req("get_by_hash", "fail")>>
EthGetTxnByHash == <<Req("get_by_hash", "fail"), Req("eth_getTransactionReceiptOnce", "fail")>>

\* grpc.rs: the signer's account and the height are read anew for every signed document.
UnsignedSignDoc == <<Req("account", "fail"), Req("latest_height", "fail")>>
EstimateGas == UnsignedSignDoc \o <<Simulate>>
\* generate_raw_signed_tx estimates the gas only when no limit is given.
RawSignedTx == EstimateGas \o UnsignedSignDoc
WasmSend == RawSignedTx \o <<Req("broadcast", "fail")>>
WasmSendWithLimit == UnsignedSignDoc \o <<Req("broadcast", "fail")>>
CosmosSequenceAndTip == <<HeadBlock, Pinned>>
CosmosHookSequenceAndTip == <<HeadBlock, Pinned>>
CosmosLatestCheckpoint == <<Req("head_strict", "fail"), Pinned>>
CosmosDelivered == <<Req("call", "false")>>
CosmosReads == <<Latest>>
CosmosModuleType == <<Latest>>
CosmosValidatorsAndThreshold == <<Latest>>
CosmosRoute == <<Latest>>
CosmosModulesAndThreshold == <<Latest>>
CosmosStorageLocations == <<Latest>>
CosmosProcess == WasmSend
CosmosAnnounce == WasmSendWithLimit

\* hyperlane-sealevel: no call at a past slot; process() asks for the accounts it needs.
\* Accounts are read at the finalized commitment of the node that answers.
Finalized == Req("finalized", "fail")
SealevelSequenceAndTip == <<HeadBlock, Finalized>>
SealevelLatestCheckpoint == <<Req("tree", "fail")>>
SealevelDelivered == <<Finalized>>
SealevelRecipientIsm == <<Simulate, Simulate>>
SealevelModuleType == <<Simulate>>
SealevelValidatorsAndThreshold == <<Simulate, Simulate>>
SealevelStorageLocations == <<Finalized>>
SealevelProcess ==
    <<Simulate, Simulate, Simulate, Simulate, Req("blockhash", "fail"),
      Req("send_and_confirm", "fail"), Req("confirm", "continue")>>

Scripts ==
    [eth_sequence_and_tip |-> EthSequenceAndTip,
     eth_hook_sequence_and_tip |-> EthHookSequenceAndTip,
     eth_payment_tip |-> EthPaymentTip, eth_delivery_tip |-> EthDeliveryTip,
     eth_latest_checkpoint |-> EthLatestCheckpoint, eth_reads |-> EthMailboxReads,
     eth_process |-> EthProcess, eth_estimate |-> EthProcessEstimateCosts,
     eth_announce |-> EthAnnounce,
     eth_announce_tokens_needed |-> EthAnnounceTokensNeeded, eth_dry_run_verify |-> EthDryRunVerify,
     eth_module_type |-> EthModuleType, eth_validators |-> EthValidatorsAndThreshold,
     eth_route |-> EthRoute,
     eth_modules |-> EthModulesAndThreshold, eth_offchain_info |-> EthOffchainVerifyInfo,
     eth_block |-> EthGetBlockByHash, eth_txn |-> EthGetTxnByHash,
     cosmos_sequence_and_tip |-> CosmosSequenceAndTip,
     cosmos_hook_sequence_and_tip |-> CosmosHookSequenceAndTip,
     cosmos_latest_checkpoint |-> CosmosLatestCheckpoint, cosmos_delivered |-> CosmosDelivered,
     cosmos_reads |-> CosmosReads, cosmos_module_type |-> CosmosModuleType,
     cosmos_validators |-> CosmosValidatorsAndThreshold, cosmos_route |-> CosmosRoute,
     cosmos_modules |-> CosmosModulesAndThreshold, cosmos_locations |-> CosmosStorageLocations,
     cosmos_process |-> CosmosProcess, cosmos_announce |-> CosmosAnnounce,
     sealevel_sequence_and_tip |-> SealevelSequenceAndTip,
     sealevel_latest_checkpoint |-> SealevelLatestCheckpoint,
     sealevel_delivered |-> SealevelDelivered,
     sealevel_recipient_ism |-> SealevelRecipientIsm, sealevel_module_type |-> SealevelModuleType,
     sealevel_validators |-> SealevelValidatorsAndThreshold,
     sealevel_locations |-> SealevelStorageLocations, sealevel_process |-> SealevelProcess]

EthOps == {"eth_sequence_and_tip", "eth_hook_sequence_and_tip", "eth_payment_tip",
           "eth_delivery_tip",
           "eth_latest_checkpoint", "eth_reads", "eth_process", "eth_estimate", "eth_announce",
           "eth_announce_tokens_needed", "eth_dry_run_verify", "eth_module_type", "eth_validators",
           "eth_route", "eth_modules", "eth_offchain_info", "eth_block", "eth_txn"}
PinnedOps == {"eth_sequence_and_tip", "eth_hook_sequence_and_tip", "eth_latest_checkpoint",
              "cosmos_sequence_and_tip", "cosmos_hook_sequence_and_tip", "cosmos_latest_checkpoint"}
IndexOps ==
    {"eth_fetch_messages", "eth_fetch_logs", "cosmos_fetch_logs", "sealevel_fetch_logs",
     "sealevel_fetch_payments"}

\* get_finalized_block_number, call_with_lag: the block that the next request is pinned to.
\* A faulty variant: the reorganisation period is not subtracted.
FinalizedBlockNumberNoLag(h) == h
FinalizedBlockNumber(h) == SaturatingSub(h, AdapterLag)
------------------------------------------------------------------------------
(* Answers of the nodes (external): a value, or an error.                   *)

Answer(v) == [kind |-> "ok", value |-> v]
Refusal(e) == [kind |-> e, value |-> 0]

\* The answers of node p to method m of the call, each with the transaction it leaves.
Answers(p, m) ==
    LET Same(rs) == {<<r, transaction>> : r \in rs} IN
    Same({Refusal("lost")}) \cup
    CASE m \in {"head", "head_strict", "latest_height"} -> Same({Answer(node[p])})
      [] m = "call_at" -> Same(IF call.block <= node[p] THEN {Answer(v) : v \in SeenAt(call.block)}
                                                        ELSE {Refusal("unknown_block")})
      [] m = "call" -> Same({Answer(v) : v \in SeenAt(node[p])} \cup {Refusal("revert")})
      [] m \in {"tree", "finalized"} -> Same({Answer(CountAt[SaturatingSub(node[p], AdapterLag)])})
      [] m \in {"eth_estimateGas", "simulate"} -> Same({Answer(1), Refusal("revert")})
      [] m = "eth_feeHistory" -> Same({Answer(1), Refusal("unsupported")})
      [] m \in {"get_by_hash", "confirm"} -> Same({Answer(0), Answer(1)})
      [] m = "eth_sendRawTransaction" ->
            (CASE transaction = "unsent" ->
                {<<Answer(1), "pending">>, <<Refusal("lost"), "pending">>,
                                             <<Refusal("underpriced"), "unsent">>}
               [] transaction = "pending" -> Same({Refusal("known")})
               [] OTHER -> Same({Refusal("nonce")}))
      [] m = "eth_getTransactionReceipt" ->
            (CASE transaction = "mined" -> Same({Answer(1)})
               [] transaction = "pending" -> {}
               [] OTHER -> Same({Answer(0)}))
      [] m = "broadcast" ->
             {<<Answer(1), "pending">>, <<Answer(0), "unsent">>, <<Refusal("lost"), "pending">>}
      [] m = "send_and_confirm" -> {<<Answer(1), "mined">>, <<Refusal("lost"), "pending">>}
      [] OTHER -> Same({Answer(1)})

\* EthereumFallbackProvider and RetryingProvider try these again; the others never retry.
Retried(m, kind) ==
    /\ call.op \in EthOps
    /\ \/ kind = "lost"
       \/ kind = "unknown_block"
       \/ kind = "unsupported" /\ m # "eth_feeHistory"
------------------------------------------------------------------------------
(* One call at a time: the calls share nothing but the chain.               *)

NoCall == [op |-> "none", stage |-> 0, block |-> 0, errors |-> 0, tries |-> 0, value |-> 0,
           pc |-> "done",
         result |-> "none", to |-> 0, synced |-> FALSE, page |-> 0, total |-> 0, logs |-> << >>]

Init_Adapters ==
    /\ node = [p \in Nodes |-> 0]
    /\ call = NoCall
    /\ transaction = "unsent"

\* A call; an indexer is asked for blocks (nonces) that the chain has finalized.
StartCall ==
    /\ call.pc = "done"
    /\ \E op \in AdapterOps, to \in 0 .. AdapterHeight :
        /\ IF op \in IndexOps THEN FinalBlock(to) ELSE to = 0
        /\ call' = [NoCall EXCEPT !.op = op, !.stage = 1, !.to = to, !.page = 1,
                                !.synced = \A p \in Nodes : node[p] >= to + AdapterLag,
                                !.pc = IF op \in IndexOps THEN "index" ELSE "request"]
    /\ transaction' = "unsent"
    /\ UNCHANGED node

Method == Scripts[call.op][call.stage].method
EndCall(r, v) == [call EXCEPT !.pc = "done", !.result = r, !.value = v, !.errors = 0, !.tries = 0]
NextRequest(block, v) ==
    IF call.stage = Len(Scripts[call.op])
    THEN [EndCall("ok", v) EXCEPT !.block = block]
    ELSE [call EXCEPT !.stage = @ + 1, !.block = block, !.errors = 0, !.tries = 0]

\* get_block_height_for_lag subtracts without saturating: far too large a height.
HeightForLag(v) == IF v < AdapterLag THEN EndCall("err", 0) ELSE NextRequest(v - AdapterLag, v)

RequestOk(v) ==
    CASE Method = "head" -> NextRequest(FinalizedBlockNumber(v), v)
      [] Method = "head_strict" -> HeightForLag(v)
      \* get_with_retry_on_none: None three times is an error.
      [] Method = "get_by_hash" /\ v = 0 ->
            IF call.tries < 2 THEN [call EXCEPT !.tries = @ + 1, !.errors = 0]
            ELSE EndCall("not_found", 0)
      \* report_tx: the transaction can no longer be found in the mempool.
      [] Method = "eth_getTransactionReceipt" /\ v = 0 -> EndCall("dropped", 0)
      \* an empty outbox has no checkpoint
      [] Method = "tree" /\ v = 0 -> EndCall("err", 0)
      [] OTHER -> NextRequest(call.block, v)

RequestErr ==
    LET e == Scripts[call.op][call.stage].onErr IN
    CASE e = "continue" -> NextRequest(call.block, 0)
      [] e = "false" -> EndCall("ok", 0)
      [] e = "none" -> EndCall("none", 0)
      [] OTHER -> EndCall("err", 0)

MakeRequest ==
    /\ call.pc = "request"
    /\ \E p \in Nodes : \E a \in Answers(p, Method) :
        /\ transaction' = a[2]
        /\ call' = CASE a[1].kind = "ok" -> RequestOk(a[1].value)
                     [] Retried(Method, a[1].kind) /\ call.errors + 1 < RequestAttempts ->
                            [call EXCEPT !.errors = @ + 1]
                     [] OTHER -> RequestErr
    /\ UNCHANGED node

\* report_tx gives up waiting for the receipt after 300 seconds.
ReceiptTimeout ==
    /\ call.pc = "request" /\ Method = "eth_getTransactionReceipt" /\ transaction = "pending"
    /\ call' = EndCall("timeout", 0)
    /\ UNCHANGED <<node, transaction>>
------------------------------------------------------------------------------
(* Indexers. An event has a contract, whether its attributes can be parsed, *)
(* and the nonce of the message, insertion or payment it is about.          *)

Ours == "ours"
InRange(t, head) == t.height >= 1 /\ t.height <= call.to /\ t.height <= head
\* tx_search: transactions with an event of the contract, failed ones included.
TxSearch(p) ==
    SelectSeq(ChainTxs, LAMBDA t : /\ InRange(t, node[p])
                                   /\ \E i \in DOMAIN t.events : t.events[i].contract = Ours)
Page(txs, k) ==
    LET end == k * PaginationLimit IN
    SubSeq(txs, (k - 1) * PaginationLimit + 1, IF end > Len(txs) THEN Len(txs) ELSE end)
DivCeil(n, d) == (n + d - 1) \div d

\* The parsers of the three indexers keep an event whose attributes are complete.
HyperlaneMessageParser(e) == e.parses
MerkleTreeInsertionParser(e) == e.parses
InterchainGasPaymentParser(e) == e.parses
Parsed(e) ==
    CASE e.kind = "message" -> HyperlaneMessageParser(e)
      [] e.kind = "insertion" -> MerkleTreeInsertionParser(e)
      [] OTHER -> InterchainGasPaymentParser(e)
\* A faulty variant: the contract that emitted an event is not compared.
HandleTxAnyContract(t) == SelectSeq(t.events, LAMBDA e : Parsed(e))
HandleTx(t) == SelectSeq(t.events, LAMBDA e : Parsed(e) /\ e.contract = Ours)
HandleTxs(txs) ==
    FlattenSeq([i \in DOMAIN txs |-> IF txs[i].failed THEN << >> ELSE HandleTx(txs[i])])

\* The events of the contract in the range, in the order of the chain.
Emitted == HandleTxs(SelectSeq(ChainTxs, LAMBDA t : InRange(t, AdapterHeight)))

IndexFailed == call' = EndCall("err", 0) /\ UNCHANGED <<node, transaction>>

\* eth_getLogs of node p: the logs of the contract and of the event that it has in the range.
\* Depending on the provider some are repeated (merkle_tree_hook.rs) or left out (cursor.rs).
LogsOfNode(p) == HandleTxs(SelectSeq(ChainTxs, LAMBDA t : InRange(t, node[p])))
GetLogs(p) == LET logs == LogsOfNode(p) IN SeqOf(ToSet(logs), Len(logs) + 1)

\* fetch_logs passes the answer on, sorted or as it is. The call is no longer synced when the
\* provider has left a log out.
EndFetch(p, answer, logs) ==
    /\ call' = [EndCall("ok", 0) EXCEPT
                    !.logs = logs, !.synced = @ /\ ToSet(answer) = ToSet(LogsOfNode(p))]
    /\ UNCHANGED <<node, transaction>>

\* The indexer of messages sorts by nonce, and keeps what is repeated.
EthFetchMessages ==
    /\ call.pc = "index" /\ call.op = "eth_fetch_messages"
    /\ \/ IndexFailed
       \/ \E p \in Nodes : \E answer \in GetLogs(p) :
            EndFetch(p, answer, SortSeq(answer, LAMBDA a, b : a.nonce < b.nonce))

\* The indexers of deliveries, of insertions and of payments do not.
EthFetchLogs ==
    /\ call.pc = "index" /\ call.op = "eth_fetch_logs"
    /\ IndexFailed \/ \E p \in Nodes : \E answer \in GetLogs(p) : EndFetch(p, answer, answer)

\* get_range_event_logs: the number of pages comes from the first answer.
CosmosFetchPage ==
    /\ call.pc = "index" /\ call.op = "cosmos_fetch_logs"
    /\ \/ IndexFailed
       \/ \E p \in Nodes :
            LET found == TxSearch(p)
                total == IF call.page = 1 THEN Len(found) ELSE call.total
                logs == call.logs \o HandleTxs(Page(found, call.page)) IN
            /\ call' = IF call.page >= DivCeil(total, PaginationLimit)
                       THEN [EndCall("ok", 0) EXCEPT !.logs = logs, !.total = total]
                       ELSE [call EXCEPT !.page = @ + 1, !.total = total, !.logs = logs]
            /\ UNCHANGED <<node, transaction>>

\* get_message_with_nonce, get_payment_with_sequence: of the accounts with the bytes of the
\* nonce, only one whose address is derived from its unique key is used. The finalized
\* commitment hides what the node does not have final.
AccountsOfProgram ==
    FlattenSeq([i \in DOMAIN ChainTxs |-> IF ChainTxs[i].failed THEN << >>
        ELSE [j \in DOMAIN ChainTxs[i].events |->
                [event |-> ChainTxs[i].events[j], height |-> ChainTxs[i].height]]])
AccountWith(nonce, p) ==
    {a \in ToSet(AccountsOfProgram) :
        a.event.nonce = nonce /\ a.event.parses /\ a.height + AdapterLag <= node[p]}

\* The mailbox indexer fails as a whole; the IGP indexer skips what it cannot read, and
\* the payments to another IGP account. The range is one of nonces: 0 .. to - 1.
SealevelFetchNonce ==
    /\ call.pc = "index" /\ call.op \in {"sealevel_fetch_logs", "sealevel_fetch_payments"}
    /\ \E p \in Nodes, found \in BOOLEAN :
        LET accounts == IF found THEN AccountWith(call.page - 1, p) ELSE {}
            kept == {a \in accounts : call.op = "sealevel_fetch_logs" \/ a.event.contract = Ours}
            logs == IF kept = {} THEN call.logs
                ELSE Append(call.logs, (CHOOSE a \in kept : TRUE).event) IN
        call' = IF call.to = 0 THEN EndCall("ok", 0)
                ELSE IF accounts = {} /\ call.op = "sealevel_fetch_logs" THEN EndCall("err", 0)
                ELSE IF call.page = call.to THEN [EndCall("ok", 0) EXCEPT !.logs = logs]
                ELSE [call EXCEPT !.page = @ + 1, !.logs = logs]
    /\ UNCHANGED <<node, transaction>>
------------------------------------------------------------------------------
(* The environment, and the specification.                                  *)

NodeAdvances(p) ==
    /\ node[p] < AdapterHeight
    /\ node' = [node EXCEPT ![p] = @ + 1]
    /\ UNCHANGED <<call, transaction>>

Mine ==
    /\ transaction = "pending"
    /\ transaction' \in {"mined", "dropped"}
    /\ UNCHANGED <<node, call>>

Next_Adapters ==
    \/ StartCall \/ MakeRequest \/ ReceiptTimeout
    \/ EthFetchMessages \/ EthFetchLogs \/ CosmosFetchPage \/ SealevelFetchNonce \/ Mine
    \/ \E p \in Nodes : NodeAdvances(p)

AdapterSpec == Init_Adapters /\ [][Next_Adapters]_adapterVars
------------------------------------------------------------------------------
(* Properties.                                                              *)

\* A counter or a checkpoint is returned with a final block, and is the one of that block,
\* although different nodes may have answered the two requests.
PinnedReads ==
    call.op \in PinnedOps /\ call.result = "ok" =>
        FinalBlock(call.block) /\ call.value = CountAt[call.block]

\* A count that a Sealevel node reports is one of a final slot, not necessarily of the tip
\* that another node reported just before.
FinalizedReads ==
    call.op \in {"sealevel_sequence_and_tip", "sealevel_latest_checkpoint"} /\ call.result = "ok"
        => \E b \in 0 .. AdapterHeight : FinalBlock(b) /\ call.value = CountAt[b]

\* Success is reported only for a transaction that was sent, and on Ethereum only for one that
\* is on the chain, whichever answers were lost.
OutcomeHonest ==
    /\ call.op \in {"eth_process", "eth_announce"} /\ call.result = "ok" => transaction = "mined"
    /\ call.op \in {"cosmos_process", "cosmos_announce", "sealevel_process"}
            /\ call.result = "ok" /\ call.value = 1
            => transaction # "unsent"

\* What an indexer returns is an event of the contract it indexes; and no event of the range is
\* missing, unless a node was behind or left a log out or the IGP indexer skipped one. The
\* indexers of Cosmos and Sealevel return every event once, in the order of the nonces; that of
\* the messages of an Ethereum chain keeps the order, but not the number of times.
LogsSound ==
    call.op \in IndexOps /\ call.result = "ok" =>
        /\ call.op \notin {"eth_fetch_messages", "eth_fetch_logs"} =>
               \A i, j \in DOMAIN call.logs : i < j => call.logs[i].nonce < call.logs[j].nonce
        /\ call.op = "eth_fetch_messages" =>
               \A i, j \in DOMAIN call.logs : i < j => call.logs[i].nonce <= call.logs[j].nonce
        /\ \A i \in DOMAIN call.logs : call.logs[i].parses
        /\ call.op # "sealevel_fetch_logs" =>
               \A i \in DOMAIN call.logs : call.logs[i].contract = Ours
        /\ call.op = "sealevel_fetch_logs" => Len(call.logs) = call.to
        /\ call.op \in {"eth_fetch_messages", "eth_fetch_logs", "cosmos_fetch_logs"} /\ call.synced =>
               ToSet(call.logs) = ToSet(Emitted)

\* What the calls of the adapters return to the agents, indexers aside (chains/hyperlane-*).
AdaptersSound == PinnedReads /\ FinalizedReads /\ OutcomeHonest
==============================================================================
