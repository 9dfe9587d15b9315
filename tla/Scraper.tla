------------------------------ MODULE Scraper ------------------------------
(***************************************************************************)
(* The scraper of one domain: three ContractSync tasks copy the dispatched *)
(* messages, the deliveries and the gas payments of a chain into one SQL   *)
(* database.  A row names the transaction of its log, and a transaction    *)
(* its block, by a database id; ensure_blocks and ensure_txns look the ids *)
(* up, insert what is missing and look again, while the other tasks do the *)
(* same.  Deliveries and payments are read up to a BlockCursor, which both *)
(* tasks share.  A node may leave logs out of its answer: the forward      *)
(* cursor of the messages notices, the cursors of the others cannot.       *)
(*                                                                         *)
(* Hashes are small numbers.  Fewer logs than CHUNK_SIZE are in a range,   *)
(* so one insert is enough.  The chain is read behind its finality.        *)
(***************************************************************************)
EXTENDS Integers, FiniteSets, FiniteSetsExt

CONSTANTS
    ChainLogs,      \* set of [kind, key, block, txn, index]: what the chain holds
    ChainHeight,    \* bound on the height of the chain
    ScrapeFrom,     \* index.from of the settings
    ScrapeChunk,    \* index.chunk_size
    MaxScraperStops, \* bound on the restarts
    MaxOmissions     \* bound on the logs that answers leave out

Kinds == {"message", "delivery", "payment"}

(* key is the nonce of a message and the message's id otherwise; a nonce   *)
(* is its message's id here                                                *)
ASSUME ScraperAssumption ==
    /\ ChainHeight \in Nat /\ ScrapeFrom \in Nat /\ ScrapeChunk \in Nat \ {0}
    /\ MaxScraperStops \in Nat /\ MaxOmissions \in Nat
    /\ IsFiniteSet(ChainLogs)
    /\ \A l \in ChainLogs :
        /\ l.kind \in Kinds /\ l.key \in Nat /\ l.txn \in Nat /\ l.index \in Nat
        /\ l.block \in ScrapeFrom .. ChainHeight

(* What a final chain holds: a transaction is in one block, a message is   *)
(* dispatched and delivered once, a log has its own index in its           *)
(* transaction, and the Mailbox gives out the nonces in order.             *)
ASSUME ChainAssumption ==
    /\ \A l, m \in ChainLogs : l.txn = m.txn => l.block = m.block
    /\ \A l, m \in ChainLogs :
        /\ l.kind = m.kind /\ l.key = m.key
        /\ l.kind = "payment" => l.txn = m.txn /\ l.index = m.index
        => l = m
    /\ \A l \in ChainLogs : l.kind = "message" =>
        \A n \in 0 .. l.key - 1 :
            \E m \in ChainLogs : m.kind = "message" /\ m.key = n /\ m.block <= l.block

VARIABLES
    finalTip,                           \* the last final block
    blockRows, txnRows, logRows,        \* the tables of the database
    cursorRow,                          \* the greatest height in table cursor, or NoHeight
    height,                             \* BlockCursorInner.height, in memory
    indexer,                            \* the three tasks
    stops,
    omitted,                            \* history: the logs that were left out of an answer
    abandoned                           \* history: the nonces missing below others at a stop

leftOut == <<omitted, abandoned>>
scraperDb == <<blockRows, txnRows, logRows, cursorRow>>
scraperVars == <<finalTip, scraperDb, height, indexer, stops, leftOut>>

NoHeight == -1
Down == [pc |-> "down", start |-> 0, next |-> 0, sequence |-> 0,
         logs |-> {}, blocks |-> {}, txns |-> {}]

Greatest(S) == IF S = {} THEN 0 ELSE Max(S)
LogsIn(k, from, to) == {l \in ChainLogs : l.kind = k /\ from <= l.block /\ l.block <= to}
DispatchCount == Cardinality(LogsIn("message", 0, finalTip))

-----------------------------------------------------------------------------
(* The tables and their constraints                                        *)

BlockTable(rows) ==
    \A r, s \in rows : r.id = s.id \/ r.hash = s.hash \/ r.height = s.height => r = s

TransactionTable(rows) ==
    /\ \A r, s \in rows : r.id = s.id \/ r.hash = s.hash => r = s
    /\ \A r \in rows : \E b \in blockRows' : b.id = r.block_id

MessageTable(rows) ==
    \A r, s \in rows : r.kind = "message" /\ s.kind = "message" /\ r.nonce = s.nonce => r = s

DeliveredMessageTable(rows) ==
    \A r, s \in rows : r.kind = "delivery" /\ s.kind = "delivery" /\ r.msg_id = s.msg_id => r = s

GasPaymentTable(rows) ==
    \A r, s \in rows :
        /\ r.kind = "payment" /\ s.kind = "payment"
        /\ r.msg_id = s.msg_id /\ r.tx_id = s.tx_id /\ r.log_index = s.log_index
        => r = s

LogTables(rows) ==
    /\ MessageTable(rows) /\ DeliveredMessageTable(rows) /\ GasPaymentTable(rows)
    /\ \A r \in rows : \E t \in txnRows' : t.id = r.tx_id

(* the views that join them: what is reported of a message *)
TotalGasPayment(m) == Cardinality({r \in logRows : r.kind = "payment" /\ r.msg_id = m})

MessageView ==
    { [msg_id |-> r.nonce,
       is_delivered |-> \E d \in logRows : d.kind = "delivery" /\ d.msg_id = r.nonce,
       num_payments |-> TotalGasPayment(r.nonce),
       send_block |-> UNION {{b.height : b \in {b \in blockRows : b.id = t.block_id}}
                               : t \in {t \in txnRows : t.id = r.tx_id}}]
        : r \in {r \in logRows : r.kind = "message"} }

GetBlockBasic(hashes) == {r \in blockRows : r.hash \in hashes}
GetTxnIds(hashes) == {r \in txnRows : r.hash \in hashes}

LastMessageNonce == Greatest({r.nonce : r \in {r \in logRows : r.kind = "message"}})
RetrieveMessageByNonce(n) == {r \in logRows : r.kind = "message" /\ r.nonce = n}
(* the nonces that are missing below a stored one *)
Gaps == {n \in UNION {0 .. r.nonce : r \in {r \in logRows : r.kind = "message"}} :
            RetrieveMessageByNonce(n) = {}}
RetrieveBlockId(tx_ids) == {t.block_id : t \in {t \in txnRows : t.id \in tx_ids}}
RetrieveBlockNumber(ids) == {b.height : b \in {b \in blockRows : b.id \in ids}}

(* retrieve_log_block_number: the block of a stored message, as a set *)
LogBlockNumber(n) ==
    RetrieveBlockNumber(RetrieveBlockId({r.tx_id : r \in RetrieveMessageByNonce(n)}))

-----------------------------------------------------------------------------
Init_Scraper ==
    /\ finalTip = ScrapeFrom + ScrapeChunk
    /\ blockRows = {} /\ txnRows = {} /\ logRows = {} /\ cursorRow = NoHeight
    /\ height = 0
    /\ indexer = [k \in Kinds |-> Down]
    /\ stops = 0
    /\ omitted = {} /\ abandoned = {}

(* a block becomes final *)
Finalize ==
    /\ finalTip < ChainHeight
    /\ finalTip' = finalTip + 1
    /\ UNCHANGED <<scraperDb, height, indexer, stops, leftOut>>

AllDown == \A k \in Kinds : indexer[k].pc = "down"

(* BlockCursor::new *)
RestoredHeight == IF cursorRow = NoHeight THEN ScrapeFrom ELSE cursorRow

(* HyperlaneSqlDb::new makes the cursor the tasks share.  build_message_   *)
(* indexer starts one before the last stored nonce.                        *)
StartMessageIndexer ==
    /\ AllDown
    /\ height' = RestoredHeight
    /\ indexer' = [indexer EXCEPT !["message"] =
                    [Down EXCEPT !.pc = "next", !.start = ScrapeFrom, !.next = ScrapeFrom,
                                 !.sequence = Greatest({LastMessageNonce - 1, 0})]]
    /\ UNCHANGED <<finalTip, scraperDb, stops, leftOut>>

(* spawn_sync_task, one indexer after the other: the tasks already spawned *)
(* run while the next is built                                             *)
SpawnSyncTask(k) ==
    /\ indexer[k].pc = "down"
    /\ k = "delivery" => indexer["message"].pc # "down"
    /\ k = "payment" => indexer["delivery"].pc # "down"
    /\ indexer' = [indexer EXCEPT ![k] = [Down EXCEPT !.pc = "next", !.start = height,
                                                      !.next = height]]
    /\ UNCHANGED <<finalTip, scraperDb, height, stops, leftOut>>

-----------------------------------------------------------------------------
(* next_action and fetch_logs                                              *)

(* fetch_logs: eth_getLogs may drop logs                                   *)
Query(k, i, from, to) ==
    \E dropped \in SUBSET LogsIn(k, from, to) :
        LET logs == LogsIn(k, from, to) \ dropped IN
        /\ omitted' = omitted \cup dropped /\ Cardinality(omitted') <= MaxOmissions
        /\ indexer' = [indexer EXCEPT ![k] =
            IF from <= to
            THEN [i EXCEPT !.next = to + 1, !.logs = logs,
                           !.pc = IF logs = {} THEN "update" ELSE "blocks"]
            ELSE [i EXCEPT !.next = to + 1]]

ChunkEnd(from) == IF from + ScrapeChunk < finalTip THEN from + ScrapeChunk ELSE finalTip

(* the rate limited cursor goes on from where it is *)
NextBlockRange(k) ==
    /\ k # "message" /\ indexer[k].pc = "next"
    /\ Query(k, indexer[k], indexer[k].next, ChunkEnd(indexer[k].next))
    /\ UNCHANGED <<finalTip, scraperDb, height, stops, abandoned>>

(* the forward cursor skips the messages that are stored; it queries while *)
(* the mailbox holds more                                                  *)
NextMessageRange ==
    LET i == indexer["message"]
        first == CHOOSE n \in i.sequence .. DispatchCount :
                    /\ RetrieveMessageByNonce(n) = {}
                    /\ \A p \in i.sequence .. n - 1 : RetrieveMessageByNonce(p) # {}
        block == IF first > i.sequence THEN Max(LogBlockNumber(first - 1)) ELSE i.next
    IN  /\ i.pc = "next"
        /\ IF first < DispatchCount
           THEN Query("message", [i EXCEPT !.sequence = first], block, ChunkEnd(block))
           ELSE /\ indexer' = [indexer EXCEPT !["message"].sequence = first,
                                              !["message"].next = finalTip]
                /\ UNCHANGED omitted
        /\ UNCHANGED <<finalTip, scraperDb, height, stops, abandoned>>

-----------------------------------------------------------------------------
(* store_logs: blocks, then transactions, then the rows                    *)

BlocksOf(i) == {l.block : l \in i.logs}
TxnsOf(i) == {l.txn : l \in i.logs}

(* ids are never used twice *)
Fresh(rows, n) == Greatest({r.id : r \in rows}) + n

LookUpBlocks(k) ==
    /\ indexer[k].pc = "blocks"
    /\ indexer' = [indexer EXCEPT ![k].pc = "insert_blocks",
                                  ![k].blocks = GetBlockBasic(BlocksOf(indexer[k]))]
    /\ UNCHANGED <<finalTip, scraperDb, height, stops, leftOut>>

(* the rows store_blocks adds: on conflict of the hash, do nothing *)
NewBlocks(hashes) ==
    LET new == hashes \ {r.hash : r \in blockRows} IN
    { [id |-> Fresh(blockRows, Cardinality({g \in new : g <= h})), hash |-> h, height |-> h]
        : h \in new }

(* A faulty variant: a transaction is stored with the block looked up      *)
(* first, found or not.                                                    *)
EnsureBlocksNoReread(k) ==
    LET i == indexer[k]
        missing == BlocksOf(i) \ {r.hash : r \in i.blocks}
        rows == NewBlocks(missing)
    IN  /\ i.pc = "insert_blocks"
        /\ blockRows' = blockRows \cup rows
        /\ indexer' = [indexer EXCEPT ![k].pc = "txns",
                        ![k].blocks = i.blocks \cup
                            {[id |-> Fresh(blockRows, 0), hash |-> h, height |-> h] :
                                h \in missing}]
        /\ UNCHANGED <<finalTip, txnRows, logRows, cursorRow, height, stops, leftOut>>

(* what was not found is fetched, stored and looked up again, whoever      *)
(* stored it                                                               *)
EnsureBlocks(k) ==
    LET i == indexer[k]
        missing == BlocksOf(i) \ {r.hash : r \in i.blocks}
    IN  /\ i.pc = "insert_blocks"
        /\ blockRows' = blockRows \cup NewBlocks(missing)
        /\ BlockTable(blockRows')
        /\ indexer' = [indexer EXCEPT ![k].pc = "txns",
                        ![k].blocks = @ \cup {r \in blockRows' : r.hash \in missing}]
        /\ UNCHANGED <<finalTip, txnRows, logRows, cursorRow, height, stops, leftOut>>

LookUpTxns(k) ==
    /\ indexer[k].pc = "txns"
    /\ indexer' = [indexer EXCEPT ![k].pc = "insert_txns",
                                  ![k].txns = GetTxnIds(TxnsOf(indexer[k]))]
    /\ UNCHANGED <<finalTip, scraperDb, height, stops, leftOut>>

(* the rows store_txns adds, each with the block its log was found in *)
NewTxns(i, hashes) ==
    LET new == hashes \ {r.hash : r \in txnRows}
        block(h) == CHOOSE b \in i.blocks : \E l \in i.logs : l.txn = h /\ l.block = b.hash
    IN  { [id |-> Fresh(txnRows, Cardinality({g \in new : g <= h})), hash |-> h,
           block_id |-> block(h).id] : h \in new }

EnsureTxns(k) ==
    LET i == indexer[k]
        missing == TxnsOf(i) \ {r.hash : r \in i.txns}
    IN  /\ i.pc = "insert_txns"
        /\ txnRows' = txnRows \cup NewTxns(i, missing)
        /\ UNCHANGED blockRows
        /\ TransactionTable(txnRows')
        /\ indexer' = [indexer EXCEPT ![k].pc = "rows",
                        ![k].txns = @ \cup {r \in txnRows' : r.hash \in missing}]
        /\ UNCHANGED <<finalTip, logRows, cursorRow, height, stops, leftOut>>

TxnId(i, l) == (CHOOSE t \in i.txns : t.hash = l.txn).id

(* Each upsert replaces the row with the same key.                         *)
StoreDispatchedMessages(i) ==
    LET new == {[kind |-> "message", nonce |-> l.key, tx_id |-> TxnId(i, l)] : l \in i.logs} IN
    {r \in logRows : ~(r.kind = "message" /\ \E n \in new : n.nonce = r.nonce)} \cup new

StoreDeliveries(i) ==
    LET new == {[kind |-> "delivery", msg_id |-> l.key, tx_id |-> TxnId(i, l)] : l \in i.logs} IN
    {r \in logRows : ~(r.kind = "delivery" /\ \E n \in new : n.msg_id = r.msg_id)} \cup new

StorePayments(i) ==
    logRows \cup {[kind |-> "payment", msg_id |-> l.key, tx_id |-> TxnId(i, l),
                   log_index |-> l.index] : l \in i.logs}

StoreLogs(k) ==
    LET i == indexer[k] IN
    /\ i.pc = "rows"
    /\ logRows' = CASE k = "message" -> StoreDispatchedMessages(i)
                    [] k = "delivery" -> StoreDeliveries(i)
                    [] k = "payment" -> StorePayments(i)
    /\ UNCHANGED <<blockRows, txnRows>>
    /\ LogTables(logRows')
    /\ indexer' = [indexer EXCEPT ![k].pc = "update"]
    /\ UNCHANGED <<finalTip, cursorRow, height, stops, leftOut>>

-----------------------------------------------------------------------------
(* cursor.update                                                           *)

Watermark(i) == Greatest({i.start, i.next - ScrapeChunk})

(* BlockCursor::update: the database is written only if the height is      *)
(* new and the last write was long ago enough, and the write may fail      *)
UpdateWatermark(k) ==
    LET i == indexer[k] IN
    /\ k # "message" /\ i.pc = "update"
    /\ height' = Greatest({height, Watermark(i)})
    /\ \/ UNCHANGED cursorRow
       \/ Watermark(i) > height /\ cursorRow' = Greatest({cursorRow, Watermark(i)})
    /\ indexer' = [indexer EXCEPT ![k] = [Down EXCEPT !.pc = "next", !.start = i.start,
                                                      !.next = i.next]]
    /\ UNCHANGED <<finalTip, blockRows, txnRows, logRows, stops, leftOut>>

(* the forward cursor rewinds when it found later messages only *)
UpdateMessages ==
    LET i == indexer["message"]
        later == {l \in i.logs : l.key >= i.sequence}
        missed == later # {} /\ \A l \in later : l.key # i.sequence
        rewound == LogBlockNumber(Greatest({i.sequence - 1, 0}))
    IN  /\ i.pc = "update"
        /\ indexer' = [indexer EXCEPT !["message"] =
                        [Down EXCEPT !.pc = "next", !.start = i.start, !.sequence = i.sequence,
                                     !.next = IF ~missed THEN i.next
                                              ELSE IF rewound = {} THEN i.start
                                              ELSE Max(rewound)]]
        /\ UNCHANGED <<finalTip, scraperDb, height, stops, leftOut>>

(* An error of the provider or of the database ends its sync(), run_all    *)
(* ends the agent, and it is started again; so does a kill.                *)
StopScraper ==
    /\ stops < MaxScraperStops /\ ~AllDown
    /\ stops' = stops + 1
    /\ indexer' = [k \in Kinds |-> Down]
    /\ height' = 0
    /\ abandoned' = abandoned \cup Gaps
    /\ UNCHANGED <<finalTip, scraperDb, omitted>>

-----------------------------------------------------------------------------
Step(k) ==
    \/ NextBlockRange(k) \/ UpdateWatermark(k)
    \/ LookUpBlocks(k) \/ EnsureBlocks(k) \/ LookUpTxns(k) \/ EnsureTxns(k) \/ StoreLogs(k)

MessageStep ==
    StartMessageIndexer \/ NextMessageRange \/ UpdateMessages \/ Step("message")

Next_Scraper ==
    \/ Finalize
    \/ MessageStep
    \/ \E k \in Kinds \ {"message"} : SpawnSyncTask(k) \/ Step(k)
    \/ StopScraper

ScraperSpec == Init_Scraper /\ [][Next_Scraper]_scraperVars

-----------------------------------------------------------------------------
(* Properties                                                              *)

(* the log of the chain that a row stands for *)
IsRowOf(r, l) ==
    /\ r.kind = l.kind
    /\ r.kind = "message" => r.nonce = l.key
    /\ r.kind # "message" => r.msg_id = l.key
    /\ \E t \in txnRows, b \in blockRows :
        /\ r.tx_id = t.id /\ t.hash = l.txn
        /\ t.block_id = b.id /\ b.hash = l.block
    /\ r.kind = "payment" => r.log_index = l.index

Stored(l) == \E r \in logRows : IsRowOf(r, l)

(* Every row stands for exactly one log of the chain and leads to its      *)
(* transaction and block, though three tasks look ids up and insert them   *)
(* concurrently and any of them may stop half way; no log has two rows.    *)
RowsJoined ==
    /\ \A r \in logRows : \E l \in ChainLogs : IsRowOf(r, l) /\ l.block <= finalTip
    /\ \A l \in ChainLogs : Cardinality({r \in logRows : IsRowOf(r, l)}) <= 1

(* The explorer's view: a message is reported delivered, or paid for, only *)
(* if it was, and as often as it was.                                      *)
ViewSound ==
    \A v \in MessageView :
        LET is(k) == {l \in ChainLogs : l.kind = k /\ l.key = v.msg_id} IN
        /\ v.is_delivered => is("delivery") # {}
        /\ v.num_payments <= Cardinality(is("payment"))
        /\ v.send_block = {l.block : l \in is("message")}

(* A message is missing below a stored one only if an answer left it out,  *)
(* and then the running indexer goes back for it, unless the agent stopped *)
(* first: the next start relies on the greatest nonce alone, and may never *)
(* look for it again.                                                      *)
NonceOmitted(n) == \E l \in omitted : l.kind = "message" /\ l.key = n
LookedFor(n) == indexer["message"].pc # "down" /\ indexer["message"].sequence <= n
MessagesContiguous ==
    \A n \in Gaps : NonceOmitted(n) /\ (n \in abandoned \/ LookedFor(n))

(* What a task was answered is stored: no log lies between its start and   *)
(* the block it will read next, even where the other task's inserts        *)
(* interfere, but those that an answer left out.                           *)
StoredOrOmitted(l) == Stored(l) \/ l \in omitted
ReadIsStored ==
    \A k \in {"delivery", "payment"} : indexer[k].pc = "next" =>
        \A l \in LogsIn(k, indexer[k].start, indexer[k].next - 1) : StoredOrOmitted(l)

(* The two tasks move one watermark.  What that is worth at a restart:     *)
(* every block behind it was read by one of them, not by both, and what it *)
(* was answered is stored.                                                 *)
WatermarkRead ==
    \A b \in ScrapeFrom .. cursorRow - 1 :
        \E k \in {"delivery", "payment"} : \A l \in LogsIn(k, b, b) : StoredOrOmitted(l)

(* Rows are right, agree with the chain in the views, and hold what was    *)
(* answered up to each task's position: store_logs with                    *)
(* ensure_blocks_and_txns, and the cursors.                                *)
ScraperSound ==
    RowsJoined /\ ViewSound /\ MessagesContiguous /\ ReadIsStored /\ WatermarkRead

=============================================================================
