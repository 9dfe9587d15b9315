--------------------------- MODULE GasPaymentSync ---------------------------
(***************************************************************************)
(* ContractSync::sync with a RateLimitedContractSyncCursor, as it adds up  *)
(* the interchain gas payments of one message in HyperlaneRocksDB.  The    *)
(* cursor restarts from the high watermark it stores, so payments are      *)
(* fetched more than once and process_gas_payment must count each once.    *)
(*                                                                         *)
(* The stored total is the sum of the payments added to it; here it is the *)
(* number of times each payment was added.  Indexing is by block: the      *)
(* indexers of gas payments report no sequence.  The rate limit only       *)
(* delays the next query and is left out.                                  *)
(***************************************************************************)
EXTENDS Integers, Sequences

CONSTANTS
    FromBlock,      \* index.from of the settings: where a first run starts
    ChunkSize,      \* blocks per query
    MaxTip,         \* bound on the height of the chain
    MaxPayments,    \* bound on the payments on the chain
    MaxCrashes,     \* bound on the restarts of the agent
    MaxStale        \* bound on the tips reported by a node that is behind

ASSUME GasPaymentSyncAssumption ==
    /\ FromBlock \in Nat /\ ChunkSize \in Nat /\ MaxTip \in Nat
    /\ MaxPayments \in Nat /\ MaxCrashes \in Nat /\ MaxStale \in Nat

VARIABLES
    tip, payments,      \* the origin chain: payments[i] is the block of payment i
    processed,          \* processed_by_gas_payment_meta
    counted,            \* how often each payment was added to the stored total
    watermark,          \* the stored high watermark, or NoWatermark
    pc,                 \* where the sync task is
    start_block, next_block,
    range,              \* the range being queried
    todo,               \* payments fetched and still to be processed
    adding,             \* payment marked as processed and not yet added, or NoPayment
    crashes, stale

chain == <<tip, payments>>
db == <<processed, counted, watermark>>
task == <<pc, start_block, next_block, range, todo, adding>>
vars == <<chain, db, task, crashes, stale>>

PaymentId == 1 .. MaxPayments
NoPayment == 0
NoWatermark == -1

Larger(a, b) == IF a < b THEN b ELSE a
Smaller(a, b) == IF a < b THEN a ELSE b
SaturatingSub(a, b) == Larger(a - b, 0)

-----------------------------------------------------------------------------
Init ==
    /\ tip = 0 /\ payments = <<>>
    /\ processed = {} /\ counted = [i \in PaymentId |-> 0]
    /\ watermark = NoWatermark
    /\ pc = "down" /\ start_block = 0 /\ next_block = 0
    /\ range = <<0, 0>> /\ todo = {} /\ adding = NoPayment
    /\ crashes = 0 /\ stale = 0

(* A block with n payments for the message becomes final *)
Mine(n) ==
    /\ tip < MaxTip /\ Len(payments) + n <= MaxPayments
    /\ tip' = tip + 1
    /\ payments' = payments \o [i \in 1 .. n |-> tip + 1]
    /\ UNCHANGED <<db, task, crashes, stale>>

(* rate_limited_cursor: from the watermark, or else from the settings *)
Start ==
    /\ pc = "down"
    /\ start_block' = IF watermark = NoWatermark THEN FromBlock ELSE watermark
    /\ next_block' = start_block'
    /\ pc' = "next"
    /\ UNCHANGED <<chain, db, range, todo, adding, crashes, stale>>

(* next_action with the tip t: block_range moves the cursor first, also    *)
(* backwards when the tip is behind it.  An empty range is not queried.    *)
NextAction(t) ==
    LET to == Smaller(next_block + ChunkSize, t) IN
    /\ pc = "next"
    /\ \/ t = tip /\ UNCHANGED stale
       \/ t = tip - 1 /\ stale < MaxStale /\ stale' = stale + 1
    /\ range' = <<next_block, to>>
    /\ next_block' = to + 1
    /\ pc' = IF next_block <= to THEN "fetch" ELSE "next"
    /\ UNCHANGED <<chain, db, start_block, todo, adding, crashes>>

Fetch ==
    /\ pc = "fetch"
    /\ todo' = {i \in DOMAIN payments : range[1] <= payments[i] /\ payments[i] <= range[2]}
    /\ pc' = "store"
    /\ UNCHANGED <<chain, db, start_block, next_block, range, adding, crashes, stale>>

-----------------------------------------------------------------------------
(* process_gas_payment, two writes, for each payment fetched in any order  *)

(* a bug to detect: payments are not looked up before they are counted *)
MarkUnchecked(i) ==
    /\ pc = "store" /\ adding = NoPayment /\ i \in todo
    /\ processed' = processed \cup {i} /\ adding' = i
    /\ todo' = todo \ {i}
    /\ UNCHANGED <<chain, counted, watermark, pc, start_block, next_block, range,
                   crashes, stale>>

Mark(i) ==
    /\ pc = "store" /\ adding = NoPayment /\ i \in todo
    /\ IF i \in processed
       THEN UNCHANGED <<processed, adding>>
       ELSE processed' = processed \cup {i} /\ adding' = i
    /\ todo' = todo \ {i}
    /\ UNCHANGED <<chain, counted, watermark, pc, start_block, next_block, range,
                   crashes, stale>>

Add ==
    /\ pc = "store" /\ adding # NoPayment
    /\ counted' = [counted EXCEPT ![adding] = @ + 1]
    /\ adding' = NoPayment
    /\ UNCHANGED <<chain, processed, watermark, pc, start_block, next_block, range,
                   todo, crashes, stale>>

(* a bug to detect: the watermark is stored before the payments are *)
UpdateEarly ==
    /\ pc = "store"
    /\ watermark' = Larger(start_block, next_block)
    /\ pc' = "next"
    /\ UNCHANGED <<chain, processed, counted, start_block, next_block, range,
                   todo, adding, crashes, stale>>

(* cursor.update: a chunk behind the next block, never before the start *)
Update ==
    /\ pc = "store" /\ todo = {} /\ adding = NoPayment
    /\ watermark' = Larger(start_block, SaturatingSub(next_block, ChunkSize))
    /\ pc' = "next"
    /\ UNCHANGED <<chain, processed, counted, start_block, next_block, range,
                   todo, adding, crashes, stale>>

(* The agent stops at any point: killed, or sync() returned an error *)
Crash ==
    /\ pc # "down" /\ crashes < MaxCrashes
    /\ crashes' = crashes + 1
    /\ pc' = "down" /\ todo' = {} /\ adding' = NoPayment
    /\ UNCHANGED <<chain, db, start_block, next_block, range, stale>>

-----------------------------------------------------------------------------
Sync ==
    \/ Start
    \/ \E t \in 0 .. MaxTip : NextAction(t)
    \/ Fetch
    \/ \E i \in PaymentId : Mark(i)
    \/ Add
    \/ Update

Next == Sync \/ (\E n \in 0 .. MaxPayments : Mine(n)) \/ Crash

Spec == Init /\ [][Next]_vars

(* the sync task is scheduled and its calls return *)
FairSpec == Spec /\ WF_vars(Sync)

-----------------------------------------------------------------------------
(* Properties                                                              *)

(* The type invariant. *)
TypeOK ==
    /\ tip \in 0 .. MaxTip
    /\ payments \in Seq(1 .. MaxTip) /\ Len(payments) <= MaxPayments
    /\ processed \subseteq DOMAIN payments
    /\ counted \in [PaymentId -> Nat]
    /\ watermark \in Nat \cup {NoWatermark}
    /\ pc \in {"down", "next", "fetch", "store"}
    /\ start_block \in Nat /\ next_block \in Nat
    /\ range \in Nat \X Int
    /\ todo \subseteq DOMAIN payments
    /\ adding \in processed \cup {NoPayment}
    /\ crashes \in 0 .. MaxCrashes /\ stale \in 0 .. MaxStale

(* No payment is counted twice, however often the watermark or a stale tip *)
(* makes the cursor fetch it again: the relayer never believes a message   *)
(* was paid more than it was.                                              *)
CountedAtMostOnce ==
    \A i \in PaymentId :
        /\ counted[i] <= 1
        /\ counted[i] = 1 => i \in processed /\ adding # i

(* The stored watermark never passes a payment that is not recorded: a     *)
(* restart cannot miss one, as "the high watermark cursor is relatively    *)
(* conservative in writing block numbers".                                 *)
WatermarkConservative ==
    \A i \in DOMAIN payments :
        FromBlock <= payments[i] /\ payments[i] < watermark => i \in processed

(* Fetching the same blocks again and again neither counts a payment twice *)
(* nor passes one over (rate limited cursor, process_gas_payment).         *)
PaymentsExact == CountedAtMostOnce /\ WatermarkConservative

(* "If the provided gas payment ... has not been processed, processes the  *)
(* gas payment and records it as processed": a payment recorded as         *)
(* processed is in the total, or is about to be added to it.               *)
ProcessedIsCounted ==
    \A i \in processed : counted[i] = 1 \/ adding = i

(* Every payment from the configured block on is eventually recorded, and  *)
(* without crashes also counted.                                           *)
EventuallyProcessed ==
    \A i \in PaymentId :
        (i \in DOMAIN payments /\ FromBlock <= payments[i])
            ~> (i \in processed /\ (crashes = 0 => counted[i] = 1))

=============================================================================
