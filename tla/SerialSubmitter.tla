-------------------------- MODULE SerialSubmitter --------------------------
(***************************************************************************)
(* The delivery pipeline of the relayer for one destination chain:         *)
(*                                                                         *)
(*   MessageProcessor (one per origin)  -- unbounded channel -->           *)
(*   receive_task -- prepare_queue --> prepare_task -- channel(1) -->      *)
(*   submit_task -- confirm_queue --> confirm_task                         *)
(*                                                                         *)
(* with the PendingMessage state each task changes, the part of            *)
(* HyperlaneRocksDB the pipeline reads and writes, and the destination     *)
(* chain it delivers to, which may reorganise.  The agents "relayer" and   *)
(* "apiserver" contain the same code.                                      *)
(*                                                                         *)
(* Time.  An operation's next_attempt_after is "none", "waiting" (a time   *)
(* in the future) or "due" (a time that has passed).  The retry counter is *)
(* abstracted to whether it is positive: that is all the control reads of  *)
(* it, since the backoff of a positive count is always a time.             *)
(***************************************************************************)
EXTENDS Integers, Sequences, FiniteSets, Functions

CONSTANTS
    Origins,        \* the origin chains
    NumMessages,    \* messages dispatched on each origin: nonces 0 .. NumMessages - 1
    Filtered,       \* messages the processor skips: lists, own or unknown destination
    NotContract,    \* messages whose recipient is not a contract
    LateInclusion,  \* may a message land on chain while its operation awaits confirmation?
    MaxFaults,      \* bound on errors, reorgs, critical failures and restarts together
    NoOp            \* what an idle task holds

Message == Origins \X (0 .. NumMessages - 1)
Origin(m) == m[1]
Nonce(m) == m[2]

ASSUME ConstantsAssumption ==
    /\ NumMessages \in Nat
    /\ MaxFaults \in Nat
    /\ LateInclusion \in BOOLEAN
    /\ Filtered \subseteq Message
    /\ NotContract \subseteq Message
    /\ NoOp \notin Message

Tasks == {"prepare", "submit", "confirm"}

VARIABLES
    (* HyperlaneRocksDB of the origins: survives a restart *)
    indexed,        \* messages stored by the contract sync
    processed,      \* messages with processed_by_nonce set
    retries,        \* is the persisted retry count of a message positive?
    (* the processors and the four tasks: lost on a restart *)
    message_nonce,  \* next nonce each MessageProcessor looks at
    rx,             \* the unbounded channel from the processors to receive_task
    prepare_queue,
    preparing,      \* [op, pc] of prepare_task
    rx_submit,      \* the channel of capacity 1 from prepare_task to submit_task
    submitting,     \* [op, pc] of submit_task
    confirm_queue,
    confirming,     \* the operation held by confirm_task
    op,             \* the fields of the PendingMessage of each message
    dropped,        \* messages forgotten because prepare said Drop
    ended,          \* tasks that returned an error
    (* the destination chain, and the environment's budget of faults *)
    inclusion,      \* state of the message's process() on chain
    faults

db == <<indexed, processed, retries>>
pipeline == <<message_nonce, rx, prepare_queue, preparing, rx_submit,
              submitting, confirm_queue, confirming, op, dropped, ended>>
chain == <<inclusion>>
vars == <<db, pipeline, chain, faults>>

-----------------------------------------------------------------------------
(* PendingMessage                                                          *)

NextAttempt == {"none", "waiting", "due"}
PendingMessage == [submitted : BOOLEAN, data : BOOLEAN, next : NextAttempt]

(* PendingMessage::new; from_persisted_retries overrides next *)
NewPendingMessage(next) == [submitted |-> FALSE, data |-> FALSE, next |-> next]

(* calculate_msg_backoff applied to the retry count, as a wait *)
Backoff(positive) == IF positive THEN "waiting" ELSE "none"

FromPersistedRetries(m) == NewPendingMessage(Backoff(retries[m]))

IsReady(m) == op[m].next # "waiting"

(* set_retries: a failed write of the count is only logged *)
SetRetries(m, positive) == retries' \in {retries, [retries EXCEPT ![m] = positive]}

(* inc_attempts, then submitted = false *)
Reprepared(m) == [submitted |-> FALSE, data |-> op[m].data, next |-> Backoff(TRUE)]

OnReprepare(m) ==
    /\ op' = [op EXCEPT ![m] = Reprepared(m)]
    /\ SetRetries(m, TRUE)

(* a bug to detect: confirmation does not wait for CONFIRM_DELAY *)
MarkSubmittedNoDelay(m) ==
    op' = [op EXCEPT ![m] = [submitted |-> TRUE, data |-> FALSE, next |-> "due"]]

(* submitted = true and the CONFIRM_DELAY wait *)
MarkSubmitted(m) ==
    op' = [op EXCEPT ![m] = [submitted |-> TRUE, data |-> FALSE, next |-> "waiting"]]

-----------------------------------------------------------------------------
(* The order of the queues (Ord for DynPendingOperation).                  *)
(* Untried operations come first, then by time.  Untried operations of one *)
(* origin are ordered by nonce.  With several origins the comparison is    *)
(* not transitive and the heap gives no order among untried operations     *)
(* (module OpQueue), so any of them may be popped first.                   *)

Rank(m) == CASE op[m].next = "none" -> 0 [] op[m].next = "due" -> 1
             [] op[m].next = "waiting" -> 2

SingleOrigin == \A a, b \in Origins : a = b

(* a bug to detect: the tie of untried operations is not broken by nonce *)
CanPopNoTieBreak(queue, m) ==
    /\ m \in queue
    /\ \A k \in queue : Rank(m) <= Rank(k)

CanPop(queue, m) ==
    /\ m \in queue
    /\ \A k \in queue :
        /\ Rank(m) <= Rank(k)
        /\ SingleOrigin /\ Rank(m) = 0 /\ Rank(k) = 0 => Nonce(m) <= Nonce(k)

-----------------------------------------------------------------------------
(* The destination chain.                                                  *)
(*   "none"    not delivered                                               *)
(*   "recent"  delivered, not final; landed before the operation's current *)
(*             CONFIRM_DELAY wait began, or no such wait is in progress    *)
(*   "late"    delivered, not final; landed during that wait               *)
(*   "final"   delivered and beyond the reach of any reorg                 *)

Inclusion == {"none", "recent", "late", "final"}

Delivered(m) == inclusion[m] # "none"

(* CONFIRM_DELAY starts running over whatever inclusion there is now *)
StartWait(m) ==
    inclusion' = [inclusion EXCEPT ![m] = IF @ = "late" THEN "recent" ELSE @]

Fault == faults < MaxFaults /\ faults' = faults + 1

-----------------------------------------------------------------------------
Idle == [op |-> NoOp, pc |-> "idle"]

Init ==
    /\ indexed = {} /\ processed = {}
    /\ retries = [m \in Message |-> FALSE]
    /\ message_nonce = [o \in Origins |-> 0]
    /\ rx = <<>> /\ prepare_queue = {} /\ preparing = Idle
    /\ rx_submit = <<>> /\ submitting = Idle
    /\ confirm_queue = {} /\ confirming = NoOp
    /\ op = [m \in Message |-> NewPendingMessage("none")]
    /\ dropped = {} /\ ended = {}
    /\ inclusion = [m \in Message |-> "none"]
    /\ faults = 0

(* The contract sync stores a message; the order is not the nonces' order *)
StoreMessage(m) ==
    /\ m \notin indexed
    /\ indexed' = indexed \cup {m}
    /\ UNCHANGED <<processed, retries, pipeline, chain, faults>>

-----------------------------------------------------------------------------
(* MessageProcessor::tick                                                  *)

Current(o) == <<o, message_nonce[o]>>

(* the loop of try_get_unprocessed_message, and the four filters of tick *)
ProcessorSkip(o) ==
    /\ Current(o) \in indexed
    /\ Current(o) \in processed \/ Current(o) \in Filtered
    /\ message_nonce' = [message_nonce EXCEPT ![o] = @ + 1]
    /\ UNCHANGED <<db, rx, prepare_queue, preparing, rx_submit, submitting,
                   confirm_queue, confirming, op, dropped, ended, chain, faults>>

(* a bug to detect: message_nonce is not advanced past a message sent *)
ProcessorSendAgain(o) ==
    LET m == Current(o) IN
    /\ m \in indexed /\ m \notin processed /\ m \notin Filtered
    /\ op' = [op EXCEPT ![m] = FromPersistedRetries(m)]
    /\ rx' = Append(rx, m)
    /\ UNCHANGED <<db, message_nonce, prepare_queue, preparing, rx_submit,
                   submitting, confirm_queue, confirming, dropped, ended, chain, faults>>

(* a bug to detect: processed_by_nonce is not consulted *)
ProcessorSendUnchecked(o) ==
    LET m == Current(o) IN
    /\ m \in indexed /\ m \notin Filtered
    /\ op' = [op EXCEPT ![m] = FromPersistedRetries(m)]
    /\ rx' = Append(rx, m)
    /\ message_nonce' = [message_nonce EXCEPT ![o] = @ + 1]
    /\ UNCHANGED <<db, prepare_queue, preparing, rx_submit, submitting,
                   confirm_queue, confirming, dropped, ended, chain, faults>>

ProcessorSend(o) ==
    LET m == Current(o) IN
    /\ m \in indexed /\ m \notin processed /\ m \notin Filtered
    /\ op' = [op EXCEPT ![m] = FromPersistedRetries(m)]
    /\ rx' = Append(rx, m)
    /\ message_nonce' = [message_nonce EXCEPT ![o] = @ + 1]
    /\ UNCHANGED <<db, prepare_queue, preparing, rx_submit, submitting,
                   confirm_queue, confirming, dropped, ended, chain, faults>>

-----------------------------------------------------------------------------
(* receive_task                                                            *)

Receive ==
    /\ rx # <<>>
    /\ prepare_queue' = prepare_queue \cup {Head(rx)}
    /\ rx' = Tail(rx)
    /\ UNCHANGED <<db, message_nonce, preparing, rx_submit, submitting,
                   confirm_queue, confirming, op, dropped, ended, chain, faults>>

-----------------------------------------------------------------------------
(* prepare_task and PendingMessage::prepare                                *)

(* An operation that is not ready goes straight back, which changes        *)
(* nothing, so only the pop of a ready one is a step.                      *)
PreparePop(m) ==
    /\ preparing = Idle /\ "prepare" \notin ended
    /\ CanPop(prepare_queue, m) /\ IsReady(m)
    /\ prepare_queue' = prepare_queue \ {m}
    /\ preparing' = [op |-> m, pc |-> "delivered"]
    /\ UNCHANGED <<db, message_nonce, rx, rx_submit, submitting,
                   confirm_queue, confirming, op, dropped, ended, chain, faults>>

(* Mailbox.delivered(): skip to confirmation when somebody delivered it *)
PrepareDelivered(m) ==
    /\ preparing = [op |-> m, pc |-> "delivered"]
    /\ IF Delivered(m)
       THEN /\ MarkSubmitted(m) /\ StartWait(m)
            /\ preparing' = [op |-> m, pc |-> "send"]
       ELSE /\ preparing' = [op |-> m, pc |-> "build"]
            /\ UNCHANGED <<op, inclusion>>
    /\ UNCHANGED <<db, message_nonce, rx, prepare_queue, rx_submit, submitting,
                   confirm_queue, confirming, dropped, ended, faults>>

(* recipient check, ISM, metadata, cost estimate and gas requirement *)
PrepareBuild(m) ==
    /\ preparing = [op |-> m, pc |-> "build"]
    /\ m \notin NotContract
    /\ op' = [op EXCEPT ![m].data = TRUE]
    /\ preparing' = [op |-> m, pc |-> "send"]
    /\ UNCHANGED <<db, message_nonce, rx, prepare_queue, rx_submit, submitting,
                   confirm_queue, confirming, dropped, ended, chain, faults>>

PrepareDrop(m) ==
    /\ preparing = [op |-> m, pc |-> "build"]
    /\ m \in NotContract
    /\ preparing' = Idle
    /\ dropped' = dropped \cup {m}
    /\ UNCHANGED <<db, message_nonce, rx, prepare_queue, rx_submit, submitting,
                   confirm_queue, confirming, op, ended, chain, faults>>

(* a bug to detect: an operation that must be prepared again is not kept *)
PrepareRetryForgets(m) ==
    /\ preparing.op = m /\ preparing.pc \in {"delivered", "build"}
    /\ Fault
    /\ OnReprepare(m)
    /\ preparing' = Idle
    /\ UNCHANGED <<indexed, processed, message_nonce, rx, prepare_queue, rx_submit,
                   submitting, confirm_queue, confirming, dropped, ended, chain>>

(* any error of the calls, no metadata yet, unpaid gas or too much gas *)
PrepareRetry(m) ==
    /\ preparing.op = m /\ preparing.pc \in {"delivered", "build"}
    /\ Fault
    /\ OnReprepare(m)
    /\ prepare_queue' = prepare_queue \cup {m}
    /\ preparing' = Idle
    /\ UNCHANGED <<indexed, processed, message_nonce, rx, rx_submit, submitting,
                   confirm_queue, confirming, dropped, ended, chain>>

(* tx_submit.send: waits for room, fails once submit_task is gone *)
PrepareSend(m) ==
    /\ preparing = [op |-> m, pc |-> "send"]
    /\ IF "submit" \in ended
       THEN /\ ended' = ended \cup {"prepare"}
            /\ UNCHANGED rx_submit
       ELSE /\ Len(rx_submit) < 1
            /\ rx_submit' = Append(rx_submit, m)
            /\ UNCHANGED ended
    /\ preparing' = Idle
    /\ UNCHANGED <<db, message_nonce, rx, prepare_queue, submitting,
                   confirm_queue, confirming, op, dropped, chain, faults>>

-----------------------------------------------------------------------------
(* submit_task and PendingMessage::submit                                  *)

SubmitRecv ==
    /\ submitting = Idle /\ "submit" \notin ended
    /\ rx_submit # <<>>
    /\ submitting' = [op |-> Head(rx_submit), pc |-> "submit"]
    /\ rx_submit' = Tail(rx_submit)
    /\ UNCHANGED <<db, message_nonce, rx, prepare_queue, preparing,
                   confirm_queue, confirming, op, dropped, ended, chain, faults>>

SubmitAlready(m) ==
    /\ submitting = [op |-> m, pc |-> "submit"]
    /\ op[m].submitted
    /\ confirm_queue' = confirm_queue \cup {m}
    /\ submitting' = Idle
    /\ UNCHANGED <<db, message_nonce, rx, prepare_queue, preparing, rx_submit,
                   confirming, op, dropped, ended, chain, faults>>

(* a bug to detect: the submission data is copied, not taken *)
SubmitBroadcastKeepsData(m) ==
    /\ submitting = [op |-> m, pc |-> "submit"]
    /\ ~op[m].submitted
    /\ submitting' = [op |-> m, pc |-> "receipt"]
    /\ UNCHANGED <<db, message_nonce, rx, prepare_queue, preparing, rx_submit,
                   confirm_queue, confirming, op, dropped, ended, chain, faults>>

(* submission_data.take() and the broadcast *)
SubmitBroadcast(m) ==
    /\ submitting = [op |-> m, pc |-> "submit"]
    /\ ~op[m].submitted
    /\ op' = [op EXCEPT ![m].data = FALSE]
    /\ submitting' = [op |-> m, pc |-> "receipt"]
    /\ UNCHANGED <<db, message_nonce, rx, prepare_queue, preparing, rx_submit,
                   confirm_queue, confirming, dropped, ended, chain, faults>>

(* the receipt: the transaction is in a block and processed the message *)
SubmitExecuted(m) ==
    /\ submitting = [op |-> m, pc |-> "receipt"]
    /\ ~Delivered(m)
    /\ inclusion' = [inclusion EXCEPT ![m] = "recent"]
    /\ MarkSubmitted(m)
    /\ SetRetries(m, FALSE)
    /\ confirm_queue' = confirm_queue \cup {m}
    /\ submitting' = Idle
    /\ UNCHANGED <<indexed, processed, message_nonce, rx, prepare_queue,
                   preparing, rx_submit, confirming, dropped, ended, faults>>

(* process() failed, or the transaction reverted (always, when the message *)
(* was delivered meanwhile).  A transaction that timed out may still land  *)
(* later: see Land.                                                        *)
SubmitRetry(m) ==
    /\ submitting = [op |-> m, pc |-> "receipt"]
    /\ IF Delivered(m) THEN UNCHANGED faults ELSE Fault
    /\ OnReprepare(m)
    /\ prepare_queue' = prepare_queue \cup {m}
    /\ submitting' = Idle
    /\ UNCHANGED <<indexed, processed, message_nonce, rx, preparing, rx_submit,
                   confirm_queue, confirming, dropped, ended, chain>>

(* record_tx_outcome failed: submit_task returns, and its channel with it *)
SubmitCritical(m) ==
    /\ submitting = [op |-> m, pc |-> "receipt"]
    /\ Fault
    /\ \/ ~Delivered(m) /\ inclusion' = [inclusion EXCEPT ![m] = "recent"]
       \/ UNCHANGED inclusion
    /\ ended' = ended \cup {"submit"}
    /\ submitting' = Idle
    /\ rx_submit' = <<>>
    /\ UNCHANGED <<db, message_nonce, rx, prepare_queue, preparing,
                   confirm_queue, confirming, op, dropped>>

-----------------------------------------------------------------------------
(* confirm_task and PendingMessage::confirm                                *)

ConfirmPop(m) ==
    /\ confirming = NoOp /\ "confirm" \notin ended
    /\ CanPop(confirm_queue, m) /\ IsReady(m)
    /\ confirm_queue' = confirm_queue \ {m}
    /\ confirming' = m
    /\ UNCHANGED <<db, message_nonce, rx, prepare_queue, preparing, rx_submit,
                   submitting, op, dropped, ended, chain, faults>>

(* record_message_process_success: the commit point *)
ConfirmDelivered(m) ==
    /\ confirming = m
    /\ Delivered(m)
    /\ processed' = processed \cup {m}
    /\ confirming' = NoOp
    /\ UNCHANGED <<indexed, retries, message_nonce, rx, prepare_queue, preparing,
                   rx_submit, submitting, confirm_queue, op, dropped, ended,
                   chain, faults>>

(* reorged out: reset_attempts, then start again *)
ConfirmUndelivered(m) ==
    /\ confirming = m
    /\ ~Delivered(m)
    /\ op' = [op EXCEPT ![m] = Reprepared(m)]
    /\ \E positive \in BOOLEAN : retries' = [retries EXCEPT ![m] = positive]
    /\ prepare_queue' = prepare_queue \cup {m}
    /\ confirming' = NoOp
    /\ UNCHANGED <<indexed, processed, message_nonce, rx, preparing, rx_submit,
                   submitting, confirm_queue, dropped, ended, chain, faults>>

(* provider error: inc_attempts and back into the confirm queue *)
ConfirmError(m) ==
    /\ confirming = m
    /\ Fault
    /\ op' = [op EXCEPT ![m].next = Backoff(TRUE)]
    /\ SetRetries(m, TRUE)
    /\ confirm_queue' = confirm_queue \cup {m}
    /\ confirming' = NoOp
    /\ UNCHANGED <<indexed, processed, message_nonce, rx, prepare_queue,
                   preparing, rx_submit, submitting, dropped, ended, chain>>

(* store_processed_by_nonce failed: confirm_task returns *)
ConfirmCritical(m) ==
    /\ confirming = m
    /\ Delivered(m)
    /\ Fault
    /\ ended' = ended \cup {"confirm"}
    /\ confirming' = NoOp
    /\ UNCHANGED <<db, message_nonce, rx, prepare_queue, preparing, rx_submit,
                   submitting, confirm_queue, op, dropped, chain>>

-----------------------------------------------------------------------------
(* The environment                                                         *)

(* A wait elapses.  CONFIRM_DELAY is longer than finality takes, so an     *)
(* inclusion it started over cannot still be reorganisable at its end.     *)
Elapse(m) ==
    /\ op[m].next = "waiting"
    /\ ~(op[m].submitted /\ inclusion[m] = "recent")
    /\ op' = [op EXCEPT ![m].next = "due"]
    /\ UNCHANGED <<db, message_nonce, rx, prepare_queue, preparing, rx_submit,
                   submitting, confirm_queue, confirming, dropped, ended,
                   chain, faults>>

(* The message is processed on chain by a transaction submit_task is not   *)
(* waiting for: another relayer's, one of ours that timed out, or one that *)
(* a reorg had removed.                                                    *)
Land(m) ==
    /\ m \in indexed /\ ~Delivered(m)
    /\ op[m].submitted => LateInclusion
    /\ inclusion' = [inclusion EXCEPT ![m] = IF op[m].submitted THEN "late" ELSE "recent"]
    /\ UNCHANGED <<db, pipeline, faults>>

Finalize(m) ==
    /\ inclusion[m] \in {"recent", "late"}
    /\ inclusion' = [inclusion EXCEPT ![m] = "final"]
    /\ UNCHANGED <<db, pipeline, faults>>

Reorg(m) ==
    /\ inclusion[m] \in {"recent", "late"}
    /\ Fault
    /\ inclusion' = [inclusion EXCEPT ![m] = "none"]
    /\ UNCHANGED <<db, pipeline>>

(* The process ends (killed, a panic, or any task of run_all ended) and is *)
(* started again on the same database.                                     *)
Restart ==
    /\ Fault
    /\ message_nonce' = [o \in Origins |-> 0]
    /\ rx' = <<>> /\ prepare_queue' = {} /\ preparing' = Idle
    /\ rx_submit' = <<>> /\ submitting' = Idle
    /\ confirm_queue' = {} /\ confirming' = NoOp
    /\ op' = [m \in Message |-> NewPendingMessage("none")]
    /\ dropped' = {} /\ ended' = {}
    /\ UNCHANGED <<db, chain>>

-----------------------------------------------------------------------------
Processor(o) == ProcessorSkip(o) \/ ProcessorSend(o)

PrepareTask(m) ==
    \/ PreparePop(m) \/ PrepareDelivered(m) \/ PrepareBuild(m)
    \/ PrepareDrop(m) \/ PrepareRetry(m) \/ PrepareSend(m)

SubmitTask(m) ==
    \/ SubmitAlready(m) \/ SubmitBroadcast(m) \/ SubmitExecuted(m)
    \/ SubmitRetry(m) \/ SubmitCritical(m)

ConfirmTask(m) ==
    \/ ConfirmPop(m) \/ ConfirmDelivered(m) \/ ConfirmUndelivered(m)
    \/ ConfirmError(m) \/ ConfirmCritical(m)

Environment(m) == StoreMessage(m) \/ Elapse(m) \/ Land(m) \/ Finalize(m) \/ Reorg(m)

Next ==
    \/ \E o \in Origins : Processor(o)
    \/ Receive
    \/ SubmitRecv
    \/ \E m \in Message :
        PrepareTask(m) \/ SubmitTask(m) \/ ConfirmTask(m) \/ Environment(m)
    \/ Restart

Spec == Init /\ [][Next]_vars

(* Every task is scheduled, every wait elapses, the contract sync finds    *)
(* every message, and the chain finalises what it includes.  Faults,       *)
(* restarts and the transactions of others are never obliged to happen.    *)
Fairness ==
    /\ \A o \in Origins : WF_vars(Processor(o))
    /\ WF_vars(Receive)
    /\ WF_vars(SubmitRecv)
    /\ \A m \in Message :
        /\ WF_vars(StoreMessage(m)) /\ WF_vars(Elapse(m)) /\ WF_vars(Finalize(m))
        /\ WF_vars(PrepareTask(m)) /\ WF_vars(SubmitTask(m)) /\ WF_vars(ConfirmTask(m))

FairSpec == Spec /\ Fairness

-----------------------------------------------------------------------------
(* Properties                                                              *)

Held(task_op) == {task_op} \ {NoOp}

(* The type invariant: the queues hold messages, the tasks are at one of   *)
(* their steps, and the channel to submit_task never exceeds its capacity. *)
TypeOK ==
    /\ indexed \subseteq Message /\ processed \subseteq Message
    /\ retries \in [Message -> BOOLEAN]
    /\ message_nonce \in [Origins -> 0 .. NumMessages]
    /\ rx \in Seq(Message) /\ rx_submit \in Seq(Message) /\ Len(rx_submit) <= 1
    /\ prepare_queue \subseteq Message /\ confirm_queue \subseteq Message
    /\ preparing \in [op : Message, pc : {"delivered", "build", "send"}] \cup {Idle}
    /\ submitting \in [op : Message, pc : {"submit", "receipt"}] \cup {Idle}
    /\ confirming \in Message \cup {NoOp}
    /\ op \in [Message -> PendingMessage]
    /\ dropped \subseteq Message /\ ended \subseteq Tasks
    /\ inclusion \in [Message -> Inclusion]
    /\ faults \in 0 .. MaxFaults

(* Where the operations are, in pipeline order *)
Stages == << Range(rx), prepare_queue, Held(preparing.op), Range(rx_submit),
             Held(submitting.op), confirm_queue, Held(confirming) >>

InFlight ==
    Range(rx) \cup prepare_queue \cup Held(preparing.op) \cup Range(rx_submit)
        \cup Held(submitting.op) \cup confirm_queue \cup Held(confirming)

(* The pipeline never holds two operations of one message: receive_task,   *)
(* prepare_task, submit_task and confirm_task pass each one on exactly     *)
(* once, whatever retries, reorgs and restarts there are, so no message is *)
(* prepared or submitted twice at the same time.                           *)
OneOperationPerMessage ==
    /\ \A i, j \in DOMAIN Stages : i # j => Stages[i] \cap Stages[j] = {}
    /\ \A i, j \in DOMAIN rx : rx[i] = rx[j] => i = j

(* A message the processors have passed is either recorded as processed,   *)
(* skipped by the filters, forgotten because its recipient is no contract, *)
(* or still somewhere in the pipeline: "Operations which failed processing *)
(* due to a retriable error are also retained within the SerialSubmitter". *)
(* Only the end of a task loses the operations it held.                    *)
NothingLost ==
    ended = {} =>
        \A m \in Message : Nonce(m) < message_nonce[Origin(m)] =>
            m \in processed \cup Filtered \cup dropped \cup InFlight

(* After record_message_process_success "we will never re-attempt          *)
(* processing for this message again, even after the relayer restarts":    *)
(* a committed message is never in the pipeline.                           *)
CommittedNeverRetried == processed \cap InFlight = {}

(* submit() finds the message either already submitted or prepared: its    *)
(* expect("Pending message must be prepared ...") cannot fail, and stale   *)
(* submission data never reaches the prepare stage or the confirm stage.   *)
SubmissionDataFresh ==
    \A m \in InFlight :
        LET atSubmit == \/ preparing = [op |-> m, pc |-> "send"]
                        \/ m \in Range(rx_submit)
                        \/ submitting = [op |-> m, pc |-> "submit"]
        IN  op[m].data <=> (atSubmit /\ ~op[m].submitted)

(* confirm()'s debug_assert, "Confirm called before message was            *)
(* submitted", holds, and nothing marked submitted is in the prepare       *)
(* queue, where it would be skipped without a transaction.                 *)
SubmittedOnlyAfterPrepare ==
    /\ \A m \in confirm_queue \cup Held(confirming) : op[m].submitted
    /\ \A m \in prepare_queue \cup Range(rx) : ~op[m].submitted

(* "the SerialSubmitter ensures that message delivery is robust to         *)
(* destination chain reorgs prior to committing delivery status to         *)
(* HyperlaneRocksDB": a message marked processed is, and stays, delivered. *)
CommittedStaysDelivered == \A m \in processed : Delivered(m)

(* What the proofs of the properties above need beside them: operations    *)
(* are sent once, each stage holds operations with the flags of that       *)
(* stage, and, when inclusions never come late, whoever reads delivered()  *)
(* in confirm() sees an inclusion that is final.                           *)
SentBelowNonce == \A m \in InFlight : Nonce(m) < message_nonce[Origin(m)]

Fresh(p) == ~p.submitted /\ ~p.data
Prepared(p) == p.data <=> ~p.submitted
Submitted(p) == p.submitted /\ ~p.data

StageFlags ==
    /\ \A m \in Range(rx) : Fresh(op[m])
    /\ \A m \in prepare_queue : Fresh(op[m])
    /\ preparing.pc \in {"delivered", "build"} => Fresh(op[preparing.op])
    /\ preparing.pc = "send" => Prepared(op[preparing.op])
    /\ \A m \in Range(rx_submit) : Prepared(op[m])
    /\ submitting.pc = "submit" => Prepared(op[submitting.op])
    /\ submitting.pc = "receipt" => Fresh(op[submitting.op])
    /\ \A m \in confirm_queue : Submitted(op[m])
    /\ confirming # NoOp => Submitted(op[confirming]) /\ op[confirming].next # "waiting"

CoveredByDelay ==
    ~LateInclusion =>
        \A m \in Message :
            /\ inclusion[m] # "late"
            /\ op[m].submitted /\ op[m].next # "waiting" => inclusion[m] # "recent"
            /\ m \in processed => inclusion[m] = "final"

(* Objective 2 of the SerialSubmitter, for one origin: a message gets its  *)
(* first attempt only when no earlier untried message of its origin has    *)
(* already been sent to the submitter and is still waiting for its first.  *)
FirstAttemptsInOrder ==
    [][\A m, k \in Message :
        /\ SingleOrigin /\ PreparePop(m) /\ op[m].next = "none"
        /\ k \in prepare_queue \cup Range(rx) /\ op[k].next = "none"
        => Nonce(m) <= Nonce(k)]_vars

(* Every message that can be delivered is eventually recorded as           *)
(* processed, after any finite number of errors, reorgs and restarts, if   *)
(* no task of the submitter has ended for good.                            *)
EventuallyProcessed ==
    <>[](ended = {}) =>
        \A m \in Message \ (Filtered \cup NotContract) : <>(m \in processed)

=============================================================================
