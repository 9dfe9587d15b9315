---------------------- MODULE SealevelTestRecipient ------------------------
(***************************************************************************)
(* The Mailbox programs of SealevelMailbox with the recipient program      *)
(* sealevel/programs/test-send-receiver deployed on every chain: it can be *)
(* told which ISM to ask for, how to answer, and to fail or to re-enter    *)
(* the Mailbox when it handles a message, so it stands for the ways a      *)
(* recipient can behave.                                                   *)
(***************************************************************************)
EXTENDS SealevelMailbox

VARIABLES
    storage,   \* storage[d][p]: the storage PDA of program p, None before Init
    handled    \* history: handled[d] is the sequence of messages handled on d

vars == <<mailboxVars, storage, handled>>

IsmReturnDataModes == {"EncodeOption", "ReturnNothing", "ReturnMalformattedData"}
HandleModes == {"Success", "Fail", "ReenterProcess"}
Storage ==
    [ism : {<<i>> : i \in Isms} \cup {<<>>}, ism_return_data_mode : IsmReturnDataModes,
     handle_mode : HandleModes]

NewStorage ==
    [ism |-> <<>>, ism_return_data_mode |-> "EncodeOption", handle_mode |-> "Success"]

Init ==
    /\ MailboxInit
    /\ storage = [d \in Domains |-> [p \in Programs |->
            IF d \in Deployed THEN NewStorage ELSE None]]
    /\ handled = [d \in Domains |-> <<>>]

\* Every handler of the program that writes the storage account.
SetStorage(d, p, new) ==
    /\ Configure
    /\ storage' = [storage EXCEPT ![d][p] = new]
    /\ UNCHANGED <<inbox, outbox, dispatched, processed, ismOwner, domainData,
                   principal, handled>>

InitStorage(d, p) ==
    /\ Uninitialized(storage[d][p])
    /\ SetStorage(d, p, NewStorage)

SetInterchainSecurityModule(d, p, ism, mode) ==
    /\ ~Uninitialized(storage[d][p])
    /\ SetStorage(d, p, [storage[d][p] EXCEPT !.ism = ism, !.ism_return_data_mode = mode])

SetHandleMode(d, p, mode) ==
    /\ ~Uninitialized(storage[d][p])
    /\ SetStorage(d, p, [storage[d][p] EXCEPT !.handle_mode = mode])

\* get_interchain_security_module; malformed data fails the Mailbox's decoding.
RecipientAnswers(d, p) ==
    CASE storage[d][p].ism_return_data_mode = "EncodeOption" -> {storage[d][p].ism}
      [] storage[d][p].ism_return_data_mode = "ReturnNothing" -> {<<>>}
      [] OTHER -> {}

\* dispatch: anyone may make the program dispatch, in the name of any sender,
\* but it only ever signs with its own dispatch authority.
Dispatch(d) ==
    /\ \E p \in Principals, u \in UniqueKeys, s \in Principals,
          to \in Domains, r \in Programs, b \in Bodies :
            OutboxDispatch(d, p, u, s, to, r, b)
    /\ UNCHANGED <<storage, handled>>

\* handle: a re-entrant InboxProcess finds the Inbox borrowed and fails.
Handle(d, m) ==
    /\ storage[d][m.recipient].handle_mode = "Success"
    /\ handled' = [handled EXCEPT ![d] = Append(@, m)]
    /\ UNCHANGED storage

\* A relayer submits any message with any signatures it has.
Process(d) ==
    \E m \in Messages, n \in 1..Cardinality(Validators) :
        /\ m.destination = d
        /\ storage[d][m.recipient] # None
        /\ \E metadata \in [1..n -> Validators], answer \in RecipientAnswers(d, m.recipient) :
                InboxProcess(d, m, metadata, answer)
        /\ Handle(d, m)

Next ==
    \E d \in Domains :
        \/ MailboxAdmin(d) /\ UNCHANGED <<storage, handled>>
        \/ \E p \in Programs :
            \/ InitStorage(d, p)
            \/ \E i \in {<<i>> : i \in Isms} \cup {<<>>}, mode \in IsmReturnDataModes :
                    SetInterchainSecurityModule(d, p, i, mode)
            \/ \E mode \in HandleModes : SetHandleMode(d, p, mode)
        \/ Dispatch(d)
        \/ Process(d)

Spec == Init /\ [][Next]_vars
----------------------------------------------------------------------------
TypeOK ==
    /\ MailboxTypeOK
    /\ storage \in [Domains -> [Programs -> {None} \cup Storage]]
    /\ \A d \in Domains : handled[d] \in Seq(Messages)

(* A recipient handles each message at most once, and the sequence numbers *)
(* of the processed accounts are exactly 0, 1, ... in the order of the     *)
(* deliveries: the indexer of deliveries reads one sequence number after   *)
(* another and would miss or repeat a delivery otherwise.                  *)
ProcessedIndexExact ==
    \A d \in Domains :
        /\ \A k \in 1..Len(handled[d]) :
            /\ handled[d][k] \in DOMAIN processed[d]
            /\ processed[d][handled[d][k]] = k - 1
        /\ Cardinality(DOMAIN processed[d]) = Len(handled[d])
        /\ inbox[d] # None => inbox[d].processed_count = Len(handled[d])
============================================================================
