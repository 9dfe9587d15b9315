-------------------------- MODULE SealevelAccounts --------------------------
(***************************************************************************)
(* The accounts of the Sealevel instructions.  A transaction lists them in *)
(* an order that only comments document: who builds an instruction (the    *)
(* instruction.rs files, the client, the relayer's SealevelMailbox) and    *)
(* the processor that walks the list with next_account_info have to agree  *)
(* on it.  An account is named for its role; a meta has the privileges     *)
(* that the transaction gives, and a processor's entry those it needs.     *)
(***************************************************************************)
EXTENDS Naturals, Sequences, SequencesExt

VARIABLE instruction    \* the instruction submitted last

R(key) == [key |-> key, flags |-> {}]
W(key) == [key |-> key, flags |-> {"writable"}]
S(key) == [key |-> key, flags |-> {"signer"}]
WS(key) == [key |-> key, flags |-> {"signer", "writable"}]

(* Solana merges the metas of one key, and the fee payer signs and pays.   *)
Privileges(metas, key) ==
    UNION {metas[i].flags : i \in {i \in 1..Len(metas) : metas[i].key = key}}
        \cup (IF key = "payer" THEN {"signer", "writable"} ELSE {})

Accepts(metas, needs, exact) ==
    /\ IF exact THEN Len(metas) = Len(needs) ELSE Len(metas) >= Len(needs)
    /\ \A i \in 1..Len(needs) :
        /\ metas[i].key = needs[i].key
        /\ needs[i].flags \subseteq Privileges(metas, needs[i].key)
----------------------------------------------------------------------------
(* Mailbox *)
BuildMailboxInit == <<W("system"), WS("payer"), W("inbox"), W("outbox")>>
ReadMailboxInit == <<R("system"), WS("payer"), W("inbox"), W("outbox")>>
BuildMailboxTransferOwnership == <<W("outbox"), WS("payer")>>
ReadMailboxTransferOwnership == <<W("outbox"), S("payer")>>
BuildSetDefaultIsm == <<W("inbox"), R("outbox"), WS("payer")>>
ReadSetDefaultIsm == <<W("inbox"), R("outbox"), S("payer")>>

(* What the client's "mailbox send" passes to OutboxDispatch. *)
BuildMailboxSend == <<W("outbox"), S("payer"), R("noop")>>
ReadOutboxDispatch(sender) ==
    <<W("outbox"), S(sender), R("system"), R("noop"), WS("payer"), S("unique"), W("dispatched")>>

(* Interchain gas paymaster *)
BuildIgpInit == <<R("system"), S("payer"), W("program_data")>>
ReadIgpInit == <<R("system"), WS("payer"), W("program_data")>>
BuildInitIgp == <<R("system"), S("payer"), W("igp")>>
BuildInitOverheadIgp == <<R("system"), S("payer"), W("igp")>>
ReadInitIgpVariant == <<R("system"), WS("payer"), W("igp")>>
BuildSetGasOverheads == <<R("system"), W("igp"), WS("payer")>>
ReadSetGasOverheads == <<R("system"), W("igp"), WS("payer")>>
BuildSetGasOracles == <<R("system"), W("igp"), WS("payer")>>
ReadSetGasOracles == <<R("system"), W("igp"), WS("payer")>>
BuildTransferIgpOwnership == <<W("igp"), WS("payer")>>
BuildSetBeneficiary == <<W("igp"), WS("payer")>>
ReadIgpOwned == <<W("igp"), S("payer")>>
BuildClaim == <<R("system"), W("igp"), W("beneficiary")>>
ReadClaim == <<R("system"), W("igp"), W("beneficiary")>>

BuildPayForGas(overhead) ==
    <<R("system"), WS("payer"), W("program_data"), S("unique"), W("gas_payment"), W("igp")>>
        \o (IF overhead THEN <<R("overhead_igp")>> ELSE <<>>)
ReadPayForGas(overhead) ==
    <<R("system"), WS("payer"), W("program_data"), S("unique"), W("gas_payment"), W("igp")>>
        \o (IF overhead THEN <<R("overhead_igp")>> ELSE <<>>)

(* Multisig ISM and validator announce *)
BuildIsmInit == <<WS("payer"), W("access_control"), R("system")>>
ReadIsmInit == <<WS("payer"), W("access_control"), R("system")>>
BuildIsmTransferOwnership == <<WS("payer"), W("access_control")>>
ReadIsmTransferOwnership == <<S("payer"), W("access_control")>>
BuildSetValidators == <<WS("payer"), R("access_control"), W("domain_data"), R("system")>>
ReadSetValidators == <<WS("payer"), R("access_control"), W("domain_data"), R("system")>>
BuildAnnounceInit == <<S("payer"), R("system"), W("validator_announce")>>
ReadAnnounceInit == <<WS("payer"), R("system"), W("validator_announce")>>
BuildAnnounce ==
    <<S("payer"), R("system"), R("validator_announce"), W("locations"), W("replay")>>
ReadAnnounce ==
    <<WS("payer"), R("system"), R("validator_announce"), W("locations"), W("replay")>>

(* HelloWorld *)
BuildHelloInit == <<R("system"), S("payer"), W("storage")>>
ReadHelloInit == <<R("system"), WS("payer"), W("storage")>>
BuildHelloEnroll == <<R("system"), W("storage"), WS("payer")>>
ReadHelloEnroll == <<R("system"), W("storage"), WS("payer")>>
BuildHelloSetIsm == <<W("storage"), WS("payer")>>
ReadHelloSetIsm == <<W("storage"), S("payer")>>
----------------------------------------------------------------------------
(* Warp routes.  The plugins add their accounts to those of the library.   *)
TokenTypes == {"native", "synthetic", "collateral"}

TokenInit == <<R("system"), W("token"), W("dispatch_authority"), WS("payer")>>
NativeInit == TokenInit \o <<W("native_collateral")>>
SyntheticInit == TokenInit \o <<W("mint"), W("ata_payer")>>
CollateralInit ==
    TokenInit \o <<R("spl_token"), R("mint"), R("rent"), W("escrow"), W("ata_payer")>>

BuildTokenInit(type) ==
    CASE type = "native" -> NativeInit
      [] type = "synthetic" -> SyntheticInit
      [] type = "collateral" -> CollateralInit

ReadPluginInit(type) ==
    CASE type = "native" -> <<W("native_collateral")>>
      [] type = "synthetic" -> <<W("mint"), W("ata_payer")>>
      [] type = "collateral" ->
            <<R("spl_token"), R("mint"), R("rent"), W("escrow"), W("ata_payer")>>

ReadTokenInit(type) ==
    <<R("system"), W("token"), W("dispatch_authority"), WS("payer")>> \o ReadPluginInit(type)

BuildTokenEnroll == <<R("system"), W("token"), WS("payer")>>
ReadTokenEnroll == <<R("system"), W("token"), WS("payer")>>
BuildDestinationGas == <<R("system"), W("token"), WS("payer")>>
ReadDestinationGas == <<R("system"), W("token"), WS("payer")>>
BuildTokenTransferOwnership == <<W("token"), S("payer")>>
ReadTokenTransferOwnership == <<W("token"), S("payer")>>
BuildTokenSetIsm == <<W("token"), S("payer")>>
ReadTokenSetIsm == <<W("token"), S("payer")>>
BuildTokenSetIgp == <<W("token"), S("payer")>>
ReadTokenSetIgp == <<W("token"), S("payer")>>

(* The client's "token enroll-remote-router". *)
BuildTokenEnrollCommand == <<W("token"), S("payer")>>

(* transfer_remote, for a token without an IGP, with one, or with an       *)
(* overhead IGP.                                                           *)
IgpKinds == {"none", "Igp", "OverheadIgp"}

BuildIgp(igp) ==
    CASE igp = "none" -> <<>>
      [] igp = "Igp" -> <<R("igp_program"), W("program_data"), W("gas_payment"), W("igp")>>
      [] igp = "OverheadIgp" ->
            <<R("igp_program"), W("program_data"), W("gas_payment"), R("overhead_igp"), W("igp")>>

BuildTransferRemote(type, igp) ==
    <<R("system"), R("noop"), R("token"), R("mailbox"), W("outbox"), R("dispatch_authority"),
      WS("sender"), S("unique"), W("dispatched")>>
        \o BuildIgp(igp)
        \o CASE type = "native" -> <<R("system"), W("native_collateral")>>
             [] type = "synthetic" -> <<R("token_2022"), W("mint"), W("sender_ata")>>
             [] type = "collateral" -> <<R("spl_token"), W("mint"), W("sender_ata"), W("escrow")>>

ReadTransferIn(type) ==
    CASE type = "native" -> <<R("system"), W("native_collateral")>>
      [] type = "synthetic" -> <<R("token_2022"), W("mint"), W("sender_ata")>>
      [] type = "collateral" -> <<R("spl_token"), R("mint"), W("sender_ata"), W("escrow")>>

ReadTransferRemote(type, igp) ==
    <<R("system"), R("noop"), R("token"), R("mailbox"), W("outbox"), R("dispatch_authority"),
      WS("sender"), S("unique"), W("dispatched")>>
        \o (IF igp = "none" THEN <<>>
            ELSE <<R("igp_program"), W("program_data"), W("gas_payment")>>
                    \o IF igp = "Igp" THEN <<W("igp")>> ELSE <<R("overhead_igp"), W("igp")>>)
        \o ReadTransferIn(type)
----------------------------------------------------------------------------
(* InboxProcess.  The relayer asks the recipient and its ISM for the       *)
(* accounts they need and puts them in one list, which the Mailbox cuts at *)
(* the noop program and at the recipient.                                  *)
Recipients == TokenTypes \cup {"helloworld"}

IsmGetterMetas(recipient) ==
    IF recipient = "helloworld" THEN <<W("storage")>> ELSE <<R("token")>>

VerifyMetas == <<R("domain_data")>>

TransferOutMetas(type) ==
    CASE type = "native" -> <<R("system"), W("native_collateral")>>
      [] type = "synthetic" ->
            <<R("token_2022"), R("spl_ata"), W("mint"), W("recipient_ata"), W("ata_payer")>>
      [] type = "collateral" ->
            <<R("spl_token"), R("spl_ata"), W("mint"), W("recipient_ata"), W("ata_payer"),
              W("escrow")>>

HandleMetas(recipient) ==
    IF recipient = "helloworld" THEN <<W("storage")>>
    ELSE <<R("system"), R("token"),
           IF recipient = "native" THEN W("recipient_wallet") ELSE R("recipient_wallet")>>
            \o TransferOutMetas(recipient)

BuildProcess(recipient) ==
    <<S("payer"), R("system"), W("inbox"), R("process_authority"), W("processed")>>
        \o IsmGetterMetas(recipient)
        \o <<R("noop"), R("ism")>>
        \o VerifyMetas
        \o <<R("recipient")>>
        \o HandleMetas(recipient)

\* A faulty variant: the account the list is cut at is kept.
CutWithNoop(metas, key) == SubSeq(metas, SelectInSeq(metas, LAMBDA m : m.key = key), Len(metas))

(* The accounts before the first one with the given key, and those after. *)
CutBefore(metas, key) == SubSeq(metas, 1, SelectInSeq(metas, LAMBDA m : m.key = key) - 1)
CutAfter(metas, key) == SubSeq(metas, SelectInSeq(metas, LAMBDA m : m.key = key) + 1, Len(metas))

ReadTransferOut(type) ==
    CASE type = "native" -> <<R("system"), W("native_collateral")>>
      [] type = "synthetic" ->
            <<R("token_2022"), R("spl_ata"), W("mint"), W("recipient_ata"), W("ata_payer")>>
      [] type = "collateral" ->
            <<R("spl_token"), R("spl_ata"), R("mint"), W("recipient_ata"), W("ata_payer"),
              W("escrow")>>

ReadHandle(recipient) ==
    IF recipient = "helloworld" THEN <<S("process_authority"), W("storage")>>
    ELSE <<S("process_authority"), R("system"), R("token"),
           IF recipient = "native" THEN W("recipient_wallet") ELSE R("recipient_wallet")>>
            \o ReadTransferOut(recipient)

ProcessAccepts(recipient, metas) ==
    LET own == <<WS("payer"), R("system"), W("inbox"), R("process_authority"), W("processed")>>
        getter == CutBefore(SubSeq(metas, 6, Len(metas)), "noop")
        afterNoop == CutAfter(metas, "noop")
        verify == CutBefore(Tail(afterNoop), "recipient")
        handle == CutAfter(Tail(afterNoop), "recipient")
    IN  /\ Accepts(metas, own, FALSE)
        /\ Accepts(getter, <<R(IF recipient = "helloworld" THEN "storage" ELSE "token")>>, FALSE)
        /\ Head(afterNoop) = R("ism")
        /\ Accepts(verify, <<R("domain_data")>>, FALSE)
        /\ Accepts(<<S("process_authority")>> \o handle, ReadHandle(recipient),
                   recipient # "helloworld")
----------------------------------------------------------------------------
Fit(built, read) == Accepts(built, read, FALSE)
FitExactly(built, read) == Accepts(built, read, TRUE)

(* Each instruction with whether its processor takes the list; only        *)
(* InboxSetDefaultIsm, OutboxDispatch and a token's init, transfer_remote  *)
(* and transfer_from_remote refuse accounts that are left over.            *)
PlainCalls == [
    MailboxInit |-> Fit(BuildMailboxInit, ReadMailboxInit),
    MailboxTransferOwnership |-> Fit(BuildMailboxTransferOwnership, ReadMailboxTransferOwnership),
    SetDefaultIsm |-> FitExactly(BuildSetDefaultIsm, ReadSetDefaultIsm),
    IgpInit |-> Fit(BuildIgpInit, ReadIgpInit),
    InitIgp |-> Fit(BuildInitIgp, ReadInitIgpVariant),
    InitOverheadIgp |-> Fit(BuildInitOverheadIgp, ReadInitIgpVariant),
    SetGasOverheads |-> Fit(BuildSetGasOverheads, ReadSetGasOverheads),
    SetGasOracles |-> Fit(BuildSetGasOracles, ReadSetGasOracles),
    TransferIgpOwnership |-> Fit(BuildTransferIgpOwnership, ReadIgpOwned),
    SetBeneficiary |-> Fit(BuildSetBeneficiary, ReadIgpOwned),
    Claim |-> Fit(BuildClaim, ReadClaim),
    IsmInit |-> Fit(BuildIsmInit, ReadIsmInit),
    IsmTransferOwnership |-> Fit(BuildIsmTransferOwnership, ReadIsmTransferOwnership),
    SetValidators |-> Fit(BuildSetValidators, ReadSetValidators),
    AnnounceInit |-> Fit(BuildAnnounceInit, ReadAnnounceInit),
    Announce |-> Fit(BuildAnnounce, ReadAnnounce),
    HelloInit |-> Fit(BuildHelloInit, ReadHelloInit),
    HelloEnroll |-> Fit(BuildHelloEnroll, ReadHelloEnroll),
    HelloSetIsm |-> Fit(BuildHelloSetIsm, ReadHelloSetIsm),
    TokenEnroll |-> Fit(BuildTokenEnroll, ReadTokenEnroll),
    DestinationGas |-> Fit(BuildDestinationGas, ReadDestinationGas),
    TokenTransferOwnership |-> Fit(BuildTokenTransferOwnership, ReadTokenTransferOwnership),
    TokenSetIsm |-> Fit(BuildTokenSetIsm, ReadTokenSetIsm),
    TokenSetIgp |-> Fit(BuildTokenSetIgp, ReadTokenSetIgp)]

Calls ==
    {[name |-> n, accepted |-> PlainCalls[n]] : n \in DOMAIN PlainCalls}
    \cup {[name |-> "PayForGas", overhead |-> o,
           accepted |-> Fit(BuildPayForGas(o), ReadPayForGas(o))] : o \in BOOLEAN}
    \cup {[name |-> "TokenInit", type |-> t,
           accepted |-> FitExactly(BuildTokenInit(t), ReadTokenInit(t))] : t \in TokenTypes}
    \cup {[name |-> "TransferRemote", type |-> t, igp |-> i,
           accepted |-> FitExactly(BuildTransferRemote(t, i), ReadTransferRemote(t, i))]
           : t \in TokenTypes, i \in IgpKinds}
    \cup {[name |-> "InboxProcess", recipient |-> r,
           accepted |-> ProcessAccepts(r, BuildProcess(r))] : r \in Recipients}

(* The commands of the client that list the accounts themselves. *)
Commands ==
    {[name |-> "mailbox send",
      accepted |-> FitExactly(BuildMailboxSend, ReadOutboxDispatch("payer"))],
     [name |-> "token enroll-remote-router",
      accepted |-> Fit(BuildTokenEnrollCommand, ReadTokenEnroll)]}

NoInstruction == [name |-> "none", accepted |-> TRUE]

AccountsInit == instruction = NoInstruction
AccountsNext == instruction' \in Calls \cup Commands
----------------------------------------------------------------------------
(* The account lists that the instruction builders, the client and the     *)
(* relayer put together are the ones the programs walk: the same accounts  *)
(* in the same order, with the privileges that are needed, for every token *)
(* type, with every IGP and for every recipient of a message.  The two     *)
(* lists that commands of the client write out themselves are not: each    *)
(* leaves out an account that its program asks for.                        *)
AccountsAccepted ==
    instruction.accepted
        <=> instruction.name \notin {"mailbox send", "token enroll-remote-router"}
=============================================================================
