-------------------------- MODULE SealevelMailbox --------------------------
(***************************************************************************)
(* The Sealevel Mailbox program (sealevel/programs/mailbox) of every       *)
(* chain of Domains, with the multisig ISM program                         *)
(* (sealevel/programs/ism/multisig-ism-message-id) that guards its inbox.  *)
(*                                                                         *)
(* One action is one instruction.  The runtime makes a transaction atomic: *)
(* an instruction that returns an error, or whose CPI does, changes        *)
(* nothing, so a handler's early returns are the guards of its action.     *)
(* The checks that an account passed in is the PDA of its seeds leave one  *)
(* possible account per key, so an account is an entry of a function.  A   *)
(* message identifier is a collision-free hash, so the message stands for  *)
(* it.                                                                     *)
(*                                                                         *)
(* The module has no next-state relation of its own: what a delivery does  *)
(* depends on the program that receives it, and the modules of the         *)
(* recipient programs extend this one.                                     *)
(***************************************************************************)
EXTENDS Naturals, Sequences, FiniteSets

CONSTANTS
    Domains,          \* domain identifiers, one chain each
    Wallets,          \* keys that can sign a transaction
    Programs,         \* message senders and recipients that are programs
    Isms,             \* multisig ISM programs deployed on each chain
    Validators,       \* validator addresses
    Faulty,           \* the validators that sign anything
    UniqueKeys,       \* keys of the one-time unique message accounts
    Bodies,           \* message bodies
    BodyBytes(_),     \* the length of a body
    MaxBodyBytes,     \* MAX_MESSAGE_BODY_BYTES
    Configs,          \* the <<validators, threshold>> an ISM owner may ask for
    Deployed,         \* the chains whose programs are deployed at the start
    Deployer,         \* the wallet that deployed them, their first owner
    DeployedIsm,      \* ... the default ISM it chose
    DeployedConfig,   \* ... and the quorum it set there for every origin
    MaxDispatched,    \* bound: messages dispatched on each chain, by domain
    MaxAdmin,         \* bound: configuration instructions in a behaviour
    None,             \* Option::None
    Nobody            \* the address recovered from a signature of nobody here

VARIABLES
    inbox,        \* inbox[d]: the Inbox account, None before Init
    outbox,       \* outbox[d]: the Outbox account, None before Init
    dispatched,   \* dispatched[d]: the dispatched message PDAs by unique key
    processed,    \* processed[d]: the processed message PDAs by message
    ismOwner,     \* ismOwner[d][i]: the access control account, None before Initialize
    domainData,   \* domainData[d][i][o]: the domain data PDA, None if absent
    principal,    \* history: who really asked for the dispatch of each nonce
    admin         \* number of configuration instructions so far

mailboxVars == <<inbox, outbox, dispatched, processed, ismOwner, domainData,
                 principal, admin>>

VERSION == 3

(* Wallets sign for themselves; a program signs with its dispatch          *)
(* authority PDA, a key that no wallet has.                                *)
Principals == Wallets \cup Programs

DispatchAuthority(p) == <<"dispatch_authority", p>>

SignerOf(p) == IF p \in Programs THEN DispatchAuthority(p) ELSE p

Nonces == UNION {0..(MaxDispatched[d] - 1) : d \in Domains}

Messages ==
    [version : {VERSION - 1, VERSION}, nonce : Nonces,
     origin : Domains, sender : Principals, destination : Domains,
     recipient : Programs, body : Bodies]

\* AccessControl: None is an access control account without an owner.
Owners == {<<w>> : w \in Wallets} \cup {<<>>}

Uninitialized(account) == account = None

EnsureOwnerSigner(owner, signer) == owner = <<signer>>

(* The accounts that exist have data; the keys of programs' PDAs are the   *)
(* keys of no wallet and of no program.                                    *)
InboxAccount == [local_domain : Domains, default_ism : Isms, processed_count : Nat]
OutboxAccount == [local_domain : Domains, owner : Owners, tree : Seq(Messages)]

ASSUME MailboxAssumption ==
    /\ MaxAdmin \in Nat /\ \A d \in Domains : MaxDispatched[d] \in Nat
    /\ Deployer \in Wallets /\ DeployedIsm \in Isms
    /\ None \notin InboxAccount /\ None \notin OutboxAccount
    /\ \A p, q \in Principals : DispatchAuthority(p) # q

(* The accounts that Init leaves on a chain. *)
NewInbox(d, defaultIsm) ==
    [local_domain |-> d, default_ism |-> defaultIsm, processed_count |-> 0]

NewOutbox(d, payer) == [local_domain |-> d, owner |-> <<payer>>, tree |-> <<>>]

MailboxInit ==
    /\ inbox = [d \in Domains |-> IF d \in Deployed THEN NewInbox(d, DeployedIsm) ELSE None]
    /\ outbox = [d \in Domains |-> IF d \in Deployed THEN NewOutbox(d, Deployer) ELSE None]
    /\ dispatched = [d \in Domains |-> <<>>]
    /\ processed = [d \in Domains |-> <<>>]
    /\ ismOwner = [d \in Domains |-> [i \in Isms |->
            IF d \in Deployed THEN <<Deployer>> ELSE None]]
    /\ domainData = [d \in Domains |-> [i \in Isms |-> [o \in Domains |->
            IF d \in Deployed /\ i = DeployedIsm THEN DeployedConfig ELSE None]]]
    /\ principal = [d \in Domains |-> <<>>]
    /\ admin = 0

Configure == admin < MaxAdmin /\ admin' = admin + 1
----------------------------------------------------------------------------
(* The multisig ISM. *)

ValidateWithoutDuplicates(config) ==
    /\ config[2] # 0
    /\ config[2] <= Len(config[1])

(* ValidatorsAndThreshold::validate *)
Validate(config) ==
    LET validators == config[1]
        threshold == config[2]
    IN  /\ threshold # 0
        /\ threshold <= Len(validators)
        /\ \A i, j \in 1..Len(validators) : validators[i] = validators[j] => i = j

(* What the owners of ISMs answer for: of the validators that a quorum     *)
(* names, fewer are faulty than it asks for.  A configuration may name one *)
(* twice; Validate has to turn that down.  The deployer's passed it.       *)
ASSUME QuorumAssumption ==
    /\ Nobody \notin Validators /\ IsFiniteSet(Faulty)
    /\ \A c \in Configs \cup {DeployedConfig} :
        /\ c[1] \in Seq(Validators) /\ c[2] \in Nat
        /\ c[2] # 0 =>
            Cardinality({v \in Faulty : \E j \in DOMAIN c[1] : c[1][j] = v}) < c[2]
    /\ Validate(DeployedConfig)

IsmInitialize(d, i, payer) ==
    /\ Uninitialized(ismOwner[d][i])
    /\ Configure
    /\ ismOwner' = [ismOwner EXCEPT ![d][i] = <<payer>>]
    /\ UNCHANGED <<inbox, outbox, dispatched, processed, domainData, principal>>

SetValidatorsAndThreshold(d, i, origin, config, signer) ==
    /\ Validate(config)
    /\ EnsureOwnerSigner(ismOwner[d][i], signer)
    /\ Configure
    /\ domainData' = [domainData EXCEPT ![d][i][origin] = config]
    /\ UNCHANGED <<inbox, outbox, dispatched, processed, ismOwner, principal>>

IsmTransferOwnership(d, i, newOwner, signer) ==
    /\ EnsureOwnerSigner(ismOwner[d][i], signer)
    /\ Configure
    /\ ismOwner' = [ismOwner EXCEPT ![d][i] = newOwner]
    /\ UNCHANGED <<inbox, outbox, dispatched, processed, domainData, principal>>

Genuine(m) ==
    /\ outbox[m.origin] # None
    /\ m.nonce < Len(outbox[m.origin].tree)
    /\ outbox[m.origin].tree[m.nonce + 1] = m

(* EcdsaSignature::secp256k1_recover_ethereum_address over the digest of   *)
(* the checkpoint of m: an honest validator signs a message identifier at  *)
(* an index only if the origin's tree holds it there.                      *)
Recover(signature, m) ==
    IF signature \in Faulty \/ Genuine(m) THEN signature ELSE Nobody

(* MultisigIsm::verify.  next[k] is validator_index after k signatures;    *)
(* a signature that matches no later validator leaves it past the end.     *)
VerifyQuorum(validators, threshold, signers) ==
    LET end == Len(validators) + 1
        next[k \in 0..threshold] ==
            IF k = 0 THEN 1
            ELSE LET at == {j \in next[k - 1]..Len(validators) : validators[j] = signers[k]}
                 IN  IF at = {} THEN end + 1
                     ELSE 1 + (CHOOSE j \in at : \A h \in at : j <= h)
    IN  next[threshold] <= end

(* validators_and_threshold *)
DomainConfig(d, i, origin) == domainData[d][i][origin]

Verify(d, i, metadata, m) ==
    /\ metadata # <<>>
    /\ DomainConfig(d, i, m.origin) # None
    /\ LET config == DomainConfig(d, i, m.origin)
       IN  /\ Len(metadata) >= config[2]
           /\ VerifyQuorum(config[1], config[2],
                           [k \in 1..Len(metadata) |-> Recover(metadata[k], m)])
----------------------------------------------------------------------------
(* The mailbox. *)

Initialize(d, defaultIsm, payer) ==
    /\ Uninitialized(inbox[d])
    /\ Uninitialized(outbox[d])
    /\ Configure
    /\ inbox' = [inbox EXCEPT ![d] = NewInbox(d, defaultIsm)]
    /\ outbox' = [outbox EXCEPT ![d] = NewOutbox(d, payer)]
    /\ UNCHANGED <<dispatched, processed, ismOwner, domainData, principal>>

InboxSetDefaultIsm(d, ism, signer) ==
    /\ ~Uninitialized(inbox[d])
    /\ EnsureOwnerSigner(outbox[d].owner, signer)
    /\ Configure
    /\ inbox' = [inbox EXCEPT ![d].default_ism = ism]
    /\ UNCHANGED <<outbox, dispatched, processed, ismOwner, domainData, principal>>

TransferOwnership(d, newOwner, signer) ==
    /\ ~Uninitialized(outbox[d])
    /\ EnsureOwnerSigner(outbox[d].owner, signer)
    /\ Configure
    /\ outbox' = [outbox EXCEPT ![d].owner = newOwner]
    /\ UNCHANGED <<inbox, dispatched, processed, ismOwner, domainData, principal>>

(* verify_account_uninitialized of the dispatched message account. *)
MessageAccountUnused(d, unique) == unique \notin DOMAIN dispatched[d]

(* The principal p asks to dispatch in the name of sender; the runtime has *)
(* checked the signature of SignerOf(p), and nothing else.                 *)
OutboxDispatch(d, p, unique, sender, destination, recipient, body) ==
    /\ ~Uninitialized(outbox[d])
    /\ SignerOf(p) \in {sender, DispatchAuthority(sender)}
    /\ MessageAccountUnused(d, unique)
    /\ BodyBytes(body) <= MaxBodyBytes
    /\ Len(outbox[d].tree) < MaxDispatched[d]
    /\ LET m == [version |-> VERSION, nonce |-> Len(outbox[d].tree),
                 origin |-> outbox[d].local_domain, sender |-> sender,
                 destination |-> destination, recipient |-> recipient,
                 body |-> body]
       IN  /\ outbox' = [outbox EXCEPT ![d].tree = Append(@, m)]
           /\ dispatched' = [dispatched EXCEPT ![d] =
                    [u \in DOMAIN @ \cup {unique} |-> IF u = unique THEN m ELSE @[u]]]
    /\ principal' = [principal EXCEPT ![d] = Append(@, p)]
    /\ UNCHANGED <<inbox, processed, ismOwner, domainData, admin>>

(* get_recipient_ism: answer is the data the recipient program returned,   *)
(* <<>> for an encoded Option::None or no data at all.                     *)
GetRecipientIsm(d, answer) ==
    IF answer = <<>> THEN inbox[d].default_ism ELSE answer[1]

InboxAdmitsReplay(d, m) ==
    /\ m.version = VERSION
    /\ ~Uninitialized(inbox[d])
    /\ m.destination = inbox[d].local_domain

(* What inbox_process asks of a message before it calls any program. *)
InboxAdmits(d, m) ==
    /\ m.version = VERSION
    /\ ~Uninitialized(inbox[d])
    /\ m.destination = inbox[d].local_domain
    /\ m \notin DOMAIN processed[d]

(* inbox_process up to the CPI into the recipient's Handle, which the      *)
(* action of the recipient's module adds.  The Inbox is borrowed mutably   *)
(* until the end, so that CPI cannot process another message inside this   *)
(* one.                                                                    *)
InboxProcess(d, m, metadata, answer) ==
    /\ InboxAdmits(d, m)
    /\ Verify(d, GetRecipientIsm(d, answer), metadata, m)
    /\ processed' = [processed EXCEPT ![d] =
            [x \in DOMAIN @ \cup {m} |->
                IF x = m THEN inbox[d].processed_count ELSE @[x]]]
    /\ inbox' = [inbox EXCEPT ![d].processed_count = @ + 1]
    /\ UNCHANGED <<outbox, dispatched, ismOwner, domainData, principal, admin>>

(* The instructions that configure a chain, with every possible signer. *)
MailboxAdmin(d) ==
    \E w \in Wallets :
        \/ \E i \in Isms : Initialize(d, i, w)
        \/ \E i \in Isms : InboxSetDefaultIsm(d, i, w)
        \/ \E o \in Owners : TransferOwnership(d, o, w)
        \/ \E i \in Isms : IsmInitialize(d, i, w)
        \/ \E i \in Isms, o \in Domains, c \in Configs :
                SetValidatorsAndThreshold(d, i, o, c, w)
        \/ \E i \in Isms, o \in Owners : IsmTransferOwnership(d, i, o, w)
----------------------------------------------------------------------------
MailboxTypeOK ==
    /\ inbox \in [Domains -> {None} \cup InboxAccount]
    /\ outbox \in [Domains -> {None} \cup OutboxAccount]
    /\ \A d \in Domains :
        /\ DOMAIN dispatched[d] \subseteq UniqueKeys
        /\ \A u \in DOMAIN dispatched[d] : dispatched[d][u] \in Messages
        /\ \A m \in DOMAIN processed[d] : m \in Messages /\ processed[d][m] \in Nat
        /\ principal[d] \in Seq(Principals)
    /\ ismOwner \in [Domains -> [Isms -> {None} \cup Owners]]
    /\ domainData \in
            [Domains -> [Isms -> [Domains -> {None} \cup Configs \cup {DeployedConfig}]]]
    /\ admin \in 0..MaxAdmin

(* The accounts of the dispatched messages and the outbox tree agree: the  *)
(* messages stored are exactly the leaves, one account per nonce.  The     *)
(* indexer of the agents finds a message by searching for the account of   *)
(* its nonce, and the validators sign the leaf of that index.              *)
DispatchedIndexExact ==
    \A d \in Domains : outbox[d] # None =>
        LET tree == outbox[d].tree
        IN  /\ Cardinality(DOMAIN dispatched[d]) = Len(tree)
            /\ \A n \in 1..Len(tree) :
                \E u \in DOMAIN dispatched[d] :
                    dispatched[d][u] = tree[n] /\ tree[n].nonce = n - 1

(* Every message an inbox accepted was dispatched on its origin chain by   *)
(* the principal it names as its sender, whatever the faulty validators    *)
(* sign, whoever relays it and however the owners changed the ISMs: the    *)
(* configurations that Validate lets in always need an honest signature.   *)
NoForgedDelivery ==
    \A d \in Domains : \A m \in DOMAIN processed[d] :
        /\ Genuine(m)
        /\ principal[m.origin][m.nonce + 1] = m.sender
============================================================================
