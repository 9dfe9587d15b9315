---------------------------- MODULE SealevelCore ----------------------------
(***************************************************************************)
(* The client's commands for the core of a Sealevel chain (core.rs,        *)
(* multisig_ism.rs, igp.rs): "core deploy" deploys and initializes four    *)
(* programs and two accounts of the IGP with a transaction each and writes *)
(* program-ids.json at the end; the other commands configure what it has   *)
(* deployed.  A run may be interrupted after any step.  An account is      *)
(* <<kind, key>>, with a salt for the accounts of the IGP.                 *)
(***************************************************************************)
EXTENDS Naturals, Sequences, FiniteSets, Functions

CONSTANTS
    LocalDomain,
    RemoteDomains,   \* --remote-domains
    OracleFiles,     \* gas oracle files: functions from domains to <<data>> or <<>>
    OverheadFiles,   \* the same for gas overheads
    DefaultOracle,   \* the oracle data of a remote domain without a configuration
    IsmFiles,        \* multisig ISM files: functions from domains to
                     \* [validators, threshold], validators a sequence
    Contexts,        \* the contexts of IGP accounts
    MaxKeys,         \* bound: key pairs created
    MaxCommands      \* bound: commands run

VARIABLES
    keys,            \* the key files: program |-> key, 0 when there is none
    created,         \* key pairs created
    accounts,        \* the accounts on the chain
    coreIds,         \* core/program-ids.json: <<ids>> or <<>>
    igpFiles,        \* igp-accounts.json of each context
    handSet,         \* history: Mailboxes whose default ISM a command has set
    commands,
    task             \* the running command

coreVars == <<keys, created, accounts, coreIds, igpFiles, handSet, commands, task>>

CorePrograms == {"ism", "mailbox", "va", "igp"}
PayerKey == "payer"
NoTask == [pc |-> "none"]
Empty == [x \in {} |-> x]
Overlay(map, key, value) == [k \in DOMAIN map \cup {key} |-> IF k = key THEN value ELSE map[k]]

(* get_context_salt: the default context has the salt zero. *)
Salt(context) == IF context = "default" THEN "zero" ELSE context

IgpAccount(key, salt) == <<"igpAccount", key, salt>>
OverheadAccount(key, salt) == <<"overheadAccount", key, salt>>

CoreInit ==
    /\ keys = [p \in CorePrograms |-> 0]
    /\ created = 0
    /\ accounts = Empty
    /\ coreIds = <<>>
    /\ igpFiles = [c \in Contexts |-> [igp |-> <<>>, overhead |-> <<>>]]
    /\ handSet = {}
    /\ commands = 0
    /\ task = NoTask

Doing(pc) == task.pc = pc
Now(pc) == [task EXCEPT !.pc = pc]

(* TxnBuilder::send: a transaction that is refused makes the tool panic.   *)
(* Without the payer's key it is printed, and the user confirms that it    *)
(* was executed, or says so.                                               *)
Transact(accepted, address, account, next) ==
    \/ accepted /\ accounts' = Overlay(accounts, address, account) /\ task' = next
    \/ ~task.canSign /\ UNCHANGED accounts /\ task' = next
    \/ task.canSign /\ ~accepted /\ UNCHANGED accounts /\ task' = NoTask

(* Initialization is refused when the account exists. *)
InitializeCommand(address, account, next) ==
    Transact(address \notin DOMAIN accounts, address, account, Now(next))

(* The instructions of the owner, with the payer's signature. *)
OwnedByPayer(address) == address \in DOMAIN accounts /\ accounts[address].owner = PayerKey

(* set_gas_oracle_configs and set_destination_gas_overheads: a domain      *)
(* without data is removed.                                                *)
SetEntries(map, entries) ==
    [d \in {d \in DOMAIN map \cup DOMAIN entries : d \in DOMAIN entries => entries[d] # <<>>}
        |-> IF d \in DOMAIN entries THEN entries[d][1] ELSE map[d]]

SetEntriesOf(address, field, entries, next) ==
    IF entries = Empty THEN task' = Now(next) /\ UNCHANGED accounts
    ELSE Transact(OwnedByPayer(address), address,
                  [accounts[address] EXCEPT ![field] = SetEntries(@, entries)], Now(next))

Start(new) ==
    /\ Doing("none") /\ commands < MaxCommands
    /\ commands' = commands + 1
    /\ task' = new
    /\ UNCHANGED <<keys, created, accounts, coreIds, igpFiles, handSet>>
----------------------------------------------------------------------------
(* core deploy *)
StartCoreDeploy(useExisting, oracles, overheads) ==
    Start([pc |-> "key", program |-> "ism", useExisting |-> useExisting,
           oracles |-> oracles, overheads |-> overheads,
           ids |-> [p \in CorePrograms |-> <<p, 0>>], canSign |-> TRUE])

(* create_and_write_keypair, and deploy_program, which deploys or upgrades. *)
CreateKeypair ==
    /\ Doing("key")
    /\ LET p == task.program
           reuse == task.useExisting /\ keys[p] # 0
           key == IF reuse THEN keys[p] ELSE created + 1
       IN  /\ reuse \/ created < MaxKeys
           /\ created' = IF reuse THEN created ELSE created + 1
           /\ keys' = [keys EXCEPT ![p] = key]
           /\ task' = [task EXCEPT !.pc = "init", !.ids[p] = <<p, key>>]
    /\ UNCHANGED <<accounts, coreIds, igpFiles, handSet, commands>>

NextProgram(p) == CASE p = "ism" -> "mailbox" [] p = "mailbox" -> "va" [] p = "va" -> "igp"

DeployIsm ==
    /\ Doing("init") /\ task.program = "ism"
    /\ InitializeCommand(task.ids.ism, [owner |-> PayerKey, domains |-> Empty], "deployed")

DeployMailbox ==
    /\ Doing("init") /\ task.program = "mailbox"
    /\ InitializeCommand(task.ids.mailbox, [owner |-> PayerKey, ism |-> task.ids.ism], "deployed")

DeployValidatorAnnounce ==
    /\ Doing("init") /\ task.program = "va"
    /\ InitializeCommand(task.ids.va, [mailbox |-> task.ids.mailbox], "deployed")

DeployIgp ==
    /\ Doing("init") /\ task.program = "igp"
    /\ InitializeCommand(task.ids.igp, [initialized |-> TRUE], "igpAccount")

GotoNextProgram ==
    /\ Doing("deployed")
    /\ task' = [task EXCEPT !.pc = "key", !.program = NextProgram(@)]
    /\ UNCHANGED accounts

NewIgpAccount == [owner |-> PayerKey, beneficiary |-> PayerKey, oracles |-> Empty]
NewOverheadAccount(inner) == [owner |-> PayerKey, inner |-> inner, overheads |-> Empty]

CoreIgp == IgpAccount(task.ids.igp[2], "zero")
CoreOverhead == OverheadAccount(task.ids.igp[2], "zero")

InitCoreIgp ==
    Doing("igpAccount") /\ InitializeCommand(CoreIgp, NewIgpAccount, "overheadAccount")

InitCoreOverhead ==
    /\ Doing("overheadAccount")
    /\ InitializeCommand(CoreOverhead, NewOverheadAccount(CoreIgp), "oracles")

(* The entries of the file that are not about the local domain, and the    *)
(* default for every remote domain that the file does not have.            *)
OracleConfigs(file) ==
    [d \in (DOMAIN file \ {LocalDomain}) \cup RemoteDomains |->
        IF d \in DOMAIN file \ {LocalDomain} THEN file[d] ELSE <<DefaultOracle>>]

RemoteConfigs(file) == Restrict(file, DOMAIN file \ {LocalDomain})

SetCoreOracles ==
    /\ Doing("oracles")
    /\ SetEntriesOf(CoreIgp, "oracles", OracleConfigs(task.oracles), "overheads")

SetCoreOverheads ==
    /\ Doing("overheads")
    /\ SetEntriesOf(CoreOverhead, "overheads", RemoteConfigs(task.overheads), "write")

WriteCoreIds ==
    /\ Doing("write")
    /\ coreIds' = <<[ism |-> task.ids.ism, mailbox |-> task.ids.mailbox, va |-> task.ids.va,
                     igp |-> task.ids.igp, igpAccount |-> CoreIgp, overhead |-> CoreOverhead]>>
    /\ task' = Now("coreDone")
    /\ UNCHANGED <<keys, created, accounts, igpFiles, handSet, commands>>
----------------------------------------------------------------------------
(* multisig-ism-message-id configure: the domains of the file in any       *)
(* order, each unless the account has its validators, as a set, and        *)
(* threshold.                                                              *)
StartConfigureIsm(ism, file, canSign) ==
    /\ ism \in DOMAIN accounts
    /\ Start([pc |-> "configure", ism |-> ism, file |-> file, todo |-> DOMAIN file,
              canSign |-> canSign])

Matches(domains, d, config) ==
    /\ d \in DOMAIN domains
    /\ Range(domains[d].validators) = Range(config.validators)
    /\ domains[d].threshold = config.threshold

(* ValidatorsAndThreshold::validate *)
Valid(config) ==
    /\ config.threshold \in 1..Len(config.validators)
    /\ Cardinality(Range(config.validators)) = Len(config.validators)

SetValidatorsCommand(ism, d, config, next) ==
    Transact(OwnedByPayer(ism) /\ Valid(config), ism,
             [accounts[ism] EXCEPT !.domains = Overlay(@, d, config)], next)

ConfigureDomain ==
    /\ Doing("configure")
    /\ \E d \in task.todo :
        LET config == task.file[d]
            next == [task EXCEPT !.todo = @ \ {d}]
        IN  IF Matches(accounts[task.ism].domains, d, config)
            THEN task' = next /\ UNCHANGED accounts
            ELSE SetValidatorsCommand(task.ism, d, config, next)

(* igp init-igp-account and init-overhead-igp-account: an account that     *)
(* exists is kept, its configuration is always set.                        *)
StartIgpAccount(program, context, file, canSign) ==
    /\ program \in DOMAIN accounts
    /\ Start([pc |-> "initIgp", address |-> IgpAccount(program[2], Salt(context)),
              context |-> context, file |-> file, canSign |-> canSign,
              artifacts |-> igpFiles[context]])

StartOverheadAccount(program, context, inner, file, canSign) ==
    /\ program \in DOMAIN accounts
    /\ Start([pc |-> "initOverhead", address |-> OverheadAccount(program[2], Salt(context)),
              context |-> context, inner |-> inner, file |-> file, canSign |-> canSign,
              artifacts |-> igpFiles[context]])

InitIgpAccount ==
    /\ Doing("initIgp")
    /\ IF task.address \in DOMAIN accounts
       THEN task' = Now("configureIgp") /\ UNCHANGED accounts
       ELSE InitializeCommand(task.address, NewIgpAccount, "configureIgp")

ConfigureIgpAccount ==
    /\ Doing("configureIgp")
    /\ SetEntriesOf(task.address, "oracles", RemoteConfigs(task.file), "writeIgp")

InitOverheadAccount ==
    /\ Doing("initOverhead")
    /\ IF task.address \in DOMAIN accounts
       THEN task' = Now("configureOverhead") /\ UNCHANGED accounts
       ELSE InitializeCommand(task.address, NewOverheadAccount(task.inner), "configureOverhead")

ConfigureOverheadAccount ==
    /\ Doing("configureOverhead")
    /\ SetEntriesOf(task.address, "overheads", RemoteConfigs(task.file), "writeOverhead")

\* A faulty variant: the file has the account of this run only.
WriteIgpFileAnew(pc, field) ==
    /\ Doing(pc)
    /\ igpFiles' = [igpFiles EXCEPT ![task.context] =
                        [f \in {"igp", "overhead"} |-> IF f = field THEN <<task.address>>
                                                       ELSE <<>>]]
    /\ task' = Now("igpDone")
    /\ UNCHANGED <<keys, created, accounts, coreIds, handSet, commands>>

(* The file keeps the other account that was read when the command began. *)
WriteIgpFile(pc, field) ==
    /\ Doing(pc)
    /\ igpFiles' = [igpFiles EXCEPT ![task.context] =
                        [task.artifacts EXCEPT ![field] = <<task.address>>]]
    /\ task' = Now("igpDone")
    /\ UNCHANGED <<keys, created, accounts, coreIds, handSet, commands>>
----------------------------------------------------------------------------
(* Commands of one transaction.  The ones about gas take the accounts from *)
(* program-ids.json.                                                       *)
OwnerCommand(address, account) ==
    /\ Doing("none") /\ commands < MaxCommands
    /\ OwnedByPayer(address)
    /\ commands' = commands + 1
    /\ accounts' = [accounts EXCEPT ![address] = account]
    /\ UNCHANGED <<keys, created, coreIds, igpFiles, task>>

SetDefaultIsm(mailbox, ism) ==
    /\ OwnerCommand(mailbox, [accounts[mailbox] EXCEPT !.ism = ism])
    /\ handSet' = handSet \cup {mailbox}

SetGasOracle(d, data) ==
    /\ coreIds # <<>>
    /\ LET address == coreIds[1].igpAccount
       IN  OwnerCommand(address,
                        [accounts[address] EXCEPT !.oracles = SetEntries(@, [x \in {d} |-> data])])
    /\ UNCHANGED handSet

SetGasOverhead(d, data) ==
    /\ coreIds # <<>>
    /\ LET address == coreIds[1].overhead
       IN  OwnerCommand(address,
                        [accounts[address] EXCEPT
                            !.overheads = SetEntries(@, [x \in {d} |-> data])])
    /\ UNCHANGED handSet

SetBeneficiary(address, beneficiary) ==
    /\ OwnerCommand(address, [accounts[address] EXCEPT !.beneficiary = beneficiary])
    /\ UNCHANGED handSet

TransferOwnershipCommand(address, owner) ==
    /\ OwnerCommand(address, [accounts[address] EXCEPT !.owner = owner])
    /\ UNCHANGED handSet

EndTask ==
    /\ \/ task.pc \in {"coreDone", "igpDone"}
       \/ Doing("configure") /\ task.todo = {}
    /\ task' = NoTask
    /\ UNCHANGED <<keys, created, accounts, coreIds, igpFiles, handSet, commands>>

InterruptTask ==
    /\ ~Doing("none") /\ ~Doing("coreDone") /\ ~Doing("igpDone")
    /\ task' = NoTask
    /\ UNCHANGED <<keys, created, accounts, coreIds, igpFiles, handSet, commands>>

OfKind(kind) == {a \in DOMAIN accounts : a[1] = kind}

StartCommand ==
    \/ \E useExisting \in BOOLEAN, oracles \in OracleFiles, overheads \in OverheadFiles :
        StartCoreDeploy(useExisting, oracles, overheads)
    \/ \E ism \in OfKind("ism"), file \in IsmFiles, canSign \in BOOLEAN :
        StartConfigureIsm(ism, file, canSign)
    \/ \E program \in OfKind("igp"), context \in Contexts, file \in OracleFiles,
          canSign \in BOOLEAN : StartIgpAccount(program, context, file, canSign)
    \/ \E program \in OfKind("igp"), context \in Contexts, file \in OverheadFiles,
          inner \in OfKind("igpAccount"), canSign \in BOOLEAN :
            StartOverheadAccount(program, context, inner, file, canSign)

AccountStep ==
    /\ \/ DeployIsm \/ DeployMailbox \/ DeployValidatorAnnounce \/ DeployIgp
       \/ GotoNextProgram \/ InitCoreIgp \/ InitCoreOverhead
       \/ SetCoreOracles \/ SetCoreOverheads
       \/ ConfigureDomain
       \/ InitIgpAccount \/ ConfigureIgpAccount
       \/ InitOverheadAccount \/ ConfigureOverheadAccount
    /\ UNCHANGED <<keys, created, coreIds, igpFiles, handSet, commands>>

ShortCommand ==
    \/ \E mailbox \in OfKind("mailbox"), ism \in OfKind("ism") : SetDefaultIsm(mailbox, ism)
    \/ \E d \in RemoteDomains : SetGasOracle(d, <<2>>) \/ SetGasOverhead(d, <<2>>)
    \/ \E a \in OfKind("igpAccount") : SetBeneficiary(a, "other")
    \/ \E a \in OfKind("mailbox") \cup OfKind("ism") \cup OfKind("igpAccount")
                \cup OfKind("overheadAccount") : TransferOwnershipCommand(a, "other")

CoreNext ==
    \/ StartCommand \/ CreateKeypair \/ AccountStep \/ WriteCoreIds
    \/ WriteIgpFile("writeIgp", "igp") \/ WriteIgpFile("writeOverhead", "overhead")
    \/ ShortCommand \/ EndTask \/ InterruptTask

CoreSpec == CoreInit /\ [][CoreNext]_coreVars
----------------------------------------------------------------------------
(* The programs and accounts of program-ids.json were deployed by one run  *)
(* and are initialized for each other, whatever other runs, with the same  *)
(* keys or with new ones, were interrupted before or after.                *)
IdsBelongTogether ==
    coreIds # <<>> =>
        LET ids == coreIds[1]
        IN  /\ \A f \in DOMAIN ids : ids[f] \in DOMAIN accounts
            /\ accounts[ids.mailbox].ism = ids.ism \/ ids.mailbox \in handSet
            /\ accounts[ids.va].mailbox = ids.mailbox
            /\ accounts[ids.overhead].inner = ids.igpAccount
            /\ ids.igpAccount[2] = ids.igp[2] /\ ids.overhead[2] = ids.igp[2]

(* A deployment that ends has an oracle for every remote domain that its   *)
(* file does not remove, and "multisig-ism configure" that ends and signed *)
(* leaves every domain of its file as the file says, also when an earlier  *)
(* run was interrupted or had another file.                                *)
CommandTookEffect ==
    /\ Doing("coreDone") =>
        \A d \in RemoteDomains :
            \/ d \in DOMAIN task.oracles /\ task.oracles[d] = <<>>
            \/ d \in DOMAIN accounts[CoreIgp].oracles
    /\ Doing("configure") /\ task.canSign =>
        \A d \in DOMAIN task.file \ task.todo :
            Matches(accounts[task.ism].domains, d, task.file[d])

(* An account that a context's igp-accounts.json names exists and has the  *)
(* context's salt, and a run for one of the two accounts keeps the other,  *)
(* unless the user only said that a transaction had been executed.         *)
IgpFilesSound ==
    \A c \in Contexts :
        /\ \A f \in {"igp", "overhead"} :
            igpFiles[c][f] # <<>> => igpFiles[c][f][1][3] = Salt(c)
        /\ Doing("igpDone") /\ task.canSign /\ task.context = c =>
            /\ task.address \in DOMAIN accounts
            /\ \A f \in {"igp", "overhead"} :
                task.artifacts[f] # <<>> => igpFiles[c][f] # <<>>

CoreSound == IdsBelongTogether /\ CommandTookEffect /\ IgpFilesSound
=============================================================================
