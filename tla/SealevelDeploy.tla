--------------------------- MODULE SealevelDeploy ---------------------------
(***************************************************************************)
(* deploy_routers of the Sealevel client (sealevel/client/src/router.rs)   *)
(* with its two deployers, for warp routes and for HelloWorld.  The tool   *)
(* is a sequence of reads and transactions that is run again after it      *)
(* failed, was interrupted, or found a new configuration; what survives a  *)
(* run are the accounts on the chains, the key files and program-ids.json. *)
(* A key file is never overwritten here, so a program id is the name of    *)
(* its key file: the program's name with the chain's.                      *)
(***************************************************************************)
EXTENDS Naturals, FiniteSets, Functions

CONSTANTS
    Applications,    \* sets of configuration files of one application; a file
                     \* is a function from chains to TokenConfig records
    Payer,           \* the client's payer
    DefaultIgp,      \* the overhead IGP account of the core deployment
    FundingAmount,   \* ata_payer_funding_amount, 0 when it is not given
    GasDefault(_),   \* gas_overhead_default of a token type
    MaxRuns          \* bound: runs of the tool

VARIABLES
    configs,         \* the configuration files of the application deployed
    keyFiles,        \* the key files in the keys directory
    deployed,        \* program accounts on the chains, by id
    programStorage,  \* programStorage[id]: the token or storage account of a program
    ataBalance,      \* the lamports of ATA payers
    programIds,      \* program-ids.json: chain |-> id
    settled,         \* history: {config} when the last change was made for config
    runs,
    deployJob        \* the running tool; sent counts its transactions, but for
                     \* the funding of ATA payers

deployVars == <<configs, keyFiles, deployed, programStorage, ataBalance, programIds,
                settled, runs, deployJob>>

NoMap == [x \in {} |-> x]
Put(map, key, value) == [k \in DOMAIN map \cup {key} |-> IF k = key THEN value ELSE map[k]]

Idle == [pc |-> "idle"]

(* RouterConfig: a foreign deployment is enrolled and never deployed to.   *)
Foreign(config) == {c \in DOMAIN config : config[c].foreign # <<>>}
ToDeploy(config) == DOMAIN config \ Foreign(config)

(* program_name *)
ProgramId(c, type) == <<type, c>>

AppTypes == {"native", "synthetic", "collateral", "helloworld"}
AppChains == UNION {UNION {DOMAIN config : config \in application} : application \in Applications}

(* id is not the program of another chain than c. *)
NamesChain(id, c) == \A d \in AppChains, type \in AppTypes : id = ProgramId(d, type) => d = c

(* A foreign deployment is a contract on its own chain: its address is not *)
(* that of a program which the tool deploys to another chain.              *)
ASSUME DeployAssumption ==
    \A application \in Applications : \A config \in application : \A c \in DOMAIN config :
        /\ config[c].type \in AppTypes
        /\ config[c].foreign # <<>> => NamesChain(config[c].foreign[1], c)

(* OptionalOwnableConfig::owner *)
ExpectedOwner(app) == IF app.owner = <<>> THEN Payer ELSE app.owner[1]

DeployInit ==
    /\ configs \in Applications
    /\ keyFiles = {}
    /\ deployed = {}
    /\ programStorage = NoMap
    /\ ataBalance = NoMap
    /\ programIds = NoMap
    /\ settled = {}
    /\ runs = 0
    /\ deployJob = Idle

App == deployJob.config[deployJob.chain]
Id == deployJob.routers[deployJob.chain]
At(pc) == deployJob.pc = pc
Goto(pc) == deployJob' = [deployJob EXCEPT !.pc = pc]

(* Any failed call, a refused transaction, an interrupt or the user's n    *)
(* ends the process with a panic.                                          *)
Panic == deployJob' = Idle

(* TxnBuilder::send.  Without the payer's key the transaction is printed   *)
(* and the user confirms it, having had it executed or not; with the key   *)
(* it is confirmed before the tool goes on, or the tool panics.            *)
Send(id, accepted, account, next) ==
    LET Sent == deployJob' = [deployJob EXCEPT !.pc = next, !.sent = @ + 1]
    IN  \/ accepted /\ programStorage' = Put(programStorage, id, account) /\ Sent
        \/ ~deployJob.canSign /\ UNCHANGED programStorage /\ Sent
        \/ deployJob.canSign /\ ~accepted /\ UNCHANGED programStorage /\ Panic

(* The instructions of the owner have the payer's signature only.          *)
Owned(id) == programStorage[id].owner = Payer

(* read_router_program_ids, and the foreign deployments of the file. *)
StartDeploy(config, canSign) ==
    /\ At("idle") /\ runs < MaxRuns
    /\ runs' = runs + 1
    /\ deployJob' = [pc |-> "next", config |-> config, canSign |-> canSign, chain |-> 0,
               existing |-> programIds, todo |-> ToDeploy(config),
               routers |-> [c \in Foreign(config) |-> config[c].foreign[1]],
               sent |-> 0, quiet |-> config \in settled]
    /\ settled' = settled \cap {config}
    /\ UNCHANGED <<keyFiles, deployed, programStorage, ataBalance, programIds>>

(* The loops go over hash maps, in any order. *)
NextChain(pc, body, after) ==
    /\ At(pc)
    /\ \/ \E c \in deployJob.todo :
            deployJob' = [deployJob EXCEPT !.pc = body, !.chain = c, !.todo = @ \ {c}]
       \/ deployJob.todo = {} /\ deployJob' = [deployJob EXCEPT !.pc = after,
                                               !.todo = ToDeploy(deployJob.config)]
    /\ UNCHANGED <<keyFiles, deployed, programStorage, ataBalance, programIds, settled, runs>>

Recovered ==
    /\ deployJob.chain \in DOMAIN deployJob.existing
    /\ deployJob.existing[deployJob.chain] \in deployed

(* create_and_write_keypair, with use_existing_key *)
WriteKeypair ==
    /\ At("deploy") /\ ~Recovered
    /\ keyFiles' = keyFiles \cup {ProgramId(deployJob.chain, App.type)}
    /\ Goto("program")
    /\ UNCHANGED <<deployed, programStorage, ataBalance, programIds, settled, runs>>

UseProgram(id) ==
    deployJob' = [deployJob EXCEPT !.pc = "fund", !.routers = Put(@, deployJob.chain, id)]

RecoverProgram ==
    /\ At("deploy") /\ Recovered
    /\ UseProgram(deployJob.existing[deployJob.chain])
    /\ UNCHANGED <<keyFiles, deployed, programStorage, ataBalance, programIds, settled, runs>>

(* deploy_program_idempotent; payer_keypair_path is needed in any case. *)
DeployProgram ==
    /\ At("program")
    /\ LET id == ProgramId(deployJob.chain, App.type)
       IN  IF deployJob.canSign
           THEN deployed' = deployed \cup {id} /\ UseProgram(id)
           ELSE UNCHANGED deployed /\ Panic
    /\ UNCHANGED <<keyFiles, programStorage, ataBalance, programIds, settled, runs>>

(* fund_ata_payer_up_to *)
FundAtaPayer ==
    /\ At("fund")
    /\ LET balances == IF Id \in DOMAIN ataBalance THEN ataBalance ELSE Put(ataBalance, Id, 0)
           short == App.type \in {"synthetic", "collateral"} /\ balances[Id] < FundingAmount
       IN  \/ ~short /\ ataBalance' = balances /\ Goto("init")
           \/ short /\ Goto("init")
              /\ \/ ataBalance' = Put(balances, Id, FundingAmount)
                 \/ ~deployJob.canSign /\ ataBalance' = balances
    /\ UNCHANGED <<keyFiles, deployed, programStorage, programIds, settled, runs>>

(* init_program_idempotent: the initialized account.  A warp route belongs *)
(* to the payer that signs and has the overhead IGP unless an IGP is       *)
(* configured; HelloWorld gets the configured owner and no IGP.            *)
NewAccount(app) ==
    [owner |-> IF app.type = "helloworld" THEN ExpectedOwner(app) ELSE Payer,
     ism |-> app.ism,
     igp |-> CASE app.type = "helloworld" -> <<>>
               [] app.igp = <<>> -> <<DefaultIgp>>
               [] OTHER -> app.igp,
     routers |-> NoMap, gas |-> NoMap]

InitRouter ==
    /\ At("init")
    /\ \/ Id \in DOMAIN programStorage /\ Goto("ism") /\ UNCHANGED programStorage
       \/ Id \notin DOMAIN programStorage /\ Send(Id, TRUE, NewAccount(App), "ism")
    /\ UNCHANGED <<keyFiles, deployed, ataBalance, programIds, settled, runs>>

(* A step of the configuration reads the account, which panics when there  *)
(* is none, and sends a transaction if the account is not as expected.     *)
ConfigureRouter(pc, field, expected, next) ==
    /\ At(pc)
    /\ \/ Id \notin DOMAIN programStorage /\ Panic /\ UNCHANGED programStorage
       \/ /\ Id \in DOMAIN programStorage
          /\ IF programStorage[Id][field] = expected THEN Goto(next) /\ UNCHANGED programStorage
             ELSE Send(Id, Owned(Id), [programStorage[Id] EXCEPT ![field] = expected], next)
    /\ UNCHANGED <<keyFiles, deployed, ataBalance, programIds, settled, runs>>

(* configure_connection_client: the ISM and the IGP, which the program of  *)
(* HelloWorld has no instruction to change.                                *)
ExpectedIgp == IF App.type = "helloworld" THEN programStorage[Id].igp ELSE App.igp

ConfigureIsm == ConfigureRouter("ism", "ism", App.ism, "igp")

\* A faulty variant: the IGP set at initialization stays when none is configured.
ConfigureIgpIfAny ==
    ConfigureRouter("igp", "igp",
                    IF App.igp = <<>> THEN programStorage[Id].igp ELSE ExpectedIgp, "owner")

ConfigureIgp == ConfigureRouter("igp", "igp", ExpectedIgp, "owner")

(* configure_owner; HelloWorld's set_owner_instruction is unimplemented. *)
TransferUnimplemented == App.type = "helloworld" /\ programStorage[Id].owner # ExpectedOwner(App)

ConfigureOwner ==
    IF At("owner") /\ Id \in DOMAIN programStorage /\ TransferUnimplemented
    THEN Panic /\ UNCHANGED <<keyFiles, deployed, programStorage, ataBalance, programIds,
                              settled, runs>>
    ELSE ConfigureRouter("owner", "owner", ExpectedOwner(App), "next")

(* enroll_all_remote_routers: the routers of all other chains, also of     *)
(* foreign deployments, and no others.                                     *)
ExpectedRouters(c) == Restrict(deployJob.routers, DOMAIN deployJob.routers \ {c})

EnrollRouters == ConfigureRouter("enroll", "routers", ExpectedRouters(deployJob.chain), "enrolling")

(* post_deploy of the warp routes; HelloWorld has none. *)
ExpectedGas(c) == [d \in DOMAIN deployJob.config \ {c} |-> GasDefault(deployJob.config[d].type)]

PostDeploy ==
    ConfigureRouter("gas", "gas",
              IF App.type = "helloworld" THEN programStorage[Id].gas
              ELSE ExpectedGas(deployJob.chain),
              "gassing")

(* write_router_program_ids, foreign deployments included. *)
WriteProgramIds ==
    /\ At("write")
    /\ programIds' = deployJob.routers
    /\ Goto("done")
    /\ settled' = IF deployJob.canSign \/ deployJob.sent = 0 THEN {deployJob.config} ELSE settled
    /\ UNCHANGED <<keyFiles, deployed, programStorage, ataBalance, runs>>

EndDeploy ==
    /\ At("done")
    /\ deployJob' = Idle
    /\ UNCHANGED <<keyFiles, deployed, programStorage, ataBalance, programIds, settled, runs>>

Interrupt ==
    /\ ~At("idle") /\ ~At("done")
    /\ Panic
    /\ UNCHANGED <<keyFiles, deployed, programStorage, ataBalance, programIds, settled, runs>>

\* Deliveries make the program pay for token accounts.
SpendAtaPayer ==
    /\ \E id \in DOMAIN ataBalance :
        ataBalance[id] > 0 /\ ataBalance' = [ataBalance EXCEPT ![id] = 0]
    /\ UNCHANGED <<keyFiles, deployed, programStorage, programIds, settled, runs, deployJob>>

DeployStep ==
    \/ NextChain("next", "deploy", "enrolling")
    \/ WriteKeypair \/ RecoverProgram \/ DeployProgram \/ FundAtaPayer
    \/ InitRouter \/ ConfigureIsm \/ ConfigureIgp \/ ConfigureOwner
    \/ NextChain("enrolling", "enroll", "gassing") \/ EnrollRouters
    \/ NextChain("gassing", "gas", "write") \/ PostDeploy
    \/ WriteProgramIds

DeployNext ==
    /\ UNCHANGED configs
    /\ \/ \E config \in configs, canSign \in BOOLEAN : StartDeploy(config, canSign)
       \/ DeployStep \/ EndDeploy \/ Interrupt \/ SpendAtaPayer

DeploySpec == DeployInit /\ [][DeployNext]_deployVars
----------------------------------------------------------------------------
AsConfigured(c) ==
    LET app == deployJob.config[c]
        s == programStorage[deployJob.routers[c]]
    IN  /\ s.ism = app.ism
        /\ s.owner = ExpectedOwner(app)
        /\ s.routers = ExpectedRouters(c)
        /\ app.type # "helloworld" => s.igp = app.igp /\ s.gas = ExpectedGas(c)

(* Once the programs are configured, the payer may enroll routers and set  *)
(* gas where the configuration names no other owner, and nowhere else:     *)
(* router.rs:389 hands a program over before router.rs:399 enrolls.        *)
EnrollsItsOwn ==
    deployJob.pc \in {"enroll", "gas"} /\ deployJob.canSign =>
        (Owned(Id) <=> ExpectedOwner(App) = Payer)

(* However often earlier runs were interrupted, for this configuration or  *)
(* another: a run that ends has made every chain as its configuration      *)
(* says, if it signed its transactions itself or found none to send, its   *)
(* routers know each other and are the ones in program-ids.json, and a run *)
(* after one for the same configuration sends nothing ("Idempotent").      *)
(* A run that signs itself does not end if it has still routers to enroll  *)
(* or gas to set in a program that it has handed over, and only then is it *)
(* refused there.                                                          *)
DeployConverges ==
    /\ deployJob.pc = "done" =>
        /\ programIds = deployJob.routers
        /\ deployJob.canSign \/ deployJob.sent = 0 =>
            \A c \in ToDeploy(deployJob.config) : AsConfigured(c)
        /\ deployJob.quiet => deployJob.sent = 0
    /\ EnrollsItsOwn
=============================================================================
