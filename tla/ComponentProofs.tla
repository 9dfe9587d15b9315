-------------------------- MODULE ComponentProofs --------------------------
(***************************************************************************)
(* What the client, the scraper, the chain adapters, the settings of an    *)
(* agent and the incremental Merkle tree promise, for every value of their *)
(* constants: any application and its configuration files, any files of    *)
(* the core commands, any chain that the scraper or an adapter reads, any  *)
(* nodes, any configuration, any depth and leaves.                         *)
(***************************************************************************)
EXTENDS SealevelDeploy, SealevelCore, Scraper, ChainAdapters, AgentSettings,
        IncrementalTree, SetSums, FiniteSetTheorems, TLAPS

-----------------------------------------------------------------------------
(* The deployment of routers (SealevelDeploy)                              *)

(* A map is a function on its own domain.                                  *)
IsMap(map) == map = [k \in DOMAIN map |-> map[k]]

(* Where the tool is: inside a loop's body, between two bodies, and after  *)
(* each of the three loops.                                                *)
ChainPcs == {"deploy", "program", "fund", "init", "ism", "igp", "owner", "enroll", "gas"}
LoopPcs == {"next", "enrolling", "gassing"}
AfterRouters == {"enrolling", "enroll", "gassing", "gas", "write", "done"}
AfterEnrolling == {"gassing", "gas", "write", "done"}
AfterGas == {"write", "done"}

(* The fields of a running tool and of a program's account.                *)
JobFields ==
    {"pc", "config", "canSign", "chain", "existing", "todo", "routers", "sent", "quiet"}
AccountFields == {"owner", "ism", "igp", "routers", "gas"}

(* The running tool deploys a configuration of the application.            *)
JobOK ==
    \/ deployJob = Idle
    \/ /\ deployJob = [f \in JobFields |-> deployJob[f]]
       /\ deployJob.pc \in ChainPcs \cup LoopPcs \cup AfterGas
       /\ deployJob.config \in configs
       /\ deployJob.canSign \in BOOLEAN /\ deployJob.quiet \in BOOLEAN
       /\ deployJob.sent \in Nat
       /\ deployJob.todo \subseteq ToDeploy(deployJob.config)
       /\ deployJob.pc \in ChainPcs => deployJob.chain \in ToDeploy(deployJob.config)

(* An account of a program is a record.                                    *)
RouterAccountOK(s) == s = [f \in AccountFields |-> s[f]]

(* Ids on the chains are those of programs that the tool may deploy, and   *)
(* an id in program-ids.json is that of one chain only.                    *)
DeployTypesOK ==
    /\ configs \in Applications
    /\ \A id \in deployed : \E d \in AppChains, type \in AppTypes : id = ProgramId(d, type)
    /\ IsMap(programStorage)
    /\ \A id \in DOMAIN programStorage : RouterAccountOK(programStorage[id])
    /\ IsMap(programIds) /\ \A c \in DOMAIN programIds : NamesChain(programIds[c], c)
    /\ JobOK

Running == deployJob # Idle

\* The chains that the current loop has done.
Passed ==
    ToDeploy(deployJob.config) \
        (deployJob.todo \cup (IF deployJob.pc \in ChainPcs THEN {deployJob.chain} ELSE {}))

(* The ids are those of the configuration: the foreign deployments as they *)
(* are written, and a deployed program of its own for every other chain.   *)
IdsOf(config, ids) ==
    /\ IsMap(ids) /\ DOMAIN ids \subseteq DOMAIN config
    /\ \A c \in Foreign(config) : c \in DOMAIN ids /\ ids[c] = config[c].foreign[1]
    /\ \A c \in DOMAIN ids \cap ToDeploy(config) : ids[c] \in deployed /\ NamesChain(ids[c], c)

(* The ids that the tool has collected; after the first loop they are      *)
(* complete.                                                               *)
RoutersOK ==
    /\ IdsOf(deployJob.config, deployJob.routers)
    /\ deployJob.pc \in AfterRouters => DOMAIN deployJob.routers = DOMAIN deployJob.config
    /\ Passed \subseteq DOMAIN deployJob.routers
    /\ deployJob.pc \in {"fund", "init", "ism", "igp", "owner"} =>
        deployJob.chain \in DOMAIN deployJob.routers

(* Chain c is behind the steps that come before pcs.                       *)
Reached(c, pcs) ==
    \/ deployJob.pc \in AfterRouters
    \/ c \in Passed
    \/ c = deployJob.chain /\ deployJob.pc \in pcs

Account(c) == programStorage[deployJob.routers[c]]

(* Chain c is configured as far as the tool has come, while the tool signs *)
(* itself or has had nothing to send.                                      *)
ConfiguredSoFar(c) ==
    LET app == deployJob.config[c] IN
    /\ Reached(c, {"ism", "igp", "owner"}) => deployJob.routers[c] \in DOMAIN programStorage
    /\ Reached(c, {"igp", "owner"}) => Account(c).ism = app.ism
    /\ Reached(c, {"owner"}) /\ app.type # "helloworld" => Account(c).igp = app.igp
    /\ Reached(c, {}) => Account(c).owner = ExpectedOwner(app)
    /\ deployJob.pc \in AfterEnrolling \/ (deployJob.pc \in AfterRouters /\ c \in Passed) =>
        Account(c).routers = ExpectedRouters(c)
    /\ deployJob.pc \in AfterGas \/ (deployJob.pc \in AfterEnrolling /\ c \in Passed) =>
        (app.type # "helloworld" => Account(c).gas = ExpectedGas(c))

\* what a finished run of config left behind
ConfiguredAs(config) ==
    /\ IdsOf(config, programIds) /\ DOMAIN programIds = DOMAIN config
    /\ \A c \in ToDeploy(config) :
        LET app == config[c]
            s == programStorage[programIds[c]]
        IN  /\ programIds[c] \in DOMAIN programStorage
            /\ s.ism = app.ism
            /\ s.owner = ExpectedOwner(app)
            /\ s.routers = Restrict(programIds, DOMAIN programIds \ {c})
            /\ app.type # "helloworld" =>
                /\ s.igp = app.igp
                /\ s.gas = [d \in DOMAIN config \ {c} |-> GasDefault(config[d].type)]

(* History: the configuration that the last change was made for is still   *)
(* how the chains are; a run for it sends nothing.                         *)
SettledOK ==
    /\ \A config \in settled : config \in configs /\ ConfiguredAs(config)
    /\ Running =>
        /\ deployJob.pc # "done" => deployJob.existing = programIds
        /\ deployJob.pc = "done" => programIds = deployJob.routers
        /\ deployJob.quiet =>
            /\ settled = {deployJob.config} /\ deployJob.sent = 0 /\ deployJob.pc # "program"
            /\ \A c \in DOMAIN deployJob.routers : deployJob.routers[c] = programIds[c]
        /\ ~deployJob.quiet /\ deployJob.pc # "done" => settled = {}

(* The invariant is inductive: a run relies on the chains it is done with, *)
(* a repeated run on what the last one settled.                            *)
DeployInv ==
    /\ DeployTypesOK
    /\ Running =>
        /\ RoutersOK
        /\ deployJob.canSign \/ deployJob.sent = 0 =>
            \A c \in ToDeploy(deployJob.config) : ConfiguredSoFar(c)
    /\ SettledOK

-----------------------------------------------------------------------------
(* Two chains of a configuration have two programs, so that configuring    *)
(* one leaves the other as it is.                                          *)
LEMMA DistinctIds ==
    ASSUME DeployTypesOK, NEW config \in configs, NEW ids, IdsOf(config, ids),
           NEW c \in DOMAIN ids \cap ToDeploy(config), NEW d \in DOMAIN ids \cap ToDeploy(config),
           ids[c] = ids[d]
    PROVE  c = d
  BY DEF DeployTypesOK, IdsOf, NamesChain

(* What a finished run left behind stays while accounts and ids do.        *)
LEMMA ConfiguredSame ==
    ASSUME NEW config, ConfiguredAs(config), UNCHANGED <<programStorage, programIds>>,
           deployed \subseteq deployed'
    PROVE  ConfiguredAs(config)'
  BY DEF ConfiguredAs, IdsOf, ToDeploy, Foreign, ExpectedOwner

(* History is kept by a step that changes accounts only in a run that is   *)
(* not a repetition.                                                       *)
LEMMA SettledStep ==
    ASSUME DeployInv, Running, deployJob.pc # "done",
           deployJob' # Idle, deployJob'.pc # "done", deployJob'.config = deployJob.config,
           deployJob'.existing = deployJob.existing, deployJob'.quiet = deployJob.quiet,
           UNCHANGED <<configs, programIds, settled>>, deployed \subseteq deployed',
           deployJob.quiet =>
            /\ UNCHANGED programStorage
            /\ deployJob'.sent = 0 /\ deployJob'.pc # "program"
            /\ \A c \in DOMAIN deployJob'.routers : deployJob'.routers[c] = programIds[c]
    PROVE  SettledOK'
  <1>1. ASSUME NEW config \in settled', ~deployJob.quiet PROVE FALSE
    BY <1>1 DEF DeployInv, SettledOK
  <1>2. ASSUME NEW config \in settled', deployJob.quiet
        PROVE  config \in configs' /\ ConfiguredAs(config)'
    BY <1>2, ConfiguredSame DEF DeployInv, SettledOK
  <1>3. QED
    BY <1>1, <1>2 DEF DeployInv, SettledOK, Running

(* A panic leaves what is on the chains and in the file.                   *)
LEMMA NoJob ==
    ASSUME DeployInv, deployJob' = Idle,
           UNCHANGED <<configs, deployed, programStorage, programIds, settled>>
    PROVE  DeployInv'
  <1>1. DeployTypesOK'
    BY DEF DeployInv, DeployTypesOK, JobOK
  <1>2. \A config \in settled' : config \in configs' /\ ConfiguredAs(config)'
    BY ConfiguredSame DEF DeployInv, SettledOK
  <1>3. QED
    BY <1>1, <1>2 DEF DeployInv, SettledOK, Running

(* A step that is not of the tool changes nothing the invariant names.     *)
LEMMA SameJob ==
    ASSUME DeployInv,
           UNCHANGED <<configs, deployed, programStorage, programIds, settled, deployJob>>
    PROVE  DeployInv'
  <1>1. DeployTypesOK'
    BY DEF DeployInv, DeployTypesOK, JobOK
  <1>2. SettledOK'
    <2>1. \A config \in settled' : config \in configs' /\ ConfiguredAs(config)'
      BY ConfiguredSame DEF DeployInv, SettledOK
    <2>2. QED
      BY <2>1 DEF DeployInv, SettledOK, Running
  <1>3. Running => RoutersOK'
    BY DEF DeployInv, RoutersOK, IdsOf, Passed
  <1>4. ASSUME Running, deployJob.canSign \/ deployJob.sent = 0,
               NEW c \in ToDeploy(deployJob.config)
        PROVE  ConfiguredSoFar(c)'
    BY <1>4 DEF DeployInv, ConfiguredSoFar, Reached, Passed, Account, ExpectedRouters, ExpectedGas
  <1>5. QED
    BY <1>1, <1>2, <1>3, <1>4 DEF DeployInv, Running

(* The loops: the next chain, or the next loop.                            *)
LEMMA NextChainStep ==
    ASSUME DeployInv, UNCHANGED configs, NEW pc, NEW body, NEW after,
           \/ pc = "next" /\ body = "deploy" /\ after = "enrolling"
           \/ pc = "enrolling" /\ body = "enroll" /\ after = "gassing"
           \/ pc = "gassing" /\ body = "gas" /\ after = "write",
           NextChain(pc, body, after)
    PROVE  DeployInv'
  <1>0. Running /\ deployJob.pc = pc /\ pc \in LoopPcs
    <2>1. Idle.pc = "idle"
      BY DEF Idle
    <2>2. QED
      BY <2>1 DEF NextChain, At, Running, LoopPcs
  <1>00. UNCHANGED <<configs, deployed, programStorage, programIds, settled>>
    BY DEF NextChain
  <1>1. CASE \E c \in deployJob.todo :
            deployJob' = [deployJob EXCEPT !.pc = body, !.chain = c, !.todo = @ \ {c}]
    <2>1. PICK c \in deployJob.todo :
            deployJob' = [deployJob EXCEPT !.pc = body, !.chain = c, !.todo = @ \ {c}]
      BY <1>1
    <2>2. DeployTypesOK'
      BY <1>0, <1>00, <2>1 DEF DeployInv, DeployTypesOK, JobOK, Running, JobFields, ChainPcs
    <2>3. /\ deployJob' # Idle /\ deployJob'.pc = body /\ deployJob'.config = deployJob.config
          /\ deployJob'.chain = c /\ deployJob'.todo = deployJob.todo \ {c}
          /\ deployJob'.routers = deployJob.routers /\ deployJob'.sent = deployJob.sent
          /\ deployJob'.canSign = deployJob.canSign /\ deployJob'.existing = deployJob.existing
          /\ deployJob'.quiet = deployJob.quiet
      BY <1>0, <2>1 DEF DeployInv, DeployTypesOK, JobOK, Running, JobFields, Idle
    <2>4. SettledOK'
      BY <1>0, <1>00, <2>3, SettledStep DEF DeployInv, SettledOK, LoopPcs
    <2>5. Passed' = Passed
      BY <1>0, <2>3, c \in deployJob.todo DEF Passed, ChainPcs, LoopPcs
    <2>6. RoutersOK'
      BY <1>0, <1>00, <2>3, <2>5 DEF DeployInv, RoutersOK, IdsOf, AfterRouters, LoopPcs
    <2>7. ASSUME deployJob.canSign \/ deployJob.sent = 0, NEW d \in ToDeploy(deployJob.config)
          PROVE  ConfiguredSoFar(d)'
      <3>1. ConfiguredSoFar(d)
        BY <1>0, <2>7 DEF DeployInv
      <3>2. Account(d)' = Account(d) /\ ExpectedRouters(d)' = ExpectedRouters(d)
            /\ ExpectedGas(d)' = ExpectedGas(d)
        BY <1>00, <2>3 DEF Account, ExpectedRouters, ExpectedGas
      <3>3. CASE pc = "next"
        BY <1>0, <1>00, <2>3, <2>5, <3>1, <3>2, <3>3 DEF ConfiguredSoFar, Reached, AfterRouters,
           AfterEnrolling, AfterGas
      <3>4. CASE pc = "enrolling"
        BY <1>0, <1>00, <2>3, <2>5, <3>1, <3>2, <3>4 DEF ConfiguredSoFar, Reached, AfterRouters,
           AfterEnrolling, AfterGas
      <3>5. CASE pc = "gassing"
        BY <1>0, <1>00, <2>3, <2>5, <3>1, <3>2, <3>5 DEF ConfiguredSoFar, Reached, AfterRouters,
           AfterEnrolling, AfterGas
      <3>6. QED
        BY <3>3, <3>4, <3>5
    <2>8. QED
      BY <2>2, <2>3, <2>4, <2>6, <2>7, <1>0 DEF DeployInv
  <1>2. CASE /\ deployJob.todo = {}
             /\ deployJob' = [deployJob EXCEPT !.pc = after, !.todo = ToDeploy(deployJob.config)]
    <2>2. DeployTypesOK'
      BY <1>0, <1>00, <1>2 DEF DeployInv, DeployTypesOK, JobOK, Running, JobFields, ChainPcs, LoopPcs,
         AfterGas
    <2>3. /\ deployJob' # Idle /\ deployJob'.pc = after /\ deployJob'.config = deployJob.config
          /\ deployJob'.todo = ToDeploy(deployJob.config)
          /\ deployJob'.routers = deployJob.routers /\ deployJob'.sent = deployJob.sent
          /\ deployJob'.canSign = deployJob.canSign /\ deployJob'.existing = deployJob.existing
          /\ deployJob'.quiet = deployJob.quiet
      BY <1>0, <1>2 DEF DeployInv, DeployTypesOK, JobOK, Running, JobFields, Idle
    <2>4. SettledOK'
      BY <1>0, <1>00, <2>3, SettledStep DEF DeployInv, SettledOK, LoopPcs
    <2>5. Passed' = {} /\ Passed = ToDeploy(deployJob.config)
      BY <1>0, <1>2, <2>3 DEF Passed, ChainPcs, LoopPcs
    <2>6. RoutersOK'
      BY <1>0, <1>00, <2>3, <2>5
      DEF DeployInv, RoutersOK, IdsOf, AfterRouters, LoopPcs, ToDeploy, Foreign
    <2>7. ASSUME deployJob.canSign \/ deployJob.sent = 0, NEW d \in ToDeploy(deployJob.config)
          PROVE  ConfiguredSoFar(d)'
      <3>1. ConfiguredSoFar(d) /\ d \in Passed
        BY <1>0, <2>5, <2>7 DEF DeployInv
      <3>2. Account(d)' = Account(d) /\ ExpectedRouters(d)' = ExpectedRouters(d)
            /\ ExpectedGas(d)' = ExpectedGas(d)
        BY <1>00, <2>3 DEF Account, ExpectedRouters, ExpectedGas
      <3>3. CASE pc = "next"
        BY <1>0, <1>00, <2>3, <2>5, <3>1, <3>2, <3>3 DEF ConfiguredSoFar, Reached, AfterRouters,
           AfterEnrolling, AfterGas
      <3>4. CASE pc = "enrolling"
        BY <1>0, <1>00, <2>3, <2>5, <3>1, <3>2, <3>4 DEF ConfiguredSoFar, Reached, AfterRouters,
           AfterEnrolling, AfterGas
      <3>5. CASE pc = "gassing"
        BY <1>0, <1>00, <2>3, <2>5, <3>1, <3>2, <3>5 DEF ConfiguredSoFar, Reached, AfterRouters,
           AfterEnrolling, AfterGas
      <3>6. QED
        BY <3>3, <3>4, <3>5
    <2>8. QED
      BY <2>2, <2>3, <2>4, <2>6, <2>7, <1>0 DEF DeployInv
  <1>3. QED
    BY <1>1, <1>2 DEF NextChain

LEMMA StartDeployStep ==
    ASSUME DeployInv, UNCHANGED configs, NEW config \in configs, NEW canSign \in BOOLEAN,
           StartDeploy(config, canSign)
    PROVE  DeployInv'
  <1>1. deployJob = Idle
    <2>1. \A pc \in ChainPcs \cup LoopPcs \cup AfterGas : pc # "idle"
      BY DEF ChainPcs, LoopPcs, AfterGas
    <2>2. QED
      BY <2>1 DEF DeployInv, DeployTypesOK, JobOK, StartDeploy, At
  <1>2. /\ deployJob' = [f \in JobFields |-> deployJob'[f]]
        /\ deployJob' # Idle /\ deployJob'.pc = "next" /\ deployJob'.config = config
        /\ deployJob'.canSign = canSign /\ deployJob'.todo = ToDeploy(config)
        /\ deployJob'.existing = programIds /\ deployJob'.sent = 0
        /\ deployJob'.routers = [c \in Foreign(config) |-> config[c].foreign[1]]
        /\ deployJob'.quiet = (config \in settled)
    BY DEF StartDeploy, JobFields, Idle
  <1>3. UNCHANGED <<configs, deployed, programStorage, programIds>> /\ settled' = settled \cap {config}
    BY DEF StartDeploy
  <1>4. DeployTypesOK'
    BY <1>2, <1>3 DEF DeployInv, DeployTypesOK, JobOK, ChainPcs, LoopPcs
  <1>5. Passed' = {}
    BY <1>2 DEF Passed, ChainPcs
  <1>6. RoutersOK'
    BY <1>2, <1>3, <1>5 DEF RoutersOK, IdsOf, IsMap, Foreign, ToDeploy, AfterRouters
  <1>7. ASSUME NEW c PROVE ConfiguredSoFar(c)'
    BY <1>2, <1>5 DEF ConfiguredSoFar, Reached, AfterRouters, AfterEnrolling, AfterGas
  <1>8. SettledOK'
    <2>1. \A cfg \in settled' : cfg \in configs' /\ ConfiguredAs(cfg)'
      BY <1>3, ConfiguredSame DEF DeployInv, SettledOK
    <2>2. ASSUME config \in settled, NEW c \in DOMAIN deployJob'.routers
          PROVE  deployJob'.routers[c] = programIds[c]
      BY <1>2, <2>2 DEF DeployInv, SettledOK, ConfiguredAs, IdsOf
    <2>3. QED
      BY <1>2, <1>3, <2>1, <2>2 DEF SettledOK
  <1>9. QED
    BY <1>4, <1>6, <1>7, <1>8 DEF DeployInv

(* A step that gives the chain of the loop a program. *)
LEMMA ProgramUsed ==
    ASSUME DeployInv, Running, deployJob.pc \in {"deploy", "program"}, NEW id,
           UNCHANGED <<configs, programStorage, programIds, settled>>,
           deployed \subseteq deployed', id \in deployed', NamesChain(id, deployJob.chain),
           \A d \in deployed' : \E c \in AppChains, type \in AppTypes : d = ProgramId(c, type),
           deployJob.quiet => id = programIds[deployJob.chain],
           UseProgram(id)
    PROVE  DeployInv'
  <1>1. /\ deployJob' = [f \in JobFields |-> deployJob'[f]]
        /\ deployJob' # Idle /\ deployJob'.pc = "fund" /\ deployJob'.config = deployJob.config
        /\ deployJob'.chain = deployJob.chain /\ deployJob'.todo = deployJob.todo
        /\ deployJob'.routers = Put(deployJob.routers, deployJob.chain, id)
        /\ deployJob'.sent = deployJob.sent /\ deployJob'.quiet = deployJob.quiet
        /\ deployJob'.canSign = deployJob.canSign /\ deployJob'.existing = deployJob.existing
    BY DEF UseProgram, DeployInv, DeployTypesOK, JobOK, Running, JobFields, Idle
  <1>2. deployJob.chain \in ToDeploy(deployJob.config) /\ deployJob.config \in configs
    BY DEF DeployInv, DeployTypesOK, JobOK, Running, ChainPcs
  <1>3. DeployTypesOK'
    BY <1>1, <1>2 DEF DeployInv, DeployTypesOK, JobOK, ChainPcs, Running
  <1>4. Passed' = Passed /\ deployJob.chain \notin Passed
    BY <1>1 DEF Passed, ChainPcs
  <1>5. /\ DOMAIN deployJob'.routers = DOMAIN deployJob.routers \cup {deployJob.chain}
        /\ \A c \in DOMAIN deployJob'.routers :
            deployJob'.routers[c] = IF c = deployJob.chain THEN id ELSE deployJob.routers[c]
        /\ IsMap(deployJob'.routers)
    BY <1>1 DEF Put, IsMap
  <1>6. RoutersOK'
    <2>1. IdsOf(deployJob.config, deployJob.routers) /\ Passed \subseteq DOMAIN deployJob.routers
      BY DEF DeployInv, RoutersOK
    <2>2. IdsOf(deployJob.config, deployJob.routers)'
      BY <1>1, <1>2, <1>5, <2>1 DEF IdsOf, ToDeploy, Foreign
    <2>3. QED
      BY <1>1, <1>4, <1>5, <2>1, <2>2 DEF RoutersOK, AfterRouters
  <1>7. ASSUME deployJob.canSign \/ deployJob.sent = 0, NEW c \in ToDeploy(deployJob.config)
        PROVE  ConfiguredSoFar(c)'
    <2>1. ConfiguredSoFar(c)
      BY <1>7 DEF DeployInv
    <2>2. c \in Passed => Account(c)' = Account(c) /\ deployJob'.routers[c] = deployJob.routers[c]
      BY <1>4, <1>5 DEF Account, DeployInv, RoutersOK
    <2>3. QED
      BY <1>1, <1>4, <2>1, <2>2 DEF ConfiguredSoFar, Reached, AfterRouters, AfterEnrolling, AfterGas
  <1>8. SettledOK'
    BY <1>1, <1>5, SettledStep DEF DeployInv, SettledOK
  <1>9. QED
    BY <1>1, <1>3, <1>6, <1>7, <1>8 DEF DeployInv

(* A step of the configuration of one chain goes on to the next without a  *)
(* transaction, or with one that changed the account, or with one that the *)
(* user printed and may not have executed.                                 *)
LEMMA StepTypes ==
    ASSUME DeployInv, Running, NEW next, NEW sent \in Nat,
           deployJob' = [deployJob EXCEPT !.pc = next, !.sent = sent]
    PROVE  /\ deployJob' = [f \in JobFields |-> deployJob'[f]]
           /\ deployJob' # Idle /\ deployJob'.pc = next /\ deployJob'.config = deployJob.config
           /\ deployJob'.chain = deployJob.chain /\ deployJob'.todo = deployJob.todo
           /\ deployJob'.routers = deployJob.routers /\ deployJob'.sent = sent
           /\ deployJob'.quiet = deployJob.quiet /\ deployJob'.canSign = deployJob.canSign
           /\ deployJob'.existing = deployJob.existing
  BY DEF DeployInv, DeployTypesOK, JobOK, Running, JobFields, Idle

(* The loop that a step belongs to.                                        *)
LoopOf(pc) ==
    CASE pc \in {"fund", "init", "ism", "igp", "owner", "next"} -> "routers"
      [] pc \in {"enroll", "enrolling"} -> "enrolling"
      [] pc \in {"gas", "gassing"} -> "gassing"

StepPcs == {"fund", "init", "ism", "igp", "owner", "enroll", "gas"}

(* A step for one chain: only that chain's account may change, and it is   *)
(* configured up to the next step.                                         *)
LEMMA ChainStep ==
    ASSUME DeployInv, Running, deployJob.pc \in StepPcs,
           NEW next \in (StepPcs \ {"fund"}) \cup LoopPcs, LoopOf(next) = LoopOf(deployJob.pc),
           NEW sent \in {deployJob.sent, deployJob.sent + 1},
           deployJob' = [deployJob EXCEPT !.pc = next, !.sent = sent],
           UNCHANGED <<configs, deployed, programIds, settled>>,
           IsMap(programStorage)', \A id \in DOMAIN programStorage' : RouterAccountOK(programStorage'[id]),
           deployJob.quiet => UNCHANGED programStorage /\ sent = deployJob.sent,
           \A id \in DOMAIN programStorage :
            id # Id => id \in DOMAIN programStorage' /\ programStorage'[id] = programStorage[id],
           deployJob.canSign \/ sent = 0 => ConfiguredSoFar(deployJob.chain)'
    PROVE  DeployInv'
  <1>1. deployJob.sent \in Nat /\ sent \in Nat
        /\ deployJob.chain \in ToDeploy(deployJob.config) /\ deployJob.config \in configs
    BY DEF DeployInv, DeployTypesOK, JobOK, Running, ChainPcs, StepPcs
  <1>2. /\ deployJob' = [f \in JobFields |-> deployJob'[f]]
        /\ deployJob' # Idle /\ deployJob'.pc = next /\ deployJob'.config = deployJob.config
        /\ deployJob'.chain = deployJob.chain /\ deployJob'.todo = deployJob.todo
        /\ deployJob'.routers = deployJob.routers /\ deployJob'.sent = sent
        /\ deployJob'.quiet = deployJob.quiet /\ deployJob'.canSign = deployJob.canSign
        /\ deployJob'.existing = deployJob.existing
    BY <1>1, StepTypes
  <1>3. DeployTypesOK'
    BY <1>1, <1>2 DEF DeployInv, DeployTypesOK, JobOK, Running, ChainPcs, StepPcs, LoopPcs
  <1>4. \/ next \in StepPcs /\ Passed' = Passed
        \/ next \in LoopPcs /\ Passed' \subseteq Passed \cup {deployJob.chain}
    BY <1>1, <1>2 DEF Passed, ChainPcs, StepPcs, LoopPcs
  <1>5. deployJob.chain \in DOMAIN deployJob.routers /\ deployJob.chain \notin Passed
    BY <1>1 DEF DeployInv, RoutersOK, StepPcs, AfterRouters, ToDeploy, Passed, ChainPcs
  <1>6. deployJob.pc \in AfterRouters <=> next \in AfterRouters
    BY DEF LoopOf, StepPcs, LoopPcs, AfterRouters
  <1>7. (deployJob.pc \in AfterEnrolling <=> next \in AfterEnrolling)
        /\ deployJob.pc \notin AfterGas /\ next \notin AfterGas
    BY DEF LoopOf, StepPcs, LoopPcs, AfterEnrolling, AfterGas
  <1>8. RoutersOK'
    BY <1>2, <1>4, <1>5, <1>6 DEF DeployInv, RoutersOK, IdsOf
  <1>9. SettledOK'
    BY <1>2, SettledStep DEF DeployInv, SettledOK, StepPcs, LoopPcs
  <1>10. ASSUME deployJob.canSign \/ sent = 0, NEW c \in ToDeploy(deployJob.config)
         PROVE  ConfiguredSoFar(c)'
    <2>1. CASE c = deployJob.chain
      BY <1>10, <2>1
    <2>2. CASE c # deployJob.chain
      <3>1. ConfiguredSoFar(c)
        BY <1>1, <1>10 DEF DeployInv
      <3>2. c \in Passed' => c \in Passed
        BY <1>4, <2>2
      <3>3. ASSUME c \in DOMAIN deployJob.routers
            PROVE  deployJob.routers[c] # Id
        BY <1>1, <1>5, <2>2, <3>3, DistinctIds DEF DeployInv, RoutersOK, Id
      <3>4. ASSUME Reached(c, {}), deployJob.routers[c] \in DOMAIN programStorage
            PROVE  /\ deployJob.routers[c] \in DOMAIN programStorage'
                   /\ programStorage'[deployJob.routers[c]] = programStorage[deployJob.routers[c]]
        <4>1. c \in DOMAIN deployJob.routers
          BY <3>4, <2>2, <1>10 DEF Reached, DeployInv, RoutersOK, ToDeploy
        <4>2. QED
          BY <3>3, <3>4, <4>1
      <3>5. ExpectedRouters(c)' = ExpectedRouters(c) /\ ExpectedGas(c)' = ExpectedGas(c)
        BY <1>2 DEF ExpectedRouters, ExpectedGas
      <3>6. \A pcs : Reached(c, pcs)' => Reached(c, {})
        BY <1>2, <1>6, <2>2, <3>2 DEF Reached
      <3>7. CASE ~Reached(c, {})
        BY <1>2, <1>7, <3>2, <3>6, <3>7 DEF ConfiguredSoFar, Reached, AfterEnrolling, AfterRouters
      <3>8. CASE Reached(c, {})
        <4>1. \A pcs : Reached(c, pcs)
          BY <3>8 DEF Reached
        <4>2. Account(c)' = Account(c) /\ deployJob'.routers[c] \in DOMAIN programStorage'
          BY <1>2, <3>1, <3>4, <3>8, <4>1 DEF Account, ConfiguredSoFar
        <4>3. QED
          BY <1>2, <1>6, <1>7, <3>1, <3>2, <3>5, <4>1, <4>2 DEF ConfiguredSoFar
      <3>9. QED
        BY <3>7, <3>8
    <2>3. QED
      BY <2>1, <2>2
  <1>11. QED
    BY <1>2, <1>3, <1>8, <1>9, <1>10 DEF DeployInv

(* A run for a settled configuration finds what it expects. *)
LEMMA QuietAccount ==
    ASSUME DeployInv, Running, deployJob.quiet, deployJob.pc \in StepPcs
    PROVE  /\ Id \in DOMAIN programStorage
           /\ programStorage[Id].ism = App.ism
           /\ programStorage[Id].owner = ExpectedOwner(App)
           /\ App.type # "helloworld" =>
                /\ programStorage[Id].igp = App.igp
                /\ programStorage[Id].gas = ExpectedGas(deployJob.chain)
           /\ deployJob.pc = "enroll" =>
                programStorage[Id].routers = ExpectedRouters(deployJob.chain)
  <1>1. deployJob.chain \in ToDeploy(deployJob.config) /\ deployJob.config \in configs
    BY DEF DeployInv, DeployTypesOK, JobOK, Running, ChainPcs, StepPcs
  <1>2. ConfiguredAs(deployJob.config)
    BY DEF DeployInv, SettledOK
  <1>3. deployJob.chain \in DOMAIN deployJob.routers
    BY <1>1 DEF DeployInv, RoutersOK, StepPcs, AfterRouters, ToDeploy
  <1>4. Id = programIds[deployJob.chain]
    BY <1>3 DEF Id, DeployInv, SettledOK
  <1>5. ASSUME deployJob.pc = "enroll" PROVE deployJob.routers = programIds
    <2>1. DOMAIN deployJob.routers = DOMAIN deployJob.config
      BY <1>5 DEF DeployInv, RoutersOK, AfterRouters
    <2>2. DOMAIN programIds = DOMAIN deployJob.config /\ IsMap(programIds) /\ IsMap(deployJob.routers)
      BY <1>2 DEF ConfiguredAs, DeployInv, RoutersOK, IdsOf
    <2>3. \A c \in DOMAIN deployJob.routers : deployJob.routers[c] = programIds[c]
      BY DEF DeployInv, SettledOK
    <2>4. QED
      BY <2>1, <2>2, <2>3 DEF IsMap
  <1>6. QED
    BY <1>1, <1>2, <1>4, <1>5 DEF ConfiguredAs, App, ExpectedGas, ExpectedRouters

(* One lemma for each action of the tool.                                  *)
LEMMA FundStep ==
    ASSUME DeployInv, UNCHANGED configs, FundAtaPayer
    PROVE  DeployInv'
  <1>1. Running /\ deployJob.pc = "fund"
    <2>1. Idle.pc = "idle"
      BY DEF Idle
    <2>2. QED
      BY <2>1 DEF FundAtaPayer, At, Running
  <1>2. deployJob' = [deployJob EXCEPT !.pc = "init", !.sent = deployJob.sent]
    <2>1. deployJob' = [deployJob EXCEPT !.pc = "init"]
      BY DEF FundAtaPayer, Goto
    <2>2. deployJob = [f \in JobFields |-> deployJob[f]]
      BY <1>1 DEF DeployInv, DeployTypesOK, JobOK, Running
    <2>3. QED
      BY <2>1, <2>2 DEF JobFields
  <1>3. UNCHANGED <<configs, deployed, programStorage, programIds, settled>>
    BY DEF FundAtaPayer
  <1>4. deployJob'.pc = "init" /\ deployJob'.todo = deployJob.todo
        /\ deployJob'.config = deployJob.config /\ deployJob'.chain = deployJob.chain
    BY <1>1, <1>2 DEF DeployInv, DeployTypesOK, JobOK, Running, JobFields
  <1>5. ConfiguredSoFar(deployJob.chain)'
    BY <1>4 DEF ConfiguredSoFar, Reached, Passed, AfterRouters, AfterEnrolling, AfterGas, ChainPcs
  <1>6. LoopOf("init") = LoopOf("fund")
    BY DEF LoopOf
  <1>7. QED
    BY <1>1, <1>2, <1>3, <1>5, <1>6, ChainStep DEF StepPcs, DeployInv, DeployTypesOK

LEMMA InitStep ==
    ASSUME DeployInv, UNCHANGED configs, InitRouter
    PROVE  DeployInv'
  <1>1. Running /\ deployJob.pc = "init"
    <2>1. Idle.pc = "idle"
      BY DEF Idle
    <2>2. QED
      BY <2>1 DEF InitRouter, At, Running
  <1>2. UNCHANGED <<configs, deployed, programIds, settled>>
    BY DEF InitRouter
  <1>3. LoopOf("ism") = LoopOf("init")
    BY DEF LoopOf
  <1>4. deployJob = [f \in JobFields |-> deployJob[f]] /\ deployJob.sent \in Nat
        /\ deployJob.chain \in ToDeploy(deployJob.config)
    BY <1>1 DEF DeployInv, DeployTypesOK, JobOK, Running, ChainPcs
  <1>5. ASSUME NEW sent, deployJob' = [deployJob EXCEPT !.pc = "ism", !.sent = sent],
               Id \in DOMAIN programStorage'
        PROVE  ConfiguredSoFar(deployJob.chain)'
    BY <1>4, <1>5 DEF ConfiguredSoFar, Reached, Passed, AfterRouters, AfterEnrolling, AfterGas,
       ChainPcs, JobFields, Id
  <1>6. CASE Id \in DOMAIN programStorage /\ Goto("ism") /\ UNCHANGED programStorage
    <2>1. deployJob' = [deployJob EXCEPT !.pc = "ism", !.sent = deployJob.sent]
      BY <1>4, <1>6 DEF Goto, JobFields
    <2>2. QED
      BY <1>1, <1>2, <1>3, <1>5, <1>6, <2>1, ChainStep DEF StepPcs, DeployInv, DeployTypesOK
  <1>7. CASE Id \notin DOMAIN programStorage /\ Send(Id, TRUE, NewAccount(App), "ism")
    <2>1. ~deployJob.quiet
      BY <1>1, <1>7, QuietAccount DEF StepPcs
    <2>2. deployJob' = [deployJob EXCEPT !.pc = "ism", !.sent = deployJob.sent + 1]
      BY <1>4, <1>7 DEF Send, JobFields
    <2>3. CASE programStorage' = Put(programStorage, Id, NewAccount(App))
      <3>1. /\ DOMAIN programStorage' = DOMAIN programStorage \cup {Id}
            /\ IsMap(programStorage)'
            /\ \A id \in DOMAIN programStorage' :
                programStorage'[id] = IF id = Id THEN NewAccount(App) ELSE programStorage[id]
        BY <2>3 DEF Put, IsMap
      <3>2. RouterAccountOK(NewAccount(App))
        BY DEF RouterAccountOK, NewAccount, AccountFields
      <3>3. \A id \in DOMAIN programStorage' : RouterAccountOK(programStorage'[id])
        BY <3>1, <3>2 DEF DeployInv, DeployTypesOK
      <3>4. QED
        BY <1>1, <1>2, <1>3, <1>5, <2>1, <2>2, <3>1, <3>3, ChainStep DEF StepPcs
    <2>4. CASE ~deployJob.canSign /\ UNCHANGED programStorage
      <3>1. deployJob.sent + 1 # 0
        BY <1>4
      <3>2. QED
        BY <1>1, <1>2, <1>3, <2>1, <2>2, <2>4, <3>1, ChainStep DEF StepPcs, DeployInv, DeployTypesOK
    <2>5. QED
      BY <1>7, <2>3, <2>4 DEF Send
  <1>8. QED
    BY <1>6, <1>7 DEF InitRouter

(* The account of the chain is as expected after a step of the             *)
(* configuration, unless the step was only printed.                        *)
FieldSet(field, expected) ==
    /\ Id \in DOMAIN programStorage /\ Id \in DOMAIN programStorage'
    /\ programStorage'[Id][field] = expected
    /\ \A f \in AccountFields \ {field} : programStorage'[Id][f] = programStorage[Id][f]

(* The tool goes on, with a transaction or without.                        *)
StepTo(next) == \E sent : deployJob' = [deployJob EXCEPT !.pc = next, !.sent = sent]

(* A transaction is counted.                                               *)
LEMMA SentOne == \A n \in Nat : n + 1 # 0
  OBVIOUS

(* A step that sets one field if it is not as configured.                  *)
LEMMA RouterConfigureStep ==
    ASSUME DeployInv, UNCHANGED configs, NEW pc \in StepPcs, NEW field \in AccountFields,
           NEW expected, NEW next \in (StepPcs \ {"fund"}) \cup LoopPcs,
           LoopOf(next) = LoopOf(pc), ConfigureRouter(pc, field, expected, next),
           deployJob.quiet /\ deployJob.pc = pc /\ Running /\ Id \in DOMAIN programStorage =>
            programStorage[Id][field] = expected,
           /\ deployJob.pc = pc /\ Running
           /\ ConfiguredSoFar(deployJob.chain)
           /\ FieldSet(field, expected)
           /\ StepTo(next)
           => ConfiguredSoFar(deployJob.chain)'
    PROVE  DeployInv'
  <1>1. Running /\ deployJob.pc = pc
    <2>1. Idle.pc = "idle"
      BY DEF Idle
    <2>2. QED
      BY <2>1 DEF ConfigureRouter, At, Running, StepPcs
  <1>2. UNCHANGED <<configs, deployed, programIds, settled>>
    BY DEF ConfigureRouter
  <1>3. deployJob = [f \in JobFields |-> deployJob[f]] /\ deployJob.sent \in Nat
        /\ deployJob.chain \in ToDeploy(deployJob.config)
    BY <1>1 DEF DeployInv, DeployTypesOK, JobOK, Running, ChainPcs, StepPcs
  <1>4. deployJob.canSign \/ deployJob.sent = 0 => ConfiguredSoFar(deployJob.chain)
    BY <1>1, <1>3 DEF DeployInv
  <1>5. CASE Id \notin DOMAIN programStorage /\ Panic /\ UNCHANGED programStorage
    BY <1>2, <1>5, NoJob DEF Panic
  <1>6. CASE /\ Id \in DOMAIN programStorage /\ programStorage[Id][field] = expected
             /\ Goto(next) /\ UNCHANGED programStorage
    <2>1. deployJob' = [deployJob EXCEPT !.pc = next, !.sent = deployJob.sent]
      BY <1>3, <1>6 DEF Goto, JobFields
    <2>2. FieldSet(field, expected)
      BY <1>6 DEF FieldSet
    <2>3. deployJob.canSign \/ deployJob.sent = 0 => ConfiguredSoFar(deployJob.chain)'
      BY <1>1, <1>4, <2>1, <2>2 DEF StepTo
    <2>4. QED
      BY <1>1, <1>2, <1>3, <1>6, <2>1, <2>3, ChainStep DEF DeployInv, DeployTypesOK
  <1>7. CASE /\ Id \in DOMAIN programStorage /\ programStorage[Id][field] # expected
             /\ Send(Id, Owned(Id), [programStorage[Id] EXCEPT ![field] = expected], next)
    <2>1. ~deployJob.quiet
      BY <1>1, <1>7
    <2>2. CASE Panic /\ UNCHANGED programStorage
      BY <1>2, <2>2, NoJob DEF Panic
    <2>3. CASE ~deployJob.canSign /\ UNCHANGED programStorage
               /\ deployJob' = [deployJob EXCEPT !.pc = next, !.sent = @ + 1]
      <3>1. deployJob.sent + 1 # 0
        BY <1>3, SentOne, Zenon
      <3>2. deployJob' = [deployJob EXCEPT !.pc = next, !.sent = deployJob.sent + 1]
        BY <1>3, <2>3 DEF JobFields
      <3>3. QED
        BY <1>1, <1>2, <2>1, <2>3, <3>1, <3>2, ChainStep DEF DeployInv, DeployTypesOK
    <2>4. CASE /\ programStorage' = Put(programStorage, Id,
                                       [programStorage[Id] EXCEPT ![field] = expected])
               /\ deployJob' = [deployJob EXCEPT !.pc = next, !.sent = @ + 1]
      <3>1. deployJob' = [deployJob EXCEPT !.pc = next, !.sent = deployJob.sent + 1]
        BY <1>3, <2>4 DEF JobFields
      <3>2. /\ DOMAIN programStorage' = DOMAIN programStorage \cup {Id}
            /\ IsMap(programStorage)'
            /\ \A id \in DOMAIN programStorage' : programStorage'[id] =
                IF id = Id THEN [programStorage[Id] EXCEPT ![field] = expected]
                ELSE programStorage[id]
        BY <2>4 DEF Put, IsMap
      <3>3. RouterAccountOK(programStorage[Id])
        BY <1>7 DEF DeployInv, DeployTypesOK
      <3>4. RouterAccountOK([programStorage[Id] EXCEPT ![field] = expected])
        BY <3>3 DEF RouterAccountOK
      <3>5. \A id \in DOMAIN programStorage' : RouterAccountOK(programStorage'[id])
        BY <3>2, <3>4 DEF DeployInv, DeployTypesOK
      <3>6. FieldSet(field, expected)
        BY <1>7, <3>2, <3>3 DEF FieldSet, RouterAccountOK
      <3>7. deployJob.canSign \/ deployJob.sent + 1 = 0 => ConfiguredSoFar(deployJob.chain)'
        <4>1. deployJob.sent + 1 # 0
          BY <1>3, SentOne, Zenon
        <4>2. QED
          BY <1>1, <1>4, <3>1, <3>6, <4>1 DEF StepTo
      <3>8. \A id \in DOMAIN programStorage :
                id # Id => id \in DOMAIN programStorage' /\ programStorage'[id] = programStorage[id]
        BY <3>2
      <3>9. QED
        BY <1>1, <1>2, <2>1, <3>1, <3>2, <3>5, <3>7, <3>8, ChainStep
    <2>5. QED
      BY <1>7, <2>2, <2>3, <2>4 DEF Send
  <1>8. QED
    BY <1>5, <1>6, <1>7 DEF ConfigureRouter

(* What the chain's account is said to be after each step. *)
LEMMA StepFields ==
    ASSUME DeployInv, Running, deployJob.pc \in StepPcs, NEW field, NEW expected,
           NEW next \in (StepPcs \ {"fund"}) \cup LoopPcs, FieldSet(field, expected),
           StepTo(next)
    PROVE  /\ deployJob'.config = deployJob.config /\ deployJob'.chain = deployJob.chain
           /\ deployJob'.routers = deployJob.routers /\ deployJob'.pc = next
           /\ ExpectedRouters(deployJob.chain)' = ExpectedRouters(deployJob.chain)
           /\ ExpectedGas(deployJob.chain)' = ExpectedGas(deployJob.chain)
           /\ Account(deployJob.chain) = programStorage[Id]
           /\ Account(deployJob.chain)' = programStorage'[Id]
           /\ deployJob.routers[deployJob.chain] \in DOMAIN programStorage'
           /\ deployJob.chain \notin Passed
  <1>1. deployJob = [f \in JobFields |-> deployJob[f]]
        /\ deployJob.chain \in ToDeploy(deployJob.config)
    BY DEF DeployInv, DeployTypesOK, JobOK, Running, ChainPcs, StepPcs
  <1>2. deployJob'.config = deployJob.config /\ deployJob'.chain = deployJob.chain
        /\ deployJob'.routers = deployJob.routers /\ deployJob'.pc = next
    BY <1>1 DEF JobFields, StepTo
  <1>3. QED
    BY <1>1, <1>2 DEF Account, Id, FieldSet, ExpectedRouters, ExpectedGas, Passed, StepPcs, ChainPcs

LEMMA IsmStep ==
    ASSUME DeployInv, UNCHANGED configs, ConfigureIsm
    PROVE  DeployInv'
  <1>1. ASSUME deployJob.pc = "ism", Running, ConfiguredSoFar(deployJob.chain),
               FieldSet("ism", App.ism),
               StepTo("igp")
        PROVE  ConfiguredSoFar(deployJob.chain)'
    <2>1. /\ deployJob'.config = deployJob.config /\ deployJob'.chain = deployJob.chain
          /\ deployJob'.routers = deployJob.routers /\ deployJob'.pc = "igp"
          /\ Account(deployJob.chain)' = programStorage'[Id]
          /\ deployJob.routers[deployJob.chain] \in DOMAIN programStorage'
      BY <1>1, StepFields DEF StepPcs
    <2>2. programStorage'[Id].ism = App.ism
      BY <1>1 DEF FieldSet
    <2>3. deployJob.chain \notin Passed'
      BY <2>1 DEF Passed, ChainPcs
    <2>4. QED
      BY <2>1, <2>2, <2>3 DEF ConfiguredSoFar, Reached, AfterRouters, AfterEnrolling, AfterGas, App
  <1>2. LoopOf("igp") = LoopOf("ism")
    BY DEF LoopOf
  <1>3. QED
    BY <1>1, <1>2, QuietAccount, RouterConfigureStep DEF ConfigureIsm, StepPcs, AccountFields

LEMMA IgpStep ==
    ASSUME DeployInv, UNCHANGED configs, ConfigureIgp
    PROVE  DeployInv'
  <1>1. ASSUME deployJob.pc = "igp", Running, ConfiguredSoFar(deployJob.chain),
               FieldSet("igp", ExpectedIgp), StepTo("owner")
        PROVE  ConfiguredSoFar(deployJob.chain)'
    <2>1. /\ deployJob'.config = deployJob.config /\ deployJob'.chain = deployJob.chain
          /\ deployJob'.routers = deployJob.routers /\ deployJob'.pc = "owner"
          /\ Account(deployJob.chain) = programStorage[Id]
          /\ Account(deployJob.chain)' = programStorage'[Id]
          /\ deployJob.routers[deployJob.chain] \in DOMAIN programStorage'
      BY <1>1, StepFields DEF StepPcs
    <2>2. /\ App.type # "helloworld" => programStorage'[Id].igp = App.igp
          /\ programStorage'[Id].ism = programStorage[Id].ism
      BY <1>1 DEF FieldSet, AccountFields, ExpectedIgp
    <2>3. deployJob.chain \notin Passed'
      BY <2>1 DEF Passed, ChainPcs
    <2>4. Account(deployJob.chain).ism = App.ism
      BY <1>1 DEF ConfiguredSoFar, Reached, App
    <2>5. QED
      BY <2>1, <2>2, <2>3, <2>4
      DEF ConfiguredSoFar, Reached, AfterRouters, AfterEnrolling, AfterGas, App
  <1>2. LoopOf("owner") = LoopOf("igp")
    BY DEF LoopOf
  <1>3. ConfigureRouter("igp", "igp", ExpectedIgp, "owner")
    BY DEF ConfigureIgp
  <1>4. deployJob.quiet /\ deployJob.pc = "igp" /\ Running =>
            programStorage[Id].igp = ExpectedIgp
    BY QuietAccount DEF StepPcs, ExpectedIgp
  <1>5. QED
    BY <1>1, <1>2, <1>3, <1>4, RouterConfigureStep DEF StepPcs, AccountFields

LEMMA RouterOwnerStep ==
    ASSUME DeployInv, UNCHANGED configs, ConfigureOwner
    PROVE  DeployInv'
  <1>1. ASSUME deployJob.pc = "owner", Running, ConfiguredSoFar(deployJob.chain),
               FieldSet("owner", ExpectedOwner(App)), StepTo("next")
        PROVE  ConfiguredSoFar(deployJob.chain)'
    <2>1. /\ deployJob'.config = deployJob.config /\ deployJob'.chain = deployJob.chain
          /\ deployJob'.routers = deployJob.routers /\ deployJob'.pc = "next"
          /\ Account(deployJob.chain) = programStorage[Id]
          /\ Account(deployJob.chain)' = programStorage'[Id]
          /\ deployJob.routers[deployJob.chain] \in DOMAIN programStorage'
      BY <1>1, StepFields DEF StepPcs, LoopPcs
    <2>2. /\ programStorage'[Id].owner = ExpectedOwner(App)
          /\ programStorage'[Id].ism = programStorage[Id].ism
          /\ programStorage'[Id].igp = programStorage[Id].igp
      BY <1>1 DEF FieldSet, AccountFields
    <2>3. /\ Account(deployJob.chain).ism = App.ism
          /\ App.type # "helloworld" => Account(deployJob.chain).igp = App.igp
      BY <1>1 DEF ConfiguredSoFar, Reached, App
    <2>4. QED
      BY <2>1, <2>2, <2>3
      DEF ConfiguredSoFar, Reached, AfterRouters, AfterEnrolling, AfterGas, App
  <1>2. LoopOf("next") = LoopOf("owner")
    BY DEF LoopOf
  <1>3. CASE /\ Panic
             /\ UNCHANGED <<keyFiles, deployed, programStorage, ataBalance, programIds, settled, runs>>
    BY <1>3, NoJob DEF Panic
  <1>4. CASE ConfigureRouter("owner", "owner", ExpectedOwner(App), "next")
    <2>1. deployJob.quiet /\ deployJob.pc = "owner" /\ Running =>
            programStorage[Id].owner = ExpectedOwner(App)
      BY QuietAccount DEF StepPcs
    <2>2. QED
      BY <1>1, <1>2, <1>4, <2>1, RouterConfigureStep DEF StepPcs, LoopPcs, AccountFields
  <1>5. QED
    BY <1>3, <1>4 DEF ConfigureOwner

LEMMA EnrollStep ==
    ASSUME DeployInv, UNCHANGED configs, EnrollRouters
    PROVE  DeployInv'
  <1>1. ASSUME deployJob.pc = "enroll", Running, ConfiguredSoFar(deployJob.chain),
               FieldSet("routers", ExpectedRouters(deployJob.chain)), StepTo("enrolling")
        PROVE  ConfiguredSoFar(deployJob.chain)'
    <2>1. /\ deployJob'.config = deployJob.config /\ deployJob'.chain = deployJob.chain
          /\ deployJob'.routers = deployJob.routers /\ deployJob'.pc = "enrolling"
          /\ Account(deployJob.chain) = programStorage[Id]
          /\ Account(deployJob.chain)' = programStorage'[Id]
          /\ ExpectedRouters(deployJob.chain)' = ExpectedRouters(deployJob.chain)
          /\ deployJob.routers[deployJob.chain] \in DOMAIN programStorage'
      BY <1>1, StepFields DEF StepPcs, LoopPcs
    <2>2. /\ programStorage'[Id].routers = ExpectedRouters(deployJob.chain)
          /\ programStorage'[Id].owner = programStorage[Id].owner
          /\ programStorage'[Id].ism = programStorage[Id].ism
          /\ programStorage'[Id].igp = programStorage[Id].igp
      BY <1>1 DEF FieldSet, AccountFields
    <2>3. \A pcs : Reached(deployJob.chain, pcs)
      BY <1>1 DEF Reached, AfterRouters
    <2>4. QED
      BY <1>1, <2>1, <2>2, <2>3 DEF ConfiguredSoFar, AfterEnrolling, AfterGas
  <1>2. LoopOf("enrolling") = LoopOf("enroll")
    BY DEF LoopOf
  <1>3. ConfigureRouter("enroll", "routers", ExpectedRouters(deployJob.chain), "enrolling")
    BY DEF EnrollRouters
  <1>4. deployJob.quiet /\ deployJob.pc = "enroll" /\ Running =>
            programStorage[Id].routers = ExpectedRouters(deployJob.chain)
    BY QuietAccount DEF StepPcs
  <1>5. QED
    BY <1>1, <1>2, <1>3, <1>4, RouterConfigureStep DEF StepPcs, LoopPcs, AccountFields

(* The destination gas that an account ends with; HelloWorld has none.     *)
ExpectedGasOf == IF App.type = "helloworld" THEN programStorage[Id].gas
                 ELSE ExpectedGas(deployJob.chain)

LEMMA GasStep ==
    ASSUME DeployInv, UNCHANGED configs, PostDeploy
    PROVE  DeployInv'
  <1>1. ASSUME deployJob.pc = "gas", Running, ConfiguredSoFar(deployJob.chain),
               FieldSet("gas", ExpectedGasOf), StepTo("gassing")
        PROVE  ConfiguredSoFar(deployJob.chain)'
    <2>1. /\ deployJob'.config = deployJob.config /\ deployJob'.chain = deployJob.chain
          /\ deployJob'.routers = deployJob.routers /\ deployJob'.pc = "gassing"
          /\ Account(deployJob.chain) = programStorage[Id]
          /\ Account(deployJob.chain)' = programStorage'[Id]
          /\ ExpectedRouters(deployJob.chain)' = ExpectedRouters(deployJob.chain)
          /\ ExpectedGas(deployJob.chain)' = ExpectedGas(deployJob.chain)
          /\ deployJob.routers[deployJob.chain] \in DOMAIN programStorage'
      BY <1>1, StepFields DEF StepPcs, LoopPcs
    <2>2. /\ App.type # "helloworld" => programStorage'[Id].gas = ExpectedGas(deployJob.chain)
          /\ programStorage'[Id].routers = programStorage[Id].routers
          /\ programStorage'[Id].owner = programStorage[Id].owner
          /\ programStorage'[Id].ism = programStorage[Id].ism
          /\ programStorage'[Id].igp = programStorage[Id].igp
      BY <1>1 DEF FieldSet, AccountFields, ExpectedGasOf
    <2>3. \A pcs : Reached(deployJob.chain, pcs)
      BY <1>1 DEF Reached, AfterRouters
    <2>4. QED
      BY <1>1, <2>1, <2>2, <2>3 DEF ConfiguredSoFar, AfterEnrolling, AfterGas, App
  <1>2. LoopOf("gassing") = LoopOf("gas")
    BY DEF LoopOf
  <1>3. ConfigureRouter("gas", "gas", ExpectedGasOf, "gassing")
    BY DEF PostDeploy, ExpectedGasOf
  <1>4. deployJob.quiet /\ deployJob.pc = "gas" /\ Running =>
            programStorage[Id].gas = ExpectedGasOf
    BY QuietAccount DEF StepPcs, ExpectedGasOf
  <1>5. QED
    BY <1>1, <1>2, <1>3, <1>4, RouterConfigureStep DEF StepPcs, LoopPcs, AccountFields

(* What a run knows of the program of the chain that it deploys to: a      *)
(* settled configuration has it in program-ids.json, and deployed.         *)
LEMMA QuietRecovers ==
    ASSUME DeployInv, Running, deployJob.quiet, deployJob.pc = "deploy"
    PROVE  Recovered /\ deployJob.existing[deployJob.chain] = programIds[deployJob.chain]
  <1>1. deployJob.chain \in ToDeploy(deployJob.config)
    BY DEF DeployInv, DeployTypesOK, JobOK, Running, ChainPcs
  <1>2. ConfiguredAs(deployJob.config) /\ deployJob.existing = programIds
    BY DEF DeployInv, SettledOK
  <1>3. QED
    BY <1>1, <1>2 DEF ConfiguredAs, IdsOf, Recovered, ToDeploy

LEMMA RouterKeypairStep ==
    ASSUME DeployInv, UNCHANGED configs, WriteKeypair
    PROVE  DeployInv'
  <1>1. Running /\ deployJob.pc = "deploy"
    <2>1. Idle.pc = "idle"
      BY DEF Idle
    <2>2. QED
      BY <2>1 DEF WriteKeypair, At, Running
  <1>2. UNCHANGED <<configs, deployed, programStorage, programIds, settled>>
    BY DEF WriteKeypair
  <1>3. ~deployJob.quiet
    BY <1>1, QuietRecovers DEF WriteKeypair
  <1>4. /\ deployJob' = [f \in JobFields |-> deployJob'[f]]
        /\ deployJob' # Idle /\ deployJob'.pc = "program" /\ deployJob'.config = deployJob.config
        /\ deployJob'.chain = deployJob.chain /\ deployJob'.todo = deployJob.todo
        /\ deployJob'.routers = deployJob.routers /\ deployJob'.sent = deployJob.sent
        /\ deployJob'.quiet = deployJob.quiet /\ deployJob'.canSign = deployJob.canSign
        /\ deployJob'.existing = deployJob.existing
    BY <1>1 DEF WriteKeypair, Goto, DeployInv, DeployTypesOK, JobOK, Running, JobFields, Idle
  <1>5. DeployTypesOK'
    BY <1>1, <1>2, <1>4 DEF DeployInv, DeployTypesOK, JobOK, Running, ChainPcs
  <1>6. Passed' = Passed
    BY <1>1, <1>4 DEF Passed, ChainPcs
  <1>7. RoutersOK'
    BY <1>1, <1>2, <1>4, <1>6 DEF DeployInv, RoutersOK, IdsOf, AfterRouters
  <1>8. SettledOK'
    BY <1>1, <1>2, <1>3, <1>4, SettledStep
  <1>9. ASSUME deployJob.canSign \/ deployJob.sent = 0, NEW c \in ToDeploy(deployJob.config)
        PROVE  ConfiguredSoFar(c)'
    <2>1. ConfiguredSoFar(c)
      BY <1>1, <1>9 DEF DeployInv
    <2>2. QED
      BY <1>1, <1>2, <1>4, <1>6, <2>1
      DEF ConfiguredSoFar, Reached, Account, AfterRouters, AfterEnrolling, AfterGas
  <1>10. QED
    BY <1>1, <1>4, <1>5, <1>7, <1>8, <1>9 DEF DeployInv

LEMMA RecoverStep ==
    ASSUME DeployInv, UNCHANGED configs, RecoverProgram
    PROVE  DeployInv'
  <1>1. Running /\ deployJob.pc = "deploy"
    <2>1. Idle.pc = "idle"
      BY DEF Idle
    <2>2. QED
      BY <2>1 DEF RecoverProgram, At, Running
  <1>2. deployJob.existing = programIds
    BY <1>1 DEF DeployInv, SettledOK
  <1>3. /\ programIds[deployJob.chain] \in deployed
        /\ NamesChain(programIds[deployJob.chain], deployJob.chain)
    BY <1>2 DEF RecoverProgram, Recovered, DeployInv, DeployTypesOK
  <1>4. QED
    BY <1>1, <1>2, <1>3, ProgramUsed DEF RecoverProgram, DeployInv, DeployTypesOK

LEMMA RouterProgramStep ==
    ASSUME DeployInv, UNCHANGED configs, DeployProgram
    PROVE  DeployInv'
  <1>1. Running /\ deployJob.pc = "program"
    <2>1. Idle.pc = "idle"
      BY DEF Idle
    <2>2. QED
      BY <2>1 DEF DeployProgram, At, Running
  <1>2. CASE UNCHANGED deployed /\ Panic
    BY <1>2, NoJob DEF DeployProgram, Panic
  <1>3. CASE /\ deployed' = deployed \cup {ProgramId(deployJob.chain, App.type)}
             /\ UseProgram(ProgramId(deployJob.chain, App.type))
    <2> DEFINE id == ProgramId(deployJob.chain, App.type)
    <2>1. /\ deployJob.chain \in ToDeploy(deployJob.config) /\ deployJob.config \in configs
          /\ configs \in Applications
      BY <1>1 DEF DeployInv, DeployTypesOK, JobOK, Running, ChainPcs
    <2>2. deployJob.chain \in AppChains /\ App.type \in AppTypes
      BY <2>1, DeployAssumption DEF AppChains, App, ToDeploy
    <2>3. NamesChain(id, deployJob.chain)
      BY DEF NamesChain, ProgramId
    <2>4. \A d \in deployed' : \E c \in AppChains, type \in AppTypes : d = ProgramId(c, type)
      BY <1>3, <2>2 DEF DeployInv, DeployTypesOK
    <2>5. ~deployJob.quiet
      BY <1>1 DEF DeployInv, SettledOK
    <2>6. UNCHANGED <<configs, programStorage, programIds, settled>>
      BY DEF DeployProgram
    <2>7. QED
      BY <1>1, <1>3, <2>3, <2>4, <2>5, <2>6, ProgramUsed
  <1>4. QED
    BY <1>2, <1>3 DEF DeployProgram

LEMMA WriteStep ==
    ASSUME DeployInv, UNCHANGED configs, WriteProgramIds
    PROVE  DeployInv'
  <1>1. Running /\ deployJob.pc = "write"
    <2>1. Idle.pc = "idle"
      BY DEF Idle
    <2>2. QED
      BY <2>1 DEF WriteProgramIds, At, Running
  <1>2. /\ UNCHANGED <<configs, deployed, programStorage>>
        /\ programIds' = deployJob.routers
        /\ settled' = IF deployJob.canSign \/ deployJob.sent = 0 THEN {deployJob.config} ELSE settled
    BY DEF WriteProgramIds
  <1>3. /\ deployJob' = [f \in JobFields |-> deployJob'[f]]
        /\ deployJob' # Idle /\ deployJob'.pc = "done" /\ deployJob'.config = deployJob.config
        /\ deployJob'.chain = deployJob.chain /\ deployJob'.todo = deployJob.todo
        /\ deployJob'.routers = deployJob.routers /\ deployJob'.sent = deployJob.sent
        /\ deployJob'.quiet = deployJob.quiet /\ deployJob'.canSign = deployJob.canSign
        /\ deployJob'.existing = deployJob.existing
    BY <1>1 DEF WriteProgramIds, Goto, DeployInv, DeployTypesOK, JobOK, Running, JobFields, Idle
  <1>4. /\ IdsOf(deployJob.config, deployJob.routers)
        /\ DOMAIN deployJob.routers = DOMAIN deployJob.config
    BY <1>1 DEF DeployInv, RoutersOK, AfterRouters
  <1>5. deployJob.config \in configs /\ configs \in Applications
    BY <1>1 DEF DeployInv, DeployTypesOK, JobOK, Running
  <1>6. \A c \in DOMAIN programIds' : NamesChain(programIds'[c], c)
    <2>1. \A c \in Foreign(deployJob.config) : NamesChain(deployJob.config[c].foreign[1], c)
      BY <1>5, DeployAssumption DEF Foreign
    <2>2. QED
      BY <1>2, <1>4, <2>1 DEF IdsOf, ToDeploy, Foreign
  <1>7. DeployTypesOK'
    BY <1>1, <1>2, <1>3, <1>4, <1>6
    DEF DeployInv, DeployTypesOK, JobOK, Running, ChainPcs, AfterGas, IdsOf, IsMap
  <1>8. Passed' = Passed
    BY <1>1, <1>3 DEF Passed, ChainPcs
  <1>9. RoutersOK'
    BY <1>1, <1>2, <1>3, <1>4, <1>8 DEF DeployInv, RoutersOK, IdsOf
  <1>10. ASSUME deployJob.canSign \/ deployJob.sent = 0, NEW c \in ToDeploy(deployJob.config)
         PROVE  ConfiguredSoFar(c)
    BY <1>1, <1>10 DEF DeployInv
  <1>11. ASSUME deployJob.canSign \/ deployJob.sent = 0, NEW c \in ToDeploy(deployJob.config)
         PROVE  ConfiguredSoFar(c)'
    <2>1. /\ Account(c)' = Account(c) /\ ExpectedRouters(c)' = ExpectedRouters(c)
          /\ ExpectedGas(c)' = ExpectedGas(c)
      BY <1>2, <1>3 DEF Account, ExpectedRouters, ExpectedGas
    <2>2. QED
      BY <1>1, <1>2, <1>3, <1>8, <1>10, <1>11, <2>1
      DEF ConfiguredSoFar, Reached, AfterRouters, AfterEnrolling, AfterGas
  <1>12. ASSUME deployJob.canSign \/ deployJob.sent = 0
         PROVE  \A config : config = deployJob.config => ConfiguredAs(config)'
    <2>1. IdsOf(deployJob.config, programIds)' /\ DOMAIN programIds' = DOMAIN deployJob.config
      BY <1>2, <1>3, <1>4 DEF IdsOf
    <2>2. ASSUME NEW c \in ToDeploy(deployJob.config)
          PROVE  LET app == deployJob.config[c]
                     s == programStorage[deployJob.routers[c]]
                 IN  /\ deployJob.routers[c] \in DOMAIN programStorage
                     /\ s.ism = app.ism
                     /\ s.owner = ExpectedOwner(app)
                     /\ s.routers = ExpectedRouters(c)
                     /\ app.type # "helloworld" => s.igp = app.igp /\ s.gas = ExpectedGas(c)
      BY <1>1, <1>10, <1>12, <2>2
      DEF ConfiguredSoFar, Reached, Account, AfterRouters, AfterEnrolling, AfterGas
    <2>3. ASSUME NEW c \in ToDeploy(deployJob.config)
          PROVE  /\ programIds'[c] \in DOMAIN programStorage'
                 /\ programStorage'[programIds'[c]].ism = deployJob.config[c].ism
                 /\ programStorage'[programIds'[c]].owner = ExpectedOwner(deployJob.config[c])
                 /\ programStorage'[programIds'[c]].routers
                        = Restrict(programIds', DOMAIN programIds' \ {c})
                 /\ deployJob.config[c].type # "helloworld" =>
                    /\ programStorage'[programIds'[c]].igp = deployJob.config[c].igp
                    /\ programStorage'[programIds'[c]].gas = ExpectedGas(c)
      BY <1>2, <2>2 DEF ExpectedRouters
    <2>4. ASSUME NEW config, config = deployJob.config PROVE ConfiguredAs(config)'
      <3>1. IdsOf(config, programIds)' /\ DOMAIN programIds' = DOMAIN config
        BY <1>3, <2>1, <2>4
      <3>2. QED
        BY <2>3, <2>4, <3>1 DEF ConfiguredAs, ExpectedGas, ExpectedOwner, ToDeploy, Foreign
    <2>5. QED
      BY <2>4
  <1>13. SettledOK'
    <2>1. CASE deployJob.canSign \/ deployJob.sent = 0
      BY <1>1, <1>2, <1>3, <1>5, <1>12, <2>1 DEF DeployInv, SettledOK
    <2>2. CASE ~(deployJob.canSign \/ deployJob.sent = 0)
      BY <1>1, <1>2, <1>3, <2>2 DEF DeployInv, SettledOK
    <2>3. QED
      BY <2>1, <2>2
  <1>14. QED
    BY <1>3, <1>7, <1>9, <1>11, <1>13 DEF DeployInv

(* The invariant holds at the start, and no step of the tool breaks it.    *)
LEMMA DeployInvInit == DeployInit => DeployInv
  <1>1. ASSUME DeployInit PROVE ~Running
    BY <1>1 DEF DeployInit, Running
  <1>2. QED
    BY <1>1 DEF DeployInit, DeployInv, DeployTypesOK, JobOK, SettledOK, IsMap, NoMap

LEMMA DeployInvStep == DeployInv /\ [DeployNext]_deployVars => DeployInv'
  <1> SUFFICES ASSUME DeployInv, [DeployNext]_deployVars PROVE DeployInv'
    OBVIOUS
  <1>1. CASE UNCHANGED deployVars
    BY <1>1, SameJob DEF deployVars
  <1>2. CASE DeployNext
    <2> UNCHANGED configs
      BY <1>2 DEF DeployNext
    <2>1. ASSUME NEW config \in configs, NEW canSign \in BOOLEAN, StartDeploy(config, canSign)
          PROVE  DeployInv'
      BY <2>1, StartDeployStep
    <2>2. CASE NextChain("next", "deploy", "enrolling")
      BY <2>2, NextChainStep
    <2>3. CASE NextChain("enrolling", "enroll", "gassing")
      BY <2>3, NextChainStep
    <2>4. CASE NextChain("gassing", "gas", "write")
      BY <2>4, NextChainStep
    <2>5. CASE WriteKeypair
      BY <2>5, RouterKeypairStep
    <2>6. CASE RecoverProgram
      BY <2>6, RecoverStep
    <2>7. CASE DeployProgram
      BY <2>7, RouterProgramStep
    <2>8. CASE FundAtaPayer
      BY <2>8, FundStep
    <2>9. CASE InitRouter
      BY <2>9, InitStep
    <2>10. CASE ConfigureIsm
      BY <2>10, IsmStep
    <2>11. CASE ConfigureIgp
      BY <2>11, IgpStep
    <2>12. CASE ConfigureOwner
      BY <2>12, RouterOwnerStep
    <2>13. CASE EnrollRouters
      BY <2>13, EnrollStep
    <2>14. CASE PostDeploy
      BY <2>14, GasStep
    <2>15. CASE WriteProgramIds
      BY <2>15, WriteStep
    <2>16. CASE EndDeploy
      BY <2>16, NoJob DEF EndDeploy
    <2>17. CASE Interrupt
      BY <2>17, NoJob DEF Interrupt, Panic
    <2>18. CASE SpendAtaPayer
      BY <2>18, SameJob DEF SpendAtaPayer
    <2>19. QED
      BY <1>2, <2>1, <2>2, <2>3, <2>4, <2>5, <2>6, <2>7, <2>8, <2>9, <2>10, <2>11, <2>12, <2>13,
         <2>14, <2>15, <2>16, <2>17, <2>18 DEF DeployNext, DeployStep
  <1>3. QED
    BY <1>1, <1>2

(* deploy_routers, run again after a failure, an interrupt or a changed    *)
(* file, for any configurations of an application: when it ends it has     *)
(* deployed and configured every chain as the file says, each program is   *)
(* enrolled with all others, and a run that repeats the last one sends     *)
(* nothing; and the payer is refused the enrolment only by a program that  *)
(* the file gives to another owner.                                        *)
THEOREM DeploymentConverges == DeploySpec => []DeployConverges
  <1>1. DeployInv => DeployConverges
    <2> SUFFICES ASSUME DeployInv PROVE DeployConverges
      OBVIOUS
    <2>1. ASSUME deployJob.pc = "done"
          PROVE  /\ programIds = deployJob.routers
                 /\ deployJob.canSign \/ deployJob.sent = 0 =>
                        \A c \in ToDeploy(deployJob.config) : AsConfigured(c)
                 /\ deployJob.quiet => deployJob.sent = 0
      <3>1. Running
        BY <2>1 DEF Idle, Running
      <3>2. programIds = deployJob.routers /\ (deployJob.quiet => deployJob.sent = 0)
        BY <2>1, <3>1 DEF DeployInv, SettledOK
      <3>3. ASSUME deployJob.canSign \/ deployJob.sent = 0, NEW c \in ToDeploy(deployJob.config)
            PROVE  AsConfigured(c)
        BY <2>1, <3>1, <3>3
        DEF DeployInv, ConfiguredSoFar, Reached, Account, AfterRouters, AfterEnrolling, AfterGas,
            AsConfigured
      <3>4. QED
        BY <3>2, <3>3
    <2>2. EnrollsItsOwn
      <3> SUFFICES ASSUME deployJob.canSign, deployJob.pc \in {"enroll", "gas"}
                   PROVE  Owned(Id) <=> ExpectedOwner(App) = Payer
        BY DEF EnrollsItsOwn
      <3>1. Running
        BY DEF Idle, Running
      <3>2. deployJob.chain \in ToDeploy(deployJob.config)
        BY <3>1 DEF DeployInv, DeployTypesOK, JobOK, ChainPcs, Running
      <3>3. programStorage[Id].owner = ExpectedOwner(App)
        BY <3>1, <3>2
        DEF DeployInv, ConfiguredSoFar, Reached, Account, AfterRouters, Id, App
      <3>4. QED
        BY <3>3 DEF Owned
    <2>3. QED
      BY <2>1, <2>2 DEF DeployConverges
  <1>2. QED
    BY <1>1, DeployInvInit, DeployInvStep, PTL DEF DeploySpec

-----------------------------------------------------------------------------
(* The core, ISM and IGP commands (SealevelCore)                           *)

(* The steps of a core deployment and of the commands about IGP accounts.  *)
DeployPcs == {"key", "init", "deployed", "igpAccount", "overheadAccount", "oracles",
              "overheads", "write", "coreDone"}
IgpPcs == {"initIgp", "configureIgp", "writeIgp"}
OverheadPcs == {"initOverhead", "configureOverhead", "writeOverhead"}

(* The kinds of accounts, and the fields that the commands read of each.   *)
AccountKinds == CorePrograms \cup {"igpAccount", "overheadAccount"}

AccountOK(a, account) ==
    /\ a[1] = "ism" => {"owner", "domains"} \subseteq DOMAIN account
    /\ a[1] = "mailbox" => {"owner", "ism"} \subseteq DOMAIN account
    /\ a[1] = "igpAccount" => {"owner", "beneficiary", "oracles"} \subseteq DOMAIN account
    /\ a[1] = "overheadAccount" => {"owner", "inner", "overheads"} \subseteq DOMAIN account

AccountsOK == \A a \in DOMAIN accounts : AccountOK(a, accounts[a])

(* The programs that the running deployment has initialized. *)
DeployedBefore(p) ==
    CASE p = "ism" -> {} [] p = "mailbox" -> {"ism"} [] p = "va" -> {"ism", "mailbox"}
      [] p = "igp" -> {"ism", "mailbox", "va"}
DeployedNow == DeployedBefore(task.program)
                \cup (IF task.pc \in {"key", "init"} THEN {} ELSE {task.program})

(* The running deployment has its programs initialized in their order, and *)
(* each names the one before it.                                           *)
ProgramsOK ==
    /\ {"program", "oracles", "overheads", "ids", "canSign"} \subseteq DOMAIN task
    /\ task.canSign
    /\ task.program \in CorePrograms
    /\ task.pc \notin {"key", "init", "deployed"} => task.program = "igp"
    /\ task.pc = "deployed" => task.program # "igp"
    /\ DOMAIN task.ids = CorePrograms
    /\ \A p \in CorePrograms : task.ids[p] = <<p, task.ids[p][2]>>
    /\ \A p \in DeployedNow : task.ids[p] \in DOMAIN accounts
    /\ "mailbox" \in DeployedNow => accounts[task.ids.mailbox].ism = task.ids.ism
    /\ "va" \in DeployedNow => accounts[task.ids.va].mailbox = task.ids.mailbox

(* Its IGP accounts exist once their step is past, and the oracles are set *)
(* before the overheads.                                                   *)
IgpOK ==
    /\ task.pc \in {"overheadAccount", "oracles", "overheads", "write", "coreDone"} =>
        CoreIgp \in DOMAIN accounts
    /\ task.pc \in {"oracles", "overheads", "write", "coreDone"} =>
        CoreOverhead \in DOMAIN accounts /\ accounts[CoreOverhead].inner = CoreIgp
    /\ task.pc \in {"overheads", "write", "coreDone"} =>
        \A d \in RemoteDomains :
            \/ d \in DOMAIN task.oracles /\ task.oracles[d] = <<>>
            \/ d \in DOMAIN accounts[CoreIgp].oracles

CoreTaskOK == ProgramsOK /\ IgpOK

(* A multisig ISM agrees with the file for the domains that are done.      *)
ConfigureTaskOK ==
    /\ {"ism", "file", "todo", "canSign"} \subseteq DOMAIN task
    /\ task.ism \in DOMAIN accounts /\ task.ism[1] = "ism"
    /\ task.todo \subseteq DOMAIN task.file
    /\ task.canSign => \A d \in DOMAIN task.file \ task.todo :
            Matches(accounts[task.ism].domains, d, task.file[d])

(* A command about an IGP account works on the account of its context.     *)
AccountTaskOK ==
    /\ {"address", "context", "file", "canSign", "artifacts"} \subseteq DOMAIN task
    /\ task.pc \in OverheadPcs => "inner" \in DOMAIN task
    /\ task.pc \in IgpPcs => task.address[1] = "igpAccount"
    /\ task.pc \in OverheadPcs => task.address[1] = "overheadAccount"
    /\ task.context \in Contexts
    /\ task.address[3] = Salt(task.context)
    /\ task.pc # "igpDone" => task.artifacts = igpFiles[task.context]
    /\ task.pc \notin {"initIgp", "initOverhead"} /\ task.canSign => task.address \in DOMAIN accounts
    /\ task.pc = "igpDone" => \A f \in {"igp", "overhead"} :
        task.artifacts[f] # <<>> => igpFiles[task.context][f] # <<>>

(* What is running is one of the three.                                    *)
TaskOK ==
    /\ "pc" \in DOMAIN task
    /\ \/ task.pc = "none"
       \/ task.pc \in DeployPcs /\ CoreTaskOK
       \/ task.pc = "configure" /\ ConfigureTaskOK
       \/ task.pc \in IgpPcs \cup OverheadPcs \cup {"igpDone"} /\ AccountTaskOK

(* The ids in the file are of the kinds they stand for; so are the         *)
(* artifacts.                                                              *)
IdsKinds ==
    coreIds # <<>> =>
        /\ DOMAIN coreIds[1] = {"ism", "mailbox", "va", "igp", "igpAccount", "overhead"}
        /\ coreIds[1].ism[1] = "ism" /\ coreIds[1].mailbox[1] = "mailbox"
        /\ coreIds[1].va[1] = "va" /\ coreIds[1].igp[1] = "igp"
        /\ coreIds[1].igpAccount[1] = "igpAccount" /\ coreIds[1].overhead[1] = "overheadAccount"

FilesOK ==
    /\ DOMAIN igpFiles = Contexts
    /\ \A c \in Contexts :
        /\ DOMAIN igpFiles[c] = {"igp", "overhead"}
        /\ \A f \in {"igp", "overhead"} :
            igpFiles[c][f] # <<>> => igpFiles[c][f][1][3] = Salt(c)

(* What holds of the accounts and files alone.                             *)
ChainOK == AccountsOK /\ IdsKinds /\ IdsBelongTogether /\ FilesOK

(* The invariant is inductive.                                             *)
CoreInv == ChainOK /\ TaskOK

(* What the accounts of a deployment have of each other. *)
Keeps(address, account) ==
    /\ AccountOK(address, account)
    /\ address \in DOMAIN accounts =>
        /\ address[1] = "mailbox" => account.ism = accounts[address].ism \/ address \in handSet'
        /\ address[1] = "va" => account.mailbox = accounts[address].mailbox
        /\ address[1] = "overheadAccount" => account.inner = accounts[address].inner

(* One account is new or changed.                                          *)
Becomes(address, account) ==
    /\ DOMAIN accounts' = DOMAIN accounts \cup {address}
    /\ \A a \in DOMAIN accounts' :
        accounts'[a] = IF a = address THEN account ELSE accounts[a]
-----------------------------------------------------------------------------
(* A step that leaves the accounts alone.                                  *)
LEMMA SameAccounts ==
    ASSUME ChainOK, UNCHANGED <<accounts, coreIds, igpFiles>>, handSet \subseteq handSet'
    PROVE  ChainOK'
  BY DEF ChainOK, AccountsOK, AccountOK, IdsKinds, IdsBelongTogether, FilesOK

(* A step that changes one account so that the links between accounts are  *)
(* kept.                                                                   *)
LEMMA OneAccount ==
    ASSUME ChainOK, UNCHANGED <<coreIds, igpFiles>>, handSet \subseteq handSet',
           NEW address, NEW account, Becomes(address, account), Keeps(address, account)
    PROVE  ChainOK'
  <1>1. AccountsOK'
    BY DEF ChainOK, AccountsOK, AccountOK, Becomes, Keeps
  <1>2. IdsKinds' /\ FilesOK'
    BY DEF ChainOK, IdsKinds, FilesOK
  <1>3. ASSUME coreIds # <<>>
        PROVE  LET ids == coreIds[1]
               IN  /\ \A f \in DOMAIN ids : ids[f] \in DOMAIN accounts'
                   /\ accounts'[ids.mailbox].ism = ids.ism \/ ids.mailbox \in handSet'
                   /\ accounts'[ids.va].mailbox = ids.mailbox
                   /\ accounts'[ids.overhead].inner = ids.igpAccount
    BY <1>3 DEF ChainOK, IdsKinds, IdsBelongTogether, Becomes, Keeps
  <1>4. QED
    BY <1>1, <1>2, <1>3 DEF ChainOK, IdsBelongTogether

(* Overlay changes one account.                                            *)
LEMMA OverlayBecomes ==
    ASSUME NEW address, NEW account, accounts' = Overlay(accounts, address, account)
    PROVE  Becomes(address, account)
  BY DEF Overlay, Becomes

(* A transaction changes its account, or was only printed, or ends the     *)
(* command.                                                                *)
LEMMA TransactStep ==
    ASSUME ChainOK, UNCHANGED <<coreIds, igpFiles, handSet>>,
           NEW accepted, NEW address, NEW account, NEW next,
           Transact(accepted, address, account, next),
           accepted => Keeps(address, account)
    PROVE  /\ ChainOK'
           /\ \/ accepted /\ Becomes(address, account) /\ task' = next
              \/ ~task.canSign /\ UNCHANGED accounts /\ task' = next
              \/ task' = NoTask
  BY SameAccounts, OneAccount, OverlayBecomes DEF Transact

(* An account that must be new is initialized.                             *)
LEMMA NewAccountStep ==
    ASSUME ChainOK, UNCHANGED <<coreIds, igpFiles, handSet>>,
           NEW address, NEW account, NEW next, InitializeCommand(address, account, next),
           AccountOK(address, account)
    PROVE  /\ ChainOK'
           /\ \/ address \notin DOMAIN accounts /\ Becomes(address, account) /\ task' = Now(next)
              \/ ~task.canSign /\ UNCHANGED accounts /\ task' = Now(next)
              \/ task' = NoTask
  BY TransactStep DEF InitializeCommand, Keeps

(* A command that ended.                                                   *)
LEMMA NoTaskOK == task' = NoTask => TaskOK'
  BY DEF NoTask, TaskOK

(* What setting entries of an account of the IGP leaves. *)
LEMMA EntriesStep ==
    ASSUME ChainOK, UNCHANGED <<coreIds, igpFiles, handSet>>,
           NEW address, NEW field, NEW entries, NEW next,
           SetEntriesOf(address, field, entries, next),
           \/ address[1] = "igpAccount" /\ field = "oracles"
           \/ address[1] = "overheadAccount" /\ field = "overheads"
    PROVE  /\ ChainOK'
           /\ \/ task' = NoTask
              \/ /\ task' = Now(next)
                 /\ \/ UNCHANGED accounts /\ (entries = Empty \/ ~task.canSign)
                    \/ /\ address \in DOMAIN accounts
                       /\ Becomes(address, [accounts[address] EXCEPT
                                                ![field] = SetEntries(@, entries)])
                       /\ field \in DOMAIN accounts[address]
  <1> DEFINE account == [accounts[address] EXCEPT ![field] = SetEntries(@, entries)]
  <1>1. CASE entries = Empty
    BY <1>1, SameAccounts DEF SetEntriesOf
  <1>2. CASE entries # Empty
    <2>1. Transact(OwnedByPayer(address), address, account, Now(next))
      BY <1>2 DEF SetEntriesOf
    <2>2. ASSUME OwnedByPayer(address)
          PROVE  /\ address \in DOMAIN accounts /\ field \in DOMAIN accounts[address]
                 /\ Keeps(address, account)
      <3>1. address \in DOMAIN accounts /\ AccountOK(address, accounts[address])
        BY <2>2 DEF OwnedByPayer, ChainOK, AccountsOK
      <3>2. field \in DOMAIN accounts[address]
        BY <3>1 DEF AccountOK
      <3>3. DOMAIN account = DOMAIN accounts[address] /\ AccountOK(address, account)
        BY <3>1 DEF AccountOK
      <3>4. address[1] = "overheadAccount" => account.inner = accounts[address].inner
        BY <3>1 DEF AccountOK
      <3>5. QED
        BY <3>1, <3>2, <3>3, <3>4 DEF Keeps
    <2> HIDE DEF account
    <2>3. QED
      BY <2>1, <2>2, TransactStep DEF account
  <1>3. QED
    BY <1>1, <1>2

(* The steps of a core deployment.                                         *)
LEMMA StartStep ==
    ASSUME CoreInv, StartCommand
    PROVE  CoreInv'
  <1>1. ChainOK'
    BY SameAccounts DEF CoreInv, StartCommand, StartCoreDeploy, StartConfigureIsm, StartIgpAccount,
       StartOverheadAccount, Start
  <1>2. ASSUME NEW useExisting \in BOOLEAN, NEW oracles \in OracleFiles,
               NEW overheads \in OverheadFiles, StartCoreDeploy(useExisting, oracles, overheads)
        PROVE  TaskOK'
    <2>1. /\ {"pc", "program", "oracles", "overheads", "ids", "canSign"} \subseteq DOMAIN task'
          /\ task'.pc = "key" /\ task'.program = "ism" /\ task'.canSign = TRUE
          /\ task'.ids = [p \in CorePrograms |-> <<p, 0>>]
      BY <1>2 DEF StartCoreDeploy, Start
    <2>2. DeployedNow' = {}
      BY <2>1 DEF DeployedNow, DeployedBefore
    <2>3. QED
      BY <2>1, <2>2 DEF TaskOK, CoreTaskOK, ProgramsOK, IgpOK, DeployPcs, CorePrograms
  <1>3. ASSUME NEW ism \in OfKind("ism"), NEW file \in IsmFiles, NEW canSign \in BOOLEAN,
               StartConfigureIsm(ism, file, canSign)
        PROVE  TaskOK'
    <2>1. /\ {"pc", "ism", "file", "todo", "canSign"} \subseteq DOMAIN task'
          /\ task'.pc = "configure" /\ task'.ism = ism /\ task'.file = file
          /\ task'.todo = DOMAIN file
          /\ UNCHANGED accounts
      BY <1>3 DEF StartConfigureIsm, Start
    <2>2. QED
      BY <2>1 DEF TaskOK, ConfigureTaskOK, OfKind
  <1>4. ASSUME NEW program, NEW context \in Contexts, NEW file, NEW canSign \in BOOLEAN,
               StartIgpAccount(program, context, file, canSign)
        PROVE  TaskOK'
    <2>1. /\ {"pc", "address", "context", "file", "canSign", "artifacts"} \subseteq DOMAIN task'
          /\ task'.pc = "initIgp" /\ task'.context = context
          /\ task'.address = <<"igpAccount", program[2], Salt(context)>>
          /\ task'.artifacts = igpFiles[context]
          /\ UNCHANGED igpFiles
      BY <1>4 DEF StartIgpAccount, Start, IgpAccount
    <2>2. QED
      BY <2>1 DEF TaskOK, AccountTaskOK, IgpPcs, OverheadPcs
  <1>5. ASSUME NEW program, NEW context \in Contexts, NEW file, NEW inner, NEW canSign \in BOOLEAN,
               StartOverheadAccount(program, context, inner, file, canSign)
        PROVE  TaskOK'
    <2>1. /\ {"pc", "address", "context", "file", "canSign", "artifacts", "inner"}
                \subseteq DOMAIN task'
          /\ task'.pc = "initOverhead" /\ task'.context = context
          /\ task'.address = <<"overheadAccount", program[2], Salt(context)>>
          /\ task'.artifacts = igpFiles[context]
          /\ UNCHANGED igpFiles
      BY <1>5 DEF StartOverheadAccount, Start, OverheadAccount
    <2>2. QED
      BY <2>1 DEF TaskOK, AccountTaskOK, IgpPcs, OverheadPcs
  <1>6. QED
    BY <1>1, <1>2, <1>3, <1>4, <1>5 DEF CoreInv, StartCommand

(* The step says which command runs.                                       *)
LEMMA DeployTask ==
    ASSUME TaskOK, task.pc \in DeployPcs
    PROVE  CoreTaskOK
  BY DEF TaskOK, DeployPcs, IgpPcs, OverheadPcs

LEMMA KeypairStep ==
    ASSUME CoreInv, CreateKeypair
    PROVE  CoreInv'
  <1>1. ChainOK'
    BY SameAccounts DEF CoreInv, CreateKeypair
  <1>2. CoreTaskOK /\ task.pc = "key" /\ "pc" \in DOMAIN task
    BY DeployTask DEF CoreInv, TaskOK, CreateKeypair, Doing, DeployPcs
  <1>3. PICK key :
            task' = [task EXCEPT !.pc = "init", !.ids[task.program] = <<task.program, key>>]
    BY DEF CreateKeypair
  <1>4. /\ {"pc", "program", "oracles", "overheads", "ids", "canSign"} \subseteq DOMAIN task'
        /\ task'.pc = "init" /\ task'.program = task.program /\ task'.canSign = task.canSign
        /\ DOMAIN task'.ids = CorePrograms
        /\ \A p \in CorePrograms :
            task'.ids[p] = IF p = task.program THEN <<p, key>> ELSE task.ids[p]
    BY <1>2, <1>3 DEF CoreTaskOK, ProgramsOK, IgpOK
  <1>5. DeployedNow' = DeployedNow /\ task.program \notin DeployedNow
        /\ DeployedNow \subseteq CorePrograms
        /\ ("mailbox" \in DeployedNow => "ism" \in DeployedNow)
        /\ ("va" \in DeployedNow => "mailbox" \in DeployedNow)
    BY <1>2, <1>4 DEF DeployedNow, DeployedBefore, CoreTaskOK, ProgramsOK, IgpOK, CorePrograms
  <1>6. \A p \in DeployedNow : task'.ids[p] = task.ids[p]
    BY <1>4, <1>5
  <1>7. accounts' = accounts
    BY DEF CreateKeypair
  <1>8. CoreTaskOK'
    <2>1. ASSUME NEW p \in CorePrograms PROVE task'.ids[p] = <<p, task'.ids[p][2]>>
      <3>1. CASE p = task.program
        BY <1>4, <3>1, <<p, key>>[2] = key
      <3>2. CASE p # task.program
        BY <1>2, <1>4, <3>2 DEF CoreTaskOK, ProgramsOK, IgpOK
      <3>3. QED
        BY <3>1, <3>2
    <2>2. \A p \in DeployedNow' : task'.ids[p] \in DOMAIN accounts'
      BY <1>2, <1>5, <1>6, <1>7 DEF CoreTaskOK, ProgramsOK, IgpOK
    <2>3. "mailbox" \in DeployedNow' => accounts'[task'.ids.mailbox].ism = task'.ids.ism
      BY <1>2, <1>5, <1>6, <1>7 DEF CoreTaskOK, ProgramsOK, IgpOK
    <2>4. "va" \in DeployedNow' => accounts'[task'.ids.va].mailbox = task'.ids.mailbox
      BY <1>2, <1>5, <1>6, <1>7 DEF CoreTaskOK, ProgramsOK, IgpOK
    <2>5. QED
      BY <1>2, <1>4, <2>1, <2>2, <2>3, <2>4 DEF CoreTaskOK, ProgramsOK, IgpOK
  <1>9. QED
    BY <1>1, <1>4, <1>8 DEF CoreInv, TaskOK, DeployPcs

(* A program's account is new, so that the accounts of the programs        *)
(* initialized before are as they were.                                    *)
LEMMA ProgramStep ==
    ASSUME CoreInv, UNCHANGED <<coreIds, igpFiles, handSet>>, Doing("init"), NEW p \in CorePrograms,
           task.program = p, NEW account, NEW next,
           \/ p # "igp" /\ next = "deployed"
           \/ p = "igp" /\ next = "igpAccount",
           InitializeCommand(task.ids[p], account, next), AccountOK(task.ids[p], account),
           p = "mailbox" => account.ism = task.ids.ism,
           p = "va" => account.mailbox = task.ids.mailbox
    PROVE  CoreInv'
  <1>1. CoreTaskOK /\ task.pc = "init" /\ "pc" \in DOMAIN task
    BY DeployTask DEF CoreInv, TaskOK, Doing, DeployPcs
  <1>2. ChainOK' /\ \/ /\ task.ids[p] \notin DOMAIN accounts /\ Becomes(task.ids[p], account)
                       /\ task' = Now(next)
                    \/ task' = NoTask
    BY <1>1, NewAccountStep DEF CoreInv, CoreTaskOK, ProgramsOK, IgpOK
  <1>3. CASE task' = NoTask
    BY <1>2, <1>3, NoTaskOK DEF CoreInv
  <1>4. CASE /\ task.ids[p] \notin DOMAIN accounts /\ Becomes(task.ids[p], account)
             /\ task' = Now(next)
    <2>1. /\ DOMAIN task' = DOMAIN task
          /\ task'.pc = next /\ task'.program = p /\ task'.canSign = task.canSign
          /\ task'.ids = task.ids
      BY <1>1, <1>4 DEF Now, CoreTaskOK, ProgramsOK, IgpOK
    <2>2. DeployedNow' = DeployedNow \cup {p}
          /\ DeployedNow \subseteq CorePrograms
          /\ ("mailbox" \in DeployedNow' => "ism" \in DeployedNow')
          /\ ("va" \in DeployedNow' => "mailbox" \in DeployedNow')
      BY <1>1, <2>1 DEF DeployedNow, DeployedBefore, CorePrograms
    <2>3. \A q \in DeployedNow : /\ task.ids[q] \in DOMAIN accounts' /\ task.ids[q] # task.ids[p]
                                 /\ accounts'[task.ids[q]] = accounts[task.ids[q]]
      BY <1>1, <1>4 DEF CoreTaskOK, ProgramsOK, IgpOK, Becomes
    <2>4. task.ids[p] \in DOMAIN accounts' /\ accounts'[task.ids[p]] = account
      BY <1>4 DEF Becomes
    <2>5. \A q \in DeployedNow' : task'.ids[q] \in DOMAIN accounts'
      BY <2>1, <2>2, <2>3, <2>4
    <2>6. "mailbox" \in DeployedNow' => accounts'[task'.ids.mailbox].ism = task'.ids.ism
      BY <1>1, <2>1, <2>2, <2>3, <2>4 DEF CoreTaskOK, ProgramsOK, IgpOK
    <2>7. "va" \in DeployedNow' => accounts'[task'.ids.va].mailbox = task'.ids.mailbox
      BY <1>1, <2>1, <2>2, <2>3, <2>4 DEF CoreTaskOK, ProgramsOK, IgpOK
    <2>8. CoreTaskOK'
      BY <1>1, <2>1, <2>5, <2>6, <2>7 DEF CoreTaskOK, ProgramsOK, IgpOK
    <2>9. QED
      BY <1>2, <2>1, <2>8 DEF CoreInv, TaskOK, DeployPcs
  <1>5. QED
    BY <1>2, <1>3, <1>4

LEMMA IsmProgram ==
    ASSUME CoreInv, UNCHANGED <<coreIds, igpFiles, handSet>>, DeployIsm
    PROVE  CoreInv'
  <1>1. CoreTaskOK
    BY DeployTask DEF CoreInv, DeployIsm, Doing, DeployPcs
  <1>2. AccountOK(task.ids["ism"], [owner |-> PayerKey, domains |-> Empty])
    BY <1>1, task.ids["ism"][1] = "ism" DEF AccountOK, CoreTaskOK, ProgramsOK, IgpOK, CorePrograms
  <1>3. QED
    BY <1>2, ProgramStep DEF DeployIsm, CorePrograms

LEMMA MailboxProgram ==
    ASSUME CoreInv, UNCHANGED <<coreIds, igpFiles, handSet>>, DeployMailbox
    PROVE  CoreInv'
  <1>1. CoreTaskOK
    BY DeployTask DEF CoreInv, DeployMailbox, Doing, DeployPcs
  <1>2. AccountOK(task.ids["mailbox"], [owner |-> PayerKey, ism |-> task.ids.ism])
    BY <1>1, task.ids["mailbox"][1] = "mailbox" DEF AccountOK, CoreTaskOK, ProgramsOK, IgpOK, CorePrograms
  <1>3. QED
    BY <1>2, ProgramStep DEF DeployMailbox, CorePrograms

LEMMA AnnounceProgram ==
    ASSUME CoreInv, UNCHANGED <<coreIds, igpFiles, handSet>>, DeployValidatorAnnounce
    PROVE  CoreInv'
  <1>1. CoreTaskOK
    BY DeployTask DEF CoreInv, DeployValidatorAnnounce, Doing, DeployPcs
  <1>2. AccountOK(task.ids["va"], [mailbox |-> task.ids.mailbox])
    BY <1>1, task.ids["va"][1] = "va" DEF AccountOK, CoreTaskOK, ProgramsOK, IgpOK, CorePrograms
  <1>3. QED
    BY <1>2, ProgramStep DEF DeployValidatorAnnounce, CorePrograms

LEMMA IgpProgram ==
    ASSUME CoreInv, UNCHANGED <<coreIds, igpFiles, handSet>>, DeployIgp
    PROVE  CoreInv'
  <1>1. CoreTaskOK
    BY DeployTask DEF CoreInv, DeployIgp, Doing, DeployPcs
  <1>2. AccountOK(task.ids["igp"], [initialized |-> TRUE])
    BY <1>1, task.ids["igp"][1] = "igp" DEF AccountOK, CoreTaskOK, ProgramsOK, IgpOK, CorePrograms
  <1>3. QED
    BY <1>2, ProgramStep DEF DeployIgp, CorePrograms

LEMMA NextProgramStep ==
    ASSUME CoreInv, UNCHANGED <<coreIds, igpFiles, handSet>>, GotoNextProgram
    PROVE  CoreInv'
  <1>1. CoreTaskOK /\ task.pc = "deployed" /\ "pc" \in DOMAIN task
    BY DeployTask DEF CoreInv, TaskOK, GotoNextProgram, Doing, DeployPcs
  <1>2. ChainOK' /\ UNCHANGED accounts
    BY SameAccounts DEF CoreInv, GotoNextProgram
  <1>3. /\ DOMAIN task' = DOMAIN task
        /\ task'.pc = "key" /\ task'.program = NextProgram(task.program)
        /\ task'.canSign = task.canSign /\ task'.ids = task.ids
    BY <1>1 DEF GotoNextProgram, CoreTaskOK, ProgramsOK, IgpOK
  <1>4. DeployedNow' = DeployedNow /\ task'.program \in CorePrograms
    BY <1>1, <1>3 DEF DeployedNow, DeployedBefore, NextProgram, CoreTaskOK, ProgramsOK, IgpOK, CorePrograms
  <1>5. CoreTaskOK'
    BY <1>1, <1>2, <1>3, <1>4 DEF CoreTaskOK, ProgramsOK, IgpOK
  <1>6. QED
    BY <1>2, <1>3, <1>5 DEF CoreInv, TaskOK, DeployPcs

(* The last part of a deployment does not touch the programs' accounts. *)
LEMMA LateStep ==
    ASSUME CoreTaskOK, "pc" \in DOMAIN task,
           task.pc \in {"igpAccount", "overheadAccount", "oracles", "overheads", "write"},
           NEW next \in {"overheadAccount", "oracles", "overheads", "write", "coreDone"},
           task' = Now(next),
           \A a \in DOMAIN accounts : a[1] \in CorePrograms =>
                a \in DOMAIN accounts' /\ accounts'[a] = accounts[a]
    PROVE  /\ ProgramsOK'
           /\ CoreIgp' = CoreIgp /\ CoreOverhead' = CoreOverhead /\ task'.oracles = task.oracles
           /\ task'.pc = next /\ "pc" \in DOMAIN task'
  <1>1. /\ DOMAIN task' = DOMAIN task
        /\ task'.pc = next /\ task'.program = task.program
        /\ task'.canSign = task.canSign /\ task'.ids = task.ids /\ task'.oracles = task.oracles
    BY DEF Now, CoreTaskOK, ProgramsOK
  <1>2. task.program = "igp" /\ DeployedNow = CorePrograms /\ DeployedNow' = CorePrograms
    BY <1>1 DEF CoreTaskOK, ProgramsOK, DeployedNow, DeployedBefore, CorePrograms
  <1>3. \A p \in CorePrograms : task.ids[p] \in DOMAIN accounts /\ task.ids[p][1] = p
    BY <1>2 DEF CoreTaskOK, ProgramsOK
  <1>4. \A p \in CorePrograms : task.ids[p] \in DOMAIN accounts'
                                /\ accounts'[task.ids[p]] = accounts[task.ids[p]]
    BY <1>3
  <1>5. accounts'[task.ids.mailbox].ism = task.ids.ism
        /\ accounts'[task.ids.va].mailbox = task.ids.mailbox
    BY <1>2, <1>4 DEF CoreTaskOK, ProgramsOK, CorePrograms
  <1>6. ProgramsOK'
    BY <1>1, <1>2, <1>4, <1>5 DEF CoreTaskOK, ProgramsOK
  <1>7. QED
    BY <1>1, <1>6 DEF CoreIgp, CoreOverhead, IgpAccount, OverheadAccount

(* The accounts of the deployment's IGP are of their kinds.                *)
LEMMA CoreKinds == CoreIgp[1] = "igpAccount" /\ CoreOverhead[1] = "overheadAccount"
  BY DEF CoreIgp, CoreOverhead, IgpAccount, OverheadAccount

LEMMA InitCoreIgpStep ==
    ASSUME CoreInv, UNCHANGED <<coreIds, igpFiles, handSet>>, InitCoreIgp
    PROVE  CoreInv'
  <1>1. CoreTaskOK /\ task.pc = "igpAccount" /\ "pc" \in DOMAIN task
    BY DeployTask DEF CoreInv, TaskOK, InitCoreIgp, Doing, DeployPcs
  <1>2. AccountOK(CoreIgp, NewIgpAccount)
    BY CoreKinds DEF AccountOK, NewIgpAccount
  <1>3. ChainOK' /\ \/ Becomes(CoreIgp, NewIgpAccount) /\ task' = Now("overheadAccount")
                    \/ task' = NoTask
    BY <1>1, <1>2, NewAccountStep DEF CoreInv, CoreTaskOK, ProgramsOK, InitCoreIgp
  <1>4. CASE Becomes(CoreIgp, NewIgpAccount) /\ task' = Now("overheadAccount")
    <2>1. \A a \in DOMAIN accounts : a[1] \in CorePrograms =>
                a \in DOMAIN accounts' /\ accounts'[a] = accounts[a]
      BY <1>4, CoreKinds DEF Becomes, CorePrograms
    <2>2. /\ ProgramsOK' /\ CoreIgp' = CoreIgp
          /\ task'.pc = "overheadAccount" /\ "pc" \in DOMAIN task'
      BY <1>1, <1>4, <2>1, LateStep
    <2>3. CoreTaskOK'
      BY <1>4, <2>2 DEF CoreTaskOK, IgpOK, Becomes
    <2>4. QED
      BY <1>3, <2>2, <2>3 DEF CoreInv, TaskOK, DeployPcs
  <1>5. QED
    BY <1>3, <1>4, NoTaskOK DEF CoreInv

LEMMA InitCoreOverheadStep ==
    ASSUME CoreInv, UNCHANGED <<coreIds, igpFiles, handSet>>, InitCoreOverhead
    PROVE  CoreInv'
  <1>1. CoreTaskOK /\ task.pc = "overheadAccount" /\ "pc" \in DOMAIN task
    BY DeployTask DEF CoreInv, TaskOK, InitCoreOverhead, Doing, DeployPcs
  <1>2. AccountOK(CoreOverhead, NewOverheadAccount(CoreIgp))
    BY CoreKinds DEF AccountOK, NewOverheadAccount
  <1>3. ChainOK' /\ \/ Becomes(CoreOverhead, NewOverheadAccount(CoreIgp)) /\ task' = Now("oracles")
                    \/ task' = NoTask
    BY <1>1, <1>2, NewAccountStep DEF CoreInv, CoreTaskOK, ProgramsOK, InitCoreOverhead
  <1>4. CASE Becomes(CoreOverhead, NewOverheadAccount(CoreIgp)) /\ task' = Now("oracles")
    <2>1. \A a \in DOMAIN accounts : a[1] \in CorePrograms =>
                a \in DOMAIN accounts' /\ accounts'[a] = accounts[a]
      BY <1>4, CoreKinds DEF Becomes, CorePrograms
    <2>2. /\ ProgramsOK' /\ CoreIgp' = CoreIgp /\ CoreOverhead' = CoreOverhead
          /\ task'.pc = "oracles" /\ "pc" \in DOMAIN task'
      BY <1>1, <1>4, <2>1, LateStep
    <2>3. CoreIgp \in DOMAIN accounts
      BY <1>1 DEF CoreTaskOK, IgpOK
    <2>4. /\ CoreIgp' \in DOMAIN accounts' /\ CoreOverhead' \in DOMAIN accounts'
          /\ accounts'[CoreOverhead'].inner = CoreIgp'
      BY <1>4, <2>2, <2>3 DEF Becomes, NewOverheadAccount
    <2>5. CoreTaskOK'
      BY <2>2, <2>4 DEF CoreTaskOK, IgpOK
    <2>6. QED
      BY <1>3, <2>2, <2>5 DEF CoreInv, TaskOK, DeployPcs
  <1>5. QED
    BY <1>3, <1>4, NoTaskOK DEF CoreInv

LEMMA OraclesStep ==
    ASSUME CoreInv, UNCHANGED <<coreIds, igpFiles, handSet>>, SetCoreOracles
    PROVE  CoreInv'
  <1> DEFINE entries == OracleConfigs(task.oracles)
  <1>1. CoreTaskOK /\ task.pc = "oracles" /\ "pc" \in DOMAIN task
    BY DeployTask DEF CoreInv, TaskOK, SetCoreOracles, Doing, DeployPcs
  <1>2. /\ ChainOK'
        /\ \/ task' = NoTask
           \/ /\ task' = Now("overheads")
              /\ \/ UNCHANGED accounts /\ (entries = Empty \/ ~task.canSign)
                 \/ /\ CoreIgp \in DOMAIN accounts
                    /\ Becomes(CoreIgp, [accounts[CoreIgp] EXCEPT
                                            !["oracles"] = SetEntries(@, entries)])
                    /\ "oracles" \in DOMAIN accounts[CoreIgp]
    BY EntriesStep, CoreKinds DEF CoreInv, SetCoreOracles
  <1>3. ASSUME NEW d \in RemoteDomains
        PROVE  d \in DOMAIN entries
               /\ (entries[d] # <<>> \/ (d \in DOMAIN task.oracles /\ task.oracles[d] = <<>>))
    BY DEF OracleConfigs
  <1>4. CASE task' = Now("overheads")
    <2> HIDE DEF entries
    <2>0. task.canSign
      BY <1>1 DEF CoreTaskOK, ProgramsOK
    <2>1. \A a \in DOMAIN accounts : a[1] # "igpAccount" =>
                a \in DOMAIN accounts' /\ accounts'[a] = accounts[a]
      BY <1>2, <1>4, <2>0, CoreKinds DEF Becomes, NoTask, Now, CoreTaskOK
    <2>2. /\ ProgramsOK' /\ CoreIgp' = CoreIgp /\ CoreOverhead' = CoreOverhead
          /\ task'.pc = "overheads" /\ "pc" \in DOMAIN task' /\ task'.oracles = task.oracles
      BY <1>1, <1>4, <2>1, LateStep DEF CorePrograms
    <2>3. /\ CoreIgp \in DOMAIN accounts /\ CoreOverhead \in DOMAIN accounts
          /\ accounts[CoreOverhead].inner = CoreIgp
      BY <1>1 DEF CoreTaskOK, IgpOK
    <2>4. task' # NoTask
      BY <2>2 DEF NoTask
    <2>5. CoreIgp \in DOMAIN accounts'
      BY <1>2, <2>3, <2>4 DEF Becomes
    <2>6. ASSUME NEW d \in RemoteDomains
          PROVE  \/ d \in DOMAIN task.oracles /\ task.oracles[d] = <<>>
                 \/ d \in DOMAIN accounts'[CoreIgp].oracles
      <3>1. CASE entries = Empty
        BY <1>3, <3>1 DEF Empty
      <3>2. CASE entries # Empty
        <4>1. accounts'[CoreIgp].oracles = SetEntries(accounts[CoreIgp].oracles, entries)
          BY <1>2, <2>0, <2>4, <2>5, <3>2 DEF Becomes
        <4>2. QED
          BY <1>3, <4>1 DEF SetEntries
      <3>3. QED
        BY <3>1, <3>2
    <2>7. CoreTaskOK'
      BY <2>1, <2>2, <2>3, <2>5, <2>6, CoreKinds DEF CoreTaskOK, IgpOK
    <2>8. QED
      BY <1>2, <2>2, <2>7 DEF CoreInv, TaskOK, DeployPcs
  <1>5. QED
    BY <1>2, <1>4, NoTaskOK DEF CoreInv

LEMMA OverheadsStep ==
    ASSUME CoreInv, UNCHANGED <<coreIds, igpFiles, handSet>>, SetCoreOverheads
    PROVE  CoreInv'
  <1> DEFINE entries == RemoteConfigs(task.overheads)
  <1>1. CoreTaskOK /\ task.pc = "overheads" /\ "pc" \in DOMAIN task
    BY DeployTask DEF CoreInv, TaskOK, SetCoreOverheads, Doing, DeployPcs
  <1>2. /\ ChainOK'
        /\ \/ task' = NoTask
           \/ /\ task' = Now("write")
              /\ \/ UNCHANGED accounts
                 \/ /\ CoreOverhead \in DOMAIN accounts
                    /\ Becomes(CoreOverhead, [accounts[CoreOverhead] EXCEPT
                                            !["overheads"] = SetEntries(@, entries)])
                    /\ "overheads" \in DOMAIN accounts[CoreOverhead]
    BY EntriesStep, CoreKinds DEF CoreInv, SetCoreOverheads
  <1>4. CASE task' = Now("write")
    <2> HIDE DEF entries
    <2>1. task' # NoTask
      BY <1>1, <1>4 DEF NoTask, Now
    <2>2. \A a \in DOMAIN accounts : a[1] # "overheadAccount" =>
                a \in DOMAIN accounts' /\ accounts'[a] = accounts[a]
      BY <1>2, <2>1, CoreKinds DEF Becomes
    <2>3. /\ ProgramsOK' /\ CoreIgp' = CoreIgp /\ CoreOverhead' = CoreOverhead
          /\ task'.pc = "write" /\ "pc" \in DOMAIN task' /\ task'.oracles = task.oracles
      BY <1>1, <1>4, <2>2, LateStep DEF CorePrograms
    <2>4. /\ CoreIgp \in DOMAIN accounts /\ CoreOverhead \in DOMAIN accounts
          /\ accounts[CoreOverhead].inner = CoreIgp
      BY <1>1 DEF CoreTaskOK, IgpOK
    <2>5. "inner" \in DOMAIN accounts[CoreOverhead]
      BY <2>4, CoreKinds DEF CoreInv, ChainOK, AccountsOK, AccountOK
    <2>6. CoreOverhead \in DOMAIN accounts' /\ accounts'[CoreOverhead].inner = CoreIgp
      BY <1>2, <2>1, <2>4, <2>5 DEF Becomes
    <2>7. CoreIgp \in DOMAIN accounts' /\ accounts'[CoreIgp] = accounts[CoreIgp]
      BY <2>2, <2>4, CoreKinds
    <2>8. CoreTaskOK'
      BY <1>1, <2>3, <2>6, <2>7 DEF CoreTaskOK, IgpOK
    <2>9. QED
      BY <1>2, <2>3, <2>8 DEF CoreInv, TaskOK, DeployPcs
  <1>5. QED
    BY <1>2, <1>4, NoTaskOK DEF CoreInv

LEMMA WriteIdsStep ==
    ASSUME CoreInv, WriteCoreIds
    PROVE  CoreInv'
  <1>1. CoreTaskOK /\ task.pc = "write" /\ "pc" \in DOMAIN task
    BY DeployTask DEF CoreInv, TaskOK, WriteCoreIds, Doing, DeployPcs
  <1>2. UNCHANGED <<accounts, igpFiles, handSet>> /\ task' = Now("coreDone")
    BY DEF WriteCoreIds
  <1>3. /\ ProgramsOK' /\ CoreIgp' = CoreIgp /\ CoreOverhead' = CoreOverhead
        /\ task'.pc = "coreDone" /\ "pc" \in DOMAIN task' /\ task'.oracles = task.oracles
    BY <1>1, <1>2, LateStep
  <1>4. CoreTaskOK'
    BY <1>1, <1>2, <1>3 DEF CoreTaskOK, IgpOK
  <1>5. /\ DeployedNow = CorePrograms
        /\ \A p \in CorePrograms : task.ids[p] = <<p, task.ids[p][2]>>
                                   /\ task.ids[p] \in DOMAIN accounts
        /\ accounts[task.ids.mailbox].ism = task.ids.ism
        /\ accounts[task.ids.va].mailbox = task.ids.mailbox
    BY <1>1 DEF CoreTaskOK, ProgramsOK, DeployedNow, DeployedBefore, CorePrograms
  <1>6. CoreIgp \in DOMAIN accounts /\ CoreOverhead \in DOMAIN accounts
        /\ accounts[CoreOverhead].inner = CoreIgp
    BY <1>1 DEF CoreTaskOK, IgpOK
  <1>7. \A p \in CorePrograms : task.ids[p][1] = p
    BY <1>5
  <1>8. CoreIgp[2] = task.ids.igp[2] /\ CoreOverhead[2] = task.ids.igp[2]
    BY DEF CoreIgp, CoreOverhead, IgpAccount, OverheadAccount
  <1>9. /\ coreIds' # <<>>
        /\ coreIds'[1] = [ism |-> task.ids.ism, mailbox |-> task.ids.mailbox, va |-> task.ids.va,
                          igp |-> task.ids.igp, igpAccount |-> CoreIgp, overhead |-> CoreOverhead]
    BY DEF WriteCoreIds
  <1>10. IdsKinds'
    BY <1>7, <1>9, CoreKinds DEF IdsKinds, CorePrograms
  <1>11. IdsBelongTogether'
    BY <1>2, <1>5, <1>6, <1>8, <1>9 DEF IdsBelongTogether, CorePrograms
  <1>12. QED
    BY <1>2, <1>3, <1>4, <1>10, <1>11
    DEF CoreInv, ChainOK, AccountsOK, FilesOK, TaskOK, DeployPcs

(* The steps of the other commands.                                        *)
LEMMA ConfigureStep ==
    ASSUME CoreInv, UNCHANGED <<coreIds, igpFiles, handSet>>, ConfigureDomain
    PROVE  CoreInv'
  <1>1. ConfigureTaskOK /\ task.pc = "configure" /\ "pc" \in DOMAIN task
    BY DEF CoreInv, TaskOK, ConfigureDomain, Doing, DeployPcs, IgpPcs, OverheadPcs
  <1>2. PICK d \in task.todo :
            LET config == task.file[d]
                next == [task EXCEPT !.todo = @ \ {d}]
            IN  IF Matches(accounts[task.ism].domains, d, config)
                THEN task' = next /\ UNCHANGED accounts
                ELSE SetValidatorsCommand(task.ism, d, config, next)
    BY DEF ConfigureDomain
  <1> DEFINE config == task.file[d]
             next == [task EXCEPT !.todo = @ \ {d}]
             account == [accounts[task.ism] EXCEPT !.domains = Overlay(@, d, config)]
  <1>3. /\ DOMAIN next = DOMAIN task /\ next.pc = "configure" /\ next.ism = task.ism
        /\ next.file = task.file /\ next.todo = task.todo \ {d} /\ next.canSign = task.canSign
    BY <1>1 DEF ConfigureTaskOK
  <1>4. task.ism \in DOMAIN accounts /\ task.ism[1] = "ism" /\ "domains" \in DOMAIN accounts[task.ism]
        /\ AccountOK(task.ism, accounts[task.ism])
    BY <1>1 DEF CoreInv, ChainOK, AccountsOK, AccountOK, ConfigureTaskOK
  <1>5. Keeps(task.ism, account) /\ account.domains = Overlay(accounts[task.ism].domains, d, config)
    BY <1>4 DEF Keeps, AccountOK
  <1> HIDE DEF next, account
  <1>6. ASSUME task' = next, task.ism \in DOMAIN accounts',
               task.canSign => \A e \in DOMAIN task.file \ task.todo :
                    Matches(accounts'[task.ism].domains, e, task.file[e]),
               task.canSign => Matches(accounts'[task.ism].domains, d, config)
        PROVE  TaskOK'
    <2>1. ConfigureTaskOK'
      BY <1>1, <1>3, <1>6 DEF ConfigureTaskOK, Matches
    <2>2. QED
      BY <1>1, <1>3, <1>6, <2>1 DEF TaskOK
  <1>7. CASE Matches(accounts[task.ism].domains, d, config) /\ task' = next /\ UNCHANGED accounts
    <2>1. ChainOK'
      BY <1>7, SameAccounts DEF CoreInv
    <2>2. TaskOK'
      BY <1>1, <1>6, <1>7 DEF ConfigureTaskOK
    <2>3. QED
      BY <2>1, <2>2 DEF CoreInv
  <1>8. CASE SetValidatorsCommand(task.ism, d, config, next)
    <2>1. /\ ChainOK'
          /\ \/ Becomes(task.ism, account) /\ task' = next
             \/ ~task.canSign /\ UNCHANGED accounts /\ task' = next
             \/ task' = NoTask
      BY <1>5, <1>8, TransactStep DEF CoreInv, SetValidatorsCommand, account
    <2>2. CASE Becomes(task.ism, account) /\ task' = next
      <3>1. task.ism \in DOMAIN accounts' /\ accounts'[task.ism].domains
                                                = Overlay(accounts[task.ism].domains, d, config)
        BY <1>5, <2>2 DEF Becomes
      <3>2. Matches(accounts'[task.ism].domains, d, config)
        BY <3>1 DEF Matches, Overlay
      <3>3. ASSUME task.canSign, NEW e \in DOMAIN task.file \ task.todo
            PROVE  Matches(accounts'[task.ism].domains, e, task.file[e])
        <4>1. e # d /\ Matches(accounts[task.ism].domains, e, task.file[e])
          BY <1>1, <3>3 DEF ConfigureTaskOK
        <4>2. QED
          BY <3>1, <4>1 DEF Matches, Overlay
      <3>4. QED
        BY <1>6, <2>1, <2>2, <3>1, <3>2, <3>3 DEF CoreInv
    <2>3. CASE ~task.canSign /\ UNCHANGED accounts /\ task' = next
      BY <1>4, <1>6, <2>1, <2>3 DEF CoreInv
    <2>4. QED
      BY <2>1, <2>2, <2>3, NoTaskOK DEF CoreInv
  <1>9. QED
    BY <1>2, <1>7, <1>8 DEF next

(* The step says that a command about an account of the IGP runs.          *)
LEMMA AccountTask ==
    ASSUME TaskOK, task.pc \in IgpPcs \cup OverheadPcs \cup {"igpDone"}
    PROVE  AccountTaskOK
  BY DEF TaskOK, DeployPcs, IgpPcs, OverheadPcs

(* A step of a command about an account of the IGP. *)
LEMMA AccountTaskStep ==
    ASSUME TaskOK, UNCHANGED igpFiles, NEW next, task' = Now(next),
           \/ task.pc \in IgpPcs /\ next \in IgpPcs
           \/ task.pc \in OverheadPcs /\ next \in OverheadPcs,
           next \notin {"initIgp", "initOverhead"} /\ task.canSign => task.address \in DOMAIN accounts'
    PROVE  TaskOK'
  <1>1. AccountTaskOK /\ "pc" \in DOMAIN task
    BY AccountTask DEF TaskOK
  <1>2. /\ DOMAIN task' = DOMAIN task /\ task'.pc = next
        /\ task'.address = task.address /\ task'.context = task.context
        /\ task'.canSign = task.canSign /\ task'.artifacts = task.artifacts
    BY <1>1 DEF Now, AccountTaskOK
  <1>3. AccountTaskOK'
    BY <1>1, <1>2 DEF AccountTaskOK, IgpPcs, OverheadPcs
  <1>4. QED
    BY <1>1, <1>2, <1>3 DEF TaskOK, IgpPcs, OverheadPcs

LEMMA InitAccountStep ==
    ASSUME CoreInv, UNCHANGED <<coreIds, igpFiles, handSet>>, InitIgpAccount \/ InitOverheadAccount
    PROVE  CoreInv'
  <1> DEFINE next == IF task.pc = "initIgp" THEN "configureIgp" ELSE "configureOverhead"
             account == IF task.pc = "initIgp" THEN NewIgpAccount ELSE NewOverheadAccount(task.inner)
  <1>1. task.pc \in {"initIgp", "initOverhead"}
    BY DEF InitIgpAccount, InitOverheadAccount, Doing
  <1>2. AccountTaskOK
    BY <1>1, AccountTask DEF CoreInv, IgpPcs, OverheadPcs
  <1>3. AccountOK(task.address, account)
    BY <1>1, <1>2 DEF AccountOK, AccountTaskOK, IgpPcs, OverheadPcs, NewIgpAccount,
       NewOverheadAccount
  <1>4. \/ task.address \in DOMAIN accounts /\ task' = Now(next) /\ UNCHANGED accounts
        \/ InitializeCommand(task.address, account, next)
    BY <1>1 DEF InitIgpAccount, InitOverheadAccount, Doing
  <1>5. ChainOK'
    BY <1>3, <1>4, NewAccountStep, SameAccounts DEF CoreInv
  <1>6. \/ task' = NoTask
        \/ task' = Now(next) /\ (task.canSign => task.address \in DOMAIN accounts')
    <2> HIDE DEF account, next
    <2>1. QED
      BY <1>3, <1>4, NewAccountStep DEF CoreInv, Becomes
  <1>7. CASE task' = Now(next)
    BY <1>1, <1>5, <1>6, <1>7, AccountTaskStep, NoTaskOK
    DEF CoreInv, IgpPcs, OverheadPcs
  <1>8. QED
    BY <1>5, <1>6, <1>7, NoTaskOK DEF CoreInv

LEMMA ConfigureAccountStep ==
    ASSUME CoreInv, UNCHANGED <<coreIds, igpFiles, handSet>>,
           ConfigureIgpAccount \/ ConfigureOverheadAccount
    PROVE  CoreInv'
  <1> DEFINE next == IF task.pc = "configureIgp" THEN "writeIgp" ELSE "writeOverhead"
             field == IF task.pc = "configureIgp" THEN "oracles" ELSE "overheads"
             entries == RemoteConfigs(task.file)
  <1>1. task.pc \in {"configureIgp", "configureOverhead"}
    BY DEF ConfigureIgpAccount, ConfigureOverheadAccount, Doing
  <1>2. AccountTaskOK
    BY <1>1, AccountTask DEF CoreInv, IgpPcs, OverheadPcs
  <1>3. SetEntriesOf(task.address, field, entries, next)
    BY <1>1 DEF ConfigureIgpAccount, ConfigureOverheadAccount, Doing
  <1>4. \/ task.address[1] = "igpAccount" /\ field = "oracles"
        \/ task.address[1] = "overheadAccount" /\ field = "overheads"
    BY <1>1, <1>2 DEF AccountTaskOK, IgpPcs, OverheadPcs
  <1>5. task.canSign => task.address \in DOMAIN accounts
    BY <1>1, <1>2 DEF AccountTaskOK
  <1>6. /\ ChainOK'
        /\ \/ task' = NoTask
           \/ task' = Now(next) /\ (task.canSign => task.address \in DOMAIN accounts')
    <2> HIDE DEF next, field, entries
    <2>1. /\ ChainOK'
          /\ \/ task' = NoTask
             \/ /\ task' = Now(next)
                /\ \/ UNCHANGED accounts
                   \/ Becomes(task.address, [accounts[task.address] EXCEPT
                                                ![field] = SetEntries(@, entries)])
      BY <1>3, <1>4, EntriesStep DEF CoreInv
    <2>2. QED
      BY <1>5, <2>1 DEF Becomes
  <1>7. CASE task' = Now(next)
    <2>1. task.canSign => task.address \in DOMAIN accounts'
      BY <1>6, <1>7, <1>1 DEF NoTask, Now, CoreInv, TaskOK
    <2>2. TaskOK'
      BY <1>1, <1>7, <2>1, AccountTaskStep DEF CoreInv, IgpPcs, OverheadPcs
    <2>3. QED
      BY <1>6, <2>2 DEF CoreInv
  <1>8. QED
    BY <1>6, <1>7, NoTaskOK DEF CoreInv

LEMMA WriteFileStep ==
    ASSUME CoreInv,
           NEW pc, NEW field,
           \/ pc = "writeIgp" /\ field = "igp"
           \/ pc = "writeOverhead" /\ field = "overhead",
           WriteIgpFile(pc, field)
    PROVE  CoreInv'
  <1>1. AccountTaskOK /\ task.pc = pc /\ "pc" \in DOMAIN task
    BY AccountTask DEF CoreInv, TaskOK, WriteIgpFile, Doing, IgpPcs, OverheadPcs
  <1>2. /\ DOMAIN task' = DOMAIN task /\ task'.pc = "igpDone"
        /\ task'.address = task.address /\ task'.context = task.context
        /\ task'.canSign = task.canSign /\ task'.artifacts = task.artifacts
    BY <1>1 DEF WriteIgpFile, Now, AccountTaskOK
  <1>3. UNCHANGED <<accounts, coreIds, handSet>>
    BY DEF WriteIgpFile
  <1>4. /\ task.context \in Contexts /\ task.artifacts = igpFiles[task.context]
        /\ DOMAIN task.artifacts = {"igp", "overhead"}
    BY <1>1 DEF AccountTaskOK, CoreInv, ChainOK, FilesOK
  <1>5. /\ DOMAIN igpFiles' = Contexts
        /\ \A c \in Contexts : c # task.context => igpFiles'[c] = igpFiles[c]
        /\ DOMAIN igpFiles'[task.context] = {"igp", "overhead"}
        /\ \A f \in {"igp", "overhead"} : igpFiles'[task.context][f] =
                IF f = field THEN <<task.address>> ELSE task.artifacts[f]
    BY <1>4 DEF WriteIgpFile, CoreInv, ChainOK, FilesOK
  <1>6. <<task.address>> # <<>> /\ <<task.address>>[1] = task.address
    OBVIOUS
  <1>7. FilesOK'
    <2>1. ASSUME NEW f \in {"igp", "overhead"}, igpFiles'[task.context][f] # <<>>
          PROVE  igpFiles'[task.context][f][1][3] = Salt(task.context)
      BY <1>1, <1>4, <1>5, <1>6, <2>1 DEF AccountTaskOK, CoreInv, ChainOK, FilesOK
    <2>2. QED
      BY <1>5, <2>1 DEF FilesOK, CoreInv, ChainOK
  <1>8. AccountTaskOK'
    <2>1. \A f \in {"igp", "overhead"} :
                task.artifacts[f] # <<>> => igpFiles'[task.context][f] # <<>>
      BY <1>5, <1>6
    <2>2. QED
      BY <1>1, <1>2, <1>3, <2>1 DEF AccountTaskOK, IgpPcs, OverheadPcs
  <1>9. ChainOK'
    BY <1>3, <1>7 DEF CoreInv, ChainOK, AccountsOK, IdsKinds, IdsBelongTogether
  <1>10. QED
    BY <1>1, <1>2, <1>8, <1>9 DEF CoreInv, TaskOK

LEMMA OwnerStep ==
    ASSUME CoreInv, UNCHANGED <<coreIds, igpFiles, task>>, handSet \subseteq handSet',
           NEW address, NEW account, OwnerCommand(address, account),
           address \in DOMAIN accounts => Keeps(address, account)
    PROVE  CoreInv'
  <1>1. address \in DOMAIN accounts /\ Becomes(address, account)
    BY DEF OwnerCommand, OwnedByPayer, Becomes
  <1>2. ChainOK'
    BY <1>1, OneAccount DEF CoreInv
  <1>3. TaskOK'
    BY DEF OwnerCommand, Doing, CoreInv, TaskOK
  <1>4. QED
    BY <1>2, <1>3 DEF CoreInv

LEMMA CommandStep ==
    ASSUME CoreInv, ShortCommand
    PROVE  CoreInv'
  <1>0. \A a \in DOMAIN accounts : AccountOK(a, accounts[a])
    BY DEF CoreInv, ChainOK, AccountsOK
  <1>1. ASSUME NEW mailbox \in OfKind("mailbox"), NEW ism, SetDefaultIsm(mailbox, ism)
        PROVE  CoreInv'
    <2>1. mailbox \in DOMAIN accounts /\ mailbox[1] = "mailbox"
      BY DEF OfKind
    <2>2. handSet' = handSet \cup {mailbox} /\ UNCHANGED <<coreIds, igpFiles, task>>
      BY <1>1 DEF SetDefaultIsm, OwnerCommand
    <2>3. Keeps(mailbox, [accounts[mailbox] EXCEPT !.ism = ism])
      BY <1>0, <2>1, <2>2 DEF Keeps, AccountOK
    <2>4. QED
      BY <1>1, <2>2, <2>3, OwnerStep DEF SetDefaultIsm
  <1>2. ASSUME NEW d, SetGasOracle(d, << 2 >>) PROVE CoreInv'
    <2> DEFINE address == coreIds[1].igpAccount
               account == [accounts[address] EXCEPT
                                !.oracles = SetEntries(@, [x \in {d} |-> << 2 >>])]
    <2>1. address[1] = "igpAccount"
      BY <1>2 DEF SetGasOracle, CoreInv, ChainOK, IdsKinds
    <2>2. OwnerCommand(address, account) /\ UNCHANGED <<coreIds, igpFiles, task, handSet>>
      BY <1>2 DEF SetGasOracle, OwnerCommand
    <2>3. address \in DOMAIN accounts => Keeps(address, account)
      BY <1>0, <2>1 DEF Keeps, AccountOK
    <2> HIDE DEF address, account
    <2>4. QED
      BY <2>2, <2>3, OwnerStep
  <1>3. ASSUME NEW d, SetGasOverhead(d, << 2 >>) PROVE CoreInv'
    <2> DEFINE address == coreIds[1].overhead
               account == [accounts[address] EXCEPT
                                !.overheads = SetEntries(@, [x \in {d} |-> << 2 >>])]
    <2>1. address[1] = "overheadAccount"
      BY <1>3 DEF SetGasOverhead, CoreInv, ChainOK, IdsKinds
    <2>2. OwnerCommand(address, account) /\ UNCHANGED <<coreIds, igpFiles, task, handSet>>
      BY <1>3 DEF SetGasOverhead, OwnerCommand
    <2>3. address \in DOMAIN accounts => Keeps(address, account)
      BY <1>0, <2>1 DEF Keeps, AccountOK
    <2> HIDE DEF address, account
    <2>4. QED
      BY <2>2, <2>3, OwnerStep
  <1>4. ASSUME NEW a \in OfKind("igpAccount"), SetBeneficiary(a, "other") PROVE CoreInv'
    <2>1. a \in DOMAIN accounts /\ a[1] = "igpAccount"
      BY DEF OfKind
    <2>2. UNCHANGED <<coreIds, igpFiles, task, handSet>>
      BY <1>4 DEF SetBeneficiary, OwnerCommand
    <2>3. Keeps(a, [accounts[a] EXCEPT !.beneficiary = "other"])
      BY <1>0, <2>1 DEF Keeps, AccountOK
    <2>4. QED
      BY <1>4, <2>2, <2>3, OwnerStep DEF SetBeneficiary
  <1>5. ASSUME NEW a \in OfKind("mailbox") \cup OfKind("ism") \cup OfKind("igpAccount")
                            \cup OfKind("overheadAccount"),
               TransferOwnershipCommand(a, "other")
        PROVE  CoreInv'
    <2>1. a \in DOMAIN accounts /\ a[1] \in {"mailbox", "ism", "igpAccount", "overheadAccount"}
      BY DEF OfKind
    <2>2. UNCHANGED <<coreIds, igpFiles, task, handSet>>
      BY <1>5 DEF TransferOwnershipCommand, OwnerCommand
    <2>3. Keeps(a, [accounts[a] EXCEPT !.owner = "other"])
      BY <1>0, <2>1 DEF Keeps, AccountOK
    <2>4. QED
      BY <1>5, <2>2, <2>3, OwnerStep DEF TransferOwnershipCommand
  <1>6. QED
    BY <1>1, <1>2, <1>3, <1>4, <1>5 DEF ShortCommand

(* The invariant holds at the start, and no command breaks it.             *)
LEMMA CoreInvInit == CoreInit => CoreInv
  <1> SUFFICES ASSUME CoreInit PROVE CoreInv
    OBVIOUS
  <1>1. AccountsOK
    BY DEF CoreInit, AccountsOK, Empty
  <1>2. TaskOK
    BY DEF CoreInit, TaskOK, NoTask
  <1>3. IdsKinds /\ IdsBelongTogether
    BY DEF CoreInit, IdsKinds, IdsBelongTogether
  <1>4. FilesOK
    BY DEF CoreInit, FilesOK
  <1>5. QED
    BY <1>1, <1>2, <1>3, <1>4 DEF CoreInv, ChainOK

LEMMA CoreInvStep == CoreInv /\ [CoreNext]_coreVars => CoreInv'
  <1> SUFFICES ASSUME CoreInv, [CoreNext]_coreVars PROVE CoreInv'
    OBVIOUS
  <1>1. CASE UNCHANGED coreVars
    <2>1. ChainOK'
      BY <1>1, SameAccounts DEF CoreInv, coreVars
    <2>2. TaskOK'
      BY <1>1 DEF CoreInv, TaskOK, CoreTaskOK, ProgramsOK, IgpOK, ConfigureTaskOK, AccountTaskOK,
         DeployedNow, CoreIgp, CoreOverhead, coreVars
    <2>3. QED
      BY <2>1, <2>2 DEF CoreInv
  <1>2. CASE StartCommand
    BY <1>2, StartStep
  <1>3. CASE CreateKeypair
    BY <1>3, KeypairStep
  <1>4. CASE AccountStep
    <2> UNCHANGED <<coreIds, igpFiles, handSet>>
      BY <1>4 DEF AccountStep
    <2>1. QED
      BY <1>4, IsmProgram, MailboxProgram, AnnounceProgram, IgpProgram, NextProgramStep,
         InitCoreIgpStep, InitCoreOverheadStep, OraclesStep, OverheadsStep, ConfigureStep,
         InitAccountStep, ConfigureAccountStep DEF AccountStep
  <1>5. CASE WriteCoreIds
    BY <1>5, WriteIdsStep
  <1>6. CASE WriteIgpFile("writeIgp", "igp") \/ WriteIgpFile("writeOverhead", "overhead")
    BY <1>6, WriteFileStep
  <1>7. CASE ShortCommand
    BY <1>7, CommandStep
  <1>8. CASE EndTask \/ InterruptTask
    <2>1. ChainOK'
      BY <1>8, SameAccounts DEF CoreInv, EndTask, InterruptTask
    <2>2. task' = NoTask
      BY <1>8 DEF EndTask, InterruptTask
    <2>3. QED
      BY <2>1, <2>2, NoTaskOK DEF CoreInv
  <1>9. QED
    BY <1>1, <1>2, <1>3, <1>4, <1>5, <1>6, <1>7, <1>8 DEF CoreNext

(* The core, ISM and IGP commands of the client, for any files, contexts   *)
(* and order of commands: the ids written belong together, and a command   *)
(* that has ended has configured what its file says.                       *)
THEOREM CoreCommandsSound == CoreSpec => []CoreSound
  <1>1. CoreInv => CoreSound
    <2> SUFFICES ASSUME CoreInv PROVE CoreSound
      OBVIOUS
    <2>1. IdsBelongTogether
      BY DEF CoreInv, ChainOK
    <2>2. CommandTookEffect
      <3>1. ASSUME Doing("coreDone") PROVE CoreTaskOK
        BY <3>1, DeployTask DEF CoreInv, Doing, DeployPcs
      <3>2. ASSUME Doing("configure") PROVE ConfigureTaskOK
        BY <3>2 DEF CoreInv, TaskOK, Doing, DeployPcs, IgpPcs, OverheadPcs
      <3>3. QED
        BY <3>1, <3>2 DEF CommandTookEffect, CoreTaskOK, IgpOK, ConfigureTaskOK, Doing
    <2>3. IgpFilesSound
      <3>1. ASSUME Doing("igpDone") PROVE AccountTaskOK /\ task.pc = "igpDone"
        BY <3>1, AccountTask DEF CoreInv, Doing
      <3>2. QED
        BY <3>1 DEF IgpFilesSound, CoreInv, ChainOK, FilesOK, AccountTaskOK
    <2>4. QED
      BY <2>1, <2>2, <2>3 DEF CoreSound
  <1>2. QED
    BY <1>1, CoreInvInit, CoreInvStep, PTL DEF CoreSpec

-----------------------------------------------------------------------------
(* The scraper (Scraper)                                                   *)

(* The steps of store_logs, and the fields of a task.                      *)
StorePcs == {"blocks", "insert_blocks", "txns", "insert_txns", "rows"}
TaskFields == {"pc", "start", "next", "sequence", "logs", "blocks", "txns"}

(* The tables: their keys are unique, a block's height is that of its hash *)
(* here, a transaction's row leads to the block it is in, and a log's row  *)
(* to the log.                                                             *)
RowTypes ==
    /\ \A b, c \in blockRows : b.id = c.id \/ b.hash = c.hash => b = c
    /\ \A b \in blockRows : b.height = b.hash
    /\ \A t, u \in txnRows : t.id = u.id \/ t.hash = u.hash => t = u
    /\ \A t \in txnRows : \E l \in ChainLogs, b \in blockRows :
        t.hash = l.txn /\ t.block_id = b.id /\ b.hash = l.block
    /\ MessageTable(logRows) /\ DeliveredMessageTable(logRows) /\ GasPaymentTable(logRows)
    /\ \A r \in logRows : \E l \in ChainLogs : IsRowOf(r, l) /\ l.block <= finalTip

(* The table of messages has nonce n.                                      *)
StoredNonce(n) == RetrieveMessageByNonce(n) # {}

(* What a task holds: logs of its kind that are final and that it has      *)
(* read, with the rows it has found for them.                              *)
TaskTypes(k, i) ==
    /\ TaskFields \subseteq DOMAIN i
    /\ i.pc \in StorePcs \cup {"down", "next", "update"}
    /\ i.start \in Int /\ i.next \in Int /\ i.sequence \in Nat
    /\ \A l \in i.logs : l \in ChainLogs /\ l.kind = k /\ l.block < i.next /\ l.block <= finalTip
    /\ i.pc = "next" => i.logs = {}
    /\ i.blocks \subseteq blockRows /\ i.txns \subseteq txnRows
    /\ i.pc \in {"txns", "insert_txns"} => \A l \in i.logs : \E b \in i.blocks : b.hash = l.block
    /\ i.pc = "rows" => \A l \in i.logs : \E t \in i.txns : t.hash = l.txn

(* One of the two tasks that share the watermark has stored what it was    *)
(* answered of block b; and all blocks before h are covered.               *)
Covered(b) == \E k \in {"delivery", "payment"} : \A l \in LogsIn(k, b, b) : StoredOrOmitted(l)
CoveredTo(h) == \A b \in ScrapeFrom .. h - 1 : Covered(b)

(* What a task was answered since it started is stored, or in its hands.   *)
ReadOrHeld(k, i) ==
    i.pc # "down" =>
        /\ CoveredTo(i.start)
        /\ \A l \in LogsIn(k, i.start, i.next - 1) :
                StoredOrOmitted(l) \/ (i.pc \in StorePcs /\ l \in i.logs)

(* A nonce the forward cursor need not look for: it is stored, or was      *)
(* missing when the agent stopped.                                         *)
Accounted(n) == StoredNonce(n) \/ n \in abandoned

(* The forward cursor: the nonces before its sequence are accounted for,   *)
(* and the messages before its block are stored, in its hands, or were     *)
(* left out of an answer.                                                  *)
MessageTask(i) ==
    i.pc # "down" =>
        /\ i.start = ScrapeFrom
        /\ \A n \in 0 .. i.sequence - 1 : Accounted(n)
        /\ \A l \in ChainLogs : l.kind = "message" /\ l.block < i.next =>
                StoredNonce(l.key) \/ l \in omitted \/ (i.pc \in StorePcs /\ l \in i.logs)

(* What the history variables hold is of the chain: a nonce is abandoned   *)
(* only if an answer left its message out.                                 *)
HistoryOK ==
    /\ \A l \in omitted : l \in ChainLogs /\ l.block <= finalTip
    /\ \A n \in abandoned : NonceOmitted(n)

(* The invariant is inductive: the watermarks in memory and in the         *)
(* database are covered, the tasks have kept what they read.               *)
ScraperInv ==
    /\ finalTip \in Int /\ height \in Int /\ cursorRow \in Int
    /\ DOMAIN indexer = Kinds
    /\ RowTypes /\ HistoryOK
    /\ MessagesContiguous
    /\ \A k \in Kinds : TaskTypes(k, indexer[k])
    /\ \A k \in Kinds \ {"message"} : ReadOrHeld(k, indexer[k])
    /\ MessageTask(indexer["message"])
    /\ CoveredTo(height) /\ CoveredTo(cursorRow)

-----------------------------------------------------------------------------
(* A finite set of naturals with all below each is an interval. *)
LEMMA InitialSegment ==
    ASSUME NEW S \in SUBSET Nat, IsFiniteSet(S), \A n \in S : 0 .. n \subseteq S
    PROVE  Cardinality(S) \in Nat /\ S = 0 .. Cardinality(S) - 1
  <1> DEFINE c == Cardinality(S)
  <1>1. c \in Nat
    BY FS_CardinalityType
  <1>2. ASSUME NEW n \in S PROVE n < c
    <2>1. Cardinality(0 .. n) = n + 1
      BY FS_Interval
    <2>2. Cardinality(0 .. n) <= c
      BY FS_Subset
    <2>3. QED
      BY <1>1, <2>1, <2>2
  <1>3. S \subseteq 0 .. c - 1
    BY <1>1, <1>2
  <1>4. IsFiniteSet(0 .. c - 1) /\ Cardinality(0 .. c - 1) = c
    <2>1. c - 1 \in Int /\ 0 \in Int
      BY <1>1
    <2>2. QED
      BY <1>1, <2>1, FS_Interval
  <1>5. S = 0 .. c - 1
    BY <1>3, <1>4, FS_Subset
  <1>6. QED
    BY <1>1, <1>5

(* Maxima of small sets and of bounded ones.                               *)
LEMMA GreatestOfTwo ==
    ASSUME NEW a \in Int, NEW b \in Int
    PROVE  Greatest({a, b}) \in Int /\ Greatest({a, b}) = IF a >= b THEN a ELSE b
  BY DEF Greatest, Max

LEMMA GreatestOfBounded ==
    ASSUME NEW S \in SUBSET Nat, NEW d \in Int, S \subseteq 0 .. d
    PROVE  /\ Greatest(S) \in Nat
           /\ S # {} => Greatest(S) \in S
           /\ \A x \in S : x <= Greatest(S)
  <1>1. CASE S = {}
    BY <1>1 DEF Greatest
  <1>2. CASE S # {}
    <2> DEFINE U == {n \in 0 .. d : \E x \in S : n <= x}
               c == Cardinality(U)
    <2>1. IsFiniteSet(U)
      <3>1. IsFiniteSet(0 .. d)
        <4>1. 0 \in Int /\ d \in Int
          OBVIOUS
        <4>2. QED
          BY <4>1, FS_Interval
      <3>2. QED
        BY <3>1, FS_Subset
    <2>2. U \in SUBSET Nat
      OBVIOUS
    <2>3. ASSUME NEW n \in U PROVE 0 .. n \subseteq U
      <3>1. PICK x \in S : n <= x
        OBVIOUS
      <3>2. ASSUME NEW p \in 0 .. n PROVE p \in U
        <4>1. p \in 0 .. d /\ p <= x
          BY <3>1, <3>2
        <4>2. QED
          BY <4>1
      <3>3. QED
        BY <3>2
    <2>4. c \in Nat /\ U = 0 .. c - 1
      BY <2>1, <2>2, <2>3, InitialSegment
    <2>5. S \subseteq U /\ \A n \in U : \E x \in S : n <= x
      OBVIOUS
    <2> HIDE DEF c, U
    <2>6. c - 1 \in U
      <3>1. PICK y \in S : y \in 0 .. c - 1
        BY <1>2, <2>4, <2>5
      <3>2. c - 1 \in 0 .. c - 1
        BY <2>4, <3>1
      <3>3. QED
        BY <2>4, <3>2
    <2>7. PICK x \in S : c - 1 <= x
      BY <2>5, <2>6
    <2>8. x = c - 1
      BY <2>4, <2>5, <2>7
    <2>9. \A y \in S : x >= y
      BY <2>4, <2>5, <2>8
    <2>10. Max(S) \in S /\ \A y \in S : Max(S) >= y
      BY <2>9 DEF Max
    <2>11. QED
      BY <1>2, <2>10 DEF Greatest
  <1>3. QED
    BY <1>1, <1>2

LEMMA MaxOfOne == \A b \in Int : Max({b}) = b
  BY DEF Max

(* The messages of the chain.                                              *)
Messages == {l \in ChainLogs : l.kind = "message"}

(* The nonces that are final have no gap, so that dispatch count is their  *)
(* number.                                                                 *)
LEMMA FinalNonces ==
    ASSUME finalTip \in Int
    PROVE  /\ DispatchCount \in Nat
           /\ {l.key : l \in LogsIn("message", 0, finalTip)} = 0 .. DispatchCount - 1
           /\ IsFiniteSet({l.key : l \in LogsIn("message", 0, finalTip)})
           /\ Cardinality({l.key : l \in LogsIn("message", 0, finalTip)}) = DispatchCount
  <1> DEFINE L == LogsIn("message", 0, finalTip)
             N == {l.key : l \in L}
             f == [l \in L |-> l.key]
  <1>1. IsFiniteSet(L)
    BY ScraperAssumption, FS_Subset DEF LogsIn
  <1>2. f \in Bijection(L, N)
    <2>1. f \in [L -> N]
      OBVIOUS
    <2>2. ASSUME NEW l \in L, NEW m \in L, f[l] = f[m] PROVE l = m
      BY <2>2, ChainAssumption DEF LogsIn
    <2>3. IsInjective(f)
      BY <2>2 DEF IsInjective
    <2>4. \A n \in N : \E l \in L : f[l] = n
      OBVIOUS
    <2>5. QED
      BY <2>1, <2>3, <2>4 DEF Bijection, Injection, Surjection
  <1>3. IsFiniteSet(N) /\ Cardinality(N) = Cardinality(L)
    BY <1>1, <1>2, FS_Bijection DEF ExistsBijection
  <1>4. N \subseteq Nat
    BY ScraperAssumption DEF LogsIn
  <1>5. ASSUME NEW n \in N PROVE 0 .. n \subseteq N
    <2>1. PICK l \in L : l.key = n
      OBVIOUS
    <2>2. ASSUME NEW p \in 0 .. n - 1 PROVE p \in N
      <3>1. PICK m \in ChainLogs : m.kind = "message" /\ m.key = p /\ m.block <= l.block
        BY <2>1, ChainAssumption DEF LogsIn
      <3>2. m.block \in Nat /\ l.block \in Nat
        BY ScraperAssumption DEF LogsIn
      <3>3. m \in L
        BY <3>1, <3>2 DEF LogsIn
      <3>4. QED
        BY <3>1, <3>3
    <2>3. QED
      BY <1>4, <2>2
  <1>6. QED
    BY <1>3, <1>4, <1>5, InitialSegment DEF DispatchCount

(* A message is stored if a row of the table has its nonce. *)
LEMMA NonceStored ==
    ASSUME RowTypes, NEW l \in ChainLogs, l.kind = "message"
    PROVE  StoredNonce(l.key) <=> Stored(l)
  <1>1. ASSUME NEW r \in logRows, r.kind = "message", r.nonce = l.key
        PROVE  IsRowOf(r, l)
    <2>1. PICK m \in ChainLogs : IsRowOf(r, m)
      BY DEF RowTypes
    <2>2. m = l
      BY <1>1, <2>1, ChainAssumption DEF IsRowOf
    <2>3. QED
      BY <2>1, <2>2
  <1>2. ASSUME NEW r \in logRows, IsRowOf(r, l)
        PROVE  r.kind = "message" /\ r.nonce = l.key
    BY <1>2 DEF IsRowOf
  <1>3. QED
    BY <1>1, <1>2 DEF StoredNonce, RetrieveMessageByNonce, Stored

(* A stored nonce is that of a final message.                              *)
LEMMA NonceOfLog ==
    ASSUME RowTypes, NEW n, StoredNonce(n)
    PROVE  \E l \in ChainLogs : l.kind = "message" /\ l.key = n /\ l.block <= finalTip /\ Stored(l)
  BY DEF RowTypes, StoredNonce, RetrieveMessageByNonce, Stored, IsRowOf

(* The stored nonces, and the abandoned ones, are of final messages.       *)
LEMMA NoncesAreFinal ==
    ASSUME finalTip \in Int, RowTypes, HistoryOK
    PROVE  \A n : Accounted(n) => n \in 0 .. DispatchCount - 1
  <1> SUFFICES ASSUME NEW n, Accounted(n) PROVE n \in 0 .. DispatchCount - 1
    OBVIOUS
  <1>1. PICK l \in ChainLogs : l.kind = "message" /\ l.key = n /\ l.block <= finalTip
    <2>1. CASE StoredNonce(n)
      BY <2>1, NonceOfLog
    <2>2. CASE n \in abandoned
      BY <2>2 DEF HistoryOK, NonceOmitted
    <2>3. QED
      BY <2>1, <2>2 DEF Accounted
  <1>2. l \in LogsIn("message", 0, finalTip)
    BY <1>1, ScraperAssumption DEF LogsIn
  <1>3. n \in {m.key : m \in LogsIn("message", 0, finalTip)}
    BY <1>1, <1>2
  <1>4. QED
    BY <1>3, FinalNonces

(* A gap is a nonce that is missing below a stored one.                    *)
LEMMA GapsAre ==
    \A n : n \in Gaps <=> ~StoredNonce(n) /\ \E p : StoredNonce(p) /\ n \in 0 .. p
  BY DEF Gaps, StoredNonce, RetrieveMessageByNonce

(* The greatest stored nonce.                                              *)
LEMMA LastNonce ==
    ASSUME finalTip \in Int, RowTypes, HistoryOK
    PROVE  /\ LastMessageNonce \in Nat
           /\ LastMessageNonce # 0 => StoredNonce(LastMessageNonce)
  <1> DEFINE S == {r.nonce : r \in {r \in logRows : r.kind = "message"}}
  <1>1. \A n : n \in S <=> StoredNonce(n)
    BY DEF StoredNonce, RetrieveMessageByNonce
  <1>2. DispatchCount \in Nat
    BY FinalNonces
  <1>3. S \subseteq 0 .. DispatchCount - 1 /\ S \in SUBSET Nat
    BY <1>1, <1>2, NoncesAreFinal DEF Accounted
  <1>4. LastMessageNonce = Greatest(S)
    BY DEF LastMessageNonce
  <1> HIDE DEF S
  <1>5. LastMessageNonce \in Nat /\ (S # {} => LastMessageNonce \in S)
    <2>1. DispatchCount - 1 \in Int
      BY <1>2
    <2>2. QED
      BY <1>3, <1>4, <2>1, GreatestOfBounded
  <1>6. S = {} => LastMessageNonce = 0
    BY <1>4 DEF Greatest
  <1>7. QED
    BY <1>1, <1>5, <1>6

(* The joins lead from a stored message to its block.                      *)
LEMMA BlockOfMessage ==
    ASSUME RowTypes, NEW l \in ChainLogs, l.kind = "message", StoredNonce(l.key)
    PROVE  LogBlockNumber(l.key) = {l.block}
  <1>1. PICK r \in logRows : IsRowOf(r, l)
    BY NonceStored DEF Stored
  <1>2. RetrieveMessageByNonce(l.key) = {r}
    BY <1>1 DEF RetrieveMessageByNonce, RowTypes, MessageTable, IsRowOf
  <1>3. PICK t \in txnRows, b \in blockRows :
            r.tx_id = t.id /\ t.hash = l.txn /\ t.block_id = b.id /\ b.hash = l.block
    BY <1>1 DEF IsRowOf
  <1>4. RetrieveBlockId({r.tx_id}) = {b.id}
    BY <1>3 DEF RetrieveBlockId, RowTypes
  <1>5. RetrieveBlockNumber({b.id}) = {l.block}
    BY <1>3 DEF RetrieveBlockNumber, RowTypes
  <1>6. {x.tx_id : x \in {r}} = {r.tx_id}
    OBVIOUS
  <1>7. QED
    BY <1>2, <1>4, <1>5, <1>6 DEF LogBlockNumber

-----------------------------------------------------------------------------
(* What no step undoes. *)
Grown ==
    /\ finalTip' \in Int /\ finalTip <= finalTip'
    /\ blockRows \subseteq blockRows' /\ txnRows \subseteq txnRows'
    /\ omitted \subseteq omitted' /\ abandoned \subseteq abandoned'
    /\ \A l \in ChainLogs : Stored(l) => Stored(l)'
    /\ \A n : StoredNonce(n) => StoredNonce(n)'

(* Coverage is never lost.                                                 *)
LEMMA CoveredGrown ==
    ASSUME Grown, NEW h \in Int, CoveredTo(h)
    PROVE  CoveredTo(h)'
  BY DEF Grown, CoveredTo, Covered, LogsIn, StoredOrOmitted

(* What the steps of this section that leave the messages alone have in    *)
(* common: the history stays what it was, and no gap is forgotten.         *)
LEMMA HistoryKept ==
    ASSUME ScraperInv, UNCHANGED leftOut, finalTip' \in Int, finalTip <= finalTip'
    PROVE  HistoryOK'
  <1>1. \A l \in ChainLogs : l.block \in Int
    BY ScraperAssumption
  <1>2. QED
    BY <1>1 DEF ScraperInv, HistoryOK, NonceOmitted, leftOut

LEMMA GapsKept ==
    ASSUME MessagesContiguous, Grown, Gaps' \subseteq Gaps,
           indexer["message"].pc # "down" => indexer'["message"].pc # "down",
           indexer'["message"].sequence = indexer["message"].sequence
    PROVE  MessagesContiguous'
  BY DEF MessagesContiguous, Grown, NonceOmitted, LookedFor

(* A step of task k, when the tables are as they should be. *)
LEMMA OneTask ==
    ASSUME ScraperInv, Grown, RowTypes', HistoryOK', MessagesContiguous',
           height' \in Int, cursorRow' \in Int, CoveredTo(height)', CoveredTo(cursorRow)',
           NEW k \in Kinds, DOMAIN indexer' = Kinds,
           \A o \in Kinds \ {k} : indexer'[o] = indexer[o],
           TaskTypes(k, indexer[k])',
           k # "message" => ReadOrHeld(k, indexer[k])',
           k = "message" => MessageTask(indexer["message"])'
    PROVE  ScraperInv'
  <1>1. ASSUME NEW o \in Kinds, o # k
        PROVE  TaskTypes(o, indexer[o])'
    <2>1. indexer'[o] = indexer[o] /\ TaskTypes(o, indexer[o])
      BY <1>1 DEF ScraperInv
    <2>2. \A l \in ChainLogs : l.block \in Int
      BY ScraperAssumption
    <2>3. finalTip \in Int
      BY DEF ScraperInv
    <2>4. QED
      BY <2>1, <2>2, <2>3 DEF TaskTypes, Grown
  <1>2. ASSUME NEW o \in Kinds \ {"message"}, o # k
        PROVE  ReadOrHeld(o, indexer[o])'
    <2>1. indexer'[o] = indexer[o] /\ ReadOrHeld(o, indexer[o]) /\ indexer[o].start \in Int
      BY <1>2 DEF ScraperInv, TaskTypes
    <2>2. CoveredTo(indexer[o].start) => CoveredTo(indexer[o].start)'
      BY <2>1, CoveredGrown DEF CoveredTo, Covered, LogsIn, Grown, StoredOrOmitted
    <2>3. QED
      BY <2>1, <2>2 DEF ReadOrHeld, Grown, LogsIn, StoredOrOmitted
  <1>3. k # "message" => MessageTask(indexer["message"])'
    <2>1. ASSUME k # "message"
          PROVE  indexer'["message"] = indexer["message"] /\ MessageTask(indexer["message"])
      BY <2>1 DEF ScraperInv, Kinds
    <2>2. QED
      BY <2>1 DEF MessageTask, Grown, Accounted
  <1>4. QED
    BY <1>1, <1>2, <1>3 DEF ScraperInv, Grown

(* A step that leaves the tables alone.                                    *)
LEMMA TablesSame ==
    ASSUME ScraperInv, UNCHANGED <<blockRows, txnRows, logRows>>, finalTip' \in Int,
           finalTip <= finalTip', omitted \subseteq omitted', abandoned \subseteq abandoned'
    PROVE  /\ Grown /\ RowTypes'
           /\ Gaps' = Gaps
           /\ \A l : Stored(l)' <=> Stored(l)
           /\ \A n : StoredNonce(n)' <=> StoredNonce(n)
           /\ \A b : Covered(b) => Covered(b)'
  <1>1. \A r, l : IsRowOf(r, l)' <=> IsRowOf(r, l)
    BY DEF IsRowOf
  <1>2. \A l : Stored(l)' <=> Stored(l)
    BY <1>1 DEF Stored
  <1>3. \A n : StoredNonce(n)' <=> StoredNonce(n)
    BY DEF StoredNonce, RetrieveMessageByNonce
  <1>4. \A b : Covered(b) => Covered(b)'
    BY <1>2 DEF Covered, LogsIn, StoredOrOmitted
  <1>5. Gaps' = Gaps
    BY DEF Gaps, RetrieveMessageByNonce
  <1>6. \A l \in ChainLogs : l.block \in Int
    BY ScraperAssumption
  <1>7. \A r \in logRows : \E l \in ChainLogs : IsRowOf(r, l) /\ l.block <= finalTip
    BY DEF ScraperInv, RowTypes
  <1>8. \A r \in logRows' : \E l \in ChainLogs : IsRowOf(r, l)' /\ l.block <= finalTip'
    BY <1>1, <1>6, <1>7 DEF ScraperInv
  <1>9. RowTypes'
    BY <1>8 DEF ScraperInv, RowTypes, MessageTable, DeliveredMessageTable, GasPaymentTable
  <1>10. Grown
    BY <1>2, <1>3 DEF Grown
  <1>11. QED
    BY <1>2, <1>3, <1>4, <1>5, <1>9, <1>10

(* The actions that leave the tables alone.                                *)
LEMMA FinalizeStep ==
    ASSUME ScraperInv, Finalize
    PROVE  ScraperInv'
  <1>1. UNCHANGED <<blockRows, txnRows, logRows, cursorRow, height, indexer, omitted, abandoned>>
        /\ finalTip' \in Int /\ finalTip <= finalTip'
    BY DEF Finalize, ScraperInv, scraperDb, leftOut
  <1>2. Grown /\ RowTypes' /\ HistoryOK' /\ CoveredTo(height)' /\ CoveredTo(cursorRow)'
    BY <1>1, TablesSame, HistoryKept, CoveredGrown DEF ScraperInv, leftOut
  <1>7. MessagesContiguous'
    BY <1>1, <1>2, TablesSame, GapsKept DEF ScraperInv
  <1>3. "message" \in Kinds
    BY DEF Kinds
  <1>4. TaskTypes("message", indexer["message"])'
    <2>1. TaskTypes("message", indexer["message"])
      BY <1>3 DEF ScraperInv
    <2>2. \A l \in ChainLogs : l.block \in Int
      BY ScraperAssumption
    <2>3. QED
      BY <1>1, <1>2, <2>1, <2>2 DEF TaskTypes, Grown, ScraperInv
  <1>5. MessageTask(indexer["message"])'
    BY <1>1, TablesSame DEF MessageTask, ScraperInv, Accounted
  <1>6. QED
    BY <1>1, <1>2, <1>3, <1>4, <1>5, <1>7, OneTask DEF ScraperInv

LEMMA StartMessageStep ==
    ASSUME ScraperInv, StartMessageIndexer
    PROVE  ScraperInv'
  <1> DEFINE j == indexer'["message"]
             sequence == Greatest({LastMessageNonce - 1, 0})
  <1>1. UNCHANGED <<finalTip, blockRows, txnRows, logRows, cursorRow, leftOut>> /\ finalTip \in Int
        /\ cursorRow \in Int
    BY DEF StartMessageIndexer, ScraperInv, scraperDb
  <1>2. /\ Grown /\ RowTypes' /\ HistoryOK'
        /\ Gaps' = Gaps
        /\ \A b : Covered(b) => Covered(b)'
    BY <1>1, TablesSame, HistoryKept DEF ScraperInv, leftOut
  <1>3. height' \in Int /\ CoveredTo(height)' /\ CoveredTo(cursorRow)'
    <2>1. height' = RestoredHeight /\ RestoredHeight \in Int
      BY <1>1, ScraperAssumption DEF StartMessageIndexer, RestoredHeight
    <2>2. CoveredTo(ScrapeFrom)
      BY ScraperAssumption DEF CoveredTo
    <2>3. CoveredTo(RestoredHeight)
      BY <2>2 DEF RestoredHeight, ScraperInv
    <2>4. QED
      BY <1>1, <1>2, <2>1, <2>3 DEF CoveredTo, ScraperInv
  <1>4. DOMAIN indexer' = Kinds /\ \A o \in Kinds \ {"message"} : indexer'[o] = indexer[o]
    BY DEF StartMessageIndexer, ScraperInv
  <1>5. /\ TaskFields \subseteq DOMAIN j
        /\ j.pc = "next" /\ j.start = ScrapeFrom /\ j.next = ScrapeFrom /\ j.logs = {}
        /\ j.blocks = {} /\ j.txns = {}
        /\ j.sequence = sequence
    BY DEF StartMessageIndexer, ScraperInv, Down, TaskFields, Kinds
  <1>6. LastMessageNonce \in Nat /\ (LastMessageNonce # 0 => StoredNonce(LastMessageNonce))
    BY LastNonce DEF ScraperInv
  <1>7. indexer["message"].pc = "down"
    BY DEF StartMessageIndexer, AllDown, Kinds
  <1>8. sequence = IF LastMessageNonce > 1 THEN LastMessageNonce - 1 ELSE 0
    <2>1. LastMessageNonce - 1 \in Int /\ 0 \in Int
      BY <1>6
    <2>2. QED
      BY <1>6, <2>1, GreatestOfTwo
  <1> HIDE DEF sequence
  <1>9. TaskTypes("message", indexer["message"])'
    BY <1>5, <1>6, <1>8, ScraperAssumption DEF TaskTypes, StorePcs
  <1>12. \A n \in Gaps : n \in abandoned
    BY <1>7 DEF ScraperInv, MessagesContiguous, LookedFor
  <1>10. MessageTask(indexer["message"])'
    <2>1. ASSUME NEW n \in 0 .. sequence - 1 PROVE Accounted(n)'
      <3>1. StoredNonce(LastMessageNonce) /\ n \in 0 .. LastMessageNonce
        BY <1>6, <1>8, <2>1
      <3>2. StoredNonce(n) \/ n \in Gaps
        BY <3>1, GapsAre
      <3>3. QED
        BY <1>2, <1>12, <3>2 DEF Accounted, Grown
    <2>2. \A l \in ChainLogs : l.block \in Int /\ ~(l.block < ScrapeFrom)
      BY ScraperAssumption
    <2>3. QED
      BY <1>1, <1>5, <2>1, <2>2 DEF MessageTask
  <1>13. MessagesContiguous'
    BY <1>1, <1>2, <1>12 DEF ScraperInv, MessagesContiguous, NonceOmitted, leftOut
  <1>11. QED
    BY <1>1, <1>2, <1>3, <1>4, <1>9, <1>10, <1>13, OneTask DEF Kinds

LEMMA SpawnStep ==
    ASSUME ScraperInv, NEW k \in Kinds \ {"message"}, SpawnSyncTask(k)
    PROVE  ScraperInv'
  <1> DEFINE j == indexer'[k]
  <1>1. UNCHANGED <<finalTip, blockRows, txnRows, logRows, cursorRow, height, leftOut>> /\ finalTip \in Int
        /\ height \in Int
    BY DEF SpawnSyncTask, ScraperInv, scraperDb
  <1>2. /\ Grown /\ RowTypes' /\ HistoryOK' /\ Gaps' = Gaps
        /\ \A b : Covered(b) => Covered(b)'
    BY <1>1, TablesSame, HistoryKept DEF ScraperInv, leftOut
  <1>3. DOMAIN indexer' = Kinds /\ \A o \in Kinds \ {k} : indexer'[o] = indexer[o]
    BY DEF SpawnSyncTask, ScraperInv
  <1>4. /\ TaskFields \subseteq DOMAIN j
        /\ j.pc = "next" /\ j.start = height /\ j.next = height /\ j.logs = {}
        /\ j.blocks = {} /\ j.txns = {} /\ j.sequence = 0
    BY DEF SpawnSyncTask, ScraperInv, Down, TaskFields
  <1>5. CoveredTo(height)' /\ CoveredTo(cursorRow)'
    BY <1>1, <1>2 DEF ScraperInv, CoveredTo
  <1>6. TaskTypes(k, indexer[k])'
    BY <1>1, <1>4 DEF TaskTypes, StorePcs
  <1>7. ReadOrHeld(k, indexer[k])'
    <2>1. \A l \in ChainLogs : l.block \in Int
      BY ScraperAssumption
    <2>2. LogsIn(k, height, height - 1) = {}
      BY <1>1, <2>1 DEF LogsIn
    <2>3. CoveredTo(indexer[k].start)'
      BY <1>1, <1>2, <1>4 DEF ScraperInv, CoveredTo
    <2>4. QED
      BY <1>4, <2>2, <2>3 DEF ReadOrHeld
  <1>9. MessagesContiguous'
    BY <1>2, <1>3, GapsKept DEF ScraperInv, Kinds
  <1>8. QED
    BY <1>1, <1>2, <1>3, <1>5, <1>6, <1>7, <1>9, OneTask DEF ScraperInv

(* A chunk ends at a final block.                                          *)
LEMMA ChunkEnds ==
    ASSUME finalTip \in Int, NEW from \in Int
    PROVE  ChunkEnd(from) \in Int /\ ChunkEnd(from) <= finalTip
  BY ScraperAssumption DEF ChunkEnd

(* What Query leaves of the task. *)
LEMMA QueryStep ==
    ASSUME ScraperInv, NEW k \in Kinds, NEW i, TaskFields \subseteq DOMAIN i, i.pc = "next",
           i.logs = {}, NEW from \in Int, NEW to \in Int, to <= finalTip, Query(k, i, from, to)
    PROVE  /\ DOMAIN indexer' = Kinds /\ \A o \in Kinds \ {k} : indexer'[o] = indexer[o]
           /\ TaskFields \subseteq DOMAIN indexer'[k]
           /\ indexer'[k].start = i.start /\ indexer'[k].next = to + 1
           /\ indexer'[k].sequence = i.sequence
           /\ indexer'[k].blocks = i.blocks /\ indexer'[k].txns = i.txns
           /\ indexer'[k].logs \subseteq LogsIn(k, from, to)
           /\ omitted \subseteq omitted'
           /\ \A l \in omitted' : l \in omitted \/ l \in LogsIn(k, from, to)
           /\ \A l \in LogsIn(k, from, to) :
                    l \in omitted' \/ (l \in indexer'[k].logs /\ indexer'[k].pc \in StorePcs)
           /\ indexer'[k].pc \in {"next", "update", "blocks"}
           /\ indexer'[k].pc = "next" => indexer'[k].logs = {}
           /\ indexer'[k].pc # "down"
  <1>1. PICK dropped \in SUBSET LogsIn(k, from, to) :
            LET logs == LogsIn(k, from, to) \ dropped IN
            /\ omitted' = omitted \cup dropped
            /\ indexer' = [indexer EXCEPT ![k] =
                IF from <= to
                THEN [i EXCEPT !.next = to + 1, !.logs = logs,
                               !.pc = IF logs = {} THEN "update" ELSE "blocks"]
                ELSE [i EXCEPT !.next = to + 1]]
    BY DEF Query
  <1> DEFINE logs == LogsIn(k, from, to) \ dropped
  <1>2. DOMAIN indexer = Kinds
    BY DEF ScraperInv
  <1>3. CASE from <= to
    <2>1. indexer'[k] = [i EXCEPT !.next = to + 1, !.logs = logs,
                                  !.pc = IF logs = {} THEN "update" ELSE "blocks"]
      BY <1>1, <1>2, <1>3
    <2>2. /\ indexer'[k].logs = logs
          /\ indexer'[k].pc = IF logs = {} THEN "update" ELSE "blocks"
      BY <2>1 DEF TaskFields
    <2>3. QED
      BY <1>1, <1>2, <2>1, <2>2 DEF TaskFields, StorePcs
  <1>4. CASE from > to
    <2>1. LogsIn(k, from, to) = {}
      <3>1. \A l \in ChainLogs : l.block \in Int
        BY ScraperAssumption
      <3>2. QED
        BY <1>4, <3>1 DEF LogsIn
    <2>2. indexer'[k] = [i EXCEPT !.next = to + 1]
      BY <1>1, <1>2, <1>4
    <2>3. QED
      BY <1>1, <1>2, <2>1, <2>2 DEF TaskFields
  <1>5. QED
    BY <1>3, <1>4

(* A query leaves out final logs only.                                     *)
LEMMA QueryHistory ==
    ASSUME ScraperInv, UNCHANGED <<finalTip, abandoned>>, NEW k, NEW from, NEW to \in Int,
           to <= finalTip, omitted \subseteq omitted',
           \A l \in omitted' : l \in omitted \/ l \in LogsIn(k, from, to)
    PROVE  HistoryOK'
  <1>1. \A l \in ChainLogs : l.block \in Int
    BY ScraperAssumption
  <1>2. finalTip \in Int
    BY DEF ScraperInv
  <1>3. \A l \in omitted' : l \in ChainLogs /\ l.block <= finalTip
    BY <1>1, <1>2 DEF ScraperInv, HistoryOK, LogsIn
  <1>4. \A n \in abandoned : NonceOmitted(n)'
    BY DEF ScraperInv, HistoryOK, NonceOmitted
  <1>5. QED
    BY <1>3, <1>4 DEF HistoryOK

(* The rate limited cursor reads on from where it is.                      *)
LEMMA BlockRangeStep ==
    ASSUME ScraperInv, NEW k \in Kinds, NextBlockRange(k)
    PROVE  ScraperInv'
  <1> DEFINE i == indexer[k]
             j == indexer'[k]
             from == i.next
             to == ChunkEnd(i.next)
  <1>1. /\ UNCHANGED <<finalTip, blockRows, txnRows, logRows, cursorRow, height, abandoned>>
        /\ finalTip \in Int /\ k # "message" /\ i.pc = "next"
    BY DEF NextBlockRange, ScraperInv, scraperDb
  <1>2. TaskTypes(k, i) /\ ReadOrHeld(k, i) /\ i.logs = {}
    BY <1>1 DEF ScraperInv, TaskTypes
  <1>3. from \in Int /\ to \in Int /\ to <= finalTip /\ i.start \in Int
    BY <1>1, <1>2, ChunkEnds DEF TaskTypes
  <1>4. Query(k, i, from, to)
    BY DEF NextBlockRange
  <1>5. \A l \in LogsIn(k, i.start, from - 1) : StoredOrOmitted(l)
    BY <1>1, <1>2 DEF ReadOrHeld, StorePcs, from
  <1> HIDE DEF from, to
  <1>6. /\ DOMAIN indexer' = Kinds /\ \A o \in Kinds \ {k} : indexer'[o] = indexer[o]
        /\ TaskFields \subseteq DOMAIN j
        /\ j.start = i.start /\ j.next = to + 1 /\ j.sequence = i.sequence
        /\ j.blocks = i.blocks /\ j.txns = i.txns
        /\ j.logs \subseteq LogsIn(k, from, to)
        /\ omitted \subseteq omitted'
        /\ \A l \in omitted' : l \in omitted \/ l \in LogsIn(k, from, to)
        /\ \A l \in LogsIn(k, from, to) : l \in omitted' \/ (l \in j.logs /\ j.pc \in StorePcs)
        /\ j.pc \in {"next", "update", "blocks"} /\ (j.pc = "next" => j.logs = {})
        /\ j.pc # "down"
    BY <1>1, <1>2, <1>3, <1>4, QueryStep DEF TaskTypes
  <1>7. /\ Grown /\ RowTypes' /\ Gaps' = Gaps
        /\ \A l : Stored(l)' <=> Stored(l)
        /\ \A b : Covered(b) => Covered(b)'
    BY <1>1, <1>6, TablesSame DEF ScraperInv
  <1>8. HistoryOK'
    BY <1>1, <1>3, <1>6, QueryHistory
  <1>9. MessagesContiguous'
    BY <1>1, <1>6, <1>7, GapsKept DEF ScraperInv, Kinds
  <1>10. \A l \in ChainLogs : l.block \in Int
    BY ScraperAssumption
  <1>11. CoveredTo(height)' /\ CoveredTo(cursorRow)' /\ CoveredTo(indexer[k].start)'
    BY <1>1, <1>2, <1>6, <1>7 DEF ScraperInv, CoveredTo, ReadOrHeld
  <1>12. TaskTypes(k, indexer[k])'
    <2>1. \A l \in j.logs : l \in ChainLogs /\ l.kind = k /\ l.block < j.next /\ l.block <= finalTip
      BY <1>1, <1>3, <1>6, <1>10 DEF LogsIn
    <2>2. QED
      BY <1>1, <1>2, <1>3, <1>6, <2>1 DEF TaskTypes, StorePcs
  <1>13. ReadOrHeld(k, indexer[k])'
    <2>1. ASSUME NEW l \in LogsIn(k, i.start, j.next - 1)
          PROVE  StoredOrOmitted(l)' \/ (l \in j.logs /\ j.pc \in StorePcs)
      <3>1. l \in LogsIn(k, i.start, from - 1) \/ l \in LogsIn(k, from, to)
        BY <1>3, <1>6, <1>10, <2>1 DEF LogsIn
      <3>2. QED
        BY <1>5, <1>6, <1>7, <3>1 DEF StoredOrOmitted
    <2>2. QED
      BY <1>6, <1>11, <2>1 DEF ReadOrHeld, LogsIn
  <1>14. QED
    BY <1>1, <1>6, <1>7, <1>8, <1>9, <1>11, <1>12, <1>13, OneTask DEF ScraperInv

(* The message that a MessageIndexer asks for is the first that is not     *)
(* stored, and no message before the block it asks from is missing.        *)
FirstMissing == CHOOSE n \in indexer["message"].sequence .. DispatchCount :
                    /\ RetrieveMessageByNonce(n) = {}
                    /\ \A p \in indexer["message"].sequence .. n - 1 : RetrieveMessageByNonce(p) # {}
BlockToAsk == IF FirstMissing > indexer["message"].sequence
              THEN Max(LogBlockNumber(FirstMissing - 1)) ELSE indexer["message"].next

(* It lies between the sequence and the count, and all before it are      *)
(* accounted for.                                                          *)
LEMMA FirstMissingIs ==
    ASSUME ScraperInv, indexer["message"].pc = "next"
    PROVE  /\ FirstMissing \in Nat /\ indexer["message"].sequence <= FirstMissing
           /\ DispatchCount \in Nat /\ FirstMissing <= DispatchCount
           /\ ~StoredNonce(FirstMissing)
           /\ \A n \in indexer["message"].sequence .. FirstMissing - 1 : StoredNonce(n)
           /\ \A n \in 0 .. FirstMissing - 1 : Accounted(n)
  <1> DEFINE s == indexer["message"].sequence
             d == DispatchCount
             T == {n \in 0 .. d : \A p \in s .. n - 1 : StoredNonce(p)}
             c == Cardinality(T)
  <1>1. s \in Nat /\ \A n \in 0 .. s - 1 : Accounted(n)
    BY DEF ScraperInv, TaskTypes, MessageTask, Kinds
  <1>2. d \in Nat /\ \A n : Accounted(n) => n \in 0 .. d - 1
    BY FinalNonces, NoncesAreFinal DEF ScraperInv
  <1> HIDE DEF s, d
  <1>3. s <= d
    <2>1. CASE s = 0
      BY <1>2, <2>1
    <2>2. CASE s # 0
      <3>1. s - 1 \in 0 .. s - 1
        BY <1>1, <2>2
      <3>2. s - 1 \in 0 .. d - 1
        BY <1>1, <1>2, <3>1
      <3>3. QED
        BY <1>1, <1>2, <3>2
    <2>3. QED
      BY <2>1, <2>2
  <1>4. c \in Nat /\ T = 0 .. c - 1
    <2>1. IsFiniteSet(T)
      <3>1. 0 \in Int /\ d \in Int
        BY <1>2
      <3>2. IsFiniteSet(0 .. d)
        BY <3>1, FS_Interval
      <3>3. QED
        BY <3>2, FS_Subset
    <2>2. T \in SUBSET Nat
      BY <1>2
    <2>3. ASSUME NEW n \in T PROVE 0 .. n \subseteq T
      <3>1. ASSUME NEW q \in 0 .. n PROVE q \in T
        <4>1. q \in 0 .. d /\ \A p \in s .. q - 1 : p \in s .. n - 1
          BY <1>1, <1>2, <3>1
        <4>2. QED
          BY <4>1
      <3>2. QED
        BY <3>1
    <2>4. QED
      BY <2>1, <2>2, <2>3, InitialSegment
  <1>5. s \in T
    BY <1>1, <1>2, <1>3
  <1>14. \A n : n \in T <=> n \in 0 .. d /\ \A p \in s .. n - 1 : StoredNonce(p)
    OBVIOUS
  <1> HIDE DEF c, T
  <1>6. c - 1 \in s .. d /\ \A p \in s .. c - 2 : StoredNonce(p)
    <2>1. c - 1 \in T /\ s <= c - 1
      BY <1>1, <1>4, <1>5
    <2>2. c - 1 - 1 = c - 2
      BY <1>4
    <2>3. c - 1 \in 0 .. d /\ \A p \in s .. c - 2 : StoredNonce(p)
      BY <1>14, <2>1, <2>2
    <2>4. QED
      BY <1>1, <1>2, <2>1, <2>3
  <1>7. ~StoredNonce(c - 1)
    <2>1. SUFFICES ASSUME StoredNonce(c - 1) PROVE FALSE
      OBVIOUS
    <2>2. c - 1 \in 0 .. d - 1
      BY <1>2, <2>1 DEF Accounted
    <2>3. \A p \in s .. c - 1 : StoredNonce(p)
      <3>1. \A p \in s .. c - 1 : p \in s .. c - 2 \/ p = c - 1
        BY <1>1, <1>4
      <3>2. QED
        BY <1>6, <2>1, <3>1
    <2>4. c \in T
      <3>1. c \in 0 .. d
        BY <1>2, <1>4, <2>2
      <3>2. QED
        BY <1>14, <2>3, <3>1
    <2>5. QED
      BY <1>4, <2>4
  <1>8. \E n \in s .. d : ~StoredNonce(n) /\ \A p \in s .. n - 1 : StoredNonce(p)
    <2>1. \A p \in s .. (c - 1) - 1 : p \in s .. c - 2
      BY <1>4
    <2>2. QED
      BY <1>6, <1>7, <2>1
  <1>9. FirstMissing \in s .. d /\ ~StoredNonce(FirstMissing)
        /\ \A p \in s .. FirstMissing - 1 : StoredNonce(p)
    BY <1>8 DEF FirstMissing, StoredNonce, s, d
  <1>10. \A n \in 0 .. FirstMissing - 1 : n \in 0 .. s - 1 \/ n \in s .. FirstMissing - 1
    BY <1>1, <1>2, <1>9
  <1>11. FirstMissing \in Nat /\ s <= FirstMissing /\ FirstMissing <= d
    BY <1>1, <1>2, <1>9
  <1>12. \A n \in 0 .. FirstMissing - 1 : Accounted(n)
    BY <1>1, <1>9, <1>10 DEF Accounted
  <1>13. QED
    BY <1>2, <1>9, <1>11, <1>12 DEF s, d

(* A message whose nonce was abandoned was left out of an answer; and if   *)
(* all nonces before that of l are accounted for, so are the messages in   *)
(* the blocks before l.                                                    *)
LEMMA BeforeMessage ==
    ASSUME HistoryOK, NEW l \in ChainLogs, l.kind = "message",
           \A n \in 0 .. l.key - 1 : Accounted(n),
           NEW m \in ChainLogs, m.kind = "message", m.block < l.block
    PROVE  StoredNonce(m.key) \/ m \in omitted
  <1>1. m.key \in Nat /\ l.key \in Nat /\ m.block \in Int /\ l.block \in Int
    BY ScraperAssumption
  <1>2. m.key < l.key
    <2>1. CASE m.key = l.key
      <3>1. m = l
        BY <2>1, ChainAssumption
      <3>2. QED
        BY <1>1, <3>1
    <2>2. CASE m.key > l.key
      <3>1. l.key \in 0 .. m.key - 1
        BY <1>1, <2>2
      <3>2. PICK o \in ChainLogs : o.kind = "message" /\ o.key = l.key /\ o.block <= m.block
        BY <3>1, ChainAssumption
      <3>3. o = l
        BY <3>2, ChainAssumption
      <3>4. QED
        BY <1>1, <3>2, <3>3
    <2>3. QED
      BY <1>1, <2>1, <2>2
  <1>3. Accounted(m.key)
    BY <1>1, <1>2
  <1>4. CASE m.key \in abandoned
    <2>1. PICK o \in omitted : o.kind = "message" /\ o.key = m.key
      BY <1>4 DEF HistoryOK, NonceOmitted
    <2>2. o = m
      BY <2>1, ChainAssumption DEF HistoryOK
    <2>3. QED
      BY <2>1, <2>2
  <1>5. QED
    BY <1>3, <1>4 DEF Accounted

(* The messages before the block it asks from are stored, or were left out *)
(* of an answer.                                                           *)
LEMMA NoneBefore ==
    ASSUME ScraperInv, indexer["message"].pc = "next"
    PROVE  /\ BlockToAsk \in Int
           /\ \A m \in ChainLogs : m.kind = "message" /\ m.block < BlockToAsk =>
                    StoredNonce(m.key) \/ m \in omitted
  <1> DEFINE i == indexer["message"]
  <1>1. /\ i.sequence <= FirstMissing /\ FirstMissing \in Nat
        /\ \A n \in i.sequence .. FirstMissing - 1 : StoredNonce(n)
        /\ \A n \in 0 .. FirstMissing - 1 : Accounted(n)
    BY FirstMissingIs
  <1>2. TaskTypes("message", i) /\ MessageTask(i) /\ i.sequence \in Nat
    BY DEF ScraperInv, Kinds, TaskTypes
  <1>3. CASE FirstMissing > i.sequence
    <2>1. FirstMissing - 1 \in i.sequence .. FirstMissing - 1
      BY <1>1, <1>2, <1>3
    <2>2. PICK l \in ChainLogs : l.kind = "message" /\ l.key = FirstMissing - 1
      BY <1>1, <2>1, NonceOfLog DEF ScraperInv
    <2>3. LogBlockNumber(FirstMissing - 1) = {l.block}
      BY <1>1, <2>1, <2>2, BlockOfMessage DEF ScraperInv
    <2>4. l.block \in Int
      BY ScraperAssumption
    <2>5. BlockToAsk = l.block
      BY <1>3, <2>3, <2>4, MaxOfOne DEF BlockToAsk
    <2>6. \A n \in 0 .. l.key - 1 : Accounted(n)
      BY <1>1, <2>2
    <2>7. QED
      BY <2>2, <2>4, <2>5, <2>6, BeforeMessage DEF ScraperInv
  <1>4. CASE ~(FirstMissing > i.sequence)
    <2>1. BlockToAsk = i.next /\ i.next \in Int
      BY <1>2, <1>4 DEF TaskTypes, BlockToAsk
    <2>2. QED
      BY <1>2, <2>1 DEF MessageTask, StorePcs
  <1>5. QED
    BY <1>3, <1>4

(* The forward cursor asks for a chunk, or waits at the tip.               *)
LEMMA MessageRangeStep ==
    ASSUME ScraperInv, NextMessageRange
    PROVE  ScraperInv'
  <1> DEFINE i == indexer["message"]
             j == indexer'["message"]
             from == BlockToAsk
             to == ChunkEnd(BlockToAsk)
  <1>1. /\ UNCHANGED <<finalTip, blockRows, txnRows, logRows, cursorRow, height, abandoned>>
        /\ finalTip \in Int /\ i.pc = "next" /\ "message" \in Kinds
    BY DEF NextMessageRange, ScraperInv, scraperDb, Kinds
  <1>2. TaskTypes("message", i) /\ MessageTask(i) /\ i.logs = {} /\ i.start = ScrapeFrom
    BY <1>1 DEF ScraperInv, TaskTypes, MessageTask
  <1>3. /\ FirstMissing \in Nat /\ i.sequence <= FirstMissing
        /\ DispatchCount \in Nat /\ FirstMissing <= DispatchCount
        /\ \A n \in i.sequence .. FirstMissing - 1 : StoredNonce(n)
        /\ \A n \in 0 .. FirstMissing - 1 : Accounted(n)
    BY <1>1, FirstMissingIs
  <1>4. /\ from \in Int /\ to \in Int /\ to <= finalTip
        /\ \A m \in ChainLogs : m.kind = "message" /\ m.block < from =>
                StoredNonce(m.key) \/ m \in omitted
    BY <1>1, NoneBefore, ChunkEnds
  <1>5. \A l \in ChainLogs : l.block \in Int /\ l.key \in Nat
    BY ScraperAssumption
  <1>6. IF FirstMissing < DispatchCount
        THEN Query("message", [i EXCEPT !.sequence = FirstMissing], from, to)
        ELSE /\ indexer' = [indexer EXCEPT !["message"].sequence = FirstMissing,
                                           !["message"].next = finalTip]
             /\ UNCHANGED omitted
    BY DEF NextMessageRange, FirstMissing, BlockToAsk
  <1> HIDE DEF from, to
  \* What both cases have in common.
  <1>7. ASSUME omitted \subseteq omitted', HistoryOK',
               DOMAIN indexer' = Kinds, \A o \in Kinds \ {"message"} : indexer'[o] = indexer[o],
               j.sequence = FirstMissing, j.pc # "down", j.start = i.start,
               TaskTypes("message", indexer["message"])',
               \A l \in ChainLogs : l.kind = "message" /\ l.block < j.next =>
                    StoredNonce(l.key) \/ l \in omitted' \/ (j.pc \in StorePcs /\ l \in j.logs)
        PROVE  ScraperInv'
    <2>1. /\ Grown /\ RowTypes' /\ Gaps' = Gaps
          /\ \A n : StoredNonce(n)' <=> StoredNonce(n)
          /\ \A b : Covered(b) => Covered(b)'
      BY <1>1, <1>7, TablesSame DEF ScraperInv
    <2>2. CoveredTo(height)' /\ CoveredTo(cursorRow)'
      BY <1>1, <2>1 DEF ScraperInv, CoveredTo
    <2>3. ASSUME NEW n \in Gaps PROVE NonceOmitted(n)' /\ (n \in abandoned' \/ LookedFor(n)')
      <3>1. NonceOmitted(n) /\ (n \in abandoned \/ i.sequence <= n)
        BY DEF ScraperInv, MessagesContiguous, LookedFor
      <3>2. ~StoredNonce(n) /\ n \in Nat
        <4>1. ~StoredNonce(n) /\ \E p : StoredNonce(p) /\ n \in 0 .. p
          BY GapsAre
        <4>2. \A p : StoredNonce(p) => p \in Nat
          BY <1>3, NoncesAreFinal DEF ScraperInv, Accounted
        <4>3. QED
          BY <4>1, <4>2
      <3>3. i.sequence <= n => FirstMissing <= n
        <4>1. i.sequence \in Nat
          BY <1>2 DEF TaskTypes
        <4>2. QED
          BY <1>3, <3>2, <4>1
      <3>4. QED
        BY <1>1, <1>7, <3>1, <3>3 DEF LookedFor, NonceOmitted
    <2>4. MessagesContiguous'
      BY <2>1, <2>3 DEF MessagesContiguous
    <2>5. MessageTask(indexer["message"])'
      BY <1>1, <1>2, <1>3, <1>7, <2>1 DEF MessageTask, Accounted
    <2>6. QED
      BY <1>1, <1>7, <2>1, <2>2, <2>4, <2>5, OneTask DEF ScraperInv
  <1>8. CASE FirstMissing < DispatchCount
    <2> DEFINE q == [i EXCEPT !.sequence = FirstMissing]
    <2>1. /\ TaskFields \subseteq DOMAIN q /\ q.pc = "next" /\ q.sequence = FirstMissing
          /\ q.start = i.start /\ q.logs = {} /\ q.blocks = i.blocks /\ q.txns = i.txns
      BY <1>1, <1>2 DEF TaskTypes, TaskFields
    <2>2. Query("message", q, from, to)
      BY <1>6, <1>8
    <2> HIDE DEF q
    <2>3. /\ DOMAIN indexer' = Kinds /\ \A o \in Kinds \ {"message"} : indexer'[o] = indexer[o]
          /\ TaskFields \subseteq DOMAIN j
          /\ j.start = i.start /\ j.next = to + 1 /\ j.sequence = FirstMissing
          /\ j.blocks = i.blocks /\ j.txns = i.txns
          /\ j.logs \subseteq LogsIn("message", from, to)
          /\ omitted \subseteq omitted'
          /\ \A l \in omitted' : l \in omitted \/ l \in LogsIn("message", from, to)
          /\ \A l \in LogsIn("message", from, to) :
                l \in omitted' \/ (l \in j.logs /\ j.pc \in StorePcs)
          /\ j.pc \in {"next", "update", "blocks"} /\ (j.pc = "next" => j.logs = {})
          /\ j.pc # "down"
      BY <1>1, <1>4, <2>1, <2>2, QueryStep
    <2>4. \A l \in j.logs : /\ l \in ChainLogs /\ l.kind = "message"
                            /\ l.block < j.next /\ l.block <= finalTip
      BY <1>1, <1>4, <1>5, <2>3 DEF LogsIn
    <2>5. TaskTypes("message", indexer["message"])'
      BY <1>1, <1>2, <1>3, <1>4, <2>3, <2>4 DEF TaskTypes, StorePcs
    <2>6. ASSUME NEW l \in ChainLogs, l.kind = "message", l.block < j.next
          PROVE  StoredNonce(l.key) \/ l \in omitted' \/ (j.pc \in StorePcs /\ l \in j.logs)
      <3>1. l.block < from \/ l \in LogsIn("message", from, to)
        BY <1>4, <1>5, <2>3, <2>6 DEF LogsIn
      <3>2. QED
        BY <1>4, <2>3, <2>6, <3>1
    <2>7. HistoryOK'
      BY <1>1, <1>4, <2>3, QueryHistory
    <2>8. QED
      BY <1>7, <2>3, <2>5, <2>6, <2>7
  <1>9. CASE ~(FirstMissing < DispatchCount)
    <2>1. /\ DOMAIN indexer' = Kinds /\ \A o \in Kinds \ {"message"} : indexer'[o] = indexer[o]
          /\ TaskFields \subseteq DOMAIN j /\ j.pc = "next" /\ j.sequence = FirstMissing
          /\ j.next = finalTip /\ j.start = i.start /\ j.logs = {}
          /\ j.blocks = i.blocks /\ j.txns = i.txns /\ omitted' = omitted
      BY <1>1, <1>2, <1>6, <1>9 DEF ScraperInv, TaskTypes, TaskFields
    <2>2. TaskTypes("message", indexer["message"])'
      BY <1>1, <1>2, <1>3, <2>1 DEF TaskTypes, StorePcs
    <2>3. ASSUME NEW l \in ChainLogs, l.kind = "message", l.block < finalTip
          PROVE  StoredNonce(l.key) \/ l \in omitted
      <3>1. l.block \in Nat /\ l.block <= finalTip
        BY <1>1, <2>3, ScraperAssumption
      <3>2. l \in LogsIn("message", 0, finalTip)
        BY <2>3, <3>1 DEF LogsIn
      <3>3. l.key \in 0 .. DispatchCount - 1
        BY <1>1, <3>2, FinalNonces
      <3>4. Accounted(l.key)
        BY <1>3, <1>9, <3>3
      <3>5. ASSUME l.key \in abandoned PROVE l \in omitted
        <4>1. PICK o \in omitted : o.kind = "message" /\ o.key = l.key
          BY <3>5 DEF ScraperInv, HistoryOK, NonceOmitted
        <4>2. o = l
          BY <2>3, <4>1, ChainAssumption DEF ScraperInv, HistoryOK
        <4>3. QED
          BY <4>1, <4>2
      <3>6. QED
        BY <3>4, <3>5 DEF Accounted
    <2>4. HistoryOK'
      BY <1>1, <2>1, HistoryKept DEF leftOut
    <2>5. QED
      BY <1>7, <2>1, <2>2, <2>3, <2>4
  <1>10. QED
    BY <1>8, <1>9

(* A step of store_logs before the rows: the task keeps what it has read. *)
LEMMA HoldingStep ==
    ASSUME ScraperInv, Grown, RowTypes', Gaps' = Gaps,
           UNCHANGED <<height, cursorRow, leftOut>>,
           NEW k \in Kinds, DOMAIN indexer' = Kinds,
           \A o \in Kinds \ {k} : indexer'[o] = indexer[o],
           indexer[k].pc \in StorePcs, indexer'[k].pc \in StorePcs,
           indexer'[k].start = indexer[k].start, indexer'[k].next = indexer[k].next,
           indexer'[k].sequence = indexer[k].sequence, indexer'[k].logs = indexer[k].logs,
           TaskTypes(k, indexer[k])'
    PROVE  ScraperInv'
  <1>1. CoveredTo(height)' /\ CoveredTo(cursorRow)'
    BY CoveredGrown DEF ScraperInv, CoveredTo
  <1>2. TaskTypes(k, indexer[k])
    BY DEF ScraperInv
  <1>3. ASSUME k # "message" PROVE ReadOrHeld(k, indexer[k])'
    <2>1. ReadOrHeld(k, indexer[k]) /\ indexer[k].pc # "down"
      BY <1>3 DEF ScraperInv, StorePcs
    <2>2. CoveredTo(indexer[k].start)'
      BY <1>2, <2>1, CoveredGrown DEF ReadOrHeld, CoveredTo, TaskTypes, Covered, LogsIn, Grown,
                                        StoredOrOmitted
    <2>3. \A l \in LogsIn(k, indexer[k].start, indexer[k].next - 1) :
                StoredOrOmitted(l)' \/ l \in indexer[k].logs
      BY <2>1 DEF ReadOrHeld, Grown, LogsIn, StoredOrOmitted
    <2>4. QED
      BY <2>2, <2>3 DEF ReadOrHeld, LogsIn
  <1>4. ASSUME k = "message" PROVE MessageTask(indexer["message"])'
    <2>1. MessageTask(indexer["message"]) /\ indexer["message"].pc \notin {"down", "next"}
      BY <1>4 DEF ScraperInv, StorePcs
    <2>2. QED
      BY <1>4, <2>1 DEF MessageTask, Grown, Accounted
  <1>5. HistoryOK'
    BY HistoryKept DEF Grown
  <1>6. MessagesContiguous'
    <2>1. indexer'["message"].sequence = indexer["message"].sequence
          /\ (indexer["message"].pc # "down" => indexer'["message"].pc # "down")
      BY DEF Kinds, StorePcs
    <2>2. QED
      BY <2>1, GapsKept DEF ScraperInv
  <1>7. QED
    BY <1>1, <1>3, <1>4, <1>5, <1>6, OneTask DEF ScraperInv

(* ensure_blocks and ensure_txns look up what is there.                    *)
LEMMA LookUpBlocksStep ==
    ASSUME ScraperInv, NEW k \in Kinds, LookUpBlocks(k)
    PROVE  ScraperInv'
  <1> DEFINE i == indexer[k]
             j == indexer'[k]
  <1>1. UNCHANGED <<finalTip, blockRows, txnRows, logRows, cursorRow, height, leftOut>> /\ finalTip \in Int
        /\ i.pc = "blocks"
    BY DEF LookUpBlocks, ScraperInv, scraperDb
  <1>2. Grown /\ RowTypes' /\ Gaps' = Gaps
    BY <1>1, TablesSame DEF ScraperInv, leftOut
  <1>3. TaskTypes(k, i)
    BY DEF ScraperInv
  <1>4. /\ DOMAIN indexer' = Kinds /\ \A o \in Kinds \ {k} : indexer'[o] = indexer[o]
        /\ TaskFields \subseteq DOMAIN j /\ j.pc = "insert_blocks"
        /\ j.blocks = GetBlockBasic(BlocksOf(i)) /\ j.logs = i.logs /\ j.txns = i.txns
        /\ j.start = i.start /\ j.next = i.next /\ j.sequence = i.sequence
    BY <1>3 DEF LookUpBlocks, ScraperInv, TaskTypes, TaskFields
  <1>5. TaskTypes(k, indexer[k])'
    BY <1>1, <1>3, <1>4 DEF TaskTypes, StorePcs, GetBlockBasic
  <1>6. QED
    BY <1>1, <1>2, <1>4, <1>5, HoldingStep DEF StorePcs

LEMMA LookUpTxnsStep ==
    ASSUME ScraperInv, NEW k \in Kinds, LookUpTxns(k)
    PROVE  ScraperInv'
  <1> DEFINE i == indexer[k]
             j == indexer'[k]
  <1>1. UNCHANGED <<finalTip, blockRows, txnRows, logRows, cursorRow, height, leftOut>> /\ finalTip \in Int
        /\ i.pc = "txns"
    BY DEF LookUpTxns, ScraperInv, scraperDb
  <1>2. Grown /\ RowTypes' /\ Gaps' = Gaps
    BY <1>1, TablesSame DEF ScraperInv, leftOut
  <1>3. TaskTypes(k, i)
    BY DEF ScraperInv
  <1>4. /\ DOMAIN indexer' = Kinds /\ \A o \in Kinds \ {k} : indexer'[o] = indexer[o]
        /\ TaskFields \subseteq DOMAIN j /\ j.pc = "insert_txns"
        /\ j.txns = GetTxnIds(TxnsOf(i)) /\ j.logs = i.logs /\ j.blocks = i.blocks
        /\ j.start = i.start /\ j.next = i.next /\ j.sequence = i.sequence
    BY <1>3 DEF LookUpTxns, ScraperInv, TaskTypes, TaskFields
  <1>5. TaskTypes(k, indexer[k])'
    BY <1>1, <1>3, <1>4 DEF TaskTypes, StorePcs, GetTxnIds
  <1>6. QED
    BY <1>1, <1>2, <1>4, <1>5, HoldingStep DEF StorePcs

(* Blocks and transactions that are added take nothing from the rows.      *)
LEMMA RowsGrow ==
    ASSUME blockRows \subseteq blockRows', txnRows \subseteq txnRows', UNCHANGED logRows
    PROVE  /\ \A r, l : IsRowOf(r, l) => IsRowOf(r, l)'
           /\ \A l : Stored(l) => Stored(l)'
           /\ \A n : StoredNonce(n)' <=> StoredNonce(n)
           /\ Gaps' = Gaps
  <1>1. \A r, l : IsRowOf(r, l) => IsRowOf(r, l)'
    BY DEF IsRowOf
  <1>2. QED
    BY <1>1 DEF Stored, StoredNonce, RetrieveMessageByNonce, Gaps

(* store_blocks adds every block that is not there.                        *)
LEMMA NewBlockRows ==
    ASSUME NEW hashes
    PROVE  /\ \A b \in NewBlocks(hashes) : b.height = b.hash
           /\ \A h \in hashes : h \in {r.hash : r \in blockRows}
                                \/ \E b \in NewBlocks(hashes) : b.hash = h
  <1> DEFINE new == hashes \ {r.hash : r \in blockRows}
             id(h) == Fresh(blockRows, Cardinality({g \in new : g <= h}))
  <1>1. NewBlocks(hashes) = {[id |-> id(h), hash |-> h, height |-> h] : h \in new}
    BY DEF NewBlocks
  <1>2. ASSUME NEW b \in NewBlocks(hashes) PROVE b.height = b.hash
    <2>1. PICK h \in new : b = [id |-> id(h), hash |-> h, height |-> h]
      BY <1>1, Zenon
    <2> HIDE DEF id
    <2>2. QED
      BY <2>1
  <1>3. ASSUME NEW h \in new PROVE \E b \in NewBlocks(hashes) : b.hash = h
    <2>1. [id |-> id(h), hash |-> h, height |-> h] \in NewBlocks(hashes)
      BY <1>1, Zenon
    <2>2. [id |-> id(h), hash |-> h, height |-> h].hash = h
      OBVIOUS
    <2>3. QED
      BY <2>1, <2>2
  <1>4. QED
    BY <1>2, <1>3

(* store_txns adds every transaction that is not there, with its block.    *)
LEMMA NewTxnRows ==
    ASSUME NEW i, NEW hashes
    PROVE  LET block(h) == CHOOSE b \in i.blocks : \E l \in i.logs : l.txn = h /\ l.block = b.hash
           IN  /\ \A t \in NewTxns(i, hashes) :
                    \E h \in hashes : t.hash = h /\ t.block_id = block(h).id
               /\ \A h \in hashes : h \in {r.hash : r \in txnRows}
                                    \/ \E t \in NewTxns(i, hashes) : t.hash = h
  <1> DEFINE new == hashes \ {r.hash : r \in txnRows}
             id(h) == Fresh(txnRows, Cardinality({g \in new : g <= h}))
             block(h) == CHOOSE b \in i.blocks : \E l \in i.logs : l.txn = h /\ l.block = b.hash
  <1>1. NewTxns(i, hashes) = {[id |-> id(h), hash |-> h, block_id |-> block(h).id] : h \in new}
    BY DEF NewTxns
  <1>2. ASSUME NEW t \in NewTxns(i, hashes)
        PROVE  \E h \in hashes : t.hash = h /\ t.block_id = block(h).id
    <2>1. PICK h \in new : t = [id |-> id(h), hash |-> h, block_id |-> block(h).id]
      BY <1>1, Zenon
    <2> HIDE DEF id, block
    <2>2. QED
      BY <2>1
  <1>3. ASSUME NEW h \in new PROVE \E t \in NewTxns(i, hashes) : t.hash = h
    <2>1. [id |-> id(h), hash |-> h, block_id |-> block(h).id] \in NewTxns(i, hashes)
      BY <1>1, Zenon
    <2> HIDE DEF id, block
    <2>2. [id |-> id(h), hash |-> h, block_id |-> block(h).id].hash = h
      OBVIOUS
    <2>3. QED
      BY <2>1, <2>2
  <1>4. QED
    BY <1>2, <1>3

(* ensure_blocks and ensure_txns store what was missing and look again.    *)
LEMMA EnsureBlocksStep ==
    ASSUME ScraperInv, NEW k \in Kinds, EnsureBlocks(k)
    PROVE  ScraperInv'
  <1> DEFINE i == indexer[k]
             j == indexer'[k]
             missing == BlocksOf(i) \ {r.hash : r \in i.blocks}
  <1>1. UNCHANGED <<finalTip, txnRows, logRows, cursorRow, height, leftOut>> /\ finalTip \in Int
        /\ i.pc = "insert_blocks" /\ BlockTable(blockRows')
        /\ blockRows' = blockRows \cup NewBlocks(missing)
    BY DEF EnsureBlocks, ScraperInv
  <1>2. TaskTypes(k, i)
    BY DEF ScraperInv
  <1>3. /\ DOMAIN indexer' = Kinds /\ \A o \in Kinds \ {k} : indexer'[o] = indexer[o]
        /\ TaskFields \subseteq DOMAIN j /\ j.pc = "txns"
        /\ j.blocks = i.blocks \cup {r \in blockRows' : r.hash \in missing}
        /\ j.logs = i.logs /\ j.txns = i.txns
        /\ j.start = i.start /\ j.next = i.next /\ j.sequence = i.sequence
    BY <1>2 DEF EnsureBlocks, ScraperInv, TaskTypes, TaskFields
  <1>4. /\ \A b \in NewBlocks(missing) : b.height = b.hash
        /\ \A h \in missing : \E b \in blockRows' : b.hash = h
    <2> HIDE DEF missing
    <2>1. QED
      BY <1>1, NewBlockRows
  <1>5. /\ \A r, l : IsRowOf(r, l) => IsRowOf(r, l)'
        /\ \A l : Stored(l) => Stored(l)'
        /\ \A n : StoredNonce(n)' <=> StoredNonce(n)
        /\ Gaps' = Gaps
    BY <1>1, RowsGrow DEF ScraperInv
  <1> HIDE DEF missing
  <1>6. Grown
    BY <1>1, <1>5 DEF Grown, leftOut
  <1>7. RowTypes'
    <2>1. /\ \A b, c \in blockRows' : b.id = c.id \/ b.hash = c.hash => b = c
          /\ \A b \in blockRows' : b.height = b.hash
      BY <1>1, <1>4 DEF BlockTable, ScraperInv, RowTypes
    <2>2. \A r \in logRows : \E l \in ChainLogs : IsRowOf(r, l)' /\ l.block <= finalTip
      BY <1>5 DEF ScraperInv, RowTypes
    <2>3. QED
      BY <1>1, <2>1, <2>2
      DEF ScraperInv, RowTypes, MessageTable, DeliveredMessageTable, GasPaymentTable
  <1>8. \A l \in i.logs : \E b \in j.blocks : b.hash = l.block
    <2>1. ASSUME NEW l \in i.logs PROVE \E b \in j.blocks : b.hash = l.block
      <3>1. l.block \in missing \/ \E b \in i.blocks : b.hash = l.block
        BY DEF BlocksOf, missing
      <3>2. QED
        BY <1>3, <1>4, <3>1
    <2>2. QED
      BY <2>1
  <1>9. j.blocks \subseteq blockRows'
    BY <1>1, <1>2, <1>3 DEF TaskTypes
  <1>10. TaskTypes(k, indexer[k])'
    BY <1>1, <1>2, <1>3, <1>8, <1>9 DEF TaskTypes, StorePcs
  <1>11. QED
    BY <1>1, <1>3, <1>5, <1>6, <1>7, <1>10, HoldingStep DEF StorePcs

LEMMA EnsureTxnsStep ==
    ASSUME ScraperInv, NEW k \in Kinds, EnsureTxns(k)
    PROVE  ScraperInv'
  <1> DEFINE i == indexer[k]
             j == indexer'[k]
             missing == TxnsOf(i) \ {r.hash : r \in i.txns}
  <1>1. UNCHANGED <<finalTip, blockRows, logRows, cursorRow, height, leftOut>> /\ finalTip \in Int
        /\ i.pc = "insert_txns" /\ TransactionTable(txnRows')
        /\ txnRows' = txnRows \cup NewTxns(i, missing)
    BY DEF EnsureTxns, ScraperInv
  <1>2. TaskTypes(k, i)
    BY DEF ScraperInv
  <1>3. /\ DOMAIN indexer' = Kinds /\ \A o \in Kinds \ {k} : indexer'[o] = indexer[o]
        /\ TaskFields \subseteq DOMAIN j /\ j.pc = "rows"
        /\ j.txns = i.txns \cup {r \in txnRows' : r.hash \in missing}
        /\ j.logs = i.logs /\ j.blocks = i.blocks
        /\ j.start = i.start /\ j.next = i.next /\ j.sequence = i.sequence
    BY <1>2 DEF EnsureTxns, ScraperInv, TaskTypes, TaskFields
  <1>4. \A t \in NewTxns(i, missing) : \E l \in ChainLogs, b \in blockRows :
            t.hash = l.txn /\ t.block_id = b.id /\ b.hash = l.block
    <2> DEFINE block(h) == CHOOSE b \in i.blocks : \E l \in i.logs : l.txn = h /\ l.block = b.hash
    <2>1. ASSUME NEW h \in missing
          PROVE  block(h) \in blockRows /\ \E l \in ChainLogs : l.txn = h /\ l.block = block(h).hash
      <3>1. PICK l \in i.logs : l.txn = h
        BY DEF TxnsOf
      <3>2. \E b \in i.blocks : b.hash = l.block
        BY <1>1, <1>2, <3>1 DEF TaskTypes
      <3>3. block(h) \in i.blocks /\ \E m \in i.logs : m.txn = h /\ m.block = block(h).hash
        BY <3>1, <3>2
      <3>4. QED
        BY <1>2, <3>3 DEF TaskTypes
    <2>2. ASSUME NEW t \in NewTxns(i, missing)
          PROVE  \E h \in missing : t.hash = h /\ t.block_id = block(h).id
      BY NewTxnRows
    <2> HIDE DEF block
    <2>3. QED
      BY <2>1, <2>2
  <1>5. \A h \in missing : \E t \in txnRows' : t.hash = h
    <2> HIDE DEF missing
    <2>1. QED
      BY <1>1, NewTxnRows
  <1>6. /\ \A r, l : IsRowOf(r, l) => IsRowOf(r, l)'
        /\ \A l : Stored(l) => Stored(l)'
        /\ \A n : StoredNonce(n)' <=> StoredNonce(n)
        /\ Gaps' = Gaps
    BY <1>1, RowsGrow DEF ScraperInv
  <1> HIDE DEF missing
  <1>7. Grown
    BY <1>1, <1>6 DEF Grown, leftOut
  <1>8. RowTypes'
    <2>1. \A t, u \in txnRows' : t.id = u.id \/ t.hash = u.hash => t = u
      BY <1>1 DEF TransactionTable
    <2>2. \A t \in txnRows' : \E l \in ChainLogs, b \in blockRows :
            t.hash = l.txn /\ t.block_id = b.id /\ b.hash = l.block
      BY <1>1, <1>4 DEF ScraperInv, RowTypes
    <2>3. \A r \in logRows : \E l \in ChainLogs : IsRowOf(r, l)' /\ l.block <= finalTip
      BY <1>6 DEF ScraperInv, RowTypes
    <2>4. QED
      BY <1>1, <2>1, <2>2, <2>3
      DEF ScraperInv, RowTypes, MessageTable, DeliveredMessageTable, GasPaymentTable
  <1>9. \A l \in i.logs : \E t \in j.txns : t.hash = l.txn
    <2>1. ASSUME NEW l \in i.logs PROVE \E t \in j.txns : t.hash = l.txn
      <3>1. l.txn \in missing \/ \E t \in i.txns : t.hash = l.txn
        BY DEF TxnsOf, missing
      <3>2. QED
        BY <1>3, <1>5, <3>1
    <2>2. QED
      BY <2>1
  <1>10. j.txns \subseteq txnRows'
    BY <1>1, <1>2, <1>3 DEF TaskTypes
  <1>11. TaskTypes(k, indexer[k])'
    BY <1>1, <1>2, <1>3, <1>9, <1>10 DEF TaskTypes, StorePcs
  <1>12. QED
    BY <1>1, <1>3, <1>6, <1>7, <1>8, <1>11, HoldingStep DEF StorePcs

-----------------------------------------------------------------------------
(* The rows of the table that task k writes. *)
RowOf(k, i, l) ==
    CASE k = "message" -> [kind |-> "message", nonce |-> l.key, tx_id |-> TxnId(i, l)]
      [] k = "delivery" -> [kind |-> "delivery", msg_id |-> l.key, tx_id |-> TxnId(i, l)]
      [] k = "payment" -> [kind |-> "payment", msg_id |-> l.key, tx_id |-> TxnId(i, l),
                           log_index |-> l.index]

(* The upserts write the row of every log held, and replace only rows with *)
(* the same key.                                                           *)
LEMMA RowsWritten ==
    ASSUME ScraperInv, NEW k \in Kinds, StoreLogs(k)
    PROVE  /\ \A l \in indexer[k].logs : RowOf(k, indexer[k], l) \in logRows'
           /\ \A r \in logRows' : r \in logRows
                                  \/ \E l \in indexer[k].logs : r = RowOf(k, indexer[k], l)
           /\ \A r \in logRows : r \in logRows' \/ \E l \in indexer[k].logs :
                /\ k # "payment" /\ r.kind = k
                /\ k = "message" => r.nonce = l.key
                /\ k = "delivery" => r.msg_id = l.key
  <1> DEFINE i == indexer[k]
  <1>1. CASE k = "message"
    <2>1. logRows' = StoreDispatchedMessages(i)
      BY <1>1 DEF StoreLogs
    <2> DEFINE new == {[kind |-> "message", nonce |-> l.key, tx_id |-> TxnId(i, l)] : l \in i.logs}
    <2>2. logRows' = {r \in logRows : ~(r.kind = "message" /\ \E n \in new : n.nonce = r.nonce)}
                        \cup new
      BY <2>1 DEF StoreDispatchedMessages
    <2>3. /\ \A l \in i.logs : RowOf(k, i, l) \in new
          /\ \A r \in new : \E l \in i.logs : r = RowOf(k, i, l) /\ r.nonce = l.key
      BY <1>1 DEF RowOf
    <2> HIDE DEF new
    <2>4. QED
      BY <1>1, <2>2, <2>3
  <1>2. CASE k = "delivery"
    <2>1. logRows' = StoreDeliveries(i)
      BY <1>2 DEF StoreLogs
    <2> DEFINE new == {[kind |-> "delivery", msg_id |-> l.key, tx_id |-> TxnId(i, l)] : l \in i.logs}
    <2>2. logRows' = {r \in logRows : ~(r.kind = "delivery" /\ \E n \in new : n.msg_id = r.msg_id)}
                        \cup new
      BY <2>1 DEF StoreDeliveries
    <2>3. /\ \A l \in i.logs : RowOf(k, i, l) \in new
          /\ \A r \in new : \E l \in i.logs : r = RowOf(k, i, l) /\ r.msg_id = l.key
      BY <1>2 DEF RowOf
    <2> HIDE DEF new
    <2>4. QED
      BY <1>2, <2>2, <2>3
  <1>3. CASE k = "payment"
    <2>1. logRows' = StorePayments(i)
      BY <1>3 DEF StoreLogs
    <2> DEFINE new == {[kind |-> "payment", msg_id |-> l.key, tx_id |-> TxnId(i, l),
                        log_index |-> l.index] : l \in i.logs}
    <2>2. logRows' = logRows \cup new
      BY <2>1 DEF StorePayments
    <2>3. /\ \A l \in i.logs : RowOf(k, i, l) \in new
          /\ \A r \in new : \E l \in i.logs : r = RowOf(k, i, l)
      BY <1>3 DEF RowOf
    <2> HIDE DEF new
    <2>4. QED
      BY <1>3, <2>2, <2>3
  <1>4. QED
    BY <1>1, <1>2, <1>3 DEF Kinds

(* The row that is written for a log joins to it.                          *)
LEMMA RowOfLog ==
    ASSUME ScraperInv, NEW k \in Kinds, indexer[k].pc = "rows", NEW l \in indexer[k].logs,
           UNCHANGED <<blockRows, txnRows>>
    PROVE  /\ IsRowOf(RowOf(k, indexer[k], l), l)
           /\ \A r : r = RowOf(k, indexer[k], l) => IsRowOf(r, l)'
           /\ RowOf(k, indexer[k], l).kind = k
           /\ k = "message" => RowOf(k, indexer[k], l).nonce = l.key
           /\ k # "message" => RowOf(k, indexer[k], l).msg_id = l.key
  <1> DEFINE i == indexer[k]
             row == RowOf(k, i, l)
  <1>1. TaskTypes(k, i) /\ RowTypes
    BY DEF ScraperInv
  <1>2. l \in ChainLogs /\ l.kind = k
    BY <1>1 DEF TaskTypes
  <1>3. \E t \in i.txns : t.hash = l.txn
    BY <1>1 DEF TaskTypes
  <1>4. PICK t \in i.txns : t.hash = l.txn /\ TxnId(i, l) = t.id
    BY <1>3 DEF TxnId
  <1>5. TxnId(i, l) = t.id
    BY <1>4
  <1>6. t \in txnRows
    BY <1>1, <1>4 DEF TaskTypes
  <1>7. PICK m \in ChainLogs, b \in blockRows : t.hash = m.txn /\ t.block_id = b.id /\ b.hash = m.block
    BY <1>1, <1>6 DEF RowTypes
  <1>8. m.block = l.block
    <2>1. \A x, y \in ChainLogs : x.txn = y.txn => x.block = y.block
      BY ChainAssumption
    <2>2. m \in ChainLogs /\ l \in ChainLogs
      BY <1>2, <1>7
    <2>3. m.txn = l.txn
      BY <1>4, <1>7
    <2>4. QED
      BY <2>1, <2>2, <2>3
  <1>9. /\ row.kind = k /\ row.tx_id = t.id
        /\ k = "message" => row.nonce = l.key
        /\ k # "message" => row.msg_id = l.key
        /\ k = "payment" => row.log_index = l.index
    <2>1. CASE k = "message"
      BY <1>5, <2>1 DEF RowOf
    <2>2. CASE k = "delivery"
      BY <1>5, <2>2 DEF RowOf
    <2>3. CASE k = "payment"
      BY <1>5, <2>3 DEF RowOf
    <2>4. QED
      BY <2>1, <2>2, <2>3 DEF Kinds
  <1> HIDE DEF row
  <1>10. IsRowOf(row, l)
    BY <1>2, <1>4, <1>6, <1>7, <1>8, <1>9 DEF IsRowOf
  <1>11. t \in txnRows' /\ b \in blockRows'
    BY <1>6, <1>7
  <1>12. ASSUME NEW r, r = row PROVE IsRowOf(r, l)'
    BY <1>12, <1>2, <1>4, <1>7, <1>8, <1>9, <1>11 DEF IsRowOf
  <1>13. QED
    BY <1>9, <1>10, <1>12 DEF row

(* The rows are written: a stored log stays stored, held logs become       *)
(* stored.                                                                 *)
LEMMA StoreLogsStep ==
    ASSUME ScraperInv, NEW k \in Kinds, StoreLogs(k)
    PROVE  ScraperInv'
  <1> DEFINE i == indexer[k]
             j == indexer'[k]
  <1>1. UNCHANGED <<finalTip, blockRows, txnRows, cursorRow, height, leftOut>> /\ finalTip \in Int
        /\ i.pc = "rows" /\ LogTables(logRows')
    BY DEF StoreLogs, ScraperInv
  <1>2. TaskTypes(k, i) /\ RowTypes
    BY DEF ScraperInv
  <1>3. /\ DOMAIN indexer' = Kinds /\ \A o \in Kinds \ {k} : indexer'[o] = indexer[o]
        /\ TaskFields \subseteq DOMAIN j /\ j.pc = "update"
        /\ j.logs = i.logs /\ j.blocks = i.blocks /\ j.txns = i.txns
        /\ j.start = i.start /\ j.next = i.next /\ j.sequence = i.sequence
    BY <1>2 DEF StoreLogs, ScraperInv, TaskTypes, TaskFields
  <1>4. \A r, l : IsRowOf(r, l) => IsRowOf(r, l)'
    BY <1>1 DEF IsRowOf
  <1>5. ASSUME NEW l \in i.logs
        PROVE  Stored(l)' /\ l \in ChainLogs /\ l.kind = k /\ l.block <= finalTip
    <2>1. RowOf(k, i, l) \in logRows'
      BY RowsWritten
    <2>2. \A r : r = RowOf(k, i, l) => IsRowOf(r, l)'
      BY <1>1, RowOfLog
    <2>3. QED
      BY <1>2, <2>1, <2>2 DEF Stored, TaskTypes
  <1>6. ASSUME NEW l \in ChainLogs, Stored(l) PROVE Stored(l)'
    <2>1. PICK r \in logRows : IsRowOf(r, l)
      BY <1>6 DEF Stored
    <2>2. CASE r \in logRows'
      BY <1>4, <2>1, <2>2 DEF Stored
    <2>3. CASE r \notin logRows'
      <3>1. PICK m \in i.logs : /\ k # "payment" /\ r.kind = k
                                /\ k = "message" => r.nonce = m.key
                                /\ k = "delivery" => r.msg_id = m.key
        BY <2>3, RowsWritten
      <3>2. m \in ChainLogs /\ m.kind = l.kind /\ m.key = l.key /\ l.kind # "payment"
        BY <1>5, <2>1, <3>1 DEF IsRowOf, Kinds
      <3>3. m = l
        BY <3>2, ChainAssumption
      <3>4. QED
        BY <1>5, <3>3
    <2>4. QED
      BY <2>2, <2>3
  <1>7. ASSUME NEW l \in ChainLogs, l.kind = "message", Stored(l)' PROVE StoredNonce(l.key)'
    BY <1>7 DEF Stored, IsRowOf, StoredNonce, RetrieveMessageByNonce
  <1>8. \A n : StoredNonce(n) => StoredNonce(n)'
    <2>1. ASSUME NEW n, StoredNonce(n) PROVE StoredNonce(n)'
      <3>1. PICK l \in ChainLogs : l.kind = "message" /\ l.key = n /\ Stored(l)
        BY <1>2, <2>1, NonceOfLog
      <3>2. Stored(l)'
        BY <1>6, <3>1
      <3>3. QED
        BY <1>7, <3>1, <3>2
    <2>2. QED
      BY <2>1
  <1>9. Grown
    BY <1>1, <1>6, <1>8 DEF Grown, leftOut
  <1>10. RowTypes'
    <2>1. ASSUME NEW r \in logRows'
          PROVE  \E l \in ChainLogs : IsRowOf(r, l)' /\ l.block <= finalTip
      <3>1. CASE r \in logRows
        BY <1>2, <1>4, <3>1 DEF RowTypes
      <3>2. CASE \E l \in i.logs : r = RowOf(k, i, l)
        BY <1>1, <1>5, <3>2, RowOfLog
      <3>3. QED
        BY <3>1, <3>2, RowsWritten
    <2>2. QED
      BY <1>1, <1>2, <2>1 DEF RowTypes, LogTables
  <1>11. ASSUME k = "message"
         PROVE  \A l \in ChainLogs : l.kind = "message" /\ l.block < i.next =>
                    StoredNonce(l.key)' \/ l \in omitted
    <2>1. \A l \in ChainLogs : l.kind = "message" /\ l.block < i.next =>
                StoredNonce(l.key) \/ l \in omitted \/ l \in i.logs
      BY <1>1, <1>11 DEF ScraperInv, MessageTask
    <2>2. QED
      BY <1>5, <1>7, <1>8, <1>11, <2>1
  <1>12. MessagesContiguous'
    <2>1. ASSUME NEW n \in Gaps' PROVE NonceOmitted(n)' /\ (n \in abandoned' \/ LookedFor(n)')
      <3>1. ~StoredNonce(n)' /\ ~StoredNonce(n)
        BY <1>8 DEF Gaps, StoredNonce, RetrieveMessageByNonce
      <3>2. PICK r \in logRows' : r.kind = "message" /\ n \in 0 .. r.nonce
        BY DEF Gaps
      <3>3. CASE r \in logRows
        <4>1. n \in Gaps
          BY <3>1, <3>2, <3>3 DEF Gaps, StoredNonce
        <4>2. NonceOmitted(n) /\ (n \in abandoned \/ LookedFor(n))
          BY <4>1 DEF ScraperInv, MessagesContiguous
        <4>3. indexer'["message"].sequence = indexer["message"].sequence
              /\ (indexer["message"].pc # "down" => indexer'["message"].pc # "down")
          BY <1>3 DEF Kinds
        <4>4. QED
          BY <1>1, <4>2, <4>3 DEF NonceOmitted, LookedFor, leftOut
      <3>4. CASE \E l \in i.logs : r = RowOf(k, i, l)
        <4>1. PICK l \in i.logs : r = RowOf(k, i, l)
          BY <3>4
        <4>2. k = "message" /\ r.nonce = l.key /\ l \in ChainLogs /\ l.kind = "message"
          BY <1>1, <1>5, <3>2, <4>1, RowOfLog
        <4>3. l.key \in Nat /\ l.block \in Int /\ n \in 0 .. l.key
          BY <3>2, <4>2, ScraperAssumption
        <4>4. n # l.key
          BY <1>5, <1>7, <3>1, <4>2
        <4>5. n \in 0 .. l.key - 1
          BY <4>3, <4>4
        <4>6. PICK m \in ChainLogs : m.kind = "message" /\ m.key = n /\ m.block <= l.block
          BY <4>2, <4>5, ChainAssumption
        <4>7. m.block \in Int /\ l.block < i.next /\ i.next \in Int
          BY <1>2, ScraperAssumption DEF TaskTypes
        <4>8. m.block < i.next
          BY <4>3, <4>6, <4>7
        <4>9. m \in omitted
          BY <1>11, <3>1, <4>2, <4>6, <4>8
        <4>10. n \in abandoned \/ i.sequence <= n
          <5>1. n \in 0 .. i.sequence - 1 => Accounted(n)
            BY <1>1, <4>2 DEF ScraperInv, MessageTask
          <5>2. i.sequence \in Nat
            BY <1>2 DEF TaskTypes
          <5>3. QED
            BY <3>1, <4>3, <5>1, <5>2 DEF Accounted
        <4>11. QED
          BY <1>1, <1>3, <4>2, <4>6, <4>9, <4>10 DEF NonceOmitted, LookedFor, leftOut
      <3>5. QED
        BY <3>2, <3>3, <3>4, RowsWritten
    <2>2. QED
      BY <2>1 DEF MessagesContiguous
  <1>18. HistoryOK'
    BY <1>1, HistoryKept
  <1>13. CoveredTo(height)' /\ CoveredTo(cursorRow)'
    BY <1>1, <1>9, CoveredGrown DEF ScraperInv, CoveredTo
  <1>14. TaskTypes(k, indexer[k])'
    BY <1>1, <1>2, <1>3 DEF TaskTypes, StorePcs
  <1>15. ASSUME k # "message" PROVE ReadOrHeld(k, indexer[k])'
    <2>1. ReadOrHeld(k, i) /\ i.pc \in StorePcs /\ i.start \in Int
      BY <1>1, <1>2, <1>15 DEF ScraperInv, StorePcs, TaskTypes
    <2>2. CoveredTo(indexer[k].start)'
      BY <1>3, <1>9, <2>1, CoveredGrown DEF ReadOrHeld, CoveredTo, Covered, LogsIn, Grown, StorePcs,
                                               StoredOrOmitted
    <2>3. \A l \in LogsIn(k, i.start, i.next - 1) : StoredOrOmitted(l)'
      BY <1>1, <1>5, <1>6, <2>1 DEF ReadOrHeld, LogsIn, StoredOrOmitted, leftOut
    <2>4. QED
      BY <1>3, <2>2, <2>3 DEF ReadOrHeld
  <1>16. ASSUME k = "message" PROVE MessageTask(indexer["message"])'
    <2>1. MessageTask(i) /\ i.pc # "down"
      BY <1>1, <1>16 DEF ScraperInv
    <2>2. QED
      BY <1>1, <1>3, <1>8, <1>11, <1>16, <2>1 DEF MessageTask, Accounted, leftOut
  <1>17. QED
    BY <1>1, <1>3, <1>9, <1>10, <1>12, <1>13, <1>14, <1>15, <1>16, <1>18,
       OneTask DEF ScraperInv

(* The watermark moves to where one task has read, less a chunk.           *)
LEMMA WatermarkStep ==
    ASSUME ScraperInv, NEW k \in Kinds, UpdateWatermark(k)
    PROVE  ScraperInv'
  <1> DEFINE i == indexer[k]
             j == indexer'[k]
             w == Watermark(i)
  <1>1. UNCHANGED <<finalTip, blockRows, txnRows, logRows, leftOut>> /\ finalTip \in Int
        /\ k # "message" /\ i.pc = "update" /\ height \in Int /\ cursorRow \in Int
    BY DEF UpdateWatermark, ScraperInv
  <1>2. /\ Grown /\ RowTypes' /\ HistoryOK' /\ Gaps' = Gaps
        /\ \A l : Stored(l)' <=> Stored(l)
        /\ \A b : Covered(b) => Covered(b)'
    BY <1>1, TablesSame, HistoryKept DEF ScraperInv, leftOut
  <1>3. TaskTypes(k, i) /\ ReadOrHeld(k, i)
    BY <1>1 DEF ScraperInv
  <1>4. i.start \in Int /\ i.next \in Int /\ ScrapeChunk \in Nat \ {0}
    BY <1>3, ScraperAssumption DEF TaskTypes
  <1>5. w = (IF i.start >= i.next - ScrapeChunk THEN i.start ELSE i.next - ScrapeChunk)
    <2> DEFINE a == i.start
               b == i.next - ScrapeChunk
    <2>1. a \in Int /\ b \in Int
      BY <1>4
    <2>2. w = Greatest({a, b})
      BY DEF Watermark
    <2> HIDE DEF a, b, w
    <2>3. Greatest({a, b}) = IF a >= b THEN a ELSE b
      BY <2>1, GreatestOfTwo
    <2>4. w = IF a >= b THEN a ELSE b
      BY <2>2, <2>3
    <2>5. QED
      BY <2>4 DEF a, b
  <1> HIDE DEF w
  <1>6. w \in Int
    BY <1>4, <1>5
  <1>7. CoveredTo(w)
    <2>1. ASSUME NEW b \in ScrapeFrom .. w - 1 PROVE Covered(b)
      <3>1. ScrapeFrom \in Int /\ b \in Int
        BY ScraperAssumption, <1>6
      <3>2. CASE b < i.start
        BY <1>1, <1>3, <1>4, <1>6, <2>1, <3>1, <3>2 DEF ReadOrHeld, CoveredTo
      <3>3. CASE b >= i.start
        <4>1. b <= i.next - 1
          BY <1>4, <1>5, <1>6, <2>1, <3>1, <3>3
        <4>2. LogsIn(k, b, b) \subseteq LogsIn(k, i.start, i.next - 1)
          <5>1. \A l \in ChainLogs : l.block \in Int
            BY ScraperAssumption
          <5>2. QED
            BY <1>4, <3>1, <3>3, <4>1, <5>1 DEF LogsIn
        <4>3. \A l \in LogsIn(k, b, b) : StoredOrOmitted(l)
          BY <1>1, <1>3, <4>2 DEF ReadOrHeld, StorePcs
        <4>4. k \in {"delivery", "payment"}
          BY <1>1 DEF Kinds
        <4>5. QED
          BY <4>3, <4>4 DEF Covered
      <3>4. QED
        BY <1>4, <3>1, <3>2, <3>3
    <2>2. QED
      BY <2>1 DEF CoveredTo
  <1>8. height' \in Int /\ (height' = height \/ height' = w)
    BY <1>1, <1>6, GreatestOfTwo DEF UpdateWatermark, w
  <1>9. cursorRow' \in Int /\ (cursorRow' = cursorRow \/ cursorRow' = w)
    BY <1>1, <1>6, GreatestOfTwo DEF UpdateWatermark, w
  <1>10. CoveredTo(height)' /\ CoveredTo(cursorRow)'
    BY <1>2, <1>7, <1>8, <1>9 DEF ScraperInv, CoveredTo
  <1>11. /\ DOMAIN indexer' = Kinds /\ \A o \in Kinds \ {k} : indexer'[o] = indexer[o]
         /\ TaskFields \subseteq DOMAIN j /\ j.pc = "next" /\ j.start = i.start /\ j.next = i.next
         /\ j.sequence = 0 /\ j.logs = {} /\ j.blocks = {} /\ j.txns = {}
    BY DEF UpdateWatermark, ScraperInv, Down, TaskFields
  <1>12. TaskTypes(k, indexer[k])'
    BY <1>1, <1>4, <1>11 DEF TaskTypes, StorePcs
  <1>13. ReadOrHeld(k, indexer[k])'
    <2>1. CoveredTo(indexer[k].start)'
      BY <1>1, <1>2, <1>3, <1>11 DEF ReadOrHeld, CoveredTo
    <2>2. QED
      BY <1>1, <1>2, <1>3, <1>11, <2>1 DEF ReadOrHeld, StorePcs, LogsIn, StoredOrOmitted, leftOut
  <1>15. MessagesContiguous'
    BY <1>1, <1>2, <1>11, GapsKept DEF ScraperInv, Kinds
  <1>14. QED
    BY <1>1, <1>2, <1>8, <1>9, <1>10, <1>11, <1>12, <1>13, <1>15, OneTask

(* The forward cursor rewinds if it was answered with later messages only. *)
LEMMA UpdateMessagesStep ==
    ASSUME ScraperInv, UpdateMessages
    PROVE  ScraperInv'
  <1> DEFINE i == indexer["message"]
             j == indexer'["message"]
             prev == Greatest({i.sequence - 1, 0})
             rewound == LogBlockNumber(prev)
  <1>1. UNCHANGED <<finalTip, blockRows, txnRows, logRows, cursorRow, height, leftOut>>
        /\ finalTip \in Int /\ i.pc = "update" /\ "message" \in Kinds
    BY DEF UpdateMessages, ScraperInv, scraperDb, Kinds
  <1>2. /\ Grown /\ RowTypes' /\ HistoryOK' /\ Gaps' = Gaps
        /\ \A n : StoredNonce(n)' <=> StoredNonce(n)
        /\ \A b : Covered(b) => Covered(b)'
    BY <1>1, TablesSame, HistoryKept DEF ScraperInv, leftOut
  <1>3. TaskTypes("message", i) /\ MessageTask(i) /\ i.start = ScrapeFrom
    BY <1>1 DEF ScraperInv, MessageTask
  <1>4. /\ i.sequence \in Nat /\ i.start \in Int /\ i.next \in Int
        /\ \A n \in 0 .. i.sequence - 1 : Accounted(n)
        /\ \A l \in ChainLogs : l.kind = "message" /\ l.block < i.next =>
                StoredNonce(l.key) \/ l \in omitted
    BY <1>1, <1>3 DEF TaskTypes, MessageTask, StorePcs
  <1>5. /\ DOMAIN indexer' = Kinds /\ \A o \in Kinds \ {"message"} : indexer'[o] = indexer[o]
        /\ TaskFields \subseteq DOMAIN j /\ j.pc = "next" /\ j.start = i.start
        /\ j.sequence = i.sequence /\ j.logs = {} /\ j.blocks = {} /\ j.txns = {}
        /\ \/ j.next = i.next
           \/ rewound = {} /\ j.next = i.start
           \/ rewound # {} /\ j.next = Max(rewound)
    BY <1>1 DEF UpdateMessages, ScraperInv, Down, TaskFields
  <1>6. prev \in Nat /\ (prev = 0 \/ prev = i.sequence - 1)
    <2>1. i.sequence - 1 \in Int /\ 0 \in Int
      BY <1>4
    <2>2. QED
      BY <1>4, <2>1, GreatestOfTwo
  <1> HIDE DEF prev
  \* Wherever the cursor goes, the messages before it are stored or were left out.
  <1>7. j.next \in Int /\ \A l \in ChainLogs : l.kind = "message" /\ l.block < j.next =>
                StoredNonce(l.key) \/ l \in omitted
    <2>1. CASE j.next = i.next
      BY <1>4, <2>1
    <2>2. CASE rewound = {} /\ j.next = i.start
      <3>1. \A l \in ChainLogs : l.block \in Int /\ ~(l.block < ScrapeFrom)
        BY ScraperAssumption
      <3>2. QED
        BY <1>3, <1>4, <2>2, <3>1
    <2>3. CASE rewound # {} /\ j.next = Max(rewound)
      <3>1. StoredNonce(prev)
        BY <2>3 DEF LogBlockNumber, StoredNonce, RetrieveBlockId, RetrieveBlockNumber
      <3>2. PICK l \in ChainLogs : l.kind = "message" /\ l.key = prev
        BY <3>1, NonceOfLog DEF ScraperInv
      <3>7. StoredNonce(l.key) /\ RowTypes
        BY <3>1, <3>2 DEF ScraperInv
      <3>3. LogBlockNumber(l.key) = {l.block} /\ l.block \in Int
        BY <3>2, <3>7, BlockOfMessage, ScraperAssumption
      <3>4. j.next = l.block
        BY <2>3, <3>2, <3>3, MaxOfOne
      <3>5. \A n \in 0 .. l.key - 1 : Accounted(n)
        BY <1>4, <1>6, <3>2
      <3>6. QED
        BY <3>2, <3>3, <3>4, <3>5, BeforeMessage DEF ScraperInv
    <2>4. QED
      BY <1>5, <2>1, <2>2, <2>3
  <1>8. TaskTypes("message", indexer["message"])'
    BY <1>1, <1>4, <1>5, <1>7 DEF TaskTypes, StorePcs
  <1>9. MessageTask(indexer["message"])'
    BY <1>1, <1>2, <1>3, <1>4, <1>5, <1>7 DEF MessageTask, Accounted, leftOut
  <1>10. CoveredTo(height)' /\ CoveredTo(cursorRow)'
    BY <1>1, <1>2 DEF ScraperInv, CoveredTo
  <1>11. MessagesContiguous'
    BY <1>2, <1>5, GapsKept DEF ScraperInv
  <1>12. QED
    BY <1>1, <1>2, <1>5, <1>8, <1>9, <1>10, <1>11, OneTask DEF ScraperInv

(* A stop loses what the tasks hold, and gives up the gaps.                *)
LEMMA StopStep ==
    ASSUME ScraperInv, StopScraper
    PROVE  ScraperInv'
  <1>1. UNCHANGED <<finalTip, blockRows, txnRows, logRows, cursorRow, omitted>> /\ finalTip \in Int
        /\ height' = 0 /\ indexer' = [k \in Kinds |-> Down] /\ abandoned' = abandoned \cup Gaps
    BY DEF StopScraper, ScraperInv, scraperDb
  <1>2. /\ RowTypes' /\ Gaps' = Gaps
        /\ \A b : Covered(b) => Covered(b)'
    BY <1>1, TablesSame DEF ScraperInv
  <1>3. CoveredTo(height)' /\ CoveredTo(cursorRow)'
    <2>1. \A b \in ScrapeFrom .. 0 - 1 : FALSE
      BY ScraperAssumption
    <2>2. QED
      BY <1>1, <1>2, <2>1 DEF ScraperInv, CoveredTo
  <1>4. /\ \A k \in Kinds : TaskTypes(k, indexer[k])'
        /\ \A k \in Kinds \ {"message"} : ReadOrHeld(k, indexer[k])'
        /\ MessageTask(indexer["message"])'
    BY <1>1 DEF TaskTypes, ReadOrHeld, MessageTask, Down, TaskFields, StorePcs, Kinds
  <1>5. \A n \in Gaps : NonceOmitted(n)
    BY DEF ScraperInv, MessagesContiguous
  <1>6. HistoryOK'
    BY <1>1, <1>5 DEF ScraperInv, HistoryOK, NonceOmitted
  <1>7. MessagesContiguous'
    BY <1>1, <1>2, <1>5 DEF MessagesContiguous, NonceOmitted
  <1>8. QED
    BY <1>1, <1>2, <1>3, <1>4, <1>6, <1>7 DEF ScraperInv

LEMMA ScraperSame ==
    ASSUME ScraperInv, UNCHANGED scraperVars
    PROVE  ScraperInv'
  <1>1. UNCHANGED <<finalTip, blockRows, txnRows, logRows, cursorRow, height, indexer, leftOut>>
        /\ finalTip \in Int
    BY DEF scraperVars, scraperDb, ScraperInv
  <1>2. /\ Grown /\ RowTypes' /\ HistoryOK' /\ MessagesContiguous'
        /\ CoveredTo(height)' /\ CoveredTo(cursorRow)'
    BY <1>1, TablesSame, HistoryKept, GapsKept, CoveredGrown DEF ScraperInv, leftOut
  <1>3. "message" \in Kinds
    BY DEF Kinds
  <1>4. TaskTypes("message", indexer["message"])'
    BY <1>1, <1>3 DEF TaskTypes, ScraperInv
  <1>5. MessageTask(indexer["message"])'
    BY <1>1, TablesSame DEF MessageTask, ScraperInv, Accounted, leftOut
  <1>6. QED
    BY <1>1, <1>2, <1>3, <1>4, <1>5, OneTask DEF ScraperInv

(* The invariant holds at the start, and no step breaks it.                *)
LEMMA ScraperInit ==
    ASSUME Init_Scraper
    PROVE  ScraperInv
  <1>1. /\ finalTip = ScrapeFrom + ScrapeChunk
        /\ blockRows = {} /\ txnRows = {} /\ logRows = {} /\ cursorRow = -1 /\ height = 0
        /\ indexer = [k \in Kinds |-> Down] /\ omitted = {} /\ abandoned = {}
    BY DEF Init_Scraper, NoHeight
  <1>2. finalTip \in Int /\ height \in Int /\ cursorRow \in Int
    BY <1>1, ScraperAssumption
  <1>3. RowTypes /\ HistoryOK /\ MessagesContiguous
    BY <1>1 DEF RowTypes, HistoryOK, MessagesContiguous, Gaps, MessageTable,
                DeliveredMessageTable, GasPaymentTable
  <1>4. CoveredTo(height) /\ CoveredTo(cursorRow)
    <2>1. \A b \in ScrapeFrom .. height - 1 : FALSE
      BY <1>1, ScraperAssumption
    <2>2. \A b \in ScrapeFrom .. cursorRow - 1 : FALSE
      BY <1>1, ScraperAssumption
    <2>3. QED
      BY <2>1, <2>2 DEF CoveredTo
  <1>5. /\ \A k \in Kinds : TaskTypes(k, indexer[k])
        /\ \A k \in Kinds \ {"message"} : ReadOrHeld(k, indexer[k])
        /\ MessageTask(indexer["message"])
    BY <1>1 DEF TaskTypes, ReadOrHeld, MessageTask, Down, TaskFields, StorePcs, Kinds
  <1>6. QED
    BY <1>1, <1>2, <1>3, <1>4, <1>5 DEF ScraperInv

LEMMA ScraperStep ==
    ASSUME ScraperInv, [Next_Scraper]_scraperVars
    PROVE  ScraperInv'
  <1>1. ASSUME NEW k \in Kinds, Step(k) PROVE ScraperInv'
    BY <1>1, BlockRangeStep, WatermarkStep, LookUpBlocksStep, EnsureBlocksStep, LookUpTxnsStep,
       EnsureTxnsStep, StoreLogsStep DEF Step
  <1>2. CASE Finalize
    BY <1>2, FinalizeStep
  <1>3. CASE MessageStep
    BY <1>1, <1>3, StartMessageStep, MessageRangeStep, UpdateMessagesStep DEF MessageStep, Kinds
  <1>4. ASSUME NEW k \in Kinds \ {"message"}, SpawnSyncTask(k) \/ Step(k) PROVE ScraperInv'
    BY <1>1, <1>4, SpawnStep
  <1>5. CASE StopScraper
    BY <1>5, StopStep
  <1>6. CASE UNCHANGED scraperVars
    BY <1>6, ScraperSame
  <1>7. QED
    BY <1>2, <1>3, <1>4, <1>5, <1>6 DEF Next_Scraper

(* No log has two rows, by the keys of the tables.                         *)
LEMMA OneRowOfLog ==
    ASSUME RowTypes, NEW l \in ChainLogs, NEW r \in logRows, NEW s \in logRows,
           IsRowOf(r, l), IsRowOf(s, l)
    PROVE  r = s
  <1>1. r.kind = l.kind /\ s.kind = l.kind /\ l.kind \in Kinds
    BY ScraperAssumption DEF IsRowOf
  <1>2. CASE l.kind = "message"
    BY <1>1, <1>2 DEF RowTypes, MessageTable, IsRowOf
  <1>3. CASE l.kind = "delivery"
    BY <1>1, <1>3 DEF RowTypes, DeliveredMessageTable, IsRowOf
  <1>4. CASE l.kind = "payment"
    <2>1. r.msg_id = s.msg_id /\ r.log_index = s.log_index
      BY <1>1, <1>4 DEF IsRowOf
    <2>2. r.tx_id = s.tx_id
      BY DEF RowTypes, IsRowOf
    <2>3. QED
      BY <1>1, <1>4, <2>1, <2>2 DEF RowTypes, GasPaymentTable
  <1>5. QED
    BY <1>1, <1>2, <1>3, <1>4 DEF Kinds

(* The parts of ScraperSound follow from the invariant.                    *)
LEMMA EveryRowJoined ==
    ASSUME ScraperInv
    PROVE  RowsJoined
  <1>1. ASSUME NEW l \in ChainLogs
        PROVE  Cardinality({r \in logRows : IsRowOf(r, l)}) <= 1
    <2> DEFINE R == {r \in logRows : IsRowOf(r, l)}
    <2>1. CASE R = {}
      BY <2>1, FS_EmptySet
    <2>2. CASE R # {}
      <3>1. PICK r : r \in R
        BY <2>2
      <3>2. R = {r}
        BY <3>1, OneRowOfLog DEF ScraperInv
      <3>3. Cardinality({r}) = 1
        BY FS_Singleton
      <3>4. QED
        BY <3>2, <3>3
    <2>3. QED
      BY <2>1, <2>2
  <1>2. QED
    BY <1>1 DEF RowsJoined, ScraperInv, RowTypes

(* No more payments are counted than were made.                            *)
LEMMA PaymentsCounted ==
    ASSUME RowTypes, NEW m
    PROVE  TotalGasPayment(m) <= Cardinality({l \in ChainLogs : l.kind = "payment" /\ l.key = m})
  <1> DEFINE R == {r \in logRows : r.kind = "payment" /\ r.msg_id = m}
             L == {l \in ChainLogs : l.kind = "payment" /\ l.key = m}
             f == [r \in R |-> CHOOSE l \in L : IsRowOf(r, l)]
  <1>1. ASSUME NEW r \in R PROVE \E l \in L : IsRowOf(r, l)
    BY DEF RowTypes, IsRowOf
  <1>2. \A r \in R : f[r] \in L /\ IsRowOf(r, f[r])
    BY <1>1
  <1>3. f \in [R -> L]
    BY <1>2
  <1>4. \A r, s \in R : f[r] = f[s] => r = s
    BY <1>2, OneRowOfLog
  <1> HIDE DEF f
  <1>5. f \in Injection(R, L)
    BY <1>3, <1>4 DEF Injection, IsInjective
  <1>6. IsFiniteSet(L)
    BY ScraperAssumption, FS_Subset
  <1>7. QED
    BY <1>5, <1>6, FS_Injection DEF TotalGasPayment

LEMMA ViewIsSound ==
    ASSUME ScraperInv
    PROVE  ViewSound
  <1> SUFFICES ASSUME NEW r \in logRows, r.kind = "message"
               PROVE  LET is(k) == {l \in ChainLogs : l.kind = k /\ l.key = r.nonce}
                      IN  /\ (\E d \in logRows : d.kind = "delivery" /\ d.msg_id = r.nonce)
                                => is("delivery") # {}
                          /\ TotalGasPayment(r.nonce) <= Cardinality(is("payment"))
                          /\ UNION {{b.height : b \in {b \in blockRows : b.id = t.block_id}}
                                      : t \in {t \in txnRows : t.id = r.tx_id}}
                                = {l.block : l \in is("message")}
    BY DEF ViewSound, MessageView
  <1> DEFINE is(k) == {l \in ChainLogs : l.kind = k /\ l.key = r.nonce}
             T == {t \in txnRows : t.id = r.tx_id}
             B(t) == {b \in blockRows : b.id = t.block_id}
  <1>1. RowTypes
    BY DEF ScraperInv
  <1>2. PICK l \in ChainLogs : IsRowOf(r, l)
    BY <1>1 DEF RowTypes
  <1>3. l.kind = "message" /\ l.key = r.nonce
    BY <1>2 DEF IsRowOf
  <1>4. is("message") = {l}
    BY <1>3, ChainAssumption
  <1>5. PICK t \in txnRows, b \in blockRows :
            r.tx_id = t.id /\ t.hash = l.txn /\ t.block_id = b.id /\ b.hash = l.block
    BY <1>2 DEF IsRowOf
  <1>6. T = {t}
    BY <1>1, <1>5 DEF RowTypes
  <1>7. B(t) = {b} /\ b.height = l.block
    BY <1>1, <1>5 DEF RowTypes
  <1>8. UNION {{c.height : c \in B(u)} : u \in T} = {l.block}
    BY <1>6, <1>7
  <1>9. (\E d \in logRows : d.kind = "delivery" /\ d.msg_id = r.nonce) => is("delivery") # {}
    BY <1>1 DEF RowTypes, IsRowOf
  <1>10. {x.block : x \in is("message")} = {l.block}
    BY <1>4
  <1>11. QED
    BY <1>1, <1>8, <1>9, <1>10, PaymentsCounted

LEMMA ScraperSoundness ==
    ASSUME ScraperInv
    PROVE  ScraperSound
  <1>1. ReadIsStored
    BY DEF ScraperInv, ReadIsStored, ReadOrHeld, StorePcs, Kinds
  <1>2. WatermarkRead
    BY DEF ScraperInv, WatermarkRead, CoveredTo, Covered
  <1>3. QED
    BY <1>1, <1>2, EveryRowJoined, ViewIsSound DEF ScraperSound, ScraperInv

(* The scraper of one domain, for any logs of the chain, interleaving of   *)
(* its three tasks, restarts and logs left out of answers: rows join to    *)
(* the logs they stand for, what a task was answered is stored, the        *)
(* watermark is covered, and a message is missing below a stored one only  *)
(* if it was left out and is still looked for, or the agent stopped.       *)
THEOREM ScraperStoresTheChain == ScraperSpec => []ScraperSound
  <1>1. Init_Scraper => ScraperInv
    BY ScraperInit
  <1>2. ScraperInv /\ [Next_Scraper]_scraperVars => ScraperInv'
    BY ScraperStep
  <1>3. ScraperInv => ScraperSound
    BY ScraperSoundness
  <1>4. QED
    BY <1>1, <1>2, <1>3, PTL DEF ScraperSpec

-----------------------------------------------------------------------------
(* The chain adapters (ChainAdapters)                                      *)

(* The heads of the nodes stay within the chain.                          *)
NodesOK == node \in [Nodes -> 0 .. AdapterHeight]

(* ChainHead as a function of the heads.                                  *)
HighestOf(f) == CHOOSE h \in {f[p] : p \in Nodes} : \A p \in Nodes : f[p] <= h

(* Some node has the highest head, and no node a higher one.              *)
LEMMA HighestIs ==
    ASSUME NEW f \in [Nodes -> 0 .. AdapterHeight]
    PROVE  /\ HighestOf(f) \in 0 .. AdapterHeight /\ \A p \in Nodes : f[p] <= HighestOf(f)
           /\ \E p \in Nodes : f[p] = HighestOf(f)
  <1> DEFINE heads == {f[p] : p \in Nodes}
  <1>1. heads \in SUBSET (0 .. AdapterHeight) /\ heads # {} /\ AdapterHeight \in Nat
    BY AdapterAssumption
  <1>2. \E h \in heads : \A k \in heads : h >= k
    <2> HIDE DEF heads
    <2> QED
      BY <1>1, LargestOf
  <1>3. \E h \in heads : \A p \in Nodes : f[p] <= h
    <2>1. PICK h \in heads : \A k \in heads : h >= k
      BY <1>2
    <2>2. \A p \in Nodes : f[p] \in heads
      OBVIOUS
    <2>3. h \in Nat /\ \A k \in heads : k \in Nat
      BY <1>1
    <2> HIDE DEF heads
    <2>4. \A p \in Nodes : f[p] <= h
      BY <2>1, <2>2, <2>3
    <2>5. QED
      BY <2>4
  <1>4. HighestOf(f) \in heads /\ \A p \in Nodes : f[p] <= HighestOf(f)
    BY <1>3 DEF HighestOf
  <1>5. QED
    BY <1>1, <1>4

(* The head of the chain is at least that of every node.                  *)
LEMMA HeadIs ==
    ASSUME NodesOK
    PROVE  ChainHead \in 0 .. AdapterHeight /\ \A p \in Nodes : node[p] <= ChainHead
  BY HighestIs DEF NodesOK, ChainHead, HighestOf

(* A final block stays final as the nodes advance.                        *)
LEMMA HeadAdvances ==
    ASSUME NodesOK, NodesOK', \A p \in Nodes : node[p] <= node[p]'
    PROVE  \A b \in Nat : FinalBlock(b) => FinalBlock(b)'
  <1> DEFINE h == HighestOf(node)
             k == HighestOf(node')
  <1>1. ChainHead = h /\ ChainHead' = k
    BY DEF ChainHead, HighestOf
  <1>2. /\ h \in 0 .. AdapterHeight /\ k \in 0 .. AdapterHeight
        /\ \E p \in Nodes : node[p] = h
        /\ \A p \in Nodes : node'[p] <= k
    BY HighestIs DEF NodesOK
  <1>3. h \in Nat /\ k \in Nat /\ AdapterLag \in Nat
    BY <1>2, AdapterAssumption
  <1> HIDE DEF h, k
  <1>4. h <= k
    <2>1. PICK p \in Nodes : node[p] = h
      BY <1>2
    <2>2. node'[p] \in Nat /\ node'[p] <= k /\ h <= node'[p]
      BY <1>2, <2>1, AdapterAssumption DEF NodesOK
    <2>3. QED
      BY <1>3, <2>2
  <1>5. \A b \in Nat : FinalBlock(b) <=> (b <= IF h < AdapterLag THEN 0 ELSE h - AdapterLag)
    BY <1>1 DEF FinalBlock, SaturatingSub
  <1>6. \A b \in Nat : FinalBlock(b)' <=> (b <= IF k < AdapterLag THEN 0 ELSE k - AdapterLag)
    BY <1>1 DEF FinalBlock, SaturatingSub
  <1>7. QED
    BY <1>3, <1>4, <1>5, <1>6

(* A node's head less the lag is a final block, and is what               *)
(* get_finalized_block_number returns.                                    *)
LEMMA FinalOf ==
    ASSUME NodesOK, NEW p \in Nodes
    PROVE  LET b == SaturatingSub(node[p], AdapterLag)
           IN  /\ node[p] \in Nat /\ AdapterLag \in Nat
               /\ b \in 0 .. AdapterHeight /\ FinalBlock(b)
               /\ FinalizedBlockNumber(node[p]) = b
               /\ node[p] >= AdapterLag => b = node[p] - AdapterLag
  <1>1. ChainHead \in 0 .. AdapterHeight /\ node[p] <= ChainHead
    BY HeadIs
  <1>2. node[p] \in 0 .. AdapterHeight /\ AdapterLag \in Nat /\ AdapterHeight \in Nat
    BY AdapterAssumption DEF NodesOK
  <1>3. QED
    BY <1>1, <1>2 DEF FinalBlock, SaturatingSub, FinalizedBlockNumber

(* Scripts: the calls that send a transaction.                            *)
SendingOps == {"eth_process", "eth_announce", "cosmos_process", "cosmos_announce",
               "sealevel_process"}
(* The calls that read a count at the finalized commitment.               *)
CountOps == {"sealevel_sequence_and_tip", "sealevel_latest_checkpoint"}

(* A pinned call asks for the head, then at the block it chose; an error  *)
(* of either ends it.                                                     *)
LEMMA PinnedScripts ==
    ASSUME NEW op \in PinnedOps
    PROVE  LET s == Scripts[op]
           IN  /\ Len(s) = 2
               /\ s[1].method \in {"head", "head_strict"} /\ s[1].onErr = "fail"
               /\ s[2].method = "call_at" /\ s[2].onErr = "fail"
  BY DEF PinnedOps, Scripts, EthSequenceAndTip, EthHookSequenceAndTip, EthLatestCheckpoint,
     CosmosSequenceAndTip, CosmosHookSequenceAndTip, CosmosLatestCheckpoint, CallWithLag,
     HeadBlock, Pinned, Req

(* The reads at the finalized commitment end with that read, and an error *)
(* ends them.                                                             *)
LEMMA CountScripts ==
    /\ Len(Scripts["sealevel_sequence_and_tip"]) = 2
    /\ Scripts["sealevel_sequence_and_tip"][1].method = "head"
    /\ Scripts["sealevel_sequence_and_tip"][1].onErr = "fail"
    /\ Scripts["sealevel_sequence_and_tip"][2].method = "finalized"
    /\ Scripts["sealevel_sequence_and_tip"][2].onErr = "fail"
    /\ Len(Scripts["sealevel_latest_checkpoint"]) = 1
    /\ Scripts["sealevel_latest_checkpoint"][1].method = "tree"
    /\ Scripts["sealevel_latest_checkpoint"][1].onErr = "fail"
  BY DEF Scripts, SealevelSequenceAndTip, SealevelLatestCheckpoint, HeadBlock, Finalized, Req

(* A sending call of the Ethereum adapter ends with the receipt.          *)
LEMMA EthScripts ==
    ASSUME NEW op \in {"eth_process", "eth_announce"}
    PROVE  LET s == Scripts[op]
           IN  /\ Len(s) = 4
               /\ \A k \in 1 .. 4 : s[k].onErr \in {"fail", "continue"}
               /\ s[4].method = "eth_getTransactionReceipt" /\ s[4].onErr = "fail"
  BY DEF Scripts, EthProcess, EthAnnounce, FillTxGasParams, ReportTx, Req

(* A sending call of the Cosmos adapter ends with the broadcast.          *)
LEMMA CosmosScripts ==
    /\ Len(Scripts["cosmos_process"]) = 6
    /\ \A k \in 1 .. 6 : Scripts["cosmos_process"][k].onErr = "fail"
    /\ Scripts["cosmos_process"][6].method = "broadcast"
    /\ Len(Scripts["cosmos_announce"]) = 3
    /\ \A k \in 1 .. 3 : Scripts["cosmos_announce"][k].onErr = "fail"
    /\ Scripts["cosmos_announce"][3].method = "broadcast"
  BY DEF Scripts, CosmosProcess, CosmosAnnounce, WasmSend, WasmSendWithLimit, RawSignedTx,
     EstimateGas, UnsignedSignDoc, Simulate, Req

(* process() of the Sealevel adapter sends, then confirms; only the       *)
(* confirmation may fail.                                                 *)
LEMMA SealevelScript ==
    /\ Len(Scripts["sealevel_process"]) = 7
    /\ \A k \in 1 .. 6 : Scripts["sealevel_process"][k].onErr = "fail"
    /\ Scripts["sealevel_process"][6].method = "send_and_confirm"
    /\ Scripts["sealevel_process"][7].method = "confirm"
    /\ Scripts["sealevel_process"][7].onErr = "continue"
  BY DEF Scripts, SealevelProcess, Simulate, Req

(* The fields of a call.                                                  *)
CallFields == {"op", "stage", "block", "errors", "tries", "value", "pc", "result", "to",
               "synced", "page", "total", "logs"}

(* What the answers to the methods tell, and the transaction they leave.  *)
LEMMA AnswersAre ==
    ASSUME NEW p \in Nodes, NEW m, NEW a \in Answers(p, m)
    PROVE  /\ m \in {"head", "head_strict"} /\ a[1].kind = "ok" => a[1].value = node[p]
           /\ m = "call_at" /\ a[1].kind = "ok" => a[1].value \in SeenAt(call.block)
           /\ m \in {"tree", "finalized"} /\ a[1].kind = "ok" =>
                a[1].value = CountAt[SaturatingSub(node[p], AdapterLag)]
           /\ m = "eth_getTransactionReceipt" /\ a[1].kind = "ok" /\ a[1].value # 0 =>
                a[2] = "mined"
           /\ m = "broadcast" /\ a[1].kind = "ok" /\ a[1].value = 1 => a[2] = "pending"
           /\ m = "send_and_confirm" /\ a[1].kind = "ok" => a[2] = "mined"
           /\ m = "confirm" => a[2] = transaction
  <1>1. CASE a[1].kind = "lost"
    <2>1. m = "confirm" => a[2] = transaction
      BY DEF Answers, Answer, Refusal
    <2>2. QED
      BY <1>1, <2>1
  <1>2. CASE a[1].kind # "lost"
    <2>1. m \in {"head", "head_strict"} => a[1].value = node[p]
      BY <1>2 DEF Answers, Answer, Refusal
    <2>2. m = "call_at" /\ a[1].kind = "ok" => a[1].value \in SeenAt(call.block)
      BY <1>2 DEF Answers, Answer, Refusal
    <2>3. m \in {"tree", "finalized"} => a[1].value = CountAt[SaturatingSub(node[p], AdapterLag)]
      BY <1>2 DEF Answers, Answer, Refusal
    <2>4. m = "eth_getTransactionReceipt" /\ a[1].kind = "ok" /\ a[1].value # 0 => a[2] = "mined"
      BY <1>2 DEF Answers, Answer, Refusal
    <2>5. m = "broadcast" /\ a[1].kind = "ok" /\ a[1].value = 1 => a[2] = "pending"
      BY <1>2 DEF Answers, Answer, Refusal
    <2>6. m = "send_and_confirm" => a[2] = "mined"
      BY <1>2 DEF Answers, Answer, Refusal
    <2>7. m = "confirm" => a[2] = transaction
      BY <1>2 DEF Answers, Answer, Refusal
    <2>8. QED
      BY <2>1, <2>2, <2>3, <2>4, <2>5, <2>6, <2>7
  <1>3. QED
    BY <1>1, <1>2

(* What a request makes of the call: it is tried again; the call ends      *)
(* without success; or the call goes on with an answer, or without one.    *)
TriedAgain ==
    /\ call'.pc = call.pc /\ call'.result = call.result
    /\ call'.stage = call.stage /\ call'.block = call.block
Unsuccessful == call'.pc = "done" /\ call'.result # "ok"
GoesOn(block, v) ==
    IF call.stage = Len(Scripts[call.op])
    THEN call'.pc = "done" /\ call'.block = block /\ call'.value = v
    ELSE /\ call'.pc = call.pc /\ call'.result = call.result
         /\ call'.stage = call.stage + 1 /\ call'.block = block

(* The outcome of request s, answered by a.                               *)
Outcome(s, a) ==
    \/ TriedAgain
    \/ Unsuccessful
    \/ s.onErr = "false" /\ call'.pc = "done"
    \/ s.onErr = "continue" /\ a[1].kind # "ok" /\ GoesOn(call.block, 0)
    \/ /\ a[1].kind = "ok"
       /\ s.method = "eth_getTransactionReceipt" => a[1].value # 0
       /\ \/ s.method = "head" /\ GoesOn(FinalizedBlockNumber(a[1].value), a[1].value)
          \/ /\ s.method = "head_strict" /\ ~(a[1].value < AdapterLag)
             /\ GoesOn(a[1].value - AdapterLag, a[1].value)
          \/ s.method \notin {"head", "head_strict"} /\ GoesOn(call.block, a[1].value)

(* NextRequest goes on.                                                   *)
LEMMA GoesOnIs ==
    ASSUME DOMAIN call = CallFields, NEW block, NEW v, call' = NextRequest(block, v)
    PROVE  GoesOn(block, v)
  BY DEF GoesOn, NextRequest, EndCall, CallFields

(* Every request has one of these outcomes.                               *)
LEMMA RequestStep ==
    ASSUME DOMAIN call = CallFields, MakeRequest
    PROVE  LET s == Scripts[call.op][call.stage] IN
           /\ call.pc = "request" /\ node' = node
           /\ call'.op = call.op /\ DOMAIN call' = CallFields
           /\ \E p \in Nodes : \E a \in Answers(p, s.method) :
                 /\ transaction' = a[2]
                 /\ Outcome(s, a)
  <1> DEFINE s == Scripts[call.op][call.stage]
  <1>0. PICK p \in Nodes : \E a \in Answers(p, s.method) :
            /\ transaction' = a[2] /\ call.pc = "request" /\ node' = node
            /\ call' = CASE a[1].kind = "ok" -> RequestOk(a[1].value)
                         [] Retried(Method, a[1].kind) /\ call.errors + 1 < RequestAttempts ->
                                [call EXCEPT !.errors = @ + 1]
                         [] OTHER -> RequestErr
    BY DEF MakeRequest, Method
  <1>1. PICK a \in Answers(p, s.method) :
            /\ transaction' = a[2] /\ call.pc = "request" /\ node' = node
            /\ call' = CASE a[1].kind = "ok" -> RequestOk(a[1].value)
                         [] Retried(Method, a[1].kind) /\ call.errors + 1 < RequestAttempts ->
                                [call EXCEPT !.errors = @ + 1]
                         [] OTHER -> RequestErr
    BY <1>0
  <1>2. Method = s.method
    BY DEF Method
  <1> HIDE DEF s, Outcome
  <1>3. \/ a[1].kind = "ok" /\ call' = RequestOk(a[1].value)
        \/ a[1].kind # "ok" /\ call' = [call EXCEPT !.errors = @ + 1]
        \/ a[1].kind # "ok" /\ call' = RequestErr
    <2>1. a[1].kind = "ok" => ~Retried(Method, a[1].kind)
      BY DEF Retried
    <2>2. QED
      BY <1>1, <2>1
  <1> DEFINE Fields == call'.op = call.op /\ DOMAIN call' = CallFields
  <1>4. CASE a[1].kind # "ok" /\ call' = [call EXCEPT !.errors = @ + 1]
    <2>1. TriedAgain /\ Fields
      BY <1>4 DEF TriedAgain, CallFields
    <2>2. QED
      BY <1>1, <2>1 DEF s, Outcome
  <1>5. CASE a[1].kind # "ok" /\ call' = RequestErr
    <2>1. \/ s.onErr = "continue" /\ call' = NextRequest(call.block, 0)
          \/ s.onErr = "false" /\ call' = EndCall("ok", 0)
          \/ call' = EndCall("none", 0)
          \/ call' = EndCall("err", 0)
      BY <1>5 DEF RequestErr, s
    <2>2. CASE s.onErr = "continue" /\ call' = NextRequest(call.block, 0)
      <3>1. GoesOn(call.block, 0)
        BY <2>2, GoesOnIs
      <3>2. Fields
        BY <2>2 DEF NextRequest, EndCall, CallFields
      <3>3. QED
        BY <1>1, <1>5, <2>2, <3>1, <3>2 DEF s, Outcome
    <2>3. CASE s.onErr = "false" /\ call' = EndCall("ok", 0)
      <3>1. Fields /\ call'.pc = "done"
        BY <2>3 DEF EndCall, CallFields
      <3>2. QED
        BY <1>1, <2>3, <3>1 DEF s, Outcome
    <2>4. CASE call' = EndCall("none", 0) \/ call' = EndCall("err", 0)
      <3>1. Unsuccessful /\ Fields
        BY <2>4 DEF EndCall, Unsuccessful, CallFields
      <3>2. QED
        BY <1>1, <3>1 DEF s, Outcome
    <2>5. QED
      BY <2>1, <2>2, <2>3, <2>4
  <1>6. CASE a[1].kind = "ok" /\ call' = RequestOk(a[1].value)
    <2> DEFINE v == a[1].value
    <2>1. \/ s.method = "head" /\ call' = NextRequest(FinalizedBlockNumber(v), v)
          \/ s.method = "head_strict" /\ call' = HeightForLag(v)
          \/ call' = [call EXCEPT !.tries = @ + 1, !.errors = 0]
          \/ call' = EndCall("not_found", 0)
          \/ call' = EndCall("dropped", 0)
          \/ call' = EndCall("err", 0)
          \/ /\ s.method \notin {"head", "head_strict"}
             /\ s.method = "eth_getTransactionReceipt" => v # 0
             /\ call' = NextRequest(call.block, v)
      BY <1>2, <1>6 DEF RequestOk
    <2> HIDE DEF v
    <2>2. CASE s.method = "head" /\ call' = NextRequest(FinalizedBlockNumber(v), v)
      <3>1. GoesOn(FinalizedBlockNumber(v), v)
        BY <2>2, GoesOnIs
      <3>2. Fields
        BY <2>2 DEF NextRequest, EndCall, CallFields
      <3>3. QED
        BY <1>1, <1>6, <2>2, <3>1, <3>2 DEF s, v, Outcome
    <2>3. CASE s.method = "head_strict" /\ call' = HeightForLag(v)
      <3>1. CASE v < AdapterLag
        <4>1. Unsuccessful /\ Fields
          BY <2>3, <3>1 DEF HeightForLag, EndCall, Unsuccessful, CallFields
        <4>2. QED
          BY <1>1, <4>1 DEF s, Outcome
      <3>2. CASE ~(v < AdapterLag)
        <4>0. call' = NextRequest(v - AdapterLag, v)
          BY <2>3, <3>2 DEF HeightForLag
        <4>1. GoesOn(v - AdapterLag, v)
          BY <4>0, GoesOnIs
        <4>2. Fields
          BY <4>0 DEF NextRequest, EndCall, CallFields
        <4>3. QED
          BY <1>1, <1>6, <2>3, <3>2, <4>1, <4>2 DEF s, v, Outcome
      <3>3. QED
        BY <3>1, <3>2
    <2>4. CASE call' = [call EXCEPT !.tries = @ + 1, !.errors = 0]
      <3>1. TriedAgain /\ Fields
        BY <2>4 DEF TriedAgain, CallFields
      <3>2. QED
        BY <1>1, <3>1 DEF s, Outcome
    <2>5. CASE \/ call' = EndCall("not_found", 0) \/ call' = EndCall("dropped", 0)
               \/ call' = EndCall("err", 0)
      <3>1. Unsuccessful /\ Fields
        BY <2>5 DEF EndCall, Unsuccessful, CallFields
      <3>2. QED
        BY <1>1, <3>1 DEF s, Outcome
    <2>6. CASE /\ s.method \notin {"head", "head_strict"}
               /\ s.method = "eth_getTransactionReceipt" => v # 0
               /\ call' = NextRequest(call.block, v)
      <3>1. GoesOn(call.block, v)
        BY <2>6, GoesOnIs
      <3>2. Fields
        BY <2>6 DEF NextRequest, EndCall, CallFields
      <3>3. QED
        BY <1>1, <1>6, <2>6, <3>1, <3>2 DEF s, v, Outcome
    <2>7. QED
      BY <2>1, <2>2, <2>3, <2>4, <2>5, <2>6
  <1>7. QED
    BY <1>3, <1>4, <1>5, <1>6

(* The second request of a pinned call is made at a final block.          *)
PinnedOK ==
    call.op \in PinnedOps =>
        /\ call.pc = "request" =>
              call.stage = 1 \/ (call.stage = 2 /\ call.block \in Nat /\ FinalBlock(call.block))
        /\ call.result = "ok" =>
              call.block \in Nat /\ FinalBlock(call.block) /\ call.value = CountAt[call.block]

(* A count that is returned is the one of a final block.                  *)
CountOK ==
    /\ call.op = "sealevel_sequence_and_tip" /\ call.pc = "request" => call.stage \in 1 .. 2
    /\ call.op = "sealevel_latest_checkpoint" /\ call.pc = "request" => call.stage = 1
    /\ call.op \in CountOps /\ call.result = "ok" =>
          \E b \in 0 .. AdapterHeight : FinalBlock(b) /\ call.value = CountAt[b]

(* Past the request that sends, the transaction was sent.                 *)
SendsOK ==
    /\ call.op \in {"eth_process", "eth_announce"} =>
          /\ call.pc = "request" => call.stage \in 1 .. 4
          /\ call.result = "ok" => transaction = "mined"
    /\ call.op = "cosmos_process" /\ call.pc = "request" => call.stage \in 1 .. 6
    /\ call.op = "cosmos_announce" /\ call.pc = "request" => call.stage \in 1 .. 3
    /\ call.op = "sealevel_process" /\ call.pc = "request" =>
          /\ call.stage \in 1 .. 7
          /\ call.stage = 7 => transaction # "unsent"
    /\ call.op \in {"cosmos_process", "cosmos_announce", "sealevel_process"}
          /\ call.result = "ok" /\ call.value = 1 => transaction # "unsent"

(* The events that a Sealevel indexer can find.                           *)
StoredEvents == {a.event : a \in ToSet(AccountsOfProgram)}

(* The indexers that ask for one nonce after the other.                   *)
NonceOps == {"sealevel_fetch_logs", "sealevel_fetch_payments"}

(* The logs that were collected for the nonces below the bound.           *)
LogsOfNonces(bound) ==
    /\ call.logs \in Seq(StoredEvents)
    /\ \A i \in 1 .. Len(call.logs) :
          call.logs[i].nonce \in Nat /\ call.logs[i].nonce < bound /\ call.logs[i].parses
    /\ \A i, j \in 1 .. Len(call.logs) : i < j => call.logs[i].nonce < call.logs[j].nonce
    /\ call.op = "sealevel_fetch_payments" =>
          \A i \in 1 .. Len(call.logs) : call.logs[i].contract = Ours
    /\ call.op = "sealevel_fetch_logs" => Len(call.logs) = bound

(* A nonce by nonce indexer has the logs of the nonces before its page.   *)
NoncesOK ==
    call.op \in NonceOps =>
        /\ call.pc = "index" =>
              /\ call.page \in Nat \ {0} /\ call.to \in Nat
              /\ call.page = 1 \/ call.page <= call.to
              /\ LogsOfNonces(call.page - 1)
        /\ call.result = "ok" => LogsOfNonces(call.to)

(* The inductive invariant of the chain adapters.                         *)
AdapterInv ==
    /\ NodesOK
    /\ DOMAIN call = CallFields
    /\ call.op \in IndexOps => call.pc # "request"
    /\ call.pc # "done" => call.result = "none"
    /\ PinnedOK /\ CountOK /\ SendsOK /\ NoncesOK

(* No call is under way at first.                                         *)
LEMMA AdapterInit ==
    ASSUME Init_Adapters
    PROVE  AdapterInv
  <1>1. /\ DOMAIN call = CallFields /\ call.op = "none" /\ call.pc = "done" /\ call.result = "none"
    BY DEF Init_Adapters, NoCall, CallFields
  <1>2. NodesOK
    BY AdapterAssumption DEF Init_Adapters, NodesOK
  <1>3. QED
    BY <1>1, <1>2 DEF AdapterInv, PinnedOK, CountOK, SendsOK, NoncesOK, PinnedOps, CountOps, IndexOps,
       NonceOps

(* A call starts with its first request, or with its first nonce.         *)
LEMMA StartCallStep ==
    ASSUME AdapterInv, StartCall
    PROVE  AdapterInv'
  <1>1. PICK op \in AdapterOps, to \in 0 .. AdapterHeight :
            /\ call' = [NoCall EXCEPT !.op = op, !.stage = 1, !.to = to, !.page = 1,
                                !.synced = \A p \in Nodes : node[p] >= to + AdapterLag,
                                !.pc = IF op \in IndexOps THEN "index" ELSE "request"]
            /\ node' = node
    BY DEF StartCall
  <1>2. /\ DOMAIN call' = CallFields /\ call'.op = op /\ call'.stage = 1 /\ call'.to = to
        /\ call'.page = 1 /\ call'.result = "none" /\ call'.logs = << >>
        /\ call'.pc = IF op \in IndexOps THEN "index" ELSE "request"
    BY <1>1 DEF NoCall, CallFields
  <1>3. NodesOK'
    BY <1>1 DEF AdapterInv, NodesOK
  <1>4. NoncesOK'
    <2>1. to \in Nat /\ Len(<< >>) = 0 /\ << >> \in Seq(StoredEvents)
      BY AdapterAssumption
    <2>2. call'.page - 1 = 0
      BY <1>2
    <2>3. call'.logs \in Seq(StoredEvents) /\ Len(call'.logs) = 0
      BY <1>2, <2>1
    <2>4. LogsOfNonces(call.page - 1)'
      BY <2>2, <2>3 DEF LogsOfNonces
    <2>5. QED
      BY <1>2, <2>1, <2>4 DEF NoncesOK
  <1>5. QED
    BY <1>2, <1>3, <1>4 DEF AdapterInv, PinnedOK, CountOK, SendsOK, PinnedOps, CountOps, IndexOps

(* A request and its answer, for each kind of call and stage.             *)
LEMMA MakeRequestStep ==
    ASSUME AdapterInv, MakeRequest
    PROVE  AdapterInv'
  <1> DEFINE s == Scripts[call.op][call.stage]
  <1>1. /\ call.pc = "request" /\ node' = node
        /\ call'.op = call.op /\ DOMAIN call' = CallFields
        /\ \E p \in Nodes : \E a \in Answers(p, s.method) : transaction' = a[2] /\ Outcome(s, a)
    BY RequestStep DEF AdapterInv
  <1>2. PICK p \in Nodes : \E a \in Answers(p, s.method) : transaction' = a[2] /\ Outcome(s, a)
    BY <1>1
  <1>3. PICK a \in Answers(p, s.method) : transaction' = a[2] /\ Outcome(s, a)
    BY <1>2
  <1>4. NodesOK /\ NodesOK' /\ call.result = "none" /\ call.op \notin IndexOps
    BY <1>1 DEF AdapterInv, NodesOK
  <1>5. \A b : FinalBlock(b)' <=> FinalBlock(b)
    BY <1>1 DEF FinalBlock, ChainHead
  <1> HIDE DEF s
  <1>6. /\ s.method \in {"head", "head_strict"} /\ a[1].kind = "ok" => a[1].value = node[p]
        /\ s.method = "call_at" /\ a[1].kind = "ok" => a[1].value \in SeenAt(call.block)
        /\ s.method \in {"tree", "finalized"} /\ a[1].kind = "ok" =>
                a[1].value = CountAt[SaturatingSub(node[p], AdapterLag)]
        /\ s.method = "eth_getTransactionReceipt" /\ a[1].kind = "ok" /\ a[1].value # 0 =>
                a[2] = "mined"
        /\ s.method = "broadcast" /\ a[1].kind = "ok" /\ a[1].value = 1 => a[2] = "pending"
        /\ s.method = "send_and_confirm" /\ a[1].kind = "ok" => a[2] = "mined"
        /\ s.method = "confirm" => a[2] = transaction
    BY AnswersAre
  <1> DEFINE b == SaturatingSub(node[p], AdapterLag)
  <1>7. /\ node[p] \in Nat /\ AdapterLag \in Nat
        /\ b \in 0 .. AdapterHeight /\ b \in Nat /\ FinalBlock(b)
        /\ FinalizedBlockNumber(node[p]) = b
        /\ node[p] >= AdapterLag => b = node[p] - AdapterLag
    <2>1. AdapterHeight \in Nat
      BY AdapterAssumption
    <2>2. QED
      BY <1>4, <2>1, FinalOf
  <1> HIDE DEF b
  <1>8. call'.pc # "done" => call'.pc = "request" /\ call'.result = "none"
    BY <1>1, <1>3, <1>4 DEF Outcome, TriedAgain, Unsuccessful, GoesOn
  <1>9. PinnedOK'
    <2>1. SUFFICES ASSUME call.op \in PinnedOps
                   PROVE  /\ call'.pc = "request" => call'.stage = 1
                                \/ (call'.stage = 2 /\ call'.block \in Nat /\ FinalBlock(call'.block))
                          /\ call'.result = "ok" =>
                                /\ call'.block \in Nat /\ FinalBlock(call'.block)
                                /\ call'.value = CountAt[call'.block]
      BY <1>1, <1>5 DEF PinnedOK
    <2>2. \/ call.stage = 1
          \/ call.stage = 2 /\ call.block \in Nat /\ FinalBlock(call.block)
      BY <1>1, <2>1 DEF AdapterInv, PinnedOK
    <2>3. /\ Len(Scripts[call.op]) = 2 /\ s.onErr = "fail"
          /\ call.stage = 1 => s.method \in {"head", "head_strict"}
          /\ call.stage = 2 => s.method = "call_at"
      BY <2>1, <2>2, PinnedScripts DEF s
    <2>4. CASE TriedAgain
      BY <1>4, <2>2, <2>4 DEF TriedAgain
    <2>5. CASE Unsuccessful
      BY <2>5 DEF Unsuccessful
    <2>6. CASE ~TriedAgain /\ ~Unsuccessful /\ call.stage = 1
      <3>1. a[1].value = node[p] /\ GoesOn(b, node[p])
        BY <1>3, <1>6, <1>7, <2>3, <2>6 DEF Outcome
      <3>2. QED
        BY <1>1, <1>4, <1>7, <2>3, <2>6, <3>1 DEF GoesOn
    <2>7. CASE ~TriedAgain /\ ~Unsuccessful /\ call.stage = 2
      <3>1. a[1].value \in SeenAt(call.block) /\ GoesOn(call.block, a[1].value)
        BY <1>3, <1>6, <2>3, <2>7 DEF Outcome
      <3>2. FinalBlock(call.block) /\ call.block \in Nat
        BY <2>2, <2>7
      <3>3. a[1].value = CountAt[call.block]
        BY <3>1, <3>2 DEF SeenAt
      <3>4. QED
        BY <2>3, <2>7, <3>1, <3>2, <3>3 DEF GoesOn
    <2>8. QED
      BY <2>2, <2>4, <2>5, <2>6, <2>7
  <1>10. CountOK'
    <2>1. ASSUME call.op = "sealevel_sequence_and_tip"
          PROVE  /\ call'.pc = "request" => call'.stage \in 1 .. 2
                 /\ call'.result = "ok" =>
                        \E k \in 0 .. AdapterHeight : FinalBlock(k) /\ call'.value = CountAt[k]
      <3>1. call.stage \in 1 .. 2
        BY <1>1, <2>1 DEF AdapterInv, CountOK
      <3>2. /\ Len(Scripts[call.op]) = 2 /\ s.onErr = "fail"
            /\ call.stage = 1 => s.method = "head"
            /\ call.stage = 2 => s.method = "finalized"
        BY <2>1, <3>1, CountScripts DEF s
      <3>3. CASE TriedAgain
        BY <1>4, <3>1, <3>3 DEF TriedAgain
      <3>4. CASE Unsuccessful
        BY <3>4 DEF Unsuccessful
      <3>5. CASE ~TriedAgain /\ ~Unsuccessful /\ call.stage = 1
        BY <1>3, <1>4, <3>2, <3>5 DEF Outcome, GoesOn
      <3>6. CASE ~TriedAgain /\ ~Unsuccessful /\ call.stage = 2
        <4>1. a[1].value = CountAt[b] /\ GoesOn(call.block, a[1].value)
          BY <1>3, <1>6, <3>2, <3>6 DEF Outcome, b
        <4>2. call'.pc = "done" /\ call'.value = CountAt[b]
          BY <3>2, <3>6, <4>1 DEF GoesOn
        <4>3. QED
          BY <1>7, <4>2
      <3>7. QED
        BY <3>1, <3>3, <3>4, <3>5, <3>6
    <2>2. ASSUME call.op = "sealevel_latest_checkpoint"
          PROVE  /\ call'.pc = "request" => call'.stage = 1
                 /\ call'.result = "ok" =>
                        \E k \in 0 .. AdapterHeight : FinalBlock(k) /\ call'.value = CountAt[k]
      <3>1. call.stage = 1
        BY <1>1, <2>2 DEF AdapterInv, CountOK
      <3>2. Len(Scripts[call.op]) = 1 /\ s.onErr = "fail" /\ s.method = "tree"
        BY <2>2, <3>1, CountScripts DEF s
      <3>3. CASE TriedAgain
        BY <1>4, <3>1, <3>3 DEF TriedAgain
      <3>4. CASE Unsuccessful
        BY <3>4 DEF Unsuccessful
      <3>5. CASE ~TriedAgain /\ ~Unsuccessful
        <4>1. a[1].value = CountAt[b] /\ GoesOn(call.block, a[1].value)
          BY <1>3, <1>6, <3>2, <3>5 DEF Outcome, b
        <4>2. call'.pc = "done" /\ call'.value = CountAt[b]
          BY <3>1, <3>2, <4>1 DEF GoesOn
        <4>3. QED
          BY <1>7, <4>2
      <3>6. QED
        BY <3>3, <3>4, <3>5
    <2>3. QED
      BY <1>1, <1>5, <2>1, <2>2 DEF CountOK, CountOps
  <1>11. SendsOK'
    <2>1. ASSUME call.op \in {"eth_process", "eth_announce"}
          PROVE  /\ call'.pc = "request" => call'.stage \in 1 .. 4
                 /\ call'.result = "ok" => transaction' = "mined"
      <3>1. call.stage \in 1 .. 4
        BY <1>1, <2>1 DEF AdapterInv, SendsOK
      <3>2. /\ Len(Scripts[call.op]) = 4 /\ s.onErr \in {"fail", "continue"}
            /\ call.stage = 4 => s.method = "eth_getTransactionReceipt" /\ s.onErr = "fail"
        BY <2>1, <3>1, EthScripts DEF s
      <3>3. CASE TriedAgain
        BY <1>4, <3>1, <3>3 DEF TriedAgain
      <3>4. CASE Unsuccessful
        BY <3>4 DEF Unsuccessful
      <3>5. CASE ~TriedAgain /\ ~Unsuccessful /\ call.stage # 4
        <4>1. \E k, v : GoesOn(k, v)
          BY <1>3, <3>2, <3>5 DEF Outcome
        <4>2. QED
          BY <1>4, <3>1, <3>2, <3>5, <4>1 DEF GoesOn
      <3>6. CASE ~TriedAgain /\ ~Unsuccessful /\ call.stage = 4
        <4>1. a[1].kind = "ok" /\ a[1].value # 0 /\ GoesOn(call.block, a[1].value)
          BY <1>3, <3>2, <3>6 DEF Outcome
        <4>2. transaction' = "mined"
          BY <1>3, <1>6, <3>2, <3>6, <4>1
        <4>3. QED
          BY <3>2, <3>6, <4>1, <4>2 DEF GoesOn
      <3>7. QED
        BY <3>3, <3>4, <3>5, <3>6
    <2>2. ASSUME NEW n \in {3, 6}, call.op = IF n = 6 THEN "cosmos_process" ELSE "cosmos_announce"
          PROVE  /\ call'.pc = "request" => call'.stage \in 1 .. n
                 /\ call'.result = "ok" /\ call'.value = 1 => transaction' # "unsent"
      <3>1. call.stage \in 1 .. n
        BY <1>1, <2>2 DEF AdapterInv, SendsOK
      <3>2. /\ Len(Scripts[call.op]) = n /\ s.onErr = "fail"
            /\ call.stage = n => s.method = "broadcast"
        BY <2>2, <3>1, CosmosScripts DEF s
      <3>3. CASE TriedAgain
        BY <1>4, <3>1, <3>3 DEF TriedAgain
      <3>4. CASE Unsuccessful
        BY <3>4 DEF Unsuccessful
      <3>5. CASE ~TriedAgain /\ ~Unsuccessful /\ call.stage # n
        <4>1. \E k, v : GoesOn(k, v)
          BY <1>3, <3>2, <3>5 DEF Outcome
        <4>2. QED
          BY <1>4, <3>1, <3>2, <3>5, <4>1 DEF GoesOn
      <3>6. CASE ~TriedAgain /\ ~Unsuccessful /\ call.stage = n
        <4>1. a[1].kind = "ok" /\ GoesOn(call.block, a[1].value)
          BY <1>3, <3>2, <3>6 DEF Outcome
        <4>2. call'.pc = "done" /\ call'.value = a[1].value
          BY <3>2, <3>6, <4>1 DEF GoesOn
        <4>3. QED
          BY <1>3, <1>6, <3>2, <3>6, <4>1, <4>2
      <3>7. QED
        BY <3>3, <3>4, <3>5, <3>6
    <2>3. ASSUME call.op = "sealevel_process"
          PROVE  /\ call'.pc = "request" =>
                        call'.stage \in 1 .. 7 /\ (call'.stage = 7 => transaction' # "unsent")
                 /\ call'.result = "ok" /\ call'.value = 1 => transaction' # "unsent"
      <3>1. call.stage \in 1 .. 7 /\ (call.stage = 7 => transaction # "unsent")
        BY <1>1, <2>3 DEF AdapterInv, SendsOK
      <3>2. /\ Len(Scripts[call.op]) = 7
            /\ call.stage # 7 => s.onErr = "fail"
            /\ call.stage = 6 => s.method = "send_and_confirm"
            /\ call.stage = 7 => s.method = "confirm" /\ s.onErr = "continue"
        BY <2>3, <3>1, SealevelScript DEF s
      <3>3. CASE call.stage = 7
        <4>1. transaction' = transaction
          BY <1>3, <1>6, <3>2, <3>3
        <4>2. call'.pc = "request" => call'.stage = 7
          BY <1>3, <3>2, <3>3 DEF Outcome, TriedAgain, Unsuccessful, GoesOn
        <4>3. QED
          BY <3>1, <3>3, <4>1, <4>2
      <3>4. CASE call.stage # 7 /\ TriedAgain
        BY <1>4, <3>1, <3>4 DEF TriedAgain
      <3>5. CASE Unsuccessful /\ call.stage # 7
        BY <3>5 DEF Unsuccessful
      <3>6. CASE ~TriedAgain /\ ~Unsuccessful /\ call.stage # 7
        <4>1. a[1].kind = "ok" /\ \E k, v : GoesOn(k, v)
          BY <1>3, <3>2, <3>6 DEF Outcome
        <4>2. call'.result = "none" /\ call'.stage = call.stage + 1
          BY <1>4, <3>2, <3>6, <4>1 DEF GoesOn
        <4>3. call'.stage = 7 => transaction' = "mined"
          BY <1>3, <1>6, <3>1, <3>2, <4>1, <4>2
        <4>4. QED
          BY <3>1, <3>6, <4>2, <4>3
      <3>7. QED
        BY <3>3, <3>4, <3>5, <3>6
    <2>4. call.op = "cosmos_process" =>
            /\ call'.pc = "request" => call'.stage \in 1 .. 6
            /\ call'.result = "ok" /\ call'.value = 1 => transaction' # "unsent"
      BY <2>2
    <2>5. call.op = "cosmos_announce" =>
            /\ call'.pc = "request" => call'.stage \in 1 .. 3
            /\ call'.result = "ok" /\ call'.value = 1 => transaction' # "unsent"
      BY <2>2
    <2>6. QED
      BY <1>1, <2>1, <2>3, <2>4, <2>5 DEF SendsOK
  <1>12. NoncesOK'
    <2>1. call.op \notin NonceOps
      BY <1>4 DEF NonceOps, IndexOps
    <2>2. QED
      BY <1>1, <2>1 DEF NoncesOK
  <1>13. QED
    BY <1>1, <1>4, <1>8, <1>9, <1>10, <1>11, <1>12 DEF AdapterInv

(* Giving up the receipt is no success.                                   *)
LEMMA ReceiptTimeoutStep ==
    ASSUME AdapterInv, ReceiptTimeout
    PROVE  AdapterInv'
  <1>1. /\ call' = EndCall("timeout", 0) /\ node' = node /\ transaction' = transaction
    BY DEF ReceiptTimeout
  <1>2. /\ DOMAIN call' = CallFields /\ call'.op = call.op /\ call'.pc = "done"
        /\ call'.result = "timeout"
    BY <1>1 DEF EndCall, AdapterInv, CallFields
  <1>3. NodesOK' /\ PinnedOK' /\ CountOK' /\ SendsOK' /\ NoncesOK'
    BY <1>1, <1>2 DEF AdapterInv, NodesOK, PinnedOK, CountOK, SendsOK, NoncesOK
  <1>4. QED
    BY <1>1, <1>2, <1>3 DEF AdapterInv

(* The other indexers leave the calls alone that the invariant is about.   *)
LEMMA OtherIndexStep ==
    ASSUME AdapterInv, EthFetchMessages \/ EthFetchLogs \/ CosmosFetchPage
    PROVE  AdapterInv'
  <1>1. /\ call.pc = "index"
        /\ call.op \in {"eth_fetch_messages", "eth_fetch_logs", "cosmos_fetch_logs"}
        /\ node' = node
    BY DEF EthFetchMessages, EthFetchLogs, EndFetch, CosmosFetchPage, IndexFailed
  <1>2. /\ DOMAIN call' = CallFields /\ call'.op = call.op
        /\ \/ call'.pc = "done"
           \/ call'.pc = "index" /\ call'.result = call.result
    <2>1. CASE EthFetchMessages \/ EthFetchLogs
      BY <2>1 DEF EthFetchMessages, EthFetchLogs, EndFetch, IndexFailed, AdapterInv, CallFields, EndCall
    <2>2. CASE CosmosFetchPage
      BY <2>2 DEF CosmosFetchPage, IndexFailed, AdapterInv, CallFields, EndCall
    <2>3. QED
      BY <2>1, <2>2
  <1>3. call.op \notin PinnedOps \cup CountOps \cup SendingOps \cup NonceOps
    BY <1>1 DEF PinnedOps, CountOps, SendingOps, NonceOps
  <1>4. PinnedOK' /\ NoncesOK'
    BY <1>2, <1>3 DEF PinnedOK, NoncesOK
  <1>5. CountOK' /\ SendsOK'
    BY <1>1, <1>2, <1>3 DEF CountOK, SendsOK, CountOps, SendingOps
  <1>6. QED
    BY <1>1, <1>2, <1>4, <1>5 DEF AdapterInv, NodesOK

(* Appending the event with the next nonce.                                *)
LEMMA NextNonce ==
    ASSUME NEW logs \in Seq(StoredEvents), NEW n \in Nat, NEW e \in StoredEvents,
           e.nonce = n, e.parses, NEW op, op = "sealevel_fetch_payments" => e.contract = Ours,
           \A i \in 1 .. Len(logs) : logs[i].nonce \in Nat /\ logs[i].nonce < n /\ logs[i].parses,
           \A i, j \in 1 .. Len(logs) : i < j => logs[i].nonce < logs[j].nonce,
           op = "sealevel_fetch_payments" => \A i \in 1 .. Len(logs) : logs[i].contract = Ours
    PROVE  LET r == Append(logs, e)
           IN  /\ r \in Seq(StoredEvents) /\ Len(r) = Len(logs) + 1
               /\ \A i \in 1 .. Len(r) : r[i].nonce \in Nat /\ r[i].nonce < n + 1 /\ r[i].parses
               /\ \A i, j \in 1 .. Len(r) : i < j => r[i].nonce < r[j].nonce
               /\ op = "sealevel_fetch_payments" => \A i \in 1 .. Len(r) : r[i].contract = Ours
  <1> DEFINE r == Append(logs, e)
             k == Len(logs)
  <1>1. /\ r \in Seq(StoredEvents) /\ Len(r) = k + 1 /\ k \in Nat /\ r[k + 1] = e
        /\ \A i \in 1 .. k : r[i] = logs[i]
    OBVIOUS
  <1> HIDE DEF r, k
  <1>2. \A i \in 1 .. Len(r) : i \in 1 .. k \/ i = k + 1
    BY <1>1
  <1>3. \A i \in 1 .. Len(r) : r[i].nonce \in Nat /\ r[i].nonce < n + 1 /\ r[i].parses
    BY <1>1, <1>2 DEF k
  <1>4. ASSUME NEW i \in 1 .. Len(r), NEW j \in 1 .. Len(r), i < j PROVE r[i].nonce < r[j].nonce
    <2>1. i \in 1 .. k
      BY <1>1, <1>4
    <2>2. CASE j = k + 1
      BY <1>1, <2>1, <2>2 DEF k
    <2>3. CASE j \in 1 .. k
      BY <1>1, <1>4, <2>1, <2>3 DEF k
    <2>4. QED
      BY <1>2, <2>2, <2>3
  <1>5. op = "sealevel_fetch_payments" => \A i \in 1 .. Len(r) : r[i].contract = Ours
    BY <1>1, <1>2 DEF k
  <1>6. QED
    BY <1>1, <1>3, <1>4, <1>5 DEF r, k

(* One nonce more, or the end of the range.                               *)
LEMMA SealevelFetchStep ==
    ASSUME AdapterInv, SealevelFetchNonce
    PROVE  AdapterInv'
  <1>1. /\ call.pc = "index" /\ call.op \in NonceOps /\ node' = node /\ transaction' = transaction
        /\ call.result = "none" /\ DOMAIN call = CallFields
    BY DEF SealevelFetchNonce, NonceOps, AdapterInv
  <1> DEFINE Kept(p, found) ==
                {a \in IF found THEN AccountWith(call.page - 1, p) ELSE {} :
                    call.op = "sealevel_fetch_logs" \/ a.event.contract = Ours}
             Logs(K) == IF K = {} THEN call.logs ELSE Append(call.logs, (CHOOSE a \in K : TRUE).event)
  <1>2. PICK p \in Nodes, found \in BOOLEAN :
          LET listed == IF found THEN AccountWith(call.page - 1, p) ELSE {} IN
            call' = IF call.to = 0 THEN EndCall("ok", 0)
                    ELSE IF listed = {} /\ call.op = "sealevel_fetch_logs" THEN EndCall("err", 0)
                    ELSE IF call.page = call.to THEN [EndCall("ok", 0) EXCEPT !.logs = Logs(Kept(p, found))]
                    ELSE [call EXCEPT !.page = @ + 1, !.logs = Logs(Kept(p, found))]
    BY DEF SealevelFetchNonce
  <1> DEFINE K == Kept(p, found)
             logs == Logs(K)
  <1>3. \/ call.to = 0 /\ call' = EndCall("ok", 0)
        \/ call' = EndCall("err", 0)
        \/ /\ call.to # 0 /\ (K = {} => call.op # "sealevel_fetch_logs")
           /\ \/ call.page = call.to /\ call' = [EndCall("ok", 0) EXCEPT !.logs = logs]
              \/ call.page # call.to /\ call' = [call EXCEPT !.page = @ + 1, !.logs = logs]
    BY <1>2
  <1>4. \A a \in K : /\ a.event \in StoredEvents /\ a.event.nonce = call.page - 1 /\ a.event.parses
                     /\ call.op = "sealevel_fetch_payments" => a.event.contract = Ours
    BY DEF AccountWith, StoredEvents
  <1>5. K # {} => \E a \in K : logs = Append(call.logs, a.event)
    OBVIOUS
  <1>6. K = {} => logs = call.logs
    OBVIOUS
  <1> HIDE DEF K, logs, Kept, Logs
  <1>7. /\ call.page \in Nat \ {0} /\ call.to \in Nat
        /\ call.page = 1 \/ call.page <= call.to
        /\ LogsOfNonces(call.page - 1)
    BY <1>1 DEF AdapterInv, NoncesOK
  <1>8. call.page - 1 \in Nat /\ (call.page - 1) + 1 = call.page
    BY <1>7
  <1>9. PICK n \in Nat \ {0} : n = call.page
    BY <1>7
  <1>10. ASSUME K = {} => call.op # "sealevel_fetch_logs", call'.logs = logs, call'.op = call.op
         PROVE  LogsOfNonces(n)'
    <2>1. /\ call.logs \in Seq(StoredEvents)
          /\ \A i \in 1 .. Len(call.logs) :
                /\ call.logs[i].nonce \in Nat /\ call.logs[i].nonce < n - 1 /\ call.logs[i].parses
          /\ \A i, j \in 1 .. Len(call.logs) : i < j => call.logs[i].nonce < call.logs[j].nonce
          /\ call.op = "sealevel_fetch_payments" =>
                \A i \in 1 .. Len(call.logs) : call.logs[i].contract = Ours
          /\ call.op = "sealevel_fetch_logs" => Len(call.logs) = n - 1
      BY <1>7, <1>9 DEF LogsOfNonces
    <2>2. CASE K = {}
      <3>1. logs = call.logs /\ call.op # "sealevel_fetch_logs"
        BY <1>6, <1>10, <2>2
      <3>2. \A i \in 1 .. Len(logs) : logs[i].nonce \in Nat /\ logs[i].nonce < n /\ logs[i].parses
        BY <1>9, <2>1, <3>1
      <3>3. QED
        BY <1>10, <2>1, <3>1, <3>2 DEF LogsOfNonces
    <2>3. CASE K # {}
      <3>1. PICK a \in K : logs = Append(call.logs, a.event)
        BY <1>5, <2>3
      <3> DEFINE e == a.event
                 op == call.op
                 k == n - 1
      <3>2. /\ e \in StoredEvents /\ e.nonce = k /\ e.parses /\ k \in Nat
            /\ op = "sealevel_fetch_payments" => e.contract = Ours
        BY <1>4, <1>9
      <3>3. logs = Append(call.logs, e)
        BY <3>1
      <3> HIDE DEF e, op, k
      <3>4. /\ logs \in Seq(StoredEvents) /\ Len(logs) = Len(call.logs) + 1
            /\ \A i \in 1 .. Len(logs) : logs[i].nonce \in Nat /\ logs[i].nonce < k + 1 /\ logs[i].parses
            /\ \A i, j \in 1 .. Len(logs) : i < j => logs[i].nonce < logs[j].nonce
            /\ op = "sealevel_fetch_payments" => \A i \in 1 .. Len(logs) : logs[i].contract = Ours
        <4>1. \A i \in 1 .. Len(call.logs) : call.logs[i].nonce \in Nat /\ call.logs[i].nonce < k
                                                /\ call.logs[i].parses
          BY <2>1 DEF k
        <4>2. op = "sealevel_fetch_payments" =>
                \A i \in 1 .. Len(call.logs) : call.logs[i].contract = Ours
          BY <2>1 DEF op
        <4>3. /\ \A i, j \in 1 .. Len(call.logs) : i < j => call.logs[i].nonce < call.logs[j].nonce
              /\ call.logs \in Seq(StoredEvents)
          BY <2>1
        <4> DEFINE old == call.logs
        <4>4. /\ old \in Seq(StoredEvents)
              /\ \A i \in 1 .. Len(old) : old[i].nonce \in Nat /\ old[i].nonce < k /\ old[i].parses
              /\ \A i, j \in 1 .. Len(old) : i < j => old[i].nonce < old[j].nonce
              /\ op = "sealevel_fetch_payments" => \A i \in 1 .. Len(old) : old[i].contract = Ours
              /\ logs = Append(old, e)
          BY <3>3, <4>1, <4>2, <4>3
        <4>5. Len(old) = Len(call.logs)
          OBVIOUS
        <4> HIDE DEF old
        <4>6. LET r == Append(old, e)
              IN  /\ r \in Seq(StoredEvents) /\ Len(r) = Len(old) + 1
                  /\ \A i \in 1 .. Len(r) : r[i].nonce \in Nat /\ r[i].nonce < k + 1 /\ r[i].parses
                  /\ \A i, j \in 1 .. Len(r) : i < j => r[i].nonce < r[j].nonce
                  /\ op = "sealevel_fetch_payments" => \A i \in 1 .. Len(r) : r[i].contract = Ours
          BY <3>2, <4>4, NextNonce
        <4>7. QED
          BY <4>4, <4>5, <4>6
      <3>5. k + 1 = n
        BY <1>9 DEF k
      <3>6. op = "sealevel_fetch_logs" => Len(logs) = n
        BY <1>9, <2>1, <3>4 DEF op
      <3>7. QED
        BY <1>10, <3>4, <3>5, <3>6 DEF LogsOfNonces, op
    <2>4. QED
      BY <2>2, <2>3
  <1>11. /\ DOMAIN call' = CallFields /\ call'.op = call.op /\ call'.pc \in {"index", "done"}
         /\ call'.pc # "done" => call'.result = "none"
    BY <1>1, <1>3 DEF EndCall, CallFields
  <1>12. NoncesOK'
    <2>1. CASE call.to = 0 /\ call' = EndCall("ok", 0)
      <3>1. call'.pc = "done" /\ call'.logs = call.logs /\ call'.to = 0
        BY <1>1, <2>1 DEF EndCall, CallFields
      <3>2. call.page - 1 = 0
        BY <1>7, <2>1
      <3>3. LogsOfNonces(0)
        BY <1>7, <3>2
      <3>4. LogsOfNonces(0)'
        BY <1>11, <3>1, <3>3 DEF LogsOfNonces
      <3>5. QED
        BY <3>1, <3>4 DEF NoncesOK
    <2>2. CASE call' = EndCall("err", 0)
      BY <1>1, <2>2 DEF NoncesOK, EndCall, CallFields
    <2>3. CASE /\ call.to # 0 /\ (K = {} => call.op # "sealevel_fetch_logs")
               /\ call.page = call.to /\ call' = [EndCall("ok", 0) EXCEPT !.logs = logs]
      <3>1. call'.pc = "done" /\ call'.logs = logs /\ call'.to = n
        BY <1>1, <1>9, <2>3 DEF EndCall, CallFields
      <3>2. LogsOfNonces(n)'
        BY <1>10, <1>11, <2>3, <3>1
      <3>3. QED
        BY <3>1, <3>2 DEF NoncesOK
    <2>4. CASE /\ call.to # 0 /\ (K = {} => call.op # "sealevel_fetch_logs")
               /\ call.page # call.to /\ call' = [call EXCEPT !.page = @ + 1, !.logs = logs]
      <3>1. call'.pc = "index" /\ call'.logs = logs /\ call'.page = n + 1 /\ call'.to = call.to
            /\ call'.result = "none"
        BY <1>1, <1>9, <2>4 DEF CallFields
      <3>2. LogsOfNonces(n)'
        BY <1>10, <1>11, <2>4, <3>1
      <3>3. (n + 1) - 1 = n /\ n + 1 \in Nat \ {0} /\ n + 1 <= call.to
        BY <1>7, <1>9, <2>4
      <3>4. LogsOfNonces(call.page - 1)'
        BY <3>1, <3>2, <3>3
      <3>5. QED
        BY <1>7, <3>1, <3>3, <3>4 DEF NoncesOK
    <2>5. QED
      BY <1>3, <2>1, <2>2, <2>3, <2>4
  <1>13. call.op \notin PinnedOps \cup CountOps \cup SendingOps
    BY <1>1 DEF PinnedOps, CountOps, SendingOps, NonceOps
  <1>14. NodesOK' /\ PinnedOK' /\ CountOK' /\ SendsOK'
    BY <1>1, <1>11, <1>13 DEF AdapterInv, NodesOK, PinnedOK, CountOK, SendsOK, CountOps, SendingOps
  <1>15. QED
    BY <1>11, <1>12, <1>14 DEF AdapterInv

(* Blocks that were final stay final.                                     *)
LEMMA NodeAdvancesStep ==
    ASSUME AdapterInv, NEW p \in Nodes, NodeAdvances(p)
    PROVE  AdapterInv'
  <1>1. /\ node' = [node EXCEPT ![p] = @ + 1] /\ node[p] < AdapterHeight
        /\ call' = call /\ transaction' = transaction
    BY DEF NodeAdvances
  <1>2. NodesOK /\ NodesOK' /\ \A q \in Nodes : node[q] <= node[q]'
    BY <1>1, AdapterAssumption DEF AdapterInv, NodesOK
  <1>3. \A b \in Nat : FinalBlock(b) => FinalBlock(b)'
    BY <1>2, HeadAdvances
  <1>4. PinnedOK'
    BY <1>1, <1>3 DEF AdapterInv, PinnedOK
  <1>5. CountOK'
    <2>1. \A b \in 0 .. AdapterHeight : b \in Nat
      BY AdapterAssumption
    <2>2. QED
      BY <1>1, <1>3, <2>1 DEF AdapterInv, CountOK
  <1>6. SendsOK' /\ NoncesOK'
    BY <1>1 DEF AdapterInv, SendsOK, NoncesOK, LogsOfNonces
  <1>7. QED
    BY <1>1, <1>2, <1>4, <1>5, <1>6 DEF AdapterInv

(* A transaction that is mined or dropped was sent.                       *)
LEMMA MineStep ==
    ASSUME AdapterInv, Mine
    PROVE  AdapterInv'
  <1>1. /\ transaction = "pending" /\ transaction' # "unsent"
        /\ call' = call /\ node' = node
    BY DEF Mine
  <1>2. SendsOK'
    BY <1>1 DEF AdapterInv, SendsOK
  <1>3. \A b : FinalBlock(b)' <=> FinalBlock(b)
    BY <1>1 DEF FinalBlock, ChainHead
  <1>4. PinnedOK' /\ CountOK' /\ NoncesOK' /\ NodesOK'
    BY <1>1, <1>3 DEF AdapterInv, PinnedOK, CountOK, NoncesOK, LogsOfNonces, NodesOK
  <1>5. QED
    BY <1>1, <1>2, <1>4 DEF AdapterInv

(* Every step keeps the invariant.                                        *)
LEMMA AdapterStep ==
    ASSUME AdapterInv, [Next_Adapters]_adapterVars
    PROVE  AdapterInv'
  <1>1. CASE UNCHANGED adapterVars
    <2>1. node' = node /\ call' = call /\ transaction' = transaction
      BY <1>1 DEF adapterVars
    <2>2. \A b : FinalBlock(b)' <=> FinalBlock(b)
      BY <2>1 DEF FinalBlock, ChainHead
    <2>3. PinnedOK' /\ CountOK'
      BY <2>1, <2>2 DEF AdapterInv, PinnedOK, CountOK
    <2>4. NodesOK' /\ SendsOK' /\ NoncesOK'
      BY <2>1 DEF AdapterInv, SendsOK, NoncesOK, LogsOfNonces, NodesOK
    <2>5. QED
      BY <2>1, <2>3, <2>4 DEF AdapterInv
  <1>2. CASE \E p \in Nodes : NodeAdvances(p)
    BY <1>2, NodeAdvancesStep
  <1>3. CASE EthFetchMessages \/ EthFetchLogs \/ CosmosFetchPage
    BY <1>3, OtherIndexStep
  <1>4. QED
    BY <1>1, <1>2, <1>3, StartCallStep, MakeRequestStep, ReceiptTimeoutStep, SealevelFetchStep,
       MineStep DEF Next_Adapters

(* The calls of the adapters, whichever nodes answer, lag or lose         *)
(* answers: a counter or checkpoint is that of one final block, and       *)
(* success is reported only for a transaction that was sent (Ethereum:    *)
(* that is on the chain).                                                 *)
(* The nonce by nonce indexers of the Sealevel adapter return, in order,   *)
(* what they were asked for.                                               *)
THEOREM AdapterCallsSound == AdapterSpec => []AdaptersSound /\ [](call.op \in NonceOps => LogsSound)
  <1>1. AdapterInv => AdaptersSound
    BY DEF AdapterInv, PinnedOK, CountOK, SendsOK, CountOps, PinnedReads, FinalizedReads,
       OutcomeHonest, AdaptersSound
  <1>2. AdapterInv => (call.op \in NonceOps => LogsSound)
    <2>1. SUFFICES ASSUME AdapterInv, call.op \in NonceOps, call.op \in IndexOps, call.result = "ok"
                   PROVE  LogsSound
      BY DEF LogsSound
    <2>2. LogsOfNonces(call.to)
      BY <2>1 DEF AdapterInv, NoncesOK
    <2>3. DOMAIN call.logs = 1 .. Len(call.logs)
      BY <2>2 DEF LogsOfNonces
    <2>4. call.op = "sealevel_fetch_logs" \/ call.op = "sealevel_fetch_payments"
      BY <2>1 DEF NonceOps
    <2>5. QED
      BY <2>2, <2>3, <2>4 DEF LogsSound, LogsOfNonces
  <1>3. Init_Adapters => AdapterInv
    BY AdapterInit
  <1>4. AdapterInv /\ [Next_Adapters]_adapterVars => AdapterInv'
    BY AdapterStep
  <1>5. QED
    BY <1>1, <1>2, <1>3, <1>4, PTL DEF AdapterSpec

-----------------------------------------------------------------------------
(* The settings of the agents (AgentSettings)                              *)

(* No message was handled yet.                                            *)
NoOutcome == [sent |-> FALSE]

(* The relayer that is built from the configuration.                       *)
BuiltRelayer ==
    [status |-> "running", settings |-> RelayerSettings(raw),
     contexts |-> MessageContexts(RelayerSettings(raw))]

(* An agent is what its configuration makes of it, and the last message    *)
(* was handled by that agent.                                              *)
SettingsInv ==
    /\ raw \in RawConfigs
    /\ \/ /\ agentState \in {[status |-> "none"], LoadedSettings, [status |-> "stopped"]}
          /\ outcome = NoOutcome
       \/ /\ agentState = BuiltRelayer /\ RelayerSettings(raw).status = "configured"
          /\ \/ outcome = NoOutcome
             \/ \E m \in ConfigMessages :
                    m.origin \in agentState.settings.relay /\ outcome = HandleMessage(m)

(* The agent is not configured at first.                                  *)
LEMMA SettingsInit ==
    ASSUME Init_Settings
    PROVE  SettingsInv
  BY DEF Init_Settings, SettingsInv, NoOutcome

(* Every step keeps the invariant.                                        *)
LEMMA SettingsStep ==
    ASSUME SettingsInv, [Next_Settings]_settingsVars
    PROVE  SettingsInv'
  <1>1. raw' = raw /\ raw \in RawConfigs
    BY DEF SettingsInv, Next_Settings, LoadSettings, FromSettings, TickMessage, settingsVars
  <1>2. /\ RelayerSettings(raw)' = RelayerSettings(raw) /\ LoadedSettings' = LoadedSettings
        /\ BuiltRelayer' = BuiltRelayer
    BY <1>1 DEF LoadedSettings, BuiltRelayer
  <1>3. agentState = BuiltRelayer => agentState.status = "running"
    BY DEF BuiltRelayer
  <1>4. CASE LoadSettings
    BY <1>1, <1>2, <1>3, <1>4 DEF LoadSettings, SettingsInv, NoOutcome
  <1>5. CASE FromSettings
    <2>1. raw.agent = "relayer" /\ agentState.status = "configured" /\ outcome' = outcome
      BY <1>5 DEF FromSettings
    <2>2. agentState = RelayerSettings(raw) /\ outcome = NoOutcome
      BY <2>1, <1>3 DEF SettingsInv, LoadedSettings
    <2>3. agentState' = BuiltRelayer \/ agentState' = [status |-> "stopped"]
      BY <1>5, <2>2 DEF FromSettings, BuiltRelayer
    <2>4. QED
      BY <1>1, <1>2, <2>1, <2>2, <2>3 DEF SettingsInv, NoOutcome
  <1>6. ASSUME NEW m \in ConfigMessages, TickMessage(m)
        PROVE  SettingsInv'
    <2>1. /\ agentState.status = "running" /\ m.origin \in agentState.settings.relay
          /\ outcome' = HandleMessage(m) /\ agentState' = agentState
      BY <1>6 DEF TickMessage
    <2>2. \A s \in {[status |-> "none"], LoadedSettings, [status |-> "stopped"]} :
            s.status # "running"
      BY DEF LoadedSettings, RelayerSettings, APIServerSettings, ValidatorSettings,
         ScraperSettings, Rejected, Panicked
    <2>3. agentState = BuiltRelayer /\ RelayerSettings(raw).status = "configured"
      BY <2>1, <2>2 DEF SettingsInv
    <2>4. HandleMessage(m)' = HandleMessage(m)
      BY <2>1 DEF HandleMessage, DestinationCtxs
    <2>5. QED
      BY <1>1, <1>2, <2>1, <2>3, <2>4 DEF SettingsInv
  <1>7. CASE UNCHANGED settingsVars
    <2>1. agentState' = agentState /\ outcome' = outcome
      BY <1>7 DEF settingsVars
    <2>2. \A m : HandleMessage(m)' = HandleMessage(m)
      BY <2>1 DEF HandleMessage, DestinationCtxs
    <2>3. QED
      BY <1>1, <1>2, <2>1, <2>2 DEF SettingsInv, NoOutcome
  <1>8. QED
    BY <1>4, <1>5, <1>6, <1>7 DEF Next_Settings

(* What the parsers of the chains accept can be used.                      *)
LEMMA ParsedChainsUsable ==
    ASSUME NEW cfg, NEW names, ParseBase(cfg, names).ok
    PROVE  LET chains == ParseBase(cfg, names).chains
           IN  /\ DOMAIN chains = DOMAIN cfg.chains \cap names
               /\ \A n \in DOMAIN chains :
                    /\ ParseDomain(cfg.chains[n]) /\ HasUrls(cfg.chains[n])
                    /\ chains[n].reorg = ReorgPeriod(cfg.chains[n].reorg)
                    /\ DOMAIN chains[n] = {"panic", "ok", "connection", "protocol", "reorg", "signer"}
  <1> DEFINE default == IF cfg.consensus = "absent" THEN "fallback" ELSE cfg.consensus
             chosen == DOMAIN cfg.chains \cap names
             signer == ParseSigner(cfg.signer)
             parsed == [n \in chosen |-> ParseChain(cfg.chains[n], default)]
             chains == [n \in chosen |-> IF parsed[n].signer = "absent" /\ signer.signer # "absent"
                                         THEN [parsed[n] EXCEPT !.signer = "default"] ELSE parsed[n]]
  <1>1. ParseBase(cfg, names).chains = chains /\ \A n \in chosen : parsed[n].ok
    BY DEF ParseBase
  <1>2. ASSUME NEW n \in chosen
        PROVE  /\ ParseDomain(cfg.chains[n]) /\ HasUrls(cfg.chains[n])
               /\ chains[n].reorg = ReorgPeriod(cfg.chains[n].reorg)
               /\ DOMAIN chains[n] = {"panic", "ok", "connection", "protocol", "reorg", "signer"}
    <2> DEFINE c == cfg.chains[n]
               p == ParseChain(c, default)
    <2>1. /\ p.ok /\ chains[n] \in {p, [p EXCEPT !.signer = "default"]}
      BY <1>1, <1>2
    <2>2. /\ ParseDomain(c) /\ HasUrls(c) /\ p.reorg = ReorgPeriod(c.reorg)
          /\ DOMAIN p = {"panic", "ok", "connection", "protocol", "reorg", "signer"}
      BY <2>1 DEF ParseChain
    <2>3. QED
      BY <2>1, <2>2
  <1>3. QED
    BY <1>1, <1>2

(* A configured agent has what ChainsUsable and ReorgPeriodsAgree ask     *)
(* for.                                                                   *)
LEMMA ConfiguredIsUsable ==
    ASSUME raw \in RawConfigs, agentState = LoadedSettings
    PROVE  ChainsUsable /\ ReorgPeriodsAgree
  <1> SUFFICES ASSUME agentState.status = "configured"
               PROVE  ChainsUsable /\ ReorgPeriodsAgree
    BY DEF ChainsUsable, ReorgPeriodsAgree
  <1> DEFINE base == ParseBase(raw, NamesOrAll(raw))
             Usable(chains) ==
                /\ raw.names.set \subseteq DOMAIN chains
                /\ \A n \in DOMAIN chains : ParseDomain(raw.chains[n]) /\ HasUrls(raw.chains[n])
  <1>1. base.ok => \A n \in DOMAIN base.chains :
                      /\ ParseDomain(raw.chains[n]) /\ HasUrls(raw.chains[n])
                      /\ base.chains[n].reorg = ReorgPeriod(raw.chains[n].reorg)
                      /\ DOMAIN base.chains[n] =
                            {"panic", "ok", "connection", "protocol", "reorg", "signer"}
    BY ParsedChainsUsable
  <1>2. CASE raw.agent = "validator"
    <2> DEFINE origin == CHOOSE n \in raw.names.set : TRUE
               chains == [base.chains EXCEPT ![origin].signer =
                            IF @ = "absent" /\ base.chains[origin].protocol = "ethereum"
                            THEN "validator" ELSE @]
    <2>1. agentState = ValidatorSettings(raw)
      BY <1>2 DEF LoadedSettings
    <2>2. /\ base.ok /\ origin \in DOMAIN base.chains
          /\ agentState = [status |-> "configured", origin |-> origin,
                           reorg |-> ReorgPeriod(raw.chains[origin].reorg), chains |-> chains]
      BY <2>1 DEF ValidatorSettings, Rejected, Panicked
    <2>3. raw.names.set = {origin}
      BY <1>2, RawAssumption
    <2>4. DOMAIN chains = DOMAIN base.chains /\ chains[origin].reorg = base.chains[origin].reorg
      BY <1>1, <2>2
    <2> HIDE DEF origin, chains, base
    <2>5. Usable(chains)
      BY <1>1, <2>2, <2>3, <2>4
    <2>6. agentState.chains = chains /\ agentState.origin = origin
          /\ agentState.reorg = base.chains[origin].reorg
      BY <1>1, <2>2
    <2>7. QED
      BY <2>4, <2>5, <2>6 DEF ChainsUsable, ReorgPeriodsAgree
  <1>3. CASE raw.agent # "validator"
    <2>1. base.ok /\ agentState.chains = base.chains /\ raw.names.set \subseteq DOMAIN base.chains
      BY <1>3 DEF LoadedSettings, RelayerSettings, APIServerSettings, ScraperSettings, Rejected,
         Panicked
    <2> HIDE DEF base
    <2>2. QED
      BY <1>1, <1>3, <2>1 DEF ChainsUsable, ReorgPeriodsAgree
  <1>4. QED
    BY <1>2, <1>3

(* A list of rules matches a message when the configured list selects it.  *)
LEMMA MatchingIsSelecting ==
    ASSUME NEW items, NEW m
    PROVE  MatchesAnyRule(items, m) <=> Selects(items, m)
  <1> DEFINE Rule(r) == /\ FilterMatches(r.origin, m.origin) /\ FilterMatches(r.sender, m.sender)
                        /\ FilterMatches(r.destination, m.destination)
                        /\ FilterMatches(r.recipient, m.recipient)
  <1>1. \A r : Rule(r) <=> \A field \in {"origin", "sender", "destination", "recipient"} :
                              r[field] # AnyOf => m[field] \in r[field]
    BY DEF FilterMatches
  <1>2. MatchesAnyRule(items, m) <=> \E i \in DOMAIN items : Rule(items[i])
    BY DEF MatchesAnyRule
  <1> HIDE DEF Rule
  <1>3. QED
    BY <1>1, <1>2 DEF Selects, ToSet

(* The lists of a configured relayer are those of its configuration.      *)
LEMMA ListsAre ==
    ASSUME raw \in RawConfigs, RelayerSettings(raw).status = "configured"
    PROVE  LET s == RelayerSettings(raw)
           IN  /\ s.relay = raw.names.set /\ s.skip = raw.skip /\ s.limit = raw.limit
               /\ raw.whitelist.kind \in {"absent", "notjson", "list"}
               /\ raw.blacklist.kind \in {"absent", "notjson", "list"}
               /\ s.whitelist = IF raw.whitelist.kind = "list" THEN raw.whitelist.items ELSE << >>
               /\ s.blacklist = IF raw.blacklist.kind = "list" THEN raw.blacklist.items ELSE << >>
  <1> DEFINE s == RelayerSettings(raw)
             white == ParseMatchingList(raw.whitelist)
             black == ParseMatchingList(raw.blacklist)
  <1>1. /\ white.ok /\ black.ok /\ s.relay = raw.names.set /\ s.skip = raw.skip
        /\ s.limit = raw.limit /\ s.whitelist = white.list /\ s.blacklist = black.list
    BY DEF RelayerSettings, Rejected, Panicked
  <1>2. /\ raw.whitelist.kind \in {"absent", "notjson", "list"}
        /\ raw.blacklist.kind \in {"absent", "notjson", "list"}
    BY <1>1, RawAssumption DEF ParseMatchingList
  <1>3. QED
    BY <1>1, <1>2 DEF ParseMatchingList, ParseJsonArray

(* A message that a running relayer handled went where the lists allow.   *)
LEMMA HandledAsConfigured ==
    ASSUME raw \in RawConfigs, agentState = BuiltRelayer,
           RelayerSettings(raw).status = "configured",
           NEW m \in ConfigMessages, m.origin \in agentState.settings.relay,
           outcome = HandleMessage(m)
    PROVE  FiltersHonoured /\ NothingElseDropped /\ WiringComplete
  <1> DEFINE s == RelayerSettings(raw)
             white == s.whitelist # << >> => Selects(s.whitelist, m)
             black == s.blacklist # << >> /\ Selects(s.blacklist, m)
             passes == white /\ ~black /\ m.destination # m.origin /\ m.destination \in s.relay
             context == MessageContexts(s)[<<m.origin, m.destination>>]
             sending == [sent |-> TRUE, message |-> m, channel |-> m.destination,
                         found |-> m.destination \in {d \in s.relay : d # m.origin},
                         context |-> context]
  <1>1. agentState.settings = s /\ agentState.contexts = MessageContexts(s)
        /\ agentState.status = "running"
    BY DEF BuiltRelayer
  <1>2. MsgMatches(s.whitelist, m, TRUE) <=> white
    BY MatchingIsSelecting DEF MsgMatches
  <1>3. MsgMatches(s.blacklist, m, FALSE) <=> black
    BY MatchingIsSelecting DEF MsgMatches
  <1>4. outcome = IF passes THEN sending ELSE [sent |-> FALSE, message |-> m]
    BY <1>1, <1>2, <1>3 DEF HandleMessage, SendChannels, DestinationCtxs
  <1>5. /\ s.relay = raw.names.set /\ s.skip = raw.skip /\ s.limit = raw.limit
        /\ s.whitelist = IF raw.whitelist.kind = "list" THEN raw.whitelist.items ELSE << >>
        /\ s.blacklist = IF raw.blacklist.kind = "list" THEN raw.blacklist.items ELSE << >>
    BY ListsAre
  <1>6. m.origin \in s.relay
    BY <1>1
  <1>7. ~Selects(<< >>, m)
    BY DEF Selects, ToSet
  <1>8. m.destination \in s.relay =>
          context = [mailbox |-> m.destination, db |-> m.origin, prover |-> m.origin,
                     announce |-> m.origin,
                     limit |-> IF m.destination \in raw.skip THEN "absent" ELSE raw.limit]
    BY <1>5, <1>6 DEF MessageContexts, TransactionGasLimit
  <1> HIDE DEF s, context
  <1>9. CASE passes
    <2>1. outcome = sending
      BY <1>4, <1>9
    <2>2. outcome.sent /\ outcome.message = m /\ outcome.channel = m.destination
          /\ outcome.context = context /\ outcome.found
      <3>1. DOMAIN outcome = {"sent", "message", "channel", "found", "context"}
            /\ outcome.message = m /\ outcome.channel = m.destination /\ outcome.context = context
        BY <2>1
      <3>2. outcome.sent
        BY <2>1
      <3>3. outcome.found
        <4>1. sending.found
          BY <1>9, Zenon
        <4>2. QED
          BY <2>1, <4>1, Zenon
      <3>4. QED
        BY <3>1, <3>2, <3>3
    <2>3. FiltersHonoured
      BY <1>5, <1>7, <1>9, <2>2 DEF FiltersHonoured
    <2>4. QED
      BY <1>8, <1>9, <2>2, <2>3 DEF NothingElseDropped, WiringComplete
  <1>10. CASE ~passes
    <2>1. outcome.sent = FALSE /\ outcome.message = m
      BY <1>4, <1>10
    <2>2. \/ m.destination = m.origin \/ m.destination \notin raw.names.set
          \/ /\ raw.whitelist.kind = "list" /\ raw.whitelist.items # << >>
             /\ ~Selects(raw.whitelist.items, m)
          \/ raw.blacklist.kind = "list" /\ Selects(raw.blacklist.items, m)
      BY <1>5, <1>10
    <2>3. QED
      BY <2>1, <2>2 DEF FiltersHonoured, NothingElseDropped, WiringComplete
  <1>11. QED
    BY <1>9, <1>10

(* The invariant is sound.                                                *)
LEMMA SettingsSoundness ==
    ASSUME SettingsInv
    PROVE  SettingsSound
  <1>1. outcome = NoOutcome => FiltersHonoured /\ NothingElseDropped /\ WiringComplete
    <2>1. outcome = NoOutcome => ~outcome.sent /\ "message" \notin DOMAIN outcome
      BY DEF NoOutcome
    <2>2. QED
      BY <2>1 DEF FiltersHonoured, NothingElseDropped, WiringComplete
  <1>2. outcome # NoOutcome => FiltersHonoured /\ NothingElseDropped /\ WiringComplete
    BY HandledAsConfigured DEF SettingsInv
  <1>3. agentState # LoadedSettings => ChainsUsable /\ ReorgPeriodsAgree
    BY DEF SettingsInv, BuiltRelayer, ChainsUsable, ReorgPeriodsAgree
  <1>4. agentState = LoadedSettings => ChainsUsable /\ ReorgPeriodsAgree
    BY ConfiguredIsUsable DEF SettingsInv
  <1>5. QED
    BY <1>1, <1>2, <1>3, <1>4 DEF SettingsSound

(* Whatever the configuration, an agent only works on chains that are      *)
(* configured without an error, a validator signs with the reorganisation  *)
(* period of its indexers, and a relayer sends exactly the messages that   *)
(* the lists allow, each with the context of its pair.                     *)
THEOREM ConfigurationHonoured == SettingsSpec => []SettingsSound
  <1>1. Init_Settings => SettingsInv
    BY SettingsInit
  <1>2. SettingsInv /\ [Next_Settings]_settingsVars => SettingsInv'
    BY SettingsStep
  <1>3. SettingsInv => SettingsSound
    BY SettingsSoundness
  <1>4. QED
    BY <1>1, <1>2, <1>3, PTL DEF SettingsSpec

-----------------------------------------------------------------------------
(* The incremental Merkle tree (IncrementalTree)                           *)

(* The recursive functions of the tree, on the levels up to n.             *)
ZeroRec(f, n) ==
    f = [i \in 0 .. n |-> IF i = 0 THEN ZeroLeaf ELSE HashConcat(f[i - 1], f[i - 1])]
HalfRec(f, size, n) == f = [i \in 0 .. n |-> IF i = 0 THEN size ELSE f[i - 1] \div 2]
UnderRec(f, n) == f = [i \in 0 .. n |-> IF i = 0 THEN 1 ELSE 2 * f[i - 1]]
UpRec(f, index, leaf, left, right, n) ==
    f = [i \in 0 .. n |-> IF i = 0 THEN leaf
                          ELSE IF Bit(index, i - 1) = 1 THEN HashConcat(left[i - 1], f[i - 1])
                          ELSE HashConcat(f[i - 1], right[i - 1])]
CarriedRec(f, branch, element, n) ==
    f = [i \in 0 .. n |-> IF i = 0 THEN element ELSE HashConcat(branch[i - 1], f[i - 1])]
(* The row of the leaves, and the row above a row.                        *)
LeafRow(ids) == [j \in Nat |-> IF j < Len(ids) THEN ids[j + 1] ELSE ZeroLeaf]
RowAbove(row) == [j \in Nat |-> HashConcat(row[2 * j], row[2 * j + 1])]
SubtreesRec(f, ids, n) == f = [i \in 0 .. n |-> IF i = 0 THEN LeafRow(ids) ELSE RowAbove(f[i - 1])]

(* The recursion of ZeroHashes is well founded.                           *)

LEMMA ZeroDefined ==
    ASSUME NEW n \in Nat
    PROVE  \E f : ZeroRec(f, n)
  <1> DEFINE Ok == {k \in Nat : \E f : ZeroRec(f, k)}
  <1>1. 0 \in Ok
    <2> DEFINE f == [i \in 0 .. 0 |-> ZeroLeaf]
    <2>1. \A i \in 0 .. 0 : i = 0
      OBVIOUS
    <2>2. f = [i \in 0 .. 0 |-> IF i = 0 THEN ZeroLeaf ELSE HashConcat(f[i - 1], f[i - 1])]
      BY <2>1
    <2>3. ZeroRec(f, 0)
      BY <2>2 DEF ZeroRec
    <2>4. QED
      BY <2>3
  <1>2. ASSUME NEW k \in 0 .. n, k < n, k \in Ok PROVE k + 1 \in Ok
    <2>1. PICK f : ZeroRec(f, k)
      BY <1>2
    <2> DEFINE g == [i \in 0 .. k + 1 |-> IF i # k + 1 THEN f[i]
                                          ELSE HashConcat(f[i - 1], f[i - 1])]
    <2>2. \A i \in 0 .. k : f[i] = IF i = 0 THEN ZeroLeaf
                                ELSE HashConcat(f[i - 1], f[i - 1])
      BY <2>1 DEF ZeroRec
    <2>3. \A i \in 0 .. k : g[i] = f[i]
      OBVIOUS
    <2>4. ASSUME NEW i \in 0 .. k + 1
          PROVE  g[i] = IF i = 0 THEN ZeroLeaf
                                ELSE HashConcat(g[i - 1], g[i - 1])
      <3>1. i = 0 \/ g[i - 1] = f[i - 1]
        BY <2>3
      <3>2. CASE i = k + 1
        BY <3>1, <3>2
      <3>3. CASE i # k + 1
        <4>1. i \in 0 .. k
          BY <3>3
        <4> HIDE DEF g
        <4>2. QED
          BY <2>2, <2>3, <3>1, <4>1
      <3>4. QED
        BY <3>2, <3>3
    <2>5. ZeroRec(g, k + 1)
      BY <2>4 DEF ZeroRec
    <2>6. QED
      BY <2>5
  <1>3. 0 .. n \subseteq Ok
    <2> HIDE DEF Ok
    <2>1. QED
      BY <1>1, <1>2, IntervalInduction
  <1>4. QED
    BY <1>3

(* The recursion of Halved is well founded.                               *)
LEMMA HalfDefined ==
    ASSUME NEW n \in Nat, NEW size
    PROVE  \E f : HalfRec(f, size, n)
  <1> DEFINE Ok == {k \in Nat : \E f : HalfRec(f, size, k)}
  <1>1. 0 \in Ok
    <2> DEFINE f == [i \in 0 .. 0 |-> size]
    <2>1. \A i \in 0 .. 0 : i = 0
      OBVIOUS
    <2>2. f = [i \in 0 .. 0 |-> IF i = 0 THEN size ELSE f[i - 1] \div 2]
      BY <2>1
    <2>3. HalfRec(f, size, 0)
      BY <2>2 DEF HalfRec
    <2>4. QED
      BY <2>3
  <1>2. ASSUME NEW k \in 0 .. n, k < n, k \in Ok PROVE k + 1 \in Ok
    <2>1. PICK f : HalfRec(f, size, k)
      BY <1>2
    <2> DEFINE g == [i \in 0 .. k + 1 |-> IF i # k + 1 THEN f[i]
                                          ELSE f[i - 1] \div 2]
    <2>2. \A i \in 0 .. k : f[i] = IF i = 0 THEN size
                                ELSE f[i - 1] \div 2
      BY <2>1 DEF HalfRec
    <2>3. \A i \in 0 .. k : g[i] = f[i]
      OBVIOUS
    <2>4. ASSUME NEW i \in 0 .. k + 1
          PROVE  g[i] = IF i = 0 THEN size
                                ELSE g[i - 1] \div 2
      <3>1. i = 0 \/ g[i - 1] = f[i - 1]
        BY <2>3
      <3>2. CASE i = k + 1
        BY <3>1, <3>2
      <3>3. CASE i # k + 1
        <4>1. i \in 0 .. k
          BY <3>3
        <4> HIDE DEF g
        <4>2. QED
          BY <2>2, <2>3, <3>1, <4>1
      <3>4. QED
        BY <3>2, <3>3
    <2>5. HalfRec(g, size, k + 1)
      BY <2>4 DEF HalfRec
    <2>6. QED
      BY <2>5
  <1>3. 0 .. n \subseteq Ok
    <2> HIDE DEF Ok
    <2>1. QED
      BY <1>1, <1>2, IntervalInduction
  <1>4. QED
    BY <1>3

(* The recursion of LeavesUnder is well founded.                          *)
LEMMA UnderDefined ==
    ASSUME NEW n \in Nat
    PROVE  \E f : UnderRec(f, n)
  <1> DEFINE Ok == {k \in Nat : \E f : UnderRec(f, k)}
  <1>1. 0 \in Ok
    <2> DEFINE f == [i \in 0 .. 0 |-> 1]
    <2>1. \A i \in 0 .. 0 : i = 0
      OBVIOUS
    <2>2. f = [i \in 0 .. 0 |-> IF i = 0 THEN 1 ELSE 2 * f[i - 1]]
      BY <2>1
    <2>3. UnderRec(f, 0)
      BY <2>2 DEF UnderRec
    <2>4. QED
      BY <2>3
  <1>2. ASSUME NEW k \in 0 .. n, k < n, k \in Ok PROVE k + 1 \in Ok
    <2>1. PICK f : UnderRec(f, k)
      BY <1>2
    <2> DEFINE g == [i \in 0 .. k + 1 |-> IF i # k + 1 THEN f[i]
                                          ELSE 2 * f[i - 1]]
    <2>2. \A i \in 0 .. k : f[i] = IF i = 0 THEN 1
                                ELSE 2 * f[i - 1]
      BY <2>1 DEF UnderRec
    <2>3. \A i \in 0 .. k : g[i] = f[i]
      OBVIOUS
    <2>4. ASSUME NEW i \in 0 .. k + 1
          PROVE  g[i] = IF i = 0 THEN 1
                                ELSE 2 * g[i - 1]
      <3>1. i = 0 \/ g[i - 1] = f[i - 1]
        BY <2>3
      <3>2. CASE i = k + 1
        BY <3>1, <3>2
      <3>3. CASE i # k + 1
        <4>1. i \in 0 .. k
          BY <3>3
        <4> HIDE DEF g
        <4>2. QED
          BY <2>2, <2>3, <3>1, <4>1
      <3>4. QED
        BY <3>2, <3>3
    <2>5. UnderRec(g, k + 1)
      BY <2>4 DEF UnderRec
    <2>6. QED
      BY <2>5
  <1>3. 0 .. n \subseteq Ok
    <2> HIDE DEF Ok
    <2>1. QED
      BY <1>1, <1>2, IntervalInduction
  <1>4. QED
    BY <1>3

(* The recursion of HashesUp is well founded.                             *)
LEMMA UpDefined ==
    ASSUME NEW n \in Nat, NEW index, NEW leaf, NEW left, NEW right
    PROVE  \E f : UpRec(f, index, leaf, left, right, n)
  <1> DEFINE Ok == {k \in Nat : \E f : UpRec(f, index, leaf, left, right, k)}
  <1>1. 0 \in Ok
    <2> DEFINE f == [i \in 0 .. 0 |-> leaf]
    <2>1. \A i \in 0 .. 0 : i = 0
      OBVIOUS
    <2>2. f = [i \in 0 .. 0 |-> IF i = 0 THEN leaf ELSE IF Bit(index, i - 1) = 1 THEN HashConcat(left[i - 1], f[i - 1]) ELSE HashConcat(f[i - 1], right[i - 1])]
      BY <2>1
    <2>3. UpRec(f, index, leaf, left, right, 0)
      BY <2>2 DEF UpRec
    <2>4. QED
      BY <2>3
  <1>2. ASSUME NEW k \in 0 .. n, k < n, k \in Ok PROVE k + 1 \in Ok
    <2>1. PICK f : UpRec(f, index, leaf, left, right, k)
      BY <1>2
    <2> DEFINE g == [i \in 0 .. k + 1 |-> IF i # k + 1 THEN f[i]
                                          ELSE IF Bit(index, i - 1) = 1 THEN HashConcat(left[i - 1], f[i - 1]) ELSE HashConcat(f[i - 1], right[i - 1])]
    <2>2. \A i \in 0 .. k : f[i] = IF i = 0 THEN leaf
                                ELSE IF Bit(index, i - 1) = 1 THEN HashConcat(left[i - 1], f[i - 1]) ELSE HashConcat(f[i - 1], right[i - 1])
      BY <2>1 DEF UpRec
    <2>3. \A i \in 0 .. k : g[i] = f[i]
      OBVIOUS
    <2>4. ASSUME NEW i \in 0 .. k + 1
          PROVE  g[i] = IF i = 0 THEN leaf
                                ELSE IF Bit(index, i - 1) = 1 THEN HashConcat(left[i - 1], g[i - 1]) ELSE HashConcat(g[i - 1], right[i - 1])
      <3>1. i = 0 \/ g[i - 1] = f[i - 1]
        BY <2>3
      <3>2. CASE i = k + 1
        BY <3>1, <3>2
      <3>3. CASE i # k + 1
        <4>1. i \in 0 .. k
          BY <3>3
        <4> HIDE DEF g
        <4>2. QED
          BY <2>2, <2>3, <3>1, <4>1
      <3>4. QED
        BY <3>2, <3>3
    <2>5. UpRec(g, index, leaf, left, right, k + 1)
      BY <2>4 DEF UpRec
    <2>6. QED
      BY <2>5
  <1>3. 0 .. n \subseteq Ok
    <2> HIDE DEF Ok
    <2>1. QED
      BY <1>1, <1>2, IntervalInduction
  <1>4. QED
    BY <1>3

(* The recursion of CarriedNode is well founded.                          *)
LEMMA CarriedDefined ==
    ASSUME NEW n \in Nat, NEW branch, NEW element
    PROVE  \E f : CarriedRec(f, branch, element, n)
  <1> DEFINE Ok == {k \in Nat : \E f : CarriedRec(f, branch, element, k)}
  <1>1. 0 \in Ok
    <2> DEFINE f == [i \in 0 .. 0 |-> element]
    <2>1. \A i \in 0 .. 0 : i = 0
      OBVIOUS
    <2>2. f = [i \in 0 .. 0 |-> IF i = 0 THEN element ELSE HashConcat(branch[i - 1], f[i - 1])]
      BY <2>1
    <2>3. CarriedRec(f, branch, element, 0)
      BY <2>2 DEF CarriedRec
    <2>4. QED
      BY <2>3
  <1>2. ASSUME NEW k \in 0 .. n, k < n, k \in Ok PROVE k + 1 \in Ok
    <2>1. PICK f : CarriedRec(f, branch, element, k)
      BY <1>2
    <2> DEFINE g == [i \in 0 .. k + 1 |-> IF i # k + 1 THEN f[i]
                                          ELSE HashConcat(branch[i - 1], f[i - 1])]
    <2>2. \A i \in 0 .. k : f[i] = IF i = 0 THEN element
                                ELSE HashConcat(branch[i - 1], f[i - 1])
      BY <2>1 DEF CarriedRec
    <2>3. \A i \in 0 .. k : g[i] = f[i]
      OBVIOUS
    <2>4. ASSUME NEW i \in 0 .. k + 1
          PROVE  g[i] = IF i = 0 THEN element
                                ELSE HashConcat(branch[i - 1], g[i - 1])
      <3>1. i = 0 \/ g[i - 1] = f[i - 1]
        BY <2>3
      <3>2. CASE i = k + 1
        BY <3>1, <3>2
      <3>3. CASE i # k + 1
        <4>1. i \in 0 .. k
          BY <3>3
        <4> HIDE DEF g
        <4>2. QED
          BY <2>2, <2>3, <3>1, <4>1
      <3>4. QED
        BY <3>2, <3>3
    <2>5. CarriedRec(g, branch, element, k + 1)
      BY <2>4 DEF CarriedRec
    <2>6. QED
      BY <2>5
  <1>3. 0 .. n \subseteq Ok
    <2> HIDE DEF Ok
    <2>1. QED
      BY <1>1, <1>2, IntervalInduction
  <1>4. QED
    BY <1>3

(* The recursion of Subtrees is well founded.                             *)
LEMMA SubtreesDefined ==
    ASSUME NEW n \in Nat, NEW ids
    PROVE  \E f : SubtreesRec(f, ids, n)
  <1> DEFINE Ok == {k \in Nat : \E f : SubtreesRec(f, ids, k)}
  <1>1. 0 \in Ok
    <2> DEFINE f == [i \in 0 .. 0 |-> LeafRow(ids)]
    <2>1. \A i \in 0 .. 0 : i = 0
      OBVIOUS
    <2>2. f = [i \in 0 .. 0 |-> IF i = 0 THEN LeafRow(ids) ELSE RowAbove(f[i - 1])]
      BY <2>1
    <2>3. SubtreesRec(f, ids, 0)
      BY <2>2 DEF SubtreesRec
    <2>4. QED
      BY <2>3
  <1>2. ASSUME NEW k \in 0 .. n, k < n, k \in Ok PROVE k + 1 \in Ok
    <2>1. PICK f : SubtreesRec(f, ids, k)
      BY <1>2
    <2> DEFINE g == [i \in 0 .. k + 1 |-> IF i # k + 1 THEN f[i]
                                          ELSE RowAbove(f[i - 1])]
    <2>2. \A i \in 0 .. k : f[i] = IF i = 0 THEN LeafRow(ids)
                                ELSE RowAbove(f[i - 1])
      BY <2>1 DEF SubtreesRec
    <2>3. \A i \in 0 .. k : g[i] = f[i]
      OBVIOUS
    <2>4. ASSUME NEW i \in 0 .. k + 1
          PROVE  g[i] = IF i = 0 THEN LeafRow(ids)
                                ELSE RowAbove(g[i - 1])
      <3>1. i = 0 \/ g[i - 1] = f[i - 1]
        BY <2>3
      <3>2. CASE i = k + 1
        BY <3>1, <3>2
      <3>3. CASE i # k + 1
        <4>1. i \in 0 .. k
          BY <3>3
        <4> HIDE DEF g
        <4>2. QED
          BY <2>2, <2>3, <3>1, <4>1
      <3>4. QED
        BY <3>2, <3>3
    <2>5. SubtreesRec(g, ids, k + 1)
      BY <2>4 DEF SubtreesRec
    <2>6. QED
      BY <2>5
  <1>3. 0 .. n \subseteq Ok
    <2> HIDE DEF Ok
    <2>1. QED
      BY <1>1, <1>2, IntervalInduction
  <1>4. QED
    BY <1>3

(* So each follows its recursion: ZeroHashes, and the others below.       *)
LEMMA ZeroHashesAre ==
    \A i \in 0 .. TREE_DEPTH :
        ZeroHashes[i] = IF i = 0 THEN ZeroLeaf ELSE HashConcat(ZeroHashes[i - 1], ZeroHashes[i - 1])
  <1>1. ZeroHashes = CHOOSE f : ZeroRec(f, TREE_DEPTH)
    BY DEF ZeroHashes, ZeroRec
  <1>2. ZeroRec(ZeroHashes, TREE_DEPTH)
    BY <1>1, ZeroDefined, TreeAssumption
  <1>3. QED
    BY <1>2 DEF ZeroRec

(* Halved halves at every level.                                          *)
LEMMA HalvedIs ==
    ASSUME NEW size
    PROVE  \A i \in 0 .. TREE_DEPTH :
                Halved(size)[i] = IF i = 0 THEN size ELSE Halved(size)[i - 1] \div 2
  <1>1. Halved(size) = CHOOSE f : HalfRec(f, size, TREE_DEPTH)
    BY DEF Halved, HalfRec
  <1>2. HalfRec(Halved(size), size, TREE_DEPTH)
    BY <1>1, HalfDefined, TreeAssumption
  <1>3. QED
    BY <1>2 DEF HalfRec

(* The leaves double from one level to the next.                          *)
LEMMA LeavesUnderAre ==
    \A i \in 0 .. TREE_DEPTH :
        LeavesUnder[i] = IF i = 0 THEN 1 ELSE 2 * LeavesUnder[i - 1]
  <1>1. LeavesUnder = CHOOSE f : UnderRec(f, TREE_DEPTH)
    BY DEF LeavesUnder, UnderRec
  <1>2. UnderRec(LeavesUnder, TREE_DEPTH)
    BY <1>1, UnderDefined, TreeAssumption
  <1>3. QED
    BY <1>2 DEF UnderRec

(* They are numbers.                                                       *)
LEMMA LeavesAreNumbers ==
    \A i \in 0 .. TREE_DEPTH : LeavesUnder[i] \in Nat /\ LeavesUnder[i] > 0
  <1> DEFINE Pos == {i \in Nat : LeavesUnder[i] \in Nat /\ LeavesUnder[i] > 0}
  <1>1. TREE_DEPTH \in Nat \ {0}
    BY TreeAssumption
  <1>2. \A i \in 0 .. TREE_DEPTH : LeavesUnder[i] = IF i = 0 THEN 1 ELSE 2 * LeavesUnder[i - 1]
    BY LeavesUnderAre
  <1>3. 0 \in Pos
    BY <1>1, <1>2
  <1>4. ASSUME NEW k \in 0 .. TREE_DEPTH, k < TREE_DEPTH, k \in Pos PROVE k + 1 \in Pos
    <2>1. LeavesUnder[k + 1] = 2 * LeavesUnder[k]
      BY <1>1, <1>2, <1>4
    <2>2. QED
      BY <1>4, <2>1
  <1>5. 0 .. TREE_DEPTH \subseteq Pos
    <2> HIDE DEF Pos
    <2>1. QED
      BY <1>1, <1>3, <1>4, IntervalInduction
  <1>6. QED
    BY <1>5

(* HashesUp hashes beside the node given for the side of the bit.         *)
LEMMA HashesUpAre ==
    ASSUME NEW index, NEW leaf, NEW left, NEW right
    PROVE  LET f == HashesUp(index, leaf, left, right)
           IN  \A i \in 0 .. TREE_DEPTH :
                 f[i] = IF i = 0 THEN leaf
                        ELSE IF Bit(index, i - 1) = 1 THEN HashConcat(left[i - 1], f[i - 1])
                        ELSE HashConcat(f[i - 1], right[i - 1])
  <1> DEFINE f == HashesUp(index, leaf, left, right)
  <1>1. f = CHOOSE g : UpRec(g, index, leaf, left, right, TREE_DEPTH)
    BY DEF HashesUp, UpRec
  <1> HIDE DEF f
  <1>2. UpRec(f, index, leaf, left, right, TREE_DEPTH)
    BY <1>1, UpDefined, TreeAssumption
  <1>3. QED
    BY <1>2 DEF UpRec, f

(* CarriedNode hashes with the branch on the left.                        *)
LEMMA CarriedAre ==
    ASSUME NEW branch, NEW element
    PROVE  LET f == CarriedNode(branch, element)
           IN  \A i \in 0 .. TREE_DEPTH :
                 f[i] = IF i = 0 THEN element ELSE HashConcat(branch[i - 1], f[i - 1])
  <1> DEFINE f == CarriedNode(branch, element)
  <1>1. f = CHOOSE g : CarriedRec(g, branch, element, TREE_DEPTH)
    BY DEF CarriedNode, CarriedRec
  <1> HIDE DEF f
  <1>2. CarriedRec(f, branch, element, TREE_DEPTH)
    BY <1>1, CarriedDefined, TreeAssumption
  <1>3. QED
    BY <1>2 DEF CarriedRec, f

(* Subtrees is a row of leaves and rows above it.                         *)
LEMMA SubtreesAre ==
    ASSUME NEW ids
    PROVE  LET T == Subtrees(ids)
           IN  /\ \A j \in Nat : T[0][j] = IF j < Len(ids) THEN ids[j + 1] ELSE ZeroLeaf
               /\ \A i \in 0 .. TREE_DEPTH : i # 0 =>
                    \A j \in Nat : T[i][j] = HashConcat(T[i - 1][2 * j], T[i - 1][2 * j + 1])
  <1> DEFINE T == Subtrees(ids)
             Row(f, i) == [j \in Nat |->
                IF i = 0 THEN IF j < Len(ids) THEN ids[j + 1] ELSE ZeroLeaf
                ELSE HashConcat(f[i - 1][2 * j], f[i - 1][2 * j + 1])]
  <1>1. T = CHOOSE g : g = [i \in 0 .. TREE_DEPTH |-> Row(g, i)]
    BY DEF Subtrees
  <1>2. \A f, i : Row(f, i) = IF i = 0 THEN LeafRow(ids) ELSE RowAbove(f[i - 1])
    BY DEF LeafRow, RowAbove
  <1>3. PICK g : SubtreesRec(g, ids, TREE_DEPTH)
    BY SubtreesDefined, TreeAssumption
  <1> HIDE DEF T, Row
  <1>4. g = [i \in 0 .. TREE_DEPTH |-> Row(g, i)]
    BY <1>2, <1>3 DEF SubtreesRec
  <1>5. T = [i \in 0 .. TREE_DEPTH |-> Row(T, i)]
    BY <1>1, <1>4
  <1>6. \A i \in 0 .. TREE_DEPTH : T[i] = IF i = 0 THEN LeafRow(ids) ELSE RowAbove(T[i - 1])
    BY <1>2, <1>5
  <1>7. \A i \in 0 .. TREE_DEPTH : i # 0 => T[i] = RowAbove(T[i - 1])
    BY <1>6
  <1>8. T[0] = LeafRow(ids)
    BY <1>6, TreeAssumption
  <1>9. QED
    BY <1>7, <1>8 DEF LeafRow, RowAbove, T

(* The levels that have a branch.                                         *)
Levels == 0 .. TREE_DEPTH - 1

(* One level up: the size (or index) is halved, and the bit is the rest.   *)
LEMMA OneLevelUp ==
    ASSUME NEW size \in Nat
    PROVE  /\ \A i \in 0 .. TREE_DEPTH : Halved(size)[i] \in Nat
           /\ Halved(size)[0] = size
           /\ \A i \in Levels :
                /\ Halved(size)[i + 1] = Halved(size)[i] \div 2
                /\ Bit(size, i) = Halved(size)[i] % 2
                /\ Bit(size, i) = 1 => Halved(size)[i] = 2 * Halved(size)[i + 1] + 1
                /\ Bit(size, i) # 1 => Bit(size, i) = 0 /\ Halved(size)[i] = 2 * Halved(size)[i + 1]
  <1> DEFINE h == Halved(size)
             Good == {k \in Nat : h[k] \in Nat}
  <1>1. \A i \in 0 .. TREE_DEPTH : h[i] = IF i = 0 THEN size ELSE h[i - 1] \div 2
    BY HalvedIs
  <1>2. \A i \in Levels : Bit(size, i) = h[i] % 2
    BY DEF Bit
  <1> HIDE DEF h
  <1>3. TREE_DEPTH \in Nat \ {0}
    BY TreeAssumption
  <1>4. 0 \in Good
    BY <1>1, <1>3
  <1>5. ASSUME NEW k \in 0 .. TREE_DEPTH, k < TREE_DEPTH, k \in Good PROVE k + 1 \in Good
    <2>1. h[k + 1] = h[k] \div 2
      BY <1>1, <1>3, <1>5
    <2>2. QED
      BY <1>5, <2>1
  <1>6. 0 .. TREE_DEPTH \subseteq Good
    <2> HIDE DEF Good
    <2>1. QED
      BY <1>3, <1>4, <1>5, IntervalInduction
  <1>7. \A i \in 0 .. TREE_DEPTH : h[i] \in Nat
    BY <1>6
  <1>8. ASSUME NEW i \in Levels
        PROVE  /\ h[i + 1] = h[i] \div 2
               /\ Bit(size, i) = 1 => h[i] = 2 * h[i + 1] + 1
               /\ Bit(size, i) # 1 => Bit(size, i) = 0 /\ h[i] = 2 * h[i + 1]
    <2>1. i \in 0 .. TREE_DEPTH /\ i + 1 \in 0 .. TREE_DEPTH /\ i + 1 # 0 /\ (i + 1) - 1 = i
      BY <1>3 DEF Levels
    <2>2. h[i] \in Nat /\ h[i + 1] = h[i] \div 2 /\ Bit(size, i) = h[i] % 2
      BY <1>1, <1>2, <1>7, <2>1
    <2>3. QED
      BY <2>2
  <1>9. QED
    BY <1>1, <1>2, <1>3, <1>7, <1>8 DEF h

(* A size that is smaller than a full tree is 0 at the root.               *)
LEMMA NoneAtTheRoot ==
    ASSUME NEW size \in Nat, size < LeavesUnder[TREE_DEPTH]
    PROVE  Halved(size)[TREE_DEPTH] = 0
  <1> DEFINE h == Halved(size)
             D == TREE_DEPTH
             Good == {k \in 0 .. D : LeavesUnder[D - k] \in Nat /\ h[k] < LeavesUnder[D - k]}
  <1>1. D \in Nat \ {0}
    BY TreeAssumption
  <1>2. \A i \in 0 .. D : LeavesUnder[i] = IF i = 0 THEN 1 ELSE 2 * LeavesUnder[i - 1]
    BY LeavesUnderAre
  <1>3. /\ \A i \in 0 .. D : h[i] \in Nat
        /\ h[0] = size /\ \A i \in Levels : h[i + 1] = h[i] \div 2
    BY OneLevelUp
  <1> HIDE DEF h
  <1>4. \A i \in 0 .. D : LeavesUnder[i] \in Nat
    BY LeavesAreNumbers
  <1>5. 0 \in Good
    BY <1>1, <1>3, <1>4
  <1>6. ASSUME NEW k \in 0 .. D, k < D, k \in Good PROVE k + 1 \in Good
    <2>1. k \in Levels /\ k + 1 \in 0 .. D /\ D - k \in 0 .. D /\ D - k # 0
          /\ (D - k) - 1 = D - (k + 1) /\ D - (k + 1) \in 0 .. D
      BY <1>1, <1>6 DEF Levels
    <2>2. LeavesUnder[D - k] = 2 * LeavesUnder[D - (k + 1)]
      BY <1>2, <2>1
    <2>3. h[k + 1] = h[k] \div 2 /\ h[k] \in Nat /\ LeavesUnder[D - (k + 1)] \in Nat
      BY <1>3, <1>4, <2>1
    <2>4. h[k] < LeavesUnder[D - k]
      BY <1>6
    <2>5. h[k + 1] < LeavesUnder[D - (k + 1)]
      BY <2>2, <2>3, <2>4
    <2>6. QED
      BY <2>1, <2>3, <2>5
  <1>7. 0 .. D \subseteq Good
    <2> HIDE DEF Good, D
    <2>1. QED
      BY <1>1, <1>5, <1>6, IntervalInduction
  <1>8. D \in 0 .. D /\ D - D = 0
    BY <1>1
  <1>9. h[D] < 1 /\ h[D] \in Nat
    BY <1>1, <1>2, <1>3, <1>7, <1>8
  <1>10. QED
    BY <1>9 DEF h

(* Behind the last leaf there are zeros.                                   *)
LEMMA ZerosBehind ==
    ASSUME NEW ids, Len(ids) \in Nat
    PROVE  \A d \in 0 .. TREE_DEPTH : \A j \in Nat :
                j > Halved(Len(ids))[d] => Subtrees(ids)[d][j] = ZeroHashes[d]
  <1> DEFINE n == Len(ids)
             h == Halved(n)
             T == Subtrees(ids)
             Good == {d \in Nat : \A j \in Nat : j > h[d] => T[d][j] = ZeroHashes[d]}
  <1>1. TREE_DEPTH \in Nat \ {0}
    BY TreeAssumption
  <1>2. /\ \A i \in 0 .. TREE_DEPTH : h[i] \in Nat
        /\ h[0] = n /\ \A i \in Levels : h[i + 1] = h[i] \div 2
    BY OneLevelUp
  <1>3. /\ \A j \in Nat : j > n => T[0][j] = ZeroLeaf
        /\ \A i \in 0 .. TREE_DEPTH : i # 0 =>
             \A j \in Nat : T[i][j] = HashConcat(T[i - 1][2 * j], T[i - 1][2 * j + 1])
    <2>1. /\ \A j \in Nat : T[0][j] = IF j < n THEN ids[j + 1] ELSE ZeroLeaf
          /\ \A i \in 0 .. TREE_DEPTH : i # 0 =>
               \A j \in Nat : T[i][j] = HashConcat(T[i - 1][2 * j], T[i - 1][2 * j + 1])
      BY SubtreesAre, Zenon
    <2>2. n \in Nat
      OBVIOUS
    <2> HIDE DEF n, T
    <2>3. ASSUME NEW j \in Nat, j > n PROVE T[0][j] = ZeroLeaf
      <3>1. ~(j < n)
        BY <2>2, <2>3
      <3>2. QED
        BY <2>1, <3>1
    <2>4. QED
      BY <2>1, <2>3
  <1>4. \A i \in 0 .. TREE_DEPTH :
          ZeroHashes[i] = IF i = 0 THEN ZeroLeaf ELSE HashConcat(ZeroHashes[i - 1], ZeroHashes[i - 1])
    BY ZeroHashesAre
  <1> HIDE DEF n, h, T
  <1>5. 0 \in Good
    <2>1. ZeroHashes[0] = ZeroLeaf
      BY <1>1, <1>4
    <2>2. \A j \in Nat : j > h[0] => T[0][j] = ZeroHashes[0]
      BY <1>2, <1>3, <2>1
    <2>3. QED
      BY <2>2
  <1>6. ASSUME NEW k \in 0 .. TREE_DEPTH, k < TREE_DEPTH, k \in Good PROVE k + 1 \in Good
    <2>1. ASSUME NEW j \in Nat, j > h[k + 1] PROVE T[k + 1][j] = ZeroHashes[k + 1]
      <3>1. k \in Levels /\ k + 1 \in 0 .. TREE_DEPTH /\ k + 1 # 0 /\ (k + 1) - 1 = k
        BY <1>1, <1>6 DEF Levels
      <3>2. h[k] \in Nat /\ h[k + 1] = h[k] \div 2
        BY <1>2, <3>1
      <3>3. 2 * j > h[k] /\ 2 * j + 1 > h[k] /\ 2 * j \in Nat /\ 2 * j + 1 \in Nat
        BY <2>1, <3>2
      <3>4. T[k][2 * j] = ZeroHashes[k] /\ T[k][2 * j + 1] = ZeroHashes[k]
        BY <1>6, <3>3
      <3>5. T[k + 1][j] = HashConcat(T[k][2 * j], T[k][2 * j + 1])
        BY <1>3, <3>1
      <3>6. ZeroHashes[k + 1] = HashConcat(ZeroHashes[k], ZeroHashes[k])
        BY <1>4, <3>1
      <3>7. QED
        BY <3>4, <3>5, <3>6
    <2>2. QED
      BY <2>1
  <1>7. 0 .. TREE_DEPTH \subseteq Good
    <2> HIDE DEF Good
    <2>1. QED
      BY <1>1, <1>5, <1>6, IntervalInduction
  <1>8. QED
    BY <1>7 DEF n, h, T

(* One more leaf changes only the nodes above it.                          *)
LEMMA OnlyAboveTheLeaf ==
    ASSUME NEW S, NEW ids \in Seq(S), NEW e \in S
    PROVE  /\ Subtrees(Append(ids, e))[0][Len(ids)] = e
           /\ \A d \in 0 .. TREE_DEPTH : \A j \in Nat :
                j # Halved(Len(ids))[d] => Subtrees(Append(ids, e))[d][j] = Subtrees(ids)[d][j]
  <1> DEFINE n == Len(ids)
             more == Append(ids, e)
             h == Halved(n)
             T == Subtrees(ids)
             U == Subtrees(more)
             Good == {d \in Nat : \A j \in Nat : j # h[d] => U[d][j] = T[d][j]}
  <1>1. TREE_DEPTH \in Nat \ {0}
    BY TreeAssumption
  <1>2. n \in Nat /\ Len(more) = n + 1 /\ more[n + 1] = e /\ \A i \in 1 .. n : more[i] = ids[i]
    OBVIOUS
  <1> HIDE DEF n, more
  <1>3. /\ \A i \in 0 .. TREE_DEPTH : h[i] \in Nat
        /\ h[0] = n /\ \A i \in Levels : h[i + 1] = h[i] \div 2
    BY <1>2, OneLevelUp
  <1>4. /\ \A j \in Nat : T[0][j] = IF j < n THEN ids[j + 1] ELSE ZeroLeaf
        /\ \A i \in 0 .. TREE_DEPTH : i # 0 =>
             \A j \in Nat : T[i][j] = HashConcat(T[i - 1][2 * j], T[i - 1][2 * j + 1])
    BY SubtreesAre DEF n
  <1>5. /\ \A j \in Nat : U[0][j] = IF j < n + 1 THEN more[j + 1] ELSE ZeroLeaf
        /\ \A i \in 0 .. TREE_DEPTH : i # 0 =>
             \A j \in Nat : U[i][j] = HashConcat(U[i - 1][2 * j], U[i - 1][2 * j + 1])
    BY <1>2, SubtreesAre
  <1> HIDE DEF h, T, U
  <1>6. 0 \in Good
    <2>1. ASSUME NEW j \in Nat, j # n PROVE U[0][j] = T[0][j]
      <3>1. CASE j < n
        <4>1. j + 1 \in 1 .. n /\ j < n + 1
          BY <1>2, <3>1
        <4>2. QED
          BY <1>2, <1>4, <1>5, <3>1, <4>1
      <3>2. CASE ~(j < n)
        <4>1. ~(j < n + 1)
          BY <1>2, <2>1, <3>2
        <4>2. QED
          BY <1>4, <1>5, <3>2, <4>1
      <3>3. QED
        BY <3>1, <3>2
    <2>2. QED
      BY <1>3, <2>1
  <1>7. ASSUME NEW k \in 0 .. TREE_DEPTH, k < TREE_DEPTH, k \in Good PROVE k + 1 \in Good
    <2>1. ASSUME NEW j \in Nat, j # h[k + 1] PROVE U[k + 1][j] = T[k + 1][j]
      <3>1. k \in Levels /\ k + 1 \in 0 .. TREE_DEPTH /\ k + 1 # 0 /\ (k + 1) - 1 = k
        BY <1>1, <1>7 DEF Levels
      <3>2. h[k] \in Nat /\ h[k + 1] = h[k] \div 2
        BY <1>3, <3>1
      <3>3. 2 * j # h[k] /\ 2 * j + 1 # h[k] /\ 2 * j \in Nat /\ 2 * j + 1 \in Nat
        BY <2>1, <3>2
      <3>4. U[k][2 * j] = T[k][2 * j] /\ U[k][2 * j + 1] = T[k][2 * j + 1]
        BY <1>7, <3>3
      <3>5. T[k + 1][j] = HashConcat(T[k][2 * j], T[k][2 * j + 1])
        BY <1>4, <3>1
      <3>6. U[k + 1][j] = HashConcat(U[k][2 * j], U[k][2 * j + 1])
        BY <1>5, <3>1
      <3>7. QED
        BY <3>4, <3>5, <3>6
    <2>2. QED
      BY <2>1
  <1>8. 0 .. TREE_DEPTH \subseteq Good
    <2> HIDE DEF Good
    <2>1. QED
      BY <1>1, <1>6, <1>7, IntervalInduction
  <1>9. U[0][n] = e
    BY <1>2, <1>5
  <1>10. QED
    BY <1>8, <1>9 DEF n, h, T, U, more

(* Counting one more: below the lowest 1 bit of the new size the old one   *)
(* has 1 bits, and above it the two agree.                                 *)
LEMMA CountedBelow ==
    ASSUME NEW n \in Nat
    PROVE  \A k \in 0 .. TREE_DEPTH : (\A i \in 0 .. k - 1 : Bit(n + 1, i) = 0) =>
                /\ Halved(n + 1)[k] = Halved(n)[k] + 1
                /\ \A i \in 0 .. k - 1 : Bit(n, i) = 1
  <1> DEFINE h == Halved(n)
             g == Halved(n + 1)
             Zeros(k) == \A i \in 0 .. k - 1 : Bit(n + 1, i) = 0
             Ones(k) == \A i \in 0 .. k - 1 : Bit(n, i) = 1
             Good == {k \in Nat : Zeros(k) => g[k] = h[k] + 1 /\ Ones(k)}
  <1>1. TREE_DEPTH \in Nat \ {0}
    BY TreeAssumption
  <1>2. /\ \A i \in 0 .. TREE_DEPTH : h[i] \in Nat
        /\ h[0] = n
        /\ \A i \in Levels : h[i + 1] = h[i] \div 2 /\ Bit(n, i) = h[i] % 2
    BY OneLevelUp
  <1>3. /\ \A i \in 0 .. TREE_DEPTH : g[i] \in Nat
        /\ g[0] = n + 1
        /\ \A i \in Levels : g[i + 1] = g[i] \div 2 /\ Bit(n + 1, i) = g[i] % 2
    <2>1. n + 1 \in Nat
      OBVIOUS
    <2>2. QED
      BY <2>1, OneLevelUp
  <1> HIDE DEF h, g
  <1>4. 0 \in Good
    BY <1>2, <1>3
  <1>5. ASSUME NEW k \in 0 .. TREE_DEPTH, k < TREE_DEPTH, k \in Good PROVE k + 1 \in Good
    <2>1. SUFFICES ASSUME Zeros(k + 1) PROVE g[k + 1] = h[k + 1] + 1 /\ Ones(k + 1)
      OBVIOUS
    <2>2. k \in Levels /\ \A i \in 0 .. (k + 1) - 1 : i \in 0 .. k - 1 \/ i = k
      BY <1>1, <1>5 DEF Levels
    <2>3. Zeros(k) /\ Bit(n + 1, k) = 0
      BY <1>5, <2>1
    <2>4. g[k] = h[k] + 1 /\ Ones(k)
      BY <1>5, <2>3
    <2>5. h[k] \in Nat /\ h[k + 1] = h[k] \div 2 /\ Bit(n, k) = h[k] % 2
          /\ g[k + 1] = g[k] \div 2 /\ g[k] % 2 = 0
      BY <1>2, <1>3, <2>2, <2>3
    <2>6. Bit(n, k) = 1 /\ g[k + 1] = h[k + 1] + 1
      BY <2>4, <2>5
    <2>7. QED
      BY <2>2, <2>4, <2>6
  <1>6. 0 .. TREE_DEPTH \subseteq Good
    <2> HIDE DEF Good
    <2>1. QED
      BY <1>1, <1>4, <1>5, IntervalInduction
  <1>7. QED
    BY <1>6 DEF h, g

(* Above that bit nothing changes.                                        *)
LEMMA CountedAbove ==
    ASSUME NEW n \in Nat, NEW l \in LowestOne(n + 1)
    PROVE  \A k \in 0 .. TREE_DEPTH : k > l => Halved(n + 1)[k] = Halved(n)[k]
  <1> DEFINE h == Halved(n)
             g == Halved(n + 1)
             Good == {k \in Nat : k > l => g[k] = h[k]}
  <1>1. TREE_DEPTH \in Nat \ {0}
    BY TreeAssumption
  <1>2. l \in Levels /\ l \in 0 .. TREE_DEPTH /\ Bit(n + 1, l) = 1 /\ l \in Nat
        /\ \A i \in 0 .. l - 1 : Bit(n + 1, i) = 0
    BY <1>1 DEF LowestOne, Levels
  <1>3. g[l] = h[l] + 1
    BY <1>2, CountedBelow
  <1>4. \A i \in Levels : h[i + 1] = h[i] \div 2 /\ h[i] \in Nat
    <2>1. \A i \in Levels : i \in 0 .. TREE_DEPTH
      BY <1>1 DEF Levels
    <2>2. QED
      BY <2>1, OneLevelUp
  <1>5. \A i \in Levels : g[i + 1] = g[i] \div 2 /\ Bit(n + 1, i) = g[i] % 2
    <2>1. n + 1 \in Nat
      OBVIOUS
    <2>2. QED
      BY <2>1, OneLevelUp
  <1> HIDE DEF h, g
  <1>6. 0 \in Good
    BY <1>2
  <1>7. ASSUME NEW k \in 0 .. TREE_DEPTH, k < TREE_DEPTH, k \in Good PROVE k + 1 \in Good
    <2>1. k \in Levels
      BY <1>1, <1>7 DEF Levels
    <2>2. h[k + 1] = h[k] \div 2 /\ h[k] \in Nat /\ g[k + 1] = g[k] \div 2
      BY <1>4, <1>5, <2>1
    <2>3. CASE k = l
      <3>1. g[k] = h[k] + 1 /\ g[k] % 2 = 1
        BY <1>2, <1>3, <1>5, <2>1, <2>3
      <3>2. QED
        BY <2>2, <3>1
    <2>4. CASE k # l
      BY <1>2, <1>7, <2>2, <2>4
    <2>5. QED
      BY <2>3, <2>4
  <1>8. 0 .. TREE_DEPTH \subseteq Good
    <2> HIDE DEF Good
    <2>1. QED
      BY <1>1, <1>6, <1>7, IntervalInduction
  <1>9. QED
    BY <1>8 DEF h, g

(* The inductive invariant: at every level that is a 1 bit of the count,   *)
(* the branch has the full subtree left of where the next leaf goes.       *)
BranchOf(branch, ids) ==
    \A i \in Levels : Bit(Len(ids), i) = 1 =>
        branch[i] = Subtrees(ids)[i][Halved(Len(ids))[i] - 1]
(* Below the capacity, every level is right.                              *)
TreeInv ==
    /\ leaves \in Seq(LeafValues)
    /\ Len(leaves) < LeavesUnder[TREE_DEPTH]
    /\ incremental = [branch |-> incremental.branch, count |-> Len(leaves)]
    /\ DOMAIN incremental.branch = Levels
    /\ BranchOf(incremental.branch, leaves)

(* The hashes below the next leaf are its left siblings'.                  *)
LEMMA CarriedIsLeft ==
    ASSUME NEW S, NEW ids \in Seq(S), NEW e \in S, NEW branch, BranchOf(branch, ids)
    PROVE  \A k \in 0 .. TREE_DEPTH : (\A i \in 0 .. k - 1 : Bit(Len(ids), i) = 1) =>
                CarriedNode(branch, e)[k] = Subtrees(Append(ids, e))[k][Halved(Len(ids))[k]]
  <1> DEFINE n == Len(ids)
             h == Halved(n)
             T == Subtrees(ids)
             U == Subtrees(Append(ids, e))
             up == CarriedNode(branch, e)
             Ones(k) == \A i \in 0 .. k - 1 : Bit(n, i) = 1
             Good == {k \in Nat : Ones(k) => up[k] = U[k][h[k]]}
  <1>1. TREE_DEPTH \in Nat \ {0} /\ n \in Nat
    BY TreeAssumption
  <1>2. /\ \A i \in 0 .. TREE_DEPTH : h[i] \in Nat
        /\ h[0] = n
        /\ \A i \in Levels : Bit(n, i) = 1 => h[i] = 2 * h[i + 1] + 1
    BY <1>1, OneLevelUp
  <1>3. \A i \in 0 .. TREE_DEPTH : up[i] = IF i = 0 THEN e ELSE HashConcat(branch[i - 1], up[i - 1])
    BY CarriedAre
  <1>4. \A i \in 0 .. TREE_DEPTH : i # 0 =>
          \A j \in Nat : U[i][j] = HashConcat(U[i - 1][2 * j], U[i - 1][2 * j + 1])
    BY SubtreesAre
  <1>5. /\ U[0][n] = e
        /\ \A d \in 0 .. TREE_DEPTH : \A j \in Nat : j # h[d] => U[d][j] = T[d][j]
    BY OnlyAboveTheLeaf
  <1>6. \A i \in Levels : Bit(n, i) = 1 => branch[i] = T[i][h[i] - 1]
    BY DEF BranchOf
  <1> HIDE DEF n, h, T, U, up
  <1>7. 0 \in Good
    BY <1>1, <1>2, <1>3, <1>5
  <1>8. ASSUME NEW k \in 0 .. TREE_DEPTH, k < TREE_DEPTH, k \in Good PROVE k + 1 \in Good
    <2>1. SUFFICES ASSUME Ones(k + 1) PROVE up[k + 1] = U[k + 1][h[k + 1]]
      OBVIOUS
    <2>2. k \in Levels /\ k + 1 \in 0 .. TREE_DEPTH /\ k + 1 # 0 /\ (k + 1) - 1 = k
      BY <1>1, <1>8 DEF Levels
    <2>3. Ones(k) /\ Bit(n, k) = 1
      BY <1>8, <2>1
    <2>4. PICK q \in Nat : q = h[k + 1] /\ h[k] = 2 * q + 1
      BY <1>2, <2>2, <2>3
    <2>5. branch[k] = T[k][2 * q]
      <3>1. branch[k] = T[k][h[k] - 1]
        BY <1>6, <2>2, <2>3
      <3>2. h[k] - 1 = 2 * q
        BY <2>4
      <3>3. QED
        BY <3>1, <3>2
    <2>6. T[k][2 * q] = U[k][2 * q]
      BY <1>5, <2>2, <2>4
    <2>7. up[k] = U[k][2 * q + 1]
      BY <1>8, <2>3, <2>4
    <2>8. up[k + 1] = HashConcat(branch[k], up[k])
      BY <1>3, <2>2
    <2>9. U[k + 1][q] = HashConcat(U[k][2 * q], U[k][2 * q + 1])
      BY <1>4, <2>2
    <2>10. QED
      BY <2>4, <2>5, <2>6, <2>7, <2>8, <2>9
  <1>9. 0 .. TREE_DEPTH \subseteq Good
    <2> HIDE DEF Good
    <2>1. QED
      BY <1>1, <1>7, <1>8, IntervalInduction
  <1>10. QED
    BY <1>9 DEF n, h, T, U, up

(* An empty tree has no 1 bits.                                           *)
LEMMA TreeInit ==
    ASSUME Init_Incremental
    PROVE  TreeInv
  <1>1. TREE_DEPTH \in Nat \ {0}
    BY TreeAssumption
  <1>2. leaves = << >> /\ Len(leaves) = 0 /\ leaves \in Seq(LeafValues)
    BY DEF Init_Incremental
  <1>3. incremental = [branch |-> incremental.branch, count |-> 0] /\ DOMAIN incremental.branch = Levels
    BY DEF Init_Incremental, EmptyIncremental, Levels
  <1>4. LeavesUnder[TREE_DEPTH] > 0
    BY <1>1, LeavesAreNumbers
  <1>5. \A i \in Levels : Bit(0, i) = 0
    <2> DEFINE h == Halved(0)
               Zero == {i \in Nat : h[i] = 0}
    <2>1. h[0] = 0 /\ \A i \in Levels : h[i + 1] = h[i] \div 2 /\ Bit(0, i) = h[i] % 2
      BY OneLevelUp
    <2> HIDE DEF h
    <2>2. 0 \in Zero
      BY <2>1
    <2>3. ASSUME NEW k \in 0 .. TREE_DEPTH, k < TREE_DEPTH, k \in Zero PROVE k + 1 \in Zero
      <3>1. k \in Levels
        BY <1>1, <2>3 DEF Levels
      <3>2. h[k + 1] = h[k] \div 2 /\ h[k] = 0
        BY <2>1, <2>3, <3>1
      <3>3. QED
        BY <3>2
    <2>4. 0 .. TREE_DEPTH \subseteq Zero
      <3> HIDE DEF Zero
      <3>1. QED
        BY <1>1, <2>2, <2>3, IntervalInduction
    <2>5. \A i \in Levels : h[i] = 0
      BY <1>1, <2>4 DEF Levels
    <2>6. QED
      BY <2>1, <2>5
  <1>6. BranchOf(incremental.branch, leaves)
    BY <1>2, <1>5 DEF BranchOf
  <1>7. QED
    BY <1>2, <1>3, <1>4, <1>6 DEF TreeInv

(* ingest() writes the one level whose subtree is full now.                *)
LEMMA IngestKeepsBranch ==
    ASSUME NEW S, NEW ids \in Seq(S), NEW e \in S, NEW t, t.count = Len(ids),
           DOMAIN t.branch = Levels, BranchOf(t.branch, ids)
    PROVE  BranchOf(IngestIncremental(t, e).branch, Append(ids, e))
  <1> DEFINE n == Len(ids)
             h == Halved(n)
             g == Halved(n + 1)
             T == Subtrees(ids)
             U == Subtrees(Append(ids, e))
             up == CarriedNode(t.branch, e)
             b == IngestIncremental(t, e).branch
  <1>1. TREE_DEPTH \in Nat \ {0} /\ n \in Nat /\ Len(Append(ids, e)) = n + 1
    BY TreeAssumption
  <1>2. b = [i \in Levels |-> IF i \in LowestOne(n + 1) THEN up[i] ELSE t.branch[i]]
    BY DEF IngestIncremental
  <1>3. SUFFICES ASSUME NEW i \in Levels, Bit(n + 1, i) = 1 PROVE b[i] = U[i][g[i] - 1]
    BY <1>1 DEF BranchOf
  <1>4. i \in 0 .. TREE_DEPTH /\ i \in Nat
    BY <1>1 DEF Levels
  <1>5. \A k \in Levels : Bit(n + 1, k) = 1 \/ Bit(n + 1, k) = 0
    <2>1. n + 1 \in Nat
      BY <1>1
    <2>2. QED
      BY <2>1, OneLevelUp
  <1>6. PICK l \in LowestOne(n + 1) : l <= i
    <2> DEFINE OnesOf == {k \in Levels : Bit(n + 1, k) = 1}
    <2>1. i \in OnesOf
      BY <1>3
    <2>2. OnesOf \in SUBSET Nat /\ OnesOf # {}
      BY <2>1 DEF Levels
    <2>3. PICK l \in OnesOf : \A k \in OnesOf : l <= k
      <3> HIDE DEF OnesOf
      <3>1. QED
        BY <2>2, SmallestOf
    <2>4. ASSUME NEW k \in 0 .. l - 1 PROVE Bit(n + 1, k) = 0
      <3>1. k \in Levels /\ ~(l <= k)
        BY <1>1, <2>3 DEF Levels
      <3>2. k \notin OnesOf
        BY <2>3, <3>1
      <3>3. QED
        BY <1>5, <3>1, <3>2
    <2>5. l \in LowestOne(n + 1)
      BY <2>3, <2>4 DEF LowestOne, Levels
    <2>6. l <= i
      BY <2>1, <2>3
    <2>7. QED
      BY <2>5, <2>6
  <1>7. /\ \A d \in 0 .. TREE_DEPTH : \A j \in Nat : j # h[d] => U[d][j] = T[d][j]
    BY OnlyAboveTheLeaf
  <1>8. \A k \in 0 .. TREE_DEPTH : h[k] \in Nat
    BY <1>1, OneLevelUp
  <1>9. CASE l = i
    <2>1. \A k \in 0 .. i - 1 : Bit(n + 1, k) = 0
      BY <1>6, <1>9 DEF LowestOne
    <2>2. g[i] = h[i] + 1 /\ \A k \in 0 .. i - 1 : Bit(n, k) = 1
      BY <1>1, <1>4, <2>1, CountedBelow
    <2>3. up[i] = U[i][h[i]]
      BY <1>4, <2>2, CarriedIsLeft
    <2>4. b[i] = up[i]
      BY <1>2, <1>6, <1>9
    <2>5. g[i] - 1 = h[i]
      BY <1>4, <1>8, <2>2
    <2>6. QED
      BY <2>3, <2>4, <2>5
  <1>10. CASE l # i
    <2>1. i > l /\ l \in 0 .. i - 1 /\ Bit(n + 1, l) = 1
      BY <1>4, <1>6, <1>10 DEF LowestOne
    <2>2. i \notin LowestOne(n + 1)
      BY <2>1 DEF LowestOne
    <2>3. g[i] = h[i]
      BY <1>1, <1>4, <1>6, <2>1, CountedAbove
    <2>4. Bit(n, i) = 1
      BY <1>3, <2>3 DEF Bit
    <2>5. b[i] = t.branch[i] /\ t.branch[i] = T[i][h[i] - 1]
      BY <1>2, <2>2, <2>4 DEF BranchOf
    <2>6. h[i] - 1 \in Nat /\ h[i] - 1 # h[i]
      <3>1. \A k \in Levels : Bit(n, k) = 1 => h[k] = 2 * h[k + 1] + 1
        BY <1>1, OneLevelUp
      <3>2. i + 1 \in 0 .. TREE_DEPTH
        BY <1>1 DEF Levels
      <3>3. h[i] = 2 * h[i + 1] + 1 /\ h[i + 1] \in Nat
        BY <1>3, <1>8, <2>4, <3>1, <3>2
      <3> HIDE DEF h
      <3>4. QED
        BY <3>3
    <2>7. T[i][h[i] - 1] = U[i][h[i] - 1]
      BY <1>4, <1>7, <2>6
    <2>8. QED
      BY <2>3, <2>5, <2>7
  <1>11. QED
    BY <1>9, <1>10

(* Every step keeps the invariant.                                        *)
LEMMA TreeStep ==
    ASSUME TreeInv, [Next_Incremental]_incrementalVars
    PROVE  TreeInv'
  <1>1. CASE UNCHANGED incrementalVars
    BY <1>1 DEF TreeInv, incrementalVars
  <1>2. ASSUME NEW id \in LeafValues, IngestLeaf(id)
        PROVE  TreeInv'
    <2> DEFINE t == IngestIncremental(incremental, id)
    <2>1. /\ leaves' = Append(leaves, id) /\ incremental' = t
          /\ incremental.count < LeavesUnder[TREE_DEPTH] - 1
      BY <1>2 DEF IngestLeaf, HasRoom
    <2>2. /\ leaves \in Seq(LeafValues) /\ incremental.count = Len(leaves)
          /\ DOMAIN incremental.branch = Levels /\ BranchOf(incremental.branch, leaves)
      BY DEF TreeInv
    <2>3. BranchOf(t.branch, Append(leaves, id))
      BY <2>2, IngestKeepsBranch
    <2>4. t = [branch |-> t.branch, count |-> Len(leaves) + 1] /\ DOMAIN t.branch = Levels
      BY <2>2 DEF IngestIncremental
    <2>5. Append(leaves, id) \in Seq(LeafValues) /\ Len(Append(leaves, id)) = Len(leaves) + 1
      BY <2>2
    <2>6. Len(leaves) + 1 < LeavesUnder[TREE_DEPTH]
      <3>1. LeavesUnder[TREE_DEPTH] \in Nat
        BY LeavesAreNumbers, TreeAssumption
      <3>2. QED
        BY <2>1, <2>2, <3>1
    <2>7. QED
      <3> HIDE DEF t
      <3>1. QED
        BY <2>1, <2>3, <2>4, <2>5, <2>6 DEF TreeInv
  <1>3. QED
    BY <1>1, <1>2 DEF Next_Incremental

(* The hashes on the way up from the first free leaf are those of the      *)
(* nodes above it.                                                         *)
LEMMA RootIsReference ==
    ASSUME TreeInv
    PROVE  IncrementalRootExact
  <1> DEFINE n == Len(leaves)
             h == Halved(n)
             T == Subtrees(leaves)
             branch == incremental.branch
             up == HashesUp(n, ZeroLeaf, branch, ZeroHashes)
             Good == {k \in Nat : up[k] = T[k][h[k]]}
  <1>1. TREE_DEPTH \in Nat \ {0} /\ n \in Nat
    BY TreeAssumption DEF TreeInv
  <1>2. /\ \A i \in 0 .. TREE_DEPTH : h[i] \in Nat
        /\ h[0] = n
        /\ \A i \in Levels :
             /\ Bit(n, i) = 1 => h[i] = 2 * h[i + 1] + 1
             /\ Bit(n, i) # 1 => h[i] = 2 * h[i + 1]
    BY <1>1, OneLevelUp
  <1>3. \A i \in 0 .. TREE_DEPTH :
          up[i] = IF i = 0 THEN ZeroLeaf
                    ELSE IF Bit(n, i - 1) = 1 THEN HashConcat(branch[i - 1], up[i - 1])
                    ELSE HashConcat(up[i - 1], ZeroHashes[i - 1])
    BY HashesUpAre
  <1>4. /\ \A j \in Nat : T[0][j] = IF j < n THEN leaves[j + 1] ELSE ZeroLeaf
        /\ \A i \in 0 .. TREE_DEPTH : i # 0 =>
             \A j \in Nat : T[i][j] = HashConcat(T[i - 1][2 * j], T[i - 1][2 * j + 1])
    BY SubtreesAre
  <1>5. \A d \in 0 .. TREE_DEPTH : \A j \in Nat : j > h[d] => T[d][j] = ZeroHashes[d]
    BY <1>1, ZerosBehind
  <1>6. \A i \in Levels : Bit(n, i) = 1 => branch[i] = T[i][h[i] - 1]
    BY DEF TreeInv, BranchOf
  <1>7. h[TREE_DEPTH] = 0
    BY <1>1, NoneAtTheRoot DEF TreeInv
  <1>8. IncrementalRoot(incremental) = up[TREE_DEPTH] /\ ReferenceRoot(leaves) = T[TREE_DEPTH][0]
    <2>1. incremental.count = n
      BY DEF TreeInv
    <2>2. QED
      BY <2>1 DEF IncrementalRoot, ReferenceRoot
  <1> HIDE DEF n, h, T, branch, up
  <1>9. 0 \in Good
    BY <1>1, <1>2, <1>3, <1>4
  <1>10. ASSUME NEW k \in 0 .. TREE_DEPTH, k < TREE_DEPTH, k \in Good PROVE k + 1 \in Good
    <2>1. k \in Levels /\ k + 1 \in 0 .. TREE_DEPTH /\ k + 1 # 0 /\ (k + 1) - 1 = k
      BY <1>1, <1>10 DEF Levels
    <2>2. PICK q \in Nat : q = h[k + 1]
      BY <1>2, <2>1
    <2>3. T[k + 1][q] = HashConcat(T[k][2 * q], T[k][2 * q + 1])
      BY <1>4, <2>1
    <2>4. up[k] = T[k][h[k]]
      BY <1>10
    <2>5. CASE Bit(n, k) = 1
      <3>1. h[k] = 2 * q + 1 /\ h[k] - 1 = 2 * q
        BY <1>2, <2>1, <2>2, <2>5
      <3>2. branch[k] = T[k][2 * q]
        BY <1>6, <2>1, <2>5, <3>1
      <3>3. up[k + 1] = HashConcat(branch[k], up[k])
        BY <1>3, <2>1, <2>5
      <3>4. QED
        BY <2>2, <2>3, <2>4, <3>1, <3>2, <3>3
    <2>6. CASE Bit(n, k) # 1
      <3>1. h[k] = 2 * q
        BY <1>2, <2>1, <2>2, <2>6
      <3>2. T[k][2 * q + 1] = ZeroHashes[k]
        BY <1>5, <2>1, <2>2, <3>1
      <3>3. up[k + 1] = HashConcat(up[k], ZeroHashes[k])
        BY <1>3, <2>1, <2>6
      <3>4. QED
        BY <2>2, <2>3, <2>4, <3>1, <3>2, <3>3
    <2>7. QED
      BY <2>5, <2>6
  <1>11. 0 .. TREE_DEPTH \subseteq Good
    <2> HIDE DEF Good
    <2>1. QED
      BY <1>1, <1>9, <1>10, IntervalInduction
  <1>12. up[TREE_DEPTH] = T[TREE_DEPTH][0]
    BY <1>1, <1>7, <1>11
  <1>13. QED
    BY <1>8, <1>12 DEF IncrementalRootExact

(* Up the tree beside its siblings, a leaf leads to the root.              *)
LEMMA SiblingsLeadUp ==
    ASSUME NEW ids, Len(ids) \in Nat, Len(ids) < LeavesUnder[TREE_DEPTH],
           NEW index \in 0 .. Len(ids) - 1
    PROVE  LET proof == SiblingProof(ids, index)
           IN  RootFromBranch(proof.leaf, proof.path, proof.index) = ReferenceRoot(ids)
  <1> DEFINE h == Halved(index)
             T == Subtrees(ids)
             path == [i \in 0 .. TREE_DEPTH - 1 |-> T[i][Sibling(h[i])]]
             up == HashesUp(index, ids[index + 1], path, path)
             Good == {k \in Nat : up[k] = T[k][h[k]]}
  <1>1. TREE_DEPTH \in Nat \ {0} /\ index \in Nat /\ index < Len(ids)
    BY TreeAssumption
  <1>2. /\ \A i \in 0 .. TREE_DEPTH : h[i] \in Nat
        /\ h[0] = index
        /\ \A i \in Levels :
             /\ Bit(index, i) = h[i] % 2
             /\ Bit(index, i) = 1 => h[i] = 2 * h[i + 1] + 1
             /\ Bit(index, i) # 1 => h[i] = 2 * h[i + 1]
    BY <1>1, OneLevelUp
  <1> HIDE DEF path
  <1>3. \A i \in 0 .. TREE_DEPTH :
          up[i] = IF i = 0 THEN ids[index + 1]
                    ELSE IF Bit(index, i - 1) = 1 THEN HashConcat(path[i - 1], up[i - 1])
                    ELSE HashConcat(up[i - 1], path[i - 1])
    BY HashesUpAre
  <1>4. /\ \A j \in Nat : T[0][j] = IF j < Len(ids) THEN ids[j + 1] ELSE ZeroLeaf
        /\ \A i \in 0 .. TREE_DEPTH : i # 0 =>
             \A j \in Nat : T[i][j] = HashConcat(T[i - 1][2 * j], T[i - 1][2 * j + 1])
    BY SubtreesAre
  <1>5. h[TREE_DEPTH] = 0
    <2>1. LeavesUnder[TREE_DEPTH] \in Nat
      BY <1>1, LeavesAreNumbers
    <2>2. index < LeavesUnder[TREE_DEPTH]
      BY <1>1, <2>1
    <2>3. QED
      BY <1>1, <2>2, NoneAtTheRoot
  <1>6. \A i \in Levels : path[i] = T[i][IF h[i] % 2 = 1 THEN h[i] - 1 ELSE h[i] + 1]
    BY DEF Levels, Sibling, path
  <1>7. LET proof == SiblingProof(ids, index)
        IN  RootFromBranch(proof.leaf, proof.path, proof.index) = up[TREE_DEPTH]
    BY DEF SiblingProof, RootFromBranch, path
  <1> HIDE DEF h, T, up
  <1>8. 0 \in Good
    <2>1. up[0] = ids[index + 1]
      BY <1>1, <1>3
    <2>2. T[0][h[0]] = ids[index + 1]
      BY <1>1, <1>2, <1>4
    <2>3. QED
      BY <2>1, <2>2
  <1>9. ASSUME NEW k \in 0 .. TREE_DEPTH, k < TREE_DEPTH, k \in Good PROVE k + 1 \in Good
    <2>1. k \in Levels /\ k + 1 \in 0 .. TREE_DEPTH /\ k + 1 # 0 /\ (k + 1) - 1 = k
      BY <1>1, <1>9 DEF Levels
    <2>2. PICK q \in Nat : q = h[k + 1]
      BY <1>2, <2>1
    <2>3. T[k + 1][q] = HashConcat(T[k][2 * q], T[k][2 * q + 1])
      BY <1>4, <2>1
    <2>4. up[k] = T[k][h[k]]
      BY <1>9
    <2>5. CASE Bit(index, k) = 1
      <3>1. h[k] = 2 * q + 1 /\ h[k] - 1 = 2 * q /\ h[k] % 2 = 1
        BY <1>2, <2>1, <2>2, <2>5
      <3>2. path[k] = T[k][2 * q]
        BY <1>6, <2>1, <3>1
      <3>3. up[k + 1] = HashConcat(path[k], up[k])
        BY <1>3, <2>1, <2>5
      <3>4. QED
        BY <2>2, <2>3, <2>4, <3>1, <3>2, <3>3
    <2>6. CASE Bit(index, k) # 1
      <3>1. h[k] = 2 * q /\ h[k] + 1 = 2 * q + 1 /\ h[k] % 2 # 1
        BY <1>2, <2>1, <2>2, <2>6
      <3>2. path[k] = T[k][2 * q + 1]
        BY <1>6, <2>1, <3>1
      <3>3. up[k + 1] = HashConcat(up[k], path[k])
        BY <1>3, <2>1, <2>6
      <3>4. QED
        BY <2>2, <2>3, <2>4, <3>1, <3>2, <3>3
    <2>7. QED
      BY <2>5, <2>6
  <1>10. 0 .. TREE_DEPTH \subseteq Good
    <2> HIDE DEF Good
    <2>1. QED
      BY <1>1, <1>8, <1>9, IntervalInduction
  <1>11. up[TREE_DEPTH] = T[TREE_DEPTH][0]
    BY <1>1, <1>5, <1>10
  <1>12. QED
    BY <1>7, <1>11 DEF ReferenceRoot, T

(* The incremental tree of any depth, given any ids, has the root of the   *)
(* complete binary tree over them and accepts the proof of each of them,   *)
(* as long as the assertion keeps the last leaf free (ingest, root,        *)
(* verify of IncrementalMerkle).                                           *)
THEOREM IncrementalTreeExact == IncrementalSpec => []IncrementalTreeSound
  <1>1. Init_Incremental => TreeInv
    BY TreeInit
  <1>2. TreeInv /\ [Next_Incremental]_incrementalVars => TreeInv'
    BY TreeStep
  <1>3. TreeInv => IncrementalTreeSound
    <2>1. SUFFICES ASSUME TreeInv PROVE IncrementalTreeSound
      OBVIOUS
    <2>2. IncrementalRootExact
      BY <2>1, RootIsReference
    <2>3. Len(leaves) \in Nat /\ Len(leaves) < LeavesUnder[TREE_DEPTH]
      BY <2>1 DEF TreeInv
    <2>4. ProofsAccepted
      BY <2>2, <2>3, SiblingsLeadUp DEF ProofsAccepted, VerifyIncremental, IncrementalRootExact
    <2>5. QED
      BY <2>2, <2>4 DEF IncrementalTreeSound
  <1>4. QED
    BY <1>1, <1>2, <1>3, PTL DEF IncrementalSpec
=============================================================================
