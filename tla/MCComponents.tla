---------------------------- MODULE MCComponents ----------------------------
(***************************************************************************)
(* Components that share no state: programs of the Sealevel chains, the    *)
(* client that deploys them, and parts of the agents.  A behaviour of this *)
(* instance runs one of them, chosen at the start, so that their state     *)
(* spaces add up instead of multiplying.                                   *)
(***************************************************************************)
EXTENDS SealevelPrograms, SealevelDeploy, SealevelCore, SealevelAccounts,
        ChainAdapters, MerkleAccumulators, AgentSettings,
        MultisigMetadata, FallbackProvider, TLC

CONSTANTS v1, v2, f1, w1, i1

-----------------------------------------------------------------------------
(* Mailbox, gas paymaster and announcements                                *)

\* A body is represented by its length.
MCBodyBytes(b) == b
MCDomains == {1, 2}
MCMaxDispatched == <<0, 2>>
MCDeployedConfig == <<<<v1, f1>>, 2>>

\* A sound quorum, and the two kinds of configuration Validate turns down.
MCConfigs == {<<<<v1, f1>>, 2>>, <<<<f1, f1>>, 2>>, <<<<v1, f1>>, 0>>}

MCRent(n) == 2 + 3 * n

\* A price that is rounded down.
MCOracles == {[token_exchange_rate |-> 3, gas_price |-> 5, token_decimals |-> 1]}
-----------------------------------------------------------------------------
(* The client                                                              *)

App_(type, ism, igp, owner) ==
    [foreign |-> <<>>, type |-> type, ism |-> ism, igp |-> igp, owner |-> owner]
Evm(id) == [foreign |-> <<id>>, type |-> "native", ism |-> <<>>, igp |-> <<>>, owner |-> <<>>]

\* A first deployment; one with another ISM, an IGP and one chain less; one
\* that hands a program over and deploys to a chain that was foreign before.
MCWarp == {
    (1 :> App_("synthetic", <<>>, <<>>, <<>>)) @@ (2 :> App_("native", <<"i1">>, <<>>, <<>>))
        @@ (3 :> Evm(<<"e3", 3>>)),
    (1 :> App_("synthetic", <<"i1">>, <<"g1">>, <<>>)) @@ (3 :> Evm(<<"e4", 3>>)),
    (1 :> App_("synthetic", <<>>, <<"g1">>, <<"other">>))
        @@ (3 :> App_("collateral", <<>>, <<>>, <<>>))}

MCHello == {
    (1 :> App_("helloworld", <<>>, <<>>, <<>>))
        @@ (2 :> App_("helloworld", <<"i1">>, <<"g1">>, <<>>)),
    (1 :> App_("helloworld", <<"i1">>, <<>>, <<"other">>)) @@ (3 :> Evm(<<"e3", 3>>))}

MCApplications == {MCWarp, MCHello}

MCGasDefault(type) == CASE type = "synthetic" -> 64 [] type = "native" -> 44 [] OTHER -> 68

\* A file that also names the local domain, and one that removes a domain.
MCOracleFiles == {(1 :> <<1>>) @@ (2 :> <<1>>), (2 :> <<>>)}
MCOverheadFiles == {Empty, (1 :> <<1>>) @@ (3 :> <<1>>)}

Multisig(validators, threshold) == [validators |-> validators, threshold |-> threshold]

\* Two validators, the same two in another order, and a threshold that
\* ValidatorsAndThreshold::validate turns down.
MCIsmFiles == {
    (2 :> Multisig(<<"a", "b">>, 1)) @@ (3 :> Multisig(<<"a">>, 1)),
    (2 :> Multisig(<<"b", "a">>, 1)) @@ (3 :> Multisig(<<"b">>, 1)),
    (2 :> Multisig(<<"a">>, 2))}
-----------------------------------------------------------------------------
(* The chain adapters: a message of another contract, a transaction that   *)
(* failed and an event that does not parse.                                *)

MCCountAt == [h \in 0 .. AdapterHeight |-> h]
MCAdapterOps == DOMAIN Scripts \cup IndexOps
ChainEvent(k, c, p, n) == [kind |-> k, contract |-> c, parses |-> p, nonce |-> n]
ChainTx(h, failed, events) == [height |-> h, failed |-> failed, events |-> events]
MCChainTxs ==
    << ChainTx(1, FALSE, <<ChainEvent("message", "ours", TRUE, 0),
                           ChainEvent("message", "other", TRUE, 7)>>),
       ChainTx(1, TRUE, <<ChainEvent("insertion", "ours", TRUE, 1)>>),
       ChainTx(2, FALSE, <<ChainEvent("payment", "ours", FALSE, 9),
                           ChainEvent("insertion", "ours", TRUE, 1)>>),
       ChainTx(2, FALSE, <<ChainEvent("payment", "ours", TRUE, 2)>>) >>

\* An id may be the hash of an empty leaf.
MCLeafValues == {<<"zero">>, <<"a">>}
-----------------------------------------------------------------------------
(* Settings: one that is good, and its variants                            *)

GoodChain ==
    [name |-> "same", id |-> "domainId", protocol |-> "ethereum", urls |-> "ok",
     custom |-> "absent", addresses |-> "ok", signer |-> "absent", reorg |-> "absent",
     consensus |-> "absent", cosmos |-> "ok"]
NotGiven == [kind |-> "absent"]
NotJson == [kind |-> "notjson"]
ListOf(items) == [kind |-> "list", items |-> items]
FilterRule(o, s, d, r) == [origin |-> o, sender |-> s, destination |-> d, recipient |-> r]
RuleLists ==
    {NotGiven, NotJson, [kind |-> "badrule"], ListOf(<<>>),
     ListOf(<<FilterRule(AnyOf, AnyOf, {"b"}, AnyOf)>>),
     ListOf(<<FilterRule({"a"}, {"x"}, AnyOf, AnyOf), FilterRule(AnyOf, AnyOf, AnyOf, {"y"})>>)}
RawPolicies ==
    [type : {"absent", "minimum", "none", "onChainFeeQuoting", "other"}, minimum : BOOLEAN,
     payment : {"absent", "ok", "bad"}, fraction : {"absent", "ok", "bad"}, list : {NotGiven}]
Named(set) == [given |-> TRUE, set |-> set]
BaseConfig ==
    [agent |-> "relayer", names |-> Named({"a", "b"}),
     chains |-> [n \in {"a", "b", "c"} |-> GoodChain], signer |-> "ok", consensus |-> "absent",
     policies |-> NotGiven, whitelist |-> NotGiven, blacklist |-> NotGiven, limit |-> "absent",
     skip |-> {}, validator |-> "ok", syncer |-> "localStorage", db |-> "ok"]
ChainVariants ==
    {[GoodChain EXCEPT !.name = x] : x \in {"same", "other", "absent"}} \cup
    {[GoodChain EXCEPT !.id = x] : x \in {"domainId", "chainId", "bad", "mismatch"}} \cup
    {[GoodChain EXCEPT !.protocol = p, !.urls = u, !.custom = c, !.cosmos = g] :
        p \in {"ethereum", "sealevel", "fuel", "cosmos", "bad"},
        u \in {"ok", "empty", "bad", "absent"}, c \in {"absent", "ok", "bad"},
        g \in {"ok", "missing", "nogas"}} \cup
    {[GoodChain EXCEPT !.signer = s, !.reorg = r, !.consensus = c, !.addresses = a] :
        s \in {"absent", "ok", "bad"}, r \in {"absent", "ok", "bad"},
        c \in {"absent", "single", "quorum", "bad"}, a \in {"ok", "bad"}}
MCRawConfigs ==
    {[BaseConfig EXCEPT !.whitelist = w, !.blacklist = b, !.limit = l, !.skip = s] :
        w \in RuleLists, b \in RuleLists, l \in {"absent", "ok", "bad"},
        s \in SUBSET {"b", "c"}} \cup
    {[BaseConfig EXCEPT !.policies = NotJson]} \cup
    {[BaseConfig EXCEPT !.policies = ListOf(<<p>>)] : p \in RawPolicies} \cup
    {[BaseConfig EXCEPT !.agent = ag, !.chains["b"] = c, !.names = n, !.signer = s] :
        ag \in {"relayer", "validator", "scraper"}, c \in ChainVariants,
        s \in {"absent", "ok"}, n \in {Named({"b"}), Named({"a"})}} \cup
    {[BaseConfig EXCEPT !.agent = ag, !.names = n, !.validator = v, !.syncer = y, !.db = d] :
        ag \in {"apiserver", "validator", "scraper"}, v \in {"absent", "ok", "bad"},
        n \in {[given |-> FALSE, set |-> {"a"}], Named({"a"}), Named({"z"})},
        y \in {"localStorage", "s3", "absent"}, d \in {"ok", "absent"}}
MCConfigMessages ==
    [origin : {"a", "b"}, sender : {"x", "z"}, destination : {"a", "b", "c"},
     recipient : {"y", "z"}]
-----------------------------------------------------------------------------
(* Of three validators one is faulty; one honest validator announced a     *)
(* location that cannot be used after the one it writes to.                *)
MCValidatorSet == <<v1, f1, v2>>
MCAnnouncements ==
    (v1 :> <<"s3", "junk">>) @@ (v2 :> <<"s3", "file">>) @@ (f1 :> <<"s3">>)

(* An aggregation of modules that loop, cannot be built, cost more or less *)
(* or route to a multisig module.                                          *)
MCIsm ==
    [rt |-> [type |-> "routing", route |-> "mi"],
     mi |-> [type |-> "messageIdMultisig"],
     mr |-> [type |-> "merkleRootMultisig"],
     nu |-> [type |-> "null"],
     n2 |-> [type |-> "null"],
     un |-> [type |-> "unused"],
     cc |-> [type |-> "ccipRead"],
     lp |-> [type |-> "routing", route |-> "lp"],
     ag |-> [type |-> "aggregation", modules |-> <<"lp", "nu", "rt", "un", "n2">>, threshold |-> 2]]
MCGas == [rt |-> 2, mi |-> 2, mr |-> 3, nu |-> 9, n2 |-> 3, un |-> 1, cc |-> 2, lp |-> 1, ag |-> 9]
MCAnswers ==
    {<<>>, <<"badJson", "genuine">>, <<"unreachable", "genuine">>, <<"bogus">>,
     <<"badHex", "genuine">>, <<"short", "genuine">>}
-----------------------------------------------------------------------------
VARIABLE component  \* the component this behaviour runs

componentVars ==
    <<vars, igpVars, announceVars, deployVars, coreVars, instruction,
      adapterVars, treeVars, settingsVars, metadataVars, providerVars, component>>

ComponentsInit ==
    /\ component \in {"mailbox", "igp", "announce", "routers", "core", "accounts",
                      "adapters", "trees", "settings", "metadata", "rpc"}
    /\ Init /\ IgpInit /\ AnnounceInit /\ DeployInit /\ CoreInit /\ AccountsInit
    /\ Init_Adapters /\ Init_Trees /\ Init_Settings /\ Init_Metadata
    /\ Init_Providers
    /\ component # "routers" => configs = MCHello
    /\ component # "settings" => raw = BaseConfig
    /\ component # "metadata" => root = "mr"
    /\ component # "rpc" => connection = "Http"

(* The components that do not run stay as they are. *)
Others ==
    /\ UNCHANGED component
    /\ IF component = "mailbox" THEN TRUE ELSE UNCHANGED vars
    /\ IF component = "igp" THEN TRUE ELSE UNCHANGED igpVars
    /\ IF component = "announce" THEN TRUE ELSE UNCHANGED announceVars
    /\ IF component = "routers" THEN TRUE ELSE UNCHANGED deployVars
    /\ IF component = "core" THEN TRUE ELSE UNCHANGED coreVars
    /\ IF component = "accounts" THEN TRUE ELSE UNCHANGED instruction
    /\ IF component = "adapters" THEN TRUE ELSE UNCHANGED adapterVars
    /\ IF component = "trees" THEN TRUE ELSE UNCHANGED treeVars
    /\ IF component = "settings" THEN TRUE ELSE UNCHANGED settingsVars
    /\ IF component = "metadata" THEN TRUE ELSE UNCHANGED metadataVars
    /\ IF component = "rpc" THEN TRUE ELSE UNCHANGED providerVars

ComponentsNext ==
    \/ component = "mailbox" /\ Next /\ Others
    \/ component = "igp" /\ IgpNext /\ Others
    \/ component = "announce" /\ AnnounceNext /\ Others
    \/ component = "routers" /\ DeployNext /\ Others
    \/ component = "core" /\ CoreNext /\ Others
    \/ component = "accounts" /\ AccountsNext /\ Others
    \/ component = "adapters" /\ Next_Adapters /\ Others
    \/ component = "trees" /\ Next_Trees /\ Others
    \/ component = "settings" /\ Next_Settings /\ Others
    \/ component = "metadata" /\ Next_Metadata /\ Others
    \/ component = "rpc" /\ Next_Providers /\ Others

ComponentsSpec == ComponentsInit /\ [][ComponentsNext]_componentVars
=============================================================================
