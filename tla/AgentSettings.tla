---------------------------- MODULE AgentSettings ----------------------------
(***************************************************************************)
(* From a configuration to a running agent: what the parsers accept, reject *)
(* or silently replace by a default, how the relayer wires its contexts,    *)
(* channels and filters from the result, and what that does to a message.   *)
(* A raw field is absent, ok or bad (wrong type or not parsable); a chain's *)
(* name stands for its domain.                                              *)
(***************************************************************************)
EXTENDS Naturals, Sequences, FiniteSets, SequencesExt

CONSTANTS RawConfigs,      \* the configurations that are tried
          ConfigMessages   \* messages: origin, sender, destination, recipient

\* A list is not given, not JSON, has a bad rule or is a list of rules; the validator has
\* one originChainName.
ASSUME RawAssumption ==
    \A cfg \in RawConfigs :
        /\ {cfg.whitelist.kind, cfg.blacklist.kind} \subseteq {"absent", "notjson", "badrule", "list"}
        /\ cfg.agent = "validator" => \E n \in cfg.names.set : cfg.names.set = {n}

VARIABLES raw,      \* the configuration
          agentState, \* the agent: configured, running, or why it stopped
          outcome  \* what the message processor did with the last message

settingsVars == <<raw, agentState, outcome>>

\* The wildcard filter; other filters are sets of values.
AnyOf == {"*"}
------------------------------------------------------------------------------
(* Chains                                                                   *)

\* parse_domain with HyperlaneDomain::from_config: the name must be the key of the chain,
\* and a known domain id must belong to it. A bad domainId is an error although chainId is tried.
ParseDomain(c) ==
    /\ c.name = "same"
    /\ c.id \in {"domainId", "chainId"}
    /\ c.protocol \in {"ethereum", "sealevel", "fuel", "cosmos"}

\* parse_signer: hexKey, aws and cosmosKey with their fields, or the node's own signer.
ParseSigner(s) == [ok |-> s # "bad", signer |-> IF s = "bad" THEN "absent" ELSE s]

\* Overrides replace the URLs of the registry; a bad URL in either is an error.
HasUrls(c) == IF c.custom = "absent" THEN c.urls = "ok" ELSE c.custom = "ok"

\* build_cosmos_connection_conf unwraps the optional gasPrice and the first URL.
BuildCosmosConnection(c) ==
    CASE c.cosmos = "missing" -> "err"
      [] c.cosmos # "missing" /\ (~HasUrls(c) \/ c.cosmos = "nogas") -> "panic"
      [] OTHER -> "cosmos"
BuildEthereumConnection(c, default) ==
    LET consensus == IF c.consensus = "absent" THEN default ELSE c.consensus IN
    IF HasUrls(c) /\ consensus \in {"single", "fallback", "quorum"} THEN consensus ELSE "err"
BuildConnectionConf(c, default) ==
    CASE c.protocol = "ethereum" -> BuildEthereumConnection(c, default)
      [] c.protocol = "cosmos" -> BuildCosmosConnection(c)
      [] OTHER -> IF HasUrls(c) THEN c.protocol ELSE "err"

\* blocks.reorgPeriod, 1 when there is no blocks object.
ReorgPeriod(r) == IF r = "absent" THEN 1 ELSE 2

ParseChain(c, default) ==
    LET connection == IF ParseDomain(c) THEN BuildConnectionConf(c, default) ELSE "err" IN
    [panic |-> connection = "panic",
     ok |-> /\ connection \notin {"err", "panic"}
            /\ "bad" \notin {c.signer, c.urls, c.custom, c.addresses, c.reorg}
            /\ c.urls # "absent" /\ HasUrls(c),
     connection |-> connection, protocol |-> c.protocol, reorg |-> ReorgPeriod(c.reorg),
     signer |-> ParseSigner(c.signer).signer]

\* Settings::from_config_filtered: the chains of the filter only; the default signer
\* is given to the chains without one.
ParseBase(cfg, names) ==
    LET chosen == DOMAIN cfg.chains \cap names
        default == IF cfg.consensus = "absent" THEN "fallback" ELSE cfg.consensus
        parsed == [n \in chosen |-> ParseChain(cfg.chains[n], default)]
        signer == ParseSigner(cfg.signer) IN
    [panic |-> \E n \in chosen : parsed[n].panic,
     ok |-> signer.ok /\ \A n \in chosen : parsed[n].ok,
     chains |-> [n \in chosen |-> IF parsed[n].signer = "absent" /\ signer.signer # "absent"
                                  THEN [parsed[n] EXCEPT !.signer = "default"] ELSE parsed[n]]]

\* relayChains, chainsToScrape, originChainName; without it the base is parsed unfiltered.
NamesOrAll(cfg) == IF cfg.names.given THEN cfg.names.set ELSE DOMAIN cfg.chains
------------------------------------------------------------------------------
(* Matching lists and policies                                              *)

\* Filter::matches, matches_any_rule
FilterMatches(f, v) == f = AnyOf \/ v \in f
MatchesAnyRule(rules, m) ==
    \E i \in DOMAIN rules : /\ FilterMatches(rules[i].origin, m.origin)
                            /\ FilterMatches(rules[i].sender, m.sender)
                            /\ FilterMatches(rules[i].destination, m.destination)
                            /\ FilterMatches(rules[i].recipient, m.recipient)
\* MatchingList(None) is written as the empty list.
MsgMatches(list, m, default) == IF list = << >> THEN default ELSE MatchesAnyRule(list, m)

\* parse_json_array drops its own error: a string that is not JSON counts as not given.
ParseJsonArray(r) == IF r.kind \in {"absent", "notjson"} THEN << >> ELSE r.items
\* parse_matching_list, with the visitors: one bad rule is an error, an empty list is no list.
ParseMatchingList(r) ==
    [ok |-> r.kind # "badrule", list |-> IF r.kind = "badrule" THEN << >> ELSE ParseJsonArray(r)]

\* One entry of gasPaymentEnforcement: the policy (or that there is none) and whether it
\* is an error.
ParsePolicy(p) ==
    LET list == ParseMatchingList(p.list)
        Minimum == [ok |-> p.payment # "bad", kept |-> p.payment = "ok", policy |-> "minimum"]
        parsed ==
            CASE p.type = "minimum" \/ (p.type = "absent" /\ p.minimum) -> Minimum
              [] p.type = "none" \/ (p.type = "absent" /\ ~p.minimum) ->
                     [ok |-> TRUE, kept |-> TRUE, policy |-> "none"]
              [] p.type = "onChainFeeQuoting" ->
                     [ok |-> p.fraction # "bad", kept |-> TRUE, policy |-> "quoting"]
              [] OTHER -> [ok |-> FALSE, kept |-> FALSE, policy |-> "none"] IN
    [ok |-> parsed.ok /\ list.ok, kept |-> parsed.kept,
     conf |-> [policy |-> parsed.policy, list |-> list.list]]
DefaultPolicy == [policy |-> "none", list |-> << >>]
GasPaymentEnforcement(cfg) ==
    LET items == ParseJsonArray(cfg.policies)
        parsed == [i \in DOMAIN items |-> ParsePolicy(items[i])]
        kept == SelectSeq(parsed, LAMBDA p : p.kept)
        confs == [i \in DOMAIN kept |-> kept[i].conf] IN
    [ok |-> \A i \in DOMAIN parsed : parsed[i].ok,
     confs |-> IF confs = << >> THEN <<DefaultPolicy>> ELSE confs]
------------------------------------------------------------------------------
(* The settings of the four agents                                          *)

Rejected == [status |-> "rejected"]
Panicked == [status |-> "panic"]

\* RelayerSettings::from_config_filtered. Every name must be a configured chain that was parsed.
RelayerSettings(cfg) ==
    LET base == ParseBase(cfg, NamesOrAll(cfg))
        gas == GasPaymentEnforcement(cfg)
        white == ParseMatchingList(cfg.whitelist)
        black == ParseMatchingList(cfg.blacklist) IN
    IF base.panic THEN Panicked
    ELSE IF /\ cfg.names.given /\ base.ok /\ gas.ok /\ white.ok /\ black.ok /\ cfg.limit # "bad"
            /\ cfg.names.set \cup cfg.skip \subseteq DOMAIN base.chains
    THEN [status |-> "configured", chains |-> base.chains, relay |-> cfg.names.set,
          policies |-> gas.confs, whitelist |-> white.list, blacklist |-> black.list,
          limit |-> cfg.limit, skip |-> cfg.skip]
    ELSE Rejected

\* APIServerSettings: the same, with the key that signs.
APIServerSettings(cfg) ==
    LET s == RelayerSettings(cfg) IN
    CASE s.status = "configured" /\ cfg.validator # "ok" -> Rejected
      [] OTHER -> s

\* parse_checkpoint_syncer
ParseCheckpointSyncer(s) == s \in {"localStorage", "s3"}

\* ValidatorSettings: reorgPeriod is parsed a second time; on Ethereum the validator's key
\* is the last choice for the chain's signer.
ValidatorSettings(cfg) ==
    LET base == ParseBase(cfg, NamesOrAll(cfg))
        origin == CHOOSE n \in cfg.names.set : TRUE IN
    IF base.panic THEN Panicked
    ELSE IF /\ cfg.names.given /\ base.ok /\ origin \in DOMAIN base.chains
            /\ cfg.validator = "ok" /\ ParseCheckpointSyncer(cfg.syncer)
    THEN [status |-> "configured", origin |-> origin,
          reorg |-> ReorgPeriod(cfg.chains[origin].reorg),
          chains |-> [base.chains EXCEPT ![origin].signer =
                        IF @ = "absent" /\ base.chains[origin].protocol = "ethereum"
                        THEN "validator" ELSE @]]
    ELSE Rejected

ScraperSettings(cfg) ==
    LET base == ParseBase(cfg, NamesOrAll(cfg)) IN
    IF base.panic THEN Panicked
    ELSE IF cfg.names.given /\ base.ok /\ cfg.db = "ok" /\ cfg.names.set \subseteq DOMAIN base.chains
    THEN [status |-> "configured", chains |-> base.chains, scrape |-> cfg.names.set]
    ELSE Rejected
------------------------------------------------------------------------------
(* The relayer that is built from them                                      *)

\* A faulty variant: the gas limit is applied to every destination.
TransactionGasLimitAlways(s, d) == s.limit
\* from_settings: no limit for the chains of skipTransactionGasLimitFor.
TransactionGasLimit(s, d) == IF d \in s.skip THEN "absent" ELSE s.limit

\* One MessageContext per pair, with the parts of the origin and of the destination.
MessageContexts(s) ==
    [pair \in s.relay \X s.relay |->
        [mailbox |-> pair[2], db |-> pair[1], prover |-> pair[1], announce |-> pair[1],
         limit |-> TransactionGasLimit(s, pair[2])]]

\* run: one submitter with its channel per destination.
SendChannels(s) == s.relay
\* run_message_processor: the contexts of one origin, without the origin itself.
DestinationCtxs(a, origin) == {d \in a.settings.relay : d # origin}

LoadedSettings ==
    CASE raw.agent = "relayer" -> RelayerSettings(raw)
      [] raw.agent = "apiserver" -> APIServerSettings(raw)
      [] raw.agent = "validator" -> ValidatorSettings(raw)
      [] OTHER -> ScraperSettings(raw)
LoadSettings ==
    /\ agentState.status = "none"
    /\ agentState' = LoadedSettings
    /\ UNCHANGED <<raw, outcome>>

\* from_settings: the connections of all chains are made, or the agent stops.
FromSettings ==
    /\ agentState.status = "configured" /\ raw.agent = "relayer"
    /\ \/ agentState' = [status |-> "running", settings |-> agentState,
                         contexts |-> MessageContexts(agentState)]
       \/ agentState' = [status |-> "stopped"]
    /\ UNCHANGED <<raw, outcome>>

\* MessageProcessor::tick for a message of one of the origins.
HandleMessage(m) ==
    LET s == agentState.settings IN
    IF \/ ~MsgMatches(s.whitelist, m, TRUE)
       \/ MsgMatches(s.blacklist, m, FALSE)
       \/ m.destination = m.origin
       \/ m.destination \notin SendChannels(s)
    THEN [sent |-> FALSE, message |-> m]
    ELSE [sent |-> TRUE, message |-> m, channel |-> m.destination,
          found |-> m.destination \in DestinationCtxs(agentState, m.origin),
          context |-> agentState.contexts[<<m.origin, m.destination>>]]
TickMessage(m) ==
    /\ agentState.status = "running" /\ m.origin \in agentState.settings.relay
    /\ outcome' = HandleMessage(m)
    /\ UNCHANGED <<raw, agentState>>

Init_Settings ==
    /\ raw \in RawConfigs
    /\ agentState = [status |-> "none"]
    /\ outcome = [sent |-> FALSE]

Next_Settings == LoadSettings \/ FromSettings \/ \E m \in ConfigMessages : TickMessage(m)

SettingsSpec == Init_Settings /\ [][Next_Settings]_settingsVars
------------------------------------------------------------------------------
(* Properties.                                                              *)

\* The rule lists as an operator reads them: a field that is not given matches everything.
Selects(rules, m) ==
    \E r \in ToSet(rules) : \A field \in {"origin", "sender", "destination", "recipient"} :
        r[field] # AnyOf => m[field] \in r[field]

\* A running relayer sends a message only if the configured whitelist selects it and the
\* configured blacklist does not; an empty whitelist selects everything.
FiltersHonoured ==
    outcome.sent =>
        /\ raw.whitelist.kind = "list" /\ raw.whitelist.items # << >> =>
               Selects(raw.whitelist.items, outcome.message)
        /\ raw.blacklist.kind = "list" => ~Selects(raw.blacklist.items, outcome.message)

\* Nothing that the configuration allows is dropped.
NothingElseDropped ==
    agentState.status = "running" /\ "message" \in DOMAIN outcome /\ ~outcome.sent =>
        LET m == outcome.message IN
        \/ m.destination = m.origin \/ m.destination \notin raw.names.set
        \/ /\ raw.whitelist.kind = "list" /\ raw.whitelist.items # << >>
           /\ ~Selects(raw.whitelist.items, m)
        \/ raw.blacklist.kind = "list" /\ Selects(raw.blacklist.items, m)

\* A message that is sent has a context (the lookup does not panic), made of the database, the
\* prover and the announcements of its origin and of the mailbox and the limit of its destination.
WiringComplete ==
    outcome.sent =>
        /\ outcome.found
        /\ outcome.channel = outcome.message.destination
        /\ outcome.context =
            [mailbox |-> outcome.message.destination, db |-> outcome.message.origin,
             prover |-> outcome.message.origin, announce |-> outcome.message.origin,
             limit |-> IF outcome.message.destination \in raw.skip THEN "absent" ELSE raw.limit]

\* An agent is configured only if every chain it works on is configured without an error; a
\* broken chain that it does not use does not keep it from starting.
ChainsUsable ==
    agentState.status = "configured" =>
        /\ raw.names.set \subseteq DOMAIN agentState.chains
        /\ \A n \in DOMAIN agentState.chains : ParseDomain(raw.chains[n]) /\ HasUrls(raw.chains[n])

\* The reorganisation period that the validator signs with is the one its indexers use.
ReorgPeriodsAgree ==
    agentState.status = "configured" /\ raw.agent = "validator" =>
        agentState.reorg = agentState.chains[agentState.origin].reorg

\* What a configuration means for the agent built from it (settings/mod.rs,
\* settings/parser, relayer.rs).
SettingsSound ==
    FiltersHonoured /\ NothingElseDropped /\ WiringComplete /\ ChainsUsable /\ ReorgPeriodsAgree
==============================================================================
