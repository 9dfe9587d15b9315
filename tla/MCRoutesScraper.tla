-------------------------- MODULE MCRoutesScraper --------------------------
(***************************************************************************)
(* The routes of two Sealevel chains, and the scraper, which has nothing   *)
(* to do with them: a behaviour of this instance runs one of the two,      *)
(* chosen at the start, so that their state spaces add up.                 *)
(***************************************************************************)
EXTENDS SealevelRoutes, Scraper, TLC

CONSTANTS v1, w1, w2, warp, hello1, a1, o1, i2

MCDomains == {1, 2}
MCMaxDispatched == <<2, 1>>
MCSymmetry == Permutations(UniqueKeys)
MCDeployedConfig == <<<<v1>>, 1>>
MCConfigs == {MCDeployedConfig}
MCBodies == {"hello"} \cup (Wallets \X (0..200))
MCBodyBytes(b) == 1
MCRent(n) == 1 + n
MCRouteIsms == {<<>>, <<i2>>}
MCRouteHomes == {{1}, {1, 2}}
MCHomePaymaster == <<"OverheadIgp", o1>>
MCRouteIgps == {<<>>, <<"OverheadIgp", o1>>}
\* Native tokens and a collateral token, each with a synthetic counterpart.
MCPluginChoices == {<<"native", "synthetic">>, <<"collateral", "synthetic">>}
\* In the units of each domain: what arrives of the first is a whole unit of the second.
MCAmounts == <<{115}, {1}>>
MCDecimals == <<2, 0>>
MCEndowment == [w \in Wallets |-> IF w = w1 THEN 250 ELSE 0]
MCOracle == [token_exchange_rate |-> 3, gas_price |-> 1, token_decimals |-> 1]
MCHomeIgp ==
    [owner |-> <<w1>>, beneficiary |-> w1, gas_oracles |-> (2 :> MCOracle),
     len |-> 1, lamports |-> MCRent(1)]
MCHomeOverhead == [owner |-> <<w1>>, inner |-> a1, gas_overheads |-> (2 :> 5)]
-----------------------------------------------------------------------------
(* A chain for the scraper: three messages, so that the first may be       *)
(* missing below two that are stored; logs of every kind in one            *)
(* transaction, and a block of two transactions.                           *)

Log(k, key, block, txn, index) ==
    [kind |-> k, key |-> key, block |-> block, txn |-> txn, index |-> index]

MCChainLogs ==
    { Log("message", 0, 1, 1, 0), Log("delivery", 0, 1, 1, 1), Log("payment", 0, 1, 1, 2),
      Log("message", 1, 3, 2, 0), Log("message", 2, 3, 3, 1) }
-----------------------------------------------------------------------------
VARIABLE system     \* what this behaviour runs

systemVars == <<vars, scraperVars, system>>

SystemInit ==
    /\ system \in {"routes", "scraper"}
    /\ Init /\ Init_Scraper
    /\ system # "routes" => plugin = <<"native", "synthetic">> /\ client[2][warp] = None

SystemNext ==
    /\ UNCHANGED system
    /\ \/ system = "routes" /\ Next /\ UNCHANGED scraperVars
       \/ system = "scraper" /\ Next_Scraper /\ UNCHANGED vars

SystemSpec == SystemInit /\ [][SystemNext]_systemVars
=============================================================================
