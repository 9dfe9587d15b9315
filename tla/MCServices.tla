----------------------------- MODULE MCServices -----------------------------
(***************************************************************************)
(* Three services of the agents that share no state: the gas payment sync, *)
(* the validator's checkpoint submitters and the RPC clients.  A behaviour *)
(* of this instance runs one of them, chosen at the start, so that the     *)
(* state spaces add up instead of multiplying.                             *)
(***************************************************************************)
EXTENDS GasPaymentSync, ValidatorSubmitter, FallbackProvider

VARIABLE service   \* the service this behaviour runs

serviceVars == <<vars, submitterVars, providerVars, service>>

ServicesInit ==
    /\ service \in {"payments", "validator", "rpc"}
    /\ Init /\ Init_Submitters /\ Init_Providers
    /\ service # "rpc" => connection = "Http"

ServicesNext ==
    /\ UNCHANGED service
    /\ \/ service = "payments" /\ Next /\ UNCHANGED <<submitterVars, providerVars>>
       \/ service = "validator" /\ Next_Submitters /\ UNCHANGED <<vars, providerVars>>
       \/ service = "rpc" /\ Next_Providers /\ UNCHANGED <<vars, submitterVars>>

(* The tasks of the service that runs are scheduled: the sync task; the    *)
(* indexer, the submitters and the operator who restarts the validator,    *)
(* which is not for ever shown an old tree; the tasks that make requests,  *)
(* each of which ends at the timeout of the HTTP client.                   *)
SubmitterFairness ==
    \A v \in Signers :
        /\ WF_submitterVars(service = "validator" /\ IndexFinal(v))
        /\ SF_submitterVars(/\ service = "validator"
                            /\ \E n \in {Len(treeHook)} : PollCheckpoint(v, n))
        /\ WF_submitterVars(service = "validator" /\ (StartSubmitters(v) \/ Submit(v, "tip")))
        /\ WF_submitterVars(service = "validator" /\ Submit(v, "backfill"))

ProviderFairness ==
    /\ \A c \in RpcCallers :
        WF_providerVars(service = "rpc" /\ (StartRequest(c) \/ RequestStep(c)))
    /\ WF_providerVars(service = "rpc" /\ Elapse)

ServicesSpec ==
    /\ ServicesInit /\ [][ServicesNext]_serviceVars
    /\ WF_vars(service = "payments" /\ Sync)
    /\ SubmitterFairness
    /\ ProviderFairness
=============================================================================
