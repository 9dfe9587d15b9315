---------------------------- MODULE MCSubmitter ----------------------------
(***************************************************************************)
(* The SerialSubmitter for TLC, and beside it its two helpers, the heap it *)
(* keeps its operations in and the gas payment enforcer prepare() asks,    *)
(* and the API that answers for a message without submitting it.  A        *)
(* behaviour of this instance runs one of the four, chosen at the start,   *)
(* so that their state spaces add up instead of multiplying.               *)
(***************************************************************************)
EXTENDS MCSerialSubmitter, MCOpQueue, GasEnforcer, MCApiServer

(* Gas policies: the default of one half of the estimate behind a policy   *)
(* whose list does not match, a minimum, and a list that matches nothing.  *)
QuotingPolicies ==
    << [matches |-> FALSE, kind |-> "None"],
       [matches |-> TRUE, kind |-> "OnChainFeeQuoting", numerator |-> 1, denominator |-> 2],
       [matches |-> TRUE, kind |-> "None"] >>

MinimumPolicies ==
    << [matches |-> TRUE, kind |-> "Minimum", payment |-> 3],
       [matches |-> TRUE, kind |-> "None"] >>

UnmatchedPolicies == << [matches |-> FALSE, kind |-> "None"] >>

MCPolicyLists == {QuotingPolicies, MinimumPolicies, UnmatchedPolicies}

(* the second is of an Arbitrum Nitro chain; the third exceeds the limit *)
MCEstimates ==
    { [gas_limit |-> 2, enforceable |-> 2],
      [gas_limit |-> 5, enforceable |-> 3],
      [gas_limit |-> 7, enforceable |-> 7] }
-----------------------------------------------------------------------------
VARIABLE part   \* what this behaviour runs

partVars == <<vars, queueVars, enforcerVars, apiVars, part>>

PartsInit ==
    /\ part \in {"submitter", "queue", "enforcer", "api"}
    /\ Init /\ Init_Queue /\ Init_Enforcer /\ ApiInit
    /\ part # "enforcer" => policies = UnmatchedPolicies

PartsNext ==
    /\ UNCHANGED part
    /\ \/ part = "submitter" /\ Next /\ UNCHANGED <<queueVars, enforcerVars, apiVars>>
       \/ part = "queue" /\ Next_Queue /\ UNCHANGED <<vars, enforcerVars, apiVars>>
       \/ part = "enforcer" /\ Next_Enforcer /\ UNCHANGED <<vars, queueVars, apiVars>>
       \/ part = "api" /\ ApiNext /\ UNCHANGED <<vars, queueVars, enforcerVars>>

(* the two origin chains are alike: no order and no fixed choice over them *)
OriginSymmetry == Permutations({o1, o2})

PartsSpec == PartsInit /\ [][PartsNext]_partVars
=============================================================================
