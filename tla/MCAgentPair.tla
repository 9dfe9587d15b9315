---------------------------- MODULE MCAgentPair ----------------------------
EXTENDS AgentPair, TLC

MCIsms == {[modules |-> <<"merkleRoot">>, threshold |-> 1],
           [modules |-> <<"merkleRoot", "messageId", "ccipRead">>, threshold |-> 1]}
MCPolicies == <<[list |-> <<{0}>>, kind |-> "none", amount |-> 0],
                [list |-> <<>>, kind |-> "minimum", amount |-> 2]>>
MCVerifyGas == [type \in {"merkleRoot", "messageId", "ccipRead", "null"} |->
                    IF type = "merkleRoot" THEN 2 ELSE 1]
MCPaid == (0 :> 0) @@ (1 :> 2)
MCList == <<>>
MCWhite == <<{1}>>
=============================================================================
