---------------------------- MODULE GasEnforcer ----------------------------
(***************************************************************************)
(* GasPaymentEnforcer and the attempts to deliver one message that it      *)
(* allows: prepare() asks message_meets_gas_payment_requirement with a     *)
(* cost estimate, submit() sends a transaction with the estimated limit    *)
(* and record_tx_outcome adds what the transaction used.  Payments arrive  *)
(* at any time (module GasPaymentSync).                                    *)
(*                                                                         *)
(* Gas is counted in small units.  A Minimum policy asks for tokens; here  *)
(* a payment's tokens and its gas_amount are the same number.              *)
(***************************************************************************)
EXTENDS Integers, Sequences, FiniteSets, FiniteSetsExt

CONSTANTS
    PolicyLists,        \* the lists of policies the settings may hold
    Estimates,          \* set of [gas_limit, enforceable]: what estimates may say
    GasLimit,           \* transaction_gas_limit of the settings
    MaxPaid,            \* bound on the total payment
    MaxAttempts,        \* bound on the transactions
    MaxLost             \* bound on the transactions whose outcome is not recorded

(* Policies of the settings.  matches: does the message match the          *)
(* matching list?  Minimum has a payment, OnChainFeeQuoting a fraction.    *)
Policy ==
    [matches : BOOLEAN, kind : {"None"}]
    \cup [matches : BOOLEAN, kind : {"Minimum"}, payment : Nat]
    \cup [matches : BOOLEAN, kind : {"OnChainFeeQuoting"},
          numerator : Nat, denominator : Nat \ {0}]

(* enforceable_gas_limit is l2_gas_limit where there is one, a part of     *)
(* gas_limit                                                               *)
ASSUME GasEnforcerAssumption ==
    /\ PolicyLists \subseteq Seq(Policy)
    /\ IsFiniteSet(Estimates) /\ Estimates # {}
    /\ \A e \in Estimates :
        /\ e \in [gas_limit : Nat, enforceable : Nat]
        /\ e.enforceable <= e.gas_limit
    /\ GasLimit \in Nat /\ MaxPaid \in Nat /\ MaxAttempts \in Nat /\ MaxLost \in Nat

VARIABLES
    policies,   \* sequence of [matches, kind, ...] in the order of the settings
    paid,       \* the stored total of the gas payments
    used,       \* the stored gas expenditure
    spent,      \* the gas really used by our transactions
    attempt,    \* the estimate of the attempt in submit(), or NoAttempt
    delivered,  \* has a transaction delivered the message?
    attempts, lost

enforcerVars == <<policies, paid, used, spent, attempt, delivered, attempts, lost>>

NoAttempt == [gas_limit |-> 0, enforceable |-> 0]

-----------------------------------------------------------------------------
(* message_meets_gas_payment_requirement                                   *)

(* a bug to detect: gas spent by earlier attempts is not deducted *)
RemainingIgnoresUsed == paid

(* gas_amount.saturating_sub(gas_used) *)
Remaining == IF used < paid THEN paid - used ELSE 0

Required(policy, e) == (e.enforceable * policy.numerator) \div policy.denominator

Approves(policy, e) ==
    CASE policy.kind = "None" -> TRUE
      [] policy.kind = "Minimum" -> paid >= policy.payment
      [] policy.kind = "OnChainFeeQuoting" -> Remaining >= Required(policy, e)

Matching == {i \in DOMAIN policies : policies[i].matches}

(* the first policy whose list the message matches decides; none, no *)
MeetsRequirement(e) == Matching # {} /\ Approves(policies[Min(Matching)], e)

-----------------------------------------------------------------------------
Init_Enforcer ==
    /\ policies \in PolicyLists
    /\ paid = 0 /\ used = 0 /\ spent = 0
    /\ attempt = NoAttempt /\ delivered = FALSE
    /\ attempts = 0 /\ lost = 0

(* update_gas_payment_by_gas_payment_key *)
Pay(amount) ==
    /\ paid + amount <= MaxPaid
    /\ paid' = paid + amount
    /\ UNCHANGED <<policies, used, spent, attempt, delivered, attempts, lost>>

(* the last part of prepare(); without approval the message waits *)
Prepare(e) ==
    /\ attempt = NoAttempt /\ ~delivered /\ attempts < MaxAttempts
    /\ MeetsRequirement(e)
    /\ e.gas_limit <= GasLimit
    /\ attempt' = e
    /\ attempts' = attempts + 1
    /\ UNCHANGED <<policies, paid, used, spent, delivered, lost>>

(* process() returned an outcome, executed or reverted, and                *)
(* record_tx_outcome stored it                                             *)
Outcome(gas, executed) ==
    /\ attempt # NoAttempt /\ gas <= attempt.gas_limit
    /\ spent' = spent + gas
    /\ used' = used + gas
    /\ delivered' = executed
    /\ attempt' = NoAttempt
    /\ UNCHANGED <<policies, paid, attempts, lost>>

(* process() failed or timed out, or the agent stopped before the outcome  *)
(* was recorded, and the transaction used gas all the same                 *)
OutcomeLost(gas, executed) ==
    /\ attempt # NoAttempt /\ gas <= attempt.gas_limit
    /\ lost < MaxLost
    /\ lost' = lost + 1
    /\ spent' = spent + gas
    /\ delivered' = executed
    /\ attempt' = NoAttempt
    /\ UNCHANGED <<policies, paid, used, attempts>>

MaxGas == Max({e.gas_limit : e \in Estimates})

Next_Enforcer ==
    \/ \E amount \in 1 .. MaxPaid : Pay(amount)
    \/ \E e \in Estimates : Prepare(e)
    \/ \E gas \in 0 .. MaxGas, executed \in BOOLEAN :
        Outcome(gas, executed) \/ OutcomeLost(gas, executed)

EnforcerSpec == Init_Enforcer /\ [][Next_Enforcer]_enforcerVars

-----------------------------------------------------------------------------
(* Properties                                                              *)

(* The type invariant. *)
EnforcerTypeOK ==
    /\ policies \in PolicyLists
    /\ paid \in 0 .. MaxPaid /\ used \in Nat /\ spent \in Nat
    /\ attempt \in Estimates \cup {NoAttempt}
    /\ delivered \in BOOLEAN
    /\ attempts \in 0 .. MaxAttempts /\ lost \in 0 .. MaxLost

(* What an attempt may cost beyond what the policy asked for it: nothing   *)
(* when the policy asks for more than the gas limit.                       *)
Overrun(policy) == Max({0} \cup {e.gas_limit - Required(policy, e) : e \in Estimates})

(* Under an OnChainFeeQuoting policy whose requirement is never zero, the  *)
(* gas that all attempts together use exceeds the gas paid for by at most  *)
(* the overrun of one attempt and the limits of the attempts whose outcome *)
(* was lost: earlier attempts are deducted before the next is allowed.     *)
SpendingBounded ==
    (Matching # {} /\ policies[Min(Matching)].kind = "OnChainFeeQuoting") =>
        LET policy == policies[Min(Matching)] IN
        (\A e \in Estimates : Required(policy, e) > 0) =>
            spent <= paid + Overrun(policy) + lost * MaxGas

(* A message no policy matches is never sent, and neither is one that paid *)
(* nothing when the deciding policy asks for something.                    *)
UnpaidNeverSent ==
    attempts > 0 =>
        /\ Matching # {}
        /\ LET policy == policies[Min(Matching)] IN
           /\ policy.kind = "Minimum" => paid >= policy.payment
           /\ (policy.kind = "OnChainFeeQuoting"
                 /\ \A e \in Estimates : Required(policy, e) > 0) => paid > 0

(* No transaction is sent with more gas than transaction_gas_limit, so no  *)
(* number of attempts uses more than that many times the limit.            *)
SpendingLimited == spent <= attempts * GasLimit

(* What the enforcer owes the operator of the relayer.                     *)
EnforcerSound == EnforcerTypeOK /\ SpendingBounded /\ UnpaidNeverSent /\ SpendingLimited

=============================================================================
