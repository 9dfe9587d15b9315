---------------------------- MODULE SealevelIgp ----------------------------
(***************************************************************************)
(* The interchain gas paymaster program                                    *)
(* (sealevel/programs/hyperlane-sealevel-igp) of the chains of IgpDomains: *)
(* its program data, its IGP and overhead IGP accounts, and the accounts   *)
(* of the payments.  As in SealevelMailbox an action is one instruction    *)
(* and an account is an entry of a function.  The size of an account is    *)
(* counted in entries of its map; payers have the lamports they need.      *)
(***************************************************************************)
EXTENDS Naturals, FiniteSets, FiniteSetsExt

CONSTANTS
    IgpDomains,      \* the chains with an IGP program
    Destinations,    \* domains that gas can be paid for
    Igps,            \* salts of IGP accounts
    OverheadIgps,    \* salts of overhead IGP accounts
    Payers,          \* keys that sign: owners, payers and beneficiaries
    PaymentKeys,     \* keys of the one-time unique gas payment accounts
    GasAmounts,      \* gas amounts paid for
    Oracles,         \* RemoteGasData records an owner may set
    Overheads,       \* gas overheads an owner may set
    Scale,           \* TOKEN_EXCHANGE_RATE_SCALE
    SolDecimals,     \* SOL_DECIMALS
    MaxU64,          \* u64::MAX
    Rent(_),         \* rent.minimum_balance of an account with n map entries
    NoAccount        \* an account that does not exist

VARIABLES
    paymentCount,    \* paymentCount[d]: ProgramData, NoAccount before Init
    igps,            \* igps[d][i]: the Igp account with its lamports
    overheadIgps,    \* overheadIgps[d][o]: the OverheadIgp account
    gasPayments,     \* gasPayments[d]: the gas payment PDAs by unique key
    claimed,         \* history: lamports claimed from each IGP account
    topUp            \* history: lamports owners added for rent

igpVars == <<paymentCount, igps, overheadIgps, gasPayments, claimed, topUp>>

IgpOwners == {<<w>> : w \in Payers} \cup {<<>>}

(* The accounts; a map of an account has entries for some destinations. *)
Maps(values) == UNION {[S -> values] : S \in SUBSET Destinations}

IgpData ==
    [owner : IgpOwners, beneficiary : Payers, gas_oracles : Maps(Oracles),
     len : 0..Cardinality(Destinations), lamports : Nat]

OverheadIgpData ==
    [owner : IgpOwners, inner : Igps, gas_overheads : Maps(Overheads)]

(* Amounts, prices and rents are unsigned integers, a power of ten is      *)
(* positive, and an account that does not exist is none of the others.     *)
ASSUME IgpAssumption ==
    /\ IsFiniteSet(Destinations) /\ GasAmounts \subseteq Nat /\ Overheads \subseteq Nat
    /\ Scale \in Nat \ {0} /\ SolDecimals \in Nat /\ MaxU64 \in Nat
    /\ \A c \in Oracles :
        /\ c.gas_price \in Nat /\ c.token_exchange_rate \in Nat /\ c.token_decimals \in Nat
        /\ \A k \in 0..(c.token_decimals + SolDecimals) : 10^k \in Nat \ {0}
    /\ \A n \in 0..(Cardinality(Destinations) + 1) : Rent(n) \in Nat
    /\ NoAccount \notin Nat /\ NoAccount \notin IgpData
    /\ NoAccount \notin OverheadIgpData

(* HashMap insert, or remove for a configuration without a value. *)
MapSet(map, key, value) ==
    IF value = <<>> THEN [k \in DOMAIN map \ {key} |-> map[k]]
    ELSE [k \in DOMAIN map \cup {key} |-> IF k = key THEN value[1] ELSE map[k]]

Larger(a, b) == IF a > b THEN a ELSE b

(* convert_decimals: a division that truncates, or a multiplication. *)
ConvertDecimals(num, from, to) ==
    IF from > to THEN num \div 10^(from - to) ELSE num * 10^(to - from)

IgpInit ==
    /\ paymentCount = [d \in IgpDomains |-> NoAccount]
    /\ igps = [d \in IgpDomains |-> [i \in Igps |-> NoAccount]]
    /\ overheadIgps = [d \in IgpDomains |-> [o \in OverheadIgps |-> NoAccount]]
    /\ gasPayments = [d \in IgpDomains |-> <<>>]
    /\ claimed = [d \in IgpDomains |-> [i \in Igps |-> 0]]
    /\ topUp = [d \in IgpDomains |-> [i \in Igps |-> 0]]

InitProgram(d) ==
    /\ paymentCount[d] = NoAccount
    /\ paymentCount' = [paymentCount EXCEPT ![d] = 0]
    /\ UNCHANGED <<igps, overheadIgps, gasPayments, claimed, topUp>>

(* init_igp and init_igp_variant; anyone may send lamports to the address  *)
(* before the account exists, which create_pda_account keeps.              *)
NewIgp(owner, beneficiary, gift) ==
    [owner |-> owner, beneficiary |-> beneficiary, gas_oracles |-> <<>>,
     len |-> 0, lamports |-> Larger(gift, Larger(Rent(0), 1))]

InitIgp(d, i, owner, beneficiary, gift) ==
    /\ igps[d][i] = NoAccount
    /\ igps' = [igps EXCEPT ![d][i] = NewIgp(owner, beneficiary, gift)]
    /\ topUp' = [topUp EXCEPT ![d][i] = igps'[d][i].lamports]
    /\ UNCHANGED <<paymentCount, overheadIgps, gasPayments, claimed>>

InitOverheadIgp(d, o, owner, inner) ==
    /\ overheadIgps[d][o] = NoAccount
    /\ overheadIgps' = [overheadIgps EXCEPT ![d][o] =
            [owner |-> owner, inner |-> inner, gas_overheads |-> <<>>]]
    /\ UNCHANGED <<paymentCount, igps, gasPayments, claimed, topUp>>

(* OverheadIgp::gas_overhead; overhead is <<>> when no overhead IGP is passed. *)
GasAmount(d, overhead, destination, gas) ==
    IF overhead = <<>> THEN gas
    ELSE LET table == overheadIgps[d][overhead[1]].gas_overheads
         IN  gas + (IF destination \in DOMAIN table THEN table[destination] ELSE 0)

(* Igp::quote_gas_payment, in U256 arithmetic that cannot overflow here. *)
QuoteGasPayment(oracle, gas) ==
    ConvertDecimals((gas * oracle.gas_price * oracle.token_exchange_rate) \div Scale,
                    oracle.token_decimals, SolDecimals)

(* verify_account_uninitialized of the gas payment account. *)
PaymentAccountUnused(d, unique) == unique \notin DOMAIN gasPayments[d]

(* pay_for_gas.  as_u64 panics, and so does the u64 sum of the gas amounts *)
(* of a build with overflow checks, so the instruction fails.              *)
PayForGas(d, i, overhead, unique, message, destination, gas) ==
    /\ paymentCount[d] # NoAccount
    /\ PaymentAccountUnused(d, unique)
    /\ igps[d][i] # NoAccount
    /\ overhead # <<>> =>
            /\ overheadIgps[d][overhead[1]] # NoAccount
            /\ overheadIgps[d][overhead[1]].inner = i
    /\ destination \in DOMAIN igps[d][i].gas_oracles
    /\ LET amount == GasAmount(d, overhead, destination, gas)
           payment == QuoteGasPayment(igps[d][i].gas_oracles[destination], amount)
       IN  /\ amount <= MaxU64
           /\ payment <= MaxU64
           /\ igps' = [igps EXCEPT ![d][i].lamports = @ + payment]
           /\ gasPayments' = [gasPayments EXCEPT ![d] = MapSet(@, unique,
                    <<[sequence_number |-> paymentCount[d], igp |-> i,
                       destination_domain |-> destination, message_id |-> message,
                       gas_amount |-> amount, payment |-> payment]>>)]
    /\ paymentCount' = [paymentCount EXCEPT ![d] = @ + 1]
    /\ UNCHANGED <<overheadIgps, claimed, topUp>>

(* get_igp_variant_and_verify_owner *)
OwnedBy(account, signer) == account # NoAccount /\ account.owner = <<signer>>

SetIgpBeneficiary(d, i, beneficiary, signer) ==
    /\ OwnedBy(igps[d][i], signer)
    /\ igps' = [igps EXCEPT ![d][i].beneficiary = beneficiary]
    /\ UNCHANGED <<paymentCount, overheadIgps, gasPayments, claimed, topUp>>

TransferIgpOwnership(d, i, newOwner, signer) ==
    /\ OwnedBy(igps[d][i], signer)
    /\ igps' = [igps EXCEPT ![d][i].owner = newOwner]
    /\ UNCHANGED <<paymentCount, overheadIgps, gasPayments, claimed, topUp>>

TransferOverheadIgpOwnership(d, o, newOwner, signer) ==
    /\ OwnedBy(overheadIgps[d][o], signer)
    /\ overheadIgps' = [overheadIgps EXCEPT ![d][o].owner = newOwner]
    /\ UNCHANGED <<paymentCount, igps, gasPayments, claimed, topUp>>

(* claim: anyone may send what exceeds the rent to the beneficiary. *)
Claim(d, i) ==
    /\ igps[d][i] # NoAccount
    /\ LET required == Rent(igps[d][i].len)
           amount == igps[d][i].lamports - required
       IN  /\ igps[d][i].lamports >= required
           /\ igps' = [igps EXCEPT ![d][i].lamports = @ - amount]
           /\ claimed' = [claimed EXCEPT ![d][i] = @ + amount]
    /\ UNCHANGED <<paymentCount, overheadIgps, gasPayments, topUp>>

SetDestinationGasOverheads(d, o, destination, overhead, signer) ==
    /\ OwnedBy(overheadIgps[d][o], signer)
    /\ overheadIgps' = [overheadIgps EXCEPT ![d][o].gas_overheads =
            MapSet(@, destination, overhead)]
    /\ UNCHANGED <<paymentCount, igps, gasPayments, claimed, topUp>>

StoreWithoutTopUp(account, oracles) ==
    [account EXCEPT !.gas_oracles = oracles,
                    !.len = Larger(Cardinality(DOMAIN oracles), account.len)]

(* store_with_rent_exempt_realloc: an account never shrinks, and the       *)
(* lamports it already has count towards the rent of what it grows to.     *)
StoreWithRentExemptRealloc(account, oracles) ==
    LET len == Larger(Cardinality(DOMAIN oracles), account.len)
    IN  [account EXCEPT !.gas_oracles = oracles, !.len = len,
                        !.lamports = Larger(@, Rent(len))]

SetGasOracleConfigs(d, i, domain, oracle, signer) ==
    /\ OwnedBy(igps[d][i], signer)
    /\ igps' = [igps EXCEPT ![d][i] =
            StoreWithRentExemptRealloc(@, MapSet(@.gas_oracles, domain, oracle))]
    /\ topUp' = [topUp EXCEPT ![d][i] = @ + igps'[d][i].lamports - igps[d][i].lamports]
    /\ UNCHANGED <<paymentCount, overheadIgps, gasPayments, claimed>>

(* The instructions that configure the program, with every possible signer. *)
IgpAdmin(d) ==
    \/ InitProgram(d)
    \/ \E i \in Igps, owner \in IgpOwners, b \in Payers, gift \in {0, Rent(1)} :
            InitIgp(d, i, owner, b, gift)
    \/ \E o \in OverheadIgps, owner \in IgpOwners, i \in Igps :
            InitOverheadIgp(d, o, owner, i)
    \/ \E w \in Payers :
        \/ \E i \in Igps, b \in Payers : SetIgpBeneficiary(d, i, b, w)
        \/ \E i \in Igps, owner \in IgpOwners : TransferIgpOwnership(d, i, owner, w)
        \/ \E o \in OverheadIgps, owner \in IgpOwners :
                TransferOverheadIgpOwnership(d, o, owner, w)
        \/ \E o \in OverheadIgps, to \in Destinations, g \in {<<g>> : g \in Overheads} \cup {<<>>} :
                SetDestinationGasOverheads(d, o, to, g, w)
        \/ \E i \in Igps, to \in Destinations, c \in {<<c>> : c \in Oracles} \cup {<<>>} :
                SetGasOracleConfigs(d, i, to, c, w)

Pay(d) ==
    \E i \in Igps, o \in {<<o>> : o \in OverheadIgps} \cup {<<>>}, u \in PaymentKeys,
       to \in Destinations, gas \in GasAmounts :
        PayForGas(d, i, o, u, u, to, gas)

(* The program by itself.  A beneficiary may be changed between payments   *)
(* and claims, by the owner only.                                          *)
IgpNext == \E d \in IgpDomains : IgpAdmin(d) \/ Pay(d) \/ \E i \in Igps : Claim(d, i)

IgpSpec == IgpInit /\ [][IgpNext]_igpVars
----------------------------------------------------------------------------
(* The payment accounts carry the sequence numbers 0, 1, ..., one each, up *)
(* to the payment count, whichever IGP account was paid: the indexer of    *)
(* gas payments asks for the account of one sequence number after another. *)
PaymentIndexExact ==
    \A d \in IgpDomains :
        LET accounts == gasPayments[d]
            count == IF paymentCount[d] = NoAccount THEN 0 ELSE paymentCount[d]
        IN  /\ {accounts[u].sequence_number : u \in DOMAIN accounts} = 0..(count - 1)
            /\ Cardinality(DOMAIN accounts) = count

TotalPaid(d, i) ==
    MapThenSumSet(LAMBDA u : gasPayments[d][u].payment,
                  {u \in DOMAIN gasPayments[d] : gasPayments[d][u].igp = i})

(* An IGP account is always exempt from rent, also after its map grew and  *)
(* after a claim at any time, and no lamport is lost: what was paid and    *)
(* what owners deposited is what was claimed and what the account holds.   *)
IgpSolvent ==
    \A d \in IgpDomains, i \in Igps : igps[d][i] # NoAccount =>
        /\ igps[d][i].lamports >= Rent(igps[d][i].len)
        /\ igps[d][i].lamports + claimed[d][i] = topUp[d][i] + TotalPaid(d, i)
============================================================================
