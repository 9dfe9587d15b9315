--------------------------- MODULE SealevelRouter --------------------------
(***************************************************************************)
(* The router library of the Sealevel programs                             *)
(* (libraries/hyperlane-sealevel-connection-client): what a program that   *)
(* sends messages to its counterparts on other chains stores and checks.   *)
(* The Mailbox and the IGP it calls are those of SealevelMailbox and       *)
(* SealevelIgp.                                                            *)
(***************************************************************************)
EXTENDS SealevelMailbox, SealevelIgp

CONSTANT
    Gas         \* destination gas amounts an owner may set

VARIABLE
    client      \* client[d][p]: the router part of the storage of program p

routerVars == <<mailboxVars, igpVars>>

\* The igp is <<>>, <<"Igp", i>> or <<"OverheadIgp", o>>; ism and owner are options.
NewClient(payer, ism, igp) ==
    [owner |-> <<payer>>, ism |-> ism, igp |-> igp, routers |-> <<>>, gas |-> <<>>]

ProcessAuthority(d, p) == <<"process_authority", d, p>>

(* ensure_mailbox_process_authority_signer, authority being the key that   *)
(* signed.                                                                 *)
EnsureProcessAuthority(d, p, authority) == authority = ProcessAuthority(d, p)

EnsureRouterOnly(d, p, authority, origin, sender) ==
    /\ origin \in DOMAIN client[d][p].routers
    /\ client[d][p].routers[origin] = sender

(* ensure_valid_router_message *)
EnsureValidRouterMessage(d, p, authority, origin, sender) ==
    /\ EnsureProcessAuthority(d, p, authority)
    /\ origin \in DOMAIN client[d][p].routers
    /\ client[d][p].routers[origin] = sender

(* HyperlaneRouterDispatch::dispatch *)
RouterDispatch(d, p, unique, destination, body) ==
    /\ destination \in DOMAIN client[d][p].routers
    /\ OutboxDispatch(d, p, unique, p, destination, client[d][p].routers[destination], body)

(* The IGP accounts that a program passes on to the IGP: the configured    *)
(* one, or the inner IGP its caller names and the configured overhead IGP. *)
PaymasterAccounts(igp, inner) ==
    IF igp[1] = "Igp" THEN <<igp[2], <<>>>> ELSE <<inner, <<igp[2]>>>>

(* HyperlaneRouterDispatch::dispatch_with_gas, or dispatch for a program   *)
(* without a paymaster.  The caller may pass any inner IGP account along   *)
(* with the overhead IGP; the IGP program compares them.                   *)
RouterDispatchWithGas(d, p, unique, destination, body, gas) ==
    /\ RouterDispatch(d, p, unique, destination, body)
    /\ LET igp == client[d][p].igp
           m == [destination |-> destination, nonce |-> Len(outbox[d].tree)]
       IN  IF igp = <<>> THEN UNCHANGED igpVars
           ELSE /\ gas # <<>>
                /\ d \in IgpDomains
                /\ \E inner \in Igps :
                    LET accounts == PaymasterAccounts(igp, inner)
                    IN  PayForGas(d, accounts[1], accounts[2], unique, m, destination, gas[1])

DestinationGasOrZero(d, p, destination) ==
    LET gas == client[d][p].gas
    IN  IF destination \in DOMAIN gas THEN <<gas[destination] \div 10>> ELSE <<0>>

DestinationGas(d, p, destination) ==
    LET gas == client[d][p].gas
    IN  IF destination \in DOMAIN gas THEN <<gas[destination]>> ELSE <<>>

(* The setters restricted to the owner: each replaces one part of the      *)
(* storage.                                                                *)
OnlyOwner(d, p, signer) ==
    /\ ~Uninitialized(client[d][p])
    /\ EnsureOwnerSigner(client[d][p].owner, signer)
    /\ Configure
    /\ UNCHANGED <<inbox, outbox, dispatched, processed, ismOwner, domainData,
                   principal, igpVars>>

EnrollRemoteRouters(d, p, domain, router, signer) ==
    /\ OnlyOwner(d, p, signer)
    /\ client' = [client EXCEPT ![d][p].routers = MapSet(@, domain, router)]

SetDestinationGasConfigs(d, p, domain, gas, signer) ==
    /\ OnlyOwner(d, p, signer)
    /\ client' = [client EXCEPT ![d][p].gas = MapSet(@, domain, gas)]

SetInterchainSecurityModule(d, p, ism, signer) ==
    /\ OnlyOwner(d, p, signer)
    /\ client' = [client EXCEPT ![d][p].ism = ism]

SetInterchainGasPaymaster(d, p, igp, signer) ==
    /\ OnlyOwner(d, p, signer)
    /\ client' = [client EXCEPT ![d][p].igp = igp]

TransferClientOwnership(d, p, newOwner, signer) ==
    /\ OnlyOwner(d, p, signer)
    /\ client' = [client EXCEPT ![d][p].owner = newOwner]
============================================================================
