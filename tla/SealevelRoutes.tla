--------------------------- MODULE SealevelRoutes --------------------------
(***************************************************************************)
(* A warp route and a helloworld deployment that share the Mailbox, the    *)
(* multisig ISM and the IGP of their chains.  At the start the route is    *)
(* set up on RouteHome and maybe on more chains, and enrolled there is its *)
(* program on all other chains; helloworld is set up on HelloHome.         *)
(***************************************************************************)
EXTENDS SealevelWarp, SealevelHelloWorld

CONSTANTS
    RouteHome, HelloHome,
    RouteHomes,    \* the sets of chains the route may be set up on
    HomePaymaster, \* the paymaster of the program on RouteHome
    Admins,        \* the wallets that try to configure programs
    Strangers,     \* the wallets that dispatch token messages of their own
    ForgedAmount,  \* ... for this amount
    RouteIsms,     \* the ISMs a program may be given
    RouteIgps,     \* the paymasters a program may be given
    PluginChoices, \* the kinds of token program by chain
    Endowment,     \* tokens of each wallet on RouteHome
    HomeIgp,       \* the IGP account of every chain of IgpDomains
    HomeOverhead,  \* ... and the overhead IGP account
    Greeting       \* the body of a helloworld message

vars == <<routerVars, client, pluginVars, hello>>

IgpChoices ==
    {<<>>} \cup {<<"Igp", i>> : i \in Igps} \cup {<<"OverheadIgp", o>> : o \in OverheadIgps}

(* The router part of the storage of a program that is set up. *)
ClientData ==
    [owner : Owners, ism : RouteIsms \cup {<<>>}, igp : IgpChoices,
     routers : UNION {[S -> Programs] : S \in SUBSET Domains},
     gas : UNION {[S -> Gas] : S \in SUBSET Domains}]

(* No wallet has the key of a program or of a PDA, amounts and rents are   *)
(* unsigned integers, and a power of ten is positive.  Every chain has its *)
(* Mailbox; no instruction of this module makes one.                       *)
ASSUME RoutesAssumption ==
    /\ Wallets \cap Programs = {} /\ Admins \cup Strangers \subseteq Wallets
    /\ Token \in Programs /\ Hello \in Programs /\ Token # Hello
    /\ \A d \in Domains, p \in Programs : ProcessAuthority(d, p) \notin Wallets
    /\ Domains \subseteq Deployed /\ IgpDomains \subseteq Domains
    /\ RouteIgps \cup {HomePaymaster} \subseteq IgpChoices /\ None \notin ClientData
    /\ Gas \subseteq Nat /\ Gas # {}
    /\ \A k \in DOMAIN HomeOverhead.gas_overheads : HomeOverhead.gas_overheads[k] \in Nat
    /\ ForgedAmount \in Nat /\ \A d \in Domains : Amounts[d] \subseteq Nat
    /\ RentMin \in Nat /\ AtaRent \in Nat /\ MaxAtaPayer \in Nat /\ RemoteDecimals \in Nat
    /\ \A d \in Domains :
        /\ Decimals[d] \in Nat
        /\ \A k \in 0..(Decimals[d] + RemoteDecimals) : 10^k \in Nat \ {0}

(* What the messages of the two deployments look like on the wire. *)
RouteMessage ==
    [version : {VERSION}, nonce : Nat, origin : Domains, sender : Principals,
     destination : Domains, recipient : Programs,
     body : {Greeting} \cup (Wallets \X Nat)]

(* A route starts with tokens where its program locks them, and decimals   *)
(* are a u8.  The laws of exponents are not in the prover's arithmetic.    *)
ASSUME BackingAssumption ==
    /\ IsFiniteSet(Domains) /\ IsFiniteSet(Wallets)
    /\ \A kinds \in PluginChoices : kinds[RouteHome] # "synthetic"
    /\ \A w \in Wallets : Endowment[w] \in Nat
    /\ RemoteDecimals \in 0..255 /\ \A d \in Domains : Decimals[d] \in 0..255
    /\ \A i, j \in 0..Finest : i + j <= Finest => 10^(i + j) = 10^i * 10^j
    /\ None \notin [local_domain : Domains, owner : Owners, tree : Seq(RouteMessage)]

HomeClient(others, p, igp) ==
    [NewClient(Deployer, <<>>, igp) EXCEPT
        !.routers = [d \in others |-> p],
        !.gas = [d \in others |-> CHOOSE g \in Gas : TRUE]]

HelloClient == HomeClient(Domains \ {HelloHome}, Hello, <<>>)

HomeHello ==
    [NewHello EXCEPT !.sent_to = [d \in Domains \ {HelloHome} |-> 0],
                     !.received_from = [d \in Domains \ {HelloHome} |-> 0]]

Init ==
    /\ MailboxInit
    /\ paymentCount = [d \in IgpDomains |-> 0]
    /\ igps = [d \in IgpDomains |-> [i \in Igps |-> HomeIgp]]
    /\ overheadIgps = [d \in IgpDomains |-> [o \in OverheadIgps |-> HomeOverhead]]
    /\ gasPayments = [d \in IgpDomains |-> <<>>]
    /\ claimed = [d \in IgpDomains |-> [i \in Igps |-> 0]]
    /\ topUp = [d \in IgpDomains |-> [i \in Igps |-> HomeIgp.lamports]]
    /\ plugin \in PluginChoices
    /\ \E homes \in RouteHomes :
        /\ client = [d \in Domains |-> [p \in Programs |->
            CASE d \in homes /\ p = Token ->
                    HomeClient(Domains \ {d}, p, IF d = RouteHome THEN HomePaymaster ELSE <<>>)
              [] d = HelloHome /\ p = Hello -> HelloClient
              [] OTHER -> None]]
        /\ ataPayer = [d \in Domains |->
            CASE d \notin homes -> 0
              [] plugin[d] = "collateral" -> RentMin
              [] OTHER -> MaxAtaPayer]
        /\ collateral = [d \in Domains |->
            IF d \in homes /\ plugin[d] = "native" THEN RentMin ELSE 0]
    /\ balance = [d \in Domains |-> [w \in Wallets |->
            IF d = RouteHome THEN Endowment[w] ELSE 0]]
    /\ ata = [d \in Domains |-> {w \in Wallets : d = RouteHome /\ Endowment[w] > 0}]
    /\ hello = [d \in Domains |->
            IF d = HelloHome
            THEN [counts |-> HomeHello, len |-> HelloSize(HelloClient, HomeHello)]
            ELSE None]

TokenAdmin(d) ==
    /\ \E w \in Admins :
        \/ \E o \in Domains, r \in {<<Token>>, <<>>} : EnrollRemoteRouters(d, Token, o, r, w)
        \/ \E o \in Domains, g \in {<<g>> : g \in Gas} \cup {<<>>} :
                SetDestinationGasConfigs(d, Token, o, g, w)
        \/ \E i \in RouteIsms : SetInterchainSecurityModule(d, Token, i, w)
        \/ \E i \in RouteIgps : SetInterchainGasPaymaster(d, Token, i, w)
        \/ \E o \in Owners : TransferClientOwnership(d, Token, o, w)
    /\ UNCHANGED <<pluginVars, hello>>

HelloAdmin(d) ==
    /\ \E w \in Admins :
        \/ \E i \in RouteIsms : InitHelloWorld(d, w, i, <<>>)
        \/ \E o \in Domains, r \in {<<Hello>>, <<>>} : EnrollHelloRouters(d, o, r, w)
        \/ \E i \in RouteIsms : SetHelloIsm(d, i, w)
    /\ UNCHANGED pluginVars

Transfer(d) ==
    /\ \E w, r \in Wallets, u \in UniqueKeys, to \in Domains, a \in Amounts[d] :
            TransferRemote(d, w, u, to, r, a)
    /\ UNCHANGED hello

Send(d) ==
    /\ \E u \in UniqueKeys, to \in Domains : SendHelloWorld(d, u, to, Greeting)
    /\ UNCHANGED pluginVars

\* A wallet dispatches a token message of its own to the route.
Forge(d) ==
    /\ \E w \in Strangers, u \in UniqueKeys, to \in Domains, p \in Programs :
            OutboxDispatch(d, w, u, w, to, p, <<w, ForgedAmount>>)
    /\ UNCHANGED <<igpVars, client, pluginVars, hello>>

\* The Mailbox processes a dispatched message, or a wallet calls Handle itself.
Deliver(d) ==
    \E m \in UNION {Range(outbox[o].tree) : o \in {o \in Domains : outbox[o] # None}},
       authority \in {ProcessAuthority(d, p) : p \in Programs} \cup Wallets :
        /\ m.destination = d
        /\ IF authority \in Wallets THEN UNCHANGED mailboxVars
           ELSE /\ authority = ProcessAuthority(d, m.recipient)
                /\ client[d][m.recipient] # None
                /\ \E v \in Validators :
                    InboxProcess(d, m, <<v>>, client[d][m.recipient].ism)
        /\ UNCHANGED igpVars
        /\ \/ /\ m.recipient = Token
              /\ TransferFromRemote(d, authority, m.origin, m.sender, m.body)
              /\ UNCHANGED hello
           \/ /\ m.recipient = Hello
              /\ HelloHandle(d, authority, m.origin)
              /\ UNCHANGED pluginVars

Next ==
    \E d \in Domains :
        \/ \E w \in Admins, i \in RouteIsms, g \in RouteIgps :
                InitializeToken(d, w, i, g) /\ UNCHANGED hello
        \/ TokenAdmin(d)
        \/ HelloAdmin(d)
        \/ Transfer(d)
        \/ Send(d)
        \/ Forge(d)
        \/ Deliver(d)
        \/ FundAtaPayer(d) /\ UNCHANGED hello

Spec == Init /\ [][Next]_vars
----------------------------------------------------------------------------
(* What the modules compose to keeps its types. *)
TypeOK ==
    /\ MailboxTypeOK
    /\ \A d \in Domains :
        /\ balance[d] \in [Wallets -> Nat]
        /\ collateral[d] \in Nat
        /\ ata[d] \subseteq Wallets
        /\ ataPayer[d] \in 0..MaxAtaPayer
        /\ \A p \in Programs : client[d][p] # None =>
            /\ client[d][p].owner \in Owners
            /\ client[d][p].ism \in RouteIsms

(* A message that a program with a paymaster dispatches is paid for in the *)
(* same transaction: the step creates a payment account for its nonce and  *)
(* destination, for at least the gas configured and any overhead.          *)
PaidWithDispatch ==
    [][\A d \in IgpDomains : \A u \in DOMAIN dispatched'[d] \ DOMAIN dispatched[d] :
        LET m == dispatched'[d][u]
            payment == gasPayments'[d][u]
        IN  m.sender \in Programs /\ client[d][m.sender].igp # <<>> =>
                /\ u \in DOMAIN gasPayments'[d] \ DOMAIN gasPayments[d]
                /\ payment.message_id.nonce = m.nonce
                /\ payment.destination_domain = m.destination
                /\ m.sender = Token =>
                    payment.gas_amount >= client[d][Token].gas[m.destination]]_vars

(* Whatever the order of transfers, deliveries and retries, the accounts   *)
(* that pay for others stay rent exempt, and a greeting is counted once    *)
(* for each message sent and received.                                     *)
RouteAccounts == RouteRentExempt /\ HelloCounts
============================================================================
