---------------------------- MODULE SealevelWarp ---------------------------
(***************************************************************************)
(* The warp route programs: the token library                              *)
(* (libraries/hyperlane-sealevel-token) with the native, collateral and    *)
(* synthetic plugins (programs/hyperlane-sealevel-token and its variants). *)
(* A token message is <<recipient, amount>>, in remote decimals.           *)
(* Everybody may own a token account; the associated token account of a    *)
(* wallet that has none is created at the expense of the ATA payer.        *)
(***************************************************************************)
EXTENDS SealevelRouter, Integers

CONSTANTS
    Token,           \* the program of the route, the same key on every chain
    Decimals,        \* Decimals[d]: decimals of the token on chain d
    RemoteDecimals,  \* decimals of the amounts in messages
    Amounts,         \* Amounts[d]: local amounts that wallets try to transfer
    RentMin,         \* rent of an account without data
    AtaRent,         \* rent of an associated token account
    MaxAtaPayer      \* bound: lamports that others send to the ATA payer

VARIABLES
    plugin,       \* plugin[d]: the kind of the token program of chain d
    balance,      \* balance[d][w]: tokens (lamports if native) of wallet w
    collateral,   \* collateral[d]: what the collateral PDA or escrow holds
    ata,          \* ata[d]: the wallets with an associated token account
    ataPayer      \* ataPayer[d]: lamports of the ATA payer PDA

pluginVars == <<plugin, balance, collateral, ata, ataPayer>>

(* HyperlaneToken::local_amount_to_remote_amount and its inverse. *)
LocalToRemote(d, amount) == ConvertDecimals(amount, Decimals[d], RemoteDecimals)

RemoteToLocal(d, amount) == ConvertDecimals(amount, RemoteDecimals, Decimals[d])

(* The initialize of the plugins, which create the accounts of the plugin: *)
(* the native collateral PDA; the escrow account, or the mint, and the ATA *)
(* payer.  Lamports sent to an address before it is created are kept.      *)
NativeInitialize(d) ==
    /\ collateral' = [collateral EXCEPT ![d] = RentMin]
    /\ UNCHANGED ataPayer

CollateralInitialize(d) ==
    /\ collateral' = [collateral EXCEPT ![d] = 0]
    /\ ataPayer' = [ataPayer EXCEPT ![d] = Larger(@, RentMin)]

SyntheticInitialize(d) ==
    /\ ataPayer' = [ataPayer EXCEPT ![d] = Larger(@, RentMin)]
    /\ UNCHANGED collateral

(* HyperlaneSealevelToken::initialize *)
InitializeToken(d, payer, ism, igp) ==
    /\ Uninitialized(client[d][Token])
    /\ Configure
    /\ client' = [client EXCEPT ![d][Token] = NewClient(payer, ism, igp)]
    /\ \/ plugin[d] = "native" /\ NativeInitialize(d)
       \/ plugin[d] = "collateral" /\ CollateralInitialize(d)
       \/ plugin[d] = "synthetic" /\ SyntheticInitialize(d)
    /\ UNCHANGED <<inbox, outbox, dispatched, processed, ismOwner, domainData,
                   principal, igpVars, plugin, balance, ata>>

(* The transfer_in of the plugins: lamports or tokens move to the          *)
(* collateral, or the sender's tokens are burned.                          *)
NativeTransferIn(d, w, amount) ==
    /\ plugin[d] = "native"
    /\ collateral' = [collateral EXCEPT ![d] = @ + amount]

CollateralTransferIn(d, w, amount) ==
    /\ plugin[d] = "collateral"
    /\ w \in ata[d]
    /\ collateral' = [collateral EXCEPT ![d] = @ + amount]

SyntheticTransferIn(d, w, amount) ==
    /\ plugin[d] = "synthetic"
    /\ w \in ata[d]
    /\ UNCHANGED collateral

TransferIn(d, w, amount) ==
    /\ balance[d][w] >= amount
    /\ \/ NativeTransferIn(d, w, amount)
       \/ CollateralTransferIn(d, w, amount)
       \/ SyntheticTransferIn(d, w, amount)
    /\ balance' = [balance EXCEPT ![d][w] = @ - amount]
    /\ UNCHANGED <<plugin, ata, ataPayer>>

(* transfer_out of the native plugin. *)
NativeTransferOut(d, w, amount) ==
    /\ plugin[d] = "native"
    /\ collateral[d] - amount >= RentMin
    /\ collateral' = [collateral EXCEPT ![d] = @ - amount]
    /\ UNCHANGED <<ata, ataPayer>>

(* create_associated_token_account_idempotent.  The runtime refuses a      *)
(* transaction that leaves the payer with less than its rent, not zero.    *)
CreateAtaIdempotent(d, w) ==
    /\ ata' = [ata EXCEPT ![d] = @ \cup {w}]
    /\ ataPayer' = [ataPayer EXCEPT ![d] = IF w \in ata[d] THEN @ ELSE @ - AtaRent]
    /\ ataPayer'[d] = 0 \/ ataPayer'[d] >= RentMin

CollateralTransferOutUnchecked(d, w, amount) ==
    /\ plugin[d] = "collateral"
    /\ CreateAtaIdempotent(d, w)
    /\ collateral[d] >= amount
    /\ collateral' = [collateral EXCEPT ![d] = @ - amount]

(* transfer_out of the collateral plugin. *)
CollateralTransferOut(d, w, amount) ==
    /\ plugin[d] = "collateral"
    /\ CreateAtaIdempotent(d, w)
    /\ ataPayer'[d] >= RentMin
    /\ collateral[d] >= amount
    /\ collateral' = [collateral EXCEPT ![d] = @ - amount]

(* transfer_out of the synthetic plugin: what it checks to be rent exempt  *)
(* is the new token account, which always is.                              *)
SyntheticTransferOut(d, w, amount) ==
    /\ plugin[d] = "synthetic"
    /\ CreateAtaIdempotent(d, w)
    /\ UNCHANGED collateral

TransferOut(d, w, amount) ==
    /\ \/ NativeTransferOut(d, w, amount)
       \/ CollateralTransferOut(d, w, amount)
       \/ SyntheticTransferOut(d, w, amount)
    /\ balance' = [balance EXCEPT ![d][w] = @ + amount]
    /\ UNCHANGED plugin

TransferRemote(d, w, unique, destination, recipient, amount) ==
    /\ ~Uninitialized(client[d][Token])
    /\ TransferIn(d, w, amount)
    /\ RouterDispatchWithGas(d, Token, unique, destination,
                             <<recipient, LocalToRemote(d, amount)>>,
                             DestinationGas(d, Token, destination))
    /\ UNCHANGED client

(* Handle: the signer of the authority account is whoever calls. *)
TransferFromRemote(d, authority, origin, sender, body) ==
    /\ ~Uninitialized(client[d][Token])
    /\ EnsureValidRouterMessage(d, Token, authority, origin, sender)
    /\ RemoteToLocal(d, body[2]) <= MaxU64
    /\ TransferOut(d, body[1], RemoteToLocal(d, body[2]))
    /\ UNCHANGED client

(* A system transfer to the ATA payer, which anyone may make. *)
FundAtaPayer(d) ==
    /\ plugin[d] # "native"
    /\ ataPayer[d] + AtaRent <= MaxAtaPayer
    /\ ataPayer' = [ataPayer EXCEPT ![d] = @ + AtaRent]
    /\ UNCHANGED <<routerVars, client, plugin, balance, collateral, ata>>
----------------------------------------------------------------------------
(* All amounts in the unit of the finest decimals. *)
Finest == Max({Decimals[d] : d \in Domains} \cup {RemoteDecimals})
LocalValue(d, amount) == amount * 10^(Finest - Decimals[d])
RemoteValue(amount) == amount * 10^(Finest - RemoteDecimals)

Backed == {d \in Domains : plugin[d] # "synthetic"}

Locked(d) ==
    IF client[d][Token] = None THEN 0
    ELSE collateral[d] - (IF plugin[d] = "native" THEN RentMin ELSE 0)

Supply(d) == MapThenSumSet(LAMBDA w : balance[d][w], Wallets)

\* The transfers dispatched by the route and not delivered yet.
InFlight ==
    {m \in UNION {Range(outbox[d].tree) : d \in {d \in Domains : outbox[d] # None}} :
        m.sender = Token /\ m.recipient = Token /\ m \notin DOMAIN processed[m.destination]}

(* The collateral covers all that exists elsewhere: tokens minted and      *)
(* transfers on their way, whatever the decimals of the chains round off,  *)
(* whoever dispatches or handles forged token messages, and whichever      *)
(* routers are enrolled when.                                              *)
Backing ==
    MapThenSumSet(LAMBDA d : LocalValue(d, Locked(d)), Backed)
        >= MapThenSumSet(LAMBDA d : LocalValue(d, Supply(d)), Domains \ Backed)
            + MapThenSumSet(LAMBDA m : RemoteValue(m.body[2]), InFlight)

(* No account of the route falls below its rent: a collateral account or   *)
(* an ATA payer that did would be purged or refuse every later transfer.   *)
RouteRentExempt ==
    \A d \in Domains : client[d][Token] # None =>
        /\ plugin[d] = "native" => collateral[d] >= RentMin
        /\ plugin[d] = "collateral" => ataPayer[d] >= RentMin
============================================================================
