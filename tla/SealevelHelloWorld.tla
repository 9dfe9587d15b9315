------------------------- MODULE SealevelHelloWorld ------------------------
(***************************************************************************)
(* The helloworld program (sealevel/programs/helloworld): a router client  *)
(* that counts what it sends and receives in a storage account whose size  *)
(* changes only when routers are enrolled.                                 *)
(***************************************************************************)
EXTENDS SealevelRouter

CONSTANTS
    Hello,             \* the program
    HandleGasAmount    \* HANDLE_GAS_AMOUNT

VARIABLE hello         \* hello[d]: counters and allocated bytes of the storage

NewHello == [sent |-> 0, received |-> 0, sent_to |-> <<>>, received_from |-> <<>>]

Entries(map) == Cardinality(DOMAIN map)

Bump(map, key) == MapSet(map, key, <<(IF key \in DOMAIN map THEN map[key] ELSE 0) + 1>>)

Touch(map, key) == IF key \in DOMAIN map THEN map ELSE MapSet(map, key, <<0>>)

(* HelloWorldStorage::size with the initialized byte; the lengths of the   *)
(* three maps are not counted, but the values of absent options are.       *)
HelloSize(c, h) ==
    185 + 12 * (Entries(h.sent_to) + Entries(h.received_from)) + 36 * Entries(c.routers)

(* What the serialized storage takes. *)
HelloBytes(c, h) ==
    HelloSize(c, h) + 12 - (IF c.ism = <<>> THEN 32 ELSE 0)
        - (IF c.igp = <<>> THEN 65 ELSE 0) - (IF c.owner = <<>> THEN 32 ELSE 0)

(* AccountData::store without reallocation. *)
HelloStore(d, len, c, h) ==
    /\ HelloBytes(c, h) <= len
    /\ hello' = [hello EXCEPT ![d] = [counts |-> h, len |-> len]]

InitHelloWorld(d, payer, ism, igp) ==
    /\ Uninitialized(client[d][Hello])
    /\ Configure
    /\ client' = [client EXCEPT ![d][Hello] = NewClient(payer, ism, igp)]
    /\ HelloStore(d, HelloSize(client'[d][Hello], NewHello), client'[d][Hello], NewHello)
    /\ UNCHANGED <<inbox, outbox, dispatched, processed, ismOwner, domainData,
                   principal, igpVars>>

SendHelloWorld(d, unique, destination, message) ==
    /\ ~Uninitialized(client[d][Hello])
    /\ RouterDispatchWithGas(d, Hello, unique, destination, message, <<HandleGasAmount>>)
    /\ HelloStore(d, hello[d].len, client[d][Hello],
                  [hello[d].counts EXCEPT !.sent = @ + 1, !.sent_to = Bump(@, destination)])
    /\ UNCHANGED client

(* handle checks the process authority and not the sender. *)
HelloHandle(d, authority, origin) ==
    /\ ~Uninitialized(client[d][Hello])
    /\ EnsureProcessAuthority(d, Hello, authority)
    /\ HelloStore(d, hello[d].len, client[d][Hello],
                  [hello[d].counts EXCEPT !.received = @ + 1,
                                          !.received_from = Bump(@, origin)])
    /\ UNCHANGED client

(* enroll_remote_routers: an absent router makes the unwrap panic. *)
EnrollHelloRouters(d, domain, router, signer) ==
    /\ router # <<>>
    /\ EnrollRemoteRouters(d, Hello, domain, router, signer)
    /\ LET h == [hello[d].counts EXCEPT !.sent_to = Touch(@, domain),
                                        !.received_from = Touch(@, domain)]
       IN  HelloStore(d, Larger(hello[d].len, HelloSize(client'[d][Hello], h)),
                      client'[d][Hello], h)

SetHelloIsm(d, ism, signer) ==
    /\ SetInterchainSecurityModule(d, Hello, ism, signer)
    /\ HelloStore(d, hello[d].len, client'[d][Hello], hello[d].counts)
----------------------------------------------------------------------------
(* The counters agree with the Mailbox: every message that was processed   *)
(* for the program was counted once, under its origin, and every message   *)
(* it dispatched under its destination.                                    *)
HelloCounts ==
    \A d \in Domains : client[d][Hello] # None =>
        LET h == hello[d].counts
            count(map, k) == IF k \in DOMAIN map THEN map[k] ELSE 0
            received(o) == {m \in DOMAIN processed[d] : m.recipient = Hello /\ m.origin = o}
            sent(to) == {m \in Range(outbox[d].tree) : m.sender = Hello /\ m.destination = to}
        IN  \A o \in Domains :
                /\ count(h.received_from, o) = Cardinality(received(o))
                /\ count(h.sent_to, o) = Cardinality(sent(o))
============================================================================
