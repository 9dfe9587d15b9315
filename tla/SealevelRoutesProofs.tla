----------------------- MODULE SealevelRoutesProofs -----------------------
(***************************************************************************)
(* The warp route and the helloworld deployment of SealevelRoutes, for any *)
(* chains, wallets, plugins, paymasters, amounts and decimals: what a      *)
(* program dispatches is paid for, no account of a route falls below its   *)
(* rent, the counters of helloworld agree with the Mailbox, and what the   *)
(* route holds covers what it minted and what is on its way.               *)
(***************************************************************************)
EXTENDS SealevelRoutes, SetSums, FiniteSetTheorems, TLAPS

---------------------------------------------------------------------------
(* The inductive invariant                                                 *)

(* A program enrols itself only, its key being the same on every chain. *)
ClientsSound ==
    /\ client \in [Domains -> [Programs -> {None} \cup ClientData]]
    /\ \A d \in Domains : \A p \in {Token, Hello} : client[d][p] # None =>
            \A o \in DOMAIN client[d][p].routers : client[d][p].routers[o] = p

(* Of the Mailbox: the leaves carry their place, and one addressed to the  *)
(* route has an amount.                                                    *)
Leaves(tree) ==
    /\ tree \in Seq(RouteMessage)
    /\ \A n \in 1 .. Len(tree) : tree[n].nonce = n - 1
    /\ \A n \in 1 .. Len(tree) : tree[n].recipient = Token => tree[n].body \in Wallets \X Nat

MailSound ==
    /\ outbox \in [Domains -> [local_domain : Domains, owner : Owners, tree : Seq(RouteMessage)]]
    /\ \A d \in Domains : Leaves(outbox[d].tree)
    /\ processed = [d \in Domains |-> processed[d]]
    /\ \A d \in Domains : IsFiniteSet(DOMAIN processed[d])

(* Of the payments: the overhead accounts stay as they were deployed. *)
PaymentsSound ==
    /\ dispatched = [d \in Domains |-> dispatched[d]]
    /\ gasPayments = [d \in IgpDomains |-> gasPayments[d]]
    /\ overheadIgps = [d \in IgpDomains |-> [o \in OverheadIgps |-> HomeOverhead]]

(* Of the tokens. *)
TokensSound ==
    /\ collateral \in [Domains -> Int]
    /\ ataPayer \in [Domains -> Int]
    /\ RouteRentExempt

(* Of helloworld: where it is not set up it has no mail. *)
Received(mail, d, o) == {m \in DOMAIN mail[d] : m.recipient = Hello /\ m.origin = o}
Sent(tree, to) == {m \in Range(tree) : m.sender = Hello /\ m.destination = to}
Count(map, k) == IF k \in DOMAIN map THEN map[k] ELSE 0

CountersAre(h, d, tree, mail) ==
    /\ h = [sent |-> h.sent, received |-> h.received, sent_to |-> h.sent_to,
            received_from |-> h.received_from]
    /\ \A o \in Domains : /\ Count(h.received_from, o) = Cardinality(Received(mail, d, o))
                          /\ Count(h.sent_to, o) = Cardinality(Sent(tree, o))

HelloSound ==
    /\ hello = [d \in Domains |-> hello[d]]
    /\ \A d \in Domains :
        IF client[d][Hello] = None
        THEN \A o \in Domains : Received(processed, d, o) = {} /\ Sent(outbox[d].tree, o) = {}
        ELSE CountersAre(hello[d].counts, d, outbox[d].tree, processed)

RoutesInv == ClientsSound /\ MailSound /\ PaymentsSound /\ TokensSound /\ HelloSound

---------------------------------------------------------------------------
(* Helpers                                                                 *)

LEMMA MapSetTyped ==
    ASSUME NEW V, NEW map \in UNION {[S -> V] : S \in SUBSET Domains}, NEW key \in Domains,
           NEW value \in {<<v>> : v \in V} \cup {<<>>}
    PROVE  /\ MapSet(map, key, value) \in UNION {[S -> V] : S \in SUBSET Domains}
           /\ \A k \in DOMAIN MapSet(map, key, value) :
                \/ k \in DOMAIN map /\ MapSet(map, key, value)[k] = map[k]
                \/ value = <<MapSet(map, key, value)[k]>>
  <1>1. PICK S \in SUBSET Domains : map \in [S -> V]
    OBVIOUS
  <1>0. DOMAIN map = S
    BY <1>1
  <1>2. CASE value = <<>>
    <2>1. MapSet(map, key, value) = [k \in S \ {key} |-> map[k]]
      BY <1>2, <1>0 DEF MapSet
    <2>2. MapSet(map, key, value) \in [S \ {key} -> V] /\ S \ {key} \in SUBSET Domains
      BY <1>1, <2>1
    <2>. QED
      BY <1>1, <2>1, <2>2
  <1>3. CASE value # <<>>
    <2>1. PICK v \in V : value = <<v>>
      BY <1>3
    <2>2. MapSet(map, key, value) = [k \in S \cup {key} |-> IF k = key THEN v ELSE map[k]]
      <3>1. value[1] = v
        BY <2>1
      <3>. QED
        BY <1>3, <1>0, <3>1 DEF MapSet
    <2>3. MapSet(map, key, value) \in [S \cup {key} -> V] /\ S \cup {key} \in SUBSET Domains
      BY <1>1, <2>2
    <2>. QED
      BY <1>1, <2>1, <2>2, <2>3
  <1>. QED
    BY <1>2, <1>3

LEMMA DecimalsConverted ==
    ASSUME NEW d \in Domains, NEW n \in Nat
    PROVE  LocalToRemote(d, n) \in Nat /\ RemoteToLocal(d, n) \in Nat
  <1> DEFINE D == Decimals[d]
             R == RemoteDecimals
  <1>1. D \in Nat /\ R \in Nat /\ \A k \in 0..(D + R) : 10^k \in Nat \ {0}
    BY RoutesAssumption
  <1>2. ASSUME NEW k \in Nat, k <= D + R
        PROVE  10^k \in Nat /\ 10^k > 0
    BY <1>1, <1>2
  <1>3. ASSUME NEW p \in Nat, p > 0
        PROVE  n \div p \in Nat /\ n * p \in Nat
    BY <1>3
  <1>. HIDE DEF D, R
  <1>4. ASSUME NEW a \in Nat, NEW b \in Nat, a + b <= D + R
        PROVE  ConvertDecimals(n, a, b) \in Nat
    <2>1. CASE a > b
      <3>1. a - b \in Nat /\ a - b <= D + R
        BY <1>1, <1>4, <2>1
      <3>2. n \div 10^(a - b) \in Nat
        BY <1>2, <1>3, <3>1
      <3>. QED
        BY <2>1, <3>2 DEF ConvertDecimals
    <2>2. CASE ~(a > b)
      <3>1. b - a \in Nat /\ b - a <= D + R
        BY <1>1, <1>4, <2>2
      <3>2. n * 10^(b - a) \in Nat
        BY <1>2, <1>3, <3>1
      <3>. QED
        BY <2>2, <3>2 DEF ConvertDecimals
    <2>. QED
      BY <2>1, <2>2
  <1>5. D + R = R + D
    BY <1>1
  <1>. QED
    BY <1>1, <1>4, <1>5 DEF LocalToRemote, RemoteToLocal, D, R

LEMMA LeavesFinite ==
    ASSUME NEW tree \in Seq(RouteMessage)
    PROVE  /\ IsFiniteSet(Range(tree))
           /\ \A to : IsFiniteSet(Sent(tree, to))
  <1>1. DOMAIN tree = 1 .. Len(tree) /\ Len(tree) \in Nat
    OBVIOUS
  <1>2. IsFiniteSet(1 .. Len(tree))
    BY <1>1, FS_Interval
  <1>3. tree \in Surjection(1 .. Len(tree), Range(tree))
    BY <1>1 DEF Surjection, Range
  <1>4. IsFiniteSet(Range(tree))
    BY <1>2, <1>3, FS_Surjection
  <1>. QED
    BY <1>4, FS_Subset DEF Sent

(* A leaf is new: no other one has its nonce. *)
LEMMA LeafAdded ==
    ASSUME NEW tree, Leaves(tree), NEW m \in RouteMessage, m.nonce = Len(tree),
           m.recipient = Token => m.body \in Wallets \X Nat
    PROVE  /\ Leaves(Append(tree, m))
           /\ Range(Append(tree, m)) = Range(tree) \cup {m}
           /\ m \notin Range(tree)
  <1>1. tree \in Seq(RouteMessage) /\ DOMAIN tree = 1 .. Len(tree) /\ Len(tree) \in Nat
    BY DEF Leaves
  <1> DEFINE t == Append(tree, m)
  <1>2. /\ t \in Seq(RouteMessage) /\ DOMAIN t = 1 .. Len(t) /\ Len(t) = Len(tree) + 1
        /\ t[Len(tree) + 1] = m /\ \A n \in 1 .. Len(tree) : t[n] = tree[n]
    BY <1>1
  <1>. HIDE DEF t
  <1>3. \A n \in 1 .. Len(t) : n \in 1 .. Len(tree) \/ n = Len(tree) + 1
    BY <1>1, <1>2
  <1>4. Leaves(t)
    <2>1. \A n \in 1 .. Len(t) : t[n].nonce = n - 1
      BY <1>1, <1>2, <1>3 DEF Leaves
    <2>2. \A n \in 1 .. Len(t) : t[n].recipient = Token => t[n].body \in Wallets \X Nat
      BY <1>1, <1>2, <1>3 DEF Leaves
    <2>. QED
      BY <1>2, <2>1, <2>2 DEF Leaves
  <1>5. Range(t) = Range(tree) \cup {m}
    <2>1. \A n \in 1 .. Len(tree) : n \in 1 .. Len(t) /\ t[n] = tree[n]
      BY <1>1, <1>2
    <2>2. Len(tree) + 1 \in 1 .. Len(t)
      BY <1>1, <1>2
    <2>. QED
      BY <1>1, <1>2, <1>3, <2>1, <2>2 DEF Range
  <1>6. m \notin Range(tree)
    <2>1. \A n \in 1 .. Len(tree) : tree[n].nonce # m.nonce
      BY <1>1 DEF Leaves
    <2>. QED
      BY <1>1, <2>1 DEF Range
  <1>. QED
    BY <1>4, <1>5, <1>6 DEF t

LEMMA SentCounted ==
    ASSUME NEW tree, Leaves(tree), NEW m \in RouteMessage, m.nonce = Len(tree),
           m.recipient = Token => m.body \in Wallets \X Nat, NEW to
    PROVE  LET t == Append(tree, m) IN
           IF m.sender = Hello /\ m.destination = to
           THEN Cardinality(Sent(t, to)) = Cardinality(Sent(tree, to)) + 1
           ELSE Sent(t, to) = Sent(tree, to)
  <1>1. /\ Range(Append(tree, m)) = Range(tree) \cup {m} /\ m \notin Range(tree)
        /\ IsFiniteSet(Sent(tree, to))
    BY LeafAdded, LeavesFinite DEF Leaves
  <1>2. CASE m.sender = Hello /\ m.destination = to
    <2>1. Sent(Append(tree, m), to) = Sent(tree, to) \cup {m} /\ m \notin Sent(tree, to)
      BY <1>1, <1>2 DEF Sent
    <2>. QED
      BY <1>1, <1>2, <2>1, FS_AddElement
  <1>3. CASE ~(m.sender = Hello /\ m.destination = to)
    BY <1>1, <1>3 DEF Sent
  <1>. QED
    BY <1>2, <1>3

LEMMA ReceivedCounted ==
    ASSUME NEW mail, NEW new, NEW d, NEW m, NEW o, IsFiniteSet(DOMAIN mail[d]),
           m \notin DOMAIN mail[d], DOMAIN new[d] = DOMAIN mail[d] \cup {m}
    PROVE  IF m.recipient = Hello /\ m.origin = o
           THEN Cardinality(Received(new, d, o)) = Cardinality(Received(mail, d, o)) + 1
           ELSE Received(new, d, o) = Received(mail, d, o)
  <1>1. IsFiniteSet(Received(mail, d, o))
    BY FS_Subset DEF Received
  <1>2. CASE m.recipient = Hello /\ m.origin = o
    <2>1. Received(new, d, o) = Received(mail, d, o) \cup {m} /\ m \notin Received(mail, d, o)
      BY <1>2 DEF Received
    <2>. QED
      BY <1>1, <1>2, <2>1, FS_AddElement
  <1>3. CASE ~(m.recipient = Hello /\ m.origin = o)
    BY <1>3 DEF Received
  <1>. QED
    BY <1>2, <1>3

---------------------------------------------------------------------------
(* What a dispatch does to the Mailbox and to the paymaster                *)

NewLeaf(d, u, m) ==
    /\ m \in RouteMessage /\ m.nonce = Len(outbox[d].tree)
    /\ m.recipient = Token => m.body \in Wallets \X Nat
    /\ u \notin DOMAIN dispatched[d]
    /\ outbox' = [outbox EXCEPT ![d].tree = Append(@, m)]
    /\ dispatched' = [dispatched EXCEPT ![d] =
            [v \in DOMAIN @ \cup {u} |-> IF v = u THEN m ELSE @[v]]]
    /\ UNCHANGED processed

LEMMA DispatchAddsLeaf ==
    ASSUME MailSound, NEW d \in Domains, NEW p, NEW u, NEW s \in Principals, NEW to \in Domains,
           NEW r \in Programs, NEW b \in {Greeting} \cup (Wallets \X Nat),
           r = Token => b \in Wallets \X Nat, OutboxDispatch(d, p, u, s, to, r, b)
    PROVE  \E m : NewLeaf(d, u, m) /\ m.sender = s /\ m.destination = to /\ m.body = b
  <1> DEFINE m == [version |-> VERSION, nonce |-> Len(outbox[d].tree),
                   origin |-> outbox[d].local_domain, sender |-> s, destination |-> to,
                   recipient |-> r, body |-> b]
  <1>1. outbox[d].local_domain \in Domains /\ Len(outbox[d].tree) \in Nat
    BY DEF MailSound, Leaves
  <1>2. m \in RouteMessage
    BY <1>1 DEF RouteMessage
  <1>3. /\ u \notin DOMAIN dispatched[d]
        /\ outbox' = [outbox EXCEPT ![d].tree = Append(@, m)]
        /\ dispatched' = [dispatched EXCEPT ![d] =
                [v \in DOMAIN @ \cup {u} |-> IF v = u THEN m ELSE @[v]]]
        /\ UNCHANGED processed
    BY DEF OutboxDispatch, MessageAccountUnused
  <1>4. /\ m.nonce = Len(outbox[d].tree) /\ m.sender = s /\ m.destination = to
        /\ m.recipient = r /\ m.body = b
    OBVIOUS
  <1>. HIDE DEF m
  <1>. QED
    BY <1>2, <1>3, <1>4 DEF NewLeaf

LEMMA LeafKeepsMail ==
    ASSUME MailSound, PaymentsSound, NEW d \in Domains, NEW u, NEW m, NewLeaf(d, u, m)
    PROVE  /\ MailSound'
           /\ outbox'[d].tree = Append(outbox[d].tree, m)
           /\ \A e \in Domains \ {d} : outbox'[e].tree = outbox[e].tree
           /\ DOMAIN dispatched' = Domains /\ dispatched' = [e \in Domains |-> dispatched'[e]]
           /\ DOMAIN dispatched'[d] = DOMAIN dispatched[d] \cup {u} /\ dispatched'[d][u] = m
           /\ \A e \in Domains \ {d} : dispatched'[e] = dispatched[e]
  <1> DEFINE tree == outbox[d].tree
  <1>1. /\ outbox \in [Domains -> [local_domain : Domains, owner : Owners, tree : Seq(RouteMessage)]]
        /\ Leaves(tree) /\ Len(tree) \in Nat
    BY DEF MailSound, Leaves
  <1>2. Leaves(Append(tree, m)) /\ Append(tree, m) \in Seq(RouteMessage)
    <2>1. /\ m \in RouteMessage /\ m.nonce = Len(tree)
          /\ m.recipient = Token => m.body \in Wallets \X Nat
      BY DEF NewLeaf
    <2>. HIDE DEF tree
    <2>2. Leaves(Append(tree, m))
      BY <1>1, <2>1, LeafAdded
    <2>. QED
      BY <2>2 DEF Leaves
  <1>3. outbox' = [outbox EXCEPT ![d] = [outbox[d] EXCEPT !.tree = Append(tree, m)]]
    BY <1>1 DEF NewLeaf
  <1>4. /\ outbox' \in [Domains -> [local_domain : Domains, owner : Owners, tree : Seq(RouteMessage)]]
        /\ outbox'[d].tree = Append(tree, m) /\ \A e \in Domains \ {d} : outbox'[e] = outbox[e]
    <2>1. [outbox[d] EXCEPT !.tree = Append(tree, m)]
            \in [local_domain : Domains, owner : Owners, tree : Seq(RouteMessage)]
      <3>1. outbox[d] \in [local_domain : Domains, owner : Owners, tree : Seq(RouteMessage)]
        BY <1>1
      <3> DEFINE t == Append(tree, m)
      <3>2. t \in Seq(RouteMessage)
        BY <1>2
      <3>. HIDE DEF t
      <3>3. [outbox[d] EXCEPT !.tree = t]
                \in [local_domain : Domains, owner : Owners, tree : Seq(RouteMessage)]
        BY <3>1, <3>2
      <3>. QED
        BY <3>3 DEF t
    <2>2. [outbox[d] EXCEPT !.tree = Append(tree, m)].tree = Append(tree, m)
      BY <1>1
    <2>. QED
      BY <1>1, <1>3, <2>1, <2>2
  <1>5. ASSUME NEW e \in Domains
        PROVE  Leaves(outbox'[e].tree)
    <2>1. CASE e = d
      BY <1>2, <1>4, <2>1
    <2>2. CASE e # d
      BY <1>4, <2>2 DEF MailSound
    <2>. QED
      BY <2>1, <2>2
  <1>6. (\A e \in Domains : Leaves(outbox[e].tree))'
    BY <1>5 DEF Leaves
  <1>7. MailSound'
    BY <1>4, <1>6 DEF MailSound, NewLeaf
  <1>8. /\ DOMAIN dispatched' = Domains /\ dispatched' = [e \in Domains |-> dispatched'[e]]
        /\ DOMAIN dispatched'[d] = DOMAIN dispatched[d] \cup {u} /\ dispatched'[d][u] = m
        /\ \A e \in Domains \ {d} : dispatched'[e] = dispatched[e]
    <2>1. dispatched = [e \in Domains |-> dispatched[e]]
      BY DEF PaymentsSound
    <2>2. dispatched' = [dispatched EXCEPT ![d] =
                [v \in DOMAIN dispatched[d] \cup {u} |-> IF v = u THEN m ELSE dispatched[d][v]]]
      BY <2>1 DEF NewLeaf
    <2>. QED
      BY <2>1, <2>2
  <1>. QED
    BY <1>4, <1>7, <1>8

(* A program dispatches to itself, in its own name. *)
LEMMA RouterAddsLeaf ==
    ASSUME ClientsSound, MailSound, NEW d \in Domains, NEW p \in {Token, Hello}, NEW u,
           NEW to \in Domains, NEW b \in {Greeting} \cup (Wallets \X Nat),
           p = Token => b \in Wallets \X Nat,
           client[d][p] # None, RouterDispatch(d, p, u, to, b)
    PROVE  \E m : NewLeaf(d, u, m) /\ m.sender = p /\ m.destination = to /\ m.body = b
  <1>1. client[d][p].routers[to] = p /\ p \in Programs /\ p \in Principals
    BY RoutesAssumption DEF RouterDispatch, ClientsSound, Principals
  <1>2. OutboxDispatch(d, p, u, p, to, p, b)
    BY <1>1 DEF RouterDispatch
  <1>. QED
    BY <1>1, <1>2, DispatchAddsLeaf

(* ... and pays, if it has a paymaster, for the gas it asks for and what   *)
(* the overhead account adds.                                              *)
LEMMA RouterPays ==
    ASSUME ClientsSound, PaymentsSound, NEW d \in Domains, NEW p \in {Token, Hello}, NEW u,
           NEW to \in Domains, NEW b, NEW gas,
           client[d][p] # None, RouterDispatchWithGas(d, p, u, to, b, gas)
    PROVE  /\ gasPayments' = [e \in IgpDomains |-> gasPayments'[e]]
           /\ UNCHANGED overheadIgps
           /\ d \in IgpDomains /\ client[d][p].igp # <<>> =>
                /\ u \in DOMAIN gasPayments'[d] \ DOMAIN gasPayments[d]
                /\ gasPayments'[d][u].message_id.nonce = Len(outbox[d].tree)
                /\ gasPayments'[d][u].destination_domain = to
                /\ gas # <<>>
                /\ gas[1] \in Nat => gasPayments'[d][u].gas_amount >= gas[1]
  <1> DEFINE igp == client[d][p].igp
             m == [destination |-> to, nonce |-> Len(outbox[d].tree)]
  <1>1. igp \in IgpChoices
    <2>1. p \in Programs
      BY RoutesAssumption
    <2>. QED
      BY <2>1 DEF ClientsSound, ClientData
  <1>2. gasPayments = [e \in IgpDomains |-> gasPayments[e]]
    BY DEF PaymentsSound
  <1>3. CASE igp = <<>>
    BY <1>2, <1>3 DEF RouterDispatchWithGas, igpVars
  <1>4. CASE igp # <<>>
    <2>1. PICK inner \in Igps :
            LET accounts == PaymasterAccounts(igp, inner)
            IN  PayForGas(d, accounts[1], accounts[2], u, m, to, gas[1])
      BY <1>4 DEF RouterDispatchWithGas
    <2>2. d \in IgpDomains /\ gas # <<>>
      BY <1>4 DEF RouterDispatchWithGas
    <2>3. PICK i, overhead :
            /\ overhead = <<>> \/ (\E o \in OverheadIgps : overhead = <<o>>)
            /\ PayForGas(d, i, overhead, u, m, to, gas[1])
      <3> DEFINE accounts == PaymasterAccounts(igp, inner)
      <3>1. CASE \E j \in Igps : igp = <<"Igp", j>>
        <4>1. PICK j \in Igps : igp = <<"Igp", j>>
          BY <3>1
        <4>2. accounts[2] = <<>>
          BY <4>1 DEF PaymasterAccounts
        <4>. QED
          BY <2>1, <4>2
      <3>2. CASE \E o \in OverheadIgps : igp = <<"OverheadIgp", o>>
        <4>1. PICK o \in OverheadIgps : igp = <<"OverheadIgp", o>>
          BY <3>2
        <4>2. accounts[2] = <<o>>
          BY <4>1 DEF PaymasterAccounts
        <4>. QED
          BY <2>1, <4>2
      <3>. QED
        BY <1>1, <1>4, <3>1, <3>2 DEF IgpChoices
    <2> DEFINE amount == GasAmount(d, overhead, to, gas[1])
               paid == [sequence_number |-> paymentCount[d], igp |-> i,
                        destination_domain |-> to, message_id |-> m, gas_amount |-> amount,
                        payment |-> QuoteGasPayment(igps[d][i].gas_oracles[to], amount)]
    <2>4. /\ u \notin DOMAIN gasPayments[d]
          /\ gasPayments' = [gasPayments EXCEPT ![d] = MapSet(@, u, <<paid>>)]
          /\ UNCHANGED overheadIgps
      BY <2>3 DEF PayForGas, PaymentAccountUnused
    <2>5. gas[1] \in Nat => amount >= gas[1]
      <3>1. CASE overhead = <<>>
        BY <3>1 DEF GasAmount
      <3>2. CASE \E o \in OverheadIgps : overhead = <<o>>
        <4>1. PICK o \in OverheadIgps : overhead = <<o>>
          BY <3>2
        <4>2. overheadIgps[d][overhead[1]] = HomeOverhead /\ overhead # <<>>
          BY <2>2, <4>1 DEF PaymentsSound
        <4>. QED
          BY <4>2, RoutesAssumption DEF GasAmount
      <3>. QED
        BY <2>3, <3>1, <3>2
    <2>6. /\ paid.destination_domain = to /\ paid.gas_amount = amount
          /\ paid.message_id.nonce = Len(outbox[d].tree)
      OBVIOUS
    <2>. HIDE DEF paid, amount
    <2>7. MapSet(gasPayments[d], u, <<paid>>) =
            [k \in DOMAIN gasPayments[d] \cup {u} |-> IF k = u THEN paid ELSE gasPayments[d][k]]
      BY DEF MapSet
    <2>8. /\ gasPayments' = [e \in IgpDomains |-> gasPayments'[e]]
          /\ gasPayments'[d] = MapSet(gasPayments[d], u, <<paid>>)
      BY <1>2, <2>2, <2>4
    <2>9. u \in DOMAIN gasPayments'[d] /\ gasPayments'[d][u] = paid
      BY <2>7, <2>8
    <2>. QED
      BY <2>2, <2>4, <2>5, <2>6, <2>8, <2>9
  <1>. QED
    BY <1>3, <1>4

---------------------------------------------------------------------------
(* The parts of the invariant, one after the other                         *)

(* An owner replaces a part of what a program stores. *)
Reconfigured(d, p, c) ==
    /\ client[d][p] # None /\ c \in ClientData
    /\ \A o \in DOMAIN c.routers : c.routers[o] = p
    /\ client' = [client EXCEPT ![d][p] = c]
    /\ UNCHANGED <<outbox, dispatched, processed, igpVars>>

LEMMA SettersReconfigure ==
    ASSUME ClientsSound, NEW d \in Domains, NEW p \in {Token, Hello}, NEW w \in Wallets,
           \/ \E o \in Domains, r \in {<<p>>, <<>>} : EnrollRemoteRouters(d, p, o, r, w)
           \/ \E o \in Domains, g \in {<<g>> : g \in Gas} \cup {<<>>} :
                SetDestinationGasConfigs(d, p, o, g, w)
           \/ \E i \in RouteIsms : SetInterchainSecurityModule(d, p, i, w)
           \/ \E i \in RouteIgps : SetInterchainGasPaymaster(d, p, i, w)
           \/ \E o \in Owners : TransferClientOwnership(d, p, o, w)
    PROVE  \E c : Reconfigured(d, p, c)
  <1> DEFINE c == client[d][p]
  <1>1. p \in Programs
    BY RoutesAssumption
  <1>2. OnlyOwner(d, p, w)
    BY DEF EnrollRemoteRouters, SetDestinationGasConfigs, SetInterchainSecurityModule,
           SetInterchainGasPaymaster, TransferClientOwnership
  <1>3. c # None /\ UNCHANGED <<outbox, dispatched, processed, igpVars>>
    BY <1>2 DEF OnlyOwner, Uninitialized
  <1>4. /\ client \in [Domains -> [Programs -> {None} \cup ClientData]] /\ c \in ClientData
        /\ \A o \in DOMAIN c.routers : c.routers[o] = p
    BY <1>1, <1>3 DEF ClientsSound
  <1>5. ASSUME NEW o \in Domains, NEW r \in {<<p>>, <<>>}, EnrollRemoteRouters(d, p, o, r, w)
        PROVE  \E x : Reconfigured(d, p, x)
    <2> DEFINE map == MapSet(c.routers, o, r)
               x == [c EXCEPT !.routers = map]
    <2>1. c.routers \in UNION {[S -> Programs] : S \in SUBSET Domains}
      BY <1>4 DEF ClientData
    <2>2. r \in {<<v>> : v \in Programs} \cup {<<>>}
      BY <1>1
    <2>3. map \in UNION {[S -> Programs] : S \in SUBSET Domains}
          /\ \A k \in DOMAIN map : (k \in DOMAIN c.routers /\ map[k] = c.routers[k]) \/ r = <<map[k]>>
      <3> DEFINE rs == c.routers
      <3>1. rs \in UNION {[S -> Programs] : S \in SUBSET Domains}
        BY <2>1
      <3>. HIDE DEF rs
      <3>2. /\ MapSet(rs, o, r) \in UNION {[S -> Programs] : S \in SUBSET Domains}
            /\ \A k \in DOMAIN MapSet(rs, o, r) :
                (k \in DOMAIN rs /\ MapSet(rs, o, r)[k] = rs[k]) \/ r = <<MapSet(rs, o, r)[k]>>
        BY <2>2, <3>1, MapSetTyped, Zenon
      <3>. QED
        BY <3>2 DEF rs
    <2>. HIDE DEF map
    <2>4. x \in ClientData /\ x.routers = map
      BY <1>4, <2>3 DEF ClientData
    <2>5. \A k \in DOMAIN map : map[k] = p
      BY <1>4, <2>3
    <2>6. client' = [client EXCEPT ![d][p] = x]
      BY <1>1, <1>4, <1>5 DEF EnrollRemoteRouters, map
    <2>. HIDE DEF x
    <2>. QED
      BY <1>3, <2>4, <2>5, <2>6 DEF Reconfigured
  <1>6. ASSUME NEW o \in Domains, NEW g \in {<<g>> : g \in Gas} \cup {<<>>},
               SetDestinationGasConfigs(d, p, o, g, w)
        PROVE  \E x : Reconfigured(d, p, x)
    <2> DEFINE map == MapSet(c.gas, o, g)
               x == [c EXCEPT !.gas = map]
    <2>1. c.gas \in UNION {[S -> Gas] : S \in SUBSET Domains}
      BY <1>4 DEF ClientData
    <2>2. map \in UNION {[S -> Gas] : S \in SUBSET Domains}
      BY <2>1, MapSetTyped
    <2>. HIDE DEF map
    <2>3. x \in ClientData /\ x.routers = c.routers
      BY <1>4, <2>2 DEF ClientData
    <2>4. client' = [client EXCEPT ![d][p] = x]
      BY <1>1, <1>4, <1>6 DEF SetDestinationGasConfigs, map
    <2>. HIDE DEF x
    <2>. QED
      BY <1>3, <1>4, <2>3, <2>4 DEF Reconfigured
  <1>7. ASSUME NEW i \in RouteIsms, SetInterchainSecurityModule(d, p, i, w)
        PROVE  \E x : Reconfigured(d, p, x)
    <2> DEFINE x == [c EXCEPT !.ism = i]
    <2>1. x \in ClientData /\ x.routers = c.routers
      BY <1>4 DEF ClientData
    <2>2. client' = [client EXCEPT ![d][p] = x]
      BY <1>1, <1>4, <1>7 DEF SetInterchainSecurityModule
    <2>. HIDE DEF x
    <2>. QED
      BY <1>3, <1>4, <2>1, <2>2 DEF Reconfigured
  <1>8. ASSUME NEW i \in RouteIgps, SetInterchainGasPaymaster(d, p, i, w)
        PROVE  \E x : Reconfigured(d, p, x)
    <2> DEFINE x == [c EXCEPT !.igp = i]
    <2>1. x \in ClientData /\ x.routers = c.routers
      BY <1>4, RoutesAssumption DEF ClientData
    <2>2. client' = [client EXCEPT ![d][p] = x]
      BY <1>1, <1>4, <1>8 DEF SetInterchainGasPaymaster
    <2>. HIDE DEF x
    <2>. QED
      BY <1>3, <1>4, <2>1, <2>2 DEF Reconfigured
  <1>9. ASSUME NEW o \in Owners, TransferClientOwnership(d, p, o, w)
        PROVE  \E x : Reconfigured(d, p, x)
    <2> DEFINE x == [c EXCEPT !.owner = o]
    <2>1. x \in ClientData /\ x.routers = c.routers
      BY <1>4 DEF ClientData
    <2>2. client' = [client EXCEPT ![d][p] = x]
      BY <1>1, <1>4, <1>9 DEF TransferClientOwnership
    <2>. HIDE DEF x
    <2>. QED
      BY <1>3, <1>4, <2>1, <2>2 DEF Reconfigured
  <1>. QED
    BY <1>5, <1>6, <1>7, <1>8, <1>9

LEMMA OneClient ==
    ASSUME ClientsSound, NEW d \in Domains, NEW p \in {Token, Hello}, NEW c \in ClientData,
           \A o \in DOMAIN c.routers : c.routers[o] = p,
           client' = [client EXCEPT ![d][p] = c]
    PROVE  /\ ClientsSound'
           /\ client'[d][p] # None
           /\ \A e \in Domains, q \in Programs : e # d \/ q # p => client'[e][q] = client[e][q]
  <1>1. /\ client \in [Domains -> [Programs -> {None} \cup ClientData]] /\ p \in Programs
        /\ Token \in Programs /\ Hello \in Programs
    BY RoutesAssumption DEF ClientsSound
  <1>2. /\ client' \in [Domains -> [Programs -> {None} \cup ClientData]]
        /\ client'[d][p] = c
        /\ \A e \in Domains, q \in Programs : e # d \/ q # p => client'[e][q] = client[e][q]
    BY <1>1
  <1>3. ASSUME NEW e \in Domains, NEW q \in {Token, Hello}, client'[e][q] # None
        PROVE  \A o \in DOMAIN client'[e][q].routers : client'[e][q].routers[o] = q
    <2>1. CASE e = d /\ q = p
      BY <1>2, <2>1
    <2>2. CASE ~(e = d /\ q = p)
      <3>1. client'[e][q] = client[e][q]
        BY <1>1, <1>2, <2>2
      <3>. QED
        BY <1>3, <3>1 DEF ClientsSound
    <2>. QED
      BY <2>1, <2>2
  <1>4. client'[d][p] # None
    BY <1>2, RoutesAssumption
  <1>5. (\A e \in Domains : \A q \in {Token, Hello} : client[e][q] # None =>
            \A o \in DOMAIN client[e][q].routers : client[e][q].routers[o] = q)'
    BY <1>3
  <1>6. (client \in [Domains -> [Programs -> {None} \cup ClientData]])'
    BY <1>2 DEF ClientData
  <1>. QED
    BY <1>2, <1>4, <1>5, <1>6 DEF ClientsSound

(* A program that is set up: nothing enrolled yet. *)
LEMMA NewClientTyped ==
    ASSUME NEW w \in Wallets, NEW i \in RouteIsms, NEW g \in IgpChoices
    PROVE  /\ NewClient(w, i, g) \in ClientData
           /\ DOMAIN NewClient(w, i, g).routers = {}
  <1>1. <<>> \in [{} -> Programs] /\ <<>> \in [{} -> Gas] /\ DOMAIN <<>> = {}
    OBVIOUS
  <1>2. {} \in SUBSET Domains /\ <<w>> \in Owners
    BY DEF Owners
  <1>3. /\ <<>> \in UNION {[S -> Programs] : S \in SUBSET Domains}
        /\ <<>> \in UNION {[S -> Gas] : S \in SUBSET Domains}
    BY <1>1, <1>2
  <1>. QED
    BY <1>1, <1>2, <1>3 DEF NewClient, ClientData

LEMMA MailKept ==
    ASSUME MailSound, UNCHANGED <<outbox, processed>>
    PROVE  MailSound'
  BY DEF MailSound, Leaves

LEMMA PaymentsKept ==
    ASSUME PaymentsSound, UNCHANGED <<dispatched, igpVars>>
    PROVE  PaymentsSound'
  BY DEF PaymentsSound, igpVars

LEMMA ClientsKept ==
    ASSUME ClientsSound, UNCHANGED client
    PROVE  ClientsSound'
  BY DEF ClientsSound

LEMMA TokensKept ==
    ASSUME TokensSound, UNCHANGED <<plugin, collateral, ataPayer>>,
           \A d \in Domains : client[d][Token] = None => client'[d][Token] = None
    PROVE  TokensSound'
  BY DEF TokensSound, RouteRentExempt

(* Helloworld changes on one chain. *)
LEMMA HelloAt ==
    ASSUME HelloSound, NEW d \in Domains,
           hello' = [e \in Domains |-> hello'[e]],
           \A e \in Domains \ {d} :
                /\ hello'[e] = hello[e] /\ outbox'[e].tree = outbox[e].tree
                /\ processed'[e] = processed[e]
                /\ client'[e][Hello] = None <=> client[e][Hello] = None,
           IF client'[d][Hello] = None
           THEN \A o \in Domains : Received(processed', d, o) = {} /\ Sent(outbox'[d].tree, o) = {}
           ELSE CountersAre(hello'[d].counts, d, outbox'[d].tree, processed')
    PROVE  HelloSound'
  <1> DEFINE OnOf(e) ==
        IF client'[e][Hello] = None
        THEN \A o \in Domains : Received(processed', e, o) = {} /\ Sent(outbox'[e].tree, o) = {}
        ELSE CountersAre(hello'[e].counts, e, outbox'[e].tree, processed')
  <1>1. ASSUME NEW e \in Domains \ {d}
        PROVE  OnOf(e)
    <2>1. \A o : Received(processed', e, o) = Received(processed, e, o)
      BY DEF Received
    <2>2. CASE client[e][Hello] = None
      BY <2>1, <2>2 DEF HelloSound
    <2>3. CASE client[e][Hello] # None
      <3>1. CountersAre(hello[e].counts, e, outbox[e].tree, processed)
        BY <2>3 DEF HelloSound
      <3>2. CountersAre(hello[e].counts, e, outbox[e].tree, processed')
        BY <2>1, <3>1 DEF CountersAre
      <3>. QED
        BY <2>3, <3>2
    <2>. QED
      BY <2>2, <2>3
  <1>2. \A e \in Domains : OnOf(e)
    BY <1>1
  <1>. QED
    BY <1>2 DEF HelloSound, CountersAre, Received, Sent

LEMMA HelloKept ==
    ASSUME HelloSound, UNCHANGED <<hello, outbox, processed>>,
           \A d \in Domains : client'[d][Hello] = None <=> client[d][Hello] = None
    PROVE  HelloSound'
  BY DEF HelloSound, CountersAre, Received, Sent, Count

LEMMA CountsOfMaps ==
    ASSUME NEW map, NEW k, NEW o
    PROVE  /\ Count(Touch(map, k), o) = Count(map, o)
           /\ IF o = k THEN Count(Bump(map, k), o) = Count(map, o) + 1
                       ELSE Count(Bump(map, k), o) = Count(map, o)
  <1>1. Count(Touch(map, k), o) = Count(map, o)
    <2>1. CASE k \in DOMAIN map
      BY <2>1 DEF Touch
    <2>2. CASE k \notin DOMAIN map
      <3>1. Touch(map, k) = [j \in DOMAIN map \cup {k} |-> IF j = k THEN 0 ELSE map[j]]
        BY <2>2 DEF Touch, MapSet
      <3>. QED
        BY <2>2, <3>1 DEF Count
    <2>. QED
      BY <2>1, <2>2
  <1>2. Bump(map, k) = [j \in DOMAIN map \cup {k} |-> IF j = k THEN Count(map, k) + 1 ELSE map[j]]
    BY DEF Bump, MapSet, Count
  <1>. QED
    BY <1>1, <1>2 DEF Count

LEMMA HelloStored ==
    ASSUME HelloSound, NEW d \in Domains, NEW len, NEW c, NEW h, HelloStore(d, len, c, h)
    PROVE  /\ hello' = [e \in Domains |-> hello'[e]] /\ hello'[d].counts = h
           /\ \A e \in Domains \ {d} : hello'[e] = hello[e]
  <1>1. hello = [e \in Domains |-> hello[e]]
    BY DEF HelloSound
  <1>2. hello' = [hello EXCEPT ![d] = [counts |-> h, len |-> len]]
    BY DEF HelloStore
  <1>. QED
    BY <1>1, <1>2

---------------------------------------------------------------------------
(* The steps                                                               *)

LEMMA TokenAdminIs ==
    ASSUME RoutesInv, NEW d \in Domains, TokenAdmin(d)
    PROVE  \E c : Reconfigured(d, Token, c)
  <1>1. PICK w \in Admins :
          \/ \E o \in Domains, r \in {<<Token>>, <<>>} : EnrollRemoteRouters(d, Token, o, r, w)
          \/ \E o \in Domains, g \in {<<g>> : g \in Gas} \cup {<<>>} :
                  SetDestinationGasConfigs(d, Token, o, g, w)
          \/ \E i \in RouteIsms : SetInterchainSecurityModule(d, Token, i, w)
          \/ \E i \in RouteIgps : SetInterchainGasPaymaster(d, Token, i, w)
          \/ \E o \in Owners : TransferClientOwnership(d, Token, o, w)
    BY DEF TokenAdmin
  <1>2. w \in Wallets
    BY RoutesAssumption
  <1>. QED
    BY <1>1, <1>2, SettersReconfigure DEF RoutesInv

LEMMA TokenAdminStep ==
    ASSUME RoutesInv, NEW d \in Domains, TokenAdmin(d)
    PROVE  RoutesInv'
  <1>1. PICK c : Reconfigured(d, Token, c)
    BY TokenAdminIs
  <1>2. /\ ClientsSound' /\ client'[d][Token] # None /\ client[d][Token] # None
        /\ \A e \in Domains, q \in Programs : e # d \/ q # Token => client'[e][q] = client[e][q]
    BY <1>1, OneClient DEF RoutesInv, Reconfigured
  <1>3. UNCHANGED <<outbox, dispatched, processed, igpVars, hello, plugin, collateral, ataPayer>>
    BY <1>1 DEF TokenAdmin, Reconfigured, pluginVars
  <1>4. \A e \in Domains : /\ client[e][Token] = None => client'[e][Token] = None
                           /\ client'[e][Hello] = client[e][Hello]
    BY <1>2, RoutesAssumption
  <1>. QED
    BY <1>2, <1>3, <1>4, MailKept, PaymentsKept, TokensKept, HelloKept DEF RoutesInv

LEMMA HelloEnrolledStep ==
    ASSUME RoutesInv, NEW d \in Domains, NEW c, NEW h, NEW len, NEW stored,
           Reconfigured(d, Hello, c), HelloStore(d, len, stored, h), UNCHANGED pluginVars,
           h = [sent |-> h.sent, received |-> h.received, sent_to |-> h.sent_to,
                received_from |-> h.received_from],
           \A o : /\ Count(h.sent_to, o) = Count(hello[d].counts.sent_to, o)
                  /\ Count(h.received_from, o) = Count(hello[d].counts.received_from, o)
    PROVE  RoutesInv'
  <1>1. /\ ClientsSound' /\ client'[d][Hello] # None /\ client[d][Hello] # None
        /\ \A e \in Domains, q \in Programs : e # d \/ q # Hello => client'[e][q] = client[e][q]
    BY OneClient DEF RoutesInv, Reconfigured
  <1>2. UNCHANGED <<outbox, dispatched, processed, igpVars, plugin, collateral, ataPayer>>
    BY DEF Reconfigured, pluginVars
  <1>3. \A e \in Domains : client'[e][Token] = client[e][Token]
    BY <1>1, RoutesAssumption
  <1>4. HelloSound'
    <2>1. /\ hello' = [e \in Domains |-> hello'[e]] /\ hello'[d].counts = h
          /\ \A e \in Domains \ {d} : hello'[e] = hello[e]
      BY HelloStored DEF RoutesInv
    <2>2. CountersAre(hello[d].counts, d, outbox[d].tree, processed)
      BY <1>1 DEF RoutesInv, HelloSound
    <2>3. CountersAre(h, d, outbox'[d].tree, processed')
      BY <1>2, <2>2 DEF CountersAre
    <2>4. \A e \in Domains \ {d} :
            /\ hello'[e] = hello[e] /\ outbox'[e].tree = outbox[e].tree
            /\ processed'[e] = processed[e]
            /\ client'[e][Hello] = None <=> client[e][Hello] = None
      BY <1>1, <1>2, <2>1, RoutesAssumption
    <2>. QED
      BY <1>1, <2>1, <2>3, <2>4, HelloAt DEF RoutesInv
  <1>. QED
    BY <1>1, <1>2, <1>3, <1>4, MailKept, PaymentsKept, TokensKept DEF RoutesInv

LEMMA EnrollHelloStep ==
    ASSUME RoutesInv, NEW d \in Domains, NEW w \in Admins, NEW o \in Domains,
           NEW r \in {<<Hello>>, <<>>}, EnrollHelloRouters(d, o, r, w), UNCHANGED pluginVars
    PROVE  RoutesInv'
  <1> DEFINE k == hello[d].counts
             h == [k EXCEPT !.sent_to = Touch(@, o), !.received_from = Touch(@, o)]
  <1>1. PICK c : Reconfigured(d, Hello, c)
    <2>1. w \in Wallets /\ EnrollRemoteRouters(d, Hello, o, r, w)
      BY RoutesAssumption DEF EnrollHelloRouters
    <2>. QED
      BY <2>1, SettersReconfigure DEF RoutesInv
  <1>2. \E len, stored : HelloStore(d, len, stored, h)
    BY DEF EnrollHelloRouters
  <1>3. PICK n, m, x, y : k = [sent |-> n, received |-> m, sent_to |-> x, received_from |-> y]
    <2>1. CountersAre(k, d, outbox[d].tree, processed)
      BY <1>1 DEF RoutesInv, HelloSound, Reconfigured
    <2>. QED
      BY <2>1 DEF CountersAre
  <1>. HIDE DEF k
  <1>4. /\ h = [sent |-> h.sent, received |-> h.received, sent_to |-> h.sent_to,
                received_from |-> h.received_from]
        /\ h.sent_to = Touch(k.sent_to, o) /\ h.received_from = Touch(k.received_from, o)
    <2>1. k \in [sent : {n}, received : {m}, sent_to : {x}, received_from : {y}]
      BY <1>3
    <2>2. h \in [sent : {n}, received : {m}, sent_to : {Touch(x, o)}, received_from : {Touch(y, o)}]
      BY <2>1
    <2>. HIDE DEF h
    <2>. QED
      BY <1>3, <2>2
  <1>. HIDE DEF h
  <1>5. \A e : /\ Count(h.sent_to, e) = Count(hello[d].counts.sent_to, e)
               /\ Count(h.received_from, e) = Count(hello[d].counts.received_from, e)
    BY <1>4, CountsOfMaps DEF k
  <1>. QED
    BY <1>1, <1>2, <1>4, <1>5, HelloEnrolledStep

LEMMA SetHelloIsmStep ==
    ASSUME RoutesInv, NEW d \in Domains, NEW w \in Admins, NEW i \in RouteIsms,
           SetHelloIsm(d, i, w), UNCHANGED pluginVars
    PROVE  RoutesInv'
  <1>1. PICK c : Reconfigured(d, Hello, c)
    <2>1. w \in Wallets /\ SetInterchainSecurityModule(d, Hello, i, w)
      BY RoutesAssumption DEF SetHelloIsm
    <2>. QED
      BY <2>1, SettersReconfigure DEF RoutesInv
  <1> DEFINE h == hello[d].counts
  <1>2. \E len, stored : HelloStore(d, len, stored, h)
    BY DEF SetHelloIsm
  <1>3. h = [sent |-> h.sent, received |-> h.received, sent_to |-> h.sent_to,
             received_from |-> h.received_from]
    BY <1>1 DEF RoutesInv, HelloSound, CountersAre, Reconfigured
  <1>. QED
    BY <1>1, <1>2, <1>3, HelloEnrolledStep

(* A program that was not set up has neither sent nor received. *)
LEMMA InitHelloStep ==
    ASSUME RoutesInv, NEW d \in Domains, NEW w \in Admins, NEW i \in RouteIsms,
           InitHelloWorld(d, w, i, <<>>), UNCHANGED pluginVars
    PROVE  RoutesInv'
  <1> DEFINE c == NewClient(w, i, <<>>)
  <1>1. c \in ClientData /\ DOMAIN c.routers = {}
    BY NewClientTyped, RoutesAssumption DEF IgpChoices
  <1>2. /\ client[d][Hello] = None /\ client' = [client EXCEPT ![d][Hello] = c]
        /\ UNCHANGED <<outbox, dispatched, processed, igpVars, plugin, collateral, ataPayer>>
    BY DEF InitHelloWorld, Uninitialized, pluginVars
  <1>. HIDE DEF c
  <1>3. /\ ClientsSound' /\ client'[d][Hello] # None
        /\ \A e \in Domains, q \in Programs : e # d \/ q # Hello => client'[e][q] = client[e][q]
    BY <1>1, <1>2, OneClient DEF RoutesInv
  <1>4. \A e \in Domains : client'[e][Token] = client[e][Token]
    BY <1>3, RoutesAssumption
  <1>5. HelloSound'
    <2>1. \E len, stored : HelloStore(d, len, stored, NewHello)
      BY DEF InitHelloWorld
    <2>2. /\ hello' = [e \in Domains |-> hello'[e]] /\ hello'[d].counts = NewHello
          /\ \A e \in Domains \ {d} : hello'[e] = hello[e]
      BY <2>1, HelloStored DEF RoutesInv
    <2>3. \A o \in Domains : Received(processed', d, o) = {} /\ Sent(outbox'[d].tree, o) = {}
      BY <1>2 DEF RoutesInv, HelloSound
    <2>4. /\ NewHello = [sent |-> NewHello.sent, received |-> NewHello.received,
                         sent_to |-> NewHello.sent_to, received_from |-> NewHello.received_from]
          /\ \A o : Count(NewHello.sent_to, o) = 0 /\ Count(NewHello.received_from, o) = 0
      <3>1. DOMAIN <<>> = {}
        OBVIOUS
      <3>. QED
        BY <3>1 DEF NewHello, Count
    <2>5. CountersAre(NewHello, d, outbox'[d].tree, processed')
      BY <2>3, <2>4, FS_EmptySet DEF CountersAre
    <2>6. \A e \in Domains \ {d} :
            /\ hello'[e] = hello[e] /\ outbox'[e].tree = outbox[e].tree
            /\ processed'[e] = processed[e]
            /\ client'[e][Hello] = None <=> client[e][Hello] = None
      BY <1>2, <1>3, <2>2, RoutesAssumption
    <2>. QED
      BY <1>3, <2>2, <2>5, <2>6, HelloAt DEF RoutesInv
  <1>. QED
    BY <1>2, <1>3, <1>4, <1>5, MailKept, PaymentsKept, TokensKept DEF RoutesInv

LEMMA HelloAdminStep ==
    ASSUME RoutesInv, NEW d \in Domains, HelloAdmin(d)
    PROVE  RoutesInv'
  BY InitHelloStep, EnrollHelloStep, SetHelloIsmStep DEF HelloAdmin

(* The accounts of the plugin are created rent exempt. *)
LEMMA InitializeTokenStep ==
    ASSUME RoutesInv, NEW d \in Domains, NEW w \in Admins, NEW i \in RouteIsms,
           NEW g \in RouteIgps, InitializeToken(d, w, i, g), UNCHANGED hello
    PROVE  RoutesInv'
  <1> DEFINE c == NewClient(w, i, g)
  <1>1. c \in ClientData /\ DOMAIN c.routers = {}
    BY NewClientTyped, RoutesAssumption
  <1>2. /\ client[d][Token] = None /\ client' = [client EXCEPT ![d][Token] = c]
        /\ UNCHANGED <<outbox, dispatched, processed, igpVars, plugin, hello>>
    BY DEF InitializeToken, Uninitialized
  <1>. HIDE DEF c
  <1>3. /\ ClientsSound' /\ client'[d][Token] # None
        /\ \A e \in Domains, q \in Programs : e # d \/ q # Token => client'[e][q] = client[e][q]
    BY <1>1, <1>2, OneClient DEF RoutesInv
  <1>4. \A e \in Domains : /\ client'[e][Hello] = client[e][Hello]
                           /\ e # d => client'[e][Token] = client[e][Token]
    BY <1>3, RoutesAssumption
  <1>5. TokensSound'
    <2>1. collateral \in [Domains -> Int] /\ ataPayer \in [Domains -> Int] /\ RentMin \in Int
      BY RoutesAssumption DEF RoutesInv, TokensSound
    <2>2. /\ collateral' \in [Domains -> Int] /\ ataPayer' \in [Domains -> Int]
          /\ plugin[d] = "native" => collateral'[d] >= RentMin
          /\ plugin[d] = "collateral" => ataPayer'[d] >= RentMin
          /\ \A e \in Domains \ {d} : collateral'[e] = collateral[e] /\ ataPayer'[e] = ataPayer[e]
      <3>1. CASE plugin[d] = "native" /\ NativeInitialize(d)
        BY <2>1, <3>1 DEF NativeInitialize
      <3>2. CASE plugin[d] = "collateral" /\ CollateralInitialize(d)
        BY <2>1, <3>2 DEF CollateralInitialize, Larger
      <3>3. CASE plugin[d] = "synthetic" /\ SyntheticInitialize(d)
        BY <2>1, <3>3 DEF SyntheticInitialize, Larger
      <3>. QED
        BY <3>1, <3>2, <3>3 DEF InitializeToken
    <2>. QED
      BY <1>2, <1>4, <2>2 DEF RoutesInv, TokensSound, RouteRentExempt
  <1>. QED
    BY <1>2, <1>3, <1>4, <1>5, MailKept, PaymentsKept, HelloKept DEF RoutesInv

LEMMA FundAtaPayerStep ==
    ASSUME RoutesInv, NEW d \in Domains, FundAtaPayer(d), UNCHANGED hello
    PROVE  RoutesInv'
  <1>1. /\ UNCHANGED <<outbox, dispatched, processed, igpVars, client, hello, plugin, collateral>>
        /\ ataPayer' = [ataPayer EXCEPT ![d] = @ + AtaRent]
    BY DEF FundAtaPayer, routerVars, mailboxVars
  <1>2. TokensSound'
    <2>1. collateral \in [Domains -> Int] /\ ataPayer \in [Domains -> Int] /\ RentMin \in Int
          /\ AtaRent \in Nat
      BY RoutesAssumption DEF RoutesInv, TokensSound
    <2>2. ataPayer' \in [Domains -> Int] /\ \A e \in Domains : ataPayer'[e] >= ataPayer[e]
      BY <1>1, <2>1
    <2>. QED
      BY <1>1, <2>1, <2>2 DEF RoutesInv, TokensSound, RouteRentExempt
  <1>. QED
    BY <1>1, <1>2, ClientsKept, MailKept, PaymentsKept, HelloKept DEF RoutesInv

(* A program dispatches, and pays if it has a paymaster. *)
LEMMA RouterSends ==
    ASSUME RoutesInv, NEW d \in Domains, NEW p \in {Token, Hello}, NEW u, NEW to \in Domains,
           NEW b \in {Greeting} \cup (Wallets \X Nat), p = Token => b \in Wallets \X Nat, NEW gas,
           client[d][p] # None, RouterDispatchWithGas(d, p, u, to, b, gas)
    PROVE  \E m :
            /\ NewLeaf(d, u, m) /\ m.sender = p /\ m.destination = to /\ m.body = b
            /\ MailSound' /\ PaymentsSound'
            /\ outbox'[d].tree = Append(outbox[d].tree, m)
            /\ \A e \in Domains \ {d} : outbox'[e].tree = outbox[e].tree
  <1>1. PICK m : NewLeaf(d, u, m) /\ m.sender = p /\ m.destination = to /\ m.body = b
    BY RouterAddsLeaf DEF RoutesInv, RouterDispatchWithGas
  <1>2. /\ MailSound'
        /\ outbox'[d].tree = Append(outbox[d].tree, m)
        /\ \A e \in Domains \ {d} : outbox'[e].tree = outbox[e].tree
        /\ dispatched' = [e \in Domains |-> dispatched'[e]]
    BY <1>1, LeafKeepsMail DEF RoutesInv
  <1>3. gasPayments' = [e \in IgpDomains |-> gasPayments'[e]] /\ UNCHANGED overheadIgps
    BY RouterPays DEF RoutesInv
  <1>4. PaymentsSound'
    BY <1>2, <1>3 DEF RoutesInv, PaymentsSound
  <1>. QED
    BY <1>1, <1>2, <1>4

(* The dispatches of others do not touch the counters of helloworld. *)
LEMMA HelloIgnoresLeaf ==
    ASSUME RoutesInv, NEW d \in Domains, NEW u, NEW m, NewLeaf(d, u, m), m.sender # Hello,
           outbox'[d].tree = Append(outbox[d].tree, m),
           \A e \in Domains \ {d} : outbox'[e].tree = outbox[e].tree,
           UNCHANGED <<client, hello>>
    PROVE  HelloSound'
  <1> DEFINE tree == outbox[d].tree
  <1>1. Leaves(tree) /\ m \in RouteMessage /\ m.nonce = Len(tree)
        /\ (m.recipient = Token => m.body \in Wallets \X Nat) /\ processed' = processed
    BY DEF RoutesInv, MailSound, NewLeaf
  <1>. HIDE DEF tree
  <1>2. \A o \in Domains : Sent(Append(tree, m), o) = Sent(tree, o)
    BY <1>1, SentCounted
  <1>3. \A o \in Domains : Sent(outbox'[d].tree, o) = Sent(outbox[d].tree, o)
    BY <1>2 DEF tree
  <1>4. hello' = [e \in Domains |-> hello'[e]]
    BY DEF RoutesInv, HelloSound
  <1>5. IF client'[d][Hello] = None
        THEN \A o \in Domains : Received(processed', d, o) = {} /\ Sent(outbox'[d].tree, o) = {}
        ELSE CountersAre(hello'[d].counts, d, outbox'[d].tree, processed')
    <2>1. CASE client[d][Hello] = None
      BY <1>1, <1>3, <2>1 DEF RoutesInv, HelloSound
    <2>2. CASE client[d][Hello] # None
      <3>1. CountersAre(hello[d].counts, d, outbox[d].tree, processed)
        BY <2>2 DEF RoutesInv, HelloSound
      <3>2. CountersAre(hello[d].counts, d, outbox'[d].tree, processed)
        BY <1>3, <3>1 DEF CountersAre
      <3>. QED
        BY <1>1, <2>2, <3>2
    <2>. QED
      BY <2>1, <2>2
  <1>. QED
    BY <1>1, <1>4, <1>5, HelloAt DEF RoutesInv

LEMMA TransferStep ==
    ASSUME RoutesInv, NEW d \in Domains, Transfer(d)
    PROVE  RoutesInv'
  <1>1. PICK w \in Wallets, r \in Wallets, u \in UniqueKeys, to \in Domains, a \in Amounts[d] :
            TransferRemote(d, w, u, to, r, a)
    BY DEF Transfer
  <1> DEFINE b == <<r, LocalToRemote(d, a)>>
             gas == DestinationGas(d, Token, to)
  <1>2. a \in Nat /\ b \in Wallets \X Nat
    BY DecimalsConverted, RoutesAssumption
  <1>3. /\ client[d][Token] # None /\ RouterDispatchWithGas(d, Token, u, to, b, gas)
        /\ TransferIn(d, w, a) /\ UNCHANGED <<client, hello>>
    BY <1>1 DEF TransferRemote, Uninitialized, Transfer
  <1>. HIDE DEF b, gas
  <1>4. PICK m :
            /\ NewLeaf(d, u, m) /\ m.sender = Token
            /\ MailSound' /\ PaymentsSound'
            /\ outbox'[d].tree = Append(outbox[d].tree, m)
            /\ \A e \in Domains \ {d} : outbox'[e].tree = outbox[e].tree
    BY <1>2, <1>3, RouterSends
  <1>5. HelloSound'
    BY <1>3, <1>4, HelloIgnoresLeaf, RoutesAssumption
  <1>6. TokensSound'
    <2>1. collateral \in [Domains -> Int] /\ ataPayer \in [Domains -> Int] /\ RentMin \in Int
      BY RoutesAssumption DEF RoutesInv, TokensSound
    <2>2. plugin' = plugin /\ ataPayer' = ataPayer
      BY <1>3 DEF TransferIn
    <2>3. collateral' \in [Domains -> Int] /\ \A e \in Domains : collateral'[e] >= collateral[e]
      <3>1. collateral' = collateral \/ collateral' = [collateral EXCEPT ![d] = @ + a]
        BY <1>3 DEF TransferIn, NativeTransferIn, CollateralTransferIn, SyntheticTransferIn
      <3>. QED
        BY <1>2, <2>1, <3>1
    <2>. QED
      BY <1>3, <2>1, <2>2, <2>3 DEF RoutesInv, TokensSound, RouteRentExempt
  <1>. QED
    BY <1>3, <1>4, <1>5, <1>6, ClientsKept DEF RoutesInv

LEMMA SendStep ==
    ASSUME RoutesInv, NEW d \in Domains, Send(d)
    PROVE  RoutesInv'
  <1>1. PICK u \in UniqueKeys, to \in Domains : SendHelloWorld(d, u, to, Greeting)
    BY DEF Send
  <1> DEFINE gas == <<HandleGasAmount>>
             k == hello[d].counts
             h == [k EXCEPT !.sent = @ + 1, !.sent_to = Bump(@, to)]
  <1>2. /\ client[d][Hello] # None /\ RouterDispatchWithGas(d, Hello, u, to, Greeting, gas)
        /\ UNCHANGED <<client, pluginVars>>
        /\ \E len, stored : HelloStore(d, len, stored, h)
    BY <1>1 DEF SendHelloWorld, Uninitialized, Send
  <1>. HIDE DEF gas
  <1>3. PICK m :
            /\ NewLeaf(d, u, m) /\ m.sender = Hello /\ m.destination = to
            /\ MailSound' /\ PaymentsSound'
            /\ outbox'[d].tree = Append(outbox[d].tree, m)
            /\ \A e \in Domains \ {d} : outbox'[e].tree = outbox[e].tree
    <2>1. Hello \in {Token, Hello} /\ Hello # Token /\ Greeting \in {Greeting} \cup (Wallets \X Nat)
      BY RoutesAssumption
    <2>2. \E m :
            /\ NewLeaf(d, u, m) /\ m.sender = Hello /\ m.destination = to /\ m.body = Greeting
            /\ MailSound' /\ PaymentsSound'
            /\ outbox'[d].tree = Append(outbox[d].tree, m)
            /\ \A e \in Domains \ {d} : outbox'[e].tree = outbox[e].tree
      BY <1>2, <2>1, RouterSends, Zenon
    <2>. QED
      BY <2>2
  <1>4. CountersAre(k, d, outbox[d].tree, processed)
    BY <1>2 DEF RoutesInv, HelloSound
  <1>5. /\ hello' = [e \in Domains |-> hello'[e]] /\ hello'[d].counts = h
        /\ \A e \in Domains \ {d} : hello'[e] = hello[e]
    BY <1>2, HelloStored DEF RoutesInv
  <1>6. PICK x, y, s, t : k = [sent |-> x, received |-> y, sent_to |-> s, received_from |-> t]
    BY <1>4 DEF CountersAre
  <1>. HIDE DEF k
  <1>7. /\ h = [sent |-> h.sent, received |-> h.received, sent_to |-> h.sent_to,
                received_from |-> h.received_from]
        /\ h.sent_to = Bump(k.sent_to, to) /\ h.received_from = k.received_from
    <2>1. k \in [sent : {x}, received : {y}, sent_to : {s}, received_from : {t}]
      BY <1>6
    <2>2. h \in [sent : {x + 1}, received : {y}, sent_to : {Bump(s, to)}, received_from : {t}]
      BY <2>1
    <2>. HIDE DEF h
    <2>. QED
      BY <1>6, <2>2
  <1>. HIDE DEF h
  <1>8. CountersAre(h, d, outbox'[d].tree, processed')
    <2> DEFINE tree == outbox[d].tree
    <2>1. Leaves(tree) /\ m \in RouteMessage /\ m.nonce = Len(tree)
          /\ (m.recipient = Token => m.body \in Wallets \X Nat) /\ processed' = processed
      BY <1>3 DEF RoutesInv, MailSound, NewLeaf
    <2>. HIDE DEF tree
    <2>2. ASSUME NEW o \in Domains
          PROVE  Count(h.sent_to, o) = Cardinality(Sent(Append(tree, m), o))
      <3>1. Count(k.sent_to, o) = Cardinality(Sent(tree, o))
        BY <1>4 DEF CountersAre, tree
      <3>2. CASE o = to
        <4>1. Cardinality(Sent(Append(tree, m), o)) = Cardinality(Sent(tree, o)) + 1
          BY <1>3, <2>1, <3>2, SentCounted
        <4>2. Count(Bump(k.sent_to, to), o) = Count(k.sent_to, o) + 1
          BY <3>2, CountsOfMaps
        <4>. QED
          BY <1>7, <3>1, <4>1, <4>2
      <3>3. CASE o # to
        <4>1. Sent(Append(tree, m), o) = Sent(tree, o)
          BY <1>3, <2>1, <3>3, SentCounted
        <4>2. Count(Bump(k.sent_to, to), o) = Count(k.sent_to, o)
          BY <3>3, CountsOfMaps
        <4>. QED
          BY <1>7, <3>1, <4>1, <4>2
      <3>. QED
        BY <3>2, <3>3
    <2>3. outbox'[d].tree = Append(tree, m)
      BY <1>3 DEF tree
    <2>4. \A o \in Domains : Count(h.received_from, o) = Cardinality(Received(processed', d, o))
      BY <1>4, <1>7, <2>1 DEF CountersAre
    <2>. QED
      BY <1>7, <2>2, <2>3, <2>4 DEF CountersAre
  <1>9. HelloSound'
    <2>1. processed' = processed
      BY <1>3 DEF NewLeaf
    <2>. QED
      BY <1>2, <1>3, <1>5, <1>8, <2>1, HelloAt DEF RoutesInv
  <1>10. TokensSound'
    BY <1>2, TokensKept DEF RoutesInv, pluginVars
  <1>. QED
    BY <1>2, <1>3, <1>9, <1>10, ClientsKept DEF RoutesInv

LEMMA ForgeStep ==
    ASSUME RoutesInv, NEW d \in Domains, Forge(d)
    PROVE  RoutesInv'
  <1>1. PICK w \in Strangers, u \in UniqueKeys, to \in Domains, p \in Programs :
            OutboxDispatch(d, w, u, w, to, p, <<w, ForgedAmount>>)
    BY DEF Forge
  <1>2. w \in Wallets /\ w \notin Programs /\ <<w, ForgedAmount>> \in Wallets \X Nat
    BY RoutesAssumption
  <1>3. PICK m : NewLeaf(d, u, m) /\ m.sender = w
    BY <1>1, <1>2, DispatchAddsLeaf DEF Principals, RoutesInv
  <1>4. UNCHANGED <<igpVars, client, pluginVars, hello>>
    BY DEF Forge
  <1>5. /\ MailSound'
        /\ outbox'[d].tree = Append(outbox[d].tree, m)
        /\ \A e \in Domains \ {d} : outbox'[e].tree = outbox[e].tree
        /\ dispatched' = [e \in Domains |-> dispatched'[e]]
    BY <1>3, LeafKeepsMail DEF RoutesInv
  <1>6. m.sender # Hello
    BY <1>2, <1>3, RoutesAssumption
  <1>7. HelloSound'
    BY <1>3, <1>4, <1>5, <1>6, HelloIgnoresLeaf
  <1>8. PaymentsSound'
    BY <1>4, <1>5 DEF RoutesInv, PaymentsSound, igpVars
  <1>9. TokensSound'
    BY <1>4, TokensKept DEF RoutesInv, pluginVars
  <1>. QED
    BY <1>4, <1>5, <1>7, <1>8, <1>9, ClientsKept DEF RoutesInv

(* A delivery: only the Mailbox can make a program handle a message, and   *)
(* it does so once for each.                                               *)
LEMMA DeliveryIsProcessed ==
    ASSUME RoutesInv, NEW d \in Domains, NEW m \in RouteMessage, NEW authority, NEW p \in Programs,
           authority \in Wallets => UNCHANGED mailboxVars,
           authority \notin Wallets =>
                \E v \in Validators : InboxProcess(d, m, <<v>>, client[d][p].ism),
           authority = ProcessAuthority(d, p)
    PROVE  /\ MailSound' /\ UNCHANGED <<outbox, dispatched>>
           /\ m \notin DOMAIN processed[d]
           /\ DOMAIN processed'[d] = DOMAIN processed[d] \cup {m}
           /\ \A e \in Domains \ {d} : processed'[e] = processed[e]
  <1>1. authority \notin Wallets
    BY RoutesAssumption
  <1>2. PICK v \in Validators : InboxProcess(d, m, <<v>>, client[d][p].ism)
    BY <1>1
  <1>3. /\ m \notin DOMAIN processed[d] /\ UNCHANGED <<outbox, dispatched>>
        /\ processed' = [processed EXCEPT ![d] = [x \in DOMAIN @ \cup {m} |->
                IF x = m THEN inbox[d].processed_count ELSE @[x]]]
    BY <1>2 DEF InboxProcess, InboxAdmits
  <1>4. processed = [e \in Domains |-> processed[e]] /\ IsFiniteSet(DOMAIN processed[d])
    BY DEF RoutesInv, MailSound
  <1>5. /\ processed' = [e \in Domains |-> processed'[e]]
        /\ DOMAIN processed'[d] = DOMAIN processed[d] \cup {m}
        /\ \A e \in Domains \ {d} : processed'[e] = processed[e]
    BY <1>3, <1>4
  <1>6. IsFiniteSet(DOMAIN processed'[d])
    BY <1>4, <1>5, FS_AddElement
  <1>7. \A e \in Domains : IsFiniteSet(DOMAIN processed'[e])
    BY <1>5, <1>6 DEF RoutesInv, MailSound
  <1>8. MailSound'
    <2>1. /\ outbox' \in [Domains -> [local_domain : Domains, owner : Owners, tree : Seq(RouteMessage)]]
          /\ (\A e \in Domains : Leaves(outbox[e].tree))'
      BY <1>3 DEF RoutesInv, MailSound, Leaves
    <2>. QED
      BY <2>1, <1>5, <1>7 DEF MailSound
  <1>. QED
    BY <1>3, <1>5, <1>8

(* The plugins pay out of what is above the rent. *)
LEMMA TransferOutKeepsTokens ==
    ASSUME TokensSound, NEW d \in Domains, NEW w, NEW a \in Nat, TransferOut(d, w, a),
           UNCHANGED client
    PROVE  TokensSound'
  <1>1. /\ collateral \in [Domains -> Int] /\ ataPayer \in [Domains -> Int] /\ RentMin \in Int
        /\ AtaRent \in Int
    BY RoutesAssumption DEF TokensSound
  <1>2. plugin' = plugin
    BY DEF TransferOut
  <1>3. /\ collateral' \in [Domains -> Int] /\ ataPayer' \in [Domains -> Int]
        /\ plugin[d] = "native" => collateral'[d] >= RentMin
        /\ plugin[d] = "collateral" => ataPayer'[d] >= RentMin
        /\ \A e \in Domains \ {d} : collateral'[e] = collateral[e] /\ ataPayer'[e] = ataPayer[e]
    <2>1. CASE NativeTransferOut(d, w, a)
      BY <1>1, <2>1 DEF NativeTransferOut
    <2>2. ASSUME CreateAtaIdempotent(d, w)
          PROVE  /\ ataPayer' \in [Domains -> Int]
                 /\ \A e \in Domains \ {d} : ataPayer'[e] = ataPayer[e]
      BY <1>1, <2>2 DEF CreateAtaIdempotent
    <2>3. CASE CollateralTransferOut(d, w, a)
      BY <1>1, <2>2, <2>3 DEF CollateralTransferOut
    <2>4. CASE SyntheticTransferOut(d, w, a)
      BY <1>1, <2>2, <2>4 DEF SyntheticTransferOut
    <2>. QED
      BY <2>1, <2>3, <2>4 DEF TransferOut
  <1>. QED
    BY <1>2, <1>3 DEF TokensSound, RouteRentExempt

LEMMA MailTyped ==
    RoutesInv => \A d \in Domains : \A m \in Range(outbox[d].tree) :
        m \in RouteMessage /\ (m.recipient = Token => m.body \in Wallets \X Nat)
  <1> SUFFICES ASSUME RoutesInv, NEW d \in Domains, NEW m \in Range(outbox[d].tree)
               PROVE  m \in RouteMessage /\ (m.recipient = Token => m.body \in Wallets \X Nat)
    OBVIOUS
  <1>1. Leaves(outbox[d].tree)
    BY DEF RoutesInv, MailSound
  <1>2. PICK n \in 1 .. Len(outbox[d].tree) : m = outbox[d].tree[n]
    BY <1>1 DEF Leaves, Range
  <1>. QED
    BY <1>1, <1>2 DEF Leaves

(* What a delivery is: the message is of a Mailbox and new on its chain,   *)
(* and the authority is the one that the Mailbox signs with for it.        *)
Handled(d, m, authority) ==
    /\ m \in RouteMessage /\ (m.recipient = Token => m.body \in Wallets \X Nat)
    /\ \E o \in Domains : m \in Range(outbox[o].tree)
    /\ m.destination = d /\ m \notin DOMAIN processed[d]
    /\ DOMAIN processed'[d] = DOMAIN processed[d] \cup {m}
    /\ \A e \in Domains \ {d} : processed'[e] = processed[e]
    /\ UNCHANGED <<outbox, dispatched, igpVars, client>>
    /\ \/ /\ m.recipient = Token
          /\ TransferFromRemote(d, authority, m.origin, m.sender, m.body)
          /\ UNCHANGED hello
       \/ /\ m.recipient = Hello
          /\ HelloHandle(d, authority, m.origin)
          /\ UNCHANGED pluginVars

LEMMA DeliveryIs ==
    ASSUME RoutesInv, NEW d \in Domains, Deliver(d)
    PROVE  MailSound' /\ \E m, authority : Handled(d, m, authority)
  <1>1. PICK m \in UNION {Range(outbox[o].tree) : o \in {o \in Domains : outbox[o] # None}},
             authority \in {ProcessAuthority(d, p) : p \in Programs} \cup Wallets :
        /\ m.destination = d
        /\ IF authority \in Wallets THEN UNCHANGED mailboxVars
           ELSE /\ authority = ProcessAuthority(d, m.recipient)
                /\ client[d][m.recipient] # None
                /\ \E v \in Validators :
                    InboxProcess(d, m, <<v>>, client[d][m.recipient].ism)
        /\ UNCHANGED igpVars
        /\ \/ /\ m.recipient = Token
              /\ TransferFromRemote(d, authority, m.origin, m.sender, m.body)
              /\ UNCHANGED hello
           \/ /\ m.recipient = Hello
              /\ HelloHandle(d, authority, m.origin)
              /\ UNCHANGED pluginVars
    BY DEF Deliver
  <1>2. m \in RouteMessage /\ (m.recipient = Token => m.body \in Wallets \X Nat)
    BY <1>1, MailTyped
  <1>3. m.recipient \in Programs
    BY <1>2 DEF RouteMessage
  <1>4. UNCHANGED client
    BY <1>1 DEF TransferFromRemote, HelloHandle
  <1>5. authority = ProcessAuthority(d, m.recipient) => client[d][m.recipient] # None
    BY <1>1, <1>3, RoutesAssumption
  <1>6. authority = ProcessAuthority(d, m.recipient)
    BY <1>1 DEF TransferFromRemote, HelloHandle, EnsureValidRouterMessage, EnsureProcessAuthority
  <1>7. /\ MailSound' /\ UNCHANGED <<outbox, dispatched>>
        /\ m \notin DOMAIN processed[d]
        /\ DOMAIN processed'[d] = DOMAIN processed[d] \cup {m}
        /\ \A e \in Domains \ {d} : processed'[e] = processed[e]
    BY <1>1, <1>2, <1>3, <1>6, DeliveryIsProcessed
  <1>8. \E o \in Domains : m \in Range(outbox[o].tree)
    BY <1>1
  <1>9. Handled(d, m, authority)
    BY <1>1, <1>2, <1>4, <1>7, <1>8 DEF Handled
  <1>. QED
    BY <1>7, <1>9

LEMMA DeliverStep ==
    ASSUME RoutesInv, NEW d \in Domains, Deliver(d)
    PROVE  RoutesInv'
  <1>1. MailSound'
    BY DeliveryIs
  <1>2. PICK m, authority : Handled(d, m, authority)
    BY DeliveryIs
  <1>3. m \in RouteMessage /\ (m.recipient = Token => m.body \in Wallets \X Nat)
    BY <1>2 DEF Handled
  <1>4. UNCHANGED client
    BY <1>2 DEF Handled
  <1>5. /\ MailSound' /\ UNCHANGED <<outbox, dispatched>>
        /\ m \notin DOMAIN processed[d]
        /\ DOMAIN processed'[d] = DOMAIN processed[d] \cup {m}
        /\ \A e \in Domains \ {d} : processed'[e] = processed[e]
    BY <1>1, <1>2 DEF Handled
  <1>6. IsFiniteSet(DOMAIN processed[d])
    BY DEF RoutesInv, MailSound
  <1>7. PaymentsSound' /\ ClientsSound'
    BY <1>2, <1>4, <1>5, PaymentsKept, ClientsKept DEF RoutesInv, Handled
  <1>8. CASE m.recipient = Token
    <2>1. TransferFromRemote(d, authority, m.origin, m.sender, m.body) /\ UNCHANGED hello
      BY <1>2, <1>8, RoutesAssumption DEF Handled
    <2>2. TokensSound'
      <3>1. RemoteToLocal(d, m.body[2]) \in Nat
        BY <1>3, <1>8, DecimalsConverted
      <3>. QED
        BY <1>4, <2>1, <3>1, TransferOutKeepsTokens DEF TransferFromRemote, RoutesInv
    <2>3. \A o : Received(processed', d, o) = Received(processed, d, o)
      BY <1>5, <1>6, <1>8, ReceivedCounted, RoutesAssumption
    <2>4. HelloSound'
      <3>1. hello' = [e \in Domains |-> hello'[e]]
        BY <2>1 DEF RoutesInv, HelloSound
      <3>2. CASE client[d][Hello] = None
        <4>1. \A o \in Domains : Received(processed', d, o) = {} /\ Sent(outbox'[d].tree, o) = {}
          BY <1>5, <2>3, <3>2 DEF RoutesInv, HelloSound
        <4>. QED
          BY <1>4, <1>5, <2>1, <3>1, <3>2, <4>1, HelloAt DEF RoutesInv
      <3>3. CASE client[d][Hello] # None
        <4>1. CountersAre(hello[d].counts, d, outbox[d].tree, processed)
          BY <3>3 DEF RoutesInv, HelloSound
        <4>2. CountersAre(hello'[d].counts, d, outbox'[d].tree, processed')
          BY <1>5, <2>1, <2>3, <4>1 DEF CountersAre
        <4>. QED
          BY <1>4, <1>5, <2>1, <3>1, <3>3, <4>2, HelloAt DEF RoutesInv
      <3>. QED
        BY <3>2, <3>3
    <2>. QED
      BY <1>5, <1>7, <2>2, <2>4 DEF RoutesInv
  <1>9. CASE m.recipient = Hello
    <2> DEFINE k == hello[d].counts
               h == [k EXCEPT !.received = @ + 1, !.received_from = Bump(@, m.origin)]
    <2>1. HelloHandle(d, authority, m.origin) /\ UNCHANGED pluginVars
      BY <1>2, <1>9, RoutesAssumption DEF Handled
    <2>2. client[d][Hello] # None /\ \E len, stored : HelloStore(d, len, stored, h)
      BY <2>1 DEF HelloHandle, Uninitialized
    <2>3. CountersAre(k, d, outbox[d].tree, processed)
      BY <2>2 DEF RoutesInv, HelloSound
    <2>4. /\ hello' = [e \in Domains |-> hello'[e]] /\ hello'[d].counts = h
          /\ \A e \in Domains \ {d} : hello'[e] = hello[e]
      BY <2>2, HelloStored DEF RoutesInv
    <2>5. PICK x, y, s, t : k = [sent |-> x, received |-> y, sent_to |-> s, received_from |-> t]
      BY <2>3 DEF CountersAre
    <2>. HIDE DEF k
    <2>6. /\ h = [sent |-> h.sent, received |-> h.received, sent_to |-> h.sent_to,
                  received_from |-> h.received_from]
          /\ h.received_from = Bump(k.received_from, m.origin) /\ h.sent_to = k.sent_to
      <3>1. k \in [sent : {x}, received : {y}, sent_to : {s}, received_from : {t}]
        BY <2>5
      <3>2. h \in [sent : {x}, received : {y + 1}, sent_to : {s},
                   received_from : {Bump(t, m.origin)}]
        BY <3>1
      <3>. HIDE DEF h
      <3>. QED
        BY <2>5, <3>2
    <2>. HIDE DEF h
    <2>7. ASSUME NEW o \in Domains
          PROVE  Count(h.received_from, o) = Cardinality(Received(processed', d, o))
      <3>1. Count(k.received_from, o) = Cardinality(Received(processed, d, o))
        BY <2>3 DEF CountersAre
      <3>2. CASE o = m.origin
        <4>1. Cardinality(Received(processed', d, o)) = Cardinality(Received(processed, d, o)) + 1
          BY <1>5, <1>6, <1>9, <3>2, ReceivedCounted
        <4>2. Count(Bump(k.received_from, m.origin), o) = Count(k.received_from, o) + 1
          BY <3>2, CountsOfMaps
        <4>. QED
          BY <2>6, <3>1, <4>1, <4>2
      <3>3. CASE o # m.origin
        <4>1. Received(processed', d, o) = Received(processed, d, o)
          BY <1>5, <1>6, <3>3, ReceivedCounted
        <4>2. Count(Bump(k.received_from, m.origin), o) = Count(k.received_from, o)
          BY <3>3, CountsOfMaps
        <4>. QED
          BY <2>6, <3>1, <4>1, <4>2
      <3>. QED
        BY <3>2, <3>3
    <2>8. CountersAre(h, d, outbox'[d].tree, processed')
      <3>1. \A o \in Domains : Count(h.sent_to, o) = Cardinality(Sent(outbox'[d].tree, o))
        BY <1>5, <2>3, <2>6 DEF CountersAre
      <3>. QED
        BY <2>6, <2>7, <3>1 DEF CountersAre
    <2>9. HelloSound'
      BY <1>4, <1>5, <2>2, <2>4, <2>8, HelloAt DEF RoutesInv
    <2>10. TokensSound'
      BY <1>4, <2>1, TokensKept DEF RoutesInv, pluginVars
    <2>. QED
      BY <1>5, <1>7, <2>9, <2>10 DEF RoutesInv
  <1>. QED
    BY <1>2, <1>8, <1>9 DEF Handled

---------------------------------------------------------------------------
(* The initial states                                                      *)

LEMMA HomeClientTyped ==
    ASSUME NEW others \in SUBSET Domains, NEW p \in Programs, NEW igp \in IgpChoices
    PROVE  /\ HomeClient(others, p, igp) \in ClientData
           /\ \A o \in DOMAIN HomeClient(others, p, igp).routers :
                HomeClient(others, p, igp).routers[o] = p
  <1> DEFINE rs == [d \in others |-> p]
             gs == [d \in others |-> CHOOSE g \in Gas : TRUE]
  <1>1. (CHOOSE g \in Gas : TRUE) \in Gas
    BY RoutesAssumption
  <1>2. rs \in UNION {[S -> Programs] : S \in SUBSET Domains}
    OBVIOUS
  <1>3. gs \in UNION {[S -> Gas] : S \in SUBSET Domains}
    BY <1>1
  <1>4. <<Deployer>> \in Owners
    BY MailboxAssumption DEF Owners
  <1> DEFINE new == NewClient(Deployer, <<>>, igp)
             home == HomeClient(others, p, igp)
  <1>5. home = [new EXCEPT !.routers = rs, !.gas = gs]
    BY DEF HomeClient
  <1>6. \A o \in DOMAIN rs : rs[o] = p
    OBVIOUS
  <1>7. new \in [owner : {<<Deployer>>}, ism : {<<>>}, igp : {igp}, routers : {<<>>}, gas : {<<>>}]
    BY DEF NewClient
  <1>. HIDE DEF rs, gs, new
  <1>8. home \in [owner : {<<Deployer>>}, ism : {<<>>}, igp : {igp}, routers : {rs}, gas : {gs}]
    BY <1>5, <1>7
  <1>. HIDE DEF home
  <1>9. home \in ClientData /\ home.routers = rs
    BY <1>2, <1>3, <1>4, <1>8 DEF ClientData
  <1>. QED
    BY <1>6, <1>9 DEF home

LEMMA RoutesInit == Init => RoutesInv
  <1> SUFFICES ASSUME Init
               PROVE  RoutesInv
    OBVIOUS
  <1>1. PICK homes \in RouteHomes :
        /\ client = [d \in Domains |-> [p \in Programs |->
            CASE d \in homes /\ p = Token ->
                    HomeClient(Domains \ {d}, p, IF d = RouteHome THEN HomePaymaster ELSE <<>>)
              [] d = HelloHome /\ p = Hello -> HelloClient
              [] OTHER -> None]]
        /\ ataPayer = [d \in Domains |->
            CASE d \notin homes -> 0
              [] plugin[d] = "collateral" -> RentMin
              [] OTHER -> MaxAtaPayer]
        /\ collateral = [d \in Domains |->
            IF d \in homes /\ plugin[d] = "native" THEN RentMin ELSE 0]
    BY DEF Init
  <1>2. HomePaymaster \in IgpChoices /\ <<>> \in IgpChoices
    BY RoutesAssumption DEF IgpChoices
  <1>3. ASSUME NEW d \in Domains
        PROVE  /\ HomeClient(Domains \ {d}, Token,
                             IF d = RouteHome THEN HomePaymaster ELSE <<>>) \in ClientData
               /\ \A o \in DOMAIN HomeClient(Domains \ {d}, Token,
                             IF d = RouteHome THEN HomePaymaster ELSE <<>>).routers :
                    HomeClient(Domains \ {d}, Token,
                             IF d = RouteHome THEN HomePaymaster ELSE <<>>).routers[o] = Token
    BY <1>2, HomeClientTyped, RoutesAssumption
  <1>4. /\ HelloClient \in ClientData
        /\ \A o \in DOMAIN HelloClient.routers : HelloClient.routers[o] = Hello
    BY <1>2, HomeClientTyped, RoutesAssumption DEF HelloClient
  <1>5. ASSUME NEW d \in Domains
        PROVE  /\ client[d][Token] = IF d \in homes
                    THEN HomeClient(Domains \ {d}, Token,
                                    IF d = RouteHome THEN HomePaymaster ELSE <<>>)
                    ELSE None
               /\ client[d][Hello] = IF d = HelloHome THEN HelloClient ELSE None
    BY <1>1, RoutesAssumption
  <1>6. ClientsSound
    <2>1. client \in [Domains -> [Programs -> {None} \cup ClientData]]
      <3>1. ASSUME NEW d \in Domains, NEW p \in Programs
            PROVE  (CASE d \in homes /\ p = Token ->
                            HomeClient(Domains \ {d}, p,
                                       IF d = RouteHome THEN HomePaymaster ELSE <<>>)
                      [] d = HelloHome /\ p = Hello -> HelloClient
                      [] OTHER -> None) \in {None} \cup ClientData
        BY <1>3, <1>4, RoutesAssumption
      <3>. QED
        BY <1>1, <3>1
    <2>. QED
      <3>1. ASSUME NEW d \in Domains, client[d][Token] # None
            PROVE  \A o \in DOMAIN client[d][Token].routers : client[d][Token].routers[o] = Token
        BY <1>3, <1>5, <3>1
      <3>2. ASSUME NEW d \in Domains, client[d][Hello] # None
            PROVE  \A o \in DOMAIN client[d][Hello].routers : client[d][Hello].routers[o] = Hello
        BY <1>4, <1>5, <3>2
      <3>. QED
        BY <2>1, <3>1, <3>2 DEF ClientsSound
  <1>7. MailSound
    <2>1. outbox = [d \in Domains |-> NewOutbox(d, Deployer)]
      BY RoutesAssumption DEF Init, MailboxInit
    <2>2. <<>> \in Seq(RouteMessage) /\ Len(<<>>) = 0 /\ <<Deployer>> \in Owners
      BY MailboxAssumption DEF Owners
    <2>3. ASSUME NEW d \in Domains
          PROVE  /\ NewOutbox(d, Deployer) \in
                        [local_domain : Domains, owner : Owners, tree : Seq(RouteMessage)]
                 /\ NewOutbox(d, Deployer).tree = <<>>
      BY <2>2 DEF NewOutbox
    <2>4. Leaves(<<>>)
      BY <2>2 DEF Leaves
    <2>5. processed = [d \in Domains |-> <<>>] /\ DOMAIN <<>> = {}
      BY DEF Init, MailboxInit
    <2>. QED
      BY <2>1, <2>3, <2>4, <2>5, FS_EmptySet DEF MailSound
  <1>8. PaymentsSound
    BY DEF Init, MailboxInit, PaymentsSound
  <1>9. TokensSound
    <2>1. RentMin \in Int /\ MaxAtaPayer \in Int
      BY RoutesAssumption
    <2>2. collateral \in [Domains -> Int] /\ ataPayer \in [Domains -> Int]
      BY <1>1, <2>1
    <2>3. ASSUME NEW d \in Domains, client[d][Token] # None
          PROVE  /\ plugin[d] = "native" => collateral[d] >= RentMin
                 /\ plugin[d] = "collateral" => ataPayer[d] >= RentMin
      <3>1. d \in homes
        BY <1>5, <2>3
      <3>. QED
        BY <1>1, <2>1, <3>1
    <2>. QED
      BY <2>2, <2>3 DEF TokensSound, RouteRentExempt
  <1>10. HelloSound
    <2>1. DOMAIN <<>> = {} /\ Range(<<>>) = {}
      BY DEF Range
    <2>2. \A d \in Domains : outbox[d].tree = <<>> /\ processed[d] = <<>>
      BY RoutesAssumption DEF Init, MailboxInit, NewOutbox
    <2>3. \A d \in Domains : \A o : Received(processed, d, o) = {} /\ Sent(outbox[d].tree, o) = {}
      BY <2>1, <2>2 DEF Received, Sent
    <2>4. hello = [d \in Domains |-> hello[d]]
      BY DEF Init
    <2>5. ASSUME NEW d \in Domains, client[d][Hello] # None
          PROVE  CountersAre(hello[d].counts, d, outbox[d].tree, processed)
      <3>1. d = HelloHome
        BY <1>5, <2>5
      <3>2. hello[d].counts = HomeHello
        BY <3>1 DEF Init
      <3> DEFINE zero == [e \in Domains \ {HelloHome} |-> 0]
      <3>3. HomeHello \in [sent : {0}, received : {0}, sent_to : {zero}, received_from : {zero}]
        <4> DEFINE new == NewHello
        <4>1. new \in [sent : {0}, received : {0}, sent_to : {<<>>}, received_from : {<<>>}]
          BY DEF NewHello
        <4>2. HomeHello = [new EXCEPT !.sent_to = zero, !.received_from = zero]
          BY DEF HomeHello
        <4>. HIDE DEF zero, new
        <4>. QED
          BY <4>1, <4>2
      <3>4. \A o : Count(zero, o) = 0
        BY DEF Count
      <3>5. Cardinality({}) = 0
        BY FS_EmptySet
      <3> DEFINE h == hello[d].counts
      <3>6. h \in [sent : {0}, received : {0}, sent_to : {zero}, received_from : {zero}]
        BY <3>2, <3>3
      <3>. HIDE DEF zero, h
      <3>7. /\ h = [sent |-> h.sent, received |-> h.received, sent_to |-> h.sent_to,
                    received_from |-> h.received_from]
            /\ h.sent_to = zero /\ h.received_from = zero
        BY <3>6
      <3>8. CountersAre(h, d, outbox[d].tree, processed)
        BY <2>3, <3>4, <3>5, <3>7 DEF CountersAre
      <3>. QED
        BY <3>8 DEF h
    <2>. QED
      BY <2>3, <2>4, <2>5 DEF HelloSound
  <1>. QED
    BY <1>6, <1>7, <1>8, <1>9, <1>10 DEF RoutesInv

---------------------------------------------------------------------------
(* The theorems                                                            *)

LEMMA RoutesNext == RoutesInv /\ [Next]_vars => RoutesInv'
  <1> SUFFICES ASSUME RoutesInv, [Next]_vars
               PROVE  RoutesInv'
    OBVIOUS
  <1>1. CASE UNCHANGED vars
    <2>1. UNCHANGED <<outbox, dispatched, processed, igpVars, client, plugin, collateral,
                      ataPayer, hello>>
      BY <1>1 DEF vars, routerVars, mailboxVars, pluginVars
    <2>. QED
      BY <2>1, ClientsKept, MailKept, PaymentsKept, TokensKept, HelloKept DEF RoutesInv
  <1>2. ASSUME NEW d \in Domains, NEW w \in Admins, NEW i \in RouteIsms, NEW g \in RouteIgps,
               InitializeToken(d, w, i, g), UNCHANGED hello
        PROVE  RoutesInv'
    BY <1>2, InitializeTokenStep
  <1>3. ASSUME NEW d \in Domains,
               \/ TokenAdmin(d) \/ HelloAdmin(d) \/ Transfer(d) \/ Send(d) \/ Forge(d) \/ Deliver(d)
        PROVE  RoutesInv'
    BY <1>3, TokenAdminStep, HelloAdminStep, TransferStep, SendStep, ForgeStep, DeliverStep
  <1>4. ASSUME NEW d \in Domains, FundAtaPayer(d), UNCHANGED hello
        PROVE  RoutesInv'
    BY <1>4, FundAtaPayerStep
  <1>. QED
    BY <1>1, <1>2, <1>3, <1>4 DEF Next

(* Transfers, deliveries, retries and changes of configuration in any      *)
(* order leave the accounts of the routes rent exempt, and helloworld has  *)
(* counted each message it dispatched or was handed once (handle and       *)
(* send_hello_world with the Mailbox's outbox_dispatch and inbox_process). *)
THEOREM RouteAccountsKept == Spec => []RouteAccounts
  <1>1. RoutesInv => RouteAccounts
    <2> SUFFICES ASSUME RoutesInv
                 PROVE  RouteAccounts
      OBVIOUS
    <2>1. RouteRentExempt
      BY DEF RoutesInv, TokensSound
    <2>2. HelloCounts
      <3>1. \A d \in Domains : client[d][Hello] # None =>
                CountersAre(hello[d].counts, d, outbox[d].tree, processed)
        BY DEF RoutesInv, HelloSound
      <3>. QED
        BY <3>1 DEF HelloCounts, CountersAre, Count, Received, Sent
    <2>. QED
      BY <2>1, <2>2 DEF RouteAccounts
  <1>. QED
    BY <1>1, RoutesInit, RoutesNext, PTL DEF Spec

(* Whatever a program with a paymaster dispatches is paid for in the same  *)
(* step, for the gas its destination is configured with at least           *)
(* (HyperlaneRouterDispatch::dispatch_with_gas).                           *)
THEOREM DispatchesArePaid == Spec => PaidWithDispatch
  <1> DEFINE Paid(d, u) ==
        LET m == dispatched'[d][u]
            payment == gasPayments'[d][u]
        IN  m.sender \in Programs /\ client[d][m.sender].igp # <<>> =>
                /\ u \in DOMAIN gasPayments'[d] \ DOMAIN gasPayments[d]
                /\ payment.message_id.nonce = m.nonce
                /\ payment.destination_domain = m.destination
                /\ m.sender = Token =>
                    payment.gas_amount >= client[d][Token].gas[m.destination]
  <1>1. ASSUME RoutesInv, NEW e \in Domains, NEW p \in {Token, Hello}, NEW v, NEW to \in Domains,
               NEW b \in {Greeting} \cup (Wallets \X Nat), p = Token => b \in Wallets \X Nat,
               NEW gas, client[e][p] # None, RouterDispatchWithGas(e, p, v, to, b, gas),
               p = Token /\ gas # <<>> =>
                    gas[1] \in Nat /\ gas[1] = client[e][Token].gas[to],
               NEW d \in IgpDomains, NEW u \in DOMAIN dispatched'[d] \ DOMAIN dispatched[d]
        PROVE  Paid(d, u)
    <2>1. PICK m : NewLeaf(e, v, m) /\ m.sender = p /\ m.destination = to
      BY <1>1, RouterAddsLeaf DEF RoutesInv, RouterDispatchWithGas
    <2>2. /\ DOMAIN dispatched'[e] = DOMAIN dispatched[e] \cup {v} /\ dispatched'[e][v] = m
          /\ \A f \in Domains \ {e} : dispatched'[f] = dispatched[f]
      BY <1>1, <2>1, LeafKeepsMail DEF RoutesInv
    <2>3. d = e /\ u = v /\ dispatched'[d][u] = m /\ m.nonce = Len(outbox[e].tree)
      BY <1>1, <2>1, <2>2, RoutesAssumption DEF NewLeaf
    <2>4. client[e][p].igp # <<>> =>
            /\ v \in DOMAIN gasPayments'[e] \ DOMAIN gasPayments[e]
            /\ gasPayments'[e][v].message_id.nonce = Len(outbox[e].tree)
            /\ gasPayments'[e][v].destination_domain = to
            /\ gas # <<>>
            /\ gas[1] \in Nat => gasPayments'[e][v].gas_amount >= gas[1]
      BY <1>1, <2>3, RouterPays DEF RoutesInv
    <2>. QED
      BY <1>1, <2>1, <2>3, <2>4
  <1>2. ASSUME RoutesInv, NEW e \in Domains, Transfer(e), NEW d \in IgpDomains,
               NEW u \in DOMAIN dispatched'[d] \ DOMAIN dispatched[d]
        PROVE  Paid(d, u)
    <2>1. PICK w \in Wallets, r \in Wallets, v \in UniqueKeys, to \in Domains, a \in Amounts[e] :
            TransferRemote(e, w, v, to, r, a)
      BY <1>2 DEF Transfer
    <2> DEFINE b == <<r, LocalToRemote(e, a)>>
               gas == DestinationGas(e, Token, to)
    <2>2. b \in Wallets \X Nat
      BY DecimalsConverted, RoutesAssumption
    <2>3. client[e][Token] # None /\ RouterDispatchWithGas(e, Token, v, to, b, gas)
      BY <2>1 DEF TransferRemote, Uninitialized
    <2>4. gas # <<>> => gas[1] \in Nat /\ gas[1] = client[e][Token].gas[to]
      <3>1. client[e][Token] \in ClientData
        BY <1>2, <2>3, RoutesAssumption DEF RoutesInv, ClientsSound
      <3> DEFINE map == client[e][Token].gas
      <3>2. PICK S \in SUBSET Domains : map \in [S -> Gas]
        BY <3>1 DEF ClientData
      <3>. HIDE DEF map
      <3>3. \A k \in DOMAIN map : map[k] \in Nat
        BY <3>2, RoutesAssumption
      <3>. QED
        BY <3>3 DEF DestinationGas, map
    <2>. HIDE DEF b, gas, Paid
    <2>. QED
      BY <1>1, <1>2, <2>2, <2>3, <2>4
  <1>3. ASSUME RoutesInv, NEW e \in Domains, Send(e), NEW d \in IgpDomains,
               NEW u \in DOMAIN dispatched'[d] \ DOMAIN dispatched[d]
        PROVE  Paid(d, u)
    <2>1. PICK v \in UniqueKeys, to \in Domains : SendHelloWorld(e, v, to, Greeting)
      BY <1>3 DEF Send
    <2> DEFINE gas == <<HandleGasAmount>>
    <2>2. client[e][Hello] # None /\ RouterDispatchWithGas(e, Hello, v, to, Greeting, gas)
      BY <2>1 DEF SendHelloWorld, Uninitialized
    <2>3. Hello # Token
      BY RoutesAssumption
    <2>. HIDE DEF gas, Paid
    <2>. QED
      BY <1>1, <1>3, <2>2, <2>3
  <1>4. ASSUME RoutesInv, NEW e \in Domains, Forge(e), NEW d \in IgpDomains,
               NEW u \in DOMAIN dispatched'[d] \ DOMAIN dispatched[d]
        PROVE  Paid(d, u)
    <2>1. PICK w \in Strangers, v \in UniqueKeys, to \in Domains, p \in Programs :
              OutboxDispatch(e, w, v, w, to, p, <<w, ForgedAmount>>)
      BY <1>4 DEF Forge
    <2>2. w \in Wallets /\ w \notin Programs /\ <<w, ForgedAmount>> \in Wallets \X Nat
      BY RoutesAssumption
    <2>3. PICK m : NewLeaf(e, v, m) /\ m.sender = w
      BY <1>4, <2>1, <2>2, DispatchAddsLeaf DEF Principals, RoutesInv
    <2>4. /\ DOMAIN dispatched'[e] = DOMAIN dispatched[e] \cup {v} /\ dispatched'[e][v] = m
          /\ \A f \in Domains \ {e} : dispatched'[f] = dispatched[f]
      BY <1>4, <2>3, LeafKeepsMail DEF RoutesInv
    <2>5. dispatched'[d][u].sender = w
      BY <1>4, <2>3, <2>4, RoutesAssumption
    <2>. QED
      BY <2>2, <2>5
  <1>5. ASSUME NEW e \in Domains, UNCHANGED dispatched, NEW d \in IgpDomains,
               NEW u \in DOMAIN dispatched'[d] \ DOMAIN dispatched[d]
        PROVE  Paid(d, u)
    BY <1>5
  <1>6. ASSUME RoutesInv, NEW e \in Domains,
               \/ TokenAdmin(e) \/ HelloAdmin(e) \/ Deliver(e) \/ FundAtaPayer(e)
               \/ \E w \in Admins, i \in RouteIsms, g \in RouteIgps : InitializeToken(e, w, i, g)
        PROVE  UNCHANGED dispatched
    BY <1>6 DEF TokenAdmin, HelloAdmin, Deliver, FundAtaPayer, InitializeToken, InitHelloWorld,
                EnrollHelloRouters, SetHelloIsm, EnrollRemoteRouters, SetDestinationGasConfigs,
                SetInterchainSecurityModule, SetInterchainGasPaymaster, TransferClientOwnership,
                OnlyOwner, InboxProcess, routerVars, mailboxVars
  <1>7. RoutesInv /\ [Next]_vars =>
            [\A d \in IgpDomains : \A u \in DOMAIN dispatched'[d] \ DOMAIN dispatched[d] :
                Paid(d, u)]_vars
    <2> SUFFICES ASSUME RoutesInv, Next, NEW d \in IgpDomains,
                        NEW u \in DOMAIN dispatched'[d] \ DOMAIN dispatched[d]
                 PROVE  Paid(d, u)
      OBVIOUS
    <2>. HIDE DEF Paid
    <2>. QED
      BY <1>2, <1>3, <1>4, <1>5, <1>6 DEF Next
  <1>. QED
    BY <1>7, RoutesInit, RoutesNext, PTL DEF Spec, PaidWithDispatch

---------------------------------------------------------------------------
(* The conversions between decimals round down                             *)

LocalUnit(d) == 10^(Finest - Decimals[d])
RemoteUnit == 10^(Finest - RemoteDecimals)

(* The finest decimals are those of a chain or of the messages. *)
LEMMA FinestIs ==
    /\ Finest \in 0..255 /\ RemoteDecimals \in 0..Finest
    /\ \A d \in Domains : Decimals[d] \in 0..Finest
    /\ Finest \in {Decimals[d] : d \in Domains} \cup {RemoteDecimals}
  <1> DEFINE all == {Decimals[d] : d \in Domains} \cup {RemoteDecimals}
  <1>1. all \in SUBSET (0..255) /\ all # {} /\ 255 \in Nat
    <2>1. RemoteDecimals \in 0..255 /\ \A d \in Domains : Decimals[d] \in 0..255
      BY BackingAssumption
    <2>2. \A x \in all : x \in 0..255
      BY <2>1
    <2>. QED
      BY <2>2
  <1>. HIDE DEF all
  <1>2. \E j \in all : \A h \in all : j >= h
    BY <1>1, LargestOf
  <1>3. Finest = CHOOSE x \in all : \A y \in all : x >= y
    BY DEF Finest, Max, all
  <1>4. Finest \in all /\ \A h \in all : Finest >= h
    BY <1>2, <1>3
  <1>5. \A h \in all : h \in 0..Finest
    BY <1>1, <1>4
  <1>. QED
    BY <1>1, <1>4, <1>5 DEF all

LEMMA PowersOfTen ==
    ASSUME NEW d \in Domains, NEW k \in 0..Finest
    PROVE  10^k \in Nat /\ 10^k > 0
  <1>1. \E e \in Domains : k \in 0..(Decimals[e] + RemoteDecimals)
    BY FinestIs, RoutesAssumption
  <1>. QED
    BY <1>1, RoutesAssumption

LEMMA ConversionRoundsDown ==
    ASSUME NEW d \in Domains, NEW n \in Nat, NEW a \in 0..Finest, NEW b \in 0..Finest,
           ConvertDecimals(n, a, b) \in Nat
    PROVE  ConvertDecimals(n, a, b) * 10^(Finest - b) <= n * 10^(Finest - a)
  <1>0. Finest \in Nat
    BY FinestIs
  <1>1. ASSUME NEW i \in 0..Finest, NEW j \in 0..Finest, i + j <= Finest
        PROVE  10^(i + j) = 10^i * 10^j /\ 10^i \in Nat /\ 10^i > 0 /\ 10^j \in Nat
    BY <1>1, PowersOfTen, BackingAssumption
  <1>2. CASE a > b
    <2> DEFINE i == a - b
               j == Finest - a
               p == 10^i
               q == 10^j
               x == n \div p
    <2>1. i \in 0..Finest /\ j \in 0..Finest /\ i + j <= Finest /\ i + j = Finest - b
      BY <1>0, <1>2
    <2>2. 10^(Finest - b) = p * q /\ p \in Nat /\ p > 0 /\ q \in Nat
      BY <1>1, <2>1
    <2>3. ConvertDecimals(n, a, b) = x
      BY <1>2 DEF ConvertDecimals
    <2>. HIDE DEF i, j, p, q
    <2>4. x \in Nat /\ x * p <= n
      BY <2>2
    <2>. HIDE DEF x
    <2>5. (x * p) * q <= n * q
      <3> DEFINE y == x * p
      <3>1. y \in Nat /\ y <= n
        BY <2>2, <2>4
      <3>. HIDE DEF y
      <3>2. y * q <= n * q
        BY <2>2, <3>1
      <3>. QED
        BY <3>2 DEF y
    <2>6. (x * p) * q = x * (p * q)
      BY <2>2, <2>4
    <2>7. x * 10^(Finest - b) <= n * q
      BY <2>2, <2>5, <2>6
    <2>. QED
      BY <2>3, <2>7 DEF q, j
  <1>3. CASE ~(a > b)
    <2> DEFINE i == b - a
               j == Finest - b
               p == 10^i
               q == 10^j
    <2>1. i \in 0..Finest /\ j \in 0..Finest /\ i + j <= Finest /\ i + j = Finest - a
      BY <1>0, <1>3
    <2>2. 10^(Finest - a) = p * q /\ p \in Nat /\ q \in Nat
      BY <1>1, <2>1
    <2>3. ConvertDecimals(n, a, b) = n * p
      BY <1>3 DEF ConvertDecimals
    <2>. HIDE DEF i, j, p, q
    <2>4. (n * p) * q = n * (p * q) /\ (n * p) * q \in Int
      BY <2>2
    <2>5. ConvertDecimals(n, a, b) * q = n * 10^(Finest - a)
      BY <2>2, <2>3, <2>4
    <2>6. n * 10^(Finest - a) \in Int
      BY <2>2, <2>4
    <2>. QED
      BY <2>5, <2>6 DEF q, j
  <1>. QED
    BY <1>2, <1>3

(* ... so that no value is made on the way. *)
LEMMA Conversions ==
    ASSUME NEW d \in Domains, NEW n \in Nat
    PROVE  /\ LocalUnit(d) \in Nat /\ RemoteUnit \in Nat
           /\ RemoteValue(n) \in Nat
           /\ RemoteValue(LocalToRemote(d, n)) \in Nat
           /\ RemoteValue(LocalToRemote(d, n)) <= n * LocalUnit(d)
           /\ RemoteToLocal(d, n) * LocalUnit(d) <= RemoteValue(n)
  <1>1. Finest \in Nat /\ Decimals[d] \in 0..Finest /\ RemoteDecimals \in 0..Finest
    BY FinestIs
  <1>2. Finest - Decimals[d] \in 0..Finest /\ Finest - RemoteDecimals \in 0..Finest
    BY <1>1
  <1>3. LocalUnit(d) \in Nat /\ RemoteUnit \in Nat
    BY <1>2, PowersOfTen DEF LocalUnit, RemoteUnit
  <1>4. LocalToRemote(d, n) \in Nat /\ RemoteToLocal(d, n) \in Nat
    BY DecimalsConverted
  <1>5. \A x : RemoteValue(x) = x * RemoteUnit
    BY DEF RemoteValue, RemoteUnit
  <1>6. LocalToRemote(d, n) * RemoteUnit <= n * LocalUnit(d)
    BY <1>1, <1>4, ConversionRoundsDown DEF LocalToRemote, RemoteUnit, LocalUnit
  <1>7. RemoteToLocal(d, n) * LocalUnit(d) <= n * RemoteUnit
    BY <1>1, <1>4, ConversionRoundsDown DEF RemoteToLocal, RemoteUnit, LocalUnit
  <1>8. \A x, y \in Nat : x * y \in Nat
    OBVIOUS
  <1>. QED
    BY <1>3, <1>4, <1>5, <1>6, <1>7, <1>8

---------------------------------------------------------------------------
(* The books of the route: what Backing adds up                            *)

LockedValues == [d \in Backed |-> LocalValue(d, Locked(d))]
SupplyValues == [d \in Domains \ Backed |-> LocalValue(d, Supply(d))]
FlightValues == [m \in InFlight |-> RemoteValue(m.body[2])]

AllLocked == MapThenSumSet(LAMBDA d : LocalValue(d, Locked(d)), Backed)
AllSupply == MapThenSumSet(LAMBDA d : LocalValue(d, Supply(d)), Domains \ Backed)
AllInFlight == MapThenSumSet(LAMBDA m : RemoteValue(m.body[2]), InFlight)

LEMMA UnfoldBacking == Backing <=> AllLocked >= AllSupply + AllInFlight
  BY DEF Backing, AllLocked, AllSupply, AllInFlight

LEMMA LockedSummed == AllLocked = Total(LockedValues, Backed)
  <1> DEFINE S == Backed
             F == LockedValues
             P(g) == g = [s \in SUBSET S |->
                IF s = {} THEN 0
                ELSE LocalValue(PickOf(s), Locked(PickOf(s))) + g[s \ {PickOf(s)}]]
  <1>1. AllLocked = (CHOOSE g : P(g))[S]
    BY DEF AllLocked, MapThenSumSet, MapThenFoldSet, PickOf
  <1>2. ASSUME NEW s \in SUBSET S, s # {}
        PROVE  F[PickOf(s)] = LocalValue(PickOf(s), Locked(PickOf(s)))
    BY <1>2 DEF LockedValues, PickOf
  <1>3. ASSUME NEW g PROVE P(g) <=> SumsFrom(g, F, S)
    <2>. HIDE DEF F, S
    <2>. QED
      BY <1>2 DEF SumsFrom
  <1>4. (CHOOSE g : P(g)) = (CHOOSE g : SumsFrom(g, F, S))
    <2>. HIDE DEF P, F, S
    <2>. QED
      BY <1>3
  <1>. QED
    BY <1>1, <1>4 DEF Total, Sums

LEMMA SupplySummed == AllSupply = Total(SupplyValues, Domains \ Backed)
  <1> DEFINE S == Domains \ Backed
             F == SupplyValues
             P(g) == g = [s \in SUBSET S |->
                IF s = {} THEN 0
                ELSE LocalValue(PickOf(s), Supply(PickOf(s))) + g[s \ {PickOf(s)}]]
  <1>1. AllSupply = (CHOOSE g : P(g))[S]
    BY DEF AllSupply, MapThenSumSet, MapThenFoldSet, PickOf
  <1>2. ASSUME NEW s \in SUBSET S, s # {}
        PROVE  F[PickOf(s)] = LocalValue(PickOf(s), Supply(PickOf(s)))
    BY <1>2 DEF SupplyValues, PickOf
  <1>3. ASSUME NEW g PROVE P(g) <=> SumsFrom(g, F, S)
    <2>. HIDE DEF F, S
    <2>. QED
      BY <1>2 DEF SumsFrom
  <1>4. (CHOOSE g : P(g)) = (CHOOSE g : SumsFrom(g, F, S))
    <2>. HIDE DEF P, F, S
    <2>. QED
      BY <1>3
  <1>. QED
    BY <1>1, <1>4 DEF Total, Sums

LEMMA FlightSummed == AllInFlight = Total(FlightValues, InFlight)
  <1> DEFINE S == InFlight
             F == FlightValues
             P(g) == g = [s \in SUBSET S |->
                IF s = {} THEN 0
                ELSE RemoteValue(PickOf(s).body[2]) + g[s \ {PickOf(s)}]]
  <1>1. AllInFlight = (CHOOSE g : P(g))[S]
    BY DEF AllInFlight, MapThenSumSet, MapThenFoldSet, PickOf
  <1>2. ASSUME NEW s \in SUBSET S, s # {}
        PROVE  F[PickOf(s)] = RemoteValue(PickOf(s).body[2])
    BY <1>2 DEF FlightValues, PickOf
  <1>3. ASSUME NEW g PROVE P(g) <=> SumsFrom(g, F, S)
    <2>. HIDE DEF F, S
    <2>. QED
      BY <1>2 DEF SumsFrom
  <1>4. (CHOOSE g : P(g)) = (CHOOSE g : SumsFrom(g, F, S))
    <2>. HIDE DEF P, F, S
    <2>. QED
      BY <1>3
  <1>. QED
    BY <1>1, <1>4 DEF Total, Sums

LEMMA BalancesSummed == \A d \in Domains : Supply(d) = Total(balance[d], Wallets)
  BY DEF Supply, MapThenSumSet, MapThenFoldSet, PickOf, Total, Sums, SumsFrom

---------------------------------------------------------------------------
(* What is in the books is a number, and there is a finite part of it      *)

Balances == balance \in [Domains -> [Wallets -> Int]]

BooksTyped ==
    /\ IsFiniteSet(Backed) /\ IsFiniteSet(Domains \ Backed) /\ IsFiniteSet(InFlight)
    /\ \A d \in Domains : Locked(d) \in Int /\ Supply(d) \in Int
    /\ \A m \in InFlight : m.body[2] \in Nat

(* What is in flight: the Mailboxes hold only messages of their own. *)
OnlyTransfers ==
    \A m : m \in InFlight <=>
        /\ \E d \in Domains : m \in Range(outbox[d].tree)
        /\ m.sender = Token /\ m.recipient = Token /\ m \notin DOMAIN processed[m.destination]

LEMMA InFlightIs == RoutesInv => OnlyTransfers
  <1> SUFFICES ASSUME RoutesInv
               PROVE  \A d \in Domains : outbox[d] # None
    BY DEF InFlight, OnlyTransfers
  <1>. QED
    BY BackingAssumption DEF RoutesInv, MailSound

LEMMA BooksAreTyped == RoutesInv /\ Balances => BooksTyped
  <1> SUFFICES ASSUME RoutesInv, Balances
               PROVE  BooksTyped
    OBVIOUS
  <1>1. IsFiniteSet(Backed) /\ IsFiniteSet(Domains \ Backed)
    BY BackingAssumption, FS_Subset DEF Backed
  <1>2. IsFiniteSet(InFlight)
    <2> DEFINE trees == {Range(outbox[d].tree) : d \in Domains}
               f == [d \in Domains |-> Range(outbox[d].tree)]
    <2>1. f \in Surjection(Domains, trees)
      BY DEF Surjection
    <2>2. IsFiniteSet(trees)
      BY <2>1, BackingAssumption, FS_Surjection
    <2>3. \A T \in trees : IsFiniteSet(T)
      BY LeavesFinite DEF RoutesInv, MailSound, Leaves
    <2>4. IsFiniteSet(UNION trees)
      BY <2>2, <2>3, FS_UNION
    <2>5. InFlight \subseteq UNION trees
      BY DEF InFlight
    <2>. QED
      BY <2>4, <2>5, FS_Subset
  <1>3. ASSUME NEW d \in Domains
        PROVE  Locked(d) \in Int /\ Supply(d) \in Int
    <2>1. Locked(d) \in Int
      BY RoutesAssumption DEF RoutesInv, TokensSound, Locked
    <2>2. Supply(d) \in Int
      BY BackingAssumption, BalancesSummed, TotalType DEF Balances
    <2>. QED
      BY <2>1, <2>2
  <1>4. \A m \in InFlight : m.body[2] \in Nat
    BY InFlightIs, MailTyped DEF OnlyTransfers
  <1>. QED
    BY <1>1, <1>2, <1>3, <1>4 DEF BooksTyped

---------------------------------------------------------------------------
(* How the books change                                                    *)

ValuesTyped ==
    /\ \A d \in Backed : LockedValues[d] \in Int
    /\ \A d \in Domains \ Backed : SupplyValues[d] \in Int
    /\ \A m \in InFlight : FlightValues[m] \in Nat
    /\ AllLocked \in Int /\ AllSupply \in Int /\ AllInFlight \in Int

LEMMA ValuesAreTyped == BooksTyped => ValuesTyped
  <1> SUFFICES ASSUME BooksTyped
               PROVE  ValuesTyped
    OBVIOUS
  <1>1. ASSUME NEW d \in Domains, NEW n \in Int
        PROVE  LocalValue(d, n) \in Int
    <2>1. LocalUnit(d) \in Nat /\ LocalValue(d, n) = n * LocalUnit(d)
      BY Conversions DEF LocalUnit, LocalValue
    <2>. QED
      BY <2>1
  <1>2. \A d \in Backed : LockedValues[d] \in Int
    BY <1>1 DEF LockedValues, BooksTyped, Backed
  <1>3. \A d \in Domains \ Backed : SupplyValues[d] \in Int
    BY <1>1 DEF SupplyValues, BooksTyped
  <1>4. \A m \in InFlight : FlightValues[m] \in Nat
    <2> SUFFICES ASSUME NEW m \in InFlight
                 PROVE  FlightValues[m] \in Nat
      OBVIOUS
    <2>1. m.body[2] \in Nat /\ FlightValues[m] = RemoteValue(m.body[2])
      BY DEF BooksTyped, FlightValues
    <2>2. \E d \in Domains : TRUE
      BY DEF InFlight
    <2>. QED
      BY <2>1, <2>2, Conversions
  <1>5. AllLocked \in Int
    BY <1>2, LockedSummed, TotalType DEF BooksTyped
  <1>6. AllSupply \in Int
    BY <1>3, SupplySummed, TotalType DEF BooksTyped
  <1>7. AllInFlight \in Int
    BY <1>4, FlightSummed, TotalType DEF BooksTyped
  <1>. QED
    BY <1>2, <1>3, <1>4, <1>5, <1>6, <1>7 DEF ValuesTyped

(* The same in the next state. *)
LEMMA NextBooks ==
    /\ (Backing <=> AllLocked >= AllSupply + AllInFlight)'
    /\ (AllLocked = Total(LockedValues, Backed))'
    /\ (AllSupply = Total(SupplyValues, Domains \ Backed))'
    /\ (AllInFlight = Total(FlightValues, InFlight))'
    /\ (\A d \in Domains : Supply(d) = Total(balance[d], Wallets))'
    /\ (RoutesInv /\ Balances => BooksTyped)'
    /\ (BooksTyped => ValuesTyped)'
    /\ (RoutesInv => OnlyTransfers)'
  <1>1. (Backing <=> AllLocked >= AllSupply + AllInFlight)'
    BY UnfoldBacking, PTL
  <1>2. (AllLocked = Total(LockedValues, Backed))'
    BY LockedSummed, PTL
  <1>3. (AllSupply = Total(SupplyValues, Domains \ Backed))'
    BY SupplySummed, PTL
  <1>4. (AllInFlight = Total(FlightValues, InFlight))'
    BY FlightSummed, PTL
  <1>5. (\A d \in Domains : Supply(d) = Total(balance[d], Wallets))'
    BY BalancesSummed, PTL
  <1>6. (RoutesInv /\ Balances => BooksTyped)'
    BY BooksAreTyped, PTL
  <1>7. (BooksTyped => ValuesTyped)'
    BY ValuesAreTyped, PTL
  <1>8. (RoutesInv => OnlyTransfers)'
    BY InFlightIs, PTL
  <1>. QED
    BY <1>1, <1>2, <1>3, <1>4, <1>5, <1>6, <1>7, <1>8

(* What is locked changes on a chain, and so does its value. *)
LEMMA LockedChanged ==
    ASSUME BooksTyped, BooksTyped', UNCHANGED plugin, NEW d \in Backed,
           \A e \in Domains \ {d} : Locked(e)' = Locked(e)
    PROVE  AllLocked' = AllLocked + (Locked(d)' - Locked(d)) * LocalUnit(d)
  <1>1. Backed' = Backed /\ d \in Domains
    BY DEF Backed
  <1>2. OneChanged(LockedValues, Backed, LockedValues', d)
    <2>1. \A e \in Backed \ {d} : LockedValues[e] = LockedValues'[e]
      BY <1>1 DEF LockedValues, Backed
    <2>. QED
      BY <1>1, <2>1, ValuesAreTyped, NextBooks DEF OneChanged, BooksTyped, ValuesTyped
  <1>3. Total(LockedValues', Backed) =
            Total(LockedValues, Backed) - LockedValues[d] + LockedValues'[d]
    BY <1>2, TotalChange
  <1>4. AllLocked' = AllLocked - LockedValues[d] + LockedValues'[d]
    BY <1>1, <1>3, LockedSummed, NextBooks
  <1> DEFINE x == Locked(d)
             y == Locked(d)'
             s == LocalUnit(d)
  <1>5. x \in Int /\ y \in Int /\ s \in Nat
    BY <1>1, Conversions DEF BooksTyped
  <1>6. LockedValues[d] = x * s /\ LockedValues'[d] = y * s
    BY <1>1 DEF LockedValues, LocalValue, LocalUnit
  <1>7. AllLocked \in Int
    BY ValuesAreTyped DEF ValuesTyped
  <1>. HIDE DEF x, y, s
  <1>8. AllLocked' = AllLocked - x * s + y * s
    BY <1>4, <1>6
  <1>9. AllLocked' = AllLocked + (y - x) * s
    BY <1>5, <1>7, <1>8
  <1>. QED
    BY <1>9 DEF x, y, s

LEMMA LockedKept ==
    ASSUME BooksTyped, UNCHANGED plugin, \A d \in Domains : Locked(d)' = Locked(d)
    PROVE  AllLocked' = AllLocked
  <1>1. Backed' = Backed /\ LockedValues' = LockedValues
    BY DEF Backed, LockedValues
  <1>. QED
    BY <1>1, LockedSummed, NextBooks

LEMMA SupplyChanged ==
    ASSUME BooksTyped, BooksTyped', UNCHANGED plugin, NEW d \in Domains \ Backed,
           \A e \in Domains \ {d} : Supply(e)' = Supply(e)
    PROVE  AllSupply' = AllSupply + (Supply(d)' - Supply(d)) * LocalUnit(d)
  <1>1. Domains \ Backed' = Domains \ Backed
    BY DEF Backed
  <1>2. OneChanged(SupplyValues, Domains \ Backed, SupplyValues', d)
    <2>1. \A e \in (Domains \ Backed) \ {d} : SupplyValues[e] = SupplyValues'[e]
      BY <1>1 DEF SupplyValues
    <2>. QED
      BY <1>1, <2>1, ValuesAreTyped, NextBooks DEF OneChanged, BooksTyped, ValuesTyped
  <1>3. Total(SupplyValues', Domains \ Backed) =
            Total(SupplyValues, Domains \ Backed) - SupplyValues[d] + SupplyValues'[d]
    BY <1>2, TotalChange
  <1>4. AllSupply' = AllSupply - SupplyValues[d] + SupplyValues'[d]
    BY <1>1, <1>3, SupplySummed, NextBooks
  <1> DEFINE x == Supply(d)
             y == Supply(d)'
             s == LocalUnit(d)
  <1>5. x \in Int /\ y \in Int /\ s \in Nat
    BY Conversions DEF BooksTyped
  <1>6. SupplyValues[d] = x * s /\ SupplyValues'[d] = y * s
    BY <1>1 DEF SupplyValues, LocalValue, LocalUnit
  <1>7. AllSupply \in Int
    BY ValuesAreTyped DEF ValuesTyped
  <1>. HIDE DEF x, y, s
  <1>8. AllSupply' = AllSupply - x * s + y * s
    BY <1>4, <1>6
  <1>9. AllSupply' = AllSupply + (y - x) * s
    BY <1>5, <1>7, <1>8
  <1>. QED
    BY <1>9 DEF x, y, s

LEMMA SupplyKept ==
    ASSUME BooksTyped, UNCHANGED plugin, \A d \in Domains \ Backed : Supply(d)' = Supply(d)
    PROVE  AllSupply' = AllSupply
  <1>1. Domains \ Backed' = Domains \ Backed /\ SupplyValues' = SupplyValues
    BY DEF Backed, SupplyValues
  <1>. QED
    BY <1>1, SupplySummed, NextBooks

---------------------------------------------------------------------------
(* Transfers set off and arrive                                            *)

LEMMA FlightKept ==
    ASSUME UNCHANGED <<outbox, processed>>
    PROVE  AllInFlight' = AllInFlight
  <1>1. InFlight' = InFlight
    BY DEF InFlight
  <1>2. FlightValues' = FlightValues
    BY <1>1 DEF FlightValues
  <1>. QED
    BY <1>1, <1>2, FlightSummed, NextBooks

LEMMA LeafInFlight ==
    ASSUME RoutesInv, RoutesInv', BooksTyped, BooksTyped',
           NEW d \in Domains, NEW u, NEW m, NewLeaf(d, u, m),
           outbox'[d].tree = Append(outbox[d].tree, m),
           \A e \in Domains \ {d} : outbox'[e].tree = outbox[e].tree
    PROVE  \/ AllInFlight' = AllInFlight
           \/ m.sender = Token /\ AllInFlight' = AllInFlight + RemoteValue(m.body[2])
  <1>1. Range(outbox'[d].tree) = Range(outbox[d].tree) \cup {m}
    <2> DEFINE tree == outbox[d].tree
    <2>1. /\ Leaves(tree) /\ m \in RouteMessage /\ m.nonce = Len(tree)
          /\ m.recipient = Token => m.body \in Wallets \X Nat
      BY DEF RoutesInv, MailSound, NewLeaf
    <2>. HIDE DEF tree
    <2>2. Range(Append(tree, m)) = Range(tree) \cup {m}
      BY <2>1, LeafAdded
    <2>. QED
      BY <2>2 DEF tree
  <1>2. \A x : (\E e \in Domains : x \in Range(outbox'[e].tree))
                <=> x = m \/ \E e \in Domains : x \in Range(outbox[e].tree)
    BY <1>1
  <1>3. processed' = processed
    BY DEF NewLeaf
  <1>4. \A x : x \in InFlight' => x \in InFlight \/ (x = m /\ m.sender = Token)
    BY <1>2, <1>3, InFlightIs, NextBooks DEF OnlyTransfers
  <1>5. InFlight \subseteq InFlight'
    BY <1>2, <1>3, InFlightIs, NextBooks DEF OnlyTransfers
  <1>6. CASE m \in InFlight' /\ m \notin InFlight
    <2>1. InFlight' = InFlight \cup {m} /\ m.sender = Token
      BY <1>4, <1>5, <1>6
    <2>2. OneMore(FlightValues, InFlight, FlightValues', m)
      <3>1. \A x \in InFlight : FlightValues[x] = FlightValues'[x]
        BY <1>5 DEF FlightValues
      <3>. QED
        BY <1>6, <2>1, <3>1, NextBooks DEF OneMore, BooksTyped, ValuesTyped
    <2>3. Total(FlightValues', InFlight \cup {m}) = Total(FlightValues, InFlight) + FlightValues'[m]
      BY <2>2, TotalAdd
    <2>4. FlightValues'[m] = RemoteValue(m.body[2])
      BY <1>6 DEF FlightValues
    <2>. QED
      BY <2>1, <2>3, <2>4, FlightSummed, NextBooks
  <1>7. CASE ~(m \in InFlight' /\ m \notin InFlight)
    <2>1. \A x : x \in InFlight' <=> x \in InFlight
      BY <1>4, <1>5, <1>7
    <2>2. InFlight' = InFlight
      BY <2>1
    <2>3. FlightValues' = FlightValues
      BY <2>2 DEF FlightValues
    <2>. QED
      BY <2>2, <2>3, FlightSummed, NextBooks
  <1>. QED
    BY <1>6, <1>7

LEMMA MessageHandled ==
    ASSUME RoutesInv, RoutesInv', BooksTyped, BooksTyped',
           NEW d \in Domains, NEW m, NEW authority, Handled(d, m, authority)
    PROVE  IF m \in InFlight THEN AllInFlight' = AllInFlight - RemoteValue(m.body[2])
           ELSE AllInFlight' = AllInFlight
  <1>1. UNCHANGED outbox /\ m.destination = d
        /\ DOMAIN processed'[d] = DOMAIN processed[d] \cup {m}
        /\ \A e \in Domains \ {d} : processed'[e] = processed[e]
    BY DEF Handled
  <1>2. InFlight' = InFlight \ {m}
    <2>1. ASSUME NEW x, NEW e \in Domains, x \in Range(outbox[e].tree)
          PROVE  x \in DOMAIN processed'[x.destination]
                    <=> x = m \/ x \in DOMAIN processed[x.destination]
      <3>1. x.destination \in Domains
        BY <2>1, MailTyped DEF RouteMessage
      <3>. QED
        BY <1>1, <3>1
    <2>2. \A x : x \in InFlight' <=> x \in InFlight /\ x # m
      BY <1>1, <2>1, InFlightIs, NextBooks DEF OnlyTransfers
    <2>. QED
      BY <2>2
  <1>3. CASE m \in InFlight
    <2> DEFINE rest == InFlight \ {m}
    <2>1. IsFiniteSet(rest) /\ InFlight = rest \cup {m} /\ m \notin rest
      BY <1>3, FS_RemoveElement DEF BooksTyped
    <2>2. \A x \in rest : FlightValues'[x] = FlightValues[x]
      BY <1>2 DEF FlightValues
    <2>3. OneMore(FlightValues', rest, FlightValues, m)
      BY <2>1, <2>2, ValuesAreTyped DEF OneMore, ValuesTyped
    <2>4. Total(FlightValues, rest \cup {m}) = Total(FlightValues', rest) + FlightValues[m]
      BY <2>3, TotalAdd
    <2>5. FlightValues[m] = RemoteValue(m.body[2]) /\ FlightValues[m] \in Nat
      BY <1>3, ValuesAreTyped DEF FlightValues, ValuesTyped
    <2>6. AllInFlight = AllInFlight' + RemoteValue(m.body[2])
      BY <1>2, <2>1, <2>4, <2>5, FlightSummed, NextBooks
    <2>7. AllInFlight' \in Int
      BY NextBooks DEF ValuesTyped
    <2>. QED
      BY <1>3, <2>5, <2>6, <2>7
  <1>4. CASE m \notin InFlight
    <2>1. InFlight' = InFlight
      BY <1>2, <1>4
    <2>2. FlightValues' = FlightValues
      BY <2>1 DEF FlightValues
    <2>. QED
      BY <1>4, <2>1, <2>2, FlightSummed, NextBooks
  <1>. QED
    BY <1>3, <1>4

(* A wallet is debited or credited. *)
LEMMA WalletChanged ==
    ASSUME Balances, NEW d \in Domains, NEW w \in Wallets, NEW x \in Int,
           balance' = [balance EXCEPT ![d][w] = @ + x]
    PROVE  /\ Balances'
           /\ Supply(d)' = Supply(d) + x
           /\ \A e \in Domains \ {d} : Supply(e)' = Supply(e)
  <1>1. /\ balance' \in [Domains -> [Wallets -> Int]]
        /\ balance'[d] = [balance[d] EXCEPT ![w] = @ + x]
        /\ \A e \in Domains \ {d} : balance'[e] = balance[e]
    BY DEF Balances
  <1>2. balance[d] \in [Wallets -> Int]
    BY DEF Balances
  <1>3. OneChanged(balance[d], Wallets, balance'[d], w)
    BY <1>1, <1>2, BackingAssumption DEF OneChanged
  <1>4. Total(balance'[d], Wallets) = Total(balance[d], Wallets) - balance[d][w] + balance'[d][w]
    <2> DEFINE f == balance[d]
               g == balance'[d]
    <2>1. OneChanged(f, Wallets, g, w)
      BY <1>3
    <2>. HIDE DEF f, g
    <2>2. Total(g, Wallets) = Total(f, Wallets) - f[w] + g[w]
      BY <2>1, TotalChange
    <2>. QED
      BY <2>2 DEF f, g
  <1>5. balance'[d][w] = balance[d][w] + x /\ balance[d][w] \in Int
    BY <1>1, <1>2
  <1>6. Total(balance[d], Wallets) \in Int
    BY <1>2, BackingAssumption, TotalType
  <1>7. Total(balance'[d], Wallets) = Total(balance[d], Wallets) + x
    BY <1>4, <1>5, <1>6
  <1>8. Supply(d)' = Supply(d) + x
    BY <1>7, BalancesSummed, NextBooks
  <1>9. \A e \in Domains \ {d} : Supply(e)' = Supply(e)
    BY <1>1, BalancesSummed, NextBooks
  <1>. QED
    BY <1>1, <1>8, <1>9 DEF Balances

---------------------------------------------------------------------------
(* The steps                                                               *)

BackingInv == RoutesInv /\ Balances /\ Backing

LEMMA LockedIs ==
    ASSUME NEW d \in Domains, UNCHANGED plugin, collateral'[d] = collateral[d],
           client'[d][Token] = None <=> client[d][Token] = None
    PROVE  Locked(d)' = Locked(d)
  BY DEF Locked

(* Nothing moves. *)
LEMMA BooksKept ==
    ASSUME BackingInv, RoutesInv', UNCHANGED <<plugin, balance>>,
           \A d \in Domains : Locked(d)' = Locked(d), AllInFlight' = AllInFlight
    PROVE  BackingInv'
  <1>1. Balances' /\ BooksTyped
    BY BooksAreTyped DEF BackingInv, Balances
  <1>2. \A d \in Domains : Supply(d)' = Supply(d)
    BY BalancesSummed, NextBooks
  <1>3. AllLocked' = AllLocked /\ AllSupply' = AllSupply
    BY <1>1, <1>2, LockedKept, SupplyKept
  <1>. QED
    BY <1>1, <1>3, UnfoldBacking, NextBooks DEF BackingInv

LEMMA AdminBacked ==
    ASSUME BackingInv, RoutesInv', NEW d \in Domains, TokenAdmin(d) \/ HelloAdmin(d)
    PROVE  BackingInv'
  <1>1. UNCHANGED <<outbox, processed, pluginVars>>
    BY DEF TokenAdmin, HelloAdmin, InitHelloWorld, EnrollHelloRouters, SetHelloIsm,
           EnrollRemoteRouters, SetDestinationGasConfigs, SetInterchainSecurityModule,
           SetInterchainGasPaymaster, TransferClientOwnership, OnlyOwner
  <1>2. \A e \in Domains : client'[e][Token] = None <=> client[e][Token] = None
    <2>1. CASE TokenAdmin(d)
      <3>1. PICK c : Reconfigured(d, Token, c)
        BY <2>1, TokenAdminIs DEF BackingInv
      <3>2. /\ client'[d][Token] # None /\ client[d][Token] # None
            /\ \A e \in Domains, q \in Programs : e # d \/ q # Token => client'[e][q] = client[e][q]
        BY <3>1, OneClient DEF BackingInv, RoutesInv, Reconfigured
      <3>. QED
        BY <3>2, RoutesAssumption
    <2>2. CASE HelloAdmin(d)
      <3>1. /\ client = [e \in Domains |-> client[e]]
            /\ \A e \in Domains : client[e] = [p \in Programs |-> client[e][p]]
            /\ Token # Hello
        BY RoutesAssumption DEF BackingInv, RoutesInv, ClientsSound
      <3>2. \E c : client' = [client EXCEPT ![d][Hello] = c]
        BY <2>2, <3>1 DEF HelloAdmin, InitHelloWorld, EnrollHelloRouters, SetHelloIsm,
                          EnrollRemoteRouters, SetInterchainSecurityModule
      <3>. QED
        BY <3>1, <3>2
    <2>. QED
      BY <2>1, <2>2
  <1>3. \A e \in Domains : Locked(e)' = Locked(e)
    BY <1>1, <1>2, LockedIs DEF pluginVars
  <1>. QED
    BY <1>1, <1>3, FlightKept, BooksKept DEF pluginVars

(* What a program locks is counted from its rent. *)
LEMMA InitializeTokenBacked ==
    ASSUME BackingInv, RoutesInv', NEW d \in Domains, NEW w \in Admins, NEW i \in RouteIsms,
           NEW g \in RouteIgps, InitializeToken(d, w, i, g)
    PROVE  BackingInv'
  <1>1. /\ client[d][Token] = None /\ client' = [client EXCEPT ![d][Token] = NewClient(w, i, g)]
        /\ UNCHANGED <<outbox, processed, plugin, balance>>
    BY DEF InitializeToken, Uninitialized
  <1>2. /\ client \in [Domains -> [Programs -> {None} \cup ClientData]] /\ Token \in Programs
        /\ collateral \in [Domains -> Int] /\ RentMin \in Int
    BY RoutesAssumption DEF BackingInv, RoutesInv, ClientsSound, TokensSound
  <1>3. \A e \in Domains \ {d} : client'[e][Token] = client[e][Token]
    BY <1>1, <1>2
  <1>4. \A e \in Domains \ {d} : collateral'[e] = collateral[e]
    BY <1>2 DEF InitializeToken, NativeInitialize, CollateralInitialize, SyntheticInitialize
  <1>5. \A e \in Domains \ {d} : Locked(e)' = Locked(e)
    BY <1>1, <1>3, <1>4, LockedIs
  <1>6. CASE plugin[d] = "synthetic"
    <2>1. BooksTyped /\ Balances'
      BY <1>1, BooksAreTyped DEF BackingInv, Balances
    <2>2. \A e \in Backed : Locked(e)' = Locked(e)
      BY <1>5, <1>6 DEF Backed
    <2>3. AllLocked' = AllLocked
      <3>1. Backed' = Backed
        BY <1>1 DEF Backed
      <3>2. LockedValues' = LockedValues
        BY <2>2, <3>1 DEF LockedValues
      <3>. QED
        BY <3>1, <3>2, LockedSummed, NextBooks
    <2>4. AllSupply' = AllSupply
      BY <1>1, <2>1, BalancesSummed, NextBooks, SupplyKept
    <2>5. AllInFlight' = AllInFlight
      BY <1>1, FlightKept
    <2>. QED
      BY <2>1, <2>3, <2>4, <2>5, UnfoldBacking, NextBooks DEF BackingInv
  <1>7. CASE plugin[d] # "synthetic"
    <2>1. collateral'[d] - (IF plugin[d] = "native" THEN RentMin ELSE 0) = 0
      <3>1. CASE plugin[d] = "native" /\ NativeInitialize(d)
        BY <1>2, <3>1 DEF NativeInitialize
      <3>2. CASE plugin[d] = "collateral" /\ CollateralInitialize(d)
        BY <1>2, <3>2 DEF CollateralInitialize
      <3>. QED
        BY <1>7, <3>1, <3>2 DEF InitializeToken
    <2>2. Locked(d)' = 0 /\ Locked(d) = 0
      BY <1>1, <2>1 DEF Locked
    <2>3. \A e \in Domains : Locked(e)' = Locked(e)
      BY <1>5, <2>2
    <2>. QED
      BY <1>1, <2>3, FlightKept, BooksKept
  <1>. QED
    BY <1>6, <1>7

(* Sending counts as much on its way as it locks or burns, or less. *)
LEMMA TransferBacked ==
    ASSUME BackingInv, RoutesInv', NEW d \in Domains, Transfer(d)
    PROVE  BackingInv'
  <1>1. PICK w \in Wallets, r \in Wallets, u \in UniqueKeys, to \in Domains, a \in Amounts[d] :
            TransferRemote(d, w, u, to, r, a)
    BY DEF Transfer
  <1> DEFINE sent == LocalToRemote(d, a)
             b == <<r, sent>>
             gas == DestinationGas(d, Token, to)
             worth == a * LocalUnit(d)
             onWay == RemoteValue(sent)
  <1>2. a \in Nat /\ b \in Wallets \X Nat /\ b[2] = sent
    BY DecimalsConverted, RoutesAssumption
  <1>3. /\ client[d][Token] # None /\ RouterDispatchWithGas(d, Token, u, to, b, gas)
        /\ TransferIn(d, w, a) /\ UNCHANGED client
    BY <1>1 DEF TransferRemote, Uninitialized
  <1>4. /\ LocalUnit(d) \in Nat /\ worth \in Nat /\ onWay \in Nat /\ onWay <= worth
    <2>1. LocalUnit(d) \in Nat /\ onWay \in Nat /\ onWay <= worth
      BY <1>2, Conversions
    <2>. QED
      BY <1>2, <2>1
  <1>. HIDE DEF gas, sent, b, onWay
  <1>5. PICK m :
            /\ NewLeaf(d, u, m) /\ m.sender = Token /\ m.body = b
            /\ outbox'[d].tree = Append(outbox[d].tree, m)
            /\ \A e \in Domains \ {d} : outbox'[e].tree = outbox[e].tree
    <2>1. \E m :
            /\ NewLeaf(d, u, m) /\ m.sender = Token /\ m.destination = to /\ m.body = b
            /\ MailSound' /\ PaymentsSound'
            /\ outbox'[d].tree = Append(outbox[d].tree, m)
            /\ \A e \in Domains \ {d} : outbox'[e].tree = outbox[e].tree
      <3>1. RoutesInv /\ Token \in {Token, Hello} /\ b \in {Greeting} \cup (Wallets \X Nat)
        BY <1>2 DEF BackingInv
      <3>. QED
        BY <1>2, <1>3, <3>1, RouterSends, Zenon
    <2>. QED
      BY <2>1
  <1>6. balance' = [balance EXCEPT ![d][w] = @ + (0 - a)] /\ plugin' = plugin
    <2>1. balance' = [balance EXCEPT ![d][w] = @ - a] /\ plugin' = plugin
      BY <1>3 DEF TransferIn
    <2>2. balance[d][w] - a = balance[d][w] + (0 - a)
      BY <1>2 DEF BackingInv, Balances
    <2>. QED
      BY <2>1, <2>2
  <1>7. Balances' /\ Supply(d)' = Supply(d) + (0 - a) /\ \A e \in Domains \ {d} : Supply(e)' = Supply(e)
    <2>1. 0 - a \in Int
      BY <1>2
    <2>. QED
      BY <1>6, <2>1, WalletChanged DEF BackingInv
  <1>8. /\ BooksTyped /\ BooksTyped'
        /\ AllLocked \in Int /\ AllSupply \in Int /\ AllInFlight \in Int
    BY <1>7, BooksAreTyped, NextBooks, ValuesAreTyped DEF BackingInv, ValuesTyped
  <1>9. AllInFlight' <= AllInFlight + onWay
    <2>1. RemoteValue(m.body[2]) = onWay
      BY <1>2, <1>5 DEF onWay
    <2>2. AllInFlight' = AllInFlight \/ AllInFlight' = AllInFlight + onWay
      BY <1>5, <1>8, <2>1, LeafInFlight DEF BackingInv
    <2>. QED
      BY <1>4, <1>8, <2>2
  <1>10. AllLocked >= AllSupply + AllInFlight
    BY UnfoldBacking DEF BackingInv
  <1>11. CASE plugin[d] = "synthetic"
    <2>1. collateral' = collateral
      BY <1>3, <1>11 DEF TransferIn, NativeTransferIn, CollateralTransferIn, SyntheticTransferIn
    <2>2. AllLocked' = AllLocked
      BY <1>3, <1>6, <1>8, <2>1, LockedIs, LockedKept
    <2>3. AllSupply' = AllSupply + (Supply(d)' - Supply(d)) * LocalUnit(d)
      BY <1>6, <1>7, <1>8, <1>11, SupplyChanged DEF Backed
    <2>4. AllSupply' = AllSupply - worth
      <3>1. Supply(d) \in Int
        BY <1>8 DEF BooksTyped
      <3>2. Supply(d)' - Supply(d) = 0 - a
        BY <1>2, <1>7, <3>1
      <3>. QED
        BY <1>2, <1>4, <1>8, <2>3, <3>2
    <2>. HIDE DEF worth
    <2>5. AllLocked' >= AllSupply' + AllInFlight'
      BY <1>4, <1>8, <1>9, <1>10, <2>2, <2>4, NextBooks DEF ValuesTyped
    <2>. QED
      BY <1>7, <2>5, NextBooks DEF BackingInv
  <1>12. CASE plugin[d] # "synthetic"
    <2>1. /\ collateral' = [collateral EXCEPT ![d] = @ + a]
          /\ collateral \in [Domains -> Int] /\ RentMin \in Int
      BY <1>3, <1>12, RoutesAssumption
      DEF TransferIn, NativeTransferIn, CollateralTransferIn, SyntheticTransferIn, BackingInv,
          RoutesInv, TokensSound
    <2>2. Locked(d)' - Locked(d) = a
      BY <1>2, <1>3, <1>6, <2>1 DEF Locked
    <2>3. \A e \in Domains \ {d} : Locked(e)' = Locked(e)
      BY <1>3, <1>6, <2>1, LockedIs
    <2>4. AllLocked' = AllLocked + worth
      BY <1>6, <1>8, <1>12, <2>2, <2>3, LockedChanged DEF Backed
    <2>5. AllSupply' = AllSupply
      BY <1>6, <1>7, <1>8, <1>12, SupplyKept DEF Backed
    <2>. HIDE DEF worth
    <2>6. AllLocked' >= AllSupply' + AllInFlight'
      BY <1>4, <1>8, <1>9, <1>10, <2>4, <2>5, NextBooks DEF ValuesTyped
    <2>. QED
      BY <1>7, <2>6, NextBooks DEF BackingInv
  <1>. QED
    BY <1>11, <1>12

(* A message of others is no transfer. *)
LEMMA OthersSend ==
    ASSUME BackingInv, RoutesInv', NEW d \in Domains, Send(d) \/ Forge(d)
    PROVE  BackingInv'
  <1>1. PICK u, m : NewLeaf(d, u, m) /\ m.sender # Token
    <2>1. CASE Send(d)
      <3>1. PICK u \in UniqueKeys, to \in Domains : SendHelloWorld(d, u, to, Greeting)
        BY <2>1 DEF Send
      <3>2. client[d][Hello] # None /\ RouterDispatch(d, Hello, u, to, Greeting)
        BY <3>1 DEF SendHelloWorld, Uninitialized, RouterDispatchWithGas
      <3>3. Hello \in {Token, Hello} /\ Hello # Token /\ Greeting \in {Greeting} \cup (Wallets \X Nat)
        BY RoutesAssumption
      <3>4. \E m : NewLeaf(d, u, m) /\ m.sender = Hello /\ m.destination = to /\ m.body = Greeting
        BY <3>2, <3>3, RouterAddsLeaf DEF BackingInv, RoutesInv
      <3>. QED
        BY <3>3, <3>4
    <2>2. CASE Forge(d)
      <3>1. PICK w \in Strangers, u \in UniqueKeys, to \in Domains, p \in Programs :
                OutboxDispatch(d, w, u, w, to, p, <<w, ForgedAmount>>)
        BY <2>2 DEF Forge
      <3>2. w \in Wallets /\ w \notin Programs /\ <<w, ForgedAmount>> \in Wallets \X Nat
        BY RoutesAssumption
      <3>3. PICK m : NewLeaf(d, u, m) /\ m.sender = w
        BY <3>1, <3>2, DispatchAddsLeaf DEF Principals, BackingInv, RoutesInv
      <3>. QED
        BY <3>2, <3>3, RoutesAssumption
    <2>. QED
      BY <2>1, <2>2
  <1>2. UNCHANGED <<client, pluginVars>>
    BY DEF Send, SendHelloWorld, Forge
  <1>3. /\ outbox'[d].tree = Append(outbox[d].tree, m)
        /\ \A e \in Domains \ {d} : outbox'[e].tree = outbox[e].tree
    BY <1>1, LeafKeepsMail DEF BackingInv, RoutesInv
  <1>4. BooksTyped /\ BooksTyped'
    BY <1>2, BooksAreTyped, NextBooks DEF BackingInv, Balances, pluginVars
  <1>5. AllInFlight' = AllInFlight
    BY <1>1, <1>3, <1>4, LeafInFlight DEF BackingInv
  <1>6. \A e \in Domains : Locked(e)' = Locked(e)
    BY <1>2, LockedIs DEF pluginVars
  <1>. QED
    BY <1>2, <1>5, <1>6, BooksKept DEF pluginVars

(* Arriving is worth as much as was on its way, or less. *)
LEMMA DeliverBacked ==
    ASSUME BackingInv, RoutesInv', NEW d \in Domains, Deliver(d)
    PROVE  BackingInv'
  <1>1. PICK m, authority : Handled(d, m, authority)
    BY DeliveryIs DEF BackingInv
  <1>2. CASE m.recipient = Hello
    <2>1. UNCHANGED <<client, pluginVars>> /\ m.recipient # Token
      BY <1>1, <1>2, RoutesAssumption DEF Handled
    <2>2. BooksTyped /\ BooksTyped'
      BY <2>1, BooksAreTyped, NextBooks DEF BackingInv, Balances, pluginVars
    <2>3. m \notin InFlight
      BY <2>1 DEF InFlight
    <2>4. AllInFlight' = AllInFlight
      BY <1>1, <2>2, <2>3, MessageHandled DEF BackingInv
    <2>5. \A e \in Domains : Locked(e)' = Locked(e)
      BY <2>1, LockedIs DEF pluginVars
    <2>. QED
      BY <2>1, <2>4, <2>5, BooksKept DEF pluginVars
  <1>3. CASE m.recipient = Token
    <2> DEFINE a == RemoteToLocal(d, m.body[2])
               worth == a * LocalUnit(d)
               onWay == RemoteValue(m.body[2])
    <2>1. /\ m.body \in Wallets \X Nat /\ UNCHANGED client
          /\ TransferFromRemote(d, authority, m.origin, m.sender, m.body)
      BY <1>1, <1>3, RoutesAssumption DEF Handled
    <2>2. m \in InFlight
      <3>1. m.sender = Token
        <4>1. /\ client[d][Token] # None /\ m.origin \in DOMAIN client[d][Token].routers
              /\ client[d][Token].routers[m.origin] = m.sender
          BY <2>1 DEF TransferFromRemote, EnsureValidRouterMessage, Uninitialized
        <4>. QED
          BY <4>1 DEF BackingInv, RoutesInv, ClientsSound
      <3>. QED
        BY <1>1, <1>3, <3>1, InFlightIs DEF Handled, BackingInv, OnlyTransfers
    <2>3. a \in Nat /\ LocalUnit(d) \in Nat /\ worth \in Nat /\ onWay \in Nat /\ worth <= onWay
      <3>1. m.body[2] \in Nat
        BY <2>1
      <3>2. a \in Nat /\ LocalUnit(d) \in Nat /\ onWay \in Nat /\ worth <= onWay
        BY <3>1, Conversions, DecimalsConverted
      <3>. QED
        BY <3>2
    <2>4. m.body[1] \in Wallets /\ TransferOut(d, m.body[1], a)
      BY <2>1 DEF TransferFromRemote
    <2>. HIDE DEF a, onWay
    <2>5. plugin' = plugin /\ Balances' /\ Supply(d)' = Supply(d) + a
          /\ \A e \in Domains \ {d} : Supply(e)' = Supply(e)
      <3>1. balance' = [balance EXCEPT ![d][m.body[1]] = @ + a] /\ plugin' = plugin
        BY <2>4 DEF TransferOut
      <3>2. a \in Int
        BY <2>3
      <3>. QED
        BY <2>4, <3>1, <3>2, WalletChanged DEF BackingInv
    <2>6. /\ BooksTyped /\ BooksTyped'
          /\ AllLocked \in Int /\ AllSupply \in Int /\ AllInFlight \in Int
      BY <2>5, BooksAreTyped, NextBooks, ValuesAreTyped DEF BackingInv, ValuesTyped
    <2>7. AllInFlight' = AllInFlight - onWay
      BY <1>1, <2>2, <2>6, MessageHandled DEF BackingInv, onWay
    <2>8. AllLocked >= AllSupply + AllInFlight
      BY UnfoldBacking DEF BackingInv
    <2>9. CASE plugin[d] = "synthetic"
      <3>1. collateral' = collateral
        BY <2>4, <2>9 DEF TransferOut, NativeTransferOut, CollateralTransferOut, SyntheticTransferOut
      <3>2. AllLocked' = AllLocked
        BY <2>1, <2>5, <2>6, <3>1, LockedIs, LockedKept
      <3>3. AllSupply' = AllSupply + (Supply(d)' - Supply(d)) * LocalUnit(d)
        BY <2>5, <2>6, <2>9, SupplyChanged DEF Backed
      <3>4. AllSupply' = AllSupply + worth
        <4>1. Supply(d) \in Int
          BY <2>6 DEF BooksTyped
        <4>2. Supply(d)' - Supply(d) = a
          BY <2>3, <2>5, <4>1
        <4>. QED
          BY <3>3, <4>2
      <3>. HIDE DEF worth
      <3>5. AllLocked' >= AllSupply' + AllInFlight'
        BY <2>3, <2>6, <2>7, <2>8, <3>2, <3>4
      <3>. QED
        BY <2>5, <3>5, NextBooks DEF BackingInv
    <2>10. CASE plugin[d] # "synthetic"
      <3>1. /\ collateral' = [collateral EXCEPT ![d] = @ - a]
            /\ collateral \in [Domains -> Int] /\ RentMin \in Int /\ client[d][Token] # None
        BY <2>1, <2>4, <2>10, RoutesAssumption
        DEF TransferOut, NativeTransferOut, CollateralTransferOut, SyntheticTransferOut, BackingInv,
            RoutesInv, TokensSound, TransferFromRemote, Uninitialized
      <3>2. Locked(d)' - Locked(d) = 0 - a
        BY <2>1, <2>3, <2>5, <3>1 DEF Locked
      <3>3. \A e \in Domains \ {d} : Locked(e)' = Locked(e)
        BY <2>1, <2>5, <3>1, LockedIs
      <3>4. AllLocked' = AllLocked + (Locked(d)' - Locked(d)) * LocalUnit(d)
        BY <2>5, <2>6, <2>10, <3>3, LockedChanged DEF Backed
      <3>5. AllLocked' = AllLocked - worth
        BY <2>3, <2>6, <3>2, <3>4
      <3>6. AllSupply' = AllSupply
        BY <2>5, <2>6, <2>10, SupplyKept DEF Backed
      <3>. HIDE DEF worth
      <3>7. AllLocked' >= AllSupply' + AllInFlight'
        BY <2>3, <2>6, <2>7, <2>8, <3>5, <3>6
      <3>. QED
        BY <2>5, <3>7, NextBooks DEF BackingInv
    <2>. QED
      BY <2>9, <2>10
  <1>. QED
    BY <1>1, <1>2, <1>3 DEF Handled

LEMMA BackingNext == BackingInv /\ [Next]_vars => BackingInv'
  <1> SUFFICES ASSUME BackingInv, [Next]_vars
               PROVE  BackingInv'
    OBVIOUS
  <1>0. RoutesInv'
    BY RoutesNext DEF BackingInv
  <1>1. CASE UNCHANGED vars
    <2>1. UNCHANGED <<outbox, processed, client, pluginVars>>
      BY <1>1 DEF vars, routerVars, mailboxVars
    <2>2. \A e \in Domains : Locked(e)' = Locked(e)
      BY <2>1, LockedIs DEF pluginVars
    <2>. QED
      BY <1>0, <2>1, <2>2, FlightKept, BooksKept DEF pluginVars
  <1>2. ASSUME NEW d \in Domains, NEW w \in Admins, NEW i \in RouteIsms, NEW g \in RouteIgps,
               InitializeToken(d, w, i, g)
        PROVE  BackingInv'
    BY <1>0, <1>2, InitializeTokenBacked
  <1>3. ASSUME NEW d \in Domains,
               \/ TokenAdmin(d) \/ HelloAdmin(d) \/ Transfer(d) \/ Send(d) \/ Forge(d) \/ Deliver(d)
        PROVE  BackingInv'
    BY <1>0, <1>3, AdminBacked, TransferBacked, OthersSend, DeliverBacked
  <1>4. ASSUME NEW d \in Domains, FundAtaPayer(d)
        PROVE  BackingInv'
    <2>1. UNCHANGED <<outbox, processed, client, plugin, balance, collateral>>
      BY <1>4 DEF FundAtaPayer, routerVars, mailboxVars
    <2>2. \A e \in Domains : Locked(e)' = Locked(e)
      BY <2>1, LockedIs
    <2>. QED
      BY <1>0, <2>1, <2>2, FlightKept, BooksKept
  <1>. QED
    BY <1>1, <1>2, <1>3, <1>4 DEF Next

(* At the start nothing is locked, minted or on its way. *)
LEMMA BackingInit == Init => BackingInv
  <1> SUFFICES ASSUME Init
               PROVE  BackingInv
    OBVIOUS
  <1>1. RoutesInv
    BY RoutesInit
  <1>2. balance = [d \in Domains |-> [w \in Wallets |-> IF d = RouteHome THEN Endowment[w] ELSE 0]]
    BY DEF Init
  <1>3. Balances /\ BooksTyped
    <2>1. \A d \in Domains, w \in Wallets : (IF d = RouteHome THEN Endowment[w] ELSE 0) \in Int
      BY BackingAssumption
    <2>2. Balances
      BY <1>2, <2>1 DEF Balances
    <2>. QED
      BY <1>1, <2>2, BooksAreTyped
  <1>4. \A d \in Domains : 0 * LocalUnit(d) = 0 /\ LocalValue(d, 0) = 0
    <2> SUFFICES ASSUME NEW d \in Domains
                 PROVE  0 * LocalUnit(d) = 0 /\ LocalValue(d, 0) = 0
      OBVIOUS
    <2>1. LocalUnit(d) \in Nat /\ LocalValue(d, 0) = 0 * LocalUnit(d)
      BY Conversions DEF LocalUnit, LocalValue
    <2>. QED
      BY <2>1
  <1>5. AllLocked = 0
    <2>1. ASSUME NEW d \in Backed
          PROVE  Locked(d) = 0
      <3>1. PICK homes \in RouteHomes :
            /\ client = [e \in Domains |-> [p \in Programs |->
                CASE e \in homes /\ p = Token ->
                        HomeClient(Domains \ {e}, p, IF e = RouteHome THEN HomePaymaster ELSE <<>>)
                  [] e = HelloHome /\ p = Hello -> HelloClient
                  [] OTHER -> None]]
            /\ collateral = [e \in Domains |->
                IF e \in homes /\ plugin[e] = "native" THEN RentMin ELSE 0]
        BY DEF Init
      <3>2. d \in Domains /\ Token \in Programs /\ Token # Hello /\ RentMin \in Nat
        BY RoutesAssumption DEF Backed
      <3>3. collateral[d] = IF d \in homes /\ plugin[d] = "native" THEN RentMin ELSE 0
        BY <3>1, <3>2
      <3>4. CASE d \in homes
        BY <3>2, <3>3, <3>4 DEF Locked
      <3>5. CASE d \notin homes
        <4>1. client[d][Token] = None
          BY <3>1, <3>2, <3>5
        <4>. QED
          BY <4>1 DEF Locked
      <3>. QED
        BY <3>4, <3>5
    <2>2. \A d \in Backed : LockedValues[d] = 0
      BY <1>4, <2>1 DEF LockedValues, Backed
    <2>. QED
      BY <1>3, <2>2, TotalZero, LockedSummed DEF BooksTyped
  <1>6. AllSupply = 0
    <2>1. ASSUME NEW d \in Domains \ Backed
          PROVE  Supply(d) = 0
      <3>1. d # RouteHome
        BY BackingAssumption DEF Init, Backed
      <3>2. \A w \in Wallets : balance[d][w] = 0
        BY <1>2, <3>1
      <3>3. Total(balance[d], Wallets) = 0
        BY <3>2, BackingAssumption, TotalZero
      <3>. QED
        BY <3>3, BalancesSummed
    <2>2. \A d \in Domains \ Backed : SupplyValues[d] = 0
      BY <1>4, <2>1 DEF SupplyValues
    <2>. QED
      BY <1>3, <2>2, TotalZero, SupplySummed DEF BooksTyped
  <1>7. AllInFlight = 0
    <2>1. \A d \in Domains : outbox[d].tree = <<>>
      BY RoutesAssumption DEF Init, MailboxInit, NewOutbox
    <2>2. \A d \in Domains : Range(outbox[d].tree) = {}
      BY <2>1 DEF Range
    <2>3. InFlight = {}
      BY <1>1, <2>2, InFlightIs DEF OnlyTransfers
    <2>. QED
      BY <1>3, <2>3, TotalZero, FlightSummed DEF BooksTyped
  <1>8. AllLocked >= AllSupply + AllInFlight
    BY <1>5, <1>6, <1>7
  <1>. QED
    BY <1>1, <1>3, <1>8, UnfoldBacking DEF BackingInv

(* Whoever sends, forges or delivers token messages, with whatever         *)
(* decimals, routers and owners, what the programs of the route hold pays  *)
(* for what was minted and for what is on its way (transfer_in,            *)
(* transfer_out and the conversions of the decimals).                      *)
THEOREM RoutesAreBacked == Spec => []Backing
  <1>1. BackingInv => Backing
    BY DEF BackingInv
  <1>. QED
    BY <1>1, BackingInit, BackingNext, PTL DEF Spec
===========================================================================
