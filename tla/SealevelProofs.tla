--------------------------- MODULE SealevelProofs ---------------------------
(***************************************************************************)
(* The programs of SealevelPrograms, for any chains, accounts, messages    *)
(* and instructions: what the multisig ISM accepts, NoForgedDelivery and   *)
(* the exactness of both indices with a recipient that may answer in any   *)
(* way, the announcements of validators, and the gas paymaster's lamports. *)
(***************************************************************************)
EXTENDS SealevelPrograms, SetSums, Integers, FiniteSetTheorems, TLAPS

-----------------------------------------------------------------------------
(* The inductive invariant                                                 *)

(* The accounts and histories of every chain, and no others. *)
OfEveryChain ==
    /\ DOMAIN dispatched = Domains /\ DOMAIN processed = Domains
    /\ DOMAIN principal = Domains /\ DOMAIN handled = Domains
    /\ \A d \in Domains : /\ IsFiniteSet(DOMAIN dispatched[d])
                           /\ IsFiniteSet(DOMAIN processed[d])

(* Nothing was dispatched or processed before Init. *)
NothingBeforeInit ==
    \A d \in Domains :
        /\ outbox[d] = None => DOMAIN dispatched[d] = {} /\ principal[d] = <<>>
        /\ inbox[d] = None => handled[d] = <<>>

(* Every quorum that is asked for passed Validate. *)
QuorumsValid ==
    \A d \in Domains, i \in Isms, o \in Domains :
        domainData[d][i][o] # None => Validate(domainData[d][i][o])

(* A leaf of the tree names the principal that asked for it. *)
SendersReal ==
    \A d \in Domains : outbox[d] # None =>
        /\ Len(principal[d]) = Len(outbox[d].tree)
        /\ \A n \in 1..Len(outbox[d].tree) : principal[d][n] = outbox[d].tree[n].sender

ProcessedGenuine == \A d \in Domains : \A m \in DOMAIN processed[d] : Genuine(m)

IInv ==
    /\ TypeOK /\ OfEveryChain /\ NothingBeforeInit /\ QuorumsValid /\ SendersReal
    /\ ProcessedGenuine /\ DispatchedIndexExact /\ ProcessedIndexExact

-----------------------------------------------------------------------------
(* MultisigIsm::verify                                                     *)

(* validator_index after a signature is matched from the index from on. *)
After(validators, from, signer) ==
    LET at == {j \in from..Len(validators) : validators[j] = signer}
    IN  IF at = {} THEN Len(validators) + 1 + 1
        ELSE 1 + (CHOOSE j \in at : \A h \in at : j <= h)

(* validator_index after each signature. *)
IndexFunction(f, validators, threshold, signers) ==
    f = [k \in 0..threshold |->
            IF k = 0 THEN 1 ELSE After(validators, f[k - 1], signers[k])]

Index(validators, threshold, signers) ==
    CHOOSE f : IndexFunction(f, validators, threshold, signers)

(* The signers are a subsequence of the validators, found at the places at. *)
SignedInOrder(at, validators, threshold, signers) ==
    /\ at \in [1..threshold -> 1..Len(validators)]
    /\ \A k \in 1..threshold : validators[at[k]] = signers[k]
    /\ \A i, j \in 1..threshold : i < j => at[i] < at[j]

LEMMA UnfoldVerify ==
    ASSUME NEW validators, NEW threshold \in Nat, NEW signers
    PROVE  VerifyQuorum(validators, threshold, signers) <=>
                Index(validators, threshold, signers)[threshold] <= Len(validators) + 1
  BY DEF VerifyQuorum, Index, IndexFunction, After

(* The loop stops at the first validator from the index on that signed. *)
LEMMA AfterIs ==
    ASSUME NEW validators, Len(validators) \in Nat, NEW signer,
           NEW from \in 1..(Len(validators) + 2)
    PROVE  LET N == Len(validators)
               a == After(validators, from, signer)
           IN  /\ a \in 1..(N + 2)
               /\ a <= N + 1 => /\ a - 1 \in from..N /\ validators[a - 1] = signer
               /\ \A h \in from..N : validators[h] = signer => a <= h + 1
  <1>. DEFINE N == Len(validators)
              at == {j \in from..N : validators[j] = signer}
              a == After(validators, from, signer)
  <1>1. CASE at = {}
    BY <1>1 DEF After
  <1>2. CASE at # {}
    <2>1. \E j \in at : \A h \in at : j <= h
      <3>1. at \in SUBSET Nat
        OBVIOUS
      <3>. HIDE DEF at
      <3>. QED
        BY <1>2, <3>1, SmallestOf
    <2>. DEFINE j == CHOOSE j \in at : \A h \in at : j <= h
    <2>2. j \in at /\ \A h \in at : j <= h
      BY <2>1
    <2>3. a = 1 + j
      BY <1>2 DEF After
    <2>. HIDE DEF j
    <2>. QED
      BY <2>2, <2>3
  <1>. QED
    BY <1>1, <1>2

(* The recursive definition has a value: a prefix of it extends by one. *)
LEMMA IndexDefined ==
    ASSUME NEW validators, NEW threshold \in Nat, NEW signers
    PROVE  IndexFunction(Index(validators, threshold, signers),
                         validators, threshold, signers)
  <1>. DEFINE S == {n \in Nat : \E f : IndexFunction(f, validators, n, signers)}
  <1>1. 0 \in S
    <2>. DEFINE f == [k \in 0..0 |-> 1]
    <2>1. IndexFunction(f, validators, 0, signers)
      BY DEF IndexFunction
    <2>. QED
      BY <2>1
  <1>2. ASSUME NEW n \in 0..threshold, n < threshold, n \in S PROVE n + 1 \in S
    <2>1. PICK f : IndexFunction(f, validators, n, signers)
      BY <1>2
    <2>. DEFINE g == [k \in 0..(n + 1) |->
                        IF k = n + 1 THEN After(validators, f[n], signers[n + 1]) ELSE f[k]]
    <2>2. f = [k \in 0..n |-> IF k = 0 THEN 1 ELSE After(validators, f[k - 1], signers[k])]
      BY <2>1 DEF IndexFunction
    <2>3. ASSUME NEW k \in 0..(n + 1)
          PROVE  g[k] = IF k = 0 THEN 1 ELSE After(validators, g[k - 1], signers[k])
      <3>1. CASE k = n + 1
        <4>1. g[k] = After(validators, f[n], signers[k]) /\ k # 0 /\ k - 1 = n
          BY <3>1
        <4>2. g[k - 1] = f[n]
          BY <3>1
        <4>. QED
          BY <4>1, <4>2
      <3>2. CASE k # n + 1
        <4>1. k \in 0..n /\ g[k] = f[k]
          BY <3>2
        <4>2. CASE k = 0
          BY <4>1, <4>2, <2>2
        <4>3. CASE k # 0
          <5>1. g[k - 1] = f[k - 1]
            BY <4>1, <4>3
          <5>. HIDE DEF g
          <5>2. f[k] = After(validators, f[k - 1], signers[k])
            BY <2>2, <4>1, <4>3
          <5>. QED
            BY <4>1, <4>3, <5>1, <5>2
        <4>. QED
          BY <4>2, <4>3
      <3>. QED
        BY <3>1, <3>2
    <2>4. g = [k \in 0..(n + 1) |->
                 IF k = 0 THEN 1 ELSE After(validators, g[k - 1], signers[k])]
      <3>1. DOMAIN g = 0..(n + 1) /\ g = [k \in 0..(n + 1) |-> g[k]]
        OBVIOUS
      <3>. HIDE DEF g
      <3>. QED
        BY <2>3, <3>1
    <2>. HIDE DEF g
    <2>5. IndexFunction(g, validators, n + 1, signers)
      BY <2>4 DEF IndexFunction
    <2>. QED
      BY <2>5
  <1>3. threshold \in S
    <2>. HIDE DEF S
    <2>. QED
      BY <1>1, <1>2, IntervalInduction
  <1>. QED
    BY <1>3 DEF Index

(* What the loop leaves: an index that never goes back, and stays past the *)
(* end once a signature matched nobody.                                    *)
LEMMA IndexIs ==
    ASSUME NEW validators, Len(validators) \in Nat, NEW threshold \in Nat, NEW signers
    PROVE  LET N == Len(validators)
               x == Index(validators, threshold, signers)
           IN  /\ x[0] = 1
               /\ \A k \in 0..threshold : x[k] \in 1..(N + 2)
               /\ \A k \in 1..threshold :
                    /\ x[k] = After(validators, x[k - 1], signers[k])
                    /\ x[k] <= N + 1 => /\ x[k] - 1 \in x[k - 1]..N
                                        /\ validators[x[k] - 1] = signers[k]
                    /\ \A h \in x[k - 1]..N : validators[h] = signers[k] => x[k] <= h + 1
  <1>. DEFINE N == Len(validators)
              x == Index(validators, threshold, signers)
              S == {k \in 0..threshold : x[k] \in 1..(N + 2)}
  <1>1. x = [k \in 0..threshold |->
                IF k = 0 THEN 1 ELSE After(validators, x[k - 1], signers[k])]
    BY IndexDefined DEF IndexFunction
  <1>. HIDE DEF x
  <1>2. x[0] = 1
    BY <1>1
  <1>3. ASSUME NEW k \in 1..threshold
        PROVE  x[k] = After(validators, x[k - 1], signers[k])
    BY <1>1
  <1>4. 0 \in S
    BY <1>2
  <1>5. ASSUME NEW k \in 0..threshold, k < threshold, k \in S PROVE k + 1 \in S
    <2>1. k + 1 \in 1..threshold /\ (k + 1) - 1 = k
      BY <1>5
    <2>2. x[k + 1] = After(validators, x[k], signers[k + 1])
      BY <1>3, <2>1
    <2>3. x[k + 1] \in 1..(N + 2)
      BY <1>5, <2>2, AfterIs
    <2>. QED
      BY <2>1, <2>3
  <1>6. 0..threshold \subseteq S
    <2>. HIDE DEF S
    <2>. QED
      BY <1>4, <1>5, IntervalInduction
  <1>7. ASSUME NEW k \in 0..threshold PROVE x[k] \in 1..(N + 2)
    BY <1>6
  <1>8. ASSUME NEW k \in 1..threshold
        PROVE  /\ x[k] <= N + 1 => /\ x[k] - 1 \in x[k - 1]..N
                                   /\ validators[x[k] - 1] = signers[k]
               /\ \A h \in x[k - 1]..N : validators[h] = signers[k] => x[k] <= h + 1
    <2>1. k - 1 \in 0..threshold
      OBVIOUS
    <2>2. x[k - 1] \in 1..(N + 2)
      BY <1>7, <2>1
    <2>. QED
      BY <1>3, <2>2, AfterIs
  <1>. QED
    BY <1>2, <1>3, <1>7, <1>8 DEF x

(* MultisigIsm::verify accepts threshold signatures exactly when their     *)
(* signers are validators of the configuration, each at a later place than *)
(* the one before: it finds a place for the signatures whenever there is   *)
(* one, and no validator stands for two of them.                           *)
THEOREM VerifyQuorumIs ==
    ASSUME NEW validators, Len(validators) \in Nat, NEW threshold \in Nat, NEW signers
    PROVE  VerifyQuorum(validators, threshold, signers) <=>
                \E at : SignedInOrder(at, validators, threshold, signers)
  <1>. DEFINE N == Len(validators)
              x == Index(validators, threshold, signers)
  <1>1. /\ x[0] = 1
        /\ \A k \in 0..threshold : x[k] \in 1..(N + 2)
        /\ \A k \in 1..threshold :
             /\ x[k] = After(validators, x[k - 1], signers[k])
             /\ x[k] <= N + 1 => /\ x[k] - 1 \in x[k - 1]..N
                                 /\ validators[x[k] - 1] = signers[k]
             /\ \A h \in x[k - 1]..N : validators[h] = signers[k] => x[k] <= h + 1
    BY IndexIs
  <1>2. VerifyQuorum(validators, threshold, signers) <=> x[threshold] <= N + 1
    BY UnfoldVerify
  <1>. HIDE DEF x
  <1>3. ASSUME x[threshold] <= N + 1
        PROVE  \E at : SignedInOrder(at, validators, threshold, signers)
    <2>. DEFINE Ok == {n \in 0..threshold : x[threshold - n] <= N + 1}
    <2>1. \A k \in 0..threshold : x[k] <= N + 1
      <3>1. 0 \in Ok
        BY <1>3
      <3>2. ASSUME NEW n \in 0..threshold, n < threshold, n \in Ok PROVE n + 1 \in Ok
        <4>. DEFINE k == threshold - n
        <4>1. k \in 1..threshold /\ k - 1 = threshold - (n + 1) /\ k - 1 \in 0..threshold
          BY <3>2
        <4>2. x[k] <= N + 1 /\ x[k] \in 1..(N + 2) /\ x[k - 1] \in 1..(N + 2)
          BY <3>2, <4>1, <1>1
        <4>3. x[k] - 1 \in x[k - 1]..N
          BY <4>1, <4>2, <1>1
        <4>4. x[k - 1] <= N + 1
          BY <4>2, <4>3
        <4>. QED
          BY <3>2, <4>1, <4>4
      <3>3. 0..threshold \subseteq Ok
        <4>. HIDE DEF Ok
        <4>. QED
          BY <3>1, <3>2, IntervalInduction
      <3>. TAKE k \in 0..threshold
      <3>4. threshold - k \in 0..threshold /\ threshold - (threshold - k) = k
        OBVIOUS
      <3>5. threshold - k \in Ok
        BY <3>3, <3>4
      <3>. QED
        BY <3>4, <3>5
    <2>2. \A k \in 1..threshold : /\ x[k] \in Int /\ x[k - 1] \in Int
                                  /\ x[k] - 1 \in 1..N /\ x[k - 1] < x[k]
                                  /\ validators[x[k] - 1] = signers[k]
      <3>. TAKE k \in 1..threshold
      <3>1. k \in 0..threshold /\ k - 1 \in 0..threshold
        OBVIOUS
      <3>2. x[k] - 1 \in x[k - 1]..N /\ validators[x[k] - 1] = signers[k]
        BY <1>1, <2>1, <3>1
      <3>3. x[k - 1] \in 1..(N + 2) /\ x[k] \in 1..(N + 2)
        BY <1>1, <3>1
      <3>. QED
        BY <3>2, <3>3
    <2>3. ASSUME NEW i \in 1..threshold, NEW j \in 1..threshold, i < j PROVE x[i] < x[j]
      <3>. DEFINE Up == {n \in 0..threshold : n > i => x[i] < x[n]}
      <3>1. 0 \in Up
        OBVIOUS
      <3>2. ASSUME NEW n \in 0..threshold, n < threshold, n \in Up PROVE n + 1 \in Up
        <4>1. n + 1 \in 1..threshold /\ (n + 1) - 1 = n
          BY <3>2
        <4>2. x[n] < x[n + 1] /\ x[n] \in Int /\ x[n + 1] \in Int /\ x[i] \in Int
          BY <4>1, <2>2
        <4>3. CASE n > i
          BY <3>2, <4>1, <4>2, <4>3
        <4>4. CASE n = i
          BY <4>1, <4>2, <4>4
        <4>5. CASE n < i
          BY <4>1, <4>5
        <4>. QED
          BY <4>3, <4>4, <4>5
      <3>3. 0..threshold \subseteq Up
        <4>. HIDE DEF Up
        <4>. QED
          BY <3>1, <3>2, IntervalInduction
      <3>4. j \in Up
        BY <3>3
      <3>. QED
        BY <2>3, <3>4
    <2>. DEFINE at == [k \in 1..threshold |-> x[k] - 1]
    <2>4. SignedInOrder(at, validators, threshold, signers)
      <3>1. at \in [1..threshold -> 1..N]
        BY <2>2
      <3>2. \A k \in 1..threshold : validators[at[k]] = signers[k]
        BY <2>2
      <3>3. \A i, j \in 1..threshold : i < j => at[i] < at[j]
        BY <2>2, <2>3
      <3>. QED
        BY <3>1, <3>2, <3>3 DEF SignedInOrder
    <2>. QED
      BY <2>4
  <1>4. ASSUME NEW at, SignedInOrder(at, validators, threshold, signers)
        PROVE  x[threshold] <= N + 1
    <2>. DEFINE Early == {n \in 0..threshold : x[n] <= IF n = 0 THEN 1 ELSE at[n] + 1}
    <2>1. /\ at \in [1..threshold -> 1..N]
          /\ \A k \in 1..threshold : validators[at[k]] = signers[k]
          /\ \A i, j \in 1..threshold : i < j => at[i] < at[j]
      BY <1>4 DEF SignedInOrder
    <2>2. 0 \in Early
      BY <1>1
    <2>3. ASSUME NEW n \in 0..threshold, n < threshold, n \in Early PROVE n + 1 \in Early
      <3>1. n + 1 \in 1..threshold /\ (n + 1) - 1 = n /\ n + 1 # 0
        BY <2>3
      <3>2. at[n + 1] \in 1..N /\ validators[at[n + 1]] = signers[n + 1]
        BY <2>1, <3>1
      <3>3. x[n] \in 1..(N + 2) /\ x[n] <= at[n + 1]
        <4>1. x[n] \in 1..(N + 2)
          BY <1>1
        <4>2. CASE n = 0
          BY <1>1, <3>2, <4>2
        <4>3. CASE n # 0
          <5>1. n \in 1..threshold /\ n < n + 1
            BY <4>3
          <5>2. at[n] < at[n + 1] /\ at[n] \in 1..N
            BY <2>1, <3>1, <5>1
          <5>. QED
            BY <2>3, <4>1, <4>3, <3>2, <5>2
        <4>. QED
          BY <4>1, <4>2, <4>3
      <3>4. at[n + 1] \in x[n]..N
        BY <3>2, <3>3
      <3>5. x[n + 1] <= at[n + 1] + 1
        BY <1>1, <3>1, <3>2, <3>4
      <3>. QED
        BY <3>1, <3>5
    <2>4. 0..threshold \subseteq Early
      <3>. HIDE DEF Early
      <3>. QED
        BY <2>2, <2>3, IntervalInduction
    <2>5. threshold \in Early
      BY <2>4
    <2>6. x[threshold] \in 1..(N + 2) /\ threshold # 0 => at[threshold] \in 1..N
      BY <1>1, <2>1
    <2>. QED
      BY <2>5, <2>6, <1>1
  <1>. QED
    BY <1>2, <1>3, <1>4

-----------------------------------------------------------------------------
(* A quorum needs an honest validator                                      *)

(* Whatever signatures come with it, an ISM that passed Validate accepts   *)
(* only a message that the tree of its origin holds at its nonce.          *)
THEOREM VerifiedIsGenuine ==
    ASSUME NEW config \in Configs \cup {DeployedConfig}, Validate(config),
           NEW n \in Nat, NEW metadata \in [1..n -> Validators], NEW m,
           n >= config[2],
           VerifyQuorum(config[1], config[2], [k \in 1..n |-> Recover(metadata[k], m)])
    PROVE  Genuine(m)
  <1>. DEFINE vs == config[1]
              t == config[2]
              N == Len(vs)
              signers == [k \in 1..n |-> Recover(metadata[k], m)]
              B == {v \in Faulty : \E j \in DOMAIN vs : vs[j] = v}
  <1>1. SUFFICES ASSUME ~Genuine(m) PROVE FALSE
    OBVIOUS
  <1>2. /\ vs \in Seq(Validators) /\ t \in Nat /\ t # 0 /\ Cardinality(B) < t
        /\ Nobody \notin Validators /\ IsFiniteSet(Faulty)
        /\ \A i, j \in 1..N : vs[i] = vs[j] => i = j
    BY QuorumAssumption DEF Validate
  <1>3. N \in Nat /\ DOMAIN vs = 1..N /\ \A j \in 1..N : vs[j] \in Validators
    BY <1>2
  <1>4. PICK at : SignedInOrder(at, vs, t, signers)
    BY <1>2, <1>3, VerifyQuorumIs
  <1>5. /\ at \in [1..t -> 1..N]
        /\ \A k \in 1..t : vs[at[k]] = signers[k]
        /\ \A i, j \in 1..t : i < j => at[i] < at[j]
    BY <1>4 DEF SignedInOrder
  <1>6. \A k \in 1..t : vs[at[k]] \in B
    <2>. TAKE k \in 1..t
    <2>1. at[k] \in 1..N /\ vs[at[k]] \in Validators
      BY <1>3, <1>5
    <2>2. k \in 1..n
      BY <1>2
    <2>3. vs[at[k]] = Recover(metadata[k], m)
      BY <1>5, <2>2
    <2>4. vs[at[k]] \in Faulty
      BY <1>1, <1>2, <2>1, <2>3 DEF Recover
    <2>. QED
      BY <2>1, <2>4, <1>3
  <1>. DEFINE g == [k \in 1..t |-> vs[at[k]]]
  <1>7. g \in [1..t -> B]
    BY <1>6
  <1>8. IsFiniteSet(B) /\ IsFiniteSet(1..t) /\ Cardinality(1..t) = t
    <2>1. IsFiniteSet(B)
      BY <1>2, FS_Subset
    <2>2. 1 \in Int /\ t \in Int /\ ~(1 > t) /\ t - 1 + 1 = t
      BY <1>2
    <2>3. IsFiniteSet(1..t) /\ Cardinality(1..t) = t
      <3>. HIDE DEF t
      <3>. QED
        BY <2>2, FS_Interval
    <2>. QED
      BY <2>1, <2>3
  <1>9. PICK i, j \in 1..t : i # j /\ g[i] = g[j]
    <2>. HIDE DEF g, B, vs, t
    <2>. QED
      BY <1>2, <1>7, <1>8, FS_PigeonHole
  <1>10. at[i] = at[j]
    BY <1>2, <1>5, <1>9
  <1>. QED
    BY <1>5, <1>9, <1>10

(* A signer that the Mailbox lets dispatch in the name of sender is it. *)
LEMMA SenderIsPrincipal ==
    ASSUME NEW p \in Principals, NEW sender \in Principals,
           SignerOf(p) \in {sender, DispatchAuthority(sender)}
    PROVE  p = sender
  <1>1. \A x, y \in Principals : DispatchAuthority(x) # y
    BY MailboxAssumption
  <1>2. \A x, y : DispatchAuthority(x) = DispatchAuthority(y) => x = y
    BY DEF DispatchAuthority
  <1>. QED
    BY <1>1, <1>2 DEF SignerOf

-----------------------------------------------------------------------------
(* The invariant is inductive                                              *)

LEMMA InitInv == Init => IInv
  <1>. SUFFICES ASSUME Init PROVE IInv
    OBVIOUS
  <1>. USE DEF Init, MailboxInit
  <1>1. TypeOK
    <2>1. inbox \in [Domains -> {None} \cup InboxAccount]
      BY MailboxAssumption DEF NewInbox, InboxAccount
    <2>2. outbox \in [Domains -> {None} \cup OutboxAccount]
      BY MailboxAssumption DEF NewOutbox, OutboxAccount, Owners
    <2>3. ASSUME NEW d \in Domains
          PROVE  /\ DOMAIN dispatched[d] = {} /\ DOMAIN processed[d] = {}
                 /\ principal[d] = <<>> /\ handled[d] = <<>>
      OBVIOUS
    <2>4. ismOwner \in [Domains -> [Isms -> {None} \cup Owners]]
      BY MailboxAssumption DEF Owners
    <2>5. domainData \in
            [Domains -> [Isms -> [Domains -> {None} \cup Configs \cup {DeployedConfig}]]]
      OBVIOUS
    <2>6. admin \in 0..MaxAdmin
      BY MailboxAssumption
    <2>7. storage \in [Domains -> [Programs -> {None} \cup Storage]]
      BY DEF NewStorage, Storage, IsmReturnDataModes, HandleModes
    <2>8. <<>> \in Seq(Principals) /\ <<>> \in Seq(Messages)
      OBVIOUS
    <2>. HIDE DEF Init, MailboxInit
    <2>. QED
      BY <2>1, <2>2, <2>3, <2>4, <2>5, <2>6, <2>7, <2>8 DEF TypeOK, MailboxTypeOK
  <1>2. ASSUME NEW d \in Domains
        PROVE  /\ DOMAIN dispatched[d] = {} /\ DOMAIN processed[d] = {}
               /\ principal[d] = <<>> /\ handled[d] = <<>>
               /\ outbox[d] # None => outbox[d].tree = <<>>
               /\ inbox[d] # None => inbox[d].processed_count = 0
    BY DEF NewInbox, NewOutbox
  <1>3. /\ DOMAIN dispatched = Domains /\ DOMAIN processed = Domains
        /\ DOMAIN principal = Domains /\ DOMAIN handled = Domains
    OBVIOUS
  <1>4. QuorumsValid
    BY QuorumAssumption DEF QuorumsValid
  <1>5. IsFiniteSet({}) /\ Cardinality({}) = 0 /\ Len(<<>>) = 0
    BY FS_EmptySet
  <1>. HIDE DEF Init, MailboxInit
  <1>6. OfEveryChain /\ NothingBeforeInit
    BY <1>2, <1>3, <1>5 DEF OfEveryChain, NothingBeforeInit
  <1>7. SendersReal /\ ProcessedGenuine
    BY <1>2, <1>5 DEF SendersReal, ProcessedGenuine
  <1>8. DispatchedIndexExact
    <2>. SUFFICES ASSUME NEW d \in Domains, outbox[d] # None
                  PROVE  LET tree == outbox[d].tree
                         IN  /\ Cardinality(DOMAIN dispatched[d]) = Len(tree)
                             /\ 1..Len(tree) = {}
      BY DEF DispatchedIndexExact
    <2>1. Cardinality(DOMAIN dispatched[d]) = 0 /\ Len(outbox[d].tree) = 0
      BY <1>2, <1>5, Zenon
    <2>. QED
      BY <2>1
  <1>9. ProcessedIndexExact
    <2>. SUFFICES ASSUME NEW d \in Domains
                  PROVE  /\ 1..Len(handled[d]) = {}
                         /\ Cardinality(DOMAIN processed[d]) = Len(handled[d])
                         /\ inbox[d] # None => inbox[d].processed_count = Len(handled[d])
      BY DEF ProcessedIndexExact
    <2>1. Cardinality(DOMAIN processed[d]) = 0 /\ Len(handled[d]) = 0
      BY <1>2, <1>5, Zenon
    <2>. QED
      BY <1>2, <2>1
  <1>. QED
    BY <1>1, <1>4, <1>6, <1>7, <1>8, <1>9 DEF IInv

(* The leaves of the trees stay where they are. *)
TreesKept ==
    \A d \in Domains : outbox[d] # None =>
        /\ outbox'[d] # None /\ Len(outbox'[d].tree) >= Len(outbox[d].tree)
        /\ \A n \in 1..Len(outbox[d].tree) : outbox'[d].tree[n] = outbox[d].tree[n]

LEMMA NonceIsNat == \A m \in Messages : m.nonce \in Nat /\ m.origin \in Domains
  BY MailboxAssumption DEF Messages, Nonces

LEMMA TreeType ==
    ASSUME TypeOK, NEW d \in Domains, outbox[d] # None
    PROVE  /\ outbox[d] \in OutboxAccount
           /\ outbox[d].tree \in Seq(Messages) /\ Len(outbox[d].tree) \in Nat
  BY DEF TypeOK, MailboxTypeOK, OutboxAccount

LEMMA GenuineKept ==
    ASSUME TypeOK, TypeOK', TreesKept, NEW m \in Messages, Genuine(m)
    PROVE  Genuine(m)'
  <1>1. m.nonce \in Nat /\ m.origin \in Domains
    BY NonceIsNat
  <1>. DEFINE o == m.origin
  <1>2. outbox[o] # None /\ m.nonce < Len(outbox[o].tree) /\ outbox[o].tree[m.nonce + 1] = m
    BY DEF Genuine
  <1>3. Len(outbox[o].tree) \in Nat
    BY <1>1, <1>2, TreeType
  <1>4. outbox'[o] # None /\ Len(outbox'[o].tree) >= Len(outbox[o].tree)
    BY <1>1, <1>2 DEF TreesKept
  <1>5. Len(outbox'[o].tree) \in Nat
    BY <1>1, <1>4 DEF TypeOK, MailboxTypeOK, OutboxAccount
  <1>6. m.nonce + 1 \in 1..Len(outbox[o].tree)
    BY <1>1, <1>2, <1>3
  <1>7. outbox'[o].tree[m.nonce + 1] = m
    BY <1>1, <1>2, <1>6 DEF TreesKept
  <1>. QED
    BY <1>1, <1>2, <1>3, <1>4, <1>5, <1>7 DEF Genuine

(* Instructions that configure a chain leave what was dispatched and       *)
(* processed alone.                                                        *)
LEMMA QuietKeepsInv ==
    ASSUME IInv, TypeOK', QuorumsValid',
           UNCHANGED <<dispatched, processed, principal, handled>>,
           \A d \in Domains :
                /\ outbox'[d] = None <=> outbox[d] = None
                /\ outbox[d] # None => outbox'[d].tree = outbox[d].tree
                /\ inbox'[d] = None <=> inbox[d] = None
                /\ inbox[d] # None => inbox'[d].processed_count = inbox[d].processed_count
    PROVE  IInv'
  <1>1. OfEveryChain' /\ NothingBeforeInit'
    BY DEF IInv, OfEveryChain, NothingBeforeInit
  <1>2. SendersReal'
    BY DEF IInv, SendersReal
  <1>3. TreesKept
    BY TreeType DEF IInv, TreesKept
  <1>4. ProcessedGenuine'
    BY <1>3, GenuineKept DEF IInv, ProcessedGenuine, TypeOK, MailboxTypeOK
  <1>5. DispatchedIndexExact'
    <2>. SUFFICES ASSUME NEW d \in Domains, outbox[d] # None
                  PROVE  LET tree == outbox[d].tree
                         IN  /\ Cardinality(DOMAIN dispatched[d]) = Len(tree)
                             /\ \A n \in 1..Len(tree) :
                                 \E u \in DOMAIN dispatched[d] :
                                     dispatched[d][u] = tree[n] /\ tree[n].nonce = n - 1
      BY DEF DispatchedIndexExact
    <2>. QED
      BY DEF IInv, DispatchedIndexExact
  <1>6. ProcessedIndexExact'
    BY DEF IInv, ProcessedIndexExact
  <1>. QED
    BY <1>1, <1>2, <1>4, <1>5, <1>6 DEF IInv

LEMMA ConfigureType ==
    ASSUME TypeOK, Configure
    PROVE  admin' \in 0..MaxAdmin
  BY MailboxAssumption DEF TypeOK, MailboxTypeOK, Configure

LEMMA InitializeKeepsInv ==
    ASSUME IInv, NEW d \in Domains, NEW i \in Isms, NEW w \in Wallets,
           Initialize(d, i, w), UNCHANGED <<storage, handled>>
    PROVE  IInv'
  <1>. USE DEF Initialize, Uninitialized
  <1>1. /\ inbox' = [inbox EXCEPT ![d] = NewInbox(d, i)]
        /\ outbox' = [outbox EXCEPT ![d] = NewOutbox(d, w)]
        /\ UNCHANGED <<dispatched, processed, ismOwner, domainData, principal, handled, storage>>
    OBVIOUS
  <1>2. NewInbox(d, i) \in InboxAccount /\ NewOutbox(d, w) \in OutboxAccount
    BY DEF NewInbox, NewOutbox, InboxAccount, OutboxAccount, Owners
  <1>3. /\ inbox'[d] = NewInbox(d, i) /\ outbox'[d] = NewOutbox(d, w)
        /\ \A e \in Domains \ {d} : inbox'[e] = inbox[e] /\ outbox'[e] = outbox[e]
    BY <1>1 DEF IInv, TypeOK, MailboxTypeOK
  <1>4. TypeOK'
    BY <1>1, <1>2, ConfigureType DEF IInv, TypeOK, MailboxTypeOK
  <1>5. outbox[d] = None /\ inbox[d] = None
    OBVIOUS
  <1>. HIDE DEF Initialize
  <1>6. /\ DOMAIN dispatched[d] = {} /\ principal[d] = <<>> /\ handled[d] = <<>>
        /\ outbox'[d].tree = <<>> /\ inbox'[d].processed_count = 0
    BY <1>3, <1>5 DEF IInv, NothingBeforeInit, NewInbox, NewOutbox
  <1>7. OfEveryChain'
    BY <1>1 DEF IInv, OfEveryChain
  <1>8. NothingBeforeInit'
    BY <1>1, <1>3, <1>6 DEF IInv, NothingBeforeInit
  <1>9. QuorumsValid'
    BY <1>1 DEF IInv, QuorumsValid
  <1>10. Len(<<>>) = 0 /\ 1..0 = {}
    OBVIOUS
  <1>11. SendersReal'
    <2>. SUFFICES ASSUME NEW e \in Domains, outbox'[e] # None
                  PROVE  /\ Len(principal[e]) = Len(outbox'[e].tree)
                         /\ \A n \in 1..Len(outbox'[e].tree) :
                                principal[e][n] = outbox'[e].tree[n].sender
      BY <1>1 DEF SendersReal
    <2>1. CASE e = d
      BY <2>1, <1>6, <1>10
    <2>2. CASE e # d
      BY <2>2, <1>3 DEF IInv, SendersReal
    <2>. QED
      BY <2>1, <2>2
  <1>12. TreesKept
    BY <1>3, <1>5, TreeType DEF IInv, TreesKept
  <1>13. ProcessedGenuine'
    BY <1>1, <1>4, <1>12, GenuineKept DEF IInv, ProcessedGenuine, TypeOK, MailboxTypeOK
  <1>14. DispatchedIndexExact'
    <2>. SUFFICES ASSUME NEW e \in Domains, outbox'[e] # None
                  PROVE  LET tree == outbox'[e].tree
                         IN  /\ Cardinality(DOMAIN dispatched[e]) = Len(tree)
                             /\ \A n \in 1..Len(tree) :
                                 \E u \in DOMAIN dispatched[e] :
                                     dispatched[e][u] = tree[n] /\ tree[n].nonce = n - 1
      BY <1>1 DEF DispatchedIndexExact
    <2>1. CASE e = d
      <3>1. Cardinality(DOMAIN dispatched[e]) = 0 /\ Len(outbox'[e].tree) = 0
        BY <2>1, <1>6, <1>10, FS_EmptySet, Zenon
      <3>. QED
        BY <3>1, <1>10
    <2>2. CASE e # d
      BY <2>2, <1>3 DEF IInv, DispatchedIndexExact
    <2>. QED
      BY <2>1, <2>2
  <1>15. ProcessedIndexExact'
    <2>. SUFFICES ASSUME NEW e \in Domains, inbox'[e] # None
                  PROVE  inbox'[e].processed_count = Len(handled[e])
      BY <1>1 DEF IInv, ProcessedIndexExact
    <2>1. CASE e = d
      BY <2>1, <1>6, <1>10
    <2>2. CASE e # d
      BY <2>2, <1>3 DEF IInv, ProcessedIndexExact
    <2>. QED
      BY <2>1, <2>2
  <1>. QED
    BY <1>4, <1>7, <1>8, <1>9, <1>11, <1>13, <1>14, <1>15 DEF IInv

LEMMA InboxSetDefaultIsmKeepsInv ==
    ASSUME IInv, NEW d \in Domains, NEW i \in Isms, NEW w \in Wallets,
           InboxSetDefaultIsm(d, i, w), UNCHANGED <<storage, handled>>
    PROVE  IInv'
  <1>1. /\ inbox' = [inbox EXCEPT ![d].default_ism = i] /\ inbox[d] # None
        /\ UNCHANGED <<outbox, dispatched, processed, ismOwner, domainData, principal,
                       handled, storage>>
    BY DEF InboxSetDefaultIsm, Uninitialized
  <1>2. inbox[d] \in InboxAccount /\ inbox \in [Domains -> {None} \cup InboxAccount]
    BY <1>1 DEF IInv, TypeOK, MailboxTypeOK
  <1>3. inbox'[d] \in InboxAccount /\ inbox'[d].processed_count = inbox[d].processed_count
    BY <1>1, <1>2 DEF InboxAccount
  <1>4. \A e \in Domains \ {d} : inbox'[e] = inbox[e]
    BY <1>1, <1>2
  <1>5. inbox' \in [Domains -> {None} \cup InboxAccount]
    BY <1>1, <1>2, <1>3
  <1>6. admin' \in 0..MaxAdmin
    BY ConfigureType DEF IInv, InboxSetDefaultIsm
  <1>7. TypeOK'
    BY <1>1, <1>5, <1>6 DEF IInv, TypeOK, MailboxTypeOK
  <1>8. QuorumsValid'
    BY <1>1 DEF IInv, QuorumsValid
  <1>9. inbox'[d] # None
    BY <1>3, MailboxAssumption
  <1>. QED
    BY <1>1, <1>3, <1>4, <1>7, <1>8, <1>9, QuietKeepsInv

LEMMA TransferOwnershipKeepsInv ==
    ASSUME IInv, NEW d \in Domains, NEW o \in Owners, NEW w \in Wallets,
           TransferOwnership(d, o, w), UNCHANGED <<storage, handled>>
    PROVE  IInv'
  <1>1. /\ outbox' = [outbox EXCEPT ![d].owner = o] /\ outbox[d] # None
        /\ UNCHANGED <<inbox, dispatched, processed, ismOwner, domainData, principal,
                       handled, storage>>
    BY DEF TransferOwnership, Uninitialized
  <1>2. outbox[d] \in OutboxAccount /\ outbox \in [Domains -> {None} \cup OutboxAccount]
    BY <1>1 DEF IInv, TypeOK, MailboxTypeOK
  <1>3. outbox'[d] \in OutboxAccount /\ outbox'[d].tree = outbox[d].tree
    BY <1>1, <1>2 DEF OutboxAccount
  <1>4. \A e \in Domains \ {d} : outbox'[e] = outbox[e]
    BY <1>1, <1>2
  <1>5. outbox' \in [Domains -> {None} \cup OutboxAccount]
    BY <1>1, <1>2, <1>3
  <1>6. admin' \in 0..MaxAdmin
    BY ConfigureType DEF IInv, TransferOwnership
  <1>7. TypeOK'
    BY <1>1, <1>5, <1>6 DEF IInv, TypeOK, MailboxTypeOK
  <1>8. QuorumsValid'
    BY <1>1 DEF IInv, QuorumsValid
  <1>9. outbox'[d] # None
    BY <1>3, MailboxAssumption
  <1>. QED
    BY <1>1, <1>3, <1>4, <1>7, <1>8, <1>9, QuietKeepsInv

(* What an ISM asks for is what Validate let in. *)
LEMMA IsmKeepsInv ==
    ASSUME IInv, NEW d \in Domains, NEW i \in Isms, NEW w \in Wallets,
           \/ IsmInitialize(d, i, w)
           \/ \E o \in Domains, c \in Configs : SetValidatorsAndThreshold(d, i, o, c, w)
           \/ \E o \in Owners : IsmTransferOwnership(d, i, o, w),
           UNCHANGED <<storage, handled>>
    PROVE  IInv'
  <1>1. /\ UNCHANGED <<inbox, outbox, dispatched, processed, principal, handled, storage>>
        /\ Configure
    BY DEF IsmInitialize, SetValidatorsAndThreshold, IsmTransferOwnership
  <1>2. ismOwner' \in [Domains -> [Isms -> {None} \cup Owners]]
    <2>1. ismOwner \in [Domains -> [Isms -> {None} \cup Owners]]
      BY DEF IInv, TypeOK, MailboxTypeOK
    <2>2. UNCHANGED ismOwner \/ \E o \in Owners : ismOwner' = [ismOwner EXCEPT ![d][i] = o]
      BY DEF IsmInitialize, SetValidatorsAndThreshold, IsmTransferOwnership, Owners
    <2>. QED
      BY <2>1, <2>2
  <1>. DEFINE Data == [Domains -> [Isms -> [Domains -> {None} \cup Configs \cup {DeployedConfig}]]]
  <1>3. domainData \in Data
    BY DEF IInv, TypeOK, MailboxTypeOK
  <1>4. domainData' \in Data /\ QuorumsValid'
    <2>1. CASE UNCHANGED domainData
      BY <1>3, <2>1 DEF IInv, QuorumsValid
    <2>2. CASE \E o \in Domains, c \in Configs : SetValidatorsAndThreshold(d, i, o, c, w)
      <3>1. PICK o \in Domains, c \in Configs : SetValidatorsAndThreshold(d, i, o, c, w)
        BY <2>2
      <3>2. Validate(c) /\ domainData' = [domainData EXCEPT ![d][i][o] = c]
        BY <3>1 DEF SetValidatorsAndThreshold
      <3>3. domainData' \in Data
        BY <1>3, <3>2
      <3>4. ASSUME NEW e \in Domains, NEW j \in Isms, NEW q \in Domains
            PROVE  domainData'[e][j][q] = c \/ domainData'[e][j][q] = domainData[e][j][q]
        BY <1>3, <3>2
      <3>. QED
        BY <3>2, <3>3, <3>4 DEF IInv, QuorumsValid
    <2>. QED
      BY <2>1, <2>2 DEF IsmInitialize, IsmTransferOwnership
  <1>5. TypeOK'
    BY <1>1, <1>2, <1>4, ConfigureType DEF IInv, TypeOK, MailboxTypeOK
  <1>. QED
    BY <1>1, <1>4, <1>5, QuietKeepsInv

LEMMA SetStorageKeepsInv ==
    ASSUME IInv, NEW d \in Domains, NEW p \in Programs, NEW new \in Storage,
           SetStorage(d, p, new)
    PROVE  IInv'
  <1>1. /\ UNCHANGED <<inbox, outbox, dispatched, processed, ismOwner, domainData,
                       principal, handled>>
        /\ Configure /\ storage' = [storage EXCEPT ![d][p] = new]
    BY DEF SetStorage
  <1>2. storage' \in [Domains -> [Programs -> {None} \cup Storage]]
    BY <1>1 DEF IInv, TypeOK
  <1>3. TypeOK'
    BY <1>1, <1>2, ConfigureType DEF IInv, TypeOK, MailboxTypeOK
  <1>4. QuorumsValid'
    BY <1>1 DEF IInv, QuorumsValid
  <1>. QED
    BY <1>1, <1>3, <1>4, QuietKeepsInv

LEMMA RecipientKeepsInv ==
    ASSUME IInv, NEW d \in Domains, NEW p \in Programs,
           \/ InitStorage(d, p)
           \/ \E i \in {<<i>> : i \in Isms} \cup {<<>>}, mode \in IsmReturnDataModes :
                    SetInterchainSecurityModule(d, p, i, mode)
           \/ \E mode \in HandleModes : SetHandleMode(d, p, mode)
    PROVE  IInv'
  <1>1. \E new \in Storage : SetStorage(d, p, new)
    <2>. DEFINE st == storage[d][p]
    <2>1. st # None => st \in Storage
      BY DEF IInv, TypeOK
    <2>2. CASE InitStorage(d, p)
      BY <2>2 DEF InitStorage, NewStorage, Storage, IsmReturnDataModes, HandleModes
    <2>3. CASE \E i \in {<<i>> : i \in Isms} \cup {<<>>}, mode \in IsmReturnDataModes :
                    SetInterchainSecurityModule(d, p, i, mode)
      <3>1. PICK i \in {<<i>> : i \in Isms} \cup {<<>>}, mode \in IsmReturnDataModes :
                    SetInterchainSecurityModule(d, p, i, mode)
        BY <2>3
      <3>2. st # None
            /\ SetStorage(d, p, [st EXCEPT !.ism = i, !.ism_return_data_mode = mode])
        BY <3>1 DEF SetInterchainSecurityModule, Uninitialized
      <3>3. [st EXCEPT !.ism = i, !.ism_return_data_mode = mode] \in Storage
        <4>1. st \in Storage
          BY <2>1, <3>2
        <4>. HIDE DEF st
        <4>. QED
          BY <4>1 DEF Storage
      <3>. QED
        BY <3>2, <3>3
    <2>4. CASE \E mode \in HandleModes : SetHandleMode(d, p, mode)
      <3>1. PICK mode \in HandleModes : SetHandleMode(d, p, mode)
        BY <2>4
      <3>2. st # None /\ SetStorage(d, p, [st EXCEPT !.handle_mode = mode])
        BY <3>1 DEF SetHandleMode, Uninitialized
      <3>3. [st EXCEPT !.handle_mode = mode] \in Storage
        <4>1. st \in Storage
          BY <2>1, <3>2
        <4>. HIDE DEF st
        <4>. QED
          BY <4>1 DEF Storage
      <3>. QED
        BY <3>2, <3>3
    <2>. QED
      BY <2>2, <2>3, <2>4
  <1>. QED
    BY <1>1, SetStorageKeepsInv

(* A dispatch adds one leaf, one account and one principal, and they are   *)
(* about the same message.                                                 *)
LEMMA DispatchKeepsInv ==
    ASSUME IInv, NEW d \in Domains, Dispatch(d)
    PROVE  IInv'
  <1>1. PICK p \in Principals, u \in UniqueKeys, s \in Principals,
             to \in Domains, r \in Programs, b \in Bodies : OutboxDispatch(d, p, u, s, to, r, b)
    BY DEF Dispatch
  <1>. DEFINE tree == outbox[d].tree
              L == Len(tree)
              m == [version |-> VERSION, nonce |-> L, origin |-> outbox[d].local_domain,
                    sender |-> s, destination |-> to, recipient |-> r, body |-> b]
              acc == dispatched[d]
  <1>2. /\ outbox[d] # None /\ u \notin DOMAIN acc /\ L < MaxDispatched[d]
        /\ SignerOf(p) \in {s, DispatchAuthority(s)}
        /\ outbox' = [outbox EXCEPT ![d].tree = Append(@, m)]
        /\ dispatched' = [dispatched EXCEPT ![d] =
                    [v \in DOMAIN @ \cup {u} |-> IF v = u THEN m ELSE @[v]]]
        /\ principal' = [principal EXCEPT ![d] = Append(@, p)]
        /\ UNCHANGED <<inbox, processed, ismOwner, domainData, admin, storage, handled>>
    BY <1>1 DEF OutboxDispatch, Uninitialized, MessageAccountUnused, Dispatch
  <1>3. /\ outbox \in [Domains -> {None} \cup OutboxAccount]
        /\ outbox[d] \in OutboxAccount /\ tree \in Seq(Messages) /\ L \in Nat
        /\ outbox[d].local_domain \in Domains
    BY <1>2, TreeType DEF IInv, TypeOK, MailboxTypeOK, OutboxAccount
  <1>4. m \in Messages
    <2>1. L \in Nonces
      <3>1. MaxDispatched[d] \in Nat
        BY MailboxAssumption
      <3>2. L \in 0..(MaxDispatched[d] - 1)
        BY <1>2, <1>3, <3>1
      <3>. QED
        BY <3>2 DEF Nonces
    <2>. QED
      BY <2>1, <1>3 DEF Messages
  <1>5. m.nonce = L /\ m.sender = s
    OBVIOUS
  <1>. HIDE DEF m
  <1>6. /\ outbox'[d] \in OutboxAccount /\ outbox'[d].tree = Append(tree, m)
        /\ outbox'[d] # None
        /\ \A e \in Domains \ {d} : outbox'[e] = outbox[e]
    <2>1. outbox'[d] = [outbox[d] EXCEPT !.tree = Append(tree, m)]
      BY <1>2, <1>3
    <2>2. Append(tree, m) \in Seq(Messages)
      BY <1>3, <1>4
    <2>3. outbox'[d] \in OutboxAccount /\ outbox'[d].tree = Append(tree, m)
      BY <1>3, <2>1, <2>2 DEF OutboxAccount
    <2>. QED
      BY <1>2, <1>3, <2>3, MailboxAssumption
  <1>7. /\ DOMAIN dispatched'[d] = DOMAIN acc \cup {u}
        /\ dispatched'[d][u] = m /\ \A v \in DOMAIN acc : dispatched'[d][v] = acc[v]
        /\ DOMAIN dispatched' = Domains
        /\ \A e \in Domains \ {d} : dispatched'[e] = dispatched[e]
    BY <1>2 DEF IInv, OfEveryChain
  <1>8. /\ principal'[d] = Append(principal[d], p) /\ DOMAIN principal' = Domains
        /\ \A e \in Domains \ {d} : principal'[e] = principal[e]
    BY <1>2 DEF IInv, OfEveryChain
  <1>9. principal[d] \in Seq(Principals) /\ Len(principal[d]) = L
    BY <1>2 DEF IInv, TypeOK, MailboxTypeOK, SendersReal
  <1>10. /\ Len(Append(tree, m)) = L + 1 /\ Append(tree, m)[L + 1] = m
         /\ \A n \in 1..L : Append(tree, m)[n] = tree[n]
         /\ principal'[d] \in Seq(Principals) /\ Len(principal'[d]) = L + 1
         /\ principal'[d][L + 1] = p
         /\ \A n \in 1..L : principal'[d][n] = principal[d][n]
    <2>. DEFINE signers == principal[d]
    <2>1. /\ Len(Append(tree, m)) = L + 1 /\ Append(tree, m)[L + 1] = m
          /\ \A n \in 1..L : Append(tree, m)[n] = tree[n]
      <3>. HIDE DEF tree
      <3>. QED
        BY <1>3, <1>4
    <2>2. signers \in Seq(Principals) /\ Len(signers) = L
      BY <1>9
    <2>3. /\ Append(signers, p) \in Seq(Principals) /\ Len(Append(signers, p)) = L + 1
          /\ Append(signers, p)[L + 1] = p
          /\ \A n \in 1..L : Append(signers, p)[n] = signers[n]
      <3>. HIDE DEF signers, L
      <3>. QED
        BY <2>2
    <2>. QED
      BY <1>8, <2>1, <2>3
  <1>11. TypeOK'
    <2>1. outbox' \in [Domains -> {None} \cup OutboxAccount]
      BY <1>2, <1>3, <1>6
    <2>2. ASSUME NEW e \in Domains
          PROVE  /\ DOMAIN dispatched'[e] \subseteq UniqueKeys
                 /\ \A v \in DOMAIN dispatched'[e] : dispatched'[e][v] \in Messages
                 /\ principal'[e] \in Seq(Principals)
      <3>1. /\ DOMAIN dispatched[e] \subseteq UniqueKeys
            /\ \A v \in DOMAIN dispatched[e] : dispatched[e][v] \in Messages
            /\ principal[e] \in Seq(Principals)
        BY DEF IInv, TypeOK, MailboxTypeOK
      <3>2. CASE e = d
        BY <3>1, <3>2, <1>4, <1>7, <1>10
      <3>3. CASE e # d
        BY <3>1, <3>3, <1>7, <1>8
      <3>. QED
        BY <3>2, <3>3
    <2>. QED
      BY <1>2, <2>1, <2>2 DEF IInv, TypeOK, MailboxTypeOK
  <1>12. OfEveryChain'
    <2>1. IsFiniteSet(DOMAIN dispatched'[d])
      BY <1>7, FS_AddElement DEF IInv, OfEveryChain
    <2>. QED
      BY <1>2, <1>7, <1>8, <2>1 DEF IInv, OfEveryChain
  <1>13. NothingBeforeInit'
    BY <1>2, <1>6, <1>7, <1>8 DEF IInv, NothingBeforeInit
  <1>14. QuorumsValid'
    BY <1>2 DEF IInv, QuorumsValid
  <1>15. SendersReal'
    <2>. SUFFICES ASSUME NEW e \in Domains, outbox'[e] # None
                  PROVE  /\ Len(principal'[e]) = Len(outbox'[e].tree)
                         /\ \A n \in 1..Len(outbox'[e].tree) :
                                principal'[e][n] = outbox'[e].tree[n].sender
      BY DEF SendersReal
    <2>1. CASE e = d
      <3>1. Len(principal'[e]) = Len(outbox'[e].tree) /\ Len(outbox'[e].tree) = L + 1
        BY <2>1, <1>6, <1>10
      <3>2. ASSUME NEW n \in 1..(L + 1)
            PROVE  principal'[d][n] = Append(tree, m)[n].sender
        <4>1. CASE n = L + 1
          BY <4>1, <1>2, <1>5, <1>10, SenderIsPrincipal
        <4>2. CASE n # L + 1
          <5>1. n \in 1..L
            BY <1>3, <4>2
          <5>2. principal[d][n] = tree[n].sender
            BY <1>2, <5>1 DEF IInv, SendersReal
          <5>. QED
            BY <1>10, <5>1, <5>2
        <4>. QED
          BY <4>1, <4>2
      <3>. QED
        BY <2>1, <3>1, <3>2, <1>6
    <2>2. CASE e # d
      BY <2>2, <1>6, <1>8 DEF IInv, SendersReal
    <2>. QED
      BY <2>1, <2>2
  <1>16. TreesKept
    <2>. SUFFICES ASSUME NEW e \in Domains, outbox[e] # None
                  PROVE  /\ outbox'[e] # None /\ Len(outbox'[e].tree) >= Len(outbox[e].tree)
                         /\ \A n \in 1..Len(outbox[e].tree) :
                                outbox'[e].tree[n] = outbox[e].tree[n]
      BY DEF TreesKept
    <2>1. CASE e = d
      BY <2>1, <1>3, <1>6, <1>10
    <2>2. CASE e # d
      BY <2>2, <1>6, TreeType DEF IInv
    <2>. QED
      BY <2>1, <2>2
  <1>17. ProcessedGenuine'
    BY <1>2, <1>11, <1>16, GenuineKept DEF IInv, ProcessedGenuine, TypeOK, MailboxTypeOK
  <1>18. DispatchedIndexExact'
    <2>. SUFFICES ASSUME NEW e \in Domains, outbox'[e] # None
                  PROVE  /\ Cardinality(DOMAIN dispatched'[e]) = Len(outbox'[e].tree)
                         /\ \A n \in 1..Len(outbox'[e].tree) :
                             \E v \in DOMAIN dispatched'[e] :
                                 /\ dispatched'[e][v] = outbox'[e].tree[n]
                                 /\ outbox'[e].tree[n].nonce = n - 1
      BY DEF DispatchedIndexExact
    <2>1. CASE e = d
      <3>1. /\ Cardinality(DOMAIN acc) = L
            /\ \A n \in 1..L : \E v \in DOMAIN acc : acc[v] = tree[n] /\ tree[n].nonce = n - 1
        BY <1>2 DEF IInv, DispatchedIndexExact
      <3>2. Cardinality(DOMAIN dispatched'[d]) = L + 1
        <4>1. IsFiniteSet(DOMAIN acc)
          BY DEF IInv, OfEveryChain
        <4>. DEFINE D == DOMAIN acc
        <4>2. Cardinality(D \cup {u}) = IF u \in D THEN Cardinality(D) ELSE Cardinality(D) + 1
          BY <4>1, FS_AddElement
        <4>. QED
          BY <1>2, <1>7, <3>1, <4>2
      <3>3. ASSUME NEW n \in 1..(L + 1)
            PROVE  \E v \in DOMAIN acc \cup {u} :
                        /\ dispatched'[d][v] = Append(tree, m)[n]
                        /\ Append(tree, m)[n].nonce = n - 1
        <4>1. CASE n = L + 1
          <5>1. dispatched'[d][u] = Append(tree, m)[n] /\ Append(tree, m)[n].nonce = n - 1
            BY <4>1, <1>3, <1>5, <1>7, <1>10
          <5>. QED
            BY <5>1
        <4>2. CASE n # L + 1
          <5>1. n \in 1..L
            BY <1>3, <4>2
          <5>2. PICK v \in DOMAIN acc : acc[v] = tree[n] /\ tree[n].nonce = n - 1
            BY <3>1, <5>1
          <5>. QED
            BY <1>7, <1>10, <5>1, <5>2
        <4>. QED
          BY <4>1, <4>2
      <3>. QED
        BY <2>1, <1>6, <1>7, <1>10, <3>2, <3>3
    <2>2. CASE e # d
      <3>1. outbox'[e] = outbox[e] /\ dispatched'[e] = dispatched[e]
        BY <2>2, <1>6, <1>7
      <3>2. /\ Cardinality(DOMAIN dispatched[e]) = Len(outbox[e].tree)
            /\ \A n \in 1..Len(outbox[e].tree) :
                   \E v \in DOMAIN dispatched[e] :
                       /\ dispatched[e][v] = outbox[e].tree[n]
                       /\ outbox[e].tree[n].nonce = n - 1
        BY <3>1 DEF IInv, DispatchedIndexExact
      <3>. QED
        BY <3>1, <3>2, Zenon
    <2>. QED
      BY <2>1, <2>2
  <1>19. ProcessedIndexExact'
    BY <1>2 DEF IInv, ProcessedIndexExact
  <1>. QED
    BY <1>11, <1>12, <1>13, <1>14, <1>15, <1>17, <1>18, <1>19 DEF IInv

(* What inbox_process lets through was dispatched. *)
LEMMA InboxProcessGenuine ==
    ASSUME IInv, NEW d \in Domains, NEW m \in Messages, NEW n \in Nat,
           NEW metadata \in [1..n -> Validators], storage[d][m.recipient] # None,
           NEW answer \in RecipientAnswers(d, m.recipient),
           InboxProcess(d, m, metadata, answer)
    PROVE  Genuine(m)
  <1>. DEFINE ism == GetRecipientIsm(d, answer)
              config == domainData[d][ism][m.origin]
  <1>1. m.recipient \in Programs /\ m.origin \in Domains
    BY DEF Messages
  <1>2. storage[d][m.recipient] \in Storage
    BY <1>1 DEF IInv, TypeOK
  <1>3. answer = <<>> \/ \E i \in Isms : answer = <<i>>
    BY <1>2 DEF RecipientAnswers, Storage, IsmReturnDataModes
  <1>4. inbox[d] \in InboxAccount
    BY DEF IInv, TypeOK, MailboxTypeOK, InboxProcess, InboxAdmits, Uninitialized
  <1>5. ism \in Isms
    BY <1>3, <1>4 DEF GetRecipientIsm, InboxAccount
  <1>6. Verify(d, ism, metadata, m)
    BY DEF InboxProcess
  <1>7. Len(metadata) = n
    OBVIOUS
  <1>8. /\ config # None /\ n >= config[2]
        /\ VerifyQuorum(config[1], config[2], [k \in 1..n |-> Recover(metadata[k], m)])
    BY <1>6, <1>7 DEF Verify, DomainConfig
  <1>9. config \in Configs \cup {DeployedConfig} /\ Validate(config)
    BY <1>1, <1>5, <1>8 DEF IInv, TypeOK, MailboxTypeOK, QuorumsValid
  <1>. HIDE DEF config
  <1>. QED
    BY <1>8, <1>9, VerifiedIsGenuine

(* A delivery takes the next number of the inbox. *)
LEMMA ProcessKeepsInv ==
    ASSUME IInv, NEW d \in Domains, Process(d)
    PROVE  IInv'
  <1>1. PICK m \in Messages, n \in 1..Cardinality(Validators) :
            /\ storage[d][m.recipient] # None
            /\ \E metadata \in [1..n -> Validators], answer \in RecipientAnswers(d, m.recipient) :
                    InboxProcess(d, m, metadata, answer)
            /\ Handle(d, m)
    BY DEF Process
  <1>2. PICK metadata \in [1..n -> Validators], answer \in RecipientAnswers(d, m.recipient) :
            InboxProcess(d, m, metadata, answer)
    BY <1>1
  <1>3. Genuine(m)
    <2>1. n \in Nat
      OBVIOUS
    <2>. QED
      BY <1>1, <1>2, <2>1, InboxProcessGenuine
  <1>. DEFINE done == processed[d]
              c == inbox[d].processed_count
  <1>4. /\ inbox[d] # None /\ m \notin DOMAIN done
        /\ processed' = [processed EXCEPT ![d] =
                [x \in DOMAIN @ \cup {m} |-> IF x = m THEN c ELSE @[x]]]
        /\ inbox' = [inbox EXCEPT ![d].processed_count = @ + 1]
        /\ handled' = [handled EXCEPT ![d] = Append(@, m)]
        /\ UNCHANGED <<outbox, dispatched, ismOwner, domainData, principal, admin, storage>>
    BY <1>1, <1>2 DEF InboxProcess, InboxAdmits, Uninitialized, Handle
  <1>5. /\ inbox \in [Domains -> {None} \cup InboxAccount]
        /\ inbox[d] \in InboxAccount /\ c \in Nat
    BY <1>4 DEF IInv, TypeOK, MailboxTypeOK, InboxAccount
  <1>6. /\ inbox'[d] \in InboxAccount /\ inbox'[d].processed_count = c + 1
        /\ inbox'[d] # None
        /\ \A e \in Domains \ {d} : inbox'[e] = inbox[e]
    <2>1. inbox'[d] = [inbox[d] EXCEPT !.processed_count = c + 1]
      BY <1>4, <1>5
    <2>2. inbox'[d] \in InboxAccount /\ inbox'[d].processed_count = c + 1
      BY <1>5, <2>1 DEF InboxAccount
    <2>. QED
      BY <1>4, <1>5, <2>2, MailboxAssumption
  <1>7. /\ DOMAIN processed'[d] = DOMAIN done \cup {m}
        /\ processed'[d][m] = c /\ \A x \in DOMAIN done : processed'[d][x] = done[x]
        /\ DOMAIN processed' = Domains
        /\ \A e \in Domains \ {d} : processed'[e] = processed[e]
    BY <1>4 DEF IInv, OfEveryChain
  <1>8. /\ handled'[d] = Append(handled[d], m) /\ DOMAIN handled' = Domains
        /\ \A e \in Domains \ {d} : handled'[e] = handled[e]
    BY <1>4 DEF IInv, OfEveryChain
  <1>9. handled[d] \in Seq(Messages) /\ Len(handled[d]) = c
    BY <1>4 DEF IInv, TypeOK, ProcessedIndexExact
  <1>10. /\ handled'[d] \in Seq(Messages) /\ Len(handled'[d]) = c + 1
         /\ handled'[d][c + 1] = m /\ \A k \in 1..c : handled'[d][k] = handled[d][k]
    BY <1>8, <1>9
  <1>11. TypeOK'
    <2>1. inbox' \in [Domains -> {None} \cup InboxAccount]
      BY <1>4, <1>5, <1>6
    <2>2. ASSUME NEW e \in Domains
          PROVE  /\ \A x \in DOMAIN processed'[e] : x \in Messages /\ processed'[e][x] \in Nat
                 /\ handled'[e] \in Seq(Messages)
      <3>1. /\ \A x \in DOMAIN processed[e] : x \in Messages /\ processed[e][x] \in Nat
            /\ handled[e] \in Seq(Messages)
        BY DEF IInv, TypeOK, MailboxTypeOK
      <3>2. CASE e = d
        BY <3>1, <3>2, <1>5, <1>7, <1>10
      <3>3. CASE e # d
        BY <3>1, <3>3, <1>7, <1>8
      <3>. QED
        BY <3>2, <3>3
    <2>. QED
      BY <1>4, <2>1, <2>2 DEF IInv, TypeOK, MailboxTypeOK
  <1>12. OfEveryChain'
    <2>1. IsFiniteSet(DOMAIN processed'[d])
      BY <1>7, FS_AddElement DEF IInv, OfEveryChain
    <2>. QED
      BY <1>4, <1>7, <1>8, <2>1 DEF IInv, OfEveryChain
  <1>13. NothingBeforeInit'
    BY <1>4, <1>6, <1>8 DEF IInv, NothingBeforeInit
  <1>14. QuorumsValid' /\ SendersReal'
    BY <1>4 DEF IInv, QuorumsValid, SendersReal
  <1>15. ProcessedGenuine'
    <2>1. \A x : Genuine(x) => Genuine(x)'
      BY <1>4 DEF Genuine
    <2>. QED
      BY <1>3, <1>7, <2>1 DEF IInv, ProcessedGenuine
  <1>16. DispatchedIndexExact'
    <2>. SUFFICES ASSUME NEW e \in Domains, outbox[e] # None
                  PROVE  LET tree == outbox[e].tree
                         IN  /\ Cardinality(DOMAIN dispatched[e]) = Len(tree)
                             /\ \A k \in 1..Len(tree) :
                                 \E u \in DOMAIN dispatched[e] :
                                     dispatched[e][u] = tree[k] /\ tree[k].nonce = k - 1
      BY <1>4 DEF DispatchedIndexExact
    <2>. QED
      BY DEF IInv, DispatchedIndexExact
  <1>17. ProcessedIndexExact'
    <2>. SUFFICES ASSUME NEW e \in Domains
                  PROVE  /\ \A k \in 1..Len(handled'[e]) :
                            /\ handled'[e][k] \in DOMAIN processed'[e]
                            /\ processed'[e][handled'[e][k]] = k - 1
                         /\ Cardinality(DOMAIN processed'[e]) = Len(handled'[e])
                         /\ inbox'[e] # None => inbox'[e].processed_count = Len(handled'[e])
      BY DEF ProcessedIndexExact
    <2>1. CASE e = d
      <3>1. /\ \A k \in 1..c : handled[d][k] \in DOMAIN done /\ done[handled[d][k]] = k - 1
            /\ Cardinality(DOMAIN done) = c
        BY <1>9 DEF IInv, ProcessedIndexExact
      <3>2. Cardinality(DOMAIN processed'[d]) = c + 1
        <4>. DEFINE D == DOMAIN done
        <4>1. IsFiniteSet(D)
          BY DEF IInv, OfEveryChain
        <4>2. Cardinality(D \cup {m}) = IF m \in D THEN Cardinality(D) ELSE Cardinality(D) + 1
          BY <4>1, FS_AddElement
        <4>. QED
          BY <1>4, <1>7, <3>1, <4>2
      <3>3. ASSUME NEW k \in 1..(c + 1)
            PROVE  /\ handled'[d][k] \in DOMAIN processed'[d]
                   /\ processed'[d][handled'[d][k]] = k - 1
        <4>1. CASE k = c + 1
          BY <4>1, <1>5, <1>7, <1>10
        <4>2. CASE k # c + 1
          <5>1. k \in 1..c
            BY <1>5, <4>2
          <5>. QED
            BY <1>7, <1>10, <3>1, <5>1
        <4>. QED
          BY <4>1, <4>2
      <3>. QED
        BY <2>1, <1>6, <1>10, <3>2, <3>3
    <2>2. CASE e # d
      BY <2>2, <1>6, <1>7, <1>8 DEF IInv, ProcessedIndexExact
    <2>. QED
      BY <2>1, <2>2
  <1>. QED
    BY <1>11, <1>12, <1>13, <1>14, <1>15, <1>16, <1>17 DEF IInv

LEMMA NextKeepsInv == IInv /\ [Next]_vars => IInv'
  <1>. SUFFICES ASSUME IInv, [Next]_vars PROVE IInv'
    OBVIOUS
  <1>1. ASSUME NEW d \in Domains, MailboxAdmin(d), UNCHANGED <<storage, handled>> PROVE IInv'
    <2>1. PICK w \in Wallets :
            \/ \E i \in Isms : Initialize(d, i, w)
            \/ \E i \in Isms : InboxSetDefaultIsm(d, i, w)
            \/ \E o \in Owners : TransferOwnership(d, o, w)
            \/ \E i \in Isms : IsmInitialize(d, i, w)
            \/ \E i \in Isms, o \in Domains, c \in Configs :
                    SetValidatorsAndThreshold(d, i, o, c, w)
            \/ \E i \in Isms, o \in Owners : IsmTransferOwnership(d, i, o, w)
      BY <1>1 DEF MailboxAdmin
    <2>. QED
      BY <1>1, <2>1, InitializeKeepsInv, InboxSetDefaultIsmKeepsInv,
         TransferOwnershipKeepsInv, IsmKeepsInv
  <1>2. ASSUME NEW d \in Domains, NEW p \in Programs,
               \/ InitStorage(d, p)
               \/ \E i \in {<<i>> : i \in Isms} \cup {<<>>}, mode \in IsmReturnDataModes :
                        SetInterchainSecurityModule(d, p, i, mode)
               \/ \E mode \in HandleModes : SetHandleMode(d, p, mode)
        PROVE  IInv'
    BY <1>2, RecipientKeepsInv
  <1>3. CASE UNCHANGED vars
    <2>1. UNCHANGED <<inbox, outbox, dispatched, processed, ismOwner, domainData, principal,
                      admin, storage, handled>>
      BY <1>3 DEF vars, mailboxVars
    <2>2. TypeOK' /\ QuorumsValid'
      BY <2>1 DEF IInv, TypeOK, MailboxTypeOK, QuorumsValid
    <2>. QED
      BY <2>1, <2>2, QuietKeepsInv
  <1>. QED
    BY <1>1, <1>2, <1>3, DispatchKeepsInv, ProcessKeepsInv DEF Next

(* The invariant of Mailbox, multisig ISM and recipient holds for ever. *)
THEOREM SealevelInvariant == Spec => []IInv
  BY InitInv, NextKeepsInv, PTL DEF Spec

(* The types hold, and the indexers' counts are exact: the dispatched and  *)
(* the processed accounts of a chain carry the numbers 0, 1, 2, ... once   *)
(* each, whatever its owners and relayers do.                              *)
THEOREM IndicesExact == Spec => [](TypeOK /\ DispatchedIndexExact /\ ProcessedIndexExact)
  <1>1. IInv => TypeOK /\ DispatchedIndexExact /\ ProcessedIndexExact
    BY DEF IInv
  <1>. QED
    BY <1>1, SealevelInvariant, PTL

(* Every message an inbox accepted was dispatched on its origin chain by   *)
(* the principal it names, for any quorums of which fewer members are      *)
(* faulty than they ask for.                                               *)
THEOREM DeliveriesNotForged == Spec => []NoForgedDelivery
  <1>1. IInv => NoForgedDelivery
    <2>. SUFFICES ASSUME IInv, NEW d \in Domains, NEW m \in DOMAIN processed[d]
                  PROVE  Genuine(m) /\ principal[m.origin][m.nonce + 1] = m.sender
      BY DEF NoForgedDelivery
    <2>1. Genuine(m) /\ m \in Messages
      BY DEF IInv, ProcessedGenuine, TypeOK, MailboxTypeOK
    <2>. DEFINE o == m.origin
    <2>2. m.nonce \in Nat /\ o \in Domains
      BY <2>1, NonceIsNat
    <2>3. outbox[o] # None /\ m.nonce < Len(outbox[o].tree) /\ outbox[o].tree[m.nonce + 1] = m
      BY <2>1 DEF Genuine
    <2>4. Len(outbox[o].tree) \in Nat
      BY <2>2, <2>3, TreeType DEF IInv
    <2>5. m.nonce + 1 \in 1..Len(outbox[o].tree)
      BY <2>2, <2>3, <2>4
    <2>6. principal[o][m.nonce + 1] = outbox[o].tree[m.nonce + 1].sender
      BY <2>2, <2>3, <2>5 DEF IInv, SendersReal
    <2>. QED
      BY <2>1, <2>3, <2>6
  <1>. QED
    BY <1>1, SealevelInvariant, PTL

-----------------------------------------------------------------------------
(* Announcements                                                           *)

(* There is a replay protection account for every location in a list and   *)
(* for no other, and the lists hold what was signed.                       *)
AnnounceInv ==
    /\ announced \in [Announcers -> Seq(Locations)]
    /\ agent \in [Announcers -> [pc : {"off", "check", "announce", "announced"},
                                 location : Locations \cup {""}]]
    /\ signed \subseteq Announcers \X Locations
    /\ \A v \in Announcers, l \in Locations :
            <<v, l>> \in replay <=> \E i \in 1..Len(announced[v]) : announced[v][i] = l
    /\ AnnouncedOnce

LEMMA ContainsIs == ASSUME NEW q, NEW x PROVE Contains(q, x) <=> \E i \in 1..Len(q) : q[i] = x
  BY DEF Contains

(* Whoever submits it, an announcement is added once. *)
LEMMA ProcessAnnounceKeeps ==
    ASSUME AnnounceInv, NEW v \in Announcers, NEW l, NEW s, ProcessAnnounce(v, l, s)
    PROVE  /\ announced' \in [Announcers -> Seq(Locations)]
           /\ \A w \in Announcers, k \in Locations :
                <<w, k>> \in replay' <=> \E i \in 1..Len(announced'[w]) : announced'[w][i] = k
           /\ \A w \in Announcers :
                /\ IsInjective(announced'[w])
                /\ \A i \in 1..Len(announced'[w]) : <<w, announced'[w][i]>> \in signed
                /\ \A k : Contains(announced[w], k) => Contains(announced'[w], k)
  <1>1. /\ <<v, l>> \notin replay /\ <<v, l>> \in signed
        /\ announced' = [announced EXCEPT ![v] = Append(@, l)]
        /\ replay' = replay \cup {<<v, l>>}
    BY DEF ProcessAnnounce, VerifySigned, UpdateLocations
  <1>2. l \in Locations /\ announced[v] \in Seq(Locations) /\ Len(announced[v]) \in Nat
        /\ announced \in [Announcers -> Seq(Locations)]
    <2>1. signed \subseteq Announcers \X Locations /\ announced \in [Announcers -> Seq(Locations)]
      BY DEF AnnounceInv
    <2>2. <<v, l>> \in Announcers \X Locations
      BY <1>1, <2>1
    <2>. QED
      BY <2>1, <2>2
  <1>. DEFINE q == announced[v]
              n == Len(q)
  <1>3. /\ announced'[v] = Append(q, l) /\ Append(q, l) \in Seq(Locations)
        /\ \A w \in Announcers \ {v} : announced'[w] = announced[w]
        /\ announced' \in [Announcers -> Seq(Locations)]
    BY <1>1, <1>2
  <1>4. /\ Len(announced'[v]) = n + 1 /\ announced'[v][n + 1] = l
        /\ \A i \in 1..n : announced'[v][i] = q[i]
        /\ DOMAIN announced'[v] = 1..(n + 1) /\ DOMAIN q = 1..n
    BY <1>2, <1>3
  <1>5. \A i \in 1..n : q[i] # l
    BY <1>1, <1>2 DEF AnnounceInv
  <1>6. ASSUME NEW w \in Announcers
        PROVE  /\ \A k \in Locations :
                    <<w, k>> \in replay' <=> \E i \in 1..Len(announced'[w]) : announced'[w][i] = k
               /\ IsInjective(announced'[w])
               /\ \A i \in 1..Len(announced'[w]) : <<w, announced'[w][i]>> \in signed
               /\ \A k : Contains(announced[w], k) => Contains(announced'[w], k)
    <2>1. CASE w # v
      <3>1. announced'[w] = announced[w] /\ \A k : <<w, k>> \in replay' <=> <<w, k>> \in replay
        BY <1>1, <1>3, <2>1
      <3>2. \A k \in Locations :
                <<w, k>> \in replay <=> \E i \in 1..Len(announced[w]) : announced[w][i] = k
        BY DEF AnnounceInv
      <3>3. /\ IsInjective(announced[w])
            /\ \A i \in 1..Len(announced[w]) : <<w, announced[w][i]>> \in signed
        BY DEF AnnounceInv, AnnouncedOnce
      <3>. QED
        BY <3>1, <3>2, <3>3
    <2>2. CASE w = v
      <3>1. ASSUME NEW k \in Locations
            PROVE  <<v, k>> \in replay' <=> \E i \in 1..(n + 1) : announced'[v][i] = k
        <4>1. <<v, k>> \in replay' <=> <<v, k>> \in replay \/ k = l
          BY <1>1
        <4>2. <<v, k>> \in replay <=> \E i \in 1..n : q[i] = k
          BY DEF AnnounceInv
        <4>3. ASSUME NEW i \in 1..(n + 1) PROVE i = n + 1 \/ i \in 1..n
          BY <1>2
        <4>4. n + 1 \in 1..(n + 1) /\ \A i \in 1..n : i \in 1..(n + 1)
          BY <1>2
        <4>. QED
          BY <1>4, <4>1, <4>2, <4>3, <4>4
      <3>2. IsInjective(announced'[v])
        <4>1. \A i, j \in 1..n : q[i] = q[j] => i = j
          BY <1>4 DEF AnnounceInv, AnnouncedOnce, IsInjective
        <4>2. ASSUME NEW i \in 1..(n + 1), NEW j \in 1..(n + 1), announced'[v][i] = announced'[v][j]
              PROVE  i = j
          <5>1. (i = n + 1 \/ i \in 1..n) /\ (j = n + 1 \/ j \in 1..n)
            BY <1>2
          <5>. QED
            BY <1>4, <1>5, <4>1, <4>2, <5>1
        <4>. QED
          BY <1>4, <4>2 DEF IsInjective
      <3>3. ASSUME NEW i \in 1..(n + 1) PROVE <<v, announced'[v][i]>> \in signed
        <4>1. i = n + 1 \/ i \in 1..n
          BY <1>2
        <4>2. \A k \in 1..n : <<v, q[k]>> \in signed
          BY DEF AnnounceInv, AnnouncedOnce
        <4>. QED
          BY <1>1, <1>4, <4>1, <4>2
      <3>4. ASSUME NEW k, Contains(q, k) PROVE Contains(announced'[v], k)
        <4>1. PICK i \in 1..n : q[i] = k
          BY <3>4, ContainsIs
        <4>2. i \in 1..(n + 1) /\ announced'[v][i] = k
          BY <1>2, <1>4, <4>1
        <4>3. \E j \in 1..Len(announced'[v]) : announced'[v][j] = k
          BY <1>4, <4>2
        <4>. QED
          BY <4>3, ContainsIs
      <3>. QED
        BY <1>4, <2>2, <3>1, <3>2, <3>3, <3>4
    <2>. QED
      BY <2>1, <2>2
  <1>. QED
    BY <1>3, <1>6

LEMMA AnnounceKeepsInv ==
    ASSUME AnnounceInv, [AnnounceNext]_announceVars
    PROVE  AnnounceInv'
  <1>. DEFINE Agents == [Announcers -> [pc : {"off", "check", "announce", "announced"},
                                        location : Locations \cup {""}]]
  <1>an. announced \in [Announcers -> Seq(Locations)]
    BY DEF AnnounceInv
  <1>ag. agent \in Agents
    BY DEF AnnounceInv
  <1>si. signed \subseteq Announcers \X Locations
    BY DEF AnnounceInv
  <1>re. \A v \in Announcers, l \in Locations :
            <<v, l>> \in replay <=> \E i \in 1..Len(announced[v]) : announced[v][i] = l
    BY DEF AnnounceInv
  <1>on. \A v \in Announcers :
            /\ IsInjective(announced[v])
            /\ \A i \in 1..Len(announced[v]) : <<v, announced[v][i]>> \in signed
            /\ agent[v].pc = "announced" => Contains(announced[v], agent[v].location)
    BY DEF AnnounceInv, AnnouncedOnce
  <1>2. ASSUME NEW v \in Announcers, NEW l \in Locations, StartAgent(v, l) PROVE AnnounceInv'
    <2>1. /\ signed' = signed \cup {<<v, l>>} /\ UNCHANGED <<announced, replay>>
          /\ agent' = [agent EXCEPT ![v] = [pc |-> "check", location |-> l]]
      BY <1>2 DEF StartAgent
    <2>2. agent' \in Agents
      BY <1>ag, <2>1
    <2>3. signed' \subseteq Announcers \X Locations
      BY <1>si, <2>1
    <2>4. \A w \in Announcers : (w = v /\ agent'[w].pc = "check") \/ agent'[w] = agent[w]
      BY <1>ag, <2>1
    <2>5. AnnouncedOnce'
      <3>. SUFFICES ASSUME NEW w \in Announcers
                    PROVE  /\ IsInjective(announced[w])
                           /\ \A i \in 1..Len(announced[w]) : <<w, announced[w][i]>> \in signed'
                           /\ agent'[w].pc = "announced" => Contains(announced[w], agent'[w].location)
        BY <2>1 DEF AnnouncedOnce
      <3>. QED
        BY <1>on, <2>1, <2>4
    <2>6. announced' = announced /\ replay' = replay
      BY <2>1
    <2>. QED
      BY <1>an, <1>re, <2>6, <2>2, <2>3, <2>5, Zenon DEF AnnounceInv
  <1>3. ASSUME NEW v \in Announcers, CheckAnnounced(v) PROVE AnnounceInv'
    <2>1. PICK n \in 0..Len(announced[v]) :
            agent' = [agent EXCEPT ![v].pc =
                        IF Contains(SubSeq(announced[v], 1, n), agent[v].location)
                        THEN "announced" ELSE "announce"]
      BY <1>3 DEF CheckAnnounced
    <2>2. UNCHANGED <<announced, replay, signed>>
      BY <1>3 DEF CheckAnnounced
    <2>3. /\ agent' \in Agents /\ agent'[v].location = agent[v].location
          /\ agent'[v].pc = "announced" =>
                Contains(SubSeq(announced[v], 1, n), agent[v].location)
          /\ \A w \in Announcers \ {v} : agent'[w] = agent[w]
      BY <1>ag, <2>1
    <2>4. ASSUME NEW x, Contains(SubSeq(announced[v], 1, n), x) PROVE Contains(announced[v], x)
      <3>1. announced[v] \in Seq(Locations) /\ Len(announced[v]) \in Nat
        BY <1>an
      <3>2. /\ Len(SubSeq(announced[v], 1, n)) = n
            /\ \A i \in 1..n : SubSeq(announced[v], 1, n)[i] = announced[v][i]
        BY <3>1
      <3>3. PICK i \in 1..n : SubSeq(announced[v], 1, n)[i] = x
        BY <2>4, <3>2, ContainsIs
      <3>4. i \in 1..Len(announced[v]) /\ announced[v][i] = x
        BY <3>1, <3>2, <3>3
      <3>. QED
        BY <3>4, ContainsIs
    <2>5. AnnouncedOnce'
      <3>. SUFFICES ASSUME NEW w \in Announcers
                    PROVE  /\ IsInjective(announced[w])
                           /\ \A i \in 1..Len(announced[w]) : <<w, announced[w][i]>> \in signed
                           /\ agent'[w].pc = "announced" => Contains(announced[w], agent'[w].location)
        BY <2>2 DEF AnnouncedOnce
      <3>. QED
        BY <1>on, <2>3, <2>4
    <2>. QED
      BY <1>an, <1>si, <1>re, <2>2, <2>3, <2>5 DEF AnnounceInv
  <1>4. ASSUME NEW v \in Announcers, NEW l, NEW s, ProcessAnnounce(v, l, s), UNCHANGED signed,
               agent' \in Agents,
               \A w \in Announcers : /\ agent'[w].location = agent[w].location
                                     /\ agent'[w].pc = "announced" => agent[w].pc = "announced"
        PROVE  AnnounceInv'
    <2>1. /\ announced' \in [Announcers -> Seq(Locations)]
          /\ \A w \in Announcers, k \in Locations :
               <<w, k>> \in replay' <=> \E i \in 1..Len(announced'[w]) : announced'[w][i] = k
          /\ \A w \in Announcers :
               /\ IsInjective(announced'[w])
               /\ \A i \in 1..Len(announced'[w]) : <<w, announced'[w][i]>> \in signed
               /\ \A k : Contains(announced[w], k) => Contains(announced'[w], k)
      BY <1>4, ProcessAnnounceKeeps
    <2>2. AnnouncedOnce'
      BY <1>on, <1>4, <2>1 DEF AnnouncedOnce
    <2>. QED
      BY <1>si, <1>4, <2>1, <2>2 DEF AnnounceInv
  <1>5. ASSUME NEW v \in Announcers, SelfAnnounce(v) PROVE AnnounceInv'
    <2>1. /\ UNCHANGED signed /\ agent' = [agent EXCEPT ![v].pc = "check"]
          /\ ProcessAnnounce(v, agent[v].location, v) \/ UNCHANGED <<announced, replay>>
      BY <1>5 DEF SelfAnnounce
    <2>2. /\ agent' \in Agents
          /\ \A w \in Announcers : /\ agent'[w].location = agent[w].location
                                    /\ agent'[w].pc = "announced" => agent[w].pc = "announced"
      BY <1>ag, <2>1
    <2>3. CASE ProcessAnnounce(v, agent[v].location, v)
      BY <1>4, <2>1, <2>2, <2>3
    <2>4. CASE UNCHANGED <<announced, replay>>
      <3>1. AnnouncedOnce'
        BY <1>on, <2>1, <2>2, <2>4 DEF AnnouncedOnce
      <3>2. announced' = announced /\ replay' = replay /\ signed' = signed
        BY <2>1, <2>4
      <3>3. agent' \in Agents
        BY <2>2
      <3>. QED
        BY <1>an, <1>si, <1>re, <3>1, <3>2, <3>3, Zenon DEF AnnounceInv
    <2>. QED
      BY <2>1, <2>3, <2>4
  <1>6. CASE AnyoneAnnounces
    <2>1. PICK v \in Announcers, a \in signed : ProcessAnnounce(v, a[2], a[1])
      BY <1>6 DEF AnyoneAnnounces
    <2>2. UNCHANGED <<agent, signed>>
      BY <1>6 DEF AnyoneAnnounces
    <2>. QED
      BY <1>ag, <1>4, <2>1, <2>2
  <1>7. CASE UNCHANGED announceVars
    <2>1. UNCHANGED <<announced, replay, agent, signed>>
      BY <1>7 DEF announceVars
    <2>. QED
      BY <2>1 DEF AnnounceInv, AnnouncedOnce
  <1>. QED
    BY <1>2, <1>3, <1>5, <1>6, <1>7 DEF AnnounceNext

(* A validator's list holds only what it signed and nothing twice, and an  *)
(* agent that stops announcing is in it, whoever submits announcements and *)
(* however old the list is that an agent reads.                            *)
THEOREM AnnouncementsOnce == AnnounceSpec => []AnnouncedOnce
  <1>1. AnnounceInit => AnnounceInv
    <2>. SUFFICES ASSUME AnnounceInit PROVE AnnounceInv
      OBVIOUS
    <2>1. /\ announced = [v \in Announcers |-> <<>>] /\ replay = {} /\ signed = {}
          /\ agent = [v \in Announcers |-> [pc |-> "off", location |-> ""]]
      BY DEF AnnounceInit
    <2>2. \A v \in Announcers : /\ announced[v] = <<>> /\ Len(announced[v]) = 0
                                /\ DOMAIN announced[v] = {} /\ 1..Len(announced[v]) = {}
                                /\ agent[v].pc = "off"
      <3>1. DOMAIN <<>> = {} /\ Len(<<>>) = 0 /\ 1..0 = {}
        OBVIOUS
      <3>2. \A v \in Announcers : announced[v] = <<>> /\ agent[v].pc = "off"
        BY <2>1
      <3>. QED
        BY <3>1, <3>2, Zenon
    <2>3. announced \in [Announcers -> Seq(Locations)]
      <3>1. <<>> \in Seq(Locations)
        OBVIOUS
      <3>. QED
        BY <2>1, <3>1, Zenon
    <2>4. AnnouncedOnce
      BY <2>2 DEF AnnouncedOnce, IsInjective
    <2>. QED
      BY <2>1, <2>2, <2>3, <2>4 DEF AnnounceInv
  <1>2. AnnounceInv => AnnouncedOnce
    BY DEF AnnounceInv
  <1>. QED
    BY <1>1, <1>2, AnnounceKeepsInv, PTL DEF AnnounceSpec

-----------------------------------------------------------------------------
(* Sums of payments                                                        *)

Payments(accounts, Keys) == [u \in Keys |-> accounts[u].payment]

PaidTo(d, i) == {u \in DOMAIN gasPayments[d] : gasPayments[d][u].igp = i}

(* The recursive function behind TotalPaid, on the subsets of keys. *)
PaymentSums(accounts, Keys) ==
    CHOOSE g : g = [s \in SUBSET Keys |->
        IF s = {} THEN 0 ELSE accounts[PickOf(s)].payment + g[s \ {PickOf(s)}]]

LEMMA PaymentSumsAre ==
    ASSUME NEW accounts, NEW Keys
    PROVE  PaymentSums(accounts, Keys) = Sums(Payments(accounts, Keys), Keys)
  <1>. DEFINE F == Payments(accounts, Keys)
              P(g) == g = [s \in SUBSET Keys |->
                        IF s = {} THEN 0 ELSE accounts[PickOf(s)].payment + g[s \ {PickOf(s)}]]
  <1>1. ASSUME NEW s \in SUBSET Keys, s # {}
        PROVE  F[PickOf(s)] = accounts[PickOf(s)].payment
    BY <1>1 DEF Payments, PickOf
  <1>2. ASSUME NEW g PROVE P(g) <=> SumsFrom(g, F, Keys)
    <2>. HIDE DEF F
    <2>. QED
      BY <1>1 DEF SumsFrom
  <1>3. (CHOOSE g : P(g)) = (CHOOSE g : SumsFrom(g, F, Keys))
    <2>. HIDE DEF P, F
    <2>. QED
      BY <1>2
  <1>. QED
    BY <1>3 DEF PaymentSums, Sums

LEMMA UnfoldTotalPaid ==
    ASSUME NEW d, NEW i
    PROVE  TotalPaid(d, i) = Total(Payments(gasPayments[d], PaidTo(d, i)), PaidTo(d, i))
  <1>1. TotalPaid(d, i) = PaymentSums(gasPayments[d], PaidTo(d, i))[PaidTo(d, i)]
    BY DEF TotalPaid, MapThenSumSet, MapThenFoldSet, PaymentSums, PickOf, PaidTo
  <1>. QED
    BY <1>1, PaymentSumsAre DEF Total

LEMMA UnfoldTotalPaidNext ==
    ASSUME NEW d, NEW i
    PROVE  TotalPaid(d, i)' = Total(Payments(gasPayments'[d], PaidTo(d, i)'), PaidTo(d, i)')
  <1>1. TotalPaid(d, i)' = PaymentSums(gasPayments'[d], PaidTo(d, i)')[PaidTo(d, i)']
    BY DEF TotalPaid, MapThenSumSet, MapThenFoldSet, PaymentSums, PickOf, PaidTo
  <1>. QED
    BY <1>1, PaymentSumsAre DEF Total

-----------------------------------------------------------------------------
(* The gas paymaster                                                       *)

(* An IGP account that does not exist was never paid; one that does holds  *)
(* its rent and what was paid and not yet claimed.                         *)
AccountOk(d, i) ==
    /\ igps[d][i] = NoAccount => claimed[d][i] = 0 /\ PaidTo(d, i) = {}
    /\ igps[d][i] # NoAccount =>
        /\ igps[d][i].lamports >= Rent(igps[d][i].len)
        /\ igps[d][i].lamports + claimed[d][i] = topUp[d][i] + TotalPaid(d, i)

IgpTyped ==
    /\ igps \in [IgpDomains -> [Igps -> {NoAccount} \cup IgpData]]
    /\ overheadIgps \in [IgpDomains -> [OverheadIgps -> {NoAccount} \cup OverheadIgpData]]
    /\ claimed \in [IgpDomains -> [Igps -> Nat]] /\ topUp \in [IgpDomains -> [Igps -> Nat]]

PaymentsTyped ==
    /\ paymentCount \in [IgpDomains -> {NoAccount} \cup Nat]
    /\ DOMAIN gasPayments = IgpDomains
    /\ \A d \in IgpDomains :
        /\ IsFiniteSet(DOMAIN gasPayments[d])
        /\ \A u \in DOMAIN gasPayments[d] : gasPayments[d][u].payment \in Nat
        /\ paymentCount[d] = NoAccount => DOMAIN gasPayments[d] = {}

AccountsOk == \A d \in IgpDomains, i \in Igps : AccountOk(d, i)

IgpInv == IgpTyped /\ PaymentsTyped /\ AccountsOk /\ PaymentIndexExact

LEMMA EmptyMap == ASSUME NEW V PROVE <<>> \in Maps(V)
  <1>1. <<>> \in [{} -> V] /\ {} \in SUBSET Destinations
    OBVIOUS
  <1>. QED
    BY <1>1 DEF Maps

(* Inserting and removing entries leaves a map. *)
LEMMA MapSetType ==
    ASSUME NEW V, NEW map \in Maps(V), NEW key \in Destinations,
           NEW value \in {<<v>> : v \in V} \cup {<<>>}
    PROVE  MapSet(map, key, value) \in Maps(V)
  <1>1. PICK S \in SUBSET Destinations : map \in [S -> V]
    BY DEF Maps
  <1>2. CASE value = <<>>
    <2>1. MapSet(map, key, value) = [k \in DOMAIN map \ {key} |-> map[k]]
      BY <1>2 DEF MapSet
    <2>2. MapSet(map, key, value) \in [S \ {key} -> V]
      BY <1>1, <2>1
    <2>. QED
      BY <2>2 DEF Maps
  <1>3. CASE value # <<>>
    <2>1. value[1] \in V
      BY <1>3
    <2>2. MapSet(map, key, value) =
            [k \in DOMAIN map \cup {key} |-> IF k = key THEN value[1] ELSE map[k]]
      BY <1>3 DEF MapSet
    <2>3. MapSet(map, key, value) \in [S \cup {key} -> V]
      BY <1>1, <2>1, <2>2
    <2>4. S \cup {key} \in SUBSET Destinations
      OBVIOUS
    <2>. QED
      BY <2>3, <2>4 DEF Maps
  <1>. QED
    BY <1>2, <1>3

LEMMA RentType ==
    /\ Cardinality(Destinations) \in Nat /\ Rent(0) \in Nat /\ Rent(1) \in Nat
    /\ \A n \in 0..Cardinality(Destinations) : Rent(n) \in Nat
  <1>1. Cardinality(Destinations) \in Nat
    BY IgpAssumption, FS_CardinalityType
  <1>2. \A n \in 0..(Cardinality(Destinations) + 1) : Rent(n) \in Nat
    BY IgpAssumption
  <1>. QED
    BY <1>1, <1>2

(* A quote is an unsigned integer. *)
LEMMA QuoteType ==
    ASSUME NEW oracle \in Oracles, NEW gas \in Nat
    PROVE  QuoteGasPayment(oracle, gas) \in Nat
  <1>. DEFINE t == oracle.token_decimals
              num == (gas * oracle.gas_price * oracle.token_exchange_rate) \div Scale
  <1>1. /\ Scale \in Nat \ {0} /\ SolDecimals \in Nat /\ t \in Nat
        /\ oracle.gas_price \in Nat /\ oracle.token_exchange_rate \in Nat
        /\ \A k \in 0..(t + SolDecimals) : 10^k \in Nat \ {0}
    BY IgpAssumption
  <1>2. gas * oracle.gas_price \in Nat
    BY <1>1
  <1>3. (gas * oracle.gas_price) * oracle.token_exchange_rate \in Nat
    BY <1>1, <1>2
  <1>4. num \in Nat
    BY <1>1, <1>3
  <1>. HIDE DEF num
  <1>5. CASE t > SolDecimals
    <2>1. 10^(t - SolDecimals) \in Nat \ {0}
      <3>1. t - SolDecimals \in 0..(t + SolDecimals)
        BY <1>1, <1>5
      <3>. QED
        BY <1>1, <3>1
    <2>2. num \div 10^(t - SolDecimals) \in Nat
      BY <1>4, <2>1
    <2>. QED
      BY <1>5, <2>2 DEF QuoteGasPayment, ConvertDecimals, num
  <1>6. CASE ~(t > SolDecimals)
    <2>1. 10^(SolDecimals - t) \in Nat
      <3>1. SolDecimals - t \in 0..(t + SolDecimals)
        BY <1>1, <1>6
      <3>. QED
        BY <1>1, <3>1
    <2>2. num * 10^(SolDecimals - t) \in Nat
      BY <1>4, <2>1
    <2>. QED
      BY <1>6, <2>2 DEF QuoteGasPayment, ConvertDecimals, num
  <1>. QED
    BY <1>5, <1>6

LEMMA TotalPaidType ==
    ASSUME PaymentsTyped, NEW d \in IgpDomains, NEW i
    PROVE  /\ IsFiniteSet(PaidTo(d, i)) /\ TotalPaid(d, i) \in Int
           /\ PaidTo(d, i) = {} => TotalPaid(d, i) = 0
  <1>1. IsFiniteSet(PaidTo(d, i))
    BY FS_Subset DEF PaymentsTyped, PaidTo
  <1>. DEFINE Keys == PaidTo(d, i)
              F == Payments(gasPayments[d], Keys)
  <1>2. \A u \in Keys : F[u] \in Int
    BY DEF PaymentsTyped, PaidTo, Payments
  <1>3. TotalPaid(d, i) = Total(F, Keys)
    BY UnfoldTotalPaid
  <1>. HIDE DEF Keys, F
  <1>4. Total(F, Keys) \in Int /\ (Keys = {} => Total(F, Keys) = 0)
    BY <1>1, <1>2, TotalType DEF Keys
  <1>. QED
    BY <1>1, <1>3, <1>4 DEF Keys

(* What a step leaves alone. *)
LEMMA AccountKept ==
    ASSUME NEW d \in IgpDomains, NEW i \in Igps, AccountOk(d, i), gasPayments' = gasPayments,
           igps'[d][i] = igps[d][i], claimed'[d][i] = claimed[d][i], topUp'[d][i] = topUp[d][i]
    PROVE  AccountOk(d, i)'
  <1>1. PaidTo(d, i)' = PaidTo(d, i)
    BY DEF PaidTo
  <1>2. TotalPaid(d, i)' = TotalPaid(d, i)
    BY <1>1, UnfoldTotalPaid, UnfoldTotalPaidNext
  <1>. QED
    BY <1>1, <1>2 DEF AccountOk

LEMMA IndexKept ==
    ASSUME PaymentsTyped, PaymentIndexExact, UNCHANGED <<paymentCount, gasPayments>>
    PROVE  PaymentsTyped' /\ PaymentIndexExact'
  BY DEF PaymentsTyped, PaymentIndexExact

(* A step that changes one IGP account. *)
LEMMA OneAccount ==
    ASSUME IgpInv, UNCHANGED <<paymentCount, gasPayments, overheadIgps>>,
           NEW d \in IgpDomains, NEW i \in Igps, NEW a \in IgpData, NEW c \in Nat, NEW t \in Nat,
           igps' = [igps EXCEPT ![d][i] = a],
           claimed' = [claimed EXCEPT ![d][i] = c], topUp' = [topUp EXCEPT ![d][i] = t],
           a.lamports >= Rent(a.len), a.lamports + c = t + TotalPaid(d, i)
    PROVE  IgpInv'
  <1>1. IgpTyped
    BY DEF IgpInv
  <1>2. IgpTyped'
    BY <1>1 DEF IgpTyped
  <1>3. /\ igps'[d][i] = a /\ claimed'[d][i] = c /\ topUp'[d][i] = t
        /\ \A e \in IgpDomains, j \in Igps : e # d \/ j # i =>
            /\ igps'[e][j] = igps[e][j] /\ claimed'[e][j] = claimed[e][j]
            /\ topUp'[e][j] = topUp[e][j]
    BY <1>1 DEF IgpTyped
  <1>4. AccountOk(d, i)'
    <2>1. PaidTo(d, i)' = PaidTo(d, i)
      BY DEF PaidTo
    <2>2. TotalPaid(d, i)' = TotalPaid(d, i)
      BY <2>1, UnfoldTotalPaid, UnfoldTotalPaidNext
    <2>3. a # NoAccount
      BY IgpAssumption
    <2>. QED
      BY <1>3, <2>2, <2>3 DEF AccountOk
  <1>5. ASSUME NEW e \in IgpDomains, NEW j \in Igps PROVE AccountOk(e, j)'
    <2>1. CASE e = d /\ j = i
      BY <1>4, <2>1
    <2>2. CASE e # d \/ j # i
      BY <1>3, <2>2, AccountKept DEF IgpInv, AccountsOk
    <2>. QED
      BY <2>1, <2>2
  <1>. QED
    BY <1>2, <1>5, IndexKept DEF IgpInv, AccountsOk

LEMMA LargerIs ==
    ASSUME NEW a \in Nat, NEW b \in Nat
    PROVE  Larger(a, b) \in Nat /\ Larger(a, b) >= a /\ Larger(a, b) >= b
  BY DEF Larger

LEMMA InitIgpKeepsInv ==
    ASSUME IgpInv, NEW d \in IgpDomains, NEW i \in Igps, NEW owner \in IgpOwners,
           NEW b \in Payers, NEW gift \in {0, Rent(1)}, InitIgp(d, i, owner, b, gift)
    PROVE  IgpInv'
  <1>. DEFINE a == NewIgp(owner, b, gift)
  <1>1. /\ igps[d][i] = NoAccount /\ igps' = [igps EXCEPT ![d][i] = a]
        /\ topUp' = [topUp EXCEPT ![d][i] = igps'[d][i].lamports]
        /\ UNCHANGED <<paymentCount, overheadIgps, gasPayments, claimed>>
    BY DEF InitIgp
  <1>2. gift \in Nat /\ Rent(0) \in Nat /\ 0 \in 0..Cardinality(Destinations)
    BY RentType
  <1>3. /\ a \in IgpData /\ a.len = 0 /\ a.lamports \in Nat /\ a.lamports >= Rent(0)
    <2>. DEFINE l == Larger(gift, Larger(Rent(0), 1))
    <2>1. l \in Nat /\ l >= Rent(0)
      <3>1. Larger(Rent(0), 1) \in Nat /\ Larger(Rent(0), 1) >= Rent(0)
        BY <1>2, LargerIs
      <3>2. l \in Nat /\ l >= Larger(Rent(0), 1)
        BY <1>2, <3>1, LargerIs
      <3>. QED
        BY <1>2, <3>1, <3>2
    <2>2. a = [owner |-> owner, beneficiary |-> b, gas_oracles |-> <<>>, len |-> 0,
               lamports |-> l]
      BY DEF NewIgp
    <2>3. <<>> \in Maps(Oracles)
      BY EmptyMap
    <2>. HIDE DEF l, a
    <2>. QED
      BY <1>2, <2>1, <2>2, <2>3 DEF IgpData
  <1>. HIDE DEF a
  <1>4. igps'[d][i] = a
    BY <1>1 DEF IgpInv, IgpTyped
  <1>5. claimed[d][i] = 0 /\ PaidTo(d, i) = {}
    BY <1>1 DEF IgpInv, AccountsOk, AccountOk
  <1>6. TotalPaid(d, i) = 0
    BY <1>5, TotalPaidType DEF IgpInv
  <1>7. claimed' = [claimed EXCEPT ![d][i] = 0]
    BY <1>1, <1>5 DEF IgpInv, IgpTyped
  <1>8. topUp' = [topUp EXCEPT ![d][i] = a.lamports]
    BY <1>1, <1>4
  <1>9. a.lamports \in Nat /\ a.lamports >= Rent(a.len)
    BY <1>3
  <1>10. a.lamports + 0 = a.lamports + TotalPaid(d, i)
    BY <1>6
  <1>11. UNCHANGED <<paymentCount, gasPayments, overheadIgps>> /\ 0 \in Nat /\ a \in IgpData
         /\ igps' = [igps EXCEPT ![d][i] = a]
    BY <1>1, <1>3
  <1>. QED
    BY <1>7, <1>8, <1>9, <1>10, <1>11, OneAccount, Zenon

(* The owner's instructions: no lamports move. *)
LEMMA IgpOwnerKeepsInv ==
    ASSUME IgpInv, NEW d \in IgpDomains, NEW i \in Igps, NEW w \in Payers,
           \/ \E b \in Payers : SetIgpBeneficiary(d, i, b, w)
           \/ \E owner \in IgpOwners : TransferIgpOwnership(d, i, owner, w)
    PROVE  IgpInv'
  <1>. DEFINE r == igps[d][i]
  <1>1. r # NoAccount /\ UNCHANGED <<paymentCount, overheadIgps, gasPayments, claimed, topUp>>
    BY DEF SetIgpBeneficiary, TransferIgpOwnership, OwnedBy
  <1>2. r \in IgpData /\ r.lamports \in Nat
    BY <1>1 DEF IgpInv, IgpTyped, IgpData
  <1>3. \E a \in IgpData : /\ igps' = [igps EXCEPT ![d][i] = a]
                              /\ a.lamports = r.lamports /\ a.len = r.len
    <2>1. CASE \E b \in Payers : SetIgpBeneficiary(d, i, b, w)
      <3>1. PICK b \in Payers : SetIgpBeneficiary(d, i, b, w)
        BY <2>1
      <3>. DEFINE a == [r EXCEPT !.beneficiary = b]
      <3>2. igps' = [igps EXCEPT ![d][i] = a]
        BY <3>1 DEF SetIgpBeneficiary, IgpInv, IgpTyped
      <3>. HIDE DEF r
      <3>3. a \in IgpData /\ a.lamports = r.lamports /\ a.len = r.len
        BY <1>2 DEF IgpData
      <3>. QED
        BY <3>2, <3>3
    <2>2. CASE \E owner \in IgpOwners : TransferIgpOwnership(d, i, owner, w)
      <3>1. PICK owner \in IgpOwners : TransferIgpOwnership(d, i, owner, w)
        BY <2>2
      <3>. DEFINE a == [r EXCEPT !.owner = owner]
      <3>2. igps' = [igps EXCEPT ![d][i] = a]
        BY <3>1 DEF TransferIgpOwnership, IgpInv, IgpTyped
      <3>. HIDE DEF r
      <3>3. a \in IgpData /\ a.lamports = r.lamports /\ a.len = r.len
        BY <1>2 DEF IgpData
      <3>. QED
        BY <3>2, <3>3
    <2>. QED
      BY <2>1, <2>2
  <1>4. PICK a \in IgpData : /\ igps' = [igps EXCEPT ![d][i] = a]
                                /\ a.lamports = r.lamports /\ a.len = r.len
    BY <1>3
  <1>5. /\ claimed[d][i] \in Nat /\ topUp[d][i] \in Nat
        /\ claimed' = [claimed EXCEPT ![d][i] = claimed[d][i]]
        /\ topUp' = [topUp EXCEPT ![d][i] = topUp[d][i]]
    BY <1>1 DEF IgpInv, IgpTyped
  <1>6. r.lamports >= Rent(r.len) /\ r.lamports + claimed[d][i] = topUp[d][i] + TotalPaid(d, i)
    BY <1>1 DEF IgpInv, AccountsOk, AccountOk
  <1>7. a.lamports >= Rent(a.len) /\ a.lamports + claimed[d][i] = topUp[d][i] + TotalPaid(d, i)
    BY <1>4, <1>6
  <1>8. UNCHANGED <<paymentCount, gasPayments, overheadIgps>>
    BY <1>1
  <1>. QED
    BY <1>4, <1>5, <1>7, <1>8, OneAccount, Zenon

(* What a claim takes out is what exceeds the rent. *)
LEMMA ClaimKeepsInv ==
    ASSUME IgpInv, NEW d \in IgpDomains, NEW i \in Igps, Claim(d, i)
    PROVE  IgpInv'
  <1>. DEFINE r == igps[d][i]
              required == Rent(r.len)
              amount == r.lamports - required
              a == [r EXCEPT !.lamports = r.lamports - amount]
  <1>1. /\ r # NoAccount /\ r.lamports >= required
        /\ igps' = [igps EXCEPT ![d][i].lamports = @ - amount]
        /\ claimed' = [claimed EXCEPT ![d][i] = @ + amount]
        /\ UNCHANGED <<paymentCount, overheadIgps, gasPayments, topUp>>
    BY DEF Claim
  <1>2. r \in IgpData /\ r.lamports \in Nat /\ r.len \in 0..Cardinality(Destinations)
    BY <1>1 DEF IgpInv, IgpTyped, IgpData
  <1>3. required \in Nat
    BY <1>2, RentType
  <1>4. /\ claimed[d][i] \in Nat /\ topUp[d][i] \in Nat
        /\ claimed' = [claimed EXCEPT ![d][i] = claimed[d][i] + amount]
        /\ topUp' = [topUp EXCEPT ![d][i] = topUp[d][i]]
        /\ igps' = [igps EXCEPT ![d][i] = a]
    BY <1>1 DEF IgpInv, IgpTyped
  <1>5. r.lamports + claimed[d][i] = topUp[d][i] + TotalPaid(d, i) /\ TotalPaid(d, i) \in Int
    BY <1>1, TotalPaidType DEF IgpInv, AccountsOk, AccountOk
  <1>. HIDE DEF r, required
  <1>6. a \in IgpData /\ a.len = r.len /\ a.lamports = required
    BY <1>2, <1>3 DEF IgpData
  <1>7. claimed[d][i] + amount \in Nat
    BY <1>1, <1>2, <1>3, <1>4
  <1>8. a.lamports >= Rent(a.len)
    BY <1>3, <1>6 DEF required
  <1>9. a.lamports + (claimed[d][i] + amount) = topUp[d][i] + TotalPaid(d, i)
    BY <1>2, <1>3, <1>4, <1>5, <1>6
  <1>. HIDE DEF a, amount
  <1>10. UNCHANGED <<paymentCount, gasPayments, overheadIgps>>
    BY <1>1
  <1>. QED
    BY <1>4, <1>6, <1>7, <1>8, <1>9, <1>10, OneAccount, Zenon

(* An account that grows gets the rent it lacks. *)
LEMMA SetGasOracleKeepsInv ==
    ASSUME IgpInv, NEW d \in IgpDomains, NEW i \in Igps, NEW w \in Payers,
           NEW to \in Destinations, NEW o \in {<<c>> : c \in Oracles} \cup {<<>>},
           SetGasOracleConfigs(d, i, to, o, w)
    PROVE  IgpInv'
  <1>. DEFINE r == igps[d][i]
              map == MapSet(r.gas_oracles, to, o)
              len == Larger(Cardinality(DOMAIN map), r.len)
              l == Larger(r.lamports, Rent(len))
              a == StoreWithRentExemptRealloc(r, map)
              t == topUp[d][i] + l - r.lamports
  <1>1. /\ r # NoAccount /\ igps' = [igps EXCEPT ![d][i] =
                StoreWithRentExemptRealloc(@, MapSet(@.gas_oracles, to, o))]
        /\ topUp' = [topUp EXCEPT ![d][i] = @ + igps'[d][i].lamports - igps[d][i].lamports]
        /\ UNCHANGED <<paymentCount, overheadIgps, gasPayments, claimed>>
    BY DEF SetGasOracleConfigs, OwnedBy
  <1>2. /\ r \in IgpData /\ r.lamports \in Nat /\ r.len \in 0..Cardinality(Destinations)
        /\ r.gas_oracles \in Maps(Oracles)
    BY <1>1 DEF IgpInv, IgpTyped, IgpData
  <1>3. igps' = [igps EXCEPT ![d][i] = a] /\ igps'[d][i] = a
    BY <1>1 DEF IgpInv, IgpTyped
  <1>4. r.lamports + claimed[d][i] = topUp[d][i] + TotalPaid(d, i) /\ TotalPaid(d, i) \in Int
    BY <1>1, TotalPaidType DEF IgpInv, AccountsOk, AccountOk
  <1>5. /\ claimed[d][i] \in Nat /\ topUp[d][i] \in Nat
        /\ claimed' = [claimed EXCEPT ![d][i] = claimed[d][i]]
    BY <1>1 DEF IgpInv, IgpTyped
  <1>. HIDE DEF r
  <1>6. map \in Maps(Oracles)
    BY <1>2, MapSetType
  <1>7. Cardinality(DOMAIN map) \in 0..Cardinality(Destinations)
    <2>1. DOMAIN map \in SUBSET Destinations
      BY <1>6 DEF Maps
    <2>2. IsFiniteSet(Destinations) /\ Cardinality(Destinations) \in Nat
      BY IgpAssumption, RentType
    <2>3. /\ IsFiniteSet(DOMAIN map) /\ Cardinality(DOMAIN map) <= Cardinality(Destinations)
      BY <2>1, <2>2, FS_Subset
    <2>4. Cardinality(DOMAIN map) \in Nat
      BY <2>3, FS_CardinalityType
    <2>. QED
      BY <2>2, <2>3, <2>4
  <1>. HIDE DEF map
  <1>8. len \in 0..Cardinality(Destinations)
    BY <1>2, <1>7 DEF Larger
  <1>9. Rent(len) \in Nat
    BY <1>8, RentType
  <1>10. l \in Nat /\ l >= r.lamports /\ l >= Rent(len)
    BY <1>2, <1>9, LargerIs
  <1>11. a = [r EXCEPT !.gas_oracles = map, !.len = len, !.lamports = l]
    BY <1>2 DEF StoreWithRentExemptRealloc, IgpData
  <1>. HIDE DEF len, l, a
  <1>12. a \in IgpData /\ a.lamports = l /\ a.len = len
    BY <1>2, <1>6, <1>8, <1>10, <1>11 DEF IgpData
  <1>13. t \in Nat
    BY <1>2, <1>5, <1>10
  <1>14. topUp' = [topUp EXCEPT ![d][i] = t]
    <2>1. topUp' = [topUp EXCEPT ![d][i] = topUp[d][i] + igps'[d][i].lamports - igps[d][i].lamports]
      BY <1>1 DEF IgpInv, IgpTyped
    <2>. QED
      BY <1>3, <1>12, <2>1 DEF r
  <1>15. a.lamports + claimed[d][i] = t + TotalPaid(d, i)
    <2>. DEFINE P == TotalPaid(d, i)
                c == claimed[d][i]
                u == topUp[d][i]
                before == r.lamports
    <2>1. before + c = u + P /\ P \in Int /\ c \in Int /\ u \in Int /\ before \in Int /\ l \in Int
      BY <1>2, <1>4, <1>5, <1>10
    <2>2. t = u + l - before
      OBVIOUS
    <2>. HIDE DEF P, c, u, before, t
    <2>3. l + c = t + P
      BY <2>1, <2>2
    <2>. QED
      BY <1>12, <2>3 DEF P, c
  <1>16. a.lamports >= Rent(a.len)
    BY <1>10, <1>12
  <1>17. UNCHANGED <<paymentCount, gasPayments, overheadIgps>>
    BY <1>1
  <1>. HIDE DEF t
  <1>. QED
    BY <1>3, <1>5, <1>12, <1>13, <1>14, <1>15, <1>16, <1>17, OneAccount, Zenon

(* The program data and the overhead accounts hold no payments. *)
LEMMA InitProgramKeepsInv ==
    ASSUME IgpInv, NEW d \in IgpDomains, InitProgram(d)
    PROVE  IgpInv'
  <1>1. /\ paymentCount[d] = NoAccount /\ paymentCount' = [paymentCount EXCEPT ![d] = 0]
        /\ UNCHANGED <<igps, overheadIgps, gasPayments, claimed, topUp>>
    BY DEF InitProgram
  <1>2. PaymentsTyped /\ DOMAIN gasPayments[d] = {}
    BY <1>1 DEF IgpInv, PaymentsTyped
  <1>3. PaymentsTyped'
    BY <1>1, <1>2 DEF PaymentsTyped
  <1>4. /\ paymentCount'[d] = 0
        /\ \A e \in IgpDomains \ {d} : paymentCount'[e] = paymentCount[e]
    BY <1>1, <1>2 DEF PaymentsTyped
  <1>5. PaymentIndexExact'
    BY <1>1, <1>4 DEF IgpInv, PaymentIndexExact
  <1>6. IgpTyped'
    BY <1>1 DEF IgpInv, IgpTyped
  <1>7. AccountsOk'
    BY <1>1, AccountKept DEF IgpInv, AccountsOk
  <1>. QED
    BY <1>3, <1>5, <1>6, <1>7 DEF IgpInv

LEMMA OverheadKeepsInv ==
    ASSUME IgpInv, UNCHANGED <<paymentCount, igps, gasPayments, claimed, topUp>>,
           NEW d \in IgpDomains, NEW o \in OverheadIgps, NEW a \in OverheadIgpData,
           overheadIgps' = [overheadIgps EXCEPT ![d][o] = a]
    PROVE  IgpInv'
  <1>1. IgpTyped'
    BY DEF IgpInv, IgpTyped
  <1>2. AccountsOk'
    BY AccountKept DEF IgpInv, AccountsOk
  <1>. QED
    BY <1>1, <1>2, IndexKept DEF IgpInv

LEMMA OverheadStepKeepsInv ==
    ASSUME IgpInv, NEW d \in IgpDomains, NEW o \in OverheadIgps,
           \/ \E owner \in IgpOwners, i \in Igps : InitOverheadIgp(d, o, owner, i)
           \/ \E w \in Payers, owner \in IgpOwners : TransferOverheadIgpOwnership(d, o, owner, w)
           \/ \E w \in Payers, to \in Destinations, g \in {<<g>> : g \in Overheads} \cup {<<>>} :
                    SetDestinationGasOverheads(d, o, to, g, w)
    PROVE  IgpInv'
  <1>. DEFINE r == overheadIgps[d][o]
  <1>1. overheadIgps \in [IgpDomains -> [OverheadIgps -> {NoAccount} \cup OverheadIgpData]]
    BY DEF IgpInv, IgpTyped
  <1>2. r # NoAccount => /\ r \in OverheadIgpData /\ r.gas_overheads \in Maps(Overheads)
    BY <1>1 DEF OverheadIgpData
  <1>3. UNCHANGED <<paymentCount, igps, gasPayments, claimed, topUp>>
    BY DEF InitOverheadIgp, TransferOverheadIgpOwnership, SetDestinationGasOverheads
  <1>4. CASE \E owner \in IgpOwners, i \in Igps : InitOverheadIgp(d, o, owner, i)
    <2>1. PICK owner \in IgpOwners, i \in Igps : InitOverheadIgp(d, o, owner, i)
      BY <1>4
    <2>. DEFINE a == [owner |-> owner, inner |-> i, gas_overheads |-> <<>>]
    <2>2. overheadIgps' = [overheadIgps EXCEPT ![d][o] = a]
      BY <2>1 DEF InitOverheadIgp
    <2>3. a \in OverheadIgpData
      BY EmptyMap DEF OverheadIgpData
    <2>. HIDE DEF a
    <2>. QED
      BY <1>3, <2>2, <2>3, OverheadKeepsInv
  <1>5. CASE \E w \in Payers, owner \in IgpOwners : TransferOverheadIgpOwnership(d, o, owner, w)
    <2>1. PICK w \in Payers, owner \in IgpOwners : TransferOverheadIgpOwnership(d, o, owner, w)
      BY <1>5
    <2>. DEFINE a == [r EXCEPT !.owner = owner]
    <2>2. r # NoAccount /\ overheadIgps' = [overheadIgps EXCEPT ![d][o] = a]
      BY <1>1, <2>1 DEF TransferOverheadIgpOwnership, OwnedBy
    <2>3. a \in OverheadIgpData
      <3>. HIDE DEF r
      <3>. QED
        BY <1>2, <2>2 DEF OverheadIgpData
    <2>. HIDE DEF a
    <2>. QED
      BY <1>3, <2>2, <2>3, OverheadKeepsInv
  <1>6. CASE \E w \in Payers, to \in Destinations, g \in {<<g>> : g \in Overheads} \cup {<<>>} :
                    SetDestinationGasOverheads(d, o, to, g, w)
    <2>1. PICK w \in Payers, to \in Destinations, g \in {<<g>> : g \in Overheads} \cup {<<>>} :
                    SetDestinationGasOverheads(d, o, to, g, w)
      BY <1>6
    <2>. DEFINE map == MapSet(r.gas_overheads, to, g)
                a == [r EXCEPT !.gas_overheads = map]
    <2>2. r # NoAccount /\ overheadIgps' = [overheadIgps EXCEPT ![d][o] = a]
      BY <1>1, <2>1 DEF SetDestinationGasOverheads, OwnedBy
    <2>3. map \in Maps(Overheads)
      BY <1>2, <2>2, MapSetType
    <2>4. a \in OverheadIgpData
      <3>. HIDE DEF r, map
      <3>. QED
        BY <1>2, <2>2, <2>3 DEF OverheadIgpData
    <2>. HIDE DEF a
    <2>. QED
      BY <1>3, <2>2, <2>4, OverheadKeepsInv
  <1>. QED
    BY <1>4, <1>5, <1>6

(* A payment adds one account with the next number, and its lamports. *)
LEMMA PayKeepsInv ==
    ASSUME IgpInv, NEW d \in IgpDomains, Pay(d)
    PROVE  IgpInv'
  <1>1. PICK i \in Igps, o \in {<<o>> : o \in OverheadIgps} \cup {<<>>}, u \in PaymentKeys,
             to \in Destinations, gas \in GasAmounts : PayForGas(d, i, o, u, u, to, gas)
    BY DEF Pay
  <1>. DEFINE r == igps[d][i]
              accounts == gasPayments[d]
              n == paymentCount[d]
              amount == GasAmount(d, o, to, gas)
              payment == QuoteGasPayment(r.gas_oracles[to], amount)
              rec == [sequence_number |-> n, igp |-> i, destination_domain |-> to,
                      message_id |-> u, gas_amount |-> amount, payment |-> payment]
              a == [r EXCEPT !.lamports = r.lamports + payment]
  <1>2. /\ n # NoAccount /\ u \notin DOMAIN accounts /\ r # NoAccount
        /\ o # <<>> => overheadIgps[d][o[1]] # NoAccount
        /\ to \in DOMAIN r.gas_oracles
        /\ igps' = [igps EXCEPT ![d][i].lamports = @ + payment]
        /\ gasPayments' = [gasPayments EXCEPT ![d] = MapSet(@, u, <<rec>>)]
        /\ paymentCount' = [paymentCount EXCEPT ![d] = @ + 1]
        /\ UNCHANGED <<overheadIgps, claimed, topUp>>
    BY <1>1 DEF PayForGas, PaymentAccountUnused
  <1>3. /\ r \in IgpData /\ r.lamports \in Nat /\ r.len \in 0..Cardinality(Destinations)
        /\ r.gas_oracles \in Maps(Oracles)
    BY <1>2 DEF IgpInv, IgpTyped, IgpData
  <1>4. r.gas_oracles[to] \in Oracles
    <2>1. PICK S : r.gas_oracles \in [S -> Oracles]
      BY <1>3 DEF Maps
    <2>. HIDE DEF r
    <2>. QED
      BY <1>2, <2>1
  <1>5. amount \in Nat
    <2>1. gas \in Nat /\ Overheads \subseteq Nat
      BY IgpAssumption
    <2>2. CASE o = <<>>
      BY <2>1, <2>2 DEF GasAmount
    <2>3. CASE o # <<>>
      <3>. DEFINE map == overheadIgps[d][o[1]].gas_overheads
      <3>1. o[1] \in OverheadIgps
        BY <2>3
      <3>2. map \in Maps(Overheads)
        BY <1>2, <2>3, <3>1 DEF IgpInv, IgpTyped, OverheadIgpData
      <3>3. PICK S : map \in [S -> Overheads]
        BY <3>2 DEF Maps
      <3>. HIDE DEF map
      <3>4. to \in DOMAIN map => map[to] \in Nat
        BY <2>1, <3>3
      <3>5. amount = gas + (IF to \in DOMAIN map THEN map[to] ELSE 0)
        BY <2>3 DEF GasAmount, map
      <3>. QED
        BY <2>1, <3>4, <3>5
    <2>. QED
      BY <2>2, <2>3
  <1>6. payment \in Nat
    BY <1>4, <1>5, QuoteType
  <1>7. rec.payment = payment /\ rec.igp = i /\ rec.sequence_number = n
    OBVIOUS
  <1>. HIDE DEF payment, amount, rec
  <1>8. n \in Nat /\ paymentCount \in [IgpDomains -> {NoAccount} \cup Nat] /\ NoAccount \notin Nat
    BY <1>2, IgpAssumption DEF IgpInv, PaymentsTyped
  <1>9. /\ paymentCount'[d] = n + 1 /\ paymentCount'[d] # NoAccount
        /\ \A e \in IgpDomains \ {d} : paymentCount'[e] = paymentCount[e]
        /\ paymentCount' \in [IgpDomains -> {NoAccount} \cup Nat]
    BY <1>2, <1>8
  <1>10. /\ DOMAIN gasPayments'[d] = DOMAIN accounts \cup {u}
         /\ gasPayments'[d][u] = rec
         /\ \A v \in DOMAIN accounts : gasPayments'[d][v] = accounts[v]
         /\ \A e \in IgpDomains \ {d} : gasPayments'[e] = gasPayments[e]
         /\ DOMAIN gasPayments' = IgpDomains
    <2>1. DOMAIN gasPayments = IgpDomains
      BY DEF IgpInv, PaymentsTyped
    <2>2. <<rec>> # <<>> /\ <<rec>>[1] = rec
      OBVIOUS
    <2>3. MapSet(accounts, u, <<rec>>) =
            [k \in DOMAIN accounts \cup {u} |-> IF k = u THEN rec ELSE accounts[k]]
      BY <2>2 DEF MapSet
    <2>4. gasPayments'[d] = MapSet(accounts, u, <<rec>>) /\ DOMAIN gasPayments' = IgpDomains
          /\ \A e \in IgpDomains \ {d} : gasPayments'[e] = gasPayments[e]
      BY <1>2, <2>1
    <2>. QED
      BY <1>2, <2>3, <2>4
  <1>11. PaymentsTyped'
    <2>1. IsFiniteSet(DOMAIN gasPayments'[d])
      BY <1>10, FS_AddElement DEF IgpInv, PaymentsTyped
    <2>2. \A v \in DOMAIN gasPayments'[d] : gasPayments'[d][v].payment \in Nat
      BY <1>6, <1>7, <1>10 DEF IgpInv, PaymentsTyped
    <2>. QED
      BY <1>9, <1>10, <2>1, <2>2 DEF IgpInv, PaymentsTyped
  <1>12. PaymentIndexExact'
    <2>. SUFFICES ASSUME NEW e \in IgpDomains
                  PROVE  LET count == IF paymentCount'[e] = NoAccount THEN 0
                                      ELSE paymentCount'[e]
                         IN  /\ {gasPayments'[e][v].sequence_number : v \in DOMAIN gasPayments'[e]}
                                    = 0..(count - 1)
                             /\ Cardinality(DOMAIN gasPayments'[e]) = count
      BY DEF PaymentIndexExact
    <2>1. CASE e # d
      BY <1>9, <1>10, <2>1 DEF IgpInv, PaymentIndexExact
    <2>2. CASE e = d
      <3>. DEFINE D == DOMAIN accounts
      <3>1. /\ {accounts[v].sequence_number : v \in D} = 0..(n - 1)
            /\ Cardinality(D) = n
        BY <1>2 DEF IgpInv, PaymentIndexExact
      <3>2. Cardinality(D \cup {u}) = n + 1
        <4>1. IsFiniteSet(D)
          BY DEF IgpInv, PaymentsTyped
        <4>2. Cardinality(D \cup {u}) = IF u \in D THEN Cardinality(D) ELSE Cardinality(D) + 1
          BY <4>1, FS_AddElement
        <4>. QED
          BY <1>2, <3>1, <4>2
      <3>3. {gasPayments'[d][v].sequence_number : v \in D \cup {u}}
                = {accounts[v].sequence_number : v \in D} \cup {n}
        BY <1>7, <1>10
      <3>4. 0..(n - 1) \cup {n} = 0..((n + 1) - 1)
        BY <1>8
      <3>. DEFINE count == IF paymentCount'[d] = NoAccount THEN 0 ELSE paymentCount'[d]
                  numbers == {gasPayments'[d][v].sequence_number : v \in DOMAIN gasPayments'[d]}
      <3>5. count = n + 1
        BY <1>9
      <3>6. numbers = 0..((n + 1) - 1)
        BY <1>10, <3>1, <3>3, <3>4
      <3>7. Cardinality(DOMAIN gasPayments'[d]) = n + 1
        BY <1>10, <3>2
      <3>. HIDE DEF count, numbers
      <3>8. numbers = 0..(count - 1) /\ Cardinality(DOMAIN gasPayments'[d]) = count
        BY <3>5, <3>6, <3>7
      <3>. QED
        BY <2>2, <3>8 DEF count, numbers
    <2>. QED
      BY <2>1, <2>2
  <1>13. igps' = [igps EXCEPT ![d][i] = a] /\ igps \in [IgpDomains -> [Igps -> {NoAccount} \cup IgpData]]
    BY <1>2 DEF IgpInv, IgpTyped
  <1>14. a \in IgpData /\ a.lamports = r.lamports + payment /\ a.len = r.len /\ a # NoAccount
    <2>1. a \in IgpData /\ a.lamports = r.lamports + payment /\ a.len = r.len
      <3>. HIDE DEF r
      <3>. QED
        BY <1>3, <1>6 DEF IgpData
    <2>. QED
      BY <2>1, IgpAssumption
  <1>. HIDE DEF a
  <1>15. IgpTyped'
    <2>1. igps' \in [IgpDomains -> [Igps -> {NoAccount} \cup IgpData]]
      BY <1>13, <1>14
    <2>. QED
      BY <1>2, <2>1 DEF IgpInv, IgpTyped
  <1>16. igps'[d][i] = a /\ \A e \in IgpDomains, j \in Igps : e # d \/ j # i => igps'[e][j] = igps[e][j]
    BY <1>13
  <1>17. AccountOk(d, i)'
    <2>. DEFINE Keys == PaidTo(d, i)
                P == TotalPaid(d, i)
    <2>1. PaidTo(d, i)' = Keys \cup {u} /\ u \notin Keys
      <3>1. PaidTo(d, i)' = {v \in DOMAIN gasPayments'[d] : gasPayments'[d][v].igp = i}
        BY DEF PaidTo
      <3>. QED
        BY <1>2, <1>7, <1>10, <3>1 DEF PaidTo
    <2>2. IsFiniteSet(Keys) /\ P \in Int
      BY TotalPaidType DEF IgpInv
    <2>3. \A v \in Keys : /\ accounts[v].payment \in Int
                          /\ accounts[v].payment = gasPayments'[d][v].payment
      BY <1>10 DEF PaidTo, IgpInv, PaymentsTyped
    <2>4. gasPayments'[d][u].payment \in Int /\ gasPayments'[d][u].payment = payment
      BY <1>6, <1>7, <1>10
    <2>5. TotalPaid(d, i)' = P + payment
      <3>. DEFINE others == gasPayments'[d]
                  F == Payments(accounts, Keys)
                  G == Payments(others, Keys \cup {u})
      <3>1. u \notin Keys /\ IsFiniteSet(Keys)
        BY <2>1, <2>2
      <3>2. \A v \in Keys : F[v] = G[v]
        BY <2>3 DEF Payments
      <3>3. G[u] = payment /\ \A v \in Keys \cup {u} : G[v] \in Int
        BY <2>3, <2>4 DEF Payments
      <3>4. P = Total(F, Keys) /\ TotalPaid(d, i)' = Total(G, Keys \cup {u})
        BY <2>1, UnfoldTotalPaid, UnfoldTotalPaidNext
      <3>. HIDE DEF Keys, F, G, P
      <3>5. OneMore(F, Keys, G, u)
        BY <3>1, <3>2, <3>3 DEF OneMore
      <3>. QED
        BY <3>3, <3>4, <3>5, TotalAdd
    <2>7. /\ r.lamports >= Rent(r.len) /\ Rent(r.len) \in Nat
          /\ r.lamports + claimed[d][i] = topUp[d][i] + P
          /\ claimed[d][i] \in Nat /\ topUp[d][i] \in Nat
      BY <1>2, <1>3, RentType DEF IgpInv, IgpTyped, AccountsOk, AccountOk
    <2>. HIDE DEF P, r
    <2>8. a.lamports >= Rent(a.len) /\ a.lamports + claimed[d][i] = topUp[d][i] + (P + payment)
      <3>. DEFINE l == r.lamports
                  c == claimed[d][i]
                  t == topUp[d][i]
                  rent == Rent(r.len)
      <3>1. /\ l \in Int /\ c \in Int /\ t \in Int /\ P \in Int /\ payment \in Nat
            /\ rent \in Int /\ l >= rent /\ l + c = t + P
        BY <1>3, <1>6, <2>2, <2>7
      <3>2. a.lamports = l + payment /\ Rent(a.len) = rent
        BY <1>14
      <3>. HIDE DEF l, c, t, rent
      <3>3. a.lamports >= Rent(a.len) /\ a.lamports + c = t + (P + payment)
        BY <3>1, <3>2
      <3>. QED
        BY <3>3 DEF c, t
    <2>. QED
      BY <1>2, <1>14, <1>16, <2>5, <2>8 DEF AccountOk
  <1>18. ASSUME NEW e \in IgpDomains, NEW j \in Igps, e # d \/ j # i PROVE AccountOk(e, j)'
    <2>1. PaidTo(e, j)' = PaidTo(e, j)
      <3>1. PaidTo(e, j)' = {v \in DOMAIN gasPayments'[e] : gasPayments'[e][v].igp = j}
        BY DEF PaidTo
      <3>2. CASE e # d
        BY <1>10, <3>1, <3>2 DEF PaidTo
      <3>3. CASE e = d
        BY <1>2, <1>7, <1>10, <1>18, <3>1, <3>3 DEF PaidTo
      <3>. QED
        BY <3>2, <3>3
    <2>. DEFINE Keys == PaidTo(e, j)
    <2>2. IsFiniteSet(Keys)
      BY TotalPaidType DEF IgpInv
    <2>3. \A v \in Keys : gasPayments[e][v].payment = gasPayments'[e][v].payment
      BY <1>10 DEF PaidTo
    <2>4. TotalPaid(e, j)' = TotalPaid(e, j)
      <3>. DEFINE F == Payments(gasPayments[e], Keys)
                  G == Payments(gasPayments'[e], Keys)
      <3>1. \A v \in Keys : F[v] = G[v]
        BY <2>3 DEF Payments
      <3>2. TotalPaid(e, j) = Total(F, Keys) /\ TotalPaid(e, j)' = Total(G, Keys)
        BY <2>1, UnfoldTotalPaid, UnfoldTotalPaidNext
      <3>. HIDE DEF Keys, F, G
      <3>. QED
        BY <2>2, <3>1, <3>2, TotalAgree
    <2>5. igps'[e][j] = igps[e][j] /\ claimed' = claimed /\ topUp' = topUp
      BY <1>2, <1>16, <1>18
    <2>6. AccountOk(e, j)
      BY DEF IgpInv, AccountsOk
    <2>. QED
      BY <2>1, <2>4, <2>5, <2>6 DEF AccountOk
  <1>19. AccountsOk'
    BY <1>17, <1>18 DEF AccountsOk
  <1>. QED
    BY <1>11, <1>12, <1>15, <1>19 DEF IgpInv

LEMMA IgpInitInv == IgpInit => IgpInv
  <1>. SUFFICES ASSUME IgpInit PROVE IgpInv
    OBVIOUS
  <1>1. IgpTyped
    BY DEF IgpInit, IgpTyped
  <1>2. \A d \in IgpDomains : gasPayments[d] = <<>> /\ paymentCount[d] = NoAccount
    BY DEF IgpInit
  <1>3. DOMAIN <<>> = {} /\ IsFiniteSet({}) /\ Cardinality({}) = 0
    BY FS_EmptySet
  <1>4. \A d \in IgpDomains : DOMAIN gasPayments[d] = {}
    BY <1>2, <1>3, Zenon
  <1>5. PaymentsTyped
    BY <1>3, <1>4 DEF IgpInit, PaymentsTyped
  <1>6. PaymentIndexExact
    BY <1>2, <1>3, <1>4 DEF PaymentIndexExact
  <1>7. ASSUME NEW d \in IgpDomains, NEW i \in Igps PROVE AccountOk(d, i)
    BY <1>4 DEF IgpInit, AccountOk, PaidTo
  <1>. QED
    BY <1>1, <1>5, <1>6, <1>7 DEF IgpInv, AccountsOk

LEMMA IgpNextKeepsInv ==
    ASSUME IgpInv, [IgpNext]_igpVars
    PROVE  IgpInv'
  <1>1. CASE UNCHANGED igpVars
    <2>1. UNCHANGED <<paymentCount, igps, overheadIgps, gasPayments, claimed, topUp>>
      BY <1>1 DEF igpVars
    <2>2. IgpTyped'
      BY <2>1 DEF IgpInv, IgpTyped
    <2>3. AccountsOk'
      BY <2>1, AccountKept DEF IgpInv, AccountsOk
    <2>. QED
      BY <2>1, <2>2, <2>3, IndexKept DEF IgpInv
  <1>2. ASSUME NEW d \in IgpDomains, IgpAdmin(d) PROVE IgpInv'
    BY <1>2, InitProgramKeepsInv, InitIgpKeepsInv, IgpOwnerKeepsInv, SetGasOracleKeepsInv,
       OverheadStepKeepsInv DEF IgpAdmin
  <1>3. ASSUME NEW d \in IgpDomains, NEW i \in Igps, Claim(d, i) PROVE IgpInv'
    BY <1>3, ClaimKeepsInv
  <1>. QED
    BY <1>1, <1>2, <1>3, PayKeepsInv DEF IgpNext

(* The invariant of the interchain gas paymaster holds for ever. *)
THEOREM IgpInvariant == IgpSpec => []IgpInv
  BY IgpInitInv, IgpNextKeepsInv, PTL DEF IgpSpec

(* Every IGP account is exempt from rent and holds what was paid and       *)
(* deposited and not yet claimed, for any rents, prices and instructions.  *)
THEOREM PaymasterSolvent == IgpSpec => []IgpSolvent
  <1>1. IgpInv => IgpSolvent
    BY DEF IgpInv, AccountsOk, AccountOk, IgpSolvent
  <1>. QED
    BY <1>1, IgpInvariant, PTL

(* What the agents find by counting on a Sealevel chain: the dispatched,   *)
(* processed and paid accounts are numbered 0, 1, 2, ... without a gap or  *)
(* a repetition, and an announcement is taken once.                        *)
THEOREM ProgramsRecordsExact == ProgramsSpec => []RecordsExact
  <1>1. IgpInv => PaymentIndexExact
    BY DEF IgpInv
  <1>2. IgpSpec => []PaymentIndexExact
    BY <1>1, IgpInvariant, PTL
  <1>. QED
    BY <1>2, IndicesExact, AnnouncementsOnce, PTL DEF ProgramsSpec, RecordsExact
=============================================================================
