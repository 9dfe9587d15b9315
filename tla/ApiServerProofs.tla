-------------------------- MODULE ApiServerProofs ---------------------------
(***************************************************************************)
(* OneRootPerIndex, CheckpointsProvable, AnswersAgree and AnswersInOrder   *)
(* for any number of requests, messages, insertions and restarts.  While   *)
(* the process runs the tree only grows, so every copy of it stays a       *)
(* prefix of it: a checkpoint is determined by its index.  What was signed *)
(* and answered in earlier lives is no longer a prefix of anything; that   *)
(* it agrees with itself is carried along.                                 *)
(*                                                                         *)
(* AgentsSound for any number of agents that share a destination, any      *)
(* messages, ISMs, lists and policies, and any number of requests, reorgs, *)
(* restarts and lost outcomes.                                             *)
(***************************************************************************)
EXTENDS ApiServer, AgentPair, TLAPS

-----------------------------------------------------------------------------
(* The inductive invariant                                                 *)

(* What a request holds: a copy that is a prefix of the tree and has the   *)
(* message in it, and a proof against that copy.                           *)
LocalsFit ==
    \A c \in Clients :
        /\ Prefix(copy[c], tree)
        /\ pc[c] = "read" => \E i \in 1 .. Len(tree) : tree[i] = RequestedMessage(c)
        /\ pc[c] \in {"sign", "proof", "check"} =>
             \E i \in 1 .. Len(copy[c]) : copy[c][i] = RequestedMessage(c)
        /\ pc[c] = "check" => proof[c] = copy[c]

(* Every root signed since the last restart is the prefix of the tree up   *)
(* to its index.                                                           *)
SignedFit ==
    \A s \in signed :
        /\ s.life \in 0 .. life /\ Len(s.root) = s.index + 1
        /\ s.life = life => Prefix(s.root, tree)

(* So is the root of every answer made since, and its leaf is the message. *)
AnswerFits(r) ==
    r.ok => /\ r.life \in 0 .. life /\ Len(r.root) = r.index + 1
            /\ r.root[r.index + 1] = r.message
            /\ r.life = life => Prefix(r.root, tree)

AnswersFit == \A c \in Clients : \A i \in DOMAIN responses[c] : AnswerFits(responses[c][i])

(* The leaf a request works on comes after those its batch was given. *)
LeafAfter(r, c) ==
    r.ok => /\ pc[c] = "filter" => r.index < Len(tree)
            /\ pc[c] = "read" => r.index + 1 < Len(tree)
            /\ pc[c] \in {"sign", "proof", "check"} => r.index < Index(copy[c])

BatchAdvances ==
    \A c \in Clients :
        /\ pc[c] = "idle" => responses[c] = <<>>
        /\ \A i \in DOMAIN responses[c] : LeafAfter(responses[c][i], c)

IInv ==
    /\ ApiTypeOK /\ LocalsFit
    /\ SignedFit /\ CheckpointCoversMessage /\ OneRootPerIndex
    /\ AnswersFit /\ BatchAdvances /\ AnswersAgree

-----------------------------------------------------------------------------
(* Lemmas on sequences                                                     *)

(* Appending a leaf keeps every leaf where it is. *)
LEMMA AppendLeaf ==
    ASSUME NEW S, NEW s \in Seq(S), NEW e \in S
    PROVE  /\ Append(s, e) \in Seq(S) /\ Len(Append(s, e)) = Len(s) + 1
           /\ \A i \in 1 .. Len(s) : Append(s, e)[i] = s[i]
           /\ Append(s, e)[Len(s) + 1] = e
  OBVIOUS

(* A prefix of the tree is a prefix of the tree with one more leaf. *)
LEMMA PrefixOfAppend ==
    ASSUME NEW S, NEW s \in Seq(S), NEW t \in Seq(S), NEW e \in S, Prefix(s, t)
    PROVE  Prefix(s, Append(t, e))
  <1>1. Len(s) \in Nat /\ Len(t) \in Nat
    OBVIOUS
  <1>. QED
    BY <1>1, AppendLeaf DEF Prefix

(* Two prefixes of one sequence that have one length are equal. *)
LEMMA PrefixUnique ==
    ASSUME NEW S, NEW r \in Seq(S), NEW s \in Seq(S), NEW t \in Seq(S),
           Prefix(r, t), Prefix(s, t), Len(r) = Len(s)
    PROVE  r = s
  <1>1. \A i \in 1 .. Len(r) : r[i] = s[i]
    BY DEF Prefix
  <1>. QED
    BY <1>1

(* A prefix is what SubSeq cuts off at its length. *)
LEMMA PrefixIsSubSeq ==
    ASSUME NEW S, NEW s \in Seq(S), NEW t \in Seq(S), Prefix(s, t)
    PROVE  SubSeq(t, 1, Len(s)) = s
  <1>1. /\ SubSeq(t, 1, Len(s)) \in Seq(S)
        /\ Len(SubSeq(t, 1, Len(s))) = Len(s)
        /\ \A i \in 1 .. Len(s) : SubSeq(t, 1, Len(s))[i] = t[i]
    BY DEF Prefix
  <1>. QED
    BY <1>1 DEF Prefix

-----------------------------------------------------------------------------
(* Type correctness                                                        *)

(* The message a request works on is one of the messages. *)
LEMMA MessageType ==
    ASSUME ApiTypeOK, NEW c \in Clients
    PROVE  RequestedMessage(c) \in Messages
  BY ApiServerAssumption DEF ApiTypeOK, RequestedMessage

(* Responding keeps the types of what it changes. *)
LEMMA RespondType ==
    ASSUME ApiTypeOK, NEW c \in Clients, NEW r \in Response, Respond(c, r)
    PROVE  /\ responses' \in [Clients -> Seq(Response)]
           /\ pc' \in [Clients -> PC] /\ pos' \in [Clients -> Nat]
           /\ \A d \in Clients : pos'[d] \in 1 .. Len(Batch[d])
           /\ copy' \in [Clients -> Seq(Messages)]
           /\ proof' \in [Clients -> Seq(Messages)]
  <1>1. responses' \in [Clients -> Seq(Response)]
    <2>1. responses[c] \in Seq(Response)
      BY DEF ApiTypeOK
    <2>2. Append(responses[c], r) \in Seq(Response)
      BY <2>1
    <2>. QED
      BY <2>2 DEF Respond, ApiTypeOK
  <1>2. copy' \in [Clients -> Seq(Messages)] /\ proof' \in [Clients -> Seq(Messages)]
    BY DEF Respond, ApiTypeOK
  <1>3. pc' \in [Clients -> PC]
    BY DEF Respond, ApiTypeOK, PC
  <1>4. pos' \in [Clients -> Nat] /\ \A d \in Clients : pos'[d] \in 1 .. Len(Batch[d])
    <2>1. Len(Batch[c]) \in Nat
      BY ApiServerAssumption
    <2>2. CASE pos[c] = Len(Batch[c])
      BY <2>2 DEF Respond, ApiTypeOK
    <2>3. CASE pos[c] # Len(Batch[c])
      <3>1. pos[c] \in Nat /\ pos[c] + 1 \in 1 .. Len(Batch[c])
        BY <2>1, <2>3 DEF ApiTypeOK
      <3>2. pos' = [pos EXCEPT ![c] = pos[c] + 1]
        BY <2>3 DEF Respond
      <3>3. pos' \in [Clients -> Nat]
        BY <3>1, <3>2 DEF ApiTypeOK
      <3>4. \A d \in Clients : pos'[d] = IF d = c THEN pos[c] + 1 ELSE pos[d]
        BY <3>2 DEF ApiTypeOK
      <3>. QED
        BY <3>1, <3>3, <3>4 DEF ApiTypeOK
    <2>. QED
      BY <2>2, <2>3
  <1>. QED
    BY <1>1, <1>2, <1>3, <1>4

(* Every step keeps the types. *)
LEMMA TypeStep ==
    ASSUME ApiTypeOK, LocalsFit, [ApiNext]_apiVars
    PROVE  ApiTypeOK'
  <1>1. ASSUME NEW c \in Clients, Arrive(c) PROVE ApiTypeOK'
    BY <1>1 DEF Arrive, ApiTypeOK, PC
  <1>2. ASSUME NEW c \in Clients, Filter(c) PROVE ApiTypeOK'
    <2>1. Error \in Response
      BY DEF Response
    <2>. QED
      BY <1>2, <2>1, RespondType DEF Filter, ApiTypeOK
  <1>3. ASSUME NEW c \in Clients, Ingest(c) PROVE ApiTypeOK'
    <2>1. tree' \in Seq(Messages)
      BY <1>3, MessageType DEF Ingest, ApiTypeOK
    <2>2. pc' \in [Clients -> PC]
      BY <1>3 DEF Ingest, ApiTypeOK, PC
    <2>. QED
      BY <1>3, <2>1, <2>2 DEF Ingest, ApiTypeOK
  <1>4. ASSUME NEW c \in Clients, Read(c) PROVE ApiTypeOK'
    BY <1>4 DEF Read, ApiTypeOK, PC
  <1>5. ASSUME NEW c \in Clients, Sign(c) PROVE ApiTypeOK'
    <2>1. copy[c] \in Seq(Messages) /\ Index(copy[c]) \in Nat
      BY <1>5 DEF Sign, ApiTypeOK, PC, LocalsFit, Index
    <2>. QED
      <3>1. signed' \subseteq
              [life : Nat, root : Seq(Messages), index : Nat, message : Messages]
        BY <1>5, <2>1, MessageType DEF Sign, ApiTypeOK, Checkpoint
      <3>2. pc' \in [Clients -> PC]
        BY <1>5 DEF Sign, ApiTypeOK, PC
      <3>. QED
        BY <1>5, <3>1, <3>2 DEF Sign, ApiTypeOK
  <1>6. ASSUME NEW c \in Clients, SignError(c) PROVE ApiTypeOK'
    <2>1. Error \in Response
      BY DEF Response
    <2>. QED
      BY <1>6, <2>1, RespondType DEF SignError, ApiTypeOK
  <1>7. ASSUME NEW c \in Clients, Prove(c) PROVE ApiTypeOK'
    <2>1. SubSeq(tree, 1, Index(copy[c]) + 1) \in Seq(Messages)
      BY <1>7 DEF Prove, ApiTypeOK, PC, Index
    <2>. QED
      BY <1>7, <2>1 DEF Prove, ApiTypeOK, PC, ProveAgainstPrevious
  <1>8. ASSUME NEW c \in Clients, Panic(c) PROVE ApiTypeOK'
    BY <1>8 DEF Panic, ApiTypeOK, PC
  <1>9. ASSUME NEW c \in Clients, Reject(c) PROVE ApiTypeOK'
    <2>1. Error \in Response
      BY DEF Response
    <2>. QED
      BY <1>9, <2>1, RespondType DEF Reject, ApiTypeOK
  <1>10. ASSUME NEW c \in Clients, Accept(c) PROVE ApiTypeOK'
    <2>1. copy[c] \in Seq(Messages) /\ Index(copy[c]) \in Nat /\ proof[c] \in Seq(Messages)
      BY <1>10 DEF Accept, ApiTypeOK, LocalsFit, Index
    <2>2. Okay(RequestedMessage(c), Index(copy[c]), proof[c], copy[c]) \in Response
      BY <2>1, MessageType DEF Okay, Response, ApiTypeOK
    <2>. QED
      BY <1>10, <2>2, RespondType DEF Accept, ApiTypeOK
  <1>11. ASSUME NEW m \in Messages, Insert(m) PROVE ApiTypeOK'
    BY <1>11 DEF Insert, ApiTypeOK, request
  <1>12. CASE Tick
    BY <1>12 DEF Tick, ApiTypeOK, request
  <1>13. CASE RestartServer
    BY <1>13 DEF RestartServer, ApiTypeOK, PC
  <1>14. CASE UNCHANGED apiVars
    BY <1>14 DEF apiVars, request, ApiTypeOK
  <1>. QED
    BY <1>1, <1>2, <1>3, <1>4, <1>5, <1>6, <1>7, <1>8, <1>9, <1>10, <1>11, <1>12, <1>13, <1>14
       DEF ApiNext, Serve

-----------------------------------------------------------------------------
(* The other parts of the invariant                                        *)

(* A leaf is added: what was a prefix of the tree stays one. *)
LEMMA LeafAdded ==
    ASSUME ApiTypeOK, LocalsFit, NEW e \in Messages, tree' = Append(tree, e)
    PROVE  /\ \A c \in Clients : Prefix(copy[c], tree')
           /\ \A r \in Seq(Messages) : Prefix(r, tree) => Prefix(r, tree')
           /\ \A c \in Clients : pc[c] = "read" =>
                \E i \in 1 .. Len(tree') : tree'[i] = RequestedMessage(c)
           /\ \E i \in 1 .. Len(tree') : tree'[i] = e
           /\ Len(tree) \in Nat /\ Len(tree') = Len(tree) + 1
  <1>1. \A r \in Seq(Messages) : Prefix(r, tree) => Prefix(r, tree')
    BY PrefixOfAppend DEF ApiTypeOK
  <1>2. \A c \in Clients : Prefix(copy[c], tree')
    BY <1>1 DEF ApiTypeOK, LocalsFit
  <1>3. /\ Len(tree) \in Nat /\ Len(tree') = Len(tree) + 1
        /\ \A i \in 1 .. Len(tree) : tree'[i] = tree[i]
        /\ tree'[Len(tree) + 1] = e
    BY AppendLeaf DEF ApiTypeOK
  <1>4. \A c \in Clients : pc[c] = "read" =>
          \E i \in 1 .. Len(tree') : tree'[i] = RequestedMessage(c)
    BY <1>3 DEF LocalsFit
  <1>5. \E i \in 1 .. Len(tree') : tree'[i] = e
    BY <1>3
  <1>. QED
    BY <1>1, <1>2, <1>3, <1>4, <1>5

(* A request that ends its message has no copy left. *)
LEMMA RespondLocals ==
    ASSUME ApiTypeOK, LocalsFit, NEW c \in Clients, NEW r, Respond(c, r), UNCHANGED tree
    PROVE  LocalsFit'
  <1>1. \A d \in Clients \ {c} : /\ copy'[d] = copy[d] /\ proof'[d] = proof[d]
                                 /\ pc'[d] = pc[d] /\ pos'[d] = pos[d]
    BY DEF Respond, ApiTypeOK
  <1>2. copy'[c] = <<>> /\ pc'[c] \in {"done", "filter"}
    BY DEF Respond, ApiTypeOK
  <1>3. Prefix(<<>>, tree)
    BY DEF ApiTypeOK, Prefix
  <1>4. \A d \in Clients : Prefix(copy'[d], tree')
    BY <1>1, <1>2, <1>3 DEF LocalsFit
  <1>5. \A d \in Clients : pc'[d] = "read" =>
          \E i \in 1 .. Len(tree') : tree'[i] = RequestedMessage(d)'
    BY <1>1, <1>2 DEF LocalsFit, RequestedMessage
  <1>6. \A d \in Clients : pc'[d] \in {"sign", "proof", "check"} =>
          \E i \in 1 .. Len(copy'[d]) : copy'[d][i] = RequestedMessage(d)'
    BY <1>1, <1>2 DEF LocalsFit, RequestedMessage
  <1>7. \A d \in Clients : pc'[d] = "check" => proof'[d] = copy'[d]
    BY <1>1, <1>2 DEF LocalsFit
  <1>. QED
    BY <1>4, <1>5, <1>6, <1>7 DEF LocalsFit

(* Every step keeps what requests hold in line with the tree. *)
LEMMA LocalsStep ==
    ASSUME ApiTypeOK, ApiTypeOK', LocalsFit, [ApiNext]_apiVars
    PROVE  LocalsFit'
  <1>1. ASSUME NEW c \in Clients, Arrive(c) PROVE LocalsFit'
    BY <1>1 DEF Arrive, ApiTypeOK, LocalsFit, RequestedMessage
  <1>2. ASSUME NEW c \in Clients, Filter(c) PROVE LocalsFit'
    BY <1>2, RespondLocals DEF Filter
  <1>3. ASSUME NEW c \in Clients, Ingest(c) PROVE LocalsFit'
    <2>1. RequestedMessage(c) \in Messages
      BY MessageType
    <2>2. pc' = [pc EXCEPT ![c] = "read"] /\ UNCHANGED <<pos, copy, proof>>
      BY <1>3 DEF Ingest
    <2>3. tree' = Append(tree, RequestedMessage(c))
      BY <1>3 DEF Ingest
    <2>4. /\ \A d \in Clients : Prefix(copy[d], tree')
          /\ \A d \in Clients : pc[d] = "read" =>
               \E i \in 1 .. Len(tree') : tree'[i] = RequestedMessage(d)
          /\ \E i \in 1 .. Len(tree') : tree'[i] = RequestedMessage(c)
      BY <2>1, <2>3, LeafAdded
    <2>5. \A d \in Clients : pc'[d] = IF d = c THEN "read" ELSE pc[d]
      BY <2>2 DEF ApiTypeOK
    <2>. QED
      BY <2>2, <2>4, <2>5 DEF LocalsFit, RequestedMessage
  <1>4. ASSUME NEW c \in Clients, Read(c) PROVE LocalsFit'
    <2>1. Prefix(tree, tree)
      BY DEF ApiTypeOK, Prefix
    <2>. QED
      BY <1>4, <2>1 DEF Read, ApiTypeOK, LocalsFit, RequestedMessage
  <1>5. ASSUME NEW c \in Clients, Sign(c) PROVE LocalsFit'
    BY <1>5 DEF Sign, ApiTypeOK, LocalsFit, RequestedMessage
  <1>6. ASSUME NEW c \in Clients, SignError(c) PROVE LocalsFit'
    BY <1>6, RespondLocals DEF SignError
  <1>7. ASSUME NEW c \in Clients, Prove(c) PROVE LocalsFit'
    <2>1. copy[c] \in Seq(Messages) /\ Prefix(copy[c], tree) /\ Index(copy[c]) + 1 = Len(copy[c])
      BY DEF ApiTypeOK, LocalsFit, Index
    <2>2. ProveAgainstPrevious(Index(copy[c])) = copy[c]
      BY <2>1, PrefixIsSubSeq DEF ProveAgainstPrevious, ApiTypeOK
    <2>. QED
      BY <1>7, <2>2 DEF Prove, ApiTypeOK, LocalsFit, RequestedMessage
  <1>8. ASSUME NEW c \in Clients, Panic(c) PROVE LocalsFit'
    <2>1. Prefix(<<>>, tree)
      BY DEF ApiTypeOK, Prefix
    <2>. QED
      BY <1>8, <2>1 DEF Panic, ApiTypeOK, LocalsFit, RequestedMessage
  <1>9. ASSUME NEW c \in Clients, Reject(c) PROVE LocalsFit'
    BY <1>9, RespondLocals DEF Reject
  <1>10. ASSUME NEW c \in Clients, Accept(c) PROVE LocalsFit'
    BY <1>10, RespondLocals DEF Accept
  <1>11. ASSUME NEW m \in Messages, Insert(m) PROVE LocalsFit'
    BY <1>11 DEF Insert, request, LocalsFit, RequestedMessage
  <1>12. CASE Tick
    <2>1. inserted[leaf_index + 1] \in Messages
      BY <1>12 DEF Tick, ApiTypeOK
    <2>. QED
      BY <1>12, <2>1, LeafAdded DEF Tick, request, LocalsFit, RequestedMessage
  <1>13. CASE RestartServer
    <2>1. Prefix(<<>>, <<>>)
      BY DEF Prefix
    <2>2. /\ tree' = <<>> /\ copy' = [c \in Clients |-> <<>>]
          /\ \A c \in Clients : pc'[c] \in {"idle", "done", "dropped"}
      BY <1>13 DEF RestartServer
    <2>. QED
      BY <2>1, <2>2 DEF LocalsFit
  <1>14. CASE UNCHANGED apiVars
    BY <1>14 DEF apiVars, request, LocalsFit, RequestedMessage
  <1>. QED
    BY <1>1, <1>2, <1>3, <1>4, <1>5, <1>6, <1>7, <1>8, <1>9, <1>10, <1>11, <1>12, <1>13, <1>14
       DEF ApiNext, Serve

(* What fits the tree fits it with one more leaf. *)
LEMMA SignedGrows ==
    ASSUME ApiTypeOK, LocalsFit, SignedFit, NEW e \in Messages, tree' = Append(tree, e),
           UNCHANGED <<signed, life>>
    PROVE  SignedFit'
  <1>1. \A s \in signed : s.root \in Seq(Messages)
    BY DEF ApiTypeOK
  <1>2. \A s \in signed : s.life = life => Prefix(s.root, tree')
    BY <1>1, LeafAdded DEF SignedFit
  <1>. QED
    BY <1>2 DEF SignedFit

(* Every step signs only prefixes of the tree. *)
LEMMA SignedStep ==
    ASSUME ApiTypeOK, LocalsFit, SignedFit, [ApiNext]_apiVars
    PROVE  SignedFit'
  <1>1. ASSUME NEW c \in Clients, Ingest(c) PROVE SignedFit'
    BY <1>1, MessageType, SignedGrows DEF Ingest
  <1>2. ASSUME NEW c \in Clients, Sign(c) PROVE SignedFit'
    <2>. DEFINE new == Checkpoint(copy[c], Index(copy[c]), RequestedMessage(c))
    <2>1. /\ Prefix(new.root, tree) /\ Len(new.root) = new.index + 1
          /\ new.life \in 0 .. life
      BY DEF ApiTypeOK, LocalsFit, Index, Checkpoint
    <2>2. signed' = signed \cup {new} /\ UNCHANGED <<tree, life>>
      BY <1>2 DEF Sign
    <2>. HIDE DEF new
    <2>. QED
      BY <2>1, <2>2 DEF SignedFit
  <1>3. CASE Tick
    <2>1. inserted[leaf_index + 1] \in Messages
      BY <1>3 DEF Tick, ApiTypeOK
    <2>. QED
      BY <1>3, <2>1, SignedGrows DEF Tick
  <1>4. CASE RestartServer
    BY <1>4 DEF RestartServer, SignedFit, ApiTypeOK
  <1>5. CASE UNCHANGED <<tree, signed, life>>
    BY <1>5 DEF SignedFit
  <1>. QED
    BY <1>1, <1>2, <1>3, <1>4, <1>5
       DEF ApiNext, Serve, Arrive, Filter, Read, SignError, Prove, Panic, Reject, Accept,
           Insert, apiVars

(* Every step signs one root for an index: those of earlier lives are what *)
(* they were, and two of the present life are prefixes of one tree.        *)
LEMMA OneRootStep ==
    ASSUME ApiTypeOK, ApiTypeOK', SignedFit, SignedFit', OneRootPerIndex, [ApiNext]_apiVars
    PROVE  OneRootPerIndex'
  <1>1. \A s \in signed' : s.life # life' => s \in signed
    <2>1. ASSUME NEW c \in Clients, Sign(c)
          PROVE  \A s \in signed' : s.life # life' => s \in signed
      BY <2>1 DEF Sign, Checkpoint
    <2>2. CASE UNCHANGED signed
      BY <2>2
    <2>. QED
      BY <2>1, <2>2
         DEF ApiNext, Serve, Arrive, Filter, Ingest, Read, SignError, Prove, Panic, Reject,
             Accept, Insert, Tick, RestartServer, apiVars
  <1>. SUFFICES ASSUME NEW s \in signed', NEW t \in signed', s.life = t.life, s.index = t.index
                PROVE  s.root = t.root
    BY DEF OneRootPerIndex
  <1>2. CASE s.life = life'
    <2>1. s.root \in Seq(Messages) /\ t.root \in Seq(Messages) /\ tree' \in Seq(Messages)
      BY DEF ApiTypeOK
    <2>2. Prefix(s.root, tree') /\ Prefix(t.root, tree') /\ Len(s.root) = Len(t.root)
      BY <1>2 DEF SignedFit
    <2>. QED
      BY <2>1, <2>2, PrefixUnique
  <1>3. CASE s.life # life'
    BY <1>1, <1>3 DEF OneRootPerIndex
  <1>. QED
    BY <1>2, <1>3

(* Every step signs only checkpoints that hold their message. *)
LEMMA CoversStep ==
    ASSUME ApiTypeOK, LocalsFit, CheckpointCoversMessage, [ApiNext]_apiVars
    PROVE  CheckpointCoversMessage'
  <1>1. ASSUME NEW c \in Clients, Sign(c) PROVE CheckpointCoversMessage'
    <2>. DEFINE new == Checkpoint(copy[c], Index(copy[c]), RequestedMessage(c))
    <2>1. \E i \in 1 .. Len(copy[c]) : copy[c][i] = RequestedMessage(c)
      BY <1>1 DEF Sign, LocalsFit
    <2>2. \E i \in 1 .. new.index + 1 : new.root[i] = new.message
      BY <2>1 DEF ApiTypeOK, Index, Checkpoint
    <2>3. signed' = signed \cup {new}
      BY <1>1 DEF Sign
    <2>. QED
      BY <2>2, <2>3 DEF CheckpointCoversMessage
  <1>2. CASE UNCHANGED signed
    BY <1>2 DEF CheckpointCoversMessage
  <1>. QED
    BY <1>1, <1>2
       DEF ApiNext, Serve, Arrive, Filter, Ingest, Read, SignError, Prove, Panic, Reject,
           Accept, Insert, Tick, RestartServer, apiVars, request

(* What a step that adds the answer r to those of c leaves of the others. *)
LEMMA ResponseAdded ==
    ASSUME ApiTypeOK, NEW c \in Clients, NEW r \in Response, Respond(c, r)
    PROVE  /\ Len(responses[c]) \in Nat
           /\ DOMAIN responses[c] = 1 .. Len(responses[c])
           /\ DOMAIN responses'[c] = 1 .. Len(responses[c]) + 1
           /\ \A i \in DOMAIN responses[c] : responses'[c][i] = responses[c][i]
           /\ responses'[c][Len(responses[c]) + 1] = r
           /\ \A d \in Clients \ {c} : responses'[d] = responses[d]
  <1>1. responses[c] \in Seq(Response)
    BY DEF ApiTypeOK
  <1>2. /\ responses'[c] = Append(responses[c], r)
        /\ \A d \in Clients \ {c} : responses'[d] = responses[d]
    BY DEF Respond, ApiTypeOK
  <1>3. /\ Append(responses[c], r) \in Seq(Response)
        /\ Len(Append(responses[c], r)) = Len(responses[c]) + 1
        /\ \A i \in 1 .. Len(responses[c]) : Append(responses[c], r)[i] = responses[c][i]
        /\ Append(responses[c], r)[Len(responses[c]) + 1] = r
    BY <1>1, AppendLeaf
  <1>. QED
    BY <1>1, <1>2, <1>3

(* What Accept answers: a prefix of the tree with the message at its end.  *)
LEMMA AcceptedAnswer ==
    ASSUME ApiTypeOK, LocalsFit, NEW c \in Clients, Accept(c)
    PROVE  \E r \in Response :
             /\ Respond(c, r) /\ r.ok /\ r.life = life
             /\ r.index = Index(copy[c]) /\ r.root = copy[c]
             /\ r.message = RequestedMessage(c)
             /\ Index(copy[c]) \in Nat /\ copy[c][Index(copy[c]) + 1] = RequestedMessage(c)
  <1>. DEFINE r == Okay(RequestedMessage(c), Index(copy[c]), proof[c], copy[c])
  <1>1. /\ copy[c] \in Seq(Messages) /\ proof[c] = copy[c]
        /\ Index(copy[c]) \in Nat /\ Index(copy[c]) + 1 \in DOMAIN copy[c]
    BY DEF Accept, ApiTypeOK, LocalsFit, Index
  <1>2. r \in Response
    BY <1>1, MessageType DEF Okay, Response, ApiTypeOK
  <1>3. copy[c][Index(copy[c]) + 1] = RequestedMessage(c)
    <2>1. Verifies(RequestedMessage(c), Index(copy[c]), proof[c], copy[c])
      BY DEF Accept
    <2>. QED
      BY <1>1, <2>1 DEF Verifies
  <1>4. Respond(c, r)
    BY DEF Accept
  <1>5. /\ r.ok /\ r.life = life /\ r.index = Index(copy[c])
        /\ r.root = copy[c] /\ r.message = RequestedMessage(c)
    BY DEF Okay
  <1>. HIDE DEF r
  <1>. QED
    BY <1>1, <1>2, <1>3, <1>4, <1>5

(* An answer without an error has an index and a root. *)
LEMMA OkType ==
    ASSUME NEW r \in Response, r.ok
    PROVE  r.index \in Nat /\ r.root \in Seq(Messages)
  <1>1. r # Error
    BY DEF Error
  <1>2. r \in [ok : {TRUE}, life : Nat, message : Messages, index : Nat,
              proof : Seq(Messages), root : Seq(Messages)]
    BY <1>1 DEF Response
  <1>. QED
    BY <1>2

(* A leaf added to the tree leaves the answers in line with it. *)
LEMMA AnswersGrow ==
    ASSUME ApiTypeOK, LocalsFit, AnswersFit, NEW e \in Messages, tree' = Append(tree, e),
           UNCHANGED <<responses, life>>
    PROVE  AnswersFit'
  <1>. SUFFICES ASSUME NEW c \in Clients, NEW i \in DOMAIN responses[c], responses[c][i].ok
                PROVE  AnswerFits(responses[c][i])'
    BY DEF AnswersFit, AnswerFits
  <1>1. responses[c][i].root \in Seq(Messages)
    <2>1. responses[c] \in Seq(Response)
      BY DEF ApiTypeOK
    <2>2. responses[c][i] \in Response
      BY <2>1
    <2>. QED
      BY <2>2, OkType
  <1>2. AnswerFits(responses[c][i])
    BY DEF AnswersFit
  <1>. QED
    BY <1>1, <1>2, LeafAdded DEF AnswerFits

(* An answer that fits the tree is added. *)
LEMMA RespondFits ==
    ASSUME ApiTypeOK, AnswersFit, NEW c \in Clients, NEW r \in Response, Respond(c, r),
           AnswerFits(r), UNCHANGED <<tree, life>>
    PROVE  AnswersFit'
  <1>1. ASSUME NEW d \in Clients, NEW i \in DOMAIN responses'[d]
        PROVE  AnswerFits(responses'[d][i])
    <2>1. CASE d # c
      BY <2>1, ResponseAdded DEF AnswersFit
    <2>2. CASE d = c /\ i \in DOMAIN responses[c]
      BY <2>2, ResponseAdded DEF AnswersFit
    <2>3. CASE d = c /\ i \notin DOMAIN responses[c]
      <3>1. i = Len(responses[c]) + 1
        BY <2>3, ResponseAdded
      <3>. QED
        BY <2>3, <3>1, ResponseAdded
    <2>. QED
      BY <2>1, <2>2, <2>3
  <1>. QED
    BY <1>1 DEF AnswersFit, AnswerFits

(* Every step answers only with prefixes of the tree. *)
LEMMA AnswersStep ==
    ASSUME ApiTypeOK, LocalsFit, AnswersFit, [ApiNext]_apiVars
    PROVE  AnswersFit'
  <1>1. Error \in Response /\ AnswerFits(Error)
    BY DEF Response, Error, AnswerFits
  <1>2. ASSUME NEW c \in Clients, Filter(c) \/ SignError(c) \/ Reject(c) PROVE AnswersFit'
    BY <1>1, <1>2, RespondFits DEF Filter, SignError, Reject
  <1>3. ASSUME NEW c \in Clients, Accept(c) PROVE AnswersFit'
    <2>1. PICK r \in Response :
            /\ Respond(c, r) /\ r.ok /\ r.life = life
            /\ r.index = Index(copy[c]) /\ r.root = copy[c]
            /\ r.message = RequestedMessage(c)
            /\ Index(copy[c]) \in Nat /\ copy[c][Index(copy[c]) + 1] = RequestedMessage(c)
      BY <1>3, AcceptedAnswer
    <2>2. Len(copy[c]) = Index(copy[c]) + 1 /\ Prefix(copy[c], tree) /\ life \in 0 .. life
      BY DEF ApiTypeOK, LocalsFit, Index
    <2>3. AnswerFits(r)
      BY <2>1, <2>2 DEF AnswerFits
    <2>4. UNCHANGED <<tree, life>>
      BY <1>3 DEF Accept
    <2>. QED
      BY <2>1, <2>3, <2>4, RespondFits
  <1>4. ASSUME NEW c \in Clients, Ingest(c) PROVE AnswersFit'
    BY <1>4, MessageType, AnswersGrow DEF Ingest
  <1>5. CASE Tick
    <2>1. inserted[leaf_index + 1] \in Messages
      BY <1>5 DEF Tick, ApiTypeOK
    <2>. QED
      BY <1>5, <2>1, AnswersGrow DEF Tick, request
  <1>6. CASE RestartServer
    <2>1. life \in Nat /\ life' = life + 1 /\ UNCHANGED responses
      BY <1>6 DEF RestartServer, ApiTypeOK
    <2>. QED
      BY <2>1 DEF AnswersFit, AnswerFits
  <1>7. CASE UNCHANGED <<tree, responses, life>>
    BY <1>7 DEF AnswersFit, AnswerFits
  <1>. QED
    BY <1>2, <1>3, <1>4, <1>5, <1>6, <1>7
       DEF ApiNext, Serve, Arrive, Read, Sign, Prove, Panic, Insert, apiVars, request

(* The index of an answer is a number. *)
LEMMA IndexType ==
    ASSUME ApiTypeOK, NEW c \in Clients, NEW i \in DOMAIN responses[c], responses[c][i].ok
    PROVE  responses[c][i].index \in Nat /\ responses[c][i].root \in Seq(Messages)
  <1>1. responses[c] \in Seq(Response)
    BY DEF ApiTypeOK
  <1>2. responses[c][i] \in Response
    BY <1>1
  <1>. QED
    BY <1>2, OkType

(* A message of a batch is answered: the next one will have a later leaf.  *)
LEMMA RespondAdvances ==
    ASSUME ApiTypeOK, LocalsFit, BatchAdvances, NEW c \in Clients, NEW r \in Response,
           Respond(c, r), UNCHANGED tree, pc[c] \in {"filter", "sign", "check"},
           r.ok => r.index < Len(tree)
    PROVE  BatchAdvances'
  <1>1. \A d \in Clients \ {c} :
          /\ pc'[d] = pc[d] /\ copy'[d] = copy[d] /\ responses'[d] = responses[d]
    BY DEF Respond, ApiTypeOK
  <1>2. pc'[c] \in {"filter", "done"}
    BY DEF Respond, ApiTypeOK
  <1>3. /\ Len(copy[c]) \in Nat /\ Len(tree) \in Nat /\ Len(copy[c]) <= Len(tree)
    BY DEF ApiTypeOK, LocalsFit, Prefix
  <1>4. ASSUME NEW i \in DOMAIN responses'[c], responses'[c][i].ok
        PROVE  responses'[c][i].index < Len(tree)
    <2>1. CASE i \in DOMAIN responses[c]
      <3>1. responses'[c][i] = responses[c][i]
        BY <2>1, ResponseAdded
      <3>2. responses[c][i].index \in Nat
        BY <1>4, <2>1, <3>1, IndexType
      <3>3. LeafAfter(responses[c][i], c)
        BY <2>1 DEF BatchAdvances
      <3>. QED
        BY <1>3, <1>4, <3>1, <3>2, <3>3 DEF LeafAfter, Index
    <2>2. CASE i \notin DOMAIN responses[c]
      <3>1. responses'[c][i] = r
        BY <2>2, ResponseAdded
      <3>. QED
        BY <1>4, <3>1
    <2>. QED
      BY <2>1, <2>2
  <1>5. \A i \in DOMAIN responses'[c] : LeafAfter(responses[c][i], c)' 
    BY <1>2, <1>4 DEF LeafAfter
  <1>6. ASSUME NEW d \in Clients
        PROVE  /\ pc'[d] = "idle" => responses'[d] = <<>>
               /\ \A i \in DOMAIN responses'[d] : LeafAfter(responses[d][i], d)'
    <2>1. CASE d = c
      BY <1>2, <1>5, <2>1
    <2>2. CASE d # c
      BY <1>1, <2>2 DEF BatchAdvances, LeafAfter, Index
    <2>. QED
      BY <2>1, <2>2
  <1>. QED
    BY <1>6 DEF BatchAdvances

(* A leaf is added by the processor or, to its own end, by the request c.  *)
LEMMA LeafAdvances ==
    ASSUME ApiTypeOK, LocalsFit, BatchAdvances, NEW e \in Messages, tree' = Append(tree, e),
           UNCHANGED <<copy, responses>>,
           \A d \in Clients : pc'[d] = pc[d] \/ (pc[d] = "filter" /\ pc'[d] = "read")
    PROVE  BatchAdvances'
  <1>1. Len(tree) \in Nat /\ Len(tree') = Len(tree) + 1
    BY LeafAdded
  <1>2. ASSUME NEW d \in Clients, NEW i \in DOMAIN responses[d], responses[d][i].ok
        PROVE  LeafAfter(responses[d][i], d)'
    <2>1. LeafAfter(responses[d][i], d) /\ responses[d][i].index \in Nat
      BY <1>2, IndexType DEF BatchAdvances
    <2>2. CASE pc'[d] = pc[d]
      BY <1>1, <1>2, <2>1, <2>2 DEF LeafAfter, Index
    <2>3. CASE pc[d] = "filter" /\ pc'[d] = "read"
      BY <1>1, <1>2, <2>1, <2>3 DEF LeafAfter
    <2>. QED
      BY <2>2, <2>3
  <1>3. \A d \in Clients : pc'[d] = "idle" => responses[d] = <<>>
    BY DEF BatchAdvances
  <1>. QED
    BY <1>2, <1>3 DEF BatchAdvances, LeafAfter

(* Every step moves a batch on to later leaves. *)
LEMMA AdvancesStep ==
    ASSUME ApiTypeOK, LocalsFit, BatchAdvances, [ApiNext]_apiVars
    PROVE  BatchAdvances'
  <1>1. Error \in Response /\ ~Error.ok
    BY DEF Response, Error
  <1>2. ASSUME NEW c \in Clients, Filter(c) \/ SignError(c) \/ Reject(c) PROVE BatchAdvances'
    <2>1. Respond(c, Error) /\ UNCHANGED tree /\ pc[c] \in {"filter", "sign", "check"}
      BY <1>2 DEF Filter, SignError, Reject
    <2>. QED
      BY <1>1, <2>1, RespondAdvances
  <1>3. ASSUME NEW c \in Clients, Accept(c) PROVE BatchAdvances'
    <2>1. PICK r \in Response : Respond(c, r) /\ r.index = Index(copy[c])
      BY <1>3, AcceptedAnswer
    <2>2. Index(copy[c]) < Len(tree)
      BY DEF ApiTypeOK, LocalsFit, Prefix, Index
    <2>3. UNCHANGED tree /\ pc[c] \in {"filter", "sign", "check"}
      BY <1>3 DEF Accept
    <2>. QED
      BY <2>1, <2>2, <2>3, RespondAdvances
  <1>4. ASSUME NEW c \in Clients, Ingest(c) PROVE BatchAdvances'
    <2>1. \A d \in Clients : pc'[d] = pc[d] \/ (pc[d] = "filter" /\ pc'[d] = "read")
      BY <1>4 DEF Ingest, ApiTypeOK
    <2>. QED
      BY <1>4, <2>1, MessageType, LeafAdvances DEF Ingest
  <1>5. CASE Tick
    <2>1. inserted[leaf_index + 1] \in Messages
      BY <1>5 DEF Tick, ApiTypeOK
    <2>. QED
      BY <1>5, <2>1, LeafAdvances DEF Tick, request
  <1>6. ASSUME NEW c \in Clients,
               Arrive(c) \/ Read(c) \/ Sign(c) \/ Prove(c) \/ Panic(c)
        PROVE  BatchAdvances'
    <2>1. UNCHANGED <<tree, responses>>
      BY <1>6 DEF Arrive, Read, Sign, Prove, Panic
    <2>2. \A d \in Clients \ {c} : pc'[d] = pc[d] /\ copy'[d] = copy[d]
      BY <1>6 DEF Arrive, Read, Sign, Prove, Panic, ApiTypeOK
    <2>3. \/ pc[c] = "idle" /\ pc'[c] = "filter" /\ copy'[c] = copy[c]
          \/ pc[c] = "read" /\ pc'[c] = "sign" /\ copy'[c] = tree
          \/ pc[c] = "sign" /\ pc'[c] = "proof" /\ copy'[c] = copy[c]
          \/ pc[c] = "proof" /\ pc'[c] = "check" /\ copy'[c] = copy[c]
          \/ pc'[c] = "dropped"
      BY <1>6 DEF Arrive, Read, Sign, Prove, Panic, ApiTypeOK
    <2>4. ASSUME NEW i \in DOMAIN responses[c], responses[c][i].ok
          PROVE  LeafAfter(responses[c][i], c)'
      <3>1. LeafAfter(responses[c][i], c) /\ responses[c][i].index \in Nat
        BY <2>4, IndexType DEF BatchAdvances
      <3>2. pc[c] # "idle"
        BY <2>4 DEF BatchAdvances
      <3>3. Len(tree) \in Nat
        BY DEF ApiTypeOK
      <3>. QED
        BY <2>1, <2>3, <2>4, <3>1, <3>2, <3>3 DEF LeafAfter, Index
    <2>5. ASSUME NEW d \in Clients, NEW i \in DOMAIN responses[d]
          PROVE  LeafAfter(responses[d][i], d)'
      <3>1. CASE d = c
        BY <2>1, <2>4, <3>1 DEF LeafAfter
      <3>2. CASE d # c
        BY <2>1, <2>2, <3>2 DEF BatchAdvances, LeafAfter, Index
      <3>. QED
        BY <3>1, <3>2
    <2>6. \A d \in Clients : pc'[d] = "idle" => responses'[d] = <<>>
      BY <2>1, <2>2, <2>3 DEF BatchAdvances
    <2>. QED
      BY <2>1, <2>5, <2>6 DEF BatchAdvances
  <1>7. CASE RestartServer
    <2>1. /\ UNCHANGED responses
          /\ \A c \in Clients : /\ pc'[c] \in {"idle", "done", "dropped"}
                                /\ pc'[c] = "idle" => pc[c] = "idle"
      BY <1>7 DEF RestartServer
    <2>. QED
      BY <2>1 DEF BatchAdvances, LeafAfter
  <1>8. CASE UNCHANGED <<tree, pc, copy, responses>>
    BY <1>8 DEF BatchAdvances, LeafAfter, Index
  <1>. QED
    BY <1>2, <1>3, <1>4, <1>5, <1>6, <1>7, <1>8
       DEF ApiNext, Serve, Insert, apiVars, request

(* Two prefixes of one sequence: the shorter is a prefix of the longer.    *)
LEMMA PrefixesNest ==
    ASSUME NEW S, NEW r \in Seq(S), NEW s \in Seq(S), NEW t \in Seq(S),
           Prefix(r, t), Prefix(s, t), Len(r) <= Len(s)
    PROVE  Prefix(r, s)
  BY DEF Prefix

(* Two answers with prefixes of one tree are about one tree. *)
LEMMA PrefixesAgree ==
    ASSUME NEW t \in Seq(Messages), NEW r, NEW s,
           r.index \in Nat, r.root \in Seq(Messages), s.index \in Nat, s.root \in Seq(Messages),
           Len(r.root) = r.index + 1, r.root[r.index + 1] = r.message, Prefix(r.root, t),
           Len(s.root) = s.index + 1, s.root[s.index + 1] = s.message, Prefix(s.root, t)
    PROVE  OneTree(r, s)
  <1>1. r.index <= s.index => Prefix(r.root, s.root)
    BY PrefixesNest
  <1>2. r.index = s.index => r.message = s.message
    BY PrefixUnique
  <1>. QED
    BY <1>1, <1>2 DEF OneTree

(* Every step keeps the answers about one tree: those of earlier lives are *)
(* what they were.                                                         *)
LEMMA AgreeStep ==
    ASSUME ApiTypeOK, ApiTypeOK', LocalsFit, BatchAdvances, AnswersFit', AnswersAgree,
           [ApiNext]_apiVars
    PROVE  AnswersAgree'
  <1>1. \/ /\ \E c \in Clients, r \in Response :
                /\ Respond(c, r)
                /\ r.ok => /\ r.life = life /\ pc[c] = "check"
                           /\ r.index = Index(copy[c]) 
           /\ UNCHANGED life
        \/ UNCHANGED responses
    <2>1. Error \in Response /\ ~Error.ok
      BY DEF Response, Error
    <2>2. ASSUME NEW c \in Clients, Filter(c) \/ SignError(c) \/ Reject(c)
          PROVE  Respond(c, Error) /\ UNCHANGED life
      BY <2>2 DEF Filter, SignError, Reject
    <2>3. ASSUME NEW c \in Clients, Accept(c)
          PROVE  /\ \E r \in Response : Respond(c, r) /\ r.life = life /\ r.index = Index(copy[c])
                 /\ pc[c] = "check" /\ UNCHANGED life
      BY <2>3, AcceptedAnswer DEF Accept
    <2>. QED
      BY <2>1, <2>2, <2>3
         DEF ApiNext, Serve, Arrive, Ingest, Read, Sign, Prove, Panic, Insert, Tick,
             RestartServer, apiVars, request
  <1>2. CASE UNCHANGED responses
    BY <1>2 DEF AnswersAgree, OneTree, Prefix
  <1>3. ASSUME NEW c \in Clients, NEW r \in Response, Respond(c, r), UNCHANGED life,
               r.ok => r.life = life /\ pc[c] = "check" /\ r.index = Index(copy[c])
        PROVE  AnswersAgree'
    <2>1. ASSUME NEW d \in Clients, NEW i \in DOMAIN responses'[d]
          PROVE  \/ i \in DOMAIN responses[d] /\ responses'[d][i] = responses[d][i]
                 \/ d = c /\ i = Len(responses[c]) + 1 /\ responses'[d][i] = r
      BY <1>3, <2>1, ResponseAdded
    <2>2. ASSUME NEW d \in Clients, NEW e \in Clients,
                 NEW i \in DOMAIN responses'[d], NEW j \in DOMAIN responses'[e],
                 responses'[d][i].ok, responses'[e][j].ok
          PROVE  OneTree(responses'[d][i], responses'[e][j])
      <3>1. CASE responses'[d][i].life = life' /\ responses'[e][j].life = life'
        <4>1. \A f \in Clients : \A k \in DOMAIN responses'[f] :
                responses'[f][k].ok => /\ responses'[f][k].index \in Nat
                                       /\ responses'[f][k].root \in Seq(Messages)
          <5>. SUFFICES ASSUME NEW f \in Clients, NEW k \in DOMAIN responses'[f],
                               responses'[f][k].ok
                        PROVE  /\ responses'[f][k].index \in Nat
                               /\ responses'[f][k].root \in Seq(Messages)
            OBVIOUS
          <5>1. responses'[f] \in Seq(Response)
            BY DEF ApiTypeOK, Response, Error
          <5>2. responses'[f][k] \in Response
            BY <5>1
          <5>. QED
            BY <5>2, OkType
        <4>2. \A f \in Clients : \A k \in DOMAIN responses'[f] :
                responses'[f][k].ok /\ responses'[f][k].life = life' =>
                    /\ Len(responses'[f][k].root) = responses'[f][k].index + 1
                    /\ responses'[f][k].root[responses'[f][k].index + 1] = responses'[f][k].message
                    /\ Prefix(responses'[f][k].root, tree')
          BY DEF AnswersFit, AnswerFits
        <4>3. tree' \in Seq(Messages)
          BY DEF ApiTypeOK
        <4>. QED
          BY <2>2, <3>1, <4>1, <4>2, <4>3, PrefixesAgree
      <3>2. CASE responses'[d][i].life # responses'[e][j].life
        BY <3>2 DEF OneTree
      <3>3. CASE /\ responses'[d][i].life = responses'[e][j].life
                 /\ responses'[d][i].life # life'
        <4>1. /\ i \in DOMAIN responses[d] /\ responses'[d][i] = responses[d][i]
              /\ j \in DOMAIN responses[e] /\ responses'[e][j] = responses[e][j]
          BY <1>3, <2>1, <2>2, <3>3
        <4>. QED
          BY <2>2, <4>1 DEF AnswersAgree
      <3>. QED
        BY <3>1, <3>2, <3>3
    <2>3. ASSUME NEW d \in Clients, NEW i \in DOMAIN responses'[d], NEW j \in DOMAIN responses'[d],
                 i < j, responses'[d][i].ok, responses'[d][j].ok
          PROVE  responses'[d][i].index < responses'[d][j].index
      <3>1. CASE j \in DOMAIN responses[d] /\ responses'[d][j] = responses[d][j]
        <4>1. i \in DOMAIN responses[d] /\ responses'[d][i] = responses[d][i]
          <5>1. d = c => i # Len(responses[c]) + 1
            BY <1>3, <2>3, <3>1, ResponseAdded
          <5>. QED
            BY <2>1, <5>1
        <4>. QED
          BY <2>3, <3>1, <4>1 DEF AnswersAgree
      <3>2. CASE d = c /\ j = Len(responses[c]) + 1 /\ responses'[d][j] = r
        <4>1. i \in DOMAIN responses[d] /\ responses'[d][i] = responses[d][i]
          BY <2>1, <2>3, <3>2
        <4>2. LeafAfter(responses[c][i], c) /\ r.ok
          BY <2>3, <3>2, <4>1 DEF BatchAdvances
        <4>. QED
          BY <1>3, <2>3, <3>2, <4>1, <4>2 DEF LeafAfter
      <3>. QED
        BY <2>1, <3>1, <3>2
    <2>. QED
      BY <2>2, <2>3 DEF AnswersAgree, OneTree, Prefix
  <1>. QED
    BY <1>1, <1>2, <1>3

-----------------------------------------------------------------------------
(* The order of the answers and of the leaves                              *)

(* A response about the message at hand, or an error, is the next one of   *)
(* the batch.                                                              *)
LEMMA RespondInOrder ==
    ASSUME ApiTypeOK, ResponsesInOrder, NEW c \in Clients, pc[c] # "done",
           NEW r \in Response, r.ok => r.message = RequestedMessage(c), Respond(c, r)
    PROVE  ResponsesInOrder'
  <1>. DEFINE told == responses[c]
  <1>1. /\ told \in Seq(Response) /\ Len(told) = pos[c] - 1
        /\ pos[c] \in Nat /\ Len(Batch[c]) \in Nat
        /\ \A i \in DOMAIN told : told[i].ok => told[i].message = Batch[c][i]
    BY ApiServerAssumption DEF ApiTypeOK, ResponsesInOrder
  <1>2. /\ responses'[c] = Append(told, r)
        /\ \A d \in Clients \ {c} : responses'[d] = responses[d]
    BY DEF Respond, ApiTypeOK
  <1>3. \A d \in Clients \ {c} : pc'[d] = pc[d] /\ pos'[d] = pos[d]
    BY DEF Respond, ApiTypeOK
  <1>4. \A d \in Clients \ {c} :
          /\ \A i \in DOMAIN responses'[d] :
               responses'[d][i].ok => responses'[d][i].message = Batch[d][i]
          /\ Len(responses'[d]) = IF pc'[d] = "done" THEN Len(Batch[d]) ELSE pos'[d] - 1
    BY <1>2, <1>3 DEF ResponsesInOrder
  <1>5. /\ Len(Append(told, r)) = pos[c] /\ DOMAIN Append(told, r) = 1 .. pos[c]
        /\ DOMAIN told = 1 .. pos[c] - 1
        /\ \A i \in 1 .. pos[c] - 1 : Append(told, r)[i] = told[i]
        /\ Append(told, r)[pos[c]] = r
    <2>. HIDE DEF told
    <2>1. /\ Append(told, r) \in Seq(Response) /\ Len(Append(told, r)) = Len(told) + 1
          /\ \A i \in 1 .. Len(told) : Append(told, r)[i] = told[i]
          /\ Append(told, r)[Len(told) + 1] = r
      BY <1>1, AppendLeaf
    <2>. QED
      BY <1>1, <2>1
  <1>6. \A i \in DOMAIN responses'[c] :
          responses'[c][i].ok => responses'[c][i].message = Batch[c][i]
    <2>. SUFFICES ASSUME NEW i \in 1 .. pos[c], Append(told, r)[i].ok
                  PROVE  Append(told, r)[i].message = Batch[c][i]
      BY <1>2, <1>5
    <2>1. CASE i = pos[c]
      BY <2>1, <1>5 DEF RequestedMessage
    <2>2. CASE i # pos[c]
      <3>1. i \in 1 .. pos[c] - 1
        BY <1>1, <2>2
      <3>. QED
        BY <1>1, <1>5, <3>1
    <2>. QED
      BY <2>1, <2>2
  <1>7. Len(responses'[c]) = IF pc'[c] = "done" THEN Len(Batch[c]) ELSE pos'[c] - 1
    <2>1. CASE pos[c] = Len(Batch[c])
      <3>1. pc'[c] = "done"
        BY <2>1 DEF Respond, ApiTypeOK
      <3>. QED
        BY <1>2, <1>5, <2>1, <3>1
    <2>2. CASE pos[c] # Len(Batch[c])
      <3>1. pc'[c] = "filter" /\ pos'[c] = pos[c] + 1
        BY <2>2 DEF Respond, ApiTypeOK
      <3>. QED
        BY <1>1, <1>2, <1>5, <3>1
    <2>. QED
      BY <2>1, <2>2
  <1>. QED
    BY <1>4, <1>6, <1>7 DEF ResponsesInOrder

(* Every step answers the messages of a batch in their order. *)
LEMMA ResponsesStep ==
    ASSUME ApiTypeOK, LocalsFit, ResponsesInOrder, [ApiNext]_apiVars
    PROVE  ResponsesInOrder'
  <1>1. Error \in Response /\ ~Error.ok
    BY DEF Response, Error
  <1>2. ASSUME NEW c \in Clients, Filter(c) \/ SignError(c) \/ Reject(c)
        PROVE  ResponsesInOrder'
    <2>1. pc[c] # "done" /\ Respond(c, Error)
      BY <1>2 DEF Filter, SignError, Reject
    <2>. QED
      BY <1>1, <2>1, RespondInOrder
  <1>3. ASSUME NEW c \in Clients, Accept(c) PROVE ResponsesInOrder'
    <2>. DEFINE r == Okay(RequestedMessage(c), Index(copy[c]), proof[c], copy[c])
    <2>1. copy[c] \in Seq(Messages) /\ Index(copy[c]) \in Nat /\ proof[c] \in Seq(Messages)
      BY <1>3 DEF Accept, ApiTypeOK, LocalsFit, Index
    <2>2. r \in Response /\ r.message = RequestedMessage(c)
      BY <2>1, MessageType DEF Okay, Response, ApiTypeOK
    <2>3. Respond(c, r) /\ pc[c] # "done"
      BY <1>3 DEF Accept
    <2>. HIDE DEF r
    <2>. QED
      BY <2>2, <2>3, RespondInOrder
  <1>4. ASSUME NEW c \in Clients,
               Arrive(c) \/ Ingest(c) \/ Read(c) \/ Sign(c) \/ Prove(c) \/ Panic(c)
        PROVE  ResponsesInOrder'
    <2>1. /\ UNCHANGED <<responses, pos>> /\ pc[c] # "done"
          /\ \E at \in PC \ {"done"} : pc' = [pc EXCEPT ![c] = at]
      BY <1>4 DEF Arrive, Ingest, Read, Sign, Prove, Panic, PC
    <2>2. \A d \in Clients : pc'[d] = "done" <=> pc[d] = "done"
      BY <2>1 DEF ApiTypeOK
    <2>. QED
      BY <2>1, <2>2 DEF ResponsesInOrder
  <1>5. CASE RestartServer
    <2>1. /\ UNCHANGED <<responses, pos>>
          /\ \A c \in Clients : pc'[c] = "done" <=> pc[c] = "done"
      BY <1>5 DEF RestartServer, ApiTypeOK
    <2>. QED
      BY <2>1 DEF ResponsesInOrder
  <1>6. CASE UNCHANGED request
    BY <1>6 DEF request, ResponsesInOrder
  <1>. QED
    BY <1>2, <1>3, <1>4, <1>5, <1>6 DEF ApiNext, Serve, Insert, Tick, apiVars

(* A leaf that a request adds leaves the insertions where they are. *)
LEMMA InsertionsKept ==
    ASSUME ApiTypeOK, InsertionsInOrder, NEW e \in Messages,
           tree' = Append(tree, e), UNCHANGED <<inserted, leaf_index>>
    PROVE  InsertionsInOrder'
  <1>1. PICK at \in [1 .. leaf_index -> DOMAIN tree] :
          \A i \in 1 .. leaf_index :
              tree[at[i]] = inserted[i] /\ \A j \in 1 .. i - 1 : at[j] < at[i]
    BY DEF InsertionsInOrder
  <1>2. /\ Len(tree) \in Nat /\ DOMAIN tree = 1 .. Len(tree)
        /\ DOMAIN tree' = 1 .. Len(tree) + 1
        /\ \A i \in 1 .. Len(tree) : tree'[i] = tree[i]
    BY AppendLeaf DEF ApiTypeOK
  <1>3. at \in [1 .. leaf_index -> DOMAIN tree']
    BY <1>2
  <1>4. \A i \in 1 .. leaf_index :
          tree'[at[i]] = inserted[i] /\ \A j \in 1 .. i - 1 : at[j] < at[i]
    BY <1>1, <1>2
  <1>. QED
    BY <1>3, <1>4 DEF InsertionsInOrder

(* The insertion the processor adds comes after all the earlier ones. *)
LEMMA TickInOrder ==
    ASSUME ApiTypeOK, InsertionsInOrder, Tick
    PROVE  InsertionsInOrder'
  <1>1. PICK at \in [1 .. leaf_index -> DOMAIN tree] :
          \A i \in 1 .. leaf_index :
              tree[at[i]] = inserted[i] /\ \A j \in 1 .. i - 1 : at[j] < at[i]
    BY DEF InsertionsInOrder
  <1>. DEFINE n == leaf_index + 1
              e == inserted[n]
  <1>2. /\ n \in Nat /\ n >= 1 /\ e \in Messages /\ tree' = Append(tree, e)
        /\ leaf_index' = n /\ UNCHANGED inserted /\ leaf_index \in Nat
    BY DEF Tick, ApiTypeOK
  <1>. HIDE DEF e
  <1>3. /\ Len(tree) \in Nat /\ DOMAIN tree = 1 .. Len(tree)
        /\ DOMAIN tree' = 1 .. Len(tree) + 1
        /\ \A i \in 1 .. Len(tree) : tree'[i] = tree[i]
        /\ tree'[Len(tree) + 1] = e
    BY <1>2, AppendLeaf DEF ApiTypeOK
  <1>. DEFINE new == [i \in 1 .. n |-> IF i = n THEN Len(tree) + 1 ELSE at[i]]
  <1>4. ASSUME NEW i \in 1 .. leaf_index
        PROVE  new[i] = at[i] /\ at[i] \in 1 .. Len(tree) /\ i \in 1 .. n
    BY <1>2, <1>3
  <1>5. new[n] = Len(tree) + 1
    BY <1>2
  <1>6. new \in [1 .. n -> DOMAIN tree']
    BY <1>2, <1>3, <1>4
  <1>. HIDE DEF new
  <1>7. ASSUME NEW i \in 1 .. n
        PROVE  tree'[new[i]] = inserted[i] /\ \A j \in 1 .. i - 1 : new[j] < new[i]
    <2>1. CASE i = n
      <3>1. ASSUME NEW j \in 1 .. n - 1 PROVE new[j] < Len(tree) + 1
        <4>1. j \in 1 .. leaf_index
          BY <1>2
        <4>. QED
          BY <1>3, <1>4, <4>1
      <3>. QED
        BY <1>3, <1>5, <2>1, <3>1 DEF e
    <2>2. CASE i # n
      <3>1. i \in 1 .. leaf_index
        BY <1>2, <2>2
      <3>2. ASSUME NEW j \in 1 .. i - 1 PROVE new[j] < new[i]
        <4>1. j \in 1 .. leaf_index
          BY <1>2, <3>1
        <4>. QED
          BY <1>1, <1>4, <3>1, <4>1
      <3>3. tree'[new[i]] = inserted[i]
        BY <1>1, <1>3, <1>4, <3>1
      <3>. QED
        BY <3>2, <3>3
    <2>. QED
      BY <2>1, <2>2
  <1>8. /\ new \in [1 .. leaf_index' -> DOMAIN tree']
        /\ \A i \in 1 .. leaf_index' :
             tree'[new[i]] = inserted'[i] /\ \A j \in 1 .. i - 1 : new[j] < new[i]
    BY <1>2, <1>6, <1>7
  <1>. QED
    BY <1>8 DEF InsertionsInOrder

(* Every step keeps the chain's leaves in their order. *)
LEMMA InsertionsStep ==
    ASSUME ApiTypeOK, InsertionsInOrder, [ApiNext]_apiVars
    PROVE  InsertionsInOrder'
  <1>1. ASSUME NEW c \in Clients, Ingest(c) PROVE InsertionsInOrder'
    BY <1>1, MessageType, InsertionsKept DEF Ingest
  <1>2. ASSUME NEW m \in Messages, Insert(m) PROVE InsertionsInOrder'
    <2>1. UNCHANGED <<tree, leaf_index>> /\ \A i \in 1 .. leaf_index : inserted'[i] = inserted[i]
      BY <1>2, AppendLeaf DEF Insert, ApiTypeOK
    <2>2. PICK at \in [1 .. leaf_index -> DOMAIN tree] :
            \A i \in 1 .. leaf_index :
                tree[at[i]] = inserted[i] /\ \A j \in 1 .. i - 1 : at[j] < at[i]
      BY DEF InsertionsInOrder
    <2>3. /\ at \in [1 .. leaf_index' -> DOMAIN tree']
          /\ \A i \in 1 .. leaf_index' :
               tree'[at[i]] = inserted'[i] /\ \A j \in 1 .. i - 1 : at[j] < at[i]
      BY <2>1, <2>2
    <2>. QED
      BY <2>3 DEF InsertionsInOrder
  <1>3. CASE Tick
    BY <1>3, TickInOrder
  <1>4. CASE RestartServer
    <2>. DEFINE at == [i \in 1 .. leaf_index' |-> i]
    <2>1. 1 .. leaf_index' = {}
      BY <1>4 DEF RestartServer
    <2>2. at \in [1 .. leaf_index' -> DOMAIN tree']
      BY <2>1
    <2>. QED
      BY <2>1, <2>2 DEF InsertionsInOrder
  <1>5. CASE UNCHANGED <<tree, inserted, leaf_index>>
    BY <1>5 DEF InsertionsInOrder
  <1>. QED
    BY <1>1, <1>2, <1>3, <1>4, <1>5
       DEF ApiNext, Serve, Arrive, Filter, Read, Sign, SignError, Prove, Panic, Reject,
           Accept, apiVars

-----------------------------------------------------------------------------
(* The theorems                                                            *)

(* The invariant holds at the start and is kept by every step. *)
LEMMA Invariance == ApiSpec => []IInv
  <1>1. ApiInit => IInv
    <2>. SUFFICES ASSUME ApiInit PROVE IInv
      OBVIOUS
    <2>1. ApiTypeOK
      BY ApiServerAssumption DEF ApiInit, ApiTypeOK, PC
    <2>2. LocalsFit
      <3>1. Prefix(<<>>, <<>>)
        BY DEF Prefix
      <3>. QED
        BY <3>1 DEF ApiInit, LocalsFit
    <2>3. SignedFit /\ CheckpointCoversMessage /\ OneRootPerIndex
      BY DEF ApiInit, SignedFit, CheckpointCoversMessage, OneRootPerIndex
    <2>4. AnswersFit /\ BatchAdvances /\ AnswersAgree
      <3>1. DOMAIN <<>> = {}
        OBVIOUS
      <3>2. \A c \in Clients : responses[c] = <<>> /\ DOMAIN responses[c] = {}
        BY <3>1 DEF ApiInit
      <3>. QED
        BY <3>2 DEF AnswersFit, BatchAdvances, AnswersAgree
    <2>. QED
      BY <2>1, <2>2, <2>3, <2>4 DEF IInv
  <1>2. IInv /\ [ApiNext]_apiVars => IInv'
    BY TypeStep, LocalsStep, SignedStep, CoversStep, OneRootStep, AnswersStep, AdvancesStep,
       AgreeStep DEF IInv
  <1>. QED
    BY <1>1, <1>2, PTL DEF ApiSpec

(* Every variable of the validity API keeps its type. *)
THEOREM TypeCorrect == ApiSpec => []ApiTypeOK
  BY Invariance, PTL DEF IInv

(* From a start of the API server to its end it never signs two roots for  *)
(* one index.                                                              *)
THEOREM NoEquivocation == ApiSpec => []OneRootPerIndex
  BY Invariance, PTL DEF IInv

(* A checkpoint signed for a message commits to a tree with the message. *)
LEMMA CheckpointsCover == ApiSpec => []CheckpointCoversMessage
  BY Invariance, PTL DEF IInv

(* The proof made after signing is one against the signed root. *)
LEMMA ProofsMatch == ApiSpec => []ProofMatchesCheckpoint
  <1>1. IInv => ProofMatchesCheckpoint
    <2>. SUFFICES ASSUME IInv, NEW c \in Clients
                  PROVE  /\ Index(copy[c]) < Len(tree)
                         /\ pc[c] = "check" => proof[c] = copy[c]
      BY DEF ProofMatchesCheckpoint
    <2>1. Len(copy[c]) \in Nat /\ Len(tree) \in Nat /\ Len(copy[c]) <= Len(tree)
      BY DEF IInv, ApiTypeOK, LocalsFit, Prefix
    <2>. QED
      BY <2>1 DEF IInv, LocalsFit, Index
  <1>. QED
    BY <1>1, Invariance, PTL

(* What check_validity signs holds the message, and what it proves leads   *)
(* to the signed root, however the tree grows in between.                  *)
THEOREM SignedIsProven == ApiSpec => []CheckpointsProvable
  <1>1. CheckpointCoversMessage /\ ProofMatchesCheckpoint => CheckpointsProvable
    BY DEF CheckpointsProvable
  <1>. QED
    BY <1>1, CheckpointsCover, ProofsMatch, PTL

(* All answers of one life are about one growing tree, and each message of *)
(* a batch has a leaf after those of the messages before it.               *)
THEOREM AnswersOfOneTree == ApiSpec => []AnswersAgree
  BY Invariance, PTL DEF IInv

(* A batch is answered message by message, and the chain's insertions are  *)
(* in the shared tree in the chain's order, whatever requests add leaves   *)
(* between them.                                                           *)
THEOREM AnsweredInOrder == ApiSpec => []AnswersInOrder
  <1>1. ApiInit => AnswersInOrder
    <2>. SUFFICES ASSUME ApiInit PROVE AnswersInOrder
      OBVIOUS
    <2>1. ResponsesInOrder
      <3>1. \A c \in Clients : responses[c] = <<>> /\ pc[c] = "idle" /\ pos[c] = 1
        BY DEF ApiInit
      <3>2. DOMAIN <<>> = {} /\ Len(<<>>) = 0
        OBVIOUS
      <3>. SUFFICES ASSUME NEW c \in Clients
                    PROVE  /\ \A i \in DOMAIN responses[c] :
                                responses[c][i].ok => responses[c][i].message = Batch[c][i]
                           /\ Len(responses[c]) =
                                IF pc[c] = "done" THEN Len(Batch[c]) ELSE pos[c] - 1
        BY DEF ResponsesInOrder
      <3>3. DOMAIN responses[c] = {} /\ Len(responses[c]) = 0
        BY <3>1, <3>2
      <3>. QED
        BY <3>1, <3>3
    <2>2. InsertionsInOrder
      <3>. DEFINE at == [i \in 1 .. leaf_index |-> i]
      <3>1. 1 .. leaf_index = {}
        BY DEF ApiInit
      <3>2. at \in [1 .. leaf_index -> DOMAIN tree]
        BY <3>1
      <3>. QED
        BY <3>1, <3>2 DEF InsertionsInOrder
    <2>. QED
      BY <2>1, <2>2 DEF AnswersInOrder
  <1>2. IInv /\ AnswersInOrder /\ [ApiNext]_apiVars => AnswersInOrder'
    BY ResponsesStep, InsertionsStep DEF IInv, AnswersInOrder
  <1>. QED
    BY <1>1, <1>2, Invariance, PTL DEF ApiSpec


-----------------------------------------------------------------------------
(* Two agents of one destination (AgentPair): the inductive invariant      *)

Stage == {"new", "prepare", "build", "estimate", "submit", "confirm", "done", "dropped"}

(* The types of what the invariant is about. *)
PairTyped ==
    /\ messages \in [Agents -> SUBSET PairMessage]
    /\ processedBy \in [Agents -> SUBSET PairMessage]
    /\ stage \in [Agents -> [PairMessage -> Stage]]
    /\ DOMAIN submission = Agents
    /\ \A a \in Agents : DOMAIN submission[a] = PairMessage
    /\ reverted \in [Agents -> [PairMessage -> Nat]]
    /\ reorged \in [PairMessage -> Nat]
    /\ orphaned \in [Agents -> SUBSET PairMessage]

(* What a transaction may still waste.  None has failed since the last     *)
(* reorg while the message is not delivered, and none since the simulation *)
(* that let a waiting one pass: only then is there room for one more.      *)
RoomForOne ==
    \A a \in Agents, m \in PairMessage :
        (m \notin deliveredOn \/ stage[a][m] = "submit") => reverted[a][m] <= reorged[m]

PairIInv == PairTyped /\ RoomForOne /\ AgentsSound

-----------------------------------------------------------------------------
(* An update of one entry of a table of an agent. *)
LEMMA EntryUpdated ==
    ASSUME NEW A, NEW B, NEW f, DOMAIN f = A, \A b \in A : DOMAIN f[b] = B,
           NEW a \in A, NEW m \in B, NEW x
    PROVE  /\ DOMAIN [f EXCEPT ![a][m] = x] = A
           /\ \A b \in A : DOMAIN [f EXCEPT ![a][m] = x][b] = B
           /\ \A b \in A, n \in B :
                (b # a \/ n # m) => [f EXCEPT ![a][m] = x][b][n] = f[b][n]
           /\ [f EXCEPT ![a][m] = x][a][m] = x
  OBVIOUS

(* What the ISM says of metadata depends on the ISM alone. *)
LEMMA VerdictStays ==
    ASSUME UNCHANGED recipientIsm, NEW m, NEW metas
    PROVE  VerifiesMessage(m, metas)' <=> VerifiesMessage(m, metas)
  BY DEF VerifiesMessage

LEMMA PairInitIInv == PairInit => PairIInv
  <1>. SUFFICES ASSUME PairInit PROVE PairIInv
    OBVIOUS
  <1>1. PairTyped
    <2>1. 0 .. (Synced - 1) \subseteq PairMessage
      BY AgentPairAssumption DEF PairMessage
    <2>. QED
      BY <2>1 DEF PairInit, PairTyped, Stage
  <1>2. \A a \in Agents, m \in PairMessage :
            reverted[a][m] = 0 /\ reorged[m] = 0 /\ stage[a][m] = "new"
    BY DEF PairInit
  <1>3. CommitsDelivered
    BY DEF PairInit, CommitsDelivered
  <1>. QED
    BY <1>1, <1>2, <1>3 DEF PairIInv, RoomForOne, AgentsSound, WasteBounded, SendsOnlyAccepted

(* The syncs, the validators, the trees and the requests leave alone what  *)
(* the invariant is about.                                                 *)
LEMMA QuietStep ==
    ASSUME PairIInv, messages' \in [Agents -> SUBSET PairMessage],
           UNCHANGED <<processedBy, stage, submission, recipientIsm, deliveredOn,
                       reverted, reorged, orphaned>>
    PROVE  PairIInv'
  <1>1. PairTyped' /\ RoomForOne'
    BY DEF PairIInv, PairTyped, RoomForOne
  <1>2. CommitsDelivered' /\ WasteBounded'
    BY DEF PairIInv, AgentsSound, CommitsDelivered, WasteBounded
  <1>3. SendsOnlyAccepted'
    BY VerdictStays DEF PairIInv, AgentsSound, SendsOnlyAccepted
  <1>. QED
    BY <1>1, <1>2, <1>3 DEF PairIInv, AgentsSound

(* The submission of an operation is set, or left alone. *)
Submits(a, m, metas) ==
    \/ submission' = [submission EXCEPT ![a][m] = metas]
    \/ submission' = submission /\ metas = submission[a][m]

(* An operation moves to a stage other than submit, or, as only            *)
(* EstimateCosts does, to submit when the simulation lets it pass.         *)
LEMMA MoveStep ==
    ASSUME PairIInv, NEW a \in Agents, NEW m \in PairMessage, NEW s \in Stage, Move(a, m, s),
           NEW metas, Submits(a, m, metas),
           s = "submit" => m \notin deliveredOn /\ VerifiesMessage(m, metas),
           UNCHANGED <<messages, recipientIsm, deliveredOn, reverted, reorged, orphaned>>,
           processedBy' \in [Agents -> SUBSET PairMessage],
           \A b \in Agents : processedBy'[b] \ orphaned[b] \subseteq deliveredOn
    PROVE  PairIInv'
  <1>1. /\ \A b \in Agents, n \in PairMessage :
            (b # a \/ n # m) => /\ stage'[b][n] = stage[b][n]
                                /\ submission'[b][n] = submission[b][n]
        /\ stage'[a][m] = s /\ submission'[a][m] = metas
        /\ DOMAIN submission' = Agents
        /\ \A b \in Agents : DOMAIN submission'[b] = PairMessage
    <2>1. CASE submission' = [submission EXCEPT ![a][m] = metas]
      BY <2>1, EntryUpdated DEF PairIInv, PairTyped, Move
    <2>2. CASE submission' = submission /\ metas = submission[a][m]
      BY <2>2, EntryUpdated DEF PairIInv, PairTyped, Move
    <2>. QED
      BY <2>1, <2>2 DEF Submits
  <1>2. stage' \in [Agents -> [PairMessage -> Stage]]
    BY DEF PairIInv, PairTyped, Move
  <1>3. PairTyped'
    BY <1>1, <1>2 DEF PairIInv, PairTyped
  <1>4. RoomForOne'
    BY <1>1 DEF PairIInv, RoomForOne
  <1>5. CommitsDelivered' /\ WasteBounded'
    BY DEF PairIInv, AgentsSound, CommitsDelivered, WasteBounded
  <1>6. SendsOnlyAccepted'
    BY <1>1, VerdictStays DEF PairIInv, AgentsSound, SendsOnlyAccepted
  <1>. QED
    BY <1>3, <1>4, <1>5, <1>6 DEF PairIInv, AgentsSound

(* MessageProcessor::tick *)
LEMMA ProcessMessageStep ==
    ASSUME PairIInv, NEW a \in Agents, ProcessMessage(a)
    PROVE  PairIInv'
  <1>. DEFINE m == messageNonce[a]
  <1>1. m \in PairMessage
    BY DEF PairIInv, PairTyped, ProcessMessage
  <1>2. CASE Move(a, m, "prepare")
    <2>1. \A b \in Agents : processedBy[b] \ orphaned[b] \subseteq deliveredOn
      BY DEF PairIInv, AgentsSound, CommitsDelivered
    <2>2. Submits(a, m, submission[a][m])
      BY DEF ProcessMessage, Submits
    <2>3. processedBy' = processedBy /\ processedBy \in [Agents -> SUBSET PairMessage]
      BY DEF PairIInv, PairTyped, ProcessMessage, pairDb
    <2>4. UNCHANGED <<messages, recipientIsm, deliveredOn, reverted, reorged, orphaned>>
      BY DEF ProcessMessage, pairDb, pairChain, pairLog
    <2>. HIDE DEF m
    <2>. QED
      BY <1>1, <1>2, <2>1, <2>2, <2>3, <2>4, MoveStep DEF Stage
  <1>3. CASE UNCHANGED stage
    BY <1>3, QuietStep DEF PairIInv, PairTyped, ProcessMessage, pairDb, pairChain, pairLog
  <1>. QED
    BY <1>2, <1>3 DEF ProcessMessage, ReceiveTask

(* The part of MoveStep's conditions that the steps of prepare() share. *)
LEMMA PrepareMoves ==
    ASSUME PairIInv, NEW a \in Agents, NEW m \in PairMessage, NEW s \in Stage, Move(a, m, s),
           UNCHANGED <<pairDb, pairChain, pairLog>>,
           NEW metas, Submits(a, m, metas),
           s = "submit" => m \notin deliveredOn /\ VerifiesMessage(m, metas)
    PROVE  PairIInv'
  <1>1. \A b \in Agents : processedBy[b] \ orphaned[b] \subseteq deliveredOn
    BY DEF PairIInv, AgentsSound, CommitsDelivered
  <1>2. processedBy' = processedBy /\ processedBy \in [Agents -> SUBSET PairMessage]
    BY DEF PairIInv, PairTyped, pairDb
  <1>3. UNCHANGED <<messages, recipientIsm, deliveredOn, reverted, reorged, orphaned>>
    BY DEF pairDb, pairChain, pairLog
  <1>. QED
    BY <1>1, <1>2, <1>3, MoveStep

(* PendingMessage::prepare up to the metadata *)
LEMMA CheckDeliveredStep ==
    ASSUME PairIInv, NEW a \in Agents, NEW m \in PairMessage, CheckDelivered(a, m)
    PROVE  PairIInv'
  <1>1. PICK s \in {"confirm", "dropped", "build"} : Move(a, m, s)
    <2>1. CASE m \in deliveredOn
      BY <2>1 DEF CheckDelivered, PrepareTask
    <2>2. CASE m \notin deliveredOn /\ m \in NoContract
      BY <2>2 DEF CheckDelivered, PrepareTask
    <2>3. CASE m \notin deliveredOn /\ m \notin NoContract
      BY <2>3 DEF CheckDelivered
    <2>. QED
      BY <2>1, <2>2, <2>3
  <1>2. Submits(a, m, submission[a][m])
    BY DEF CheckDelivered, Submits
  <1>3. UNCHANGED <<pairDb, pairChain, pairLog>> /\ s \in Stage /\ s # "submit"
    BY <1>1 DEF CheckDelivered, Stage
  <1>. QED
    BY <1>1, <1>2, <1>3, PrepareMoves

(* The metadata builders *)
LEMMA BuildSubmissionStep ==
    ASSUME PairIInv, NEW a \in Agents, NEW m \in PairMessage, BuildSubmission(a, m)
    PROVE  PairIInv'
  <1>1. PICK s \in {"estimate", "prepare"}, metas \in {MessageMetadata(a, m), <<Nothing>>} :
            Move(a, m, s) /\ Submits(a, m, metas)
    BY DEF BuildSubmission, PrepareTask, OnReprepare, Forget, Submits
  <1>2. UNCHANGED <<pairDb, pairChain, pairLog>> /\ s \in Stage /\ s # "submit"
    BY <1>1 DEF BuildSubmission, Stage
  <1>. QED
    BY <1>1, <1>2, PrepareMoves

(* process_estimate_costs and the gas payment: the one way to submit *)
LEMMA EstimateCostsStep ==
    ASSUME PairIInv, NEW a \in Agents, NEW m \in PairMessage, EstimateCosts(a, m)
    PROVE  PairIInv'
  <1>1. UNCHANGED <<pairDb, pairChain, pairLog>>
    BY DEF EstimateCosts
  <1>2. CASE m \notin deliveredOn /\ VerifiesMessage(m, submission[a][m])
             /\ MeetsGasRequirement(a, m) /\ TxGas <= PairGasLimit
    <2>1. Move(a, m, "submit") /\ UNCHANGED submission
      BY <1>2 DEF EstimateCosts, PrepareTask
    <2>2. Submits(a, m, submission[a][m])
      BY <2>1 DEF Submits
    <2>. QED
      BY <1>1, <1>2, <2>1, <2>2, PrepareMoves DEF Stage
  <1>3. CASE ~(m \notin deliveredOn /\ VerifiesMessage(m, submission[a][m])
               /\ MeetsGasRequirement(a, m) /\ TxGas <= PairGasLimit)
    <2>1. /\ Move(a, m, "prepare")
          /\ Submits(a, m, <<Nothing>>)
      BY <1>3 DEF EstimateCosts, PrepareTask, OnReprepare, Forget, Submits
    <2>. QED
      BY <1>1, <2>1, PrepareMoves DEF Stage
  <1>. QED
    BY <1>2, <1>3

(* submit(): a transaction fails only because the message was delivered    *)
(* meanwhile, and then the room for one is used up.                        *)
LEMMA SubmitTransactionStep ==
    ASSUME PairIInv, NEW a \in Agents, NEW m \in PairMessage, SubmitTransaction(a, m)
    PROVE  PairIInv'
  <1>. DEFINE executed == m \notin deliveredOn /\ VerifiesMessage(m, submission[a][m])
  <1>1. stage[a][m] = "submit" /\ VerifiesMessage(m, submission[a][m])
    BY DEF SubmitTransaction, PairIInv, AgentsSound, SendsOnlyAccepted
  <1>2. reverted[a][m] <= reorged[m]
    BY <1>1 DEF PairIInv, RoomForOne
  <1>3. UNCHANGED <<messages, processedBy, recipientIsm, reorged, orphaned>>
    BY DEF SubmitTransaction
  <1>4. submission' = [submission EXCEPT ![a][m] = <<Nothing>>]
    BY DEF SubmitTransaction, Forget
  <1>5. PICK s \in {"confirm", "prepare"} : Move(a, m, s)
    BY DEF SubmitTransaction, SubmitTask
  <1>6. /\ \A b \in Agents, n \in PairMessage :
            (b # a \/ n # m) => /\ stage'[b][n] = stage[b][n]
                                /\ submission'[b][n] = submission[b][n]
        /\ stage'[a][m] = s
        /\ DOMAIN submission' = Agents
        /\ \A b \in Agents : DOMAIN submission'[b] = PairMessage
    BY <1>4, <1>5, EntryUpdated DEF PairIInv, PairTyped, Move
  <1>7. stage' \in [Agents -> [PairMessage -> Stage]]
    BY <1>5 DEF PairIInv, PairTyped, Move, Stage
  <1>8. SendsOnlyAccepted'
    BY <1>3, <1>6, VerdictStays DEF PairIInv, AgentsSound, SendsOnlyAccepted
  <1>9. CASE m \notin deliveredOn
    <2>1. deliveredOn' = deliveredOn \cup {m} /\ UNCHANGED reverted
      BY <1>1, <1>9 DEF SubmitTransaction
    <2>2. PairTyped'
      BY <1>3, <1>6, <1>7, <2>1 DEF PairIInv, PairTyped
    <2>3. RoomForOne'
      BY <1>3, <1>6, <2>1 DEF PairIInv, RoomForOne
    <2>4. CommitsDelivered' /\ WasteBounded'
      BY <1>3, <2>1 DEF PairIInv, AgentsSound, CommitsDelivered, WasteBounded
    <2>. QED
      BY <1>8, <2>2, <2>3, <2>4 DEF PairIInv, AgentsSound
  <1>10. CASE m \in deliveredOn
    <2>1. UNCHANGED deliveredOn /\ reverted' = [reverted EXCEPT ![a][m] = @ + 1]
      BY <1>10 DEF SubmitTransaction
    <2>2. /\ reverted' \in [Agents -> [PairMessage -> Nat]]
          /\ reverted'[a][m] = reverted[a][m] + 1
          /\ \A b \in Agents, n \in PairMessage :
                (b # a \/ n # m) => reverted'[b][n] = reverted[b][n]
      BY <2>1 DEF PairIInv, PairTyped
    <2>3. PairTyped'
      BY <1>3, <1>6, <1>7, <2>2 DEF PairIInv, PairTyped
    <2>4. RoomForOne'
      BY <1>3, <1>6, <1>10, <2>1, <2>2 DEF PairIInv, RoomForOne
    <2>5. CommitsDelivered'
      BY <1>3, <2>1 DEF PairIInv, AgentsSound, CommitsDelivered
    <2>6. WasteBounded'
      <3>1. reverted[a][m] \in Nat /\ reorged[m] \in Nat
        BY DEF PairIInv, PairTyped
      <3>. QED
        BY <1>2, <1>3, <2>2, <3>1 DEF PairIInv, AgentsSound, WasteBounded
    <2>. QED
      BY <1>8, <2>3, <2>4, <2>5, <2>6 DEF PairIInv, AgentsSound
  <1>. QED
    BY <1>9, <1>10

(* confirm(): only what is delivered is recorded *)
LEMMA ConfirmMessageStep ==
    ASSUME PairIInv, NEW a \in Agents, NEW m \in PairMessage, ConfirmMessage(a, m)
    PROVE  PairIInv'
  <1>1. Submits(a, m, submission[a][m])
    BY DEF ConfirmMessage, Submits
  <1>2. UNCHANGED <<messages, recipientIsm, deliveredOn, reverted, reorged, orphaned>>
    BY DEF ConfirmMessage, pairChain, pairLog
  <1>3. \A b \in Agents : processedBy[b] \ orphaned[b] \subseteq deliveredOn
    BY DEF PairIInv, AgentsSound, CommitsDelivered
  <1>4. processedBy \in [Agents -> SUBSET PairMessage]
    BY DEF PairIInv, PairTyped
  <1>5. CASE m \in deliveredOn
    <2>1. Move(a, m, "done") /\ processedBy' = [processedBy EXCEPT ![a] = @ \cup {m}]
      BY <1>5 DEF ConfirmMessage, ConfirmTask, RecordProcessSuccess
    <2>2. /\ processedBy' \in [Agents -> SUBSET PairMessage]
          /\ \A b \in Agents : processedBy'[b] \ orphaned[b] \subseteq deliveredOn
      BY <1>3, <1>4, <1>5, <2>1
    <2>. QED
      BY <1>1, <1>2, <2>1, <2>2, MoveStep DEF Stage
  <1>6. CASE m \notin deliveredOn
    <2>1. Move(a, m, "prepare") /\ processedBy' = processedBy
      BY <1>6 DEF ConfirmMessage, ConfirmTask
    <2>. QED
      BY <1>1, <1>2, <1>3, <1>4, <2>1, MoveStep DEF Stage
  <1>. QED
    BY <1>5, <1>6

(* A lost outcome: the message is prepared again, whatever becomes of the  *)
(* transaction.                                                            *)
LEMMA LoseOutcomeStep ==
    ASSUME PairIInv, NEW a \in Agents, NEW m \in PairMessage, LoseOutcome(a, m)
    PROVE  PairIInv'
  <1>1. /\ Move(a, m, "prepare")
        /\ Submits(a, m, <<Nothing>>)
    BY DEF LoseOutcome, SubmitTask, OnReprepare, Forget, Submits
  <1>2. UNCHANGED <<messages, processedBy, recipientIsm, deliveredOn, reverted, reorged, orphaned>>
    BY DEF LoseOutcome, pairDb
  <1>3. /\ processedBy \in [Agents -> SUBSET PairMessage]
        /\ \A b \in Agents : processedBy[b] \ orphaned[b] \subseteq deliveredOn
    BY DEF PairIInv, PairTyped, AgentsSound, CommitsDelivered
  <1>. QED
    BY <1>1, <1>2, <1>3, MoveStep DEF Stage

(* A transaction that was given up is included after all. *)
LEMMA LandStep ==
    ASSUME PairIInv, NEW m \in PairMessage, Land(m)
    PROVE  PairIInv'
  <1>. USE DEF Land, pairDb, pairMemory, pairLog
  <1>1. PairTyped' /\ RoomForOne'
    BY DEF PairIInv, PairTyped, RoomForOne
  <1>2. CommitsDelivered' /\ WasteBounded'
    BY DEF PairIInv, AgentsSound, CommitsDelivered, WasteBounded
  <1>3. SendsOnlyAccepted'
    BY VerdictStays DEF PairIInv, AgentsSound, SendsOnlyAccepted
  <1>. QED
    BY <1>1, <1>2, <1>3 DEF PairIInv, AgentsSound

(* A reorg makes room for one more; what it undoes of the recorded         *)
(* messages is orphaned.                                                   *)
LEMMA UndoDeliveryStep ==
    ASSUME PairIInv, NEW m \in PairMessage, UndoDelivery(m)
    PROVE  PairIInv'
  <1>. USE DEF UndoDelivery, pairDb, pairMemory
  <1>1. /\ reorged' \in [PairMessage -> Nat]
        /\ reorged'[m] = reorged[m] + 1
        /\ \A n \in PairMessage : n # m => reorged'[n] = reorged[n]
    BY DEF PairIInv, PairTyped
  <1>2. PairTyped'
    <2>1. orphaned' \in [Agents -> SUBSET PairMessage]
      BY DEF PairIInv, PairTyped
    <2>. QED
      BY <1>1, <2>1 DEF PairIInv, PairTyped
  <1>3. \A a \in Agents, n \in PairMessage : reverted[a][n] \in Nat /\ reorged[n] \in Nat
    BY DEF PairIInv, PairTyped
  <1>4. WasteBounded' /\ RoomForOne'
    BY <1>1, <1>3 DEF PairIInv, RoomForOne, AgentsSound, WasteBounded
  <1>5. CommitsDelivered'
    BY DEF PairIInv, AgentsSound, CommitsDelivered
  <1>6. SendsOnlyAccepted'
    BY VerdictStays DEF PairIInv, AgentsSound, SendsOnlyAccepted
  <1>. QED
    BY <1>2, <1>4, <1>5, <1>6 DEF PairIInv, AgentsSound

(* After a restart nothing waits in submit. *)
LEMMA RestartAgentStep ==
    ASSUME PairIInv, NEW a \in Agents, RestartAgent(a)
    PROVE  PairIInv'
  <1>. USE DEF RestartAgent, pairDb, pairChain
  <1>1. PairTyped'
    BY DEF PairIInv, PairTyped, Stage
  <1>2. \A b \in Agents, m \in PairMessage :
            \/ stage'[b][m] = "new"
            \/ stage'[b][m] = stage[b][m] /\ submission'[b][m] = submission[b][m]
    BY DEF PairIInv, PairTyped
  <1>3. RoomForOne'
    BY <1>2 DEF PairIInv, RoomForOne
  <1>4. CommitsDelivered' /\ WasteBounded'
    BY DEF PairIInv, AgentsSound, CommitsDelivered, WasteBounded
  <1>5. SendsOnlyAccepted'
    BY <1>2, VerdictStays DEF PairIInv, AgentsSound, SendsOnlyAccepted
  <1>. QED
    BY <1>1, <1>3, <1>4, <1>5 DEF PairIInv, AgentsSound

(* The syncs and the two processors *)
LEMMA BackgroundStep ==
    ASSUME PairIInv, NEW a \in Agents, Background(a)
    PROVE  PairIInv'
  <1>. USE DEF pairDb, pairMemory, pairChain, pairLog
  <1>1. messages \in [Agents -> SUBSET PairMessage]
    BY DEF PairIInv, PairTyped
  <1>2. CASE ProcessLeaf(a)
    BY <1>1, <1>2, QuietStep DEF ProcessLeaf
  <1>3. CASE ProcessMessage(a)
    BY <1>3, ProcessMessageStep
  <1>4. ASSUME NEW m \in PairMessage, SyncMessage(a, m) PROVE PairIInv'
    <2>1. messages' \in [Agents -> SUBSET PairMessage]
      BY <1>1, <1>4 DEF SyncMessage
    <2>. QED
      BY <1>4, <2>1, QuietStep DEF SyncMessage
  <1>5. ASSUME NEW m \in PairMessage, SyncInsertion(a, m) PROVE PairIInv'
    BY <1>1, <1>5, QuietStep DEF SyncInsertion
  <1>6. ASSUME NEW m \in PairMessage, SyncPayment(a, m) PROVE PairIInv'
    BY <1>1, <1>6, QuietStep DEF SyncPayment
  <1>. QED
    BY <1>2, <1>3, <1>4, <1>5, <1>6 DEF Background

LEMMA PairNextIInv == PairIInv /\ [PairNext]_pairVars => PairIInv'
  <1>. SUFFICES ASSUME PairIInv, [PairNext]_pairVars PROVE PairIInv'
    OBVIOUS
  <1>1. messages \in [Agents -> SUBSET PairMessage]
    BY DEF PairIInv, PairTyped
  <1>2. CASE \E a \in Agents : Background(a) \/ RestartAgent(a)
    BY <1>2, BackgroundStep, RestartAgentStep
  <1>3. CASE \E a \in Agents, m \in PairMessage : OperationStep(a, m) \/ LoseOutcome(a, m)
    BY <1>3, CheckDeliveredStep, BuildSubmissionStep, EstimateCostsStep,
       SubmitTransactionStep, ConfirmMessageStep, LoseOutcomeStep DEF OperationStep
  <1>4. CASE PublishCheckpoint
    BY <1>1, <1>4, QuietStep DEF PublishCheckpoint, pairDb, pairMemory, pairLog
  <1>5. CASE RequestValidity
    BY <1>1, <1>5, QuietStep DEF RequestValidity, pairDb, pairChain
  <1>6. CASE \E m \in PairMessage : Land(m) \/ UndoDelivery(m)
    BY <1>6, LandStep, UndoDeliveryStep
  <1>7. CASE UNCHANGED pairVars
    BY <1>1, <1>7, QuietStep DEF pairVars, pairDb, pairMemory, pairChain, pairLog
  <1>. QED
    BY <1>2, <1>3, <1>4, <1>5, <1>6, <1>7 DEF PairNext

-----------------------------------------------------------------------------
(* PendingMessage's prepare, submit and confirm run by any number of       *)
(* agents on one destination: what is recorded as processed is delivered   *)
(* unless a reorg undid it later, an agent's transactions for a message    *)
(* fail at most once more than reorgs undid it, and none is sent that the  *)
(* ISM would refuse.                                                       *)
THEOREM AgentsAreSound == PairSpec => []AgentsSound
  <1>1. PairInit => PairIInv
    BY PairInitIInv
  <1>2. PairIInv /\ [PairNext]_pairVars => PairIInv'
    BY PairNextIInv
  <1>3. PairIInv => AgentsSound
    BY DEF PairIInv
  <1>. QED
    BY <1>1, <1>2, <1>3, PTL DEF PairSpec
=============================================================================
