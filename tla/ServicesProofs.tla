--------------------------- MODULE ServicesProofs ---------------------------
(***************************************************************************)
(* Services the agents rely on.  The checkpoint submitters implement       *)
(* CheckpointStore, for any number of validators, leaves, wrong leaves and *)
(* crashes, and a reader of the stores may conclude that a checkpoint is   *)
(* one of the final tree.  The priorities of the RPC providers stay sound  *)
(* for any number of providers and of concurrent requests.  EnforcerSound  *)
(* holds for any list of policies, any estimates and any number of         *)
(* attempts, payments and lost outcomes.  No gas payment is missed or      *)
(* counted twice for any chain, chunk size, number of payments, restarts   *)
(* and stale tips.                                                         *)
(***************************************************************************)
EXTENDS ValidatorSubmitter, FallbackProvider, GasEnforcer, GasPaymentSync, Integers,
        FiniteSetTheorems, SequenceTheorems, TLAPS

-----------------------------------------------------------------------------
(* The inductive invariant                                                 *)

Checkpoint == [index : Nat, root : Seq(Nat), message_id : Nat]

SubmitterState ==
    [pc : {"off", "poll", "ingest", "fetch", "write", "latest", "idle"},
     tree : Seq(Nat), target : Seq(Nat), queue : Seq(Checkpoint), curr : Nat]

Typed ==
    /\ treeHook \in Seq(Nat)
    /\ DOMAIN published = Signers
    /\ latestIndex \in [Signers -> Seq(Nat)]
    /\ DOMAIN insertions = Signers
    /\ \A v \in Signers : \A i \in DOMAIN insertions[v] : insertions[v][i] \in Nat
    /\ submitter \in [Signers -> [Submitters -> SubmitterState]]

(* The tree t is one that the hook had. *)
Prefix(t, hook) == Len(t) <= Len(hook) /\ \A i \in 1 .. Len(t) : t[i] = hook[i]

(* The queue holds checkpoints of the submitter's own tree, the last one   *)
(* that of the whole tree, unless nothing was ingested.                    *)
QueueOfTree(s) ==
    /\ \A j \in 1 .. Len(s.queue) :
        /\ s.queue[j].index < Len(s.tree)
        /\ s.queue[j] = Store!CheckpointOf(s.tree, s.queue[j].index)
    /\ s.queue # <<>> => s.queue[Len(s.queue)].index = Len(s.tree) - 1

(* What each place of the loop knows, stored being the indices published:  *)
(* while ingesting, only the target is known to be of the hook; past the   *)
(* comparison the tree is, and once the queue is empty its last checkpoint *)
(* is in the store.                                                        *)
PlaceSound(s, hook, stored) ==
    /\ QueueOfTree(s)
    /\ s.pc = "ingest" => Prefix(s.target, hook) /\ Len(s.tree) <= Len(s.target)
    /\ s.pc \in {"poll", "fetch", "write", "latest"} => Prefix(s.tree, hook)
    /\ s.pc \in {"off", "poll", "idle", "latest"} => s.queue = <<>>
    /\ s.pc = "write" => s.queue # <<>>
    /\ s.pc \in {"fetch", "latest"} /\ s.queue = <<>> =>
            Len(s.tree) >= 1 /\ Len(s.tree) - 1 \in stored

PlacesSound ==
    \A v \in Signers, k \in Submitters :
        PlaceSound(submitter[v][k], treeHook, DOMAIN published[v])

IInv == Typed /\ PlacesSound

-----------------------------------------------------------------------------
(* Trees and checkpoints                                                   *)

(* A checkpoint depends on the leaves up to its index only. *)
LEMMA CheckpointOfPrefix ==
    ASSUME NEW t \in Seq(Nat), NEW u \in Seq(Nat), Prefix(t, u),
           NEW i \in Nat, i < Len(t)
    PROVE  Store!CheckpointOf(t, i) = Store!CheckpointOf(u, i)
  <1>1. i + 1 \in 1 .. Len(t) /\ t[i + 1] = u[i + 1]
    BY DEF Prefix
  <1>2. SubSeq(t, 1, i + 1) = SubSeq(u, 1, i + 1)
    <2>1. \A j \in 1 .. i + 1 : t[j] = u[j]
      BY <1>1 DEF Prefix
    <2>. QED
      BY <2>1, <1>1 DEF Prefix
  <1>. QED
    BY <1>1, <1>2 DEF Store!CheckpointOf

(* A checkpoint of a tree is one by its type. *)
LEMMA CheckpointType ==
    ASSUME NEW t \in Seq(Nat), NEW i \in Nat, i < Len(t)
    PROVE  Store!CheckpointOf(t, i) \in Checkpoint
  <1>1. SubSeq(t, 1, i + 1) \in Seq(Nat) /\ t[i + 1] \in Nat
    OBVIOUS
  <1>. QED
    BY <1>1 DEF Store!CheckpointOf, Checkpoint

(* What was read of the hook is a prefix of it. *)
LEMMA ReadIsPrefix ==
    ASSUME NEW hook \in Seq(Nat), NEW n \in 1 .. Len(hook)
    PROVE  /\ SubSeq(hook, 1, n) \in Seq(Nat) /\ Len(SubSeq(hook, 1, n)) = n
           /\ Prefix(SubSeq(hook, 1, n), hook)
  <1>1. /\ SubSeq(hook, 1, n) \in Seq(Nat) /\ Len(SubSeq(hook, 1, n)) = n
        /\ \A i \in 1 .. n : SubSeq(hook, 1, n)[i] = hook[i]
    OBVIOUS
  <1>. QED
    BY <1>1 DEF Prefix

(* The hook only grows and so does a store: no place becomes unsound. *)
LEMMA PlaceSoundGrows ==
    ASSUME NEW s \in SubmitterState, NEW hook \in Seq(Nat), NEW more \in Seq(Nat),
           NEW stored, NEW larger,
           Prefix(hook, more), stored \subseteq larger, PlaceSound(s, hook, stored)
    PROVE  PlaceSound(s, more, larger)
  <1>1. ASSUME NEW t \in Seq(Nat), Prefix(t, hook) PROVE Prefix(t, more)
    BY <1>1 DEF Prefix
  <1>2. s.tree \in Seq(Nat) /\ s.target \in Seq(Nat)
    BY DEF SubmitterState
  <1>. QED
    BY <1>1, <1>2 DEF PlaceSound

(* A submitter that does not run. *)
LEMMA NotRunningSound ==
    ASSUME NEW hook, NEW stored
    PROVE  NotRunning \in SubmitterState /\ PlaceSound(NotRunning, hook, stored)
  <1>1. <<>> \in Seq(Nat) /\ <<>> \in Seq(Checkpoint) /\ Len(<<>>) = 0
    OBVIOUS
  <1>. QED
    BY <1>1 DEF NotRunning, SubmitterState, PlaceSound, QueueOfTree, Prefix

-----------------------------------------------------------------------------
(* Every step keeps the invariant                                          *)

(* A step of one submitter, to a state that is sound where it is. *)
LEMMA OneSubmitter ==
    ASSUME IInv, NEW v \in Signers, NEW k \in Submitters, NEW s \in SubmitterState,
           submitter' = [submitter EXCEPT ![v][k] = s],
           UNCHANGED <<treeHook, insertions>>,
           DOMAIN published' = Signers,
           \A w \in Signers : DOMAIN published[w] \subseteq DOMAIN published'[w],
           latestIndex' \in [Signers -> Seq(Nat)],
           PlaceSound(s, treeHook, DOMAIN published'[v])
    PROVE  IInv'
  <1>1. Typed'
    BY DEF IInv, Typed
  <1>2. ASSUME NEW w \in Signers, NEW j \in Submitters
        PROVE  PlaceSound(submitter'[w][j], treeHook', DOMAIN published'[w])
    <2>1. CASE w = v /\ j = k
      BY <2>1 DEF IInv, Typed
    <2>2. CASE ~(w = v /\ j = k)
      <3>1. submitter'[w][j] = submitter[w][j] /\ submitter[w][j] \in SubmitterState
        BY <2>2 DEF IInv, Typed
      <3>2. PlaceSound(submitter[w][j], treeHook, DOMAIN published[w])
        BY DEF IInv, PlacesSound
      <3>3. Prefix(treeHook, treeHook) /\ treeHook \in Seq(Nat)
        BY DEF Prefix, IInv, Typed
      <3>. QED
        BY <3>1, <3>2, <3>3, PlaceSoundGrows
    <2>. QED
      BY <2>1, <2>2
  <1>. QED
    BY <1>1, <1>2 DEF IInv, PlacesSound

(* A step that leaves the stores alone. *)
LEMMA OneSubmitterOnly ==
    ASSUME IInv, NEW v \in Signers, NEW k \in Submitters, NEW s \in SubmitterState,
           SubmitterStep(v, k, s), UNCHANGED <<published, latestIndex>>,
           PlaceSound(s, treeHook, DOMAIN published[v])
    PROVE  IInv'
  <1>1. /\ submitter' = [submitter EXCEPT ![v][k] = s]
        /\ UNCHANGED <<treeHook, insertions>>
    BY DEF SubmitterStep
  <1>2. /\ DOMAIN published' = Signers /\ latestIndex' \in [Signers -> Seq(Nat)]
        /\ PlaceSound(s, treeHook, DOMAIN published'[v])
        /\ \A w \in Signers : DOMAIN published[w] \subseteq DOMAIN published'[w]
    BY DEF IInv, Typed
  <1>. QED
    BY <1>1, <1>2, OneSubmitter

(* What is known of the submitter that steps. *)
LEMMA Stepping ==
    ASSUME IInv, NEW v \in Signers, NEW k \in Submitters
    PROVE  /\ submitter[v][k] \in SubmitterState
           /\ PlaceSound(submitter[v][k], treeHook, DOMAIN published[v])
           /\ treeHook \in Seq(Nat)
  BY DEF IInv, Typed, PlacesSound

LEMMA InsertLeafStep ==
    ASSUME IInv, InsertLeaf
    PROVE  IInv'
  <1>1. /\ treeHook \in Seq(Nat) /\ treeHook' = Append(treeHook, Len(treeHook) + 1)
        /\ UNCHANGED <<published, latestIndex, insertions, submitter>>
    BY DEF InsertLeaf, Store!Insert, IInv, Typed
  <1>2. treeHook' \in Seq(Nat) /\ Prefix(treeHook, treeHook')
    BY <1>1 DEF Prefix
  <1>3. Typed'
    BY <1>1, <1>2 DEF IInv, Typed
  <1>4. ASSUME NEW v \in Signers, NEW k \in Submitters
        PROVE  PlaceSound(submitter'[v][k], treeHook', DOMAIN published'[v])
    BY <1>1, <1>2, Stepping, PlaceSoundGrows
  <1>. QED
    BY <1>3, <1>4 DEF IInv, PlacesSound

LEMMA IndexStep ==
    ASSUME IInv, NEW v \in Signers, NEW i, NEW leaf \in Nat, IndexInsertion(v, i, leaf)
    PROVE  IInv'
  <1>1. Typed'
    BY DEF IInv, Typed, IndexInsertion
  <1>. QED
    BY <1>1 DEF IInv, PlacesSound, IndexInsertion

(* All submitters of a validator stop. *)
LEMMA OffStep ==
    ASSUME IInv, NEW v \in Signers, Off(v),
           UNCHANGED <<treeHook, insertions, published, latestIndex>>
    PROVE  IInv'
  <1>1. Typed'
    BY NotRunningSound DEF IInv, Typed, Off
  <1>2. ASSUME NEW w \in Signers, NEW j \in Submitters
        PROVE  PlaceSound(submitter'[w][j], treeHook', DOMAIN published'[w])
    BY NotRunningSound DEF IInv, Typed, PlacesSound, Off
  <1>. QED
    BY <1>1, <1>2 DEF IInv, PlacesSound

LEMMA StartStep ==
    ASSUME IInv, NEW v \in Signers, StartSubmitters(v)
    PROVE  IInv'
  <1>1. PICK n \in 1 .. Len(treeHook) :
            submitter' = [submitter EXCEPT ![v] =
                [tip |-> [NotRunning EXCEPT !.pc = "poll", !.tree = SubSeq(treeHook, 1, n)],
                 backfill |->
                     [NotRunning EXCEPT !.pc = "ingest", !.target = SubSeq(treeHook, 1, n)]]]
    BY DEF StartSubmitters
  <1>. DEFINE read == SubSeq(treeHook, 1, n)
              polling == [NotRunning EXCEPT !.pc = "poll", !.tree = read]
              backfill == [NotRunning EXCEPT !.pc = "ingest", !.target = read]
  <1>2. treeHook \in Seq(Nat) /\ UNCHANGED <<treeHook, insertions, published, latestIndex>>
    BY DEF StartSubmitters, IInv, Typed
  <1>3. read \in Seq(Nat) /\ Len(read) = n /\ Prefix(read, treeHook)
    BY <1>2, ReadIsPrefix
  <1>. HIDE DEF read
  <1>4. <<>> \in Seq(Nat) /\ <<>> \in Seq(Checkpoint) /\ Len(<<>>) = 0
    OBVIOUS
  <1>5. polling \in SubmitterState /\ backfill \in SubmitterState
    BY <1>3, <1>4 DEF NotRunning, SubmitterState
  <1>6. ASSUME NEW stored
        PROVE  PlaceSound(polling, treeHook, stored) /\ PlaceSound(backfill, treeHook, stored)
    BY <1>3, <1>4 DEF NotRunning, PlaceSound, QueueOfTree
  <1>7. submitter' = [submitter EXCEPT ![v] = [tip |-> polling, backfill |-> backfill]]
    BY <1>1 DEF read
  <1>. HIDE DEF polling, backfill
  <1>8. /\ submitter' \in [Signers -> [Submitters -> SubmitterState]]
        /\ submitter'[v]["tip"] = polling /\ submitter'[v]["backfill"] = backfill
        /\ \A w \in Signers : w # v => submitter'[w] = submitter[w]
    <2>1. [tip |-> polling, backfill |-> backfill] \in [Submitters -> SubmitterState]
      BY <1>5 DEF Submitters
    <2>. QED
      BY <1>7, <2>1 DEF IInv, Typed
  <1>9. Typed'
    BY <1>2, <1>8 DEF IInv, Typed
  <1>10. ASSUME NEW w \in Signers, NEW j \in Submitters
         PROVE  PlaceSound(submitter'[w][j], treeHook', DOMAIN published'[w])
    <2>1. CASE w = v
      BY <2>1, <1>2, <1>6, <1>8 DEF Submitters
    <2>2. CASE w # v
      BY <2>2, <1>2, <1>8 DEF IInv, PlacesSound
    <2>. QED
      BY <2>1, <2>2
  <1>. QED
    BY <1>9, <1>10 DEF IInv, PlacesSound

LEMMA PollStep ==
    ASSUME IInv, NEW v \in Signers, NEW n \in 1 .. Len(treeHook), PollCheckpoint(v, n)
    PROVE  IInv'
  <1>. DEFINE s == submitter[v]["tip"]
              read == SubSeq(treeHook, 1, n)
              next == [s EXCEPT !.pc = "ingest", !.target = read]
  <1>1. "tip" \in Submitters
    BY DEF Submitters
  <1>2. s \in SubmitterState /\ PlaceSound(s, treeHook, DOMAIN published[v])
        /\ treeHook \in Seq(Nat)
    BY <1>1, Stepping
  <1>3. read \in Seq(Nat) /\ Prefix(read, treeHook)
    BY <1>2, ReadIsPrefix
  <1>4. /\ s.pc = "poll" /\ ~(Len(read) < Len(s.tree))
        /\ SubmitterStep(v, "tip", next) /\ UNCHANGED <<published, latestIndex>>
    BY DEF PollCheckpoint, TreeExceeds
  <1>. HIDE DEF s, read
  <1>5. next \in SubmitterState
    BY <1>2, <1>3 DEF SubmitterState
  <1>6. PlaceSound(next, treeHook, DOMAIN published[v])
    <2>1. next.tree = s.tree /\ next.queue = s.queue /\ next.target = read /\ next.pc = "ingest"
      BY <1>2 DEF SubmitterState
    <2>2. Len(read) \in Nat /\ Len(s.tree) \in Nat
      BY <1>2, <1>3 DEF SubmitterState
    <2>. QED
      BY <1>2, <1>3, <1>4, <2>1, <2>2 DEF PlaceSound, QueueOfTree
  <1>. HIDE DEF next
  <1>. QED
    BY <1>1, <1>4, <1>5, <1>6, OneSubmitterOnly

LEMMA IngestStep ==
    ASSUME IInv, NEW v \in Signers, NEW k \in Submitters, IngestInsertion(v, k)
    PROVE  IInv'
  <1>. DEFINE s == submitter[v][k]
              i == Len(s.tree)
              leaf == insertions[v][i]
              tree == Append(s.tree, leaf)
              checkpoint == Store!CheckpointOf(tree, i)
              queue == Append(s.queue, checkpoint)
              next == [s EXCEPT !.tree = tree, !.queue = queue]
  <1>1. s \in SubmitterState /\ PlaceSound(s, treeHook, DOMAIN published[v])
    BY Stepping
  <1>2. /\ s.pc = "ingest" /\ i < Len(s.target) /\ leaf \in Nat
        /\ SubmitterStep(v, k, next) /\ UNCHANGED <<published, latestIndex>>
    BY DEF IngestInsertion, IInv, Typed
  <1>. HIDE DEF s, leaf
  <1>3. s.tree \in Seq(Nat) /\ s.queue \in Seq(Checkpoint) /\ s.target \in Seq(Nat)
    BY <1>1 DEF SubmitterState
  <1>4. /\ i \in Nat /\ tree \in Seq(Nat) /\ Len(tree) = i + 1 /\ Prefix(s.tree, tree)
    BY <1>2, <1>3 DEF Prefix
  <1>. HIDE DEF tree
  <1>5. checkpoint \in Checkpoint /\ checkpoint.index = i
    <2>1. checkpoint \in Checkpoint
      BY <1>4, CheckpointType
    <2>. QED
      BY <2>1 DEF Store!CheckpointOf
  <1>6. /\ queue \in Seq(Checkpoint) /\ Len(queue) = Len(s.queue) + 1
        /\ queue[Len(queue)] = checkpoint
        /\ \A j \in 1 .. Len(s.queue) : queue[j] = s.queue[j]
    BY <1>3, <1>5
  <1>7. /\ next \in SubmitterState
        /\ next.tree = tree /\ next.queue = queue /\ next.target = s.target
        /\ next.pc = "ingest"
    <2>. HIDE DEF queue
    <2>. QED
      BY <1>1, <1>2, <1>4, <1>6 DEF SubmitterState
  <1>8. QueueOfTree(next)
    <2>1. ASSUME NEW j \in 1 .. Len(queue)
          PROVE  queue[j].index < Len(tree) /\ queue[j] = Store!CheckpointOf(tree, queue[j].index)
      <3>1. CASE j = Len(queue)
        BY <3>1, <1>4, <1>5, <1>6
      <3>2. CASE j # Len(queue)
        <4>1. j \in 1 .. Len(s.queue) /\ queue[j] = s.queue[j]
          BY <3>2, <1>3, <1>6
        <4>2. /\ s.queue[j] \in Checkpoint /\ s.queue[j].index \in Nat
              /\ s.queue[j].index < Len(s.tree)
              /\ s.queue[j] = Store!CheckpointOf(s.tree, s.queue[j].index)
          <5>1. s.queue[j] \in Checkpoint
            BY <4>1, <1>3
          <5>2. s.queue[j].index \in Nat
            BY <5>1 DEF Checkpoint
          <5>3. QueueOfTree(s)
            BY <1>1 DEF PlaceSound
          <5>. QED
            BY <4>1, <5>1, <5>2, <5>3 DEF QueueOfTree
        <4>3. Store!CheckpointOf(s.tree, s.queue[j].index)
                = Store!CheckpointOf(tree, s.queue[j].index)
          BY <4>2, <1>3, <1>4, CheckpointOfPrefix
        <4>. QED
          BY <4>1, <4>2, <4>3, <1>4
      <3>. QED
        BY <3>1, <3>2
    <2>2. queue[Len(queue)].index = Len(tree) - 1
      BY <1>4, <1>5, <1>6
    <2>. QED
      BY <2>1, <2>2, <1>7 DEF QueueOfTree
  <1>9. PlaceSound(next, treeHook, DOMAIN published[v])
    <2>1. Prefix(s.target, treeHook) /\ Len(tree) <= Len(s.target)
      BY <1>1, <1>2, <1>3, <1>4 DEF PlaceSound
    <2>. QED
      BY <2>1, <1>7, <1>8 DEF PlaceSound
  <1>. HIDE DEF next
  <1>. QED
    BY <1>2, <1>7, <1>9, OneSubmitterOnly

LEMMA CompareStep ==
    ASSUME IInv, NEW v \in Signers, NEW k \in Submitters, CompareCheckpoint(v, k)
    PROVE  IInv'
  <1>. DEFINE s == submitter[v][k]
              place == IF s.queue = <<>> THEN Waiting(k) ELSE "fetch"
              next == [s EXCEPT !.pc = place]
  <1>1. CASE s.tree # s.target
    BY <1>1, OffStep DEF CompareCheckpoint
  <1>2. CASE s.tree = s.target
    <2>1. s \in SubmitterState /\ PlaceSound(s, treeHook, DOMAIN published[v])
      BY Stepping
    <2>2. /\ s.pc = "ingest"
          /\ SubmitterStep(v, k, next) /\ UNCHANGED <<published, latestIndex>>
      BY <1>2 DEF CompareCheckpoint
    <2>3. place \in {"poll", "idle", "fetch"} /\ (place = "fetch" <=> s.queue # <<>>)
      BY DEF Waiting
    <2>. HIDE DEF s, place
    <2>4. /\ next \in SubmitterState /\ next.pc = place
          /\ next.tree = s.tree /\ next.queue = s.queue
      BY <2>1, <2>3 DEF SubmitterState
    <2>5. PlaceSound(next, treeHook, DOMAIN published[v])
      BY <1>2, <2>1, <2>2, <2>3, <2>4 DEF PlaceSound, QueueOfTree
    <2>. HIDE DEF next
    <2>. QED
      BY <2>2, <2>4, <2>5, OneSubmitterOnly
  <1>. QED
    BY <1>1, <1>2

(* The head of a queue of checkpoints of the tree is past: what remains. *)
LEMMA QueueTail ==
    ASSUME NEW s \in SubmitterState, QueueOfTree(s), s.queue # <<>>
    PROVE  LET next == [s EXCEPT !.pc = "fetch", !.queue = Tail(s.queue)] IN
           /\ next \in SubmitterState /\ QueueOfTree(next)
           /\ next.pc = "fetch" /\ next.tree = s.tree /\ next.queue = Tail(s.queue)
           /\ Tail(s.queue) = <<>> => Head(s.queue).index = Len(s.tree) - 1
           /\ Head(s.queue) \in Checkpoint /\ Head(s.queue).index < Len(s.tree)
           /\ Head(s.queue) = Store!CheckpointOf(s.tree, Head(s.queue).index)
  <1>. DEFINE rest == Tail(s.queue)
              next == [s EXCEPT !.pc = "fetch", !.queue = rest]
  <1>1. s.queue \in Seq(Checkpoint)
    BY DEF SubmitterState
  <1>2. /\ Len(s.queue) \in Nat \ {0} /\ rest \in Seq(Checkpoint)
        /\ Len(rest) = Len(s.queue) - 1
        /\ \A j \in 1 .. Len(rest) : rest[j] = s.queue[j + 1]
        /\ Head(s.queue) = s.queue[1] /\ s.queue[1] \in Checkpoint
    BY <1>1, HeadTailProperties, EmptySeq
  <1>. HIDE DEF rest
  <1>3. /\ next \in SubmitterState
        /\ next.pc = "fetch" /\ next.tree = s.tree /\ next.queue = rest
    BY <1>2 DEF SubmitterState
  <1>4. rest = <<>> => Len(s.queue) = 1
    BY <1>2
  <1>5. QueueOfTree(next)
    <2>1. ASSUME NEW j \in 1 .. Len(rest)
          PROVE  /\ rest[j].index < Len(s.tree)
                 /\ rest[j] = Store!CheckpointOf(s.tree, rest[j].index)
      <3>1. j + 1 \in 1 .. Len(s.queue)
        BY <1>2
      <3>. QED
        BY <3>1, <1>2 DEF QueueOfTree
    <2>2. rest # <<>> => rest[Len(rest)].index = Len(s.tree) - 1
      <3>1. ASSUME rest # <<>> PROVE Len(rest) \in 1 .. Len(rest) /\ Len(rest) + 1 = Len(s.queue)
        BY <3>1, <1>2, EmptySeq
      <3>. QED
        BY <3>1, <1>2 DEF QueueOfTree
    <2>. QED
      BY <2>1, <2>2, <1>3 DEF QueueOfTree
  <1>6. 1 \in 1 .. Len(s.queue)
    BY <1>2
  <1>. QED
    BY <1>2, <1>3, <1>4, <1>5, <1>6 DEF QueueOfTree, rest

LEMMA FetchStep ==
    ASSUME IInv, NEW v \in Signers, NEW k \in Submitters, FetchCheckpoint(v, k)
    PROVE  IInv'
  <1>. DEFINE s == submitter[v][k]
              skip == [s EXCEPT !.pc = "fetch", !.queue = Tail(s.queue)]
              write == [s EXCEPT !.pc = "write"]
              stored == DOMAIN published[v]
  <1>1. s \in SubmitterState /\ PlaceSound(s, treeHook, stored)
    BY Stepping
  <1>2. /\ s.pc = "fetch" /\ s.queue # <<>> /\ UNCHANGED <<published, latestIndex>>
        /\ IF Head(s.queue).index \in stored
           THEN SubmitterStep(v, k, [s EXCEPT !.queue = Tail(@)])
           ELSE SubmitterStep(v, k, write)
    BY DEF FetchCheckpoint
  <1>. HIDE DEF s, stored
  <1>3. QueueOfTree(s) /\ Prefix(s.tree, treeHook)
    BY <1>1, <1>2 DEF PlaceSound
  <1>4. CASE Head(s.queue).index \in stored
    <2>1. skip = [s EXCEPT !.queue = Tail(s.queue)]
      BY <1>1, <1>2 DEF SubmitterState
    <2>2. SubmitterStep(v, k, skip)
      BY <1>2, <1>4, <2>1
    <2>3. /\ skip \in SubmitterState /\ QueueOfTree(skip) /\ skip.pc = "fetch"
          /\ skip.tree = s.tree /\ skip.queue = Tail(s.queue)
          /\ Tail(s.queue) = <<>> => Head(s.queue).index = Len(s.tree) - 1
          /\ Head(s.queue) \in Checkpoint
      BY <1>1, <1>2, <1>3, QueueTail
    <2>4. Len(s.tree) \in Nat /\ Head(s.queue).index \in Nat
      BY <1>1, <2>3 DEF SubmitterState, Checkpoint
    <2>. HIDE DEF skip
    <2>5. skip.queue = <<>> => Len(skip.tree) >= 1 /\ Len(skip.tree) - 1 \in stored
      <3>. SUFFICES ASSUME skip.queue = <<>>
                    PROVE  Len(skip.tree) >= 1 /\ Len(skip.tree) - 1 \in stored
        OBVIOUS
      <3>1. Head(s.queue).index = Len(s.tree) - 1
        BY <2>3, Zenon
      <3>2. Len(s.tree) - 1 \in stored
        BY <1>4, <3>1, Zenon
      <3>3. Len(s.tree) >= 1
        BY <2>4, <3>1
      <3>. QED
        BY <2>3, <3>2, <3>3
    <2>6. PlaceSound(skip, treeHook, stored)
      BY <1>3, <2>3, <2>5 DEF PlaceSound
    <2>. QED
      BY <1>2, <2>2, <2>3, <2>6, OneSubmitterOnly DEF stored
  <1>5. CASE Head(s.queue).index \notin stored
    <2>1. SubmitterStep(v, k, write)
      BY <1>2, <1>5
    <2>2. /\ write \in SubmitterState /\ write.pc = "write"
          /\ write.tree = s.tree /\ write.queue = s.queue
      BY <1>1 DEF SubmitterState
    <2>. HIDE DEF write
    <2>3. PlaceSound(write, treeHook, stored)
      BY <1>2, <1>3, <2>2 DEF PlaceSound, QueueOfTree
    <2>. QED
      BY <1>2, <2>1, <2>2, <2>3, OneSubmitterOnly DEF stored
  <1>. QED
    BY <1>4, <1>5

(* The checkpoint being written is the hook's at its index, and its index  *)
(* is in the store afterwards.                                             *)
LEMMA WritesHook ==
    ASSUME IInv, NEW v \in Signers, NEW k \in Submitters, WriteCheckpoint(v, k)
    PROVE  LET c == Head(submitter[v][k].queue) IN
           /\ c \in Checkpoint /\ c.index \in 0 .. Len(treeHook) - 1
           /\ c = Store!CheckpointOf(treeHook, c.index)
           /\ Store!Published(v, c)
           /\ DOMAIN published' = Signers /\ DOMAIN published'[v] = DOMAIN published[v] \cup {c.index}
           /\ \A w \in Signers : DOMAIN published[w] \subseteq DOMAIN published'[w]
  <1>. DEFINE s == submitter[v][k]
              c == Head(s.queue)
  <1>1. s \in SubmitterState /\ PlaceSound(s, treeHook, DOMAIN published[v])
        /\ treeHook \in Seq(Nat)
    BY Stepping
  <1>2. s.pc = "write" /\ Store!Published(v, c)
    BY DEF WriteCheckpoint
  <1>. HIDE DEF s
  <1>3. QueueOfTree(s) /\ Prefix(s.tree, treeHook) /\ s.queue # <<>>
    BY <1>1, <1>2 DEF PlaceSound
  <1>4. /\ c \in Checkpoint /\ c.index < Len(s.tree)
        /\ c = Store!CheckpointOf(s.tree, c.index)
    BY <1>1, <1>3, QueueTail
  <1>. HIDE DEF c
  <1>5. c.index \in Nat /\ s.tree \in Seq(Nat) /\ Len(s.tree) <= Len(treeHook)
    BY <1>1, <1>3, <1>4 DEF Checkpoint, SubmitterState, Prefix
  <1>6. c = Store!CheckpointOf(treeHook, c.index)
    BY <1>1, <1>3, <1>4, <1>5, CheckpointOfPrefix
  <1>7. c.index \in 0 .. Len(treeHook) - 1
    BY <1>1, <1>4, <1>5
  <1>8. /\ DOMAIN published' = Signers
        /\ DOMAIN published'[v] = DOMAIN published[v] \cup {c.index}
        /\ \A w \in Signers : DOMAIN published[w] \subseteq DOMAIN published'[w]
    <2>1. DOMAIN published = Signers
      BY DEF IInv, Typed
    <2>. QED
      BY <1>2, <2>1 DEF Store!Published
  <1>. QED
    BY <1>2, <1>4, <1>6, <1>7, <1>8 DEF c, s

LEMMA WriteStep ==
    ASSUME IInv, NEW v \in Signers, NEW k \in Submitters, WriteCheckpoint(v, k)
    PROVE  IInv'
  <1>. DEFINE s == submitter[v][k]
              c == Head(s.queue)
              next == [s EXCEPT !.pc = "fetch", !.queue = Tail(s.queue)]
  <1>1. s \in SubmitterState /\ PlaceSound(s, treeHook, DOMAIN published[v])
    BY Stepping
  <1>2. /\ s.pc = "write" /\ submitter' = [submitter EXCEPT ![v][k] = next]
        /\ UNCHANGED <<treeHook, insertions, latestIndex>>
    BY DEF WriteCheckpoint, SubmitterStep
  <1>3. /\ c \in Checkpoint /\ DOMAIN published' = Signers /\ c.index \in DOMAIN published'[v]
        /\ \A w \in Signers : DOMAIN published[w] \subseteq DOMAIN published'[w]
    BY WritesHook
  <1>. HIDE DEF s
  <1>4. QueueOfTree(s) /\ Prefix(s.tree, treeHook) /\ s.queue # <<>>
    BY <1>1, <1>2 DEF PlaceSound
  <1>5. /\ next \in SubmitterState /\ QueueOfTree(next) /\ next.pc = "fetch"
        /\ next.tree = s.tree /\ next.queue = Tail(s.queue)
        /\ Tail(s.queue) = <<>> => c.index = Len(s.tree) - 1
    BY <1>1, <1>4, QueueTail
  <1>6. Len(s.tree) \in Nat /\ c.index \in Nat
    BY <1>1, <1>3 DEF SubmitterState, Checkpoint
  <1>. HIDE DEF next, c
  <1>7. next.queue = <<>> => Len(next.tree) >= 1 /\ Len(next.tree) - 1 \in DOMAIN published'[v]
    <2>. SUFFICES ASSUME next.queue = <<>>
                  PROVE  Len(next.tree) >= 1 /\ Len(next.tree) - 1 \in DOMAIN published'[v]
      OBVIOUS
    <2>1. c.index = Len(s.tree) - 1
      BY <1>5, Zenon
    <2>2. Len(s.tree) - 1 \in DOMAIN published'[v]
      BY <1>3, <2>1, Zenon
    <2>3. Len(s.tree) >= 1
      BY <1>6, <2>1
    <2>. QED
      BY <1>5, <2>2, <2>3
  <1>8. PlaceSound(next, treeHook, DOMAIN published'[v])
    BY <1>4, <1>5, <1>7 DEF PlaceSound
  <1>9. latestIndex' \in [Signers -> Seq(Nat)]
    BY <1>2 DEF IInv, Typed
  <1>. QED
    BY <1>2, <1>3, <1>5, <1>8, <1>9, OneSubmitter

LEMMA ReadLatestStep ==
    ASSUME IInv, NEW v \in Signers, NEW k \in Submitters, ReadLatestIndex(v, k)
    PROVE  IInv'
  <1>. DEFINE s == submitter[v][k]
              curr == IF latestIndex[v] = <<>> THEN 0 ELSE latestIndex[v][1]
              place == IF Len(s.tree) - 1 > curr THEN "latest" ELSE Waiting(k)
              next == [s EXCEPT !.curr = curr, !.pc = place]
  <1>1. s \in SubmitterState /\ PlaceSound(s, treeHook, DOMAIN published[v])
    BY Stepping
  <1>2. /\ s.pc = "fetch" /\ s.queue = <<>>
        /\ SubmitterStep(v, k, next) /\ UNCHANGED <<published, latestIndex>>
    BY DEF ReadLatestIndex
  <1>3. curr \in Nat
    <2>1. latestIndex[v] \in Seq(Nat)
      BY DEF IInv, Typed
    <2>. QED
      BY <2>1
  <1>4. place \in {"latest", "poll", "idle"}
    BY DEF Waiting
  <1>. HIDE DEF s, curr, place
  <1>5. /\ next \in SubmitterState /\ next.pc = place
        /\ next.tree = s.tree /\ next.queue = s.queue
    BY <1>1, <1>3, <1>4 DEF SubmitterState
  <1>. HIDE DEF next
  <1>6. PlaceSound(next, treeHook, DOMAIN published[v])
    BY <1>1, <1>2, <1>4, <1>5 DEF PlaceSound, QueueOfTree
  <1>. QED
    BY <1>2, <1>5, <1>6, OneSubmitterOnly

LEMMA WriteLatestStep ==
    ASSUME IInv, NEW v \in Signers, NEW k \in Submitters, WriteLatestIndex(v, k)
    PROVE  IInv'
  <1>. DEFINE s == submitter[v][k]
              next == [s EXCEPT !.pc = Waiting(k)]
  <1>1. s \in SubmitterState /\ PlaceSound(s, treeHook, DOMAIN published[v])
    BY Stepping
  <1>2. /\ s.pc = "latest" /\ latestIndex' = [latestIndex EXCEPT ![v] = <<Len(s.tree) - 1>>]
        /\ submitter' = [submitter EXCEPT ![v][k] = next]
        /\ UNCHANGED <<treeHook, insertions, published>>
    BY DEF WriteLatestIndex, SubmitterStep
  <1>. HIDE DEF s
  <1>3. /\ Waiting(k) \in {"poll", "idle"}
        /\ Len(s.tree) - 1 \in Nat /\ s.queue = <<>> /\ Prefix(s.tree, treeHook) /\ QueueOfTree(s)
    BY <1>1, <1>2 DEF Waiting, PlaceSound, SubmitterState
  <1>4. /\ next \in SubmitterState /\ next.pc = Waiting(k)
        /\ next.tree = s.tree /\ next.queue = s.queue
    BY <1>1, <1>3 DEF SubmitterState
  <1>. HIDE DEF next
  <1>5. PlaceSound(next, treeHook, DOMAIN published'[v])
    BY <1>3, <1>4 DEF PlaceSound, QueueOfTree
  <1>6. /\ latestIndex' \in [Signers -> Seq(Nat)] /\ DOMAIN published' = Signers
        /\ \A w \in Signers : DOMAIN published[w] \subseteq DOMAIN published'[w]
    BY <1>2, <1>3 DEF IInv, Typed
  <1>. QED
    BY <1>2, <1>4, <1>5, <1>6, OneSubmitter

(* The invariant holds for ever. *)
THEOREM SubmittersInvariant == SubmittersSpec => []IInv
  <1>1. Init_Submitters => IInv
    <2>. SUFFICES ASSUME Init_Submitters PROVE IInv
      OBVIOUS
    <2>1. /\ treeHook = <<>> /\ published = [v \in Signers |-> <<>>]
          /\ latestIndex = [v \in Signers |-> <<>>] /\ insertions = [v \in Signers |-> <<>>]
          /\ submitter = [v \in Signers |-> [k \in Submitters |-> NotRunning]]
      BY DEF Init_Submitters, Store!StoreInit
    <2>2. <<>> \in Seq(Nat) /\ DOMAIN <<>> = {}
      OBVIOUS
    <2>3. Typed
      BY <2>1, <2>2, NotRunningSound DEF Typed
    <2>4. PlacesSound
      BY <2>1, NotRunningSound DEF PlacesSound
    <2>. QED
      BY <2>3, <2>4 DEF IInv
  <1>2. IInv /\ [Next_Submitters]_submitterVars => IInv'
    <2>. SUFFICES ASSUME IInv, [Next_Submitters]_submitterVars PROVE IInv'
      OBVIOUS
    <2>1. CASE InsertLeaf
      BY <2>1, InsertLeafStep
    <2>2. ASSUME NEW v \in Signers, IndexFinal(v) PROVE IInv'
      <3>1. PICK i \in 0 .. (Len(treeHook) - 1) : IndexInsertion(v, i, treeHook[i + 1])
        BY <2>2 DEF IndexFinal
      <3>2. treeHook[i + 1] \in Nat
        BY DEF IInv, Typed
      <3>. QED
        BY <3>1, <3>2, IndexStep
    <2>3. ASSUME NEW v \in Signers, IndexAbandoned(v) PROVE IInv'
      <3>1. PICK i : IndexInsertion(v, i, 0)
        BY <2>3 DEF IndexAbandoned
      <3>2. 0 \in Nat
        OBVIOUS
      <3>. QED
        BY <3>1, <3>2, IndexStep
    <2>4. ASSUME NEW v \in Signers, CrashValidator(v) PROVE IInv'
      BY <2>4, OffStep DEF CrashValidator
    <2>5. ASSUME NEW v \in Signers, NEW k \in Submitters, Submit(v, k) PROVE IInv'
      BY <2>5, IngestStep, CompareStep, FetchStep, WriteStep, ReadLatestStep, WriteLatestStep
         DEF Submit
    <2>6. CASE UNCHANGED submitterVars
      BY <2>6 DEF submitterVars, IInv, Typed, PlacesSound
    <2>. QED
      BY <2>1, <2>2, <2>3, <2>4, <2>5, <2>6, StartStep, PollStep DEF Next_Submitters
  <1>. QED
    BY <1>1, <1>2, PTL DEF SubmittersSpec

-----------------------------------------------------------------------------
(* The refinement                                                          *)

(* Every step is a step of CheckpointStore or leaves its variables alone.  *)
LEMMA StepIsStoreStep ==
    ASSUME IInv, [Next_Submitters]_submitterVars
    PROVE  [Store!StoreNext]_(Store!storeVars)
  <1>. USE DEF Store!storeVars
  <1>1. CASE InsertLeaf
    BY <1>1 DEF InsertLeaf, Store!StoreNext
  <1>2. ASSUME NEW v \in Signers, NEW k \in Submitters, WriteCheckpoint(v, k)
        PROVE  Store!StoreNext
    <2>. DEFINE c == Head(submitter[v][k].queue)
    <2>1. /\ c.index \in 0 .. Len(treeHook) - 1
          /\ Store!Published(v, Store!CheckpointOf(treeHook, c.index))
      BY <1>2, WritesHook
    <2>2. UNCHANGED <<treeHook, latestIndex>>
      BY <1>2 DEF WriteCheckpoint, SubmitterStep
    <2>. HIDE DEF c
    <2>3. Store!Publish(v, c.index)
      BY <2>1, <2>2 DEF Store!Publish
    <2>. QED
      BY <2>1, <2>3 DEF Store!StoreNext
  <1>3. ASSUME NEW v \in Signers, NEW k \in Submitters, WriteLatestIndex(v, k)
        PROVE  Store!StoreNext
    <2>. DEFINE s == submitter[v][k]
                i == Len(s.tree) - 1
    <2>1. s \in SubmitterState /\ PlaceSound(s, treeHook, DOMAIN published[v])
          /\ treeHook \in Seq(Nat)
      BY Stepping
    <2>2. /\ s.pc = "latest" /\ latestIndex' = [latestIndex EXCEPT ![v] = <<i>>]
          /\ UNCHANGED <<treeHook, published>>
      BY <1>3 DEF WriteLatestIndex, SubmitterStep
    <2>. HIDE DEF s
    <2>3. i \in DOMAIN published[v] /\ Len(s.tree) >= 1 /\ Len(s.tree) <= Len(treeHook)
      BY <2>1, <2>2 DEF PlaceSound, Prefix
    <2>4. i \in 0 .. Len(treeHook) - 1
      BY <2>1, <2>3 DEF SubmitterState
    <2>. HIDE DEF i
    <2>5. Store!Point(v, i)
      BY <2>2, <2>3 DEF Store!Point
    <2>. QED
      BY <2>4, <2>5 DEF Store!StoreNext
  <1>4. ASSUME NEW v \in Signers, NEW k \in Submitters, Submit(v, k)
        PROVE  [Store!StoreNext]_(Store!storeVars)
    <2>1. CASE IngestInsertion(v, k) \/ FetchCheckpoint(v, k) \/ ReadLatestIndex(v, k)
      BY <2>1 DEF IngestInsertion, FetchCheckpoint, ReadLatestIndex, SubmitterStep
    <2>2. CASE CompareCheckpoint(v, k)
      BY <2>2 DEF CompareCheckpoint, SubmitterStep
    <2>. QED
      BY <1>2, <1>3, <1>4, <2>1, <2>2 DEF Submit
  <1>5. ASSUME NEW v \in Signers,
               IndexFinal(v) \/ IndexAbandoned(v) \/ StartSubmitters(v) \/ CrashValidator(v)
        PROVE  [Store!StoreNext]_(Store!storeVars)
    BY <1>5 DEF IndexFinal, IndexAbandoned, IndexInsertion, StartSubmitters, CrashValidator
  <1>6. ASSUME NEW v \in Signers, NEW n, PollCheckpoint(v, n)
        PROVE  [Store!StoreNext]_(Store!storeVars)
    BY <1>6 DEF PollCheckpoint, SubmitterStep
  <1>7. CASE UNCHANGED submitterVars
    BY <1>7 DEF submitterVars
  <1>. QED
    BY <1>1, <1>4, <1>5, <1>6, <1>7 DEF Next_Submitters

(* The two submitters of every validator, interleaved in any way with each *)
(* other, with the indexing of wrong leaves and with crashes, implement    *)
(* the store that readers rely on (submit.rs, update_latest_index).        *)
THEOREM SubmittersImplementStore == SubmittersSpec => ImplementsStore
  <1>1. Init_Submitters => Store!StoreInit
    BY DEF Init_Submitters
  <1>2. IInv /\ [Next_Submitters]_submitterVars => [Store!StoreNext]_(Store!storeVars)
    BY StepIsStoreStep
  <1>. QED
    BY <1>1, <1>2, SubmittersInvariant, PTL DEF SubmittersSpec, ImplementsStore, Store!StoreSpec

(* The abstract store is sound: it keeps what it publishes, and the hook   *)
(* only grows, so that a checkpoint stays the one of its index.            *)
THEOREM StoreIsSound == ImplementsStore => []Store!StoreSound
  <1>. DEFINE Functions ==
                /\ treeHook \in Seq(Nat)
                /\ DOMAIN published = Signers /\ DOMAIN latestIndex = Signers
              Inv == Functions /\ Store!StoreSound
  <1>1. Store!StoreInit => Inv
    BY DEF Store!StoreInit, Store!StoreSound
  <1>2. Inv /\ [Store!StoreNext]_(Store!storeVars) => Inv'
    <2>. SUFFICES ASSUME Inv, [Store!StoreNext]_(Store!storeVars) PROVE Inv'
      OBVIOUS
    <2>1. CASE Store!Insert
      <3>1. /\ treeHook' = Append(treeHook, Len(treeHook) + 1)
            /\ UNCHANGED <<published, latestIndex>>
        BY <2>1 DEF Store!Insert
      <3>2. treeHook' \in Seq(Nat) /\ Prefix(treeHook, treeHook') /\ Len(treeHook) < Len(treeHook')
        BY <3>1 DEF Prefix
      <3>3. ASSUME NEW v \in Signers, NEW i \in DOMAIN published[v]
            PROVE  /\ i \in 0 .. (Len(treeHook') - 1)
                   /\ published[v][i] = Store!CheckpointOf(treeHook', i)
        <4>1. i \in 0 .. (Len(treeHook) - 1) /\ published[v][i] = Store!CheckpointOf(treeHook, i)
          BY <3>3 DEF Store!StoreSound
        <4>2. i \in Nat /\ i < Len(treeHook)
          BY <4>1
        <4>3. Store!CheckpointOf(treeHook, i) = Store!CheckpointOf(treeHook', i)
          BY <3>2, <4>2, CheckpointOfPrefix
        <4>. QED
          BY <3>2, <4>1, <4>2, <4>3
      <3>. QED
        BY <3>1, <3>2, <3>3 DEF Store!StoreSound
    <2>2. ASSUME NEW v \in Signers, NEW i \in 0 .. (Len(treeHook) - 1), Store!Publish(v, i)
          PROVE  Inv'
      <3>1. /\ UNCHANGED <<treeHook, latestIndex>>
            /\ Store!CheckpointOf(treeHook, i).index = i
        BY <2>2 DEF Store!Publish, Store!CheckpointOf
      <3>2. published' = [published EXCEPT ![v] = [j \in DOMAIN @ \cup {i} |->
                            IF j = i THEN Store!CheckpointOf(treeHook, i) ELSE @[j]]]
        BY <2>2, <3>1 DEF Store!Publish, Store!Published
      <3>3. Functions'
        BY <3>1, <3>2
      <3>4. ASSUME NEW w \in Signers
            PROVE  /\ \A j \in DOMAIN published'[w] :
                        /\ j \in 0 .. (Len(treeHook) - 1)
                        /\ published'[w][j] = Store!CheckpointOf(treeHook, j)
                   /\ DOMAIN published[w] \subseteq DOMAIN published'[w]
        BY <3>2, <3>4 DEF Store!StoreSound
      <3>. QED
        BY <3>1, <3>3, <3>4 DEF Store!StoreSound
    <2>3. ASSUME NEW v \in Signers, NEW i \in 0 .. (Len(treeHook) - 1), Store!Point(v, i)
          PROVE  Inv'
      BY <2>3 DEF Store!Point, Store!StoreSound
    <2>4. CASE UNCHANGED Store!storeVars
      BY <2>4 DEF Store!storeVars, Store!StoreSound
    <2>. QED
      BY <2>1, <2>2, <2>3, <2>4 DEF Store!StoreNext
  <1>3. Inv => Store!StoreSound
    OBVIOUS
  <1>. QED
    BY <1>1, <1>2, <1>3, PTL DEF ImplementsStore, Store!StoreSpec

(* So the readers of the validators' real stores may rely on it. *)
THEOREM ReadersMayRely == SubmittersSpec => []Store!StoreSound
  BY SubmittersImplementStore, StoreIsSound, PTL

-----------------------------------------------------------------------------
(* The priorities of the RPC providers                                     *)

(* An entry of the list of priorities, and of the copies of it. *)
Entry == [index : Providers, height : Nat, old : BOOLEAN]

RequestState ==
    [pc : {"idle", "pass", "ask", "check", "stalled", "match", "done"},
     snapshot : Seq(Entry), errors : Nat, tried : SUBSET Providers,
     category : {"none", "IsOk", "RetryableErr", "NonRetryableErr"}, seen : Nat,
     result : {"none", "ok", "err", "all_failed", "max_requests"}]

ProvidersTyped ==
    /\ connection \in {"HttpFallback", "Http"}
    /\ head \in [Providers -> Nat]
    /\ request \in [RpcCallers -> RequestState]

(* The list has every provider, and no provider twice. *)
Listed(s) ==
    /\ s \in Seq(Entry)
    /\ Len(s) = ProviderCount
    /\ \A p \in Providers : \E i \in 1 .. Len(s) : s[i].index = p
    /\ \A i, j \in 1 .. Len(s) : s[i].index = s[j].index => i = j

Reached(e, heads) == e.height <= heads[e.index]

(* What a request knows while it goes through its copy of the list: the    *)
(* providers it has not asked are in what is left of the copy.             *)
PassSound(r, conn, heads) ==
    /\ \A i \in 1 .. Len(r.snapshot) : Reached(r.snapshot[i], heads)
    /\ r.pc \in {"ask", "check", "stalled", "match"} => r.snapshot # <<>>
    /\ r.pc = "stalled" => r.seen <= heads[r.snapshot[1].index]
    /\ r.pc \in {"check", "stalled"} => conn = "HttpFallback"
    /\ conn = "HttpFallback" /\ r.pc \in {"ask", "check", "stalled", "match"} =>
        /\ \A p \in Providers : p \in r.tried \/ \E i \in 1 .. Len(r.snapshot) : r.snapshot[i].index = p
        /\ r.pc # "ask" => r.snapshot[1].index \in r.tried
    /\ r.pc # "done" => r.result = "none"
    /\ r.result = "all_failed" => r.tried = Providers /\ r.errors >= 4

PrioritiesInv ==
    /\ ProvidersTyped
    /\ Listed(priorities)
    /\ \A i \in 1 .. Len(priorities) : Reached(priorities[i], head)
    /\ \A c \in RpcCallers : PassSound(request[c], connection, head)

-----------------------------------------------------------------------------

(* Removing the entry of a provider closes the gap it leaves               *)
(* (Vec::retain in deprioritize_provider).                                 *)
LEMMA RemovalClosesGap ==
    ASSUME NEW s, Listed(s), NEW k \in 1 .. ProviderCount
    PROVE  WithoutProvider(s, s[k].index) =
             [n \in 1 .. (ProviderCount - 1) |-> s[IF n < k THEN n ELSE n + 1]]
  <1> DEFINE N == ProviderCount
             kept == {i \in DOMAIN s : s[i].index # s[k].index}
             Place(i) == Cardinality({j \in kept : j <= i})
  <1>1. N \in Nat /\ N >= 2 /\ DOMAIN s = 1 .. N
    BY ProviderAssumption DEF Listed
  <1>2. kept = (1 .. N) \ {k}
    BY <1>1 DEF Listed
  <1>3. Cardinality(kept) = N - 1
    <2>1. IsFiniteSet(1 .. N) /\ Cardinality(1 .. N) = N
      BY <1>1, FS_Interval
    <2>. QED
      BY <1>2, <2>1, FS_RemoveElement
  <1>4. ASSUME NEW i \in kept
        PROVE  Place(i) = IF k <= i THEN i - 1 ELSE i
    <2>1. i \in 1 .. N /\ i # k
      BY <1>2
    <2>2. {j \in kept : j <= i} = (1 .. i) \ {k}
      BY <1>1, <1>2, <2>1
    <2>3. IsFiniteSet(1 .. i) /\ Cardinality(1 .. i) = i
      BY <2>1, <1>1, FS_Interval
    <2>4. Cardinality((1 .. i) \ {k}) = IF k \in 1 .. i THEN i - 1 ELSE i
      BY <2>3, FS_RemoveElement
    <2>5. k \in 1 .. i <=> k <= i
      BY <1>1
    <2>. QED
      BY <2>2, <2>4, <2>5
  <1>5. ASSUME NEW n \in 1 .. (N - 1)
        PROVE  (CHOOSE i \in kept : Place(i) = n) = IF n < k THEN n ELSE n + 1
    <2> DEFINE m == IF n < k THEN n ELSE n + 1
    <2>1. m \in kept /\ (IF k <= m THEN m - 1 ELSE m) = n
      BY <1>1, <1>2
    <2>2. Place(m) = n
      BY <2>1, <1>4
    <2>3. ASSUME NEW i \in kept, Place(i) = n
          PROVE  i = m
      <3>1. (IF k <= i THEN i - 1 ELSE i) = n
        BY <2>3, <1>4
      <3>2. i \in 1 .. N /\ i # k
        BY <1>2
      <3>. HIDE DEF kept, Place
      <3>. QED
        BY <1>1, <3>1, <3>2
    <2>. HIDE DEF kept, Place, m
    <2>4. (CHOOSE i \in kept : Place(i) = n) = m
      BY <2>1, <2>2, <2>3
    <2>. QED
      BY <2>4 DEF m
  <1>6. WithoutProvider(s, s[k].index) =
          [n \in 1 .. Cardinality(kept) |-> s[CHOOSE i \in kept : Place(i) = n]]
    BY DEF WithoutProvider
  <1>. HIDE DEF kept, Place
  <1>. QED
    BY <1>1, <1>3, <1>5, <1>6

(* Whatever stale copy of an entry a request puts back at the end, the     *)
(* list keeps every provider once.                                         *)
LEMMA DeprioritizeKeepsListed ==
    ASSUME NEW e \in Entry, Listed(priorities)
    PROVE  /\ Listed(DeprioritizeProvider(e))
           /\ \A j \in 1 .. Len(DeprioritizeProvider(e)) :
                \/ DeprioritizeProvider(e)[j] = e
                \/ \E i \in 1 .. Len(priorities) : DeprioritizeProvider(e)[j] = priorities[i]
  <1> DEFINE N == ProviderCount
             s == priorities
  <1>1. N \in Nat /\ N >= 2 /\ Len(s) = N /\ s \in Seq(Entry) /\ DOMAIN s = 1 .. N
    BY ProviderAssumption DEF Listed
  <1>2. PICK k \in 1 .. N : s[k].index = e.index
    BY <1>1 DEF Listed, Entry
  <1> DEFINE At(n) == IF n = N THEN e ELSE s[IF n < k THEN n ELSE n + 1]
             others == [n \in 1 .. (N - 1) |-> s[IF n < k THEN n ELSE n + 1]]
             t == Append(others, e)
  <1>3. DeprioritizeProvider(e) = t
    BY <1>2, RemovalClosesGap DEF DeprioritizeProvider
  <1>4. others \in Seq(Entry) /\ Len(others) = N - 1
    <2>1. \A n \in 1 .. (N - 1) : s[IF n < k THEN n ELSE n + 1] \in Entry
      <3>1. \A n \in 1 .. (N - 1) : (IF n < k THEN n ELSE n + 1) \in 1 .. N
        BY <1>1
      <3>. QED
        BY <1>1, <3>1, ElementOfSeq
    <2>. QED
      BY <1>1, <2>1
  <1>5. t \in Seq(Entry) /\ Len(t) = N /\ \A n \in 1 .. N : t[n] = At(n)
    <2>1. t \in Seq(Entry) /\ Len(t) = Len(others) + 1
          /\ \A n \in 1 .. Len(others) : t[n] = others[n]
          /\ t[Len(others) + 1] = e
      <3>. HIDE DEF others
      <3>. QED
        BY <1>4, AppendProperties
    <2>. QED
      BY <1>1, <1>4, <2>1
  <1>. HIDE DEF t, others
  <1>6. \A p \in Providers : \E i \in 1 .. N : t[i].index = p
    <2> SUFFICES ASSUME NEW p \in Providers
                 PROVE  \E i \in 1 .. N : At(i).index = p
      BY <1>5
    <2>1. PICK i \in 1 .. N : s[i].index = p
      BY <1>1 DEF Listed
    <2>2. CASE i = k
      BY <1>1, <1>2, <2>1, <2>2
    <2>3. CASE i < k
      BY <1>1, <2>1, <2>3
    <2>4. CASE i > k
      <3>1. i - 1 \in 1 .. N /\ i - 1 # N /\ ~(i - 1 < k) /\ (i - 1) + 1 = i
        BY <1>1, <2>4
      <3>. QED
        BY <2>1, <3>1
    <2>. QED
      BY <1>1, <2>2, <2>3, <2>4
  <1>7. \A i, j \in 1 .. N : t[i].index = t[j].index => i = j
    <2> SUFFICES ASSUME NEW i \in 1 .. N, NEW j \in 1 .. N, t[i].index = t[j].index
                 PROVE  i = j
      OBVIOUS
    <2> DEFINE From(n) == IF n = N THEN k ELSE IF n < k THEN n ELSE n + 1
    <2>1. \A n \in 1 .. N : From(n) \in 1 .. N /\ At(n).index = s[From(n)].index
      BY <1>1, <1>2
    <2>2. At(i).index = At(j).index
      BY <1>5
    <2>3. From(i) = From(j)
      BY <1>1, <2>1, <2>2 DEF Listed
    <2>. QED
      BY <1>1, <2>3
  <1>8. \A j \in 1 .. N : t[j] = e \/ \E i \in 1 .. N : t[j] = s[i]
    BY <1>1, <1>5
  <1>. QED
    BY <1>1, <1>3, <1>5, <1>6, <1>7, <1>8 DEF Listed

(* A block number that is recorded keeps every entry in its place.         *)
LEMMA UpdateKeepsListed ==
    ASSUME NEW p \in Providers, NEW h \in Nat, Listed(priorities)
    PROVE  /\ Listed(UpdateLastSeenBlock(p, h))
           /\ Len(UpdateLastSeenBlock(p, h)) = Len(priorities)
           /\ \A i \in 1 .. Len(priorities) :
                UpdateLastSeenBlock(p, h)[i] =
                    IF priorities[i].index = p THEN [index |-> p, height |-> h, old |-> FALSE]
                    ELSE priorities[i]
  <1> DEFINE t == UpdateLastSeenBlock(p, h)
             N == ProviderCount
  <1>1. N \in Nat /\ Len(priorities) = N /\ priorities \in Seq(Entry) /\ DOMAIN priorities = 1 .. N
    BY ProviderAssumption DEF Listed
  <1>2. \A i \in 1 .. N : priorities[i] \in Entry
    BY <1>1, ElementOfSeq
  <1>3. t = [i \in 1 .. N |-> IF priorities[i].index = p THEN [index |-> p, height |-> h, old |-> FALSE]
                             ELSE priorities[i]]
    BY <1>1 DEF UpdateLastSeenBlock
  <1>4. \A i \in 1 .. N : t[i] \in Entry /\ t[i].index = priorities[i].index
    BY <1>2, <1>3 DEF Entry
  <1>5. t \in Seq(Entry) /\ Len(t) = N
    <2>1. t \in [1 .. N -> Entry]
      <3>. HIDE DEF t
      <3>. QED
        BY <1>3, <1>4
    <2>. HIDE DEF t
    <2>. QED
      BY <1>1, <2>1
  <1>. HIDE DEF t
  <1>6. Listed(t)
    BY <1>1, <1>4, <1>5 DEF Listed
  <1>. QED
    BY <1>1, <1>3, <1>5, <1>6 DEF t

(* Time ages the entries and changes nothing else of them. *)
LEMMA AgedKeepsEntries ==
    ASSUME NEW s \in Seq(Entry)
    PROVE  /\ Aged(s) \in Seq(Entry)
           /\ Len(Aged(s)) = Len(s)
           /\ \A i \in 1 .. Len(s) : /\ Aged(s)[i].index = s[i].index
                                     /\ Aged(s)[i].height = s[i].height
  <1>1. Len(s) \in Nat /\ DOMAIN s = 1 .. Len(s) /\ \A i \in 1 .. Len(s) : s[i] \in Entry
    BY ElementOfSeq
  <1>2. Aged(s) = [i \in 1 .. Len(s) |-> [s[i] EXCEPT !.old = TRUE]]
    BY <1>1 DEF Aged
  <1>3. \A i \in 1 .. Len(s) : /\ Aged(s)[i] \in Entry
                             /\ Aged(s)[i].index = s[i].index
                             /\ Aged(s)[i].height = s[i].height
    BY <1>1, <1>2 DEF Entry
  <1>. QED
    BY <1>1, <1>2, <1>3

-----------------------------------------------------------------------------

LEMMA ProvidersInit == Init_Providers => PrioritiesInv
  <1> SUFFICES ASSUME Init_Providers
               PROVE  PrioritiesInv
    OBVIOUS
  <1>1. ProviderCount \in Nat /\ ProviderCount >= 2
    BY ProviderAssumption
  <1>2. Build \in Seq(Entry) /\ Len(Build) = ProviderCount
        /\ \A i \in 1 .. ProviderCount : Build[i].index = i /\ Build[i].height = 0
    BY <1>1 DEF Build, Providers, Entry
  <1>3. Listed(priorities)
    BY <1>1, <1>2 DEF Init_Providers, Listed, Providers
  <1>4. \A i \in 1 .. Len(priorities) : Reached(priorities[i], head)
    BY <1>1, <1>2 DEF Init_Providers, Reached, Providers
  <1>5. NoRequest \in RequestState
    BY DEF NoRequest, RequestState
  <1>6. ProvidersTyped
    BY <1>5 DEF Init_Providers, ProvidersTyped
  <1>7. \A c \in RpcCallers : PassSound(request[c], connection, head)
    BY DEF Init_Providers, NoRequest, PassSound
  <1>. QED
    BY <1>3, <1>4, <1>6, <1>7 DEF PrioritiesInv

(* A step of one request that leaves the list and the nodes alone. *)
LEMMA OneRequest ==
    ASSUME PrioritiesInv, NEW c \in RpcCallers, NEW r \in RequestState,
           request' = [request EXCEPT ![c] = r], PassSound(r, connection, head),
           UNCHANGED <<connection, head, priorities>>
    PROVE  PrioritiesInv'
  <1>1. ProvidersTyped'
    BY DEF PrioritiesInv, ProvidersTyped
  <1>2. ASSUME NEW d \in RpcCallers
        PROVE  PassSound(request'[d], connection, head)
    BY DEF PrioritiesInv, ProvidersTyped
  <1>3. Listed(priorities)' /\ \A i \in 1 .. Len(priorities') : Reached(priorities'[i], head')
    BY DEF PrioritiesInv, Listed
  <1>4. \A d \in RpcCallers : PassSound(request'[d], connection', head')
    BY <1>2
  <1>. QED
    BY <1>1, <1>3, <1>4 DEF PrioritiesInv

LEMMA StartRequestStep ==
    ASSUME PrioritiesInv, NEW c \in RpcCallers, StartRequest(c)
    PROVE  PrioritiesInv'
  <1> DEFINE r == [NoRequest EXCEPT !.pc = "pass"]
  <1>1. NoRequest \in RequestState
    BY EmptySeq DEF NoRequest, RequestState
  <1>2. r.pc = "pass" /\ r.snapshot = <<>> /\ r.result = "none"
    BY DEF NoRequest
  <1>3. r \in RequestState
    BY <1>1 DEF RequestState
  <1>. HIDE DEF r
  <1>4. PassSound(r, connection, head)
    BY <1>1, <1>2 DEF PassSound
  <1>. QED
    BY <1>3, <1>4, OneRequest DEF StartRequest, r

LEMMA StartPassStep ==
    ASSUME PrioritiesInv, NEW c \in RpcCallers, StartPass(c)
    PROVE  PrioritiesInv'
  <1> DEFINE s == IF connection = "Http" THEN SubSeq(Build, 1, 1) ELSE priorities
             r == [request[c] EXCEPT !.snapshot = s, !.pc = "ask"]
  <1>1. request[c] \in RequestState /\ request[c].pc = "pass"
        /\ PassSound(request[c], connection, head)
    BY DEF PrioritiesInv, ProvidersTyped, StartPass
  <1>2. ProviderCount \in Nat /\ ProviderCount >= 2
    BY ProviderAssumption
  <1>3. s \in Seq(Entry) /\ s # <<>> /\ \A i \in 1 .. Len(s) : Reached(s[i], head)
    <2>1. CASE connection = "Http"
      <3>1. \A i \in 1 .. 1 : Build[i] \in Entry /\ Build[i].index \in Providers /\ Build[i].height = 0
        BY <1>2 DEF Build, Providers, Entry
      <3>2. s \in Seq(Entry) /\ Len(s) = 1 /\ s[1] = Build[1]
        BY <2>1, <3>1, SubSeqProperties
      <3>. HIDE DEF s
      <3>3. Reached(s[1], head)
        BY <3>1, <3>2 DEF Reached, PrioritiesInv, ProvidersTyped
      <3>4. \A i \in 1 .. Len(s) : i = 1
        BY <3>2
      <3>. QED
        BY <3>2, <3>3, <3>4, EmptySeq
    <2>2. CASE connection # "Http"
      BY <1>2, <2>2, EmptySeq DEF PrioritiesInv, Listed
    <2>. QED
      BY <2>1, <2>2
  <1>4. connection = "HttpFallback" =>
            \A p \in Providers : \E i \in 1 .. Len(s) : s[i].index = p
    BY DEF PrioritiesInv, Listed
  <1>5. request' = [request EXCEPT ![c] = r]
    BY DEF StartPass, Snapshot, PrioritiesInv, ProvidersTyped
  <1>. HIDE DEF s
  <1>6. r \in RequestState
    BY <1>1, <1>3 DEF RequestState
  <1>7. PassSound(r, connection, head)
    <2>1. r.pc = "ask" /\ r.snapshot = s /\ r.result = request[c].result
      BY <1>1 DEF RequestState
    <2>. HIDE DEF r
    <2>. QED
      BY <1>1, <1>3, <1>4, <2>1 DEF PassSound
  <1>. HIDE DEF r
  <1>. QED
    BY <1>5, <1>6, <1>7, OneRequest DEF StartPass

LEMMA AskStep ==
    ASSUME PrioritiesInv, NEW c \in RpcCallers, Ask(c)
    PROVE  PrioritiesInv'
  <1>1. PICK m \in Methods, kind \in AnswerKinds :
          request' = [request EXCEPT ![c].category = CategorizeClientResponse(m, kind),
                                     ![c].tried = @ \cup {CurrentProvider(c).index},
                                     ![c].pc = IF connection = "Http" THEN "match" ELSE "check"]
    BY DEF Ask, AnswerKinds
  <1>2. CategorizeClientResponse(m, kind) \in {"IsOk", "RetryableErr", "NonRetryableErr"}
    BY DEF CategorizeClientResponse
  <1> DEFINE cat == CategorizeClientResponse(m, kind)
             here == CurrentProvider(c).index
             place == IF connection = "Http" THEN "match" ELSE "check"
             r == [request[c] EXCEPT !.category = cat, !.tried = @ \cup {here}, !.pc = place]
  <1>3. request[c] \in RequestState /\ request[c].pc = "ask"
        /\ PassSound(request[c], connection, head)
    BY DEF PrioritiesInv, ProvidersTyped, Ask
  <1>4. request[c].snapshot \in Seq(Entry) /\ request[c].snapshot # <<>>
    BY <1>3 DEF PassSound, RequestState
  <1>5. here = request[c].snapshot[1].index /\ here \in Providers
    <2>1. CurrentProvider(c) = request[c].snapshot[1]
      BY <1>4 DEF CurrentProvider
    <2>2. CurrentProvider(c) \in Entry
      BY <1>4, HeadTailProperties DEF CurrentProvider
    <2>. QED
      BY <2>1, <2>2 DEF Entry
  <1>6. request' = [request EXCEPT ![c] = r]
    BY <1>1 DEF PrioritiesInv, ProvidersTyped
  <1>. HIDE DEF cat, here
  <1>7. r \in RequestState
    BY <1>2, <1>3, <1>5 DEF RequestState, cat
  <1>8. PassSound(r, connection, head)
    <2>1. r.pc = place /\ r.snapshot = request[c].snapshot /\ r.result = request[c].result
          /\ r.tried = request[c].tried \cup {here} /\ r.errors = request[c].errors
      BY <1>3 DEF RequestState
    <2>2. connection \in {"Http", "HttpFallback"}
      BY DEF PrioritiesInv, ProvidersTyped
    <2>. HIDE DEF r
    <2>. QED
      BY <1>3, <1>5, <2>1, <2>2 DEF PassSound
  <1>. HIDE DEF r
  <1>. QED
    BY <1>6, <1>7, <1>8, OneRequest DEF Ask

LEMMA CheckStalledStep ==
    ASSUME PrioritiesInv, NEW c \in RpcCallers, CheckStalled(c)
    PROVE  PrioritiesInv'
  <1>1. request[c] \in RequestState /\ request[c].pc = "check"
        /\ PassSound(request[c], connection, head) /\ head \in [Providers -> Nat]
    BY DEF PrioritiesInv, ProvidersTyped, CheckStalled
  <1>2. request[c].snapshot \in Seq(Entry) /\ request[c].snapshot # <<>>
    BY <1>1 DEF PassSound, RequestState
  <1>3. CurrentProvider(c) = request[c].snapshot[1] /\ CurrentProvider(c) \in Entry
        /\ Reached(CurrentProvider(c), head)
    <2>1. 1 \in 1 .. Len(request[c].snapshot)
      BY <1>2, EmptySeq
    <2>. QED
      BY <1>1, <1>2, <2>1, HeadTailProperties DEF CurrentProvider, PassSound
  <1>4. CASE ~CurrentProvider(c).old
    <2> DEFINE r == [request[c] EXCEPT !.pc = "match"]
    <2>1. r \in RequestState /\ PassSound(r, connection, head)
      BY <1>1 DEF RequestState, PassSound
    <2>2. request' = [request EXCEPT ![c] = r]
      BY <1>4 DEF CheckStalled, PrioritiesInv, ProvidersTyped
    <2>. QED
      BY <2>1, <2>2, OneRequest DEF CheckStalled
  <1>5. CASE CurrentProvider(c).old
    <2>1. PICK h \in {head[CurrentProvider(c).index], CurrentProvider(c).height} :
            request' = [request EXCEPT ![c].seen = h, ![c].pc = "stalled"]
      BY <1>5 DEF CheckStalled
    <2>2. h \in Nat /\ h <= head[request[c].snapshot[1].index]
      BY <1>1, <1>3, <2>1 DEF Entry, Reached
    <2> DEFINE r == [request[c] EXCEPT !.seen = h, !.pc = "stalled"]
    <2>3. r \in RequestState /\ PassSound(r, connection, head)
      BY <1>1, <2>2 DEF RequestState, PassSound
    <2>4. request' = [request EXCEPT ![c] = r]
      BY <2>1 DEF PrioritiesInv, ProvidersTyped
    <2>. QED
      BY <2>3, <2>4, OneRequest DEF CheckStalled
  <1>. QED
    BY <1>4, <1>5

LEMMA StalledStep ==
    ASSUME PrioritiesInv, NEW c \in RpcCallers, Stalled(c)
    PROVE  PrioritiesInv'
  <1> DEFINE e == CurrentProvider(c)
             h == request[c].seen
             r == [request[c] EXCEPT !.pc = "match", !.seen = 0]
  <1>1. request[c] \in RequestState /\ request[c].pc = "stalled"
        /\ PassSound(request[c], connection, head) /\ head \in [Providers -> Nat]
    BY DEF PrioritiesInv, ProvidersTyped, Stalled
  <1>2. e = request[c].snapshot[1] /\ e \in Entry /\ Reached(e, head) /\ h \in Nat
        /\ h <= head[e.index] /\ e.index \in Providers
    <2>1. request[c].snapshot \in Seq(Entry) /\ request[c].snapshot # <<>>
      BY <1>1 DEF PassSound, RequestState
    <2>2. 1 \in 1 .. Len(request[c].snapshot)
      BY <2>1, EmptySeq
    <2>3. e = request[c].snapshot[1] /\ e \in Entry
      BY <2>1, HeadTailProperties DEF CurrentProvider
    <2>. QED
      BY <1>1, <2>2, <2>3 DEF PassSound, RequestState, Entry
  <1>. HIDE DEF e, h
  <1>3. Listed(priorities) /\ Len(priorities) \in Nat
        /\ (\A i \in 1 .. Len(priorities) : priorities[i] \in Entry /\ Reached(priorities[i], head))
    BY ElementOfSeq DEF PrioritiesInv, Listed
  <1>4. Listed(priorities') /\ \A i \in 1 .. Len(priorities') : Reached(priorities'[i], head)
    <2>1. CASE h <= e.height
      <3>1. priorities' = DeprioritizeProvider(e)
        BY <2>1 DEF Stalled, HandleStalledProvider, e, h
      <3>. QED
        BY <1>2, <1>3, <3>1, DeprioritizeKeepsListed
    <2>2. CASE ~(h <= e.height)
      <3>1. priorities' = UpdateLastSeenBlock(e.index, h)
        BY <2>2 DEF Stalled, HandleStalledProvider, e, h
      <3>2. Listed(priorities') /\ Len(priorities') = Len(priorities)
            /\ \A i \in 1 .. Len(priorities) :
                 priorities'[i] = IF priorities[i].index = e.index
                                  THEN [index |-> e.index, height |-> h, old |-> FALSE]
                                  ELSE priorities[i]
        BY <1>2, <1>3, <3>1, UpdateKeepsListed
      <3>. QED
        BY <1>2, <1>3, <3>2 DEF Reached
    <2>. QED
      BY <2>1, <2>2
  <1>5. r \in RequestState /\ PassSound(r, connection, head)
    BY <1>1 DEF RequestState, PassSound
  <1>6. request' = [request EXCEPT ![c] = r] /\ head' = head /\ connection' = connection
    BY DEF Stalled, PrioritiesInv, ProvidersTyped
  <1>. HIDE DEF r
  <1>7. ProvidersTyped'
    BY <1>5, <1>6 DEF PrioritiesInv, ProvidersTyped
  <1>8. \A d \in RpcCallers : PassSound(request'[d], connection, head)
    BY <1>5, <1>6 DEF PrioritiesInv, ProvidersTyped
  <1>9. Listed(priorities)'
    BY <1>4 DEF Listed
  <1>. QED
    BY <1>4, <1>6, <1>7, <1>8, <1>9 DEF PrioritiesInv

(* The end of a request, whatever the answer; giving up needs every        *)
(* provider tried and the fourth error (AllFailed).                        *)
LEMMA EndKeepsSound ==
    ASSUME NEW c \in RpcCallers, NEW res \in {"ok", "err", "max_requests"}
    PROVE  EndRequest(c, res) \in RequestState /\ PassSound(EndRequest(c, res), connection, head)
  <1> DEFINE r == EndRequest(c, res)
  <1>1. NoRequest \in RequestState
    BY EmptySeq DEF NoRequest, RequestState
  <1>2. r.pc = "done" /\ r.snapshot = <<>> /\ r.result = res
    BY DEF NoRequest, EndRequest
  <1>3. r \in RequestState
    BY <1>1 DEF RequestState, EndRequest
  <1>. HIDE DEF r
  <1>4. PassSound(r, connection, head)
    BY <1>2 DEF PassSound
  <1>. QED
    BY <1>3, <1>4 DEF r

LEMMA RetryKeepsSound ==
    ASSUME PrioritiesInv, NEW c \in RpcCallers, request[c].pc = "match", connection = "Http",
           NEW n \in Nat
    PROVE  RequestWithRetry(c, n) \in RequestState
           /\ PassSound(RequestWithRetry(c, n), connection, head)
  <1>1. request[c] \in RequestState /\ PassSound(request[c], connection, head)
    BY DEF PrioritiesInv, ProvidersTyped
  <1>2. CASE n < MaxRequests
    <2> DEFINE r == [request[c] EXCEPT !.errors = n, !.pc = "ask", !.category = "none"]
    <2>1. r \in RequestState /\ PassSound(r, connection, head)
      BY <1>1 DEF RequestState, PassSound
    <2>. QED
      BY <1>2, <2>1 DEF RequestWithRetry
  <1>3. CASE ~(n < MaxRequests)
    BY <1>3, EndKeepsSound DEF RequestWithRetry
  <1>. QED
    BY <1>2, <1>3

LEMMA FallbackKeepsSound ==
    ASSUME PrioritiesInv, NEW c \in RpcCallers, request[c].pc = "match", connection = "HttpFallback",
           NEW n \in Nat
    PROVE  RequestWithFallback(c, n) \in RequestState
           /\ PassSound(RequestWithFallback(c, n), connection, head)
  <1> DEFINE s == request[c].snapshot
  <1>1. request[c] \in RequestState /\ PassSound(request[c], connection, head)
        /\ request[c].result = "none"
    BY DEF PrioritiesInv, ProvidersTyped, PassSound
  <1>2. s \in Seq(Entry) /\ s # <<>> /\ Len(s) \in Nat /\ Len(s) >= 1
    <2>1. s \in Seq(Entry) /\ s # <<>>
      BY <1>1 DEF PassSound, RequestState
    <2>2. Len(s) \in Nat \ {0}
      BY <2>1, EmptySeq
    <2>. QED
      BY <2>1, <2>2
  <1>3. s[1].index \in request[c].tried
        /\ (\A p \in Providers : p \in request[c].tried \/ \E i \in 1 .. Len(s) : s[i].index = p)
        /\ (\A i \in 1 .. Len(s) : Reached(s[i], head))
    BY <1>1 DEF PassSound
  <1>4. CASE Len(s) > 1
    <2> DEFINE r == [request[c] EXCEPT !.errors = n, !.snapshot = Tail(@), !.pc = "ask",
                                       !.category = "none"]
    <2>1. Tail(s) \in Seq(Entry) /\ Len(Tail(s)) = Len(s) - 1
          /\ \A i \in 1 .. Len(Tail(s)) : Tail(s)[i] = s[i + 1]
      BY <1>2, HeadTailProperties
    <2>2. Tail(s) # <<>>
      <3>. HIDE DEF s
      <3>1. Len(<<>>) = 0
        BY EmptySeq
      <3>2. Len(Tail(s)) # 0
        BY <1>2, <1>4, <2>1
      <3>. QED
        BY <3>1, <3>2
    <2>3. \A i \in 1 .. Len(Tail(s)) : Reached(Tail(s)[i], head)
      BY <1>2, <1>3, <2>1
    <2>4. \A p \in Providers : p \in request[c].tried \/ \E i \in 1 .. Len(Tail(s)) : Tail(s)[i].index = p
      <3> SUFFICES ASSUME NEW p \in Providers, p \notin request[c].tried
                   PROVE  \E i \in 1 .. Len(Tail(s)) : Tail(s)[i].index = p
        OBVIOUS
      <3>1. PICK i \in 1 .. Len(s) : s[i].index = p
        BY <1>3
      <3>2. i # 1
        BY <1>3, <3>1
      <3>3. i - 1 \in 1 .. Len(Tail(s)) /\ Tail(s)[i - 1] = s[i]
        BY <1>2, <2>1, <3>2
      <3>. QED
        BY <3>1, <3>3
    <2>5. r \in RequestState
      BY <1>1, <2>1 DEF RequestState
    <2>6. r.pc = "ask" /\ r.snapshot = Tail(s) /\ r.result = "none" /\ r.tried = request[c].tried
      BY <1>1 DEF RequestState
    <2>7. PassSound(r, connection, head)
      <3>. HIDE DEF r, s
      <3>. QED
        BY <2>2, <2>3, <2>4, <2>6 DEF PassSound
    <2>8. RequestWithFallback(c, n) = r
      <3> DEFINE L == Len(s)
      <3>1. L \in Nat /\ L > 1
        BY <1>2, <1>4
      <3>2. L # 1
        <4>. HIDE DEF L
        <4>. QED
          BY <3>1
      <3>. QED
        BY <1>4, <3>2, Zenon DEF RequestWithFallback
    <2>. HIDE DEF r
    <2>. QED
      BY <2>5, <2>7, <2>8
  <1>5. CASE Len(s) = 1 /\ n <= 3
    <2> DEFINE r == [request[c] EXCEPT !.errors = n, !.pc = "pass", !.snapshot = <<>>,
                                       !.category = "none"]
    <2>1. r \in RequestState
      BY <1>1, EmptySeq DEF RequestState
    <2>2. r.pc = "pass" /\ r.snapshot = <<>> /\ r.result = "none"
      BY <1>1 DEF RequestState
    <2>3. PassSound(r, connection, head)
      <3>. HIDE DEF r
      <3>. QED
        BY <2>2 DEF PassSound
    <2>. QED
      BY <1>5, <2>1, <2>3 DEF RequestWithFallback
  <1>6. CASE Len(s) = 1 /\ ~(n <= 3)
    <2> DEFINE r == AllFailed(c, n)
    <2>1. NoRequest \in RequestState
      BY EmptySeq DEF NoRequest, RequestState
    <2>2. request[c].tried \in SUBSET Providers
      BY <1>1 DEF RequestState
    <2>3. r \in RequestState
      BY <2>1, <2>2 DEF RequestState, AllFailed, EndRequest
    <2>4. r.pc = "done" /\ r.snapshot = <<>> /\ r.tried = request[c].tried /\ r.errors = n
      BY DEF AllFailed, EndRequest, NoRequest
    <2>5. request[c].tried = Providers
      <3>1. \A i \in 1 .. Len(s) : i = 1
        BY <1>6
      <3>. QED
        BY <1>3, <2>2, <3>1
    <2>6. PassSound(r, connection, head)
      <3>. HIDE DEF r, s
      <3>. QED
        BY <1>6, <2>4, <2>5 DEF PassSound
    <2>7. RequestWithFallback(c, n) = r
      BY <1>6 DEF RequestWithFallback
    <2>. HIDE DEF r
    <2>. QED
      BY <2>3, <2>6, <2>7
  <1>7. Len(s) > 1 \/ (Len(s) = 1 /\ n <= 3) \/ (Len(s) = 1 /\ ~(n <= 3))
    <2> DEFINE L == Len(s)
    <2>1. L \in Nat /\ L >= 1
      BY <1>2
    <2>. HIDE DEF L
    <2>2. L > 1 \/ (L = 1 /\ n <= 3) \/ (L = 1 /\ ~(n <= 3))
      BY <2>1
    <2>. QED
      BY <2>2 DEF L
  <1>. QED
    BY <1>4, <1>5, <1>6, <1>7

LEMMA MatchAnswerStep ==
    ASSUME PrioritiesInv, NEW c \in RpcCallers, MatchAnswer(c)
    PROVE  PrioritiesInv'
  <1> DEFINE n == request[c].errors + 1
             r == CASE request[c].category = "IsOk" -> EndRequest(c, "ok")
                    [] request[c].category = "NonRetryableErr" -> EndRequest(c, "err")
                    [] OTHER -> IF connection = "Http" THEN RequestWithRetry(c, n)
                                                       ELSE RequestWithFallback(c, n)
  <1>1. request[c] \in RequestState /\ connection \in {"Http", "HttpFallback"}
    BY DEF PrioritiesInv, ProvidersTyped
  <1>2. n \in Nat
    BY <1>1 DEF RequestState
  <1>3. request' = [request EXCEPT ![c] = r] /\ request[c].pc = "match"
    BY DEF MatchAnswer
  <1>. HIDE DEF n
  <1>4. r \in RequestState /\ PassSound(r, connection, head)
    <2>1. CASE request[c].category = "IsOk"
      BY <2>1, EndKeepsSound
    <2>2. CASE request[c].category = "NonRetryableErr"
      BY <2>2, EndKeepsSound
    <2>3. CASE request[c].category \notin {"IsOk", "NonRetryableErr"}
      BY <1>1, <1>2, <1>3, <2>3, RetryKeepsSound, FallbackKeepsSound
    <2>. QED
      BY <2>1, <2>2, <2>3
  <1>. HIDE DEF r
  <1>. QED
    BY <1>3, <1>4, OneRequest DEF MatchAnswer

(* The block numbers of the nodes only grow. *)
LEMMA HeadAdvancesStep ==
    ASSUME PrioritiesInv, NEW p \in Providers, HeadAdvances(p)
    PROVE  PrioritiesInv'
  <1>1. head' = [head EXCEPT ![p] = @ + 1] /\ head \in [Providers -> Nat]
        /\ UNCHANGED <<connection, priorities, request>>
    BY DEF HeadAdvances, PrioritiesInv, ProvidersTyped
  <1>2. head' \in [Providers -> Nat] /\ \A q \in Providers : head[q] <= head'[q]
    BY <1>1
  <1>3. ProvidersTyped' /\ Listed(priorities)'
    BY <1>1, <1>2 DEF PrioritiesInv, ProvidersTyped, Listed
  <1>4. ASSUME NEW e \in Entry, Reached(e, head)
        PROVE  Reached(e, head')
    BY <1>1, <1>2, <1>4 DEF Reached, Entry
  <1>5. \A i \in 1 .. Len(priorities) : Reached(priorities[i], head')
    BY <1>4, ElementOfSeq DEF PrioritiesInv, Listed
  <1>6. ASSUME NEW c \in RpcCallers
        PROVE  PassSound(request[c], connection, head')
    <2>1. request[c] \in RequestState /\ PassSound(request[c], connection, head)
      BY DEF PrioritiesInv, ProvidersTyped
    <2>2. request[c].snapshot \in Seq(Entry) /\ request[c].seen \in Nat
      BY <2>1 DEF RequestState
    <2>3. \A i \in 1 .. Len(request[c].snapshot) : Reached(request[c].snapshot[i], head')
      BY <1>4, <2>1, <2>2, ElementOfSeq DEF PassSound
    <2>4. request[c].pc = "stalled" => request[c].seen <= head'[request[c].snapshot[1].index]
      <3> SUFFICES ASSUME request[c].pc = "stalled"
                   PROVE  request[c].seen <= head'[request[c].snapshot[1].index]
        OBVIOUS
      <3>1. 1 \in 1 .. Len(request[c].snapshot)
        BY <2>1, <2>2, EmptySeq DEF PassSound
      <3>2. request[c].snapshot[1].index \in Providers
        <4>1. request[c].snapshot[1] \in Entry
          BY <2>2, <3>1, ElementOfSeq
        <4>. QED
          BY <4>1 DEF Entry
      <3>3. request[c].seen <= head[request[c].snapshot[1].index]
        BY <2>1 DEF PassSound
      <3>. QED
        BY <1>1, <1>2, <2>2, <3>2, <3>3
    <2>. QED
      BY <2>1, <2>3, <2>4 DEF PassSound
  <1>. QED
    BY <1>1, <1>3, <1>5, <1>6 DEF PrioritiesInv

LEMMA ElapseStep ==
    ASSUME PrioritiesInv, Elapse
    PROVE  PrioritiesInv'
  <1>1. priorities' = Aged(priorities) /\ head' = head /\ connection' = connection
        /\ request' = [c \in RpcCallers |-> [request[c] EXCEPT !.snapshot = Aged(@)]]
    BY DEF Elapse
  <1>2. ProviderCount \in Nat /\ priorities \in Seq(Entry)
    BY ProviderAssumption DEF PrioritiesInv, Listed
  <1>3. Listed(priorities') /\ \A i \in 1 .. Len(priorities') : Reached(priorities'[i], head)
    <2>1. /\ priorities' \in Seq(Entry) /\ Len(priorities') = Len(priorities)
          /\ \A i \in 1 .. Len(priorities) : /\ priorities'[i].index = priorities[i].index
                                           /\ priorities'[i].height = priorities[i].height
      BY <1>1, <1>2, AgedKeepsEntries
    <2>. QED
      BY <2>1 DEF PrioritiesInv, Listed, Reached
  <1>4. ASSUME NEW c \in RpcCallers
        PROVE  request'[c] \in RequestState /\ PassSound(request'[c], connection, head)
    <2> DEFINE s == request[c].snapshot
               t == Aged(s)
               r == [request[c] EXCEPT !.snapshot = t]
    <2>1. request[c] \in RequestState /\ PassSound(request[c], connection, head)
      BY DEF PrioritiesInv, ProvidersTyped
    <2>2. s \in Seq(Entry) /\ Len(s) \in Nat
      BY <2>1 DEF RequestState
    <2>3. /\ t \in Seq(Entry) /\ Len(t) = Len(s)
          /\ \A i \in 1 .. Len(s) : t[i].index = s[i].index /\ t[i].height = s[i].height
      BY <2>2, AgedKeepsEntries
    <2>4. s # <<>> => t # <<>> /\ 1 \in 1 .. Len(s)
      BY <2>2, <2>3, EmptySeq
    <2>5. request'[c] = r
      BY <1>1
    <2>. HIDE DEF t
    <2>6. r \in RequestState
      BY <2>1, <2>3 DEF RequestState
    <2>7. /\ r.pc = request[c].pc /\ r.snapshot = t /\ r.seen = request[c].seen
          /\ r.tried = request[c].tried /\ r.result = request[c].result
          /\ r.errors = request[c].errors
      BY <2>1 DEF RequestState
    <2>8. PassSound(r, connection, head)
      <3>1. \A i \in 1 .. Len(t) : Reached(t[i], head)
        BY <2>1, <2>3 DEF PassSound, Reached
      <3>2. request[c].pc \in {"ask", "check", "stalled", "match"} =>
              t # <<>> /\ t[1].index = s[1].index
        BY <2>1, <2>3, <2>4 DEF PassSound
      <3>3. \A p \in Providers : (\E i \in 1 .. Len(s) : s[i].index = p) =>
                                 \E i \in 1 .. Len(t) : t[i].index = p
        BY <2>3
      <3>. HIDE DEF r
      <3>. QED
        BY <2>1, <2>7, <3>1, <3>2, <3>3 DEF PassSound
    <2>. QED
      BY <2>5, <2>6, <2>8
  <1>5. ProvidersTyped'
    BY <1>1, <1>4 DEF PrioritiesInv, ProvidersTyped
  <1>6. Listed(priorities)'
    BY <1>3 DEF Listed
  <1>. QED
    BY <1>1, <1>3, <1>4, <1>5, <1>6 DEF PrioritiesInv

LEMMA ProvidersStutter ==
    ASSUME PrioritiesInv, UNCHANGED providerVars
    PROVE  PrioritiesInv'
  <1>1. UNCHANGED <<connection, head, priorities, request>>
    BY DEF providerVars
  <1>2. ProvidersTyped' /\ Listed(priorities)'
    BY <1>1 DEF PrioritiesInv, ProvidersTyped, Listed
  <1>. QED
    BY <1>1, <1>2 DEF PrioritiesInv

(* What the list and the requests keep gives the three promises. *)
LEMMA PrioritiesInvSuffices == PrioritiesInv => FallbackSound
  <1> SUFFICES ASSUME PrioritiesInv
               PROVE  FallbackSound
    OBVIOUS
  <1>1. /\ priorities \in Seq(Entry) /\ Len(priorities) = ProviderCount
        /\ DOMAIN priorities = 1 .. Len(priorities)
    BY DEF PrioritiesInv, Listed
  <1>2. {priorities[i].index : i \in DOMAIN priorities} = Providers
    <2>1. \A i \in DOMAIN priorities : priorities[i].index \in Providers
      <3>1. \A i \in DOMAIN priorities : priorities[i] \in Entry
        BY <1>1, ElementOfSeq
      <3>. QED
        BY <3>1 DEF Entry
    <2>2. \A p \in Providers : \E i \in DOMAIN priorities : priorities[i].index = p
      BY <1>1 DEF PrioritiesInv, Listed
    <2>. QED
      BY <2>1, <2>2
  <1>3. RecordedHeightsReached
    BY <1>1 DEF PrioritiesInv, Reached, RecordedHeightsReached
  <1>4. AllProvidersAsked
    BY DEF PrioritiesInv, PassSound, AllProvidersAsked
  <1>. QED
    BY <1>1, <1>2, <1>3, <1>4 DEF FallbackSound, PrioritiesComplete

(* The requests of any number of tasks share one list of priorities and    *)
(* put stale entries back into it, yet every provider stays in it once, no *)
(* recorded height is one that its node has not reported, and no request   *)
(* fails before every provider was asked and four errors were met.         *)
THEOREM ProvidersStaySound == ProvidersSpec => []FallbackSound
  <1>1. PrioritiesInv /\ [Next_Providers]_providerVars => PrioritiesInv'
    <2> SUFFICES ASSUME PrioritiesInv, [Next_Providers]_providerVars
                 PROVE  PrioritiesInv'
      OBVIOUS
    <2>1. ASSUME NEW c \in RpcCallers, StartRequest(c)
          PROVE  PrioritiesInv'
      BY <2>1, StartRequestStep
    <2>2. ASSUME NEW c \in RpcCallers, RequestStep(c)
          PROVE  PrioritiesInv'
      BY <2>2, StartPassStep, AskStep, CheckStalledStep, StalledStep, MatchAnswerStep
         DEF RequestStep
    <2>3. ASSUME NEW p \in Providers, HeadAdvances(p)
          PROVE  PrioritiesInv'
      BY <2>3, HeadAdvancesStep
    <2>4. CASE Elapse
      BY <2>4, ElapseStep
    <2>5. CASE UNCHANGED providerVars
      BY <2>5, ProvidersStutter
    <2>. QED
      BY <2>1, <2>2, <2>3, <2>4, <2>5 DEF Next_Providers
  <1>. QED
    BY <1>1, ProvidersInit, PrioritiesInvSuffices, PTL DEF ProvidersSpec

-----------------------------------------------------------------------------
(* The gas payment enforcer                                                *)

(* The policy that decides, and whether it asks for gas in every estimate. *)
Deciding == policies[Min(Matching)]

Quoting ==
    /\ Matching # {} /\ Deciding.kind = "OnChainFeeQuoting"
    /\ \A e \in Estimates : Required(Deciding, e) > 0

(* The attempt in submit() has a share of the limit that is not used yet. *)
LimitLeft ==
    /\ attempt = NoAttempt => spent <= attempts * GasLimit
    /\ attempt # NoAttempt => /\ spent + GasLimit <= attempts * GasLimit
                              /\ attempt.gas_limit <= GasLimit

(* What was spent is recorded, or its outcome was lost. *)
Recorded == spent <= used + lost * MaxGas

(* The attempt in submit() was paid for when it was approved, and payments *)
(* are never taken back.                                                   *)
PaidFor ==
    Quoting => /\ used <= paid + Overrun(Deciding)
               /\ attempt # NoAttempt => used + Required(Deciding, attempt) <= paid

EnforcerInv == EnforcerTypeOK /\ UnpaidNeverSent /\ LimitLeft /\ Recorded /\ PaidFor

-----------------------------------------------------------------------------
(* Finite sets have maxima                                                 *)

(* One element of a finite set has the greatest value: a smallest subset   *)
(* without one would have a smaller one without one.                       *)
LEMMA Greatest ==
    ASSUME NEW S, IsFiniteSet(S), S # {}, NEW f \in [S -> Int]
    PROVE  \E x \in S : \A y \in S : f[y] <= f[x]
  <1>. DEFINE Has(T) == \E x \in T : \A y \in T : f[y] <= f[x]
              Bad == {T \in SUBSET S : T # {} /\ ~Has(T)}
  <1>1. SUFFICES ASSUME ~Has(S) PROVE FALSE
    OBVIOUS
  <1>2. Bad # {} /\ Bad \subseteq FiniteSubsetsOf(S)
    BY <1>1, FS_FiniteSubsetsOfFinite
  <1>. HIDE DEF Has
  <1>3. PICK T \in Bad : \A U \in Bad : ~(<<U, T>> \in StrictSubsetOrdering(S))
    <2>. HIDE DEF Bad
    <2>. QED
      BY <1>2, FS_StrictSubsetOrderingWellFounded, WFMin
  <1>4. PICK x \in T : TRUE
    OBVIOUS
  <1>. DEFINE U == T \ {x}
  <1>5. CASE U = {}
    <2>1. \A y \in T : f[y] <= f[x]
      BY <1>5
    <2>. QED
      BY <2>1 DEF Has
  <1>6. CASE U # {}
    <2>1. U \notin Bad
      BY <1>3 DEF StrictSubsetOrdering
    <2>2. PICK z \in U : \A y \in U : f[y] <= f[z]
      BY <1>6, <2>1 DEF Has
    <2>3. CASE f[x] <= f[z]
      <3>1. z \in T /\ \A y \in T : f[y] <= f[z]
        BY <2>2, <2>3
      <3>. QED
        BY <3>1 DEF Has
    <2>4. CASE ~(f[x] <= f[z])
      <3>1. \A y \in T : f[y] <= f[x]
        BY <2>2, <2>4
      <3>. QED
        BY <3>1 DEF Has
    <2>. QED
      BY <2>3, <2>4
  <1>. QED
    BY <1>5, <1>6

(* Max of FiniteSetsExt, where there is a maximum. *)
LEMMA MaxIs ==
    ASSUME NEW S \in SUBSET Int, NEW m \in S, \A y \in S : y <= m
    PROVE  Max(S) \in S /\ \A y \in S : y <= Max(S)
  <1>1. \A y \in S : m >= y
    OBVIOUS
  <1>2. Max(S) \in S /\ \A y \in S : Max(S) >= y
    BY <1>1 DEF Max
  <1>. QED
    BY <1>2

(* The policy that decides is one of the list. *)
LEMMA MinIs ==
    ASSUME NEW S \in SUBSET Int, IsFiniteSet(S), S # {}
    PROVE  Min(S) \in S
  <1>. DEFINE f == [x \in S |-> -x]
  <1>1. f \in [S -> Int]
    OBVIOUS
  <1>2. PICK m \in S : \A k \in S : f[k] <= f[m]
    <2>. HIDE DEF f
    <2>. QED
      BY <1>1, Greatest
  <1>3. \A k \in S : m =< k
    BY <1>2
  <1>. QED
    BY <1>3 DEF Min

(* No estimate is above MaxGas. *)
LEMMA MaxGasBounds ==
    MaxGas \in Nat /\ \A e \in Estimates : e.gas_limit <= MaxGas
  <1>. DEFINE f == [e \in Estimates |-> e.gas_limit]
              S == {e.gas_limit : e \in Estimates}
  <1>1. /\ IsFiniteSet(Estimates) /\ Estimates # {}
        /\ \A e \in Estimates : e.gas_limit \in Nat
    BY GasEnforcerAssumption
  <1>2. f \in [Estimates -> Int]
    BY <1>1
  <1>3. PICK x \in Estimates : \A y \in Estimates : f[y] <= f[x]
    <2>. HIDE DEF f
    <2>. QED
      BY <1>1, <1>2, Greatest
  <1>4. x.gas_limit \in S /\ S \in SUBSET Int /\ S \subseteq Nat /\ \A y \in S : y <= x.gas_limit
    BY <1>1, <1>3
  <1>5. Max(S) \in S /\ \A y \in S : y <= Max(S)
    <2>. HIDE DEF S
    <2>. QED
      BY <1>4, MaxIs
  <1>. QED
    BY <1>4, <1>5 DEF MaxGas

(* The overrun bounds what any estimate may exceed its requirement by. *)
LEMMA OverrunBounds ==
    ASSUME NEW policy, \A e \in Estimates : Required(policy, e) \in Int
    PROVE  /\ Overrun(policy) \in Nat
           /\ \A e \in Estimates : e.gas_limit - Required(policy, e) <= Overrun(policy)
  <1>. DEFINE over(e) == e.gas_limit - Required(policy, e)
              f == [e \in Estimates |-> over(e)]
              S == {0} \cup {over(e) : e \in Estimates}
  <1>1. /\ IsFiniteSet(Estimates) /\ Estimates # {}
        /\ \A e \in Estimates : over(e) \in Int
    BY GasEnforcerAssumption
  <1>. HIDE DEF over
  <1>2. f \in [Estimates -> Int]
    BY <1>1
  <1>3. PICK x \in Estimates : \A y \in Estimates : f[y] <= f[x]
    <2>. HIDE DEF f
    <2>. QED
      BY <1>1, <1>2, Greatest
  <1>4. \A e \in Estimates : over(e) <= over(x)
    BY <1>3
  <1>5. S \in SUBSET Int
    BY <1>1
  <1>6. \E m \in S : \A y \in S : y <= m
    <2>1. CASE over(x) <= 0
      <3>1. 0 \in S /\ \A y \in S : y <= 0
        BY <1>1, <1>4, <2>1
      <3>. QED
        BY <3>1
    <2>2. CASE ~(over(x) <= 0)
      <3>1. over(x) \in S /\ \A y \in S : y <= over(x)
        BY <1>1, <1>4, <2>2
      <3>. QED
        BY <3>1
    <2>. QED
      BY <2>1, <2>2
  <1>7. Max(S) \in S /\ \A y \in S : y <= Max(S)
    <2>. HIDE DEF S
    <2>. QED
      BY <1>5, <1>6, MaxIs
  <1>8. Max(S) \in Int /\ 0 <= Max(S) /\ \A e \in Estimates : over(e) <= Max(S)
    BY <1>5, <1>7
  <1>9. Overrun(policy) = Max(S)
    BY DEF Overrun, over
  <1>. QED
    BY <1>8, <1>9 DEF over

LEMMA DecidingIsPolicy ==
    ASSUME policies \in PolicyLists, Matching # {}
    PROVE  Deciding \in Policy
  <1>1. policies \in Seq(Policy)
    BY GasEnforcerAssumption
  <1>2. Matching \subseteq 1 .. Len(policies) /\ 1 .. Len(policies) \subseteq Int
    BY <1>1 DEF Matching
  <1>3. IsFiniteSet(Matching)
    <2>1. 1 \in Int /\ Len(policies) \in Int
      BY <1>1
    <2>2. IsFiniteSet(1 .. Len(policies))
      BY <2>1, FS_Interval
    <2>. QED
      BY <1>2, <2>2, FS_Subset
  <1>4. Min(Matching) \in 1 .. Len(policies)
    BY <1>2, <1>3, MinIs
  <1>5. \A i \in 1 .. Len(policies) : policies[i] \in Policy
    BY <1>1
  <1>. QED
    BY <1>4, <1>5 DEF Deciding

(* A requirement is a natural number. *)
LEMMA RequiredIsNat ==
    ASSUME NEW policy \in Policy, policy.kind = "OnChainFeeQuoting",
           NEW e \in Estimates
    PROVE  Required(policy, e) \in Nat
  <1>1. policy.numerator \in Nat /\ policy.denominator \in Nat \ {0}
    BY DEF Policy
  <1>2. e.enforceable \in Nat
    BY GasEnforcerAssumption
  <1>3. e.enforceable * policy.numerator \in Nat
    BY <1>1, <1>2
  <1>. QED
    BY <1>1, <1>3 DEF Required

(* The two products of the invariant, one step on. *)
LEMMA OneMore ==
    ASSUME NEW n \in Nat, NEW k \in Nat
    PROVE  n * k \in Nat /\ (n + 1) * k = n * k + k
  OBVIOUS

-----------------------------------------------------------------------------
(* Every step keeps the invariant                                          *)

(* What a quoting policy asks for is a number, and so is its overrun. *)
LEMMA QuotingTyped ==
    ASSUME policies \in PolicyLists, Quoting
    PROVE  /\ \A e \in Estimates : Required(Deciding, e) \in Nat
           /\ Overrun(Deciding) \in Nat
           /\ \A e \in Estimates :
                e.gas_limit <= Required(Deciding, e) + Overrun(Deciding)
  <1>1. Deciding \in Policy /\ Deciding.kind = "OnChainFeeQuoting"
    BY DecidingIsPolicy DEF Quoting
  <1>2. \A e \in Estimates : Required(Deciding, e) \in Nat
    BY <1>1, RequiredIsNat
  <1>3. /\ Overrun(Deciding) \in Nat
        /\ \A e \in Estimates :
            e.gas_limit - Required(Deciding, e) <= Overrun(Deciding)
    BY <1>2, OverrunBounds
  <1>4. \A e \in Estimates : e.gas_limit \in Nat
    BY GasEnforcerAssumption
  <1>. QED
    BY <1>2, <1>3, <1>4

(* The policies never change, and with them what they ask for. *)
LEMMA PoliciesFixed ==
    ASSUME UNCHANGED policies
    PROVE  /\ Matching' = Matching /\ Deciding' = Deciding
           /\ Quoting' <=> Quoting
  BY DEF Matching, Deciding, Quoting

(* The parts of the invariant, with the deciding policy by name. *)
LEMMA UnpaidMeans ==
    UnpaidNeverSent <=>
        (attempts > 0 =>
            /\ Matching # {}
            /\ Deciding.kind = "Minimum" => paid >= Deciding.payment
            /\ Quoting => paid > 0)
  BY DEF UnpaidNeverSent, Deciding, Quoting

LEMMA UnpaidMeansNext ==
    UnpaidNeverSent' <=>
        (attempts' > 0 =>
            /\ Matching' # {}
            /\ Deciding'.kind = "Minimum" => paid' >= Deciding'.payment
            /\ Quoting' => paid' > 0)
  BY DEF UnpaidNeverSent, Deciding, Quoting

LEMMA EnforcerInit == Init_Enforcer => EnforcerInv
  <1>. SUFFICES ASSUME Init_Enforcer PROVE EnforcerInv
    OBVIOUS
  <1>1. EnforcerTypeOK
    <2>1. 0 \in 0 .. MaxPaid /\ 0 \in 0 .. MaxAttempts /\ 0 \in 0 .. MaxLost
      BY GasEnforcerAssumption
    <2>. QED
      BY <2>1 DEF Init_Enforcer, EnforcerTypeOK
  <1>2. UnpaidNeverSent
    BY DEF Init_Enforcer, UnpaidNeverSent
  <1>3. LimitLeft
    BY GasEnforcerAssumption DEF Init_Enforcer, LimitLeft
  <1>4. Recorded
    BY MaxGasBounds DEF Init_Enforcer, Recorded
  <1>5. PaidFor
    BY QuotingTyped DEF Init_Enforcer, PaidFor
  <1>. QED
    BY <1>1, <1>2, <1>3, <1>4, <1>5 DEF EnforcerInv

(* A payment only adds to what is paid. *)
LEMMA PayStep ==
    ASSUME EnforcerInv, NEW amount \in 1 .. MaxPaid, Pay(amount)
    PROVE  EnforcerInv'
  <1>. USE DEF Pay
  <1>1. EnforcerTypeOK'
    BY GasEnforcerAssumption DEF EnforcerInv, EnforcerTypeOK
  <1>2. paid \in Nat /\ used \in Nat /\ paid' \in Nat /\ paid < paid'
    BY <1>1, GasEnforcerAssumption DEF EnforcerInv, EnforcerTypeOK
  <1>3. UnpaidNeverSent'
    <2>1. CASE attempts' > 0
      <3>1. /\ Matching # {}
            /\ Deciding.kind = "Minimum" => paid >= Deciding.payment
        BY <2>1, UnpaidMeans DEF EnforcerInv
      <3>2. Deciding.kind = "Minimum" => paid' >= Deciding.payment
        <4>1. Deciding \in Policy
          BY <3>1, DecidingIsPolicy DEF EnforcerInv, EnforcerTypeOK
        <4>2. Deciding.kind = "Minimum" => Deciding.payment \in Nat
          BY <4>1 DEF Policy
        <4>. QED
          BY <1>2, <3>1, <4>2
      <3>. QED
        BY <1>2, <3>1, <3>2, PoliciesFixed, UnpaidMeansNext
    <2>. QED
      BY <2>1, UnpaidMeansNext
  <1>4. LimitLeft'
    BY DEF EnforcerInv, LimitLeft
  <1>5. Recorded'
    BY DEF EnforcerInv, Recorded
  <1>6. PaidFor'
    <2>. SUFFICES ASSUME Quoting
                  PROVE  /\ used <= paid' + Overrun(Deciding)
                         /\ attempt # NoAttempt => used + Required(Deciding, attempt) <= paid'
      BY PoliciesFixed DEF PaidFor
    <2>1. Overrun(Deciding) \in Nat /\ used <= paid + Overrun(Deciding)
      BY QuotingTyped DEF EnforcerInv, EnforcerTypeOK, PaidFor
    <2>2. attempt # NoAttempt => /\ Required(Deciding, attempt) \in Nat
                                 /\ used + Required(Deciding, attempt) <= paid
      BY QuotingTyped DEF EnforcerInv, EnforcerTypeOK, PaidFor
    <2>. QED
      BY <1>2, <2>1, <2>2
  <1>. QED
    BY <1>1, <1>3, <1>4, <1>5, <1>6 DEF EnforcerInv

(* An approved attempt fits what is paid and not used yet. *)
LEMMA PrepareStep ==
    ASSUME EnforcerInv, NEW e \in Estimates, Prepare(e)
    PROVE  EnforcerInv'
  <1>. USE DEF Prepare
  <1>1. EnforcerTypeOK'
    BY GasEnforcerAssumption DEF EnforcerInv, EnforcerTypeOK
  <1>2. paid \in Nat /\ used \in Nat /\ spent \in Nat /\ attempts \in Nat
    BY GasEnforcerAssumption DEF EnforcerInv, EnforcerTypeOK
  <1>3. /\ Matching # {} /\ Approves(Deciding, e)
    BY DEF MeetsRequirement, Deciding
  <1>4. Deciding \in Policy
    BY <1>3, DecidingIsPolicy DEF EnforcerInv, EnforcerTypeOK
  <1>5. Deciding.kind = "Minimum" => paid >= Deciding.payment
    BY <1>3 DEF Approves
  <1>6. Quoting => used + Required(Deciding, e) <= paid /\ paid > 0
    <2>. SUFFICES ASSUME Quoting
                  PROVE  used + Required(Deciding, e) <= paid /\ paid > 0
      OBVIOUS
    <2>1. Remaining >= Required(Deciding, e)
      BY <1>3 DEF Approves, Quoting
    <2>2. Required(Deciding, e) \in Nat /\ Required(Deciding, e) > 0
      BY QuotingTyped DEF EnforcerInv, EnforcerTypeOK, Quoting
    <2>. QED
      BY <1>2, <2>1, <2>2 DEF Remaining
  <1>7. UnpaidNeverSent'
    BY <1>3, <1>5, <1>6, PoliciesFixed, UnpaidMeansNext
  <1>8. LimitLeft'
    <2>1. spent <= attempts * GasLimit
      BY DEF EnforcerInv, LimitLeft
    <2>2. attempts * GasLimit \in Nat /\ attempts' * GasLimit = attempts * GasLimit + GasLimit
      BY <1>2, OneMore, GasEnforcerAssumption
    <2>3. spent + GasLimit <= attempts' * GasLimit /\ spent <= attempts' * GasLimit
      BY <1>2, <2>1, <2>2, GasEnforcerAssumption
    <2>. QED
      BY <2>3 DEF LimitLeft
  <1>9. Recorded'
    BY DEF EnforcerInv, Recorded
  <1>10. PaidFor'
    BY <1>6, PoliciesFixed DEF EnforcerInv, PaidFor
  <1>. QED
    BY <1>1, <1>7, <1>8, <1>9, <1>10 DEF EnforcerInv

(* The gas of an attempt is within its limit and the limit of the settings. *)
LEMMA AttemptTyped ==
    ASSUME EnforcerInv, attempt # NoAttempt, NEW gas \in 0 .. MaxGas,
           gas <= attempt.gas_limit
    PROVE  /\ attempt \in Estimates
           /\ paid \in Nat /\ used \in Nat /\ spent \in Nat /\ lost \in Nat
           /\ attempts \in Nat /\ gas \in Nat /\ attempt.gas_limit \in Nat
           /\ spent + gas <= attempts * GasLimit
           /\ lost * MaxGas \in Nat
  <1>1. attempt \in Estimates
    BY DEF EnforcerInv, EnforcerTypeOK
  <1>2. attempt.gas_limit \in Nat
    BY <1>1, GasEnforcerAssumption
  <1>3. /\ paid \in Nat /\ used \in Nat /\ spent \in Nat /\ lost \in Nat
        /\ attempts \in Nat /\ gas \in Nat
    BY GasEnforcerAssumption, MaxGasBounds DEF EnforcerInv, EnforcerTypeOK
  <1>4. attempts * GasLimit \in Nat /\ lost * MaxGas \in Nat
    BY <1>3, OneMore, GasEnforcerAssumption, MaxGasBounds
  <1>5. spent + GasLimit <= attempts * GasLimit /\ attempt.gas_limit <= GasLimit
    BY DEF EnforcerInv, LimitLeft
  <1>. QED
    BY <1>1, <1>2, <1>3, <1>4, <1>5, GasEnforcerAssumption

(* A recorded outcome adds as much to the expenditure as was spent. *)
LEMMA OutcomeStep ==
    ASSUME EnforcerInv, NEW gas \in 0 .. MaxGas, NEW executed \in BOOLEAN,
           Outcome(gas, executed)
    PROVE  EnforcerInv'
  <1>. USE DEF Outcome
  <1>1. /\ attempt \in Estimates
        /\ paid \in Nat /\ used \in Nat /\ spent \in Nat /\ lost \in Nat
        /\ attempts \in Nat /\ gas \in Nat /\ attempt.gas_limit \in Nat
        /\ spent + gas <= attempts * GasLimit
        /\ lost * MaxGas \in Nat
    BY AttemptTyped
  <1>2. EnforcerTypeOK'
    BY <1>1 DEF EnforcerInv, EnforcerTypeOK
  <1>3. UnpaidNeverSent'
    BY PoliciesFixed, UnpaidMeans, UnpaidMeansNext DEF EnforcerInv
  <1>4. LimitLeft'
    BY <1>1 DEF LimitLeft
  <1>5. Recorded'
    BY <1>1 DEF EnforcerInv, Recorded
  <1>6. PaidFor'
    <2>. SUFFICES ASSUME Quoting PROVE used + gas <= paid + Overrun(Deciding)
      BY PoliciesFixed DEF PaidFor
    <2>1. used + Required(Deciding, attempt) <= paid
      BY DEF EnforcerInv, PaidFor
    <2>2. /\ Required(Deciding, attempt) \in Nat /\ Overrun(Deciding) \in Nat
          /\ attempt.gas_limit <= Required(Deciding, attempt) + Overrun(Deciding)
      BY <1>1, QuotingTyped DEF EnforcerInv, EnforcerTypeOK
    <2>. QED
      BY <1>1, <2>1, <2>2
  <1>. QED
    BY <1>2, <1>3, <1>4, <1>5, <1>6 DEF EnforcerInv

(* A lost outcome adds at most MaxGas to what is not recorded. *)
LEMMA OutcomeLostStep ==
    ASSUME EnforcerInv, NEW gas \in 0 .. MaxGas, NEW executed \in BOOLEAN,
           OutcomeLost(gas, executed)
    PROVE  EnforcerInv'
  <1>. USE DEF OutcomeLost
  <1>1. /\ attempt \in Estimates
        /\ paid \in Nat /\ used \in Nat /\ spent \in Nat /\ lost \in Nat
        /\ attempts \in Nat /\ gas \in Nat /\ attempt.gas_limit \in Nat
        /\ spent + gas <= attempts * GasLimit
        /\ lost * MaxGas \in Nat
    BY AttemptTyped
  <1>2. EnforcerTypeOK'
    BY <1>1, GasEnforcerAssumption DEF EnforcerInv, EnforcerTypeOK
  <1>3. UnpaidNeverSent'
    BY PoliciesFixed, UnpaidMeans, UnpaidMeansNext DEF EnforcerInv
  <1>4. LimitLeft'
    BY <1>1 DEF LimitLeft
  <1>5. Recorded'
    <2>1. lost' * MaxGas = lost * MaxGas + MaxGas
      BY <1>1, OneMore, MaxGasBounds
    <2>2. spent <= used + lost * MaxGas
      BY DEF EnforcerInv, Recorded
    <2>3. spent + gas <= used + (lost * MaxGas + MaxGas)
      BY <1>1, <2>2, MaxGasBounds
    <2>. QED
      BY <2>1, <2>3 DEF Recorded
  <1>6. PaidFor'
    BY PoliciesFixed DEF EnforcerInv, PaidFor
  <1>. QED
    BY <1>2, <1>3, <1>4, <1>5, <1>6 DEF EnforcerInv

LEMMA EnforcerNext == EnforcerInv /\ [Next_Enforcer]_enforcerVars => EnforcerInv'
  <1>. SUFFICES ASSUME EnforcerInv, [Next_Enforcer]_enforcerVars PROVE EnforcerInv'
    OBVIOUS
  <1>1. CASE \E amount \in 1 .. MaxPaid : Pay(amount)
    BY <1>1, PayStep
  <1>2. CASE \E e \in Estimates : Prepare(e)
    BY <1>2, PrepareStep
  <1>3. CASE \E gas \in 0 .. MaxGas, executed \in BOOLEAN :
                Outcome(gas, executed) \/ OutcomeLost(gas, executed)
    BY <1>3, OutcomeStep, OutcomeLostStep
  <1>4. CASE UNCHANGED enforcerVars
    BY <1>4, PoliciesFixed, UnpaidMeans, UnpaidMeansNext
       DEF enforcerVars, EnforcerInv, EnforcerTypeOK, LimitLeft, Recorded, PaidFor
  <1>. QED
    BY <1>1, <1>2, <1>3, <1>4 DEF Next_Enforcer

-----------------------------------------------------------------------------
(* The bounds follow: what was spent is recorded or lost, and what is      *)
(* recorded was paid for but for one overrun.                              *)
LEMMA EnforcerInvSuffices == EnforcerInv => EnforcerSound
  <1>. SUFFICES ASSUME EnforcerInv PROVE EnforcerSound
    OBVIOUS
  <1>1. /\ paid \in Nat /\ used \in Nat /\ spent \in Nat /\ lost * MaxGas \in Nat
        /\ attempts * GasLimit \in Nat
    BY OneMore, GasEnforcerAssumption, MaxGasBounds DEF EnforcerInv, EnforcerTypeOK
  <1>2. SpendingBounded
    <2>. SUFFICES ASSUME Quoting
                  PROVE  spent <= paid + Overrun(Deciding) + lost * MaxGas
      BY DEF SpendingBounded, Quoting, Deciding
    <2>1. Overrun(Deciding) \in Nat
      BY QuotingTyped DEF EnforcerInv, EnforcerTypeOK
    <2>2. used <= paid + Overrun(Deciding) /\ spent <= used + lost * MaxGas
      BY DEF EnforcerInv, PaidFor, Recorded
    <2>. QED
      BY <1>1, <2>1, <2>2
  <1>3. SpendingLimited
    <2>1. CASE attempt = NoAttempt
      BY <2>1 DEF EnforcerInv, LimitLeft, SpendingLimited
    <2>2. CASE attempt # NoAttempt
      <3>1. spent + GasLimit <= attempts * GasLimit
        BY <2>2 DEF EnforcerInv, LimitLeft
      <3>. QED
        BY <1>1, <3>1, GasEnforcerAssumption DEF SpendingLimited
    <2>. QED
      BY <2>1, <2>2
  <1>. QED
    BY <1>2, <1>3 DEF EnforcerInv, EnforcerSound

(* GasPaymentEnforcer: whatever the policies, the estimates and the order  *)
(* of payments, attempts and lost outcomes, the relayer never sends what   *)
(* is not paid for, never spends more than the limit allows, and under     *)
(* OnChainFeeQuoting spends at most one overrun more than was paid, lost   *)
(* outcomes apart.                                                         *)
THEOREM EnforcerIsSound == EnforcerSpec => []EnforcerSound
  <1>1. Init_Enforcer => EnforcerInv
    BY EnforcerInit
  <1>2. EnforcerInv /\ [Next_Enforcer]_enforcerVars => EnforcerInv'
    BY EnforcerNext
  <1>3. EnforcerInv => EnforcerSound
    BY EnforcerInvSuffices
  <1>. QED
    BY <1>1, <1>2, <1>3, PTL DEF EnforcerSpec

-----------------------------------------------------------------------------
(* The gas payment sync: the inductive invariant                           *)

(* Payments from the configured block on and before block b are in S. *)
Before(b, S) ==
    \A i \in DOMAIN payments : FromBlock <= payments[i] /\ payments[i] < b => i \in S

(* No cursor is beyond the first block that can still be mined. *)
NotAhead(b) == b <= FromBlock \/ b <= tip + 1

(* A range in progress ends where the cursor is now. *)
RangeFits ==
    pc \in {"fetch", "store"} =>
        range[1] <= range[2] /\ next_block = range[2] + 1 /\ range[2] <= tip

(* Everything the cursor has passed is recorded, or fetched and waiting. *)
CursorCovers ==
    /\ NotAhead(watermark) /\ Before(watermark, processed)
    /\ pc # "down" => NotAhead(start_block) /\ Before(start_block, processed)
    /\ pc # "down" => NotAhead(next_block)
    /\ pc = "next" => Before(next_block, processed)
    /\ pc = "fetch" => Before(range[1], processed)
    /\ pc = "store" => Before(next_block, processed \cup todo)

PaymentsInv == TypeOK /\ CountedAtMostOnce /\ RangeFits /\ CursorCovers

-----------------------------------------------------------------------------
(* The chain                                                               *)

(* Appending n equal elements keeps those there were. *)
LEMMA AppendEqual ==
    ASSUME NEW S, NEW s \in Seq(S), NEW e \in S, NEW n \in Nat,
           NEW t, t = s \o [i \in 1 .. n |-> e]
    PROVE  /\ t \in Seq(S) /\ Len(t) = Len(s) + n
           /\ DOMAIN s \subseteq DOMAIN t
           /\ \A i \in DOMAIN s : t[i] = s[i]
           /\ \A i \in DOMAIN t : i \notin DOMAIN s => t[i] = e
  <1>. DEFINE new == [i \in 1 .. n |-> e]
  <1>1. new \in Seq(S) /\ Len(new) = n
    OBVIOUS
  <1>2. \A i \in 1 .. n : new[i] = e
    OBVIOUS
  <1>. HIDE DEF new
  <1>3. t = s \o new
    BY DEF new
  <1>4. /\ t \in Seq(S) /\ Len(t) = Len(s) + n
        /\ \A i \in 1 .. Len(s) + n : t[i] = IF i <= Len(s) THEN s[i] ELSE new[i - Len(s)]
    <2>1. /\ s \o new \in Seq(S) /\ Len(s \o new) = Len(s) + Len(new)
          /\ \A i \in 1 .. Len(s) + Len(new) :
               (s \o new)[i] = IF i <= Len(s) THEN s[i] ELSE new[i - Len(s)]
      BY <1>1, ConcatProperties
    <2>. QED
      BY <1>1, <1>3, <2>1
  <1>5. Len(s) \in Nat /\ DOMAIN s = 1 .. Len(s) /\ DOMAIN t = 1 .. Len(s) + n
    BY <1>4
  <1>6. \A i \in 1 .. Len(s) : t[i] = s[i]
    BY <1>4, <1>5
  <1>7. ASSUME NEW i \in 1 .. Len(s) + n, i \notin 1 .. Len(s) PROVE t[i] = e
    <2>1. i - Len(s) \in 1 .. n /\ ~(i <= Len(s))
      BY <1>5, <1>7
    <2>. QED
      BY <1>2, <1>4, <2>1
  <1>. QED
    BY <1>4, <1>5, <1>6, <1>7

(* Mining appends payments of one new block to those there are. *)
LEMMA MineAppends ==
    ASSUME TypeOK, NEW n \in 0 .. MaxPayments, Mine(n)
    PROVE  /\ payments' \in Seq(1 .. MaxTip) /\ Len(payments') = Len(payments) + n
           /\ DOMAIN payments \subseteq DOMAIN payments'
           /\ \A i \in DOMAIN payments : payments'[i] = payments[i]
           /\ \A i \in DOMAIN payments' : i \notin DOMAIN payments => payments'[i] = tip + 1
  <1>1. tip + 1 \in 1 .. MaxTip /\ n \in Nat /\ payments \in Seq(1 .. MaxTip)
    BY GasPaymentSyncAssumption DEF TypeOK, Mine
  <1>2. payments' = payments \o [i \in 1 .. n |-> tip + 1]
    BY DEF Mine
  <1>. QED
    BY <1>1, <1>2, AppendEqual

-----------------------------------------------------------------------------
(* Type correctness                                                        *)

(* Every step keeps the types. *)
LEMMA TypeStep ==
    ASSUME TypeOK, [Next]_vars
    PROVE  TypeOK'
  <1>. USE GasPaymentSyncAssumption
  <1>1. CASE Start
    BY <1>1 DEF Start, TypeOK, chain, db, NoWatermark
  <1>2. ASSUME NEW t \in 0 .. MaxTip, NextAction(t) PROVE TypeOK'
    <2>1. Smaller(next_block + ChunkSize, t) \in Nat
      BY DEF TypeOK, Smaller
    <2>. QED
      <3>1. range' \in Nat \X Int /\ next_block' \in Nat /\ stale' \in 0 .. MaxStale
        <4>1. range' = <<next_block, Smaller(next_block + ChunkSize, t)>>
              /\ next_block' = Smaller(next_block + ChunkSize, t) + 1
          BY <1>2 DEF NextAction
        <4>2. stale' \in 0 .. MaxStale
          BY <1>2 DEF NextAction, TypeOK
        <4>. QED
          <5>1. next_block \in Nat
            BY DEF TypeOK
          <5>. QED
            BY <2>1, <4>1, <4>2, <5>1
      <3>. QED
        BY <1>2, <3>1 DEF NextAction, TypeOK, chain, db
  <1>3. CASE Fetch
    BY <1>3 DEF Fetch, TypeOK, chain, db
  <1>4. ASSUME NEW i \in PaymentId, Mark(i) PROVE TypeOK'
    BY <1>4 DEF Mark, TypeOK, chain
  <1>5. CASE Add
    <2>1. counted[adding] + 1 \in Nat /\ adding \in PaymentId
      BY <1>5 DEF Add, TypeOK, PaymentId, NoPayment
    <2>. QED
      BY <1>5, <2>1 DEF Add, TypeOK, chain
  <1>6. CASE Update
    BY <1>6 DEF Update, TypeOK, chain, Larger, SaturatingSub
  <1>7. ASSUME NEW n \in 0 .. MaxPayments, Mine(n) PROVE TypeOK'
    <2>1. payments' \in Seq(1 .. MaxTip) /\ DOMAIN payments \subseteq DOMAIN payments'
      BY <1>7, MineAppends
    <2>2. Len(payments') <= MaxPayments
      BY <1>7, MineAppends DEF Mine
    <2>3. tip' \in 0 .. MaxTip
      BY <1>7 DEF Mine, TypeOK
    <2>4. UNCHANGED <<db, task, crashes, stale>>
      BY <1>7 DEF Mine
    <2>. QED
      BY <2>1, <2>2, <2>3, <2>4 DEF TypeOK, db, task
  <1>8. CASE Crash
    BY <1>8 DEF Crash, TypeOK, chain, db
  <1>9. CASE UNCHANGED vars
    BY <1>9 DEF vars, chain, db, task, TypeOK
  <1>. QED
    BY <1>1, <1>2, <1>3, <1>4, <1>5, <1>6, <1>7, <1>8, <1>9 DEF Next, Sync

-----------------------------------------------------------------------------
(* Counting                                                                *)

(* Every step counts a payment only if it was not counted before. *)
LEMMA CountedStep ==
    ASSUME TypeOK, CountedAtMostOnce, [Next]_vars
    PROVE  CountedAtMostOnce'
  <1>1. ASSUME NEW i \in PaymentId, Mark(i) PROVE CountedAtMostOnce'
    BY <1>1 DEF Mark, CountedAtMostOnce, TypeOK
  <1>2. CASE Add
    <2>1. adding \in PaymentId /\ adding \in processed
      BY <1>2, GasPaymentSyncAssumption DEF Add, TypeOK, PaymentId, NoPayment
    <2>2. counted[adding] = 0
      BY <2>1 DEF CountedAtMostOnce, TypeOK
    <2>3. \A i \in PaymentId : counted'[i] = IF i = adding THEN 1 ELSE counted[i]
      BY <1>2, <2>1, <2>2 DEF Add, TypeOK
    <2>. QED
      BY <1>2, <2>1, <2>3 DEF Add, CountedAtMostOnce, PaymentId, NoPayment
  <1>3. CASE Crash
    BY <1>3 DEF Crash, db, CountedAtMostOnce, PaymentId, NoPayment
  <1>4. CASE UNCHANGED <<processed, counted, adding>>
    BY <1>4 DEF CountedAtMostOnce
  <1>. QED
    BY <1>1, <1>2, <1>3, <1>4
       DEF Next, Sync, Start, NextAction, Fetch, Update, Mine, vars, db, task

-----------------------------------------------------------------------------
(* The watermark                                                           *)

(* A cursor that was not ahead covers the payments of a new block too. *)
LEMMA MineKeeps ==
    ASSUME TypeOK, NEW n \in 0 .. MaxPayments, Mine(n),
           NEW b \in Int, NEW S, NotAhead(b), Before(b, S)
    PROVE  NotAhead(b)' /\ Before(b, S)'
  <1>1. tip' = tip + 1 /\ tip \in Nat /\ FromBlock \in Nat
    BY GasPaymentSyncAssumption DEF Mine, TypeOK
  <1>2. NotAhead(b)'
    BY <1>1 DEF NotAhead
  <1>3. ASSUME NEW i \in DOMAIN payments', FromBlock <= payments'[i], payments'[i] < b
        PROVE  i \in S
    <2>1. CASE i \in DOMAIN payments
      BY <1>3, <2>1, MineAppends DEF Before
    <2>2. CASE i \notin DOMAIN payments
      BY <1>1, <1>3, <2>2, MineAppends DEF NotAhead
    <2>. QED
      BY <2>1, <2>2
  <1>. QED
    BY <1>2, <1>3 DEF Before

(* The block of a payment is a number. *)
LEMMA PaymentBlocks ==
    ASSUME TypeOK
    PROVE  \A i \in DOMAIN payments : payments[i] \in Nat
  BY GasPaymentSyncAssumption DEF TypeOK

(* Covering is monotonic: in the blocks and in the set. *)
LEMMA BeforeMonotonic ==
    ASSUME TypeOK, NEW a \in Int, NEW b \in Int, a <= b, NEW S, NEW T, S \subseteq T, Before(b, S)
    PROVE  Before(a, T)
  BY GasPaymentSyncAssumption, PaymentBlocks DEF Before

(* Every step keeps the range in line with the cursor. *)
LEMMA RangeStep ==
    ASSUME TypeOK, RangeFits, [Next]_vars
    PROVE  RangeFits'
  <1>1. ASSUME NEW t \in 0 .. MaxTip, NextAction(t) PROVE RangeFits'
    BY <1>1, GasPaymentSyncAssumption
       DEF NextAction, TypeOK, RangeFits, chain, Smaller
  <1>2. ASSUME NEW n \in 0 .. MaxPayments, Mine(n) PROVE RangeFits'
    BY <1>2 DEF Mine, TypeOK, task, RangeFits
  <1>3. CASE Start \/ Update \/ Crash
    BY <1>3 DEF Start, Update, Crash, RangeFits
  <1>4. CASE Fetch
    BY <1>4 DEF Fetch, chain, RangeFits
  <1>5. CASE UNCHANGED <<tip, pc, range, next_block>>
    BY <1>5 DEF RangeFits
  <1>. QED
    BY <1>1, <1>2, <1>3, <1>4, <1>5 DEF Next, Sync, Mark, Add, vars, chain, task

(* Every step moves the cursor and the watermark only past payments that   *)
(* are recorded, or fetched and waiting to be.                             *)
LEMMA CursorStep ==
    ASSUME TypeOK, TypeOK', RangeFits, CursorCovers, [Next]_vars
    PROVE  CursorCovers'
  <1>. USE GasPaymentSyncAssumption
  <1>1. CASE Start
    <2>1. Before(FromBlock, processed)
      BY PaymentBlocks DEF Before
    <2>. QED
      BY <1>1, <2>1 DEF Start, chain, db, CursorCovers, NotAhead, Before
  <1>2. ASSUME NEW t \in 0 .. MaxTip, NextAction(t) PROVE CursorCovers'
    <2>. DEFINE to == Smaller(next_block + ChunkSize, t)
    <2>0. tip \in Nat /\ next_block \in Nat
      BY DEF TypeOK
    <2>1. to \in Nat /\ to <= tip
      BY <1>2 DEF NextAction, TypeOK, Smaller
    <2>2. NotAhead(to + 1)
      BY <2>0, <2>1 DEF NotAhead
    <2>3. pc = "next" /\ next_block' = to + 1 /\ range' = <<next_block, to>>
          /\ pc' = (IF next_block <= to THEN "fetch" ELSE "next")
          /\ UNCHANGED <<tip, payments, processed, watermark, start_block>>
      BY <1>2 DEF NextAction, chain, db
    <2>4. Before(next_block, processed)
      BY <2>3 DEF CursorCovers
    <2>5. CASE next_block <= to
      BY <2>2, <2>3, <2>4, <2>5 DEF CursorCovers, NotAhead, Before
    <2>6. CASE ~(next_block <= to)
      <3>1. Before(to + 1, processed)
        <4>1. to + 1 <= next_block /\ to + 1 \in Int /\ next_block \in Int
          BY <2>0, <2>1, <2>6
        <4>. HIDE DEF to
        <4>. QED
          BY <2>4, <4>1, BeforeMonotonic
      <3>. QED
        BY <2>2, <2>3, <2>6, <3>1 DEF CursorCovers, NotAhead, Before
    <2>. QED
      BY <2>5, <2>6
  <1>3. CASE Fetch
    <2>1. Before(next_block, processed \cup todo')
      BY <1>3 DEF Fetch, TypeOK, RangeFits, CursorCovers, Before
    <2>. QED
      BY <1>3, <2>1 DEF Fetch, chain, db, CursorCovers, NotAhead, Before
  <1>4. ASSUME NEW i \in PaymentId, Mark(i) PROVE CursorCovers'
    <2>1. pc = "store" /\ processed \subseteq processed'
          /\ processed \cup todo \subseteq processed' \cup todo'
          /\ UNCHANGED <<tip, payments, watermark, pc, start_block, next_block>>
      BY <1>4 DEF Mark, chain
    <2>. QED
      BY <2>1 DEF CursorCovers, NotAhead, Before
  <1>5. CASE Add
    BY <1>5 DEF Add, chain, CursorCovers, NotAhead, Before
  <1>6. CASE Update
    <2>1. Before(next_block, processed) /\ Before(start_block, processed)
      BY <1>6 DEF Update, CursorCovers
    <2>2. NotAhead(next_block) /\ NotAhead(start_block)
      BY <1>6 DEF Update, CursorCovers
    <2>3. watermark' \in Nat /\ (watermark' = start_block \/ watermark' <= next_block)
      BY <1>6 DEF Update, TypeOK, Larger, SaturatingSub
    <2>4. Before(watermark', processed) /\ NotAhead(watermark')
      <3>1. start_block \in Nat /\ next_block \in Nat /\ tip \in Nat
        BY DEF TypeOK
      <3>2. CASE watermark' = start_block
        BY <2>1, <2>2, <3>2
      <3>3. CASE watermark' <= next_block
        <4>1. Before(watermark', processed)
          BY <2>1, <2>3, <3>1, <3>3, BeforeMonotonic
        <4>. QED
          BY <2>2, <2>3, <3>1, <3>3, <4>1 DEF NotAhead
      <3>. QED
        BY <2>3, <3>2, <3>3
    <2>. QED
      BY <1>6, <2>1, <2>2, <2>4 DEF Update, chain, CursorCovers, NotAhead, Before
  <1>7. ASSUME NEW n \in 0 .. MaxPayments, Mine(n) PROVE CursorCovers'
    <2>1. UNCHANGED <<processed, watermark, pc, start_block, next_block, range, todo>>
      BY <1>7 DEF Mine, db, task
    <2>2. watermark \in Int /\ start_block \in Int /\ next_block \in Int /\ range[1] \in Int
      BY DEF TypeOK, NoWatermark
    <2>3. NotAhead(watermark)' /\ Before(watermark, processed)'
      BY <1>7, <2>1, <2>2, MineKeeps DEF CursorCovers, NotAhead, Before
    <2>4. pc # "down" => NotAhead(start_block)' /\ Before(start_block, processed)'
      BY <1>7, <2>1, <2>2, MineKeeps DEF CursorCovers, NotAhead, Before
    <2>5. pc # "down" => NotAhead(next_block)'
      BY <1>7, <2>1, <2>2 DEF Mine, CursorCovers, NotAhead, TypeOK
    <2>6. pc = "next" => Before(next_block, processed)'
      BY <1>7, <2>1, <2>2, MineKeeps DEF CursorCovers, NotAhead, Before
    <2>7. pc = "fetch" => Before(range[1], processed)'
      <3>1. ASSUME pc = "fetch" PROVE NotAhead(range[1])
        <4>1. tip \in Nat /\ range[1] \in Int /\ range[2] \in Int
          BY DEF TypeOK
        <4>. QED
          BY <3>1, <4>1 DEF RangeFits, NotAhead
      <3>. QED
        BY <1>7, <2>1, <2>2, <3>1, MineKeeps DEF CursorCovers, NotAhead, Before
    <2>8. pc = "store" => Before(next_block, processed \cup todo)'
      BY <1>7, <2>1, <2>2, MineKeeps DEF CursorCovers, NotAhead, Before
    <2>. QED
      BY <2>1, <2>3, <2>4, <2>5, <2>6, <2>7, <2>8 DEF CursorCovers
  <1>8. CASE Crash
    BY <1>8 DEF Crash, chain, db, CursorCovers, NotAhead, Before
  <1>9. CASE UNCHANGED vars
    BY <1>9 DEF vars, chain, db, task, CursorCovers, NotAhead, Before
  <1>. QED
    BY <1>1, <1>2, <1>3, <1>4, <1>5, <1>6, <1>7, <1>8, <1>9 DEF Next, Sync

-----------------------------------------------------------------------------
(* The theorems about the gas payment sync                                 *)

(* The invariant holds at the start and is kept by every step. *)
LEMMA PaymentsInvariance == Spec => []PaymentsInv
  <1>1. Init => PaymentsInv
    <2>. SUFFICES ASSUME Init PROVE PaymentsInv
      OBVIOUS
    <2>1. TypeOK
      BY GasPaymentSyncAssumption DEF Init, TypeOK
    <2>2. CountedAtMostOnce
      BY DEF Init, CountedAtMostOnce
    <2>3. RangeFits
      BY DEF Init, RangeFits
    <2>4. CursorCovers
      BY GasPaymentSyncAssumption DEF Init, CursorCovers, NotAhead, Before, NoWatermark
    <2>. QED
      BY <2>1, <2>2, <2>3, <2>4 DEF PaymentsInv
  <1>2. PaymentsInv /\ [Next]_vars => PaymentsInv'
    BY TypeStep, CountedStep, RangeStep, CursorStep DEF PaymentsInv
  <1>. QED
    BY <1>1, <1>2, PTL DEF Spec

(* Every variable of the gas payment sync keeps its type. *)
THEOREM TypeCorrect == Spec => []TypeOK
  BY PaymentsInvariance, PTL DEF PaymentsInv

(* No payment is counted twice, whatever is fetched again. *)
LEMMA NoDoubleCounting == Spec => []CountedAtMostOnce
  BY PaymentsInvariance, PTL DEF PaymentsInv

(* The watermark passes no payment that is not recorded. *)
LEMMA RestartMissesNothing == Spec => []WatermarkConservative
  <1>1. PaymentsInv => WatermarkConservative
    BY DEF PaymentsInv, CursorCovers, Before, WatermarkConservative
  <1>. QED
    BY <1>1, PaymentsInvariance, PTL

(* However often restarts and stale tips make the cursor fetch blocks      *)
(* again, no payment is counted twice and none is passed over.             *)
THEOREM PaymentsCountedExactly == Spec => []PaymentsExact
  <1>1. CountedAtMostOnce /\ WatermarkConservative => PaymentsExact
    BY DEF PaymentsExact
  <1>. QED
    BY <1>1, NoDoubleCounting, RestartMissesNothing, PTL
=============================================================================
